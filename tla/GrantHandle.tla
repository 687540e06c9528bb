----------------------------- MODULE GrantHandle -----------------------------
(***************************************************************************)
(* The Grant handles of packages/sdk/src/client/grant-handle.ts, several   *)
(* of them (tabs, processes, restarts) over one Grant record.  A handle    *)
(* runs one call at a time: revoke() waits for the executions of its own   *)
(* handle and lets none start after it, so that what races a call is what  *)
(* other handles do.  Steps end where the code awaits and another writer   *)
(* can interfere; a read followed by a swap against what was read is one   *)
(* step, as the swap fails when anybody wrote in between.  Where a read    *)
(* outlives its step, `fresh` says that nobody has written the Grant since *)
(* - all that comparing store revisions tells.                             *)
(***************************************************************************)
EXTENDS GrantWorld

CONSTANTS Handles,
          Configured   \* the chains each handle is configured with

ASSUME ConfiguredAssumption == Configured \in [Handles -> SUBSET Chains]

VARIABLES grant,  \* the Grant record
          call    \* the call running in each handle

vars == <<worldVars, grant, call>>

TheBinding == CHOOSE b \in Bindings : TRUE
TheHash == CHOOSE x \in Hashes : TRUE

EvidenceAt(b, at) ==
  [binding |-> TheBinding, block |-> b, hash |-> TheHash, observedAt |-> at]

Material(c) == grant.materializations[c]

\* obs is permissionObservation of revokeChainPermission.
NoObservation == [status |-> "none", block |-> 0, at |-> 0]
Observations == [status : {"none", "present", "absent"}, block : Nat, at : Nat]

ExecutionSteps == {"publish", "authorize", "attempt"}
RevocationSteps == {"invalidate", "chains", "prior", "lane", "run", "fence", "submit",
                    "fallback", "evidence"}

Calls == [pc : {"idle"} \cup ExecutionSteps \cup RevocationSteps,
          chain : Chains \cup {NoChain}, lane : Lanes, mode : {"enable", "standard"},
          id : AllOps \cup {NoOp}, fresh : BOOLEAN, todo : SUBSET Chains,
          obs : Observations]

Idle == [pc |-> "idle", chain |-> NoChain, lane |-> "default", mode |-> "standard",
         id |-> NoOp, fresh |-> FALSE, todo |-> {}, obs |-> NoObservation]

\* A Grant its owner approved and activated; it expires at 1.
ActiveGrant ==
  LET approved == Apply(createGrant(0, 1), [type |-> "approve", at |-> 0])
  IN Apply(approved, [type |-> "activate", at |-> 0])

Init ==
  /\ WorldInit
  /\ grant = ActiveGrant
  /\ call = [h \in Handles |-> Idle]

\* compareAndSwap: every other reader's revision is now old.
Stale == [h \in Handles |-> [call[h] EXCEPT !.fresh = FALSE]]

Goes(h, next) == call' = [call EXCEPT ![h] = next] /\ UNCHANGED grant
Writes(h, g, next) == grant' = g /\ call' = [Stale EXCEPT ![h] = next]
WritesOnly(g) == grant' = g /\ call' = Stale

\* A transition, or none.
Nothing == [type |-> "none"]
Possible(g, t) == IF t = Nothing THEN TRUE ELSE Advances(g, t)
After(g, t) == IF t = Nothing THEN g ELSE Apply(g, t)

-----------------------------------------------------------------------------
(***************************************************************************)
(* Observation of a chain and of the installing operation.                 *)
(***************************************************************************)
\* Mutant: a lagging provider's answer counts, whatever was proven later.
observeChainPermissionMutant(c, installedAt, notBefore) ==
  {NoObservation} \cup
  {[status |-> IF ledger[c][b].installed THEN "present" ELSE "absent", block |-> b, at |-> now] :
     b \in {b \in 1..Height(c) : b > installedAt}}

\* A finalized block, perhaps of a provider that lags, past the installation
\* and not before the fence; no answer is an answer too.
observeChainPermission(c, installedAt, notBefore) ==
  {NoObservation} \cup
  {[status |-> IF ledger[c][b].installed THEN "present" ELSE "absent", block |-> b, at |-> now] :
     b \in {b \in 1..Height(c) : b > installedAt /\ b >= notBefore}}

materializationReleaseTime ==
  LET at == Latest(now, grant.updatedAt) IN
  IF grant.state = "active" /\ at >= grant.expiresAt THEN grant.expiresAt - 1 ELSE at

recordInstalled(c, id, e) ==
  [type |-> "record_installed", chain |-> c, binding |-> TheBinding, op |-> id, evidence |-> e]
abandonMaterialization(c, id, at) ==
  [type |-> "abandon_materialization", chain |-> c, binding |-> TheBinding, op |-> id, at |-> at]

\* reconcileInstallingMaterialization, once the operation has been re-read.
\* An operation dropped after it was seen included concludes nothing.
reconcileInstalling(c) ==
  LET id == Material(c).operationId
      o == journal[id]
      settle(seen) ==
        CASE seen.status = "present" -> recordInstalled(c, id, EvidenceAt(seen.block, seen.at))
          [] seen.status = "absent" -> abandonMaterialization(c, id, seen.at)
          [] OTHER -> Nothing
  IN CASE o.status = "finalized" -> {recordInstalled(c, id, EvidenceAt(o.block, o.observedAt))}
       [] o.status = "superseded" ->
            {settle(seen) : seen \in observeChainPermission(c, 0, o.block)}
       [] o.status = "abandoned" \/ (o.status = "dropped" /\ ~o.prior) ->
            {abandonMaterialization(c, id, materializationReleaseTime)}
       [] OTHER -> {Nothing}

\* installIncluded; the journal may have moved on by the time it is used.
installIncluded(m) ==
  m.state = "installing" /\ journal[m.operationId].prior

-----------------------------------------------------------------------------
(***************************************************************************)
(* sendCalls.                                                              *)
(***************************************************************************)
requireActive == grant.state = "active" /\ now < grant.expiresAt

\* The mode an execution in lane runs in off materialization m, if any.
ModeFor(m, lane) ==
  IF m.state = "installed" \/ (lane = "explicit" /\ installIncluded(m)) THEN {"standard"}
  ELSE IF lane # "explicit" /\ m.state \in {"none", "unmaterialized", "installing"}
       THEN {"enable"} ELSE {}

\* resolveExecutionShape: the reads before the route and the quote must agree
\* with the one after; then the installation is reconciled and a first use
\* recorded.
SendCalls(h, c, lane) ==
  /\ call[h].pc = "idle" /\ c \in Configured[h] /\ requireActive
  /\ \E t \in IF Material(c).state = "installing" THEN reconcileInstalling(c) ELSE {Nothing} :
       /\ Possible(grant, t)
       /\ LET g == After(grant, t)
              record == IF g.materializations[c].state = "none"
                        THEN [type |-> "record_unmaterialized", chain |-> c,
                              binding |-> TheBinding, at |-> now]
                        ELSE Nothing
          IN /\ Possible(g, record)
             /\ \E mode \in ModeFor(g.materializations[c], lane) :
                  LET next == [Idle EXCEPT !.pc = "publish", !.chain = c, !.lane = lane,
                                           !.mode = mode]
                  IN IF t = Nothing /\ record = Nothing THEN Goes(h, next)
                     ELSE Writes(h, After(g, record), next)
  /\ UNCHANGED worldVars

\* A fresh operation takes the lane; a prepared one is taken up again by its
\* producer (startPreparedCalls).
PublishPrepared(h) ==
  LET e == call[h] IN
  /\ e.pc = "publish"
  /\ \E id \in Ops :
       /\ \/ /\ journal[id].status = "new" /\ LaneFree(e.chain, e.lane)
             /\ journal' = [journal EXCEPT ![id] =
                              [NoRecord EXCEPT !.status = "prepared", !.chain = e.chain,
                                               !.lane = e.lane, !.mode = e.mode]]
          \/ /\ journal[id].status = "prepared" /\ Occupies(id, e.chain, e.lane)
             /\ e.lane = "default" /\ journal[id].mode = e.mode
             /\ UNCHANGED journal
       /\ Goes(h, [e EXCEPT !.pc = "authorize", !.id = id])
  /\ UNCHANGED <<now, latest, wire, ledger, foreign>>

beginMaterialization(c, id) ==
  [type |-> "begin_materialization", chain |-> c, binding |-> TheBinding, op |-> id, at |-> now]

\* Mutant: the producer of the begun installation does not look whether the
\* Grant is still active.
AuthorizeExecutionOperationMutant(h) ==
  LET e == call[h]
      m == Material(e.chain)
      t == beginMaterialization(e.chain, e.id)
      next == [e EXCEPT !.pc = "attempt"]
  IN /\ e.pc = "authorize"
     /\ \/ /\ e.mode = "enable" /\ m.state = "installing" /\ m.operationId = e.id
           /\ Goes(h, next)
        \/ /\ e.mode = "enable" /\ m.state = "unmaterialized" /\ Advances(grant, t)
           /\ Writes(h, Apply(grant, t), next)
        \/ /\ e.mode = "standard" /\ (m.state = "installed" \/ installIncluded(m))
           /\ Writes(h, grant, next)
     /\ UNCHANGED worldVars

\* authorizeExecutionOperation: the swap that admits the operation, of the
\* begun materialization or of the same Grant again.  An exact producer that
\* finds its own installation begun needs none.
AuthorizeExecutionOperation(h) ==
  LET e == call[h]
      m == Material(e.chain)
      t == beginMaterialization(e.chain, e.id)
      next == [e EXCEPT !.pc = "attempt"]
  IN /\ e.pc = "authorize" /\ requireActive
     /\ \/ /\ e.mode = "enable" /\ m.state = "installing" /\ m.operationId = e.id
           /\ Goes(h, next)
        \/ /\ e.mode = "enable" /\ m.state = "unmaterialized" /\ Advances(grant, t)
           /\ Writes(h, Apply(grant, t), next)
        \/ /\ e.mode = "standard" /\ (m.state = "installed" \/ installIncluded(m))
           /\ Writes(h, grant, next)
     /\ UNCHANGED worldVars

\* Not admitted, not confirmed, or the answer was lost: the journal abandons
\* the operation; what it then releases is ReleaseMaterialization.
AbandonBeforeSubmission(h) ==
  /\ call[h].pc \in {"authorize", "attempt"}
  /\ IF journal[call[h].id].status = "prepared"
     THEN AbandonPrepared(call[h].id) ELSE UNCHANGED journal
  /\ Goes(h, Idle)
  /\ UNCHANGED <<now, latest, wire, ledger, foreign>>

\* The journal has the attempt before the bundler has the operation; a refusal
\* abandons it.  An acceptance may be slow: it waits on the wire.
Attempts(id) ==
  \/ /\ journal' = [journal EXCEPT ![id].status = "attempted"]
     /\ wire' \in {wire, [wire EXCEPT ![id].state = "sent"]}
  \/ journal' = [journal EXCEPT ![id].status = "abandoned"] /\ UNCHANGED wire

AttemptSubmission(h) ==
  /\ call[h].pc = "attempt"
  /\ IF journal[call[h].id].status = "prepared"
     THEN Attempts(call[h].id) ELSE UNCHANGED <<journal, wire>>
  /\ Goes(h, Idle)
  /\ UNCHANGED <<now, latest, ledger, foreign>>

-----------------------------------------------------------------------------
(***************************************************************************)
(* What an observed operation does to the Grant, in any handle that        *)
(* observes it.                                                            *)
(***************************************************************************)
\* recordFinalizedMaterialization
RecordFinalizedMaterialization(c) ==
  LET id == Material(c).operationId
      t == recordInstalled(c, id, EvidenceAt(journal[id].block, journal[id].observedAt))
  IN /\ Material(c).state = "installing" /\ journal[id].status = "finalized"
     /\ Advances(grant, t) /\ WritesOnly(Apply(grant, t))
     /\ UNCHANGED worldVars

\* abandonExecutionOperation and releaseAbandonedMaterialization
ReleaseMaterialization(c) ==
  LET id == Material(c).operationId
      t == abandonMaterialization(c, id, materializationReleaseTime)
  IN /\ Material(c).state = "installing" /\ journal[id].status = "abandoned"
     /\ Advances(grant, t) /\ WritesOnly(Apply(grant, t))
     /\ UNCHANGED worldVars

\* abandonPreparedOperation of the provider port.
AbandonPreparedOperation(id) ==
  /\ AbandonPrepared(id)
  /\ UNCHANGED <<now, latest, wire, ledger, foreign, grant, call>>

\* revocationIsUnneeded of create-oaath.ts marks the Grant expired.
ExpireGrant ==
  LET t == [type |-> "expire", at |-> now] IN
  /\ Advances(grant, t) /\ WritesOnly(Apply(grant, t))
  /\ UNCHANGED worldVars

-----------------------------------------------------------------------------
(***************************************************************************)
(* revokeGrant.                                                            *)
(***************************************************************************)
Ends(h) == Goes(h, Idle)

\* A commit against the Grant last read: it ends the call when it fails.
Commits(h, t, next) ==
  IF call[h].fresh /\ Advances(grant, t)
  THEN Writes(h, Apply(grant, t), [next EXCEPT !.fresh = next # Idle]) ELSE Ends(h)

beginRevocation(h) ==
  [type |-> "begin_revocation", at |-> now, nonce |-> 0,
   targets |-> [c \in Chains |->
                  IF c \in Configured[h] \/ Material(c).state \notin {"none", "unsupported"}
                  THEN TheBinding ELSE NoBinding]]

\* The loop over the chains of the Grant that the handle is configured with.
Loop(h, g) ==
  [Idle EXCEPT !.pc = IF g.invalidatedAt = NoTime THEN "invalidate" ELSE "chains",
               !.fresh = TRUE,
               !.todo = {c \in Configured[h] : g.materializations[c].state # "none"}]

Revoke(h) ==
  /\ call[h].pc = "idle"
  /\ \/ /\ grant.state = "active" /\ Advances(grant, beginRevocation(h))
        /\ LET begun == Apply(grant, beginRevocation(h)) IN Writes(h, begun, Loop(h, begun))
     \/ grant.state = "revoking" /\ Goes(h, Loop(h, grant))
  /\ UNCHANGED worldVars

\* invalidateCapability
InvalidateCapability(h) ==
  /\ call[h].pc = "invalidate"
  /\ Commits(h, [type |-> "record_capability_invalidated", at |-> now],
             [call[h] EXCEPT !.pc = "chains"])
  /\ UNCHANGED worldVars

\* On to the next chain, keeping the snapshot as it is.
NextChain(r) ==
  [r EXCEPT !.pc = "chains", !.todo = @ \ {r.chain}, !.chain = NoChain, !.id = NoOp,
            !.obs = NoObservation]

\* The loop of revokeGrant.  An unresolved installation is observed first, and
\* abandoned if it was only prepared; then it is reconciled.
ReconcileInstallation(h, c) ==
  LET r == call[h]
      id == Material(c).operationId
      o == journal[id]
  IN /\ r.pc = "chains" /\ c \in r.todo /\ Material(c).state = "installing"
     /\ \/ /\ o.status = "prepared" /\ AbandonPrepared(id) /\ Goes(h, r)
        \/ /\ o.status \in {"attempted", "included"}
           /\ \E seen \in Observed(id) :
                /\ journal' = [journal EXCEPT ![id] = seen]
                /\ Goes(h, IF seen.status \in OpenStatus
                           THEN [r EXCEPT !.todo = @ \ {c}] ELSE r)
        \/ /\ o.status \notin OpenStatus /\ UNCHANGED journal
           /\ \E t \in reconcileInstalling(c) :
                IF t = Nothing THEN Goes(h, [r EXCEPT !.todo = @ \ {c}])
                ELSE Commits(h, t, r)
     /\ UNCHANGED <<now, latest, wire, ledger, foreign>>

\* revokeChainPermission, entered: durable intent first.
BeginChainPermissionRevocation(h, c) ==
  LET r == call[h]
      next == [r EXCEPT !.pc = "prior", !.chain = c]
  IN /\ r.pc = "chains" /\ c \in r.todo /\ Material(c).state # "installing"
     /\ CASE Material(c).state = "installed" ->
               Commits(h, [type |-> "begin_chain_revocation", chain |-> c,
                           binding |-> TheBinding, at |-> now], next)
          [] Material(c).state = "revoking" -> Goes(h, next)
          [] OTHER -> Goes(h, [r EXCEPT !.todo = @ \ {c}])
     /\ UNCHANGED worldVars

\* With an old snapshot no commit can follow.
LeaveChains(h) ==
  LET r == call[h] IN
  /\ r.pc = "chains" /\ r.todo = {}
  /\ IF r.fresh
     THEN Goes(h, [r EXCEPT !.pc = "evidence",
                            !.todo = (Targets(grant) \ Proven(grant)) \cap Configured[h]])
     ELSE Ends(h)
  /\ UNCHANGED worldVars

-----------------------------------------------------------------------------
(***************************************************************************)
(* revokeChainPermission                                                   *)
(***************************************************************************)
Removed(o) == o.status = "finalized" /\ o.ok
InstalledAt(c) == Material(c).installation.block

\* The Grant is read again, and swapped against that, with the removal.
RecordsRemoval(h, block, at) ==
  LET r == call[h]
      t == [type |-> "record_chain_revoked", chain |-> r.chain, binding |-> TheBinding,
            evidence |-> EvidenceAt(block, at)]
  IN IF Advances(grant, t)
     THEN Writes(h, Apply(grant, t), [NextChain(r) EXCEPT !.fresh = TRUE]) ELSE Ends(h)

\* What a read o of the revocation lane decides: a finalized removal is
\* recorded, a superseded one is fenced by permission evidence unless some is
\* retained, anything else may be replaced.
Decides(h, o, go) ==
  LET r == call[h] IN
  CASE Removed(o) -> RecordsRemoval(h, o.block, o.observedAt)
    [] o.status = "superseded" /\ r.obs.status = "none" ->
         \E seen \in observeChainPermission(r.chain, InstalledAt(r.chain), o.block) :
           CASE seen.status = "present" -> Goes(h, [r EXCEPT !.pc = go, !.obs = seen])
             [] seen.status = "absent" -> RecordsRemoval(h, seen.block, seen.at)
             [] OTHER -> Goes(h, [r EXCEPT !.pc = "fallback"])
    [] OTHER -> Goes(h, [r EXCEPT !.pc = go])

LaneRecord(c) == IF latest[c] = NoOp THEN NoRecord ELSE journal[latest[c]]

\* Observation first: an operation in flight is only observed here.
ReadPrior(h) ==
  LET r == call[h]
      u == latest[r.chain]
  IN /\ r.pc = "prior"
     /\ \E o \in IF u = NoOp THEN {NoRecord} ELSE Observed(u) :
          /\ journal' = IF u = NoOp THEN journal ELSE [journal EXCEPT ![u] = o]
          /\ Decides(h, o, "lane")
     /\ UNCHANGED <<now, latest, wire, ledger, foreign>>

\* The lane is read again after the probe.  A realm without the owner's signer
\* or a route can only observe.
RereadLane(h) ==
  LET r == call[h] IN
  /\ r.pc = "lane"
  /\ \/ Decides(h, LaneRecord(r.chain), "run")
     \/ Goes(h, [r EXCEPT !.pc = "fallback"])
  /\ UNCHANGED worldVars

\* The runner reads the lane once more: it observes an operation in flight,
\* takes up a prepared one, and replaces any other.
RunUninstall(h) ==
  LET r == call[h]
      c == r.chain
      o == LaneRecord(c)
  IN /\ r.pc = "run"
     /\ CASE o.status \in {"attempted", "included"} ->
               /\ \E seen \in Observed(latest[c]) :
                    /\ journal' = [journal EXCEPT ![latest[c]] = seen]
                    /\ IF Removed(seen) THEN RecordsRemoval(h, seen.block, seen.observedAt)
                       ELSE Goes(h, [r EXCEPT !.pc = "fallback"])
               /\ UNCHANGED latest
          [] o.status = "prepared" ->
               /\ Goes(h, [r EXCEPT !.pc = "fence", !.id = latest[c]])
               /\ UNCHANGED <<journal, latest>>
          [] OTHER ->
               \E id \in Uninstalls :
                 /\ journal[id].status = "new"
                 /\ journal' = [journal EXCEPT ![id] =
                                  [NoRecord EXCEPT !.status = "prepared", !.chain = c,
                                                   !.lane = "revocation"]]
                 /\ latest' = [latest EXCEPT ![c] = id]
                 /\ Goes(h, [r EXCEPT !.pc = "fence", !.id = id])
     /\ UNCHANGED <<now, wire, ledger, foreign>>

\* authorizeRevocationOperation: the Grant must still be revoking this chain;
\* swapping it for itself is the fence.  The snapshot the loop goes on with is
\* older than that swap.  Not admitted, the operation is abandoned.
AuthorizeRevocationOperation(h) ==
  LET r == call[h] IN
  /\ r.pc = "fence"
  /\ \/ /\ grant.state = "revoking" /\ Material(r.chain).state = "revoking"
        /\ Writes(h, grant, [r EXCEPT !.pc = "submit", !.fresh = FALSE])
        /\ UNCHANGED journal
     \/ /\ IF journal[r.id].status = "prepared"
           THEN AbandonPrepared(r.id) ELSE UNCHANGED journal
        /\ Goes(h, [r EXCEPT !.pc = "fallback", !.id = NoOp])
  /\ UNCHANGED <<now, latest, wire, ledger, foreign>>

SubmitUninstall(h) ==
  LET r == call[h] IN
  /\ r.pc = "submit"
  /\ IF journal[r.id].status = "prepared"
     THEN Attempts(r.id) ELSE UNCHANGED <<journal, wire>>
  /\ Goes(h, [r EXCEPT !.pc = "fallback", !.id = NoOp])
  /\ UNCHANGED <<now, latest, ledger, foreign>>

\* No owner operation completed here: the chain itself may prove the removal.
ObserveRemoval(h) ==
  LET r == call[h] IN
  /\ r.pc = "fallback"
  /\ \E seen \in IF r.obs.status # "none" THEN {r.obs}
                 ELSE observeChainPermission(r.chain, InstalledAt(r.chain), 0) :
       IF seen.status = "absent" THEN RecordsRemoval(h, seen.block, seen.at)
       ELSE Goes(h, NextChain(r))
  /\ UNCHANGED worldVars

-----------------------------------------------------------------------------
(***************************************************************************)
(* The evidence of every target, and completion.                           *)
(***************************************************************************)
\* observeKernelPermissionRevocation: absence and nonce, at one final block.
RecordTargetEvidence(h) ==
  LET r == call[h] IN
  /\ r.pc = "evidence"
  /\ \E c \in r.todo :
       \/ Goes(h, [r EXCEPT !.todo = @ \ {c}])
       \/ \E b \in 1..Height(c) :
            /\ ~ledger[c][b].installed /\ ledger[c][b].used
            /\ Commits(h, [type |-> "record_revocation_evidence", chain |-> c,
                           evidence |-> EvidenceAt(b, now), nonce |-> 1],
                       [r EXCEPT !.todo = @ \ {c}])
  /\ UNCHANGED worldVars

\* Mutant: only the default lane is looked at.
executionLaneUnresolvedMutant(c) == ~LaneFree(c, "default")

executionLaneUnresolved(c) == ~LaneFree(c, "default") \/ ~LaneFree(c, "explicit")

\* Every chain closed and proven, and no lane left unresolved.
CompleteGrantRevocation(h) ==
  LET r == call[h]
      t == [type |-> "complete_revocation", at |-> now]
  IN /\ r.pc = "evidence" /\ r.todo = {}
     /\ IF /\ revocationComplete(grant) /\ AllChainsClosed(grant)
           /\ \A c \in Targets(grant) : ~executionLaneUnresolved(c)
        THEN Commits(h, t, Idle) ELSE Ends(h)
     /\ UNCHANGED worldVars

\* A handle is closed between calls, an await rejects, or the process dies
\* with the call: what is left is what was written.
CallFails(h) ==
  /\ call[h].pc # "idle" /\ Ends(h)
  /\ UNCHANGED worldVars

ExecStep(h) ==
  \/ \E c \in Chains, lane \in {"default", "explicit"} : SendCalls(h, c, lane)
  \/ PublishPrepared(h) \/ AuthorizeExecutionOperation(h)
  \/ AbandonBeforeSubmission(h) \/ AttemptSubmission(h)

ChainStep(h) ==
  \/ \E c \in Chains : ReconcileInstallation(h, c) \/ BeginChainPermissionRevocation(h, c)
  \/ LeaveChains(h) \/ ReadPrior(h) \/ RereadLane(h) \/ RunUninstall(h)
  \/ AuthorizeRevocationOperation(h) \/ SubmitUninstall(h) \/ ObserveRemoval(h)

RevokeStep(h) ==
  \/ Revoke(h) \/ InvalidateCapability(h) \/ ChainStep(h)
  \/ RecordTargetEvidence(h) \/ CompleteGrantRevocation(h)

Next ==
  \/ \E h \in Handles : ExecStep(h) \/ RevokeStep(h) \/ CallFails(h)
  \/ \E c \in Chains : RecordFinalizedMaterialization(c) \/ ReleaseMaterialization(c)
  \/ \E id \in AllOps : AbandonPreparedOperation(id)
  \/ ExpireGrant
  \/ WorldStep /\ UNCHANGED <<grant, call>>

Spec == Init /\ [][Next]_vars

-----------------------------------------------------------------------------
\* Records, calls and the Grant keep to their shape; a call is at work on a
\* chain in the steps of that chain and in no other, and on an operation only
\* from its publication to its submission.
TypeOK ==
  /\ WorldTypeOK /\ grant \in Grants /\ call \in [Handles -> Calls]
  /\ \A h \in Handles :
       /\ call[h].chain = NoChain <=> call[h].pc \in {"idle", "invalidate", "chains", "evidence"}
       /\ call[h].id # NoOp <=> call[h].pc \in {"authorize", "attempt", "fence", "submit"}

\* Operations the chain may still execute.
InFlight(id) == wire[id].state \in {"sent", "included"}

\* The Grant record knows of every chain where the permission is, or may yet
\* come to be: whatever handles crash, retry or race, a chain that carries the
\* permission or an operation able to install it is never recorded as one
\* without (reconcileInstallingMaterialization, abandonExecutionOperation).
InstalledIsTracked ==
  \A c \in Chains :
    Tip(c).installed \/ (\E id \in Ops : /\ journal[id].chain = c /\ InFlight(id)
                                         /\ journal[id].mode = "enable" /\ ~Tip(c).used)
      => Material(c).state \in {"installing", "installed", "revoking"}

\* A Grant reported revoked is: nowhere is the permission installed or an
\* operation of the session in flight, and on every chain that the Grant was
\* bound to, or that the handle which began the revocation was configured with,
\* the approval that could install it again is spent (revokeGrant).  And it can
\* be brought there: a chain under revocation has its installation on record,
\* which record_chain_revoked and the uninstall both need.
RevokedIsFinal ==
  /\ grant.state = "revoked" =>
       /\ \A c \in Chains : ~Tip(c).installed
       /\ \A id \in Ops : ~InFlight(id)
       /\ \E h \in Handles : \A c \in Configured[h] \cup Present(grant) : Tip(c).used
  /\ \A c \in Chains : Material(c).state = "revoking" => ~IsNull(Material(c).installation)

\* A session operation is admitted for submission only by a swap, or a read,
\* of an active Grant: revocation begun by any other handle excludes it
\* (authorizeExecutionOperation).
AdmittedWhileActive ==
  [][\A h \in Handles :
       call[h].pc = "authorize" /\ call'[h].pc = "attempt" => grant.state = "active"]_vars

\* An owner operation replaces a superseded one only on permission evidence
\* from its supersession on: "a stale boolean never authorizes replacement
\* publication" (revokeChainPermission).
ReplacementIsFenced ==
  [][\A h \in Handles :
       LET o == LaneRecord(call[h].chain) IN
       call[h].pc = "run" /\ call'[h].pc = "fence" /\ o.status = "superseded"
         => call[h].obs.status = "present" /\ call[h].obs.block >= o.block]_vars

\* Once the operation that installs has been observed to a terminal state,
\* another revoke() can settle the chain: "observe that operation to a terminal
\* state, then call revoke() again" (reconcileInstallingMaterialization).
TerminalInstallationSettles ==
  \A c \in Chains :
    Material(c).state = "installing" /\ journal[Material(c).operationId].status \notin OpenStatus
      => reconcileInstalling(c) # {Nothing}
=============================================================================
