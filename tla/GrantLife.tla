------------------------------ MODULE GrantLife ------------------------------
(***************************************************************************)
(* The life of one Grant record: any sequence of transitions that          *)
(* parseGrantTransition lets through, applied by advanceGrant.  Every      *)
(* writer of the record - SDK handles, the automation server, a process    *)
(* restarted from an old copy - is a source of such a sequence, so what is *)
(* shown here holds whatever they do.                                      *)
(***************************************************************************)
EXTENDS Grant

CONSTANTS MaxTime,      \* bound: times of transitions are 0..MaxTime
          ExpiresAt,    \* when the Grant expires
          MaxRevision,  \* bound: no transition from this revision on
          Blocks,       \* heights of evidence
          Nonces        \* install nonces

ASSUME TimesAssumption == MaxTime \in Nat /\ ExpiresAt \in 1..MaxTime
ASSUME BlocksAssumption == Blocks \subseteq Nat \ {0} /\ Nonces \subseteq Nat
ASSUME SpanAssumption == NonceSpan \in Nat \ {0}

VARIABLE grant

Times == 0..MaxTime

PermissionEvidence ==
  [binding : Bindings, block : Blocks, hash : Hashes, observedAt : Times]

(***************************************************************************)
(* parseGrantTransition: the transitions there are, by their fields.       *)
(***************************************************************************)
PlainTransitions ==
  [type : {"reject", "approve", "activate", "expire", "complete_revocation",
           "record_capability_invalidated"}, at : Times]

ChainTransitions ==
  [type : {"record_unsupported"}, chain : Chains, at : Times]
    \cup [type : {"record_unmaterialized", "record_unreadable", "begin_chain_revocation"},
          chain : Chains, binding : Bindings, at : Times]
    \cup [type : {"begin_materialization", "abandon_materialization"},
          chain : Chains, binding : Bindings, op : Ops, at : Times]

EvidenceTransitions ==
  [type : {"record_installed"}, chain : Chains, binding : Bindings, op : Ops,
   evidence : PermissionEvidence]
    \cup [type : {"record_chain_revoked"}, chain : Chains, binding : Bindings,
          evidence : PermissionEvidence]
    \cup [type : {"record_revocation_evidence"}, chain : Chains,
          evidence : PermissionEvidence, nonce : Nonces]

RevocationTransitions ==
  [type : {"begin_revocation"}, at : Times, nonce : Nonces,
   targets : [Chains -> Bindings \cup {NoBinding}]]

Transitions == PlainTransitions \cup ChainTransitions \cup EvidenceTransitions
                 \cup RevocationTransitions

Init == grant = createGrant(0, ExpiresAt)

Advance(t) ==
  /\ grant.revision < MaxRevision
  /\ Advances(grant, t)
  /\ grant' = Apply(grant, t)

Next == \E t \in Transitions : Advance(t)

Spec == Init /\ [][Next]_grant

-----------------------------------------------------------------------------
\* The record keeps to the shape of the Grant interfaces.
TypeOK == grant \in Grants

\* Every transition whose guards hold yields a record that parses: the guards
\* and the parser were written apart, and a pair that disagrees would make
\* advanceGrant fail with grant_record_invalid on a legal transition.  The
\* exceptions are the two places that leave a condition to the parser: an
\* installation abandoned at or after the expiry of an active Grant, and
\* revocation targets that do not cover the bound chains.
LeftToTheParser(g, t) ==
  \/ t.type = "abandon_materialization" /\ g.state = "active" /\ t.at >= g.expiresAt
  \/ t.type = "begin_revocation" /\ ~parseRevocation(Apply(g, t))
  \/ /\ t.type = "begin_revocation"
     /\ \E c \in Present(g) : /\ g.materializations[c].state # "unsupported"
                              /\ g.materializations[c].binding # t.targets[c]

GuardsImplyParse ==
  \A t \in Transitions :
    MayAdvance(grant, t) /\ ~LeftToTheParser(grant, t) => ValidGrant(Apply(grant, t))

\* What the record knows of an installation is never lost or replaced by an
\* earlier block: through unreadable spells, chain revocation and expiry, as
\* removal is only ever proven against it (record_chain_revoked).
EvidenceKept(c) ==
  LET before == grant.materializations[c].installation
      after == grant'.materializations[c].installation
  IN ~IsNull(before) => ~IsNull(after) /\ after.block >= before.block

InstallationEvidenceKept == [][\A c \in Chains : EvidenceKept(c)]_grant

\* A chain whose permission was ever proven installed ends in a revoked Grant
\* only with a removal at a later block, and its install nonce consumed in the
\* approval's own key: a revoked Grant leaves nothing to be installed again.
RevokedIsProven ==
  grant.state = "revoked" =>
    \A c \in Chains :
      /\ ~IsNull(grant.materializations[c].installation) =>
           grant.materializations[c].removal.block
             > grant.materializations[c].installation.block
      /\ grant.materializations[c].state \notin {"none", "unsupported"} =>
           /\ grant.evidence[c].permission.binding = grant.materializations[c].binding
           /\ grant.evidence[c].installNonce \in
                (grant.installNonce + 1)
                  ..((grant.installNonce \div NonceSpan + 1) * NonceSpan - 1)
=============================================================================
