------------------------------- MODULE Observer -------------------------------
(***************************************************************************)
(* How the fate of a user operation is read from a chain that moves        *)
(* (sdk/src/operation-observer.ts).  An observation is up to ten provider  *)
(* reads, each a step of its own: between any two of them blocks are mined,*)
(* finalized or reorganised away, and what a node says of a receipt or a   *)
(* transaction may come from a block that is no longer canonical.  Blocks  *)
(* read by number are canonical when they are read (the provider is trusted*)
(* for that and for the finalized tag, readVerifiedFinality).              *)
(* OperationRunner takes an observation as one step; what that step may    *)
(* report is what is shown of the steps here.                              *)
(***************************************************************************)
EXTENDS Integers, Sequences, FiniteSets, TLC

CONSTANTS Own,          \* the operation observed
          Other,        \* another one at its nonce, which the candidate read may know
          Neighbour,    \* an operation of another account, bundled along
          Bundles,      \* what a transaction may execute, in order
          Txs,          \* transaction hashes
          Calls,        \* observations in flight
          MaxBlocks,    \* bound on the blocks ever mined
          Hints         \* transactions a direct submission saved, or NoTx

VARIABLES chain,     \* the canonical blocks, by height
          final,     \* height of the finalized block
          orphans,   \* blocks reorganised away, with their height
          record,    \* the inclusion the Operation record holds, or its end
          call,      \* the observations
          life       \* of the observer: open, closing, closed

vars == <<chain, final, orphans, record, call, life>>
world == <<chain, final, orphans>>

NoTx == "no_tx"
NoBlock == [hash |-> 0]
Rivals == {Own, Other}      \* the operations that use the nonce

\* The logs of a bundle: the boundary before execution, then of each operation
\* what its calls emit and its event.
LogsOf(bundle) ==
  LET One(o) == <<[by |-> o, kind |-> "inner"], [by |-> o, kind |-> "event"]>>
      Before == [by |-> "entry_point", kind |-> "before"]
  IN <<Before>> \o One(bundle[1]) \o (IF Len(bundle) = 1 THEN <<>> ELSE One(bundle[2]))

Hashes == 1..MaxBlocks
Mined == {b.hash : b \in {chain[h] : h \in 1..Len(chain)}} \cup {b.hash : b \in orphans}

Executes(b, o) == \E i \in 1..Len(b.bundle) : b.bundle[i] = o
UsesNonce(b) == \E o \in Rivals : Executes(b, o)

\* A block by its number: the genesis block is 0, past the head there is none.
canonical_block(height) == IF height \in 1..Len(chain) THEN chain[height] ELSE NoBlock

\* What any node may still answer for a receipt or a transaction: canonical
\* blocks and orphans.
Known == {[height |-> h, block |-> chain[h]] : h \in 1..Len(chain)}
           \cup {[height |-> b.height, block |-> [hash |-> b.hash, bundle |-> b.bundle, tx |-> b.tx]] : b \in orphans}

Receipts(o) == {k \in Known : Executes(k.block, o)}
Transactions(tx) == {k \in Known : k.block.tx = tx}

-----------------------------------------------------------------------------
(* The chain. *)

Mine ==
  /\ Cardinality(Mined) < MaxBlocks
  /\ \E bundle \in Bundles \cup {<<>>}, tx \in Txs \cup {NoTx} :
       LET b == [hash |-> Cardinality(Mined) + 1, bundle |-> bundle, tx |-> tx]
       IN /\ (bundle = <<>>) = (tx = NoTx)
          /\ UsesNonce(b) => \A h \in 1..Len(chain) : ~UsesNonce(chain[h])
          /\ tx # NoTx => \A k \in Known : k.block.tx = tx => k.block.bundle = bundle
          /\ chain' = Append(chain, b)
  /\ UNCHANGED <<final, orphans, record, call, life>>

Finalize ==
  /\ final < Len(chain)
  /\ final' = final + 1
  /\ UNCHANGED <<chain, orphans, record, call, life>>

\* The head is reorganised away; what replaces it is mined next.
Reorganise ==
  /\ Len(chain) > final
  /\ chain' = SubSeq(chain, 1, Len(chain) - 1)
  /\ LET b == chain[Len(chain)]
     IN orphans' = orphans \cup {[height |-> Len(chain), hash |-> b.hash, bundle |-> b.bundle,
                                  tx |-> b.tx]}
  /\ UNCHANGED <<final, record, call, life>>

-----------------------------------------------------------------------------
(* What is verified of the answers. *)

NoInclusion == [tx |-> NoTx, height |-> 0, hash |-> 0]

\* The inclusion a user operation receipt claims.
InclusionOf(k) == [tx |-> k.block.tx, height |-> k.height, hash |-> k.block.hash]

isEntryPointBoundary(log) == log.kind \in {"before", "event"}

\* The index of the operation's only event, 0 if there is none or two.
targetEvent(logs, o) ==
  LET events == {i \in 1..Len(logs) : logs[i].kind = "event" /\ logs[i].by = o}
  IN IF Cardinality(events) = 1 THEN CHOOSE i \in events : TRUE ELSE 0

\* The nearest boundary before the event.
windowStart(logs, target) ==
  CHOOSE i \in 0..(target - 1) :
    /\ i # 0 => isEntryPointBoundary(logs[i])
    /\ \A j \in (i + 1)..(target - 1) : ~isEntryPointBoundary(logs[j])

\* The logs verifyParsedOperationReceiptEvidence hands out, none if it refuses.
executionWindow(logs, o) ==
  LET target == targetEvent(logs, o)
  IN IF target = 0 THEN <<>>
     ELSE IF windowStart(logs, target) = 0 THEN <<>>
     ELSE SubSeq(logs, windowStart(logs, target) + 1, target)

\* The transaction receipt is of the claimed occurrence and holds the event.
verifyParsedOperationReceiptEvidence(inclusion, k, o) ==
  /\ InclusionOf(k) = inclusion
  /\ executionWindow(LogsOf(k.block.bundle), o) # <<>>

sameOccurrence(i, j) == i = j

-----------------------------------------------------------------------------
(* One observation. *)

Idle == [pc |-> "idle", mode |-> "none", of |-> "none", inclusion |-> NoInclusion,
         finalized |-> [height |-> 0, hash |-> 0], logs |-> <<>>, hint |-> NoTx, verdict |-> "none", started |-> NoInclusion]

At(p, pc) == call[p].pc = pc
Go(p, changes) == call' = [call EXCEPT ![p] = changes @@ @]
Ends == {"finalized", "dropped", "superseded"}
EndRecords == {[NoInclusion EXCEPT !.tx = e] : e \in Ends}

\* deriveObservedOperation and the commit of the runner: a verdict about the
\* Operation is written unless the record changed since it was read.
Write(p, verdict) ==
  record' = IF call[p].mode # "operation" \/ record # call[p].started THEN record
            ELSE CASE verdict = "included" -> call[p].inclusion
                   [] verdict \in Ends -> [NoInclusion EXCEPT !.tx = verdict]
                   [] OTHER -> record

\* A weak result says nothing; of a conclusive one the inclusion is kept.
Conclude(p, verdict) ==
  /\ call' = [call EXCEPT ![p] =
                IF verdict \in Ends THEN [verdict |-> verdict, inclusion |-> @.inclusion] @@ Idle ELSE Idle]
  /\ Write(p, verdict)

Fail(p) == Conclude(p, "weak")

Step(p, changes) == Go(p, changes) /\ UNCHANGED record

\* observeOperation refuses a terminal record, observeReference has none.
begin(p, mode, hint) ==
  /\ At(p, "idle") /\ life = "open"
  /\ mode = "operation" => record \notin EndRecords
  /\ call' = [call EXCEPT ![p] = [pc |-> "receipt", mode |-> mode, of |-> Own, hint |-> hint,
                                  started |-> IF mode = "operation" THEN record ELSE NoInclusion] @@ Idle]
  /\ UNCHANGED <<world, record, life>>

\* The receipt: none, or one whose transaction is the saved one if there is one.
readReceipt(p) ==
  LET me == call[p]
      hint == IF me.of = Own THEN me.hint ELSE NoTx
  IN /\ At(p, "receipt")
     /\ \/ IF me.of = Own THEN Step(p, [pc |-> "candidate"]) ELSE Conclude(p, "pending")
        \/ \E k \in Receipts(me.of) :
             IF hint # NoTx /\ k.block.tx # hint THEN Fail(p)
             ELSE Step(p, [pc |-> "transaction_receipt", inclusion |-> InclusionOf(k)])
     /\ UNCHANGED <<world, life>>

readTransactionReceipt(p) ==
  LET me == call[p]
  IN /\ At(p, "transaction_receipt")
     /\ \E k \in Transactions(me.inclusion.tx) :
          IF verifyParsedOperationReceiptEvidence(me.inclusion, k, me.of)
          THEN Step(p, [pc |-> "transaction",
                        logs |-> executionWindow(LogsOf(k.block.bundle), me.of)])
          ELSE Fail(p)
     /\ UNCHANGED <<world, life>>

readTransaction(p) ==
  LET me == call[p]
  IN /\ At(p, "transaction")
     /\ \E k \in Transactions(me.inclusion.tx) :
          IF k.height = me.inclusion.height /\ k.block.hash = me.inclusion.hash
          THEN Step(p, [pc |-> "canonical"])
          ELSE Fail(p)
     /\ UNCHANGED <<world, life>>

\* The block of the inclusion is canonical now.  A record that holds another
\* occurrence of the operation is not overruled.
readCanonical(p) ==
  LET me == call[p]
  IN /\ At(p, "canonical")
     /\ IF canonical_block(me.inclusion.height).hash # me.inclusion.hash THEN Fail(p)
        ELSE IF /\ me.mode = "operation" /\ me.of = Own
                /\ me.started # NoInclusion /\ ~sameOccurrence(me.started, me.inclusion)
             THEN Fail(p)
        ELSE Step(p, [pc |-> "finalized"])
     /\ UNCHANGED <<world, life>>

\* What is known when finality is not: of the own operation the inclusion.
Unproven(p) == IF call[p].of = Own THEN "included" ELSE "weak"

\* The finalized block; as the child of the inclusion it names it as parent.
readFinalized(p) ==
  LET me == call[p]
  IN /\ At(p, "finalized")
     /\ IF final = me.inclusion.height + 1 /\ canonical_block(final - 1).hash # me.inclusion.hash
        THEN Conclude(p, Unproven(p))
        ELSE Step(p, [pc |-> "rebind_inclusion",
                      finalized |-> [height |-> final, hash |-> canonical_block(final).hash]])
     /\ UNCHANGED <<world, life>>

\* A bug that takes a canonical inclusion for a final one.
rebindInclusionMutant(p) ==
  LET me == call[p]
  IN /\ At(p, "rebind_inclusion")
     /\ IF canonical_block(me.inclusion.height).hash # me.inclusion.hash THEN Conclude(p, Unproven(p))
        ELSE Step(p, [pc |-> "rebind_finalized"])
     /\ UNCHANGED <<world, life>>

\* The inclusion is canonical after the finalized tag was read.
rebindInclusion(p) ==
  LET me == call[p]
  IN /\ At(p, "rebind_inclusion")
     /\ IF canonical_block(me.inclusion.height).hash # me.inclusion.hash
           \/ me.finalized.height < me.inclusion.height
        THEN Conclude(p, Unproven(p))
        ELSE Step(p, [pc |-> "rebind_finalized"])
     /\ UNCHANGED <<world, life>>

rebindFinalized(p) ==
  LET me == call[p]
  IN /\ At(p, "rebind_finalized")
     /\ IF \/ canonical_block(me.finalized.height).hash # me.finalized.hash
           \/ /\ me.finalized.height = me.inclusion.height
              /\ me.finalized.hash # me.inclusion.hash
        THEN Conclude(p, Unproven(p))
        ELSE Conclude(p, IF me.of = Own THEN "finalized" ELSE "dropped")
     /\ UNCHANGED <<world, life>>

\* readReplacementReference: a candidate the provider knows, or none.
readCandidate(p) ==
  /\ At(p, "candidate")
  /\ \/ Step(p, [pc |-> "receipt", of |-> Other])
     \/ IF call[p].mode = "operation" /\ call[p].started = NoInclusion
        THEN Step(p, [pc |-> "nonce_anchor"])
        ELSE Conclude(p, "pending")
  /\ UNCHANGED <<world, life>>

\* verifySupersession: the nonce at the finalized block, and the rebind.
readNonceAnchor(p) ==
  /\ At(p, "nonce_anchor")
  /\ Step(p, [pc |-> "nonce", finalized |-> [height |-> final, hash |-> canonical_block(final).hash]])
  /\ UNCHANGED <<world, life>>

NonceUsed(height) == \E h \in 1..height : h <= Len(chain) /\ UsesNonce(chain[h])

readNonce(p) ==
  /\ At(p, "nonce")
  /\ IF NonceUsed(call[p].finalized.height) THEN Step(p, [pc |-> "nonce_rebind"])
     ELSE Conclude(p, "pending")
  /\ UNCHANGED <<world, life>>

rebindNonce(p) ==
  LET me == call[p]
  IN /\ At(p, "nonce_rebind")
     /\ Conclude(p, IF canonical_block(me.finalized.height).hash = me.finalized.hash
                    THEN "superseded" ELSE "pending")
     /\ UNCHANGED <<world, life>>

\* A read times out, fails or cannot be parsed.  Once the own inclusion is
\* verified it is kept.
readFails(p) ==
  /\ ~At(p, "idle")
  /\ Conclude(p, CASE call[p].pc \in {"finalized", "rebind_inclusion", "rebind_finalized"} -> Unproven(p)
                   [] call[p].pc \in {"nonce_anchor", "nonce", "nonce_rebind"} -> "pending"
                   [] OTHER -> "weak")
  /\ UNCHANGED <<world, life>>

-----------------------------------------------------------------------------
(* close: new observations are refused at once, those in flight are waited  *)
(* for, and a close that fails leaves the observer open.                   *)

Active == {p \in Calls : ~At(p, "idle")}

close ==
  /\ life = "open"
  /\ life' = "closing"
  /\ UNCHANGED <<world, record, call>>

closeCapabilities ==
  /\ life = "closing"
  /\ Active = {}
  /\ life' \in {"closed", "open"}
  /\ UNCHANGED <<world, record, call>>

Init ==
  /\ chain = <<>> /\ final = 0 /\ orphans = {}
  /\ record = NoInclusion
  /\ call = [p \in Calls |-> Idle]
  /\ life = "open"

Read(p) ==
  \/ readReceipt(p) \/ readTransactionReceipt(p) \/ readTransaction(p) \/ readCanonical(p)
  \/ readFinalized(p) \/ rebindInclusion(p) \/ rebindFinalized(p)
  \/ readCandidate(p) \/ readNonceAnchor(p) \/ readNonce(p) \/ rebindNonce(p)
  \/ readFails(p)

Next ==
  \/ Mine \/ Finalize \/ Reorganise
  \/ \E p \in Calls :
       \/ \E mode \in {"operation", "reference"}, hint \in Hints : begin(p, mode, hint)
       \/ Read(p)
  \/ close \/ closeCapabilities

Spec == Init /\ [][Next]_vars

-----------------------------------------------------------------------------
Canonical(i) == canonical_block(i.height).hash = i.hash
Final(o) == \E h \in 1..final : Executes(chain[h], o)

\* Whatever the chain did between the reads, a conclusive verdict is true and
\* stays true: finalized means that the very occurrence it names is below the
\* finalized height, dropped that the other operation is, superseded that some
\* operation at the nonce is.
VerdictIsTrue ==
  \A p \in Calls :
    /\ call[p].verdict = "finalized" =>
         Canonical(call[p].inclusion) /\ call[p].inclusion.height <= final
    /\ call[p].verdict = "dropped" => Final(Other)
    /\ call[p].verdict = "superseded" => \E o \in Rivals : Final(o)

\* A receipt that is handed out holds what the operation's own execution
\* emitted, all of it, and nothing of the operations bundled with it.
ReceiptIsOwn ==
  \A p \in Calls :
    call[p].logs # <<>> =>
      call[p].logs = <<[by |-> call[p].of, kind |-> "inner"], [by |-> call[p].of, kind |-> "event"]>>

\* The provider is closed under no observation.
ClosedIsDrained == life = "closed" => Active = {}
=============================================================================
