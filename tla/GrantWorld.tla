------------------------------ MODULE GrantWorld ------------------------------
(***************************************************************************)
(* What the handles of one Grant share: its chains, the bundler's wire,    *)
(* the operation journal and the clock.  The chain is modelled by its      *)
(* finalized blocks, each with the state of the permission and of the      *)
(* install nonce at its end; operations accepted but not final may be      *)
(* included, reorganised away, or lose their nonce to an operation of      *)
(* another producer.  The journal keeps the promises of OperationLane; its *)
(* own protocol is OperationRunner's.                                      *)
(***************************************************************************)
EXTENDS Grant, Sequences

CONSTANTS Uninstalls,    \* hashes of owner-signed revocation operations
          MaxHeight,     \* bound on the finalized height of a chain
          MaxForeign,    \* bound on nonces lost to another producer
          MaxNow,        \* 0 or 1: whether the Grant expires in this instance
          NoChain

VARIABLES now,      \* 0 before the Grant expires, 1 after
          journal,  \* the operation records by hash
          latest,   \* the record in the revocation lane of each chain
          wire,     \* what became of each operation at the bundler
          ledger,   \* finalized blocks of each chain
          foreign   \* nonces lost to another producer so far

worldVars == <<now, journal, latest, wire, ledger, foreign>>

AllOps == Ops \cup Uninstalls
Lanes == {"default", "explicit", "revocation"}

OpenStatus == {"prepared", "attempted", "included"}
Status == OpenStatus \cup {"new", "abandoned", "finalized", "dropped", "superseded"}

\* prior: an inclusion was recorded.  block: of the finality or supersession.
Records == [status : Status, chain : Chains \cup {NoChain}, lane : Lanes,
            mode : {"enable", "standard"}, prior : BOOLEAN, block : Nat,
            observedAt : Nat, ok : BOOLEAN]

NoRecord == [status |-> "new", chain |-> NoChain, lane |-> "default",
             mode |-> "standard", prior |-> FALSE, block |-> 0,
             observedAt |-> 0, ok |-> FALSE]

\* accepted: handed to the bundler.  final, gone: block says since when.
Wires == [state : {"unsent", "sent", "included", "final", "gone"},
          block : Nat, ok : BOOLEAN]

Blocks == [installed : BOOLEAN, used : BOOLEAN]
Genesis == [installed |-> FALSE, used |-> FALSE]

Height(c) == Len(ledger[c])
Tip(c) == ledger[c][Height(c)]

Occupies(id, c, lane) ==
  journal[id].status \in OpenStatus /\ journal[id].chain = c /\ journal[id].lane = lane
LaneFree(c, lane) == \A id \in AllOps : ~Occupies(id, c, lane)

WorldTypeOK ==
  /\ now \in 0..MaxNow
  /\ journal \in [AllOps -> Records]
  /\ latest \in [Chains -> Uninstalls \cup {NoOp}]
  /\ wire \in [AllOps -> Wires]
  /\ \A c \in Chains : ledger[c] \in Seq(Blocks)
  /\ foreign \in 0..MaxForeign

WorldInit ==
  /\ now = 0
  /\ journal = [id \in AllOps |-> NoRecord]
  /\ latest = [c \in Chains |-> NoOp]
  /\ wire = [id \in AllOps |-> [state |-> "unsent", block |-> 0, ok |-> FALSE]]
  /\ ledger = [c \in Chains |-> <<Genesis>>]
  /\ foreign = 0

-----------------------------------------------------------------------------
(***************************************************************************)
(* The chain.                                                              *)
(***************************************************************************)
Installing(c) ==
  {id \in Ops : /\ journal[id].chain = c /\ journal[id].mode = "enable"
                /\ wire[id].state = "included"}

\* Kernel enables in validation, and consumes the install nonce.  Of an
\* inclusion that is not final the handles only use that of an installation.
Include(id) ==
  /\ wire[id].state = "sent" /\ journal[id].mode = "enable"
  /\ ~Tip(journal[id].chain).used /\ Installing(journal[id].chain) = {}
  /\ wire' = [wire EXCEPT ![id].state = "included"]
  /\ UNCHANGED <<now, journal, latest, ledger, foreign>>

Reorg(id) ==
  /\ wire[id].state = "included"
  /\ wire' = [wire EXCEPT ![id].state = "sent"]
  /\ UNCHANGED <<now, journal, latest, ledger, foreign>>

NewBlock(c, block) ==
  Height(c) < MaxHeight /\ ledger' = [ledger EXCEPT ![c] = Append(@, block)]

\* An enable operation installs, a standard one needs the permission, and an
\* owner operation that removes it may fail.
Finalize(id) ==
  LET c == journal[id].chain IN
  /\ \E ok \in BOOLEAN :
       /\ \/ /\ wire[id].state = "included" /\ ~Tip(c).used /\ ok
             /\ NewBlock(c, [installed |-> TRUE, used |-> TRUE])
          \/ /\ wire[id].state = "sent" /\ id \in Ops /\ journal[id].mode = "standard"
             /\ Tip(c).installed /\ ok /\ UNCHANGED ledger
          \/ /\ wire[id].state = "sent" /\ id \in Uninstalls
             /\ IF ok THEN /\ Tip(c).installed
                           /\ NewBlock(c, [installed |-> FALSE, used |-> TRUE])
                ELSE UNCHANGED ledger
       /\ wire' = [wire EXCEPT ![id] = [state |-> "final", block |-> Len(ledger'[c]),
                                        ok |-> ok]]
  /\ UNCHANGED <<now, journal, latest, foreign>>

\* Another producer of the account finalizes an operation with this nonce.
ConsumeNonce(id) ==
  /\ journal[id].status \in {"attempted", "included"}
  /\ wire[id].state \in {"unsent", "sent"} /\ foreign < MaxForeign
  /\ wire' = [wire EXCEPT ![id] = [state |-> "gone", block |-> Height(journal[id].chain),
                                   ok |-> FALSE]]
  /\ foreign' = foreign + 1
  /\ UNCHANGED <<now, journal, latest, ledger>>

\* The owner's console removes the permission, perhaps in the block that
\* installed it, or spends the install nonce before it was used.
OwnerConsole(c) ==
  /\ Tip(c).installed \/ ~Tip(c).used
  /\ LET block == [installed |-> FALSE, used |-> TRUE] IN
       \/ NewBlock(c, block)
       \/ Tip(c).installed /\ ledger' = [ledger EXCEPT ![c][Height(c)] = block]
  /\ UNCHANGED <<now, journal, latest, wire, foreign>>

Tick ==
  /\ now < MaxNow /\ now' = now + 1
  /\ UNCHANGED <<journal, latest, wire, ledger, foreign>>

-----------------------------------------------------------------------------
(***************************************************************************)
(* The journal.                                                            *)
(***************************************************************************)
\* The records an observation may leave: none when the observer is unavailable
\* or the chain has no answer yet.  A consumed nonce without a receipt shows
\* supersession, of an operation never seen included.
Observed(id) ==
  LET o == journal[id]
      w == wire[id]
      superseded == {[o EXCEPT !.status = "superseded", !.block = b] :
                       b \in w.block..Height(o.chain)}
  IN {o} \cup
     IF o.status \notin {"attempted", "included"} THEN {} ELSE
     CASE w.state \in {"unsent", "sent"} -> {}
       [] w.state = "included" -> {[o EXCEPT !.status = "included", !.prior = TRUE]}
       [] w.state = "final" ->
            {[o EXCEPT !.status = "finalized", !.block = w.block, !.observedAt = now,
                       !.ok = w.ok]}
              \cup (IF o.status = "attempted" THEN superseded ELSE {})
       [] w.state = "gone" ->
            {[o EXCEPT !.status = "dropped"]}
              \cup (IF o.status = "attempted" THEN superseded ELSE {})

Observe(id) ==
  \E o \in Observed(id) : o # journal[id] /\ journal' = [journal EXCEPT ![id] = o]

\* getOperation().wait() of any handle, and abandonPreparedOperation.
ObserveOperation(id) ==
  Observe(id) /\ UNCHANGED <<now, latest, wire, ledger, foreign>>

AbandonPrepared(id) ==
  /\ journal[id].status = "prepared"
  /\ journal' = [journal EXCEPT ![id].status = "abandoned"]

WorldStep ==
  \/ Tick
  \/ \E c \in Chains : OwnerConsole(c)
  \/ \E id \in AllOps : \/ Include(id) \/ Reorg(id) \/ Finalize(id) \/ ConsumeNonce(id)
                        \/ ObserveOperation(id)
=============================================================================
