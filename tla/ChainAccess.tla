----------------------------- MODULE ChainAccess -----------------------------
(***************************************************************************)
(* The three state machines that talk to a chain and its bundler: the      *)
(* observation of a user operation (Observer), the JSON-RPC pool beneath it*)
(* (RpcPool), and the relay's on-chain revocation of one invalidated grant *)
(* (RelayRevocation).  None writes a variable of another, so a behaviour is*)
(* of one of them, `subject`, and the others keep their initial state.     *)
(***************************************************************************)
EXTENDS RelayRevocation, FiniteSets, TLC

CONSTANTS
    Own, Other, Neighbour, Bundles, Txs, Calls, Hints,              \* Observer
    MaxObservedBlocks,                                              \* its MaxBlocks
    Callers, Public, Bundler, Attempts, MaxWire, MaxConcurrency     \* RpcPool

ASSUME PoolAssumption ==
    /\ Len(Public) > 0 /\ Attempts \in Nat \ {0}
    /\ MaxWire \in Nat /\ MaxConcurrency \in Nat \ {0}
    /\ IsFiniteSet(Callers) /\ "nobody" \notin Callers

VARIABLES
    subject,
    observed, observedFinal, orphans, operation, call, life,
    request, checked, checking, preferred, used, active, aborted, session, foreign, posted, bundle

observerVars == <<observed, observedFinal, orphans, operation, call, life>>
poolVars == <<request, checked, checking, preferred, used, active, aborted, session, foreign,
              posted, bundle>>

O == INSTANCE Observer WITH
        chain <- observed, final <- observedFinal, record <- operation,
        MaxBlocks <- MaxObservedBlocks

P == INSTANCE RpcPool WITH Requests <- Callers

AccessInit ==
    /\ subject \in {"observer", "revocation", "pool"}
    /\ Init /\ O!Init
    /\ P!Init
    /\ subject # "pool" => foreign = {}

AccessNext ==
    \/ subject = "observer" /\ O!Next /\ UNCHANGED <<subject, vars, poolVars>>
    \/ subject = "revocation" /\ Next /\ UNCHANGED <<subject, observerVars, poolVars>>
    \/ subject = "pool" /\ P!Next /\ UNCHANGED <<subject, vars, observerVars>>

accessVars == <<subject, vars, observerVars, poolVars>>

AccessSpec == AccessInit /\ [][AccessNext]_accessVars

-----------------------------------------------------------------------------
(* The properties of RelayRevocation hold in every state; those of the two  *)
(* others are looked at in their own behaviours.                            *)

\* Whatever the chain did between the reads of an observation, a conclusive
\* verdict is true and stays true (observeOperation, observeReference), a
\* receipt that is handed out holds the logs of the operation's own execution
\* and no others (verifyParsedOperationReceiptEvidence), and the provider is
\* closed under no observation (close).
ObservationIsTrue ==
    subject = "observer" => O!VerdictIsTrue /\ O!ReceiptIsOwn /\ O!ClosedIsDrained

\* The operation is put on the wire at most once, whatever fails, is retried
\* or is asked again; a caller that is told it was accepted or refused is told
\* the truth; no answer is taken from an endpoint of another chain; and nobody
\* waits for a request that has ended (rpcOwner, submission.open).
PoolIsSound ==
    subject = "pool" => P!SendIsSingle /\ P!AnswerIsOfChain /\ P!SlotsBalance
=============================================================================
