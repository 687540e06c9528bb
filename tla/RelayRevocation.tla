-------------------------- MODULE RelayRevocation --------------------------
(***************************************************************************)
(* The on-chain revocation of one invalidated grant (revocation.rs): the   *)
(* root prepares and signs one owner operation, the relay or the dapp      *)
(* submits it, and the root's status requests observe it.                  *)
(*                                                                         *)
(* Every transition of the record is a compare-and-swap on its revision;   *)
(* between two of them a handler talks to the bundler or to the chain, and *)
(* another handler may move the record, or the process may stop.           *)
(*                                                                         *)
(* The chain is a sequence of blocks, each with the state after it; the    *)
(* blocks after the final one may be replaced.  The holder of the enable   *)
(* installs the permission with it whenever it likes, as long as the       *)
(* install nonce of the enable is not consumed.                            *)
(***************************************************************************)
EXTENDS Integers, Sequences

CONSTANTS
    Handlers,       \* request handlers at work
    Delivery,       \* revocation_delivery of the grant's client: "relay" or "dapp"
    MaxRequests,    \* MAX_BUNDLER_REQUESTS, 32 in the code
    MaxBlocks,      \* bound: the length of the chain
    MayReorg        \* whether blocks that are not final may be replaced

ASSUME RevocationAssumption ==
    /\ Delivery \in {"relay", "dapp"}
    /\ MaxRequests \in Nat /\ MaxBlocks \in Nat \ {0}
    /\ MayReorg \in BOOLEAN

VARIABLES
    record,     \* the RevocationRecord; revision 0 stands for none
    calls,      \* per handler, where it is and the record as it last knew it
    chain,      \* the blocks
    final,      \* the finalized block
    pooled,     \* whether the signed operation is with some bundler
    asked,      \* history: requests made to the bundler
    sends       \* history: eth_sendUserOperation among them

vars == <<record, calls, chain, final, pooled, asked, sends>>

Actions == {"uninstall", "invalidate"}

\* The calls of a request are those of its action; lane is its nonce.
NoRequest == [action |-> "none", lane |-> 0]
Requests == [action : Actions, lane : 0 .. MaxBlocks] \cup {NoRequest}

\* block is block_number: the receipt's block, 0 for none.
NoRecord ==
    [revision |-> 0, action |-> "none", request |-> NoRequest, signed |-> FALSE,
     submitted |-> FALSE, outcome |-> "none", block |-> 0, spent |-> 0]

Records ==
    [revision : Nat, action : Actions \cup {"none"}, request : Requests, signed : BOOLEAN,
     submitted : BOOLEAN, outcome : {"none", "rejected", "included", "failed", "finalized"},
     block : 0 .. MaxBlocks, spent : 0 .. MaxRequests]

\* The state of the chain after a block: whether the permission is installed,
\* whether the enable's install nonce is consumed, the nonce of the
\* revocation lane, and what became of the signed operation.
Genesis == [installed |-> FALSE, consumed |-> FALSE, lane |-> 0, op |-> "none"]

Blocks == [installed : BOOLEAN, consumed : BOOLEAN, lane : 0 .. MaxBlocks,
           op : {"none", "success", "reverted"}]

Latest == chain[Len(chain)]

Idle == [at |-> "idle", rec |-> NoRecord]

Init ==
    /\ record = NoRecord
    /\ calls = [h \in Handlers |-> Idle]
    /\ chain = <<Genesis>>
    /\ final = 1
    /\ pooled = FALSE
    /\ asked = 0 /\ sends = 0

-----------------------------------------------------------------------------
(* The record. *)

At(h, at, rec) == calls' = [calls EXCEPT ![h] = [at |-> at, rec |-> rec]]

End(h) == calls' = [calls EXCEPT ![h] = Idle]

nextRevision(rec) == [rec EXCEPT !.revision = @ + 1]

canSpend(rec, count) == rec.spent + count <= MaxRequests

spend(rec, count) == [nextRevision(rec) EXCEPT !.spent = @ + count]

\* Mutant: the last writer wins.
saveMutant(h, rec, at) ==
    /\ record' = rec
    /\ IF at = "idle" THEN End(h) ELSE At(h, at, rec)

\* save: the handler goes on at `at` unless another writer was first.
save(h, rec, at) ==
    IF record.revision = rec.revision - 1
    THEN /\ record' = rec
         /\ IF at = "idle" THEN End(h) ELSE At(h, at, rec)
    ELSE UNCHANGED record /\ End(h)

observable(rec) ==
    /\ rec.outcome = "none"
    /\ rec.submitted \/ (rec.signed /\ Delivery = "dapp")

-----------------------------------------------------------------------------
(* prepare_revocation *)

\* required_action
requiredAction(state) ==
    CASE state.installed -> "uninstall"
      [] ~state.installed /\ ~state.consumed -> "invalidate"
      [] OTHER -> "none"

\* The record is loaded and the chain read at its latest block.  (If the
\* record changes between the two, the reservation is refused.)
prepare_revocation(h) ==
    /\ calls[h].at = "idle"
    /\ ~record.signed
    /\ requiredAction(Latest) # "none"
    /\ calls' = [calls EXCEPT ![h] =
                    [at |-> "reserve", rec |-> record,
                     request |-> [action |-> requiredAction(Latest), lane |-> Latest.lane]]]
    /\ UNCHANGED <<record, chain, final, pooled, asked, sends>>

\* The two bundler requests are spent before they leave.
reserve(h) ==
    LET rec == [spend(calls[h].rec, 2) EXCEPT !.action = calls[h].request.action]
    IN  /\ calls[h].at = "reserve"
        /\ IF canSpend(calls[h].rec, 2) /\ record.revision = rec.revision - 1
           THEN /\ record' = rec
                /\ calls' = [calls EXCEPT ![h].at = "estimate", ![h].rec = rec]
           ELSE UNCHANGED record /\ End(h)
        /\ UNCHANGED <<chain, final, pooled, asked, sends>>

\* The price and the estimate.  Either may fail, and an estimate may be more
\* than the account can fund.
estimate(h) ==
    /\ calls[h].at = "estimate"
    /\ \/ asked' = asked + 1 /\ End(h)
       \/ asked' = asked + 2 /\ End(h)
       \/ asked' = asked + 2 /\ calls' = [calls EXCEPT ![h].at = "prepared"]
    /\ UNCHANGED <<record, chain, final, pooled, sends>>

prepared(h) ==
    /\ calls[h].at = "prepared"
    /\ save(h, [nextRevision(calls[h].rec) EXCEPT !.request = calls[h].request], "idle")
    /\ UNCHANGED <<chain, final, pooled, asked, sends>>

-----------------------------------------------------------------------------
(* sign_revocation *)

\* The root's signature verifies for the request of the record as loaded.
sign_revocation(h) ==
    /\ calls[h].at = "idle"
    /\ record.request # NoRequest /\ ~record.signed
    /\ At(h, "sign", record)
    /\ UNCHANGED <<record, chain, final, pooled, asked, sends>>

\* Mutant: the submission time is written after the submission.
signedMutant(h, choice) ==
    LET rec == calls[h].rec
        relay == Delivery = "relay" \/ choice
    IN  /\ calls[h].at = "sign"
        /\ relay => canSpend(rec, 1)
        /\ save(h, [spend(rec, IF relay THEN 1 ELSE 0) EXCEPT !.signed = TRUE],
                IF relay THEN "send" ELSE "idle")
        /\ UNCHANGED <<chain, final, pooled, asked, sends>>

\* choice is submit_from_oaath.  The submission is recorded before it is sent.
signed(h, choice) ==
    LET rec == calls[h].rec
        relay == Delivery = "relay" \/ choice
    IN  /\ calls[h].at = "sign"
        /\ relay => canSpend(rec, 1)
        /\ save(h, [spend(rec, IF relay THEN 1 ELSE 0)
                        EXCEPT !.signed = TRUE, !.submitted = relay],
                IF relay THEN "send" ELSE "idle")
        /\ UNCHANGED <<chain, final, pooled, asked, sends>>

\* eth_sendUserOperation: accepted, of unknown outcome, or refused.
send(h) ==
    /\ calls[h].at = "send"
    /\ asked' = asked + 1 /\ sends' = sends + 1
    /\ \/ pooled' = TRUE /\ End(h)
       \/ UNCHANGED pooled /\ End(h)
       \/ UNCHANGED pooled /\ At(h, "rejected", calls[h].rec)
    /\ UNCHANGED <<record, chain, final>>

\* Mutant: a lost race is retried on the record as it is now.
rejectedMutant(h) ==
    /\ calls[h].at = "rejected"
    /\ record' = [nextRevision(record) EXCEPT !.outcome = "rejected"]
    /\ End(h)
    /\ UNCHANGED <<chain, final, pooled, asked, sends>>

rejected(h) ==
    /\ calls[h].at = "rejected"
    /\ save(h, [nextRevision(calls[h].rec) EXCEPT !.outcome = "rejected"], "idle")
    /\ UNCHANGED <<chain, final, pooled, asked, sends>>

\* dapp_revocation: a dapp with dapp delivery reads the signed operation and
\* submits it itself.
DappSubmits ==
    /\ Delivery = "dapp" /\ record.signed
    /\ pooled' = TRUE
    /\ UNCHANGED <<record, calls, chain, final, asked, sends>>

-----------------------------------------------------------------------------
(* revocation_status *)

revocation_status(h) ==
    /\ calls[h].at = "idle"
    /\ observable(record) \/ record.outcome = "included"
    /\ At(h, IF observable(record) THEN "observe" ELSE "finality", record)
    /\ UNCHANGED <<record, chain, final, pooled, asked, sends>>

\* observe, up to its request
observe(h) ==
    /\ calls[h].at = "observe"
    /\ IF canSpend(calls[h].rec, 1)
       THEN save(h, spend(calls[h].rec, 1), "receipt")
       ELSE UNCHANGED record /\ End(h)
    /\ UNCHANGED <<chain, final, pooled, asked, sends>>

\* The block that holds the operation.
ReceiptBlock == CHOOSE b \in 1 .. Len(chain) : /\ chain[b].op # "none"
                                               /\ \A c \in 1 .. b - 1 : chain[c].op = "none"

\* eth_getUserOperationReceipt: no receipt or no usable answer, or a receipt.
receipt(h) ==
    /\ calls[h].at = "receipt"
    /\ asked' = asked + 1
    /\ \/ End(h)
       \/ /\ Latest.op # "none"
          /\ At(h, "outcome", [nextRevision(calls[h].rec) EXCEPT
                                  !.outcome = IF Latest.op = "success" THEN "included" ELSE "failed",
                                  !.block = ReceiptBlock])
    /\ UNCHANGED <<record, chain, final, pooled, sends>>

outcome(h) ==
    /\ calls[h].at = "outcome"
    /\ save(h, calls[h].rec, IF calls[h].rec.outcome = "included" THEN "finality" ELSE "idle")
    /\ UNCHANGED <<chain, final, pooled, asked, sends>>

\* Mutant: the finalized block need not have reached the receipt's.
finalityMutant(h) ==
    /\ calls[h].at = "finality"
    /\ IF ~chain[final].installed
       THEN At(h, "finish", calls[h].rec)
       ELSE End(h)
    /\ UNCHANGED <<record, chain, final, pooled, asked, sends>>

\* finalized_permission
finality(h) ==
    /\ calls[h].at = "finality"
    /\ IF final >= calls[h].rec.block /\ ~chain[final].installed
       THEN At(h, "finish", calls[h].rec)
       ELSE End(h)
    /\ UNCHANGED <<record, chain, final, pooled, asked, sends>>

finish(h) ==
    /\ calls[h].at = "finish"
    /\ save(h, [nextRevision(calls[h].rec) EXCEPT !.outcome = "finalized"], "idle")
    /\ UNCHANGED <<chain, final, pooled, asked, sends>>

\* The process stops, or a request to the store fails.
Stop(h) ==
    /\ calls[h].at # "idle"
    /\ End(h)
    /\ UNCHANGED <<record, chain, final, pooled, asked, sends>>

-----------------------------------------------------------------------------
(* The chain. *)

\* The signed operation executes: an uninstall needs the permission installed,
\* setNonce an install nonce that is not consumed.
Executed ==
    LET action == record.request.action
        works  == IF action = "uninstall" THEN Latest.installed ELSE ~Latest.consumed
    IN  [installed |-> Latest.installed /\ ~(works /\ action = "uninstall"),
         consumed  |-> Latest.consumed \/ (works /\ action = "invalidate"),
         lane      |-> Latest.lane + 1,
         op        |-> IF works THEN "success" ELSE "reverted"]

\* The next block: nothing of interest, the held enable installs the
\* permission, the revocation of another grant uses the lane, or the signed
\* operation executes.
Mine ==
    /\ Len(chain) < MaxBlocks
    /\ \/ chain' = Append(chain, Latest)
       \/ /\ ~Latest.consumed
          /\ chain' = Append(chain, [Latest EXCEPT !.installed = TRUE, !.consumed = TRUE])
       \/ chain' = Append(chain, [Latest EXCEPT !.lane = @ + 1])
       \/ /\ pooled /\ record.request.lane = Latest.lane
          /\ chain' = Append(chain, Executed)
    /\ UNCHANGED <<record, calls, final, pooled, asked, sends>>

Finalize ==
    /\ final < Len(chain)
    /\ final' = final + 1
    /\ UNCHANGED <<record, calls, chain, pooled, asked, sends>>

Reorganise ==
    /\ MayReorg
    /\ \E n \in final .. Len(chain) - 1 : chain' = SubSeq(chain, 1, n)
    /\ UNCHANGED <<record, calls, final, pooled, asked, sends>>

Next ==
    \/ \E h \in Handlers :
          \/ prepare_revocation(h) \/ reserve(h) \/ estimate(h) \/ prepared(h)
          \/ sign_revocation(h) \/ send(h) \/ rejected(h)
          \/ \E choice \in BOOLEAN : signed(h, choice)
          \/ revocation_status(h) \/ observe(h) \/ receipt(h) \/ outcome(h)
          \/ finality(h) \/ finish(h)
          \/ Stop(h)
    \/ DappSubmits
    \/ Mine \/ Finalize \/ Reorganise

Spec == Init /\ [][Next]_vars

-----------------------------------------------------------------------------
(* Properties. *)

\* The record is one that RevocationRecord::parse accepts: a signature names
\* a request, and a submission or an outcome names a signature.
TypeOK ==
    /\ record \in Records
    /\ record.signed => record.request # NoRequest
    /\ record.submitted => record.signed
    /\ record.signed => record.submitted \/ Delivery = "dapp"
    /\ record.outcome # "none" => record.signed
    /\ chain \in Seq(Blocks) /\ final \in 1 .. Len(chain)
    /\ \A h \in Handlers : calls[h].rec \in Records
    /\ pooled \in BOOLEAN /\ {asked, sends} \subseteq Nat

\* No request leaves for the bundler that the record has not spent, however
\* preparations, the submission and polls race or stop half-way; hence a
\* revocation makes at most MAX_BUNDLER_REQUESTS (spend).
AskedIsSpent == asked <= record.spent

\* The operation is submitted at most once, after its submission is recorded
\* (sign_revocation).
SubmittedOnce == sends <= 1 /\ (sends = 1 => record.submitted)

\* What is signed stays as it was signed, a submission is never taken back,
\* and an outcome other than inclusion is terminal (revocation.rs).
SignedIsFrozen ==
    [][record.signed =>
          /\ record'.signed /\ record'.request = record.request
          /\ record'.action = record.action
          /\ record.submitted => record'.submitted
          /\ record.outcome # "none" =>
                record'.outcome \in {record.outcome} \cup
                    (IF record.outcome = "included" THEN {"finalized"} ELSE {})]_vars

\* A revocation is finalized only after a finalized block, no earlier than the
\* one of its receipt, in which the permission was not installed, however the
\* chain was reorganised in between (revocation_status, finalized_permission).
FinalizedWasAbsent ==
    record.outcome = "finalized" => \E b \in record.block .. final : ~chain[b].installed

\* "The exact unsigned request (JSON text); none while only reserved"
\* (revocation.rs:136): the action shown to the root is that of the request
\* it is shown to sign.
ActionDescribesRequest ==
    record.request # NoRequest => record.request.action = record.action
=============================================================================
