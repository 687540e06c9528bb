------------------------- MODULE RelayAuthorization -------------------------
(***************************************************************************)
(* The OAuth surface of the relay (oauth/mod.rs, oauth/grant.rs,           *)
(* oauth/pending.rs, oauth/operation.rs, oauth/transaction.rs) and the     *)
(* one-shot transitions under it (authorization/): a client pushes a       *)
(* request, a signer of the account or its root decides it, and the client *)
(* exchanges the code it was redirected with.                              *)
(*                                                                         *)
(* decide_grant, decide_operation, decide_transaction and decide_pending   *)
(* first verify the signed approval in a transaction of their own and then *)
(* repeat every check in the transaction that writes; only the clock is    *)
(* not read again.  A request that expires in between is decided as if     *)
(* just before, so the two are one step here.                              *)
(***************************************************************************)
EXTENDS RelayRecords

\* push_authorization_request
push(r, kind, dapp) ==
    /\ r \in Pars /\ auth[r].kind = "none"
    /\ (kind \in {"grant", "transaction"}) = (dapp # NoSigner)
    /\ auth' = [auth EXCEPT ![r].kind = kind, ![r].dapp = dapp]
    /\ UNCHANGED <<rows, links, template, calls, released, burned>>

\* The deadline of the pushed request, or of its code; a member's request for
\* approval expires with its code.
Expire(r) ==
    /\ auth[r].live
    /\ Undecided(r) \/ auth[r].code = "issued" \/ auth[r].pending = "undecided"
    /\ auth' = [auth EXCEPT ![r].live = FALSE]
    /\ UNCHANGED <<rows, links, template, calls, released, burned>>

\* The request, its decision, its code and its artifact are inserted.
Approved(r, owner, artifact) ==
    [auth EXCEPT ![r].owner = owner, ![r].decision = "approved",
                 ![r].code = "issued", ![r].artifact = artifact]

-----------------------------------------------------------------------------
(* Decisions. *)

\* decide_login, LoginDecision::Approved
decide_login(r, s) ==
    /\ Open(r) /\ auth[r].kind = "login"
    /\ activeMember(s)
    /\ auth' = Approved(r, s, "none")
    /\ UNCHANGED <<rows, links, template, calls, released, burned>>

\* decide_login, LoginDecision::Cancelled
cancel(r) ==
    /\ Open(r)
    /\ auth' = [auth EXCEPT ![r].decision = "rejected"]
    /\ UNCHANGED <<rows, links, template, calls, released, burned>>

\* The grant's own signer joins the account (join_dapp_signer).
decide_grant(r) ==
    /\ Open(r) /\ auth[r].kind = "grant"
    /\ auth' = Approved(r, Root, "sealed")
    /\ rows' = rows \cup {GrantRow(auth[r].dapp, r)}
    /\ UNCHANGED <<links, template, calls, released, burned>>

decide_operation(r) ==
    /\ Open(r) /\ auth[r].kind = "operation"
    /\ auth' = Approved(r, Root, "sealed")
    /\ UNCHANGED <<rows, links, template, calls, released, burned>>

\* Only the sender of the transaction decides it.
decide_transaction(r) ==
    /\ Open(r) /\ auth[r].kind = "transaction"
    /\ activeMember(auth[r].dapp)
    /\ auth' = Approved(r, auth[r].dapp, "sealed")
    /\ UNCHANGED <<rows, links, template, calls, released, burned>>

\* A member asks the root; the client has its code before the decision.
request_root_approval(r, s) ==
    /\ Open(r) /\ auth[r].kind = "grant"
    /\ activeMember(s) /\ s # Root
    /\ auth' = [auth EXCEPT ![r].owner = s, ![r].code = "issued", ![r].pending = "undecided"]
    /\ UNCHANGED <<rows, links, template, calls, released, burned>>

\* decide_pending, with the root's artifact
approve_pending(r) ==
    /\ auth[r].pending = "undecided" /\ auth[r].live
    /\ auth' = [auth EXCEPT ![r].decision = "approved", ![r].artifact = "sealed",
                            ![r].pending = "approved"]
    /\ rows' = rows \cup {GrantRow(auth[r].dapp, r)}
    /\ UNCHANGED <<links, template, calls, released, burned>>

\* Mutant: the decision is recorded, the member's request keeps waiting.
reject_pendingMutant(r) ==
    /\ auth[r].pending = "undecided" /\ auth[r].live
    /\ auth' = [auth EXCEPT ![r].decision = "rejected"]
    /\ UNCHANGED <<rows, links, template, calls, released, burned>>

\* decide_pending, without an artifact
reject_pending(r) ==
    /\ auth[r].pending = "undecided" /\ auth[r].live
    /\ auth' = [auth EXCEPT ![r].decision = "rejected", ![r].pending = "rejected"]
    /\ UNCHANGED <<rows, links, template, calls, released, burned>>

-----------------------------------------------------------------------------
(* exchange_code.  bound tells whether the client presents the redirect    *)
(* URI and the PKCE verifier the code is bound to.                         *)

\* Mutant: a pending request is exchanged like any other.
gate_exchangeMutant(h, r, bound, resource) ==
    /\ auth[r].code # "none"
    /\ Begin(h, [at |-> "consume", id |-> r, bound |-> bound, resource |-> resource])
    /\ UNCHANGED <<auth, rows, links, template, released, burned>>

\* While the root has not decided the client is told to wait and nothing
\* changes.
gate_exchange(h, r, bound, resource) ==
    LET held == bound /\ auth[r].code = "issued" /\ auth[r].live
    IN  /\ auth[r].code # "none" /\ calls[h] = Idle
        /\ \/ /\ held /\ auth[r].pending = "rejected"
              /\ auth' = [auth EXCEPT ![r].code = "consumed"]
              /\ UNCHANGED calls
           \/ /\ ~(held /\ auth[r].pending \in {"undecided", "rejected"})
              /\ Begin(h, [at |-> "consume", id |-> r, bound |-> bound, resource |-> resource])
              /\ UNCHANGED auth
        /\ UNCHANGED <<rows, links, template, released, burned>>

\* consume_authorization_code: a code that is not bound to this exchange is
\* spent with its artifact.
consume(h) ==
    LET r == calls[h].id
        usable == auth[r].code = "issued" /\ auth[r].live
    IN  /\ calls[h].at = "consume"
        /\ \/ ~usable /\ End(h) /\ UNCHANGED <<auth, burned>>
           \/ /\ usable /\ calls[h].bound
              /\ auth' = [auth EXCEPT ![r].code = "consumed"]
              /\ Advance(h, "claims")
              /\ UNCHANGED burned
           \/ /\ usable /\ ~calls[h].bound
              /\ auth' = [auth EXCEPT ![r].code = "consumed",
                                      ![r].artifact = IF @ = "sealed" THEN "claimed" ELSE @]
              /\ burned' = burned \cup {r}
              /\ End(h)
        /\ UNCHANGED <<rows, links, template, released>>

\* A resource token is for a login only.
login_claims(h) ==
    LET r == calls[h].id
        answers == /\ auth[r].decision = "approved"
                   /\ activeMember(auth[r].owner)
                   /\ calls[h].resource => auth[r].kind = "login"
    IN  /\ calls[h].at = "claims"
        /\ IF answers
           THEN Advance(h, IF auth[r].kind = "login" THEN "token" ELSE "claim")
           ELSE End(h)
        /\ UNCHANGED <<auth, rows, links, template, released, burned>>

\* claim_encrypted_artifact
claim(h) ==
    LET r == calls[h].id
    IN  /\ calls[h].at = "claim"
        /\ \/ /\ auth[r].artifact = "sealed"
              /\ auth' = [auth EXCEPT ![r].artifact = "claimed"]
              /\ Advance(h, "token")
           \/ auth[r].artifact # "sealed" /\ End(h) /\ UNCHANGED auth
        /\ UNCHANGED <<rows, links, template, released, burned>>

\* issue_access_token, unless a resource token is signed, and the response.
respond(h) ==
    LET r == calls[h].id
    IN  /\ calls[h].at = "token"
        /\ auth' = IF calls[h].resource THEN auth ELSE [auth EXCEPT ![r].token = "live"]
        /\ released' = [released EXCEPT ![r] = @ + 1]
        /\ End(h)
        /\ UNCHANGED <<rows, links, template, burned>>

-----------------------------------------------------------------------------
(* What the client may do with what it was given. *)

\* invalidate_grant, by the grant's token or by the proof of its operator
\* key; an invalidation that exists is answered again.
invalidate_grant(r) ==
    /\ IsGrant(r) /\ grantStatus(r) = "approved"
    /\ auth' = [auth EXCEPT ![r].invalid = TRUE]
    /\ UNCHANGED <<rows, links, template, calls, released, burned>>

revoke_token(r) ==
    /\ auth[r].token = "live"
    /\ auth' = [auth EXCEPT ![r].token = "revoked"]
    /\ UNCHANGED <<rows, links, template, calls, released, burned>>

AuthorizationNext ==
    \/ \E r \in Pars :
          \/ \E kind \in {"login", "grant", "operation", "transaction"} :
                \E s \in Signers \cup {NoSigner} : push(r, kind, s)
          \/ Expire(r) \/ cancel(r)
          \/ \E s \in Signers : decide_login(r, s) \/ request_root_approval(r, s)
          \/ decide_grant(r) \/ decide_operation(r) \/ decide_transaction(r)
          \/ approve_pending(r) \/ reject_pending(r)
          \/ revoke_token(r)
          \/ \E h \in Handlers, bound, resource \in BOOLEAN : gate_exchange(h, r, bound, resource)
    \/ \E r \in Ids : invalidate_grant(r)
    \/ \E h \in Handlers : consume(h) \/ login_claims(h) \/ claim(h) \/ respond(h)
=============================================================================
