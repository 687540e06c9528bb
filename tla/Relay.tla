------------------------------- MODULE Relay -------------------------------
(***************************************************************************)
(* The relay around one account: the OAuth surface and the management of   *)
(* the account's members on the same records, handled by concurrent        *)
(* requests that may stop between any two of their transactions.           *)
(***************************************************************************)
EXTENDS RelayAuthorization, RelayMembership

Init == InitRecords

Next ==
    \/ AuthorizationNext
    \/ MembershipNext
    \/ \E h \in Handlers : StopCall(h)

Spec == Init /\ [][Next]_recordVars

-----------------------------------------------------------------------------
(* Properties. *)

\* Every record keeps to its enumeration, every membership names what
\* admitted it, and the root's own membership is always there and active
\* (records.rs, registry.rs, link.rs, the constraints of store/postgres.rs).
TypeOK ==
    /\ auth \in [Ids -> Authorizations]
    /\ rows \subseteq {RootRow} \cup [signer : Signers, by : {"link"}, id : Links, active : BOOLEAN]
                   \cup [signer : Signers, by : {"grant"}, id : Ids, active : BOOLEAN]
    /\ RootRow \in rows
    /\ links \in [Links -> LinkRecords]
    /\ template \in Versions \cup {NoTemplate}
    /\ released \in [Ids -> Nat]
    /\ burned \subseteq Pars

\* A code is redeemed at most once, for a request that was approved, never
\* after an exchange burned it, and never before its artifact was claimed
\* (code.rs, artifact.rs, exchange_code).
ReleasedOnce ==
    \A r \in Ids :
        released[r] # 0 =>
            /\ released[r] = 1 /\ r \notin burned
            /\ auth[r].decision = "approved" /\ auth[r].code = "consumed"
            /\ auth[r].artifact = IF auth[r].kind = "login" THEN "none" ELSE "claimed"

\* An exchange that got past its gate with a code bound to it never finds
\* the request undecided or rejected: login_claims does not answer
\* relay_record_unreadable, however the exchange interleaves with the root's
\* decision and with the member's suspension (gate_exchange, login_claims).
RedeemedIsApproved ==
    \A h \in Handlers :
        calls[h].at \in {"claims", "claim", "token"} => auth[calls[h].id].decision = "approved"

\* A code is redeemed once and only for an approved request (exchange_code).
ExchangeIsSound == ReleasedOnce /\ RedeemedIsApproved

\* A member's request for approval and the decision of its authorization
\* request are decided together, with an artifact if approved, so that neither
\* decide_pending nor retire_member_requests ever meets the one without the
\* other (pending.rs).
PendingAgrees ==
    \A r \in Pars : auth[r].pending # "none" =>
        /\ auth[r].decision = (IF auth[r].pending = "undecided" THEN "none" ELSE auth[r].pending)
        /\ (auth[r].artifact # "none") = (auth[r].pending = "approved")

\* Whoever has no active membership has no request waiting for the root and
\* no usable grant it asked for: suspension and removal end both, also those
\* made or decided while another request was at work (retire_grants,
\* request_root_approval, decide_pending).
RetiredMemberHoldsNothing ==
    \A s \in Signers : ~activeMember(s) =>
        \A r \in Pars : auth[r].owner = s /\ auth[r].kind = "grant" =>
            grantStatus(r) \in {"rejected", "invalidated"}

\* A grant that is not invalidated has the membership of its own signer, and
\* that membership is active: no suspension, restoration or removal leaves a
\* usable grant without it (join_dapp_signer, record_member_grant,
\* set_member_status, remove_member).
LiveGrantHasMember ==
    \A r \in Ids : IsGrant(r) /\ grantStatus(r) = "approved" => GrantRow(auth[r].dapp, r) \in rows

\* A link is approved and not removed exactly as long as the membership it
\* admitted exists; hence remove_link_request never refuses within
\* remove_member, which would make the member impossible to remove (link.rs).
LinkOwnsRow ==
    \A l \in Links :
        links[l].status = "approved" <=>
            \E m \in RowsOf(links[l].signer) : m.by = "link" /\ m.id = l

\* Standing, grants and links stay in step (link.rs, grants.rs).
MembershipIsSound == RetiredMemberHoldsNothing /\ LiveGrantHasMember /\ LinkOwnsRow

\* What a step that records the grant of a link or of an assignment finds.
RecordsVerified ==
    \A r \in Links \cup Assignments :
        auth[r].kind = "none" /\ auth'[r].kind = "portal" =>
            /\ r \in Assignments => activeMember(auth'[r].dapp)
            /\ r \in Links => ~isMember(auth'[r].dapp)
            /\ \E h \in Handlers : /\ calls[h] # Idle /\ calls[h].id = r
                                   /\ calls[h].at \in {"link", "assign"}
                                   /\ calls[h].content = template

\* The request recorded for a member is the one the root signed: the template
\* still has the content that was verified, and the member has not been
\* suspended or removed since, nor has the new one joined otherwise
\* (decide_link, assign_grant).
RecordsWhatWasVerified == [][RecordsVerified]_recordVars

\* What is decided, consumed, claimed, invalidated or revoked stays so, and
\* a decided request keeps its owner (the contract of store/mod.rs).
OneShot ==
    [][\A r \in Ids :
          /\ auth[r].decision # "none" => /\ auth'[r].decision = auth[r].decision
                                          /\ auth'[r].owner = auth[r].owner
          /\ auth[r].code = "consumed" => auth'[r].code = "consumed"
          /\ auth[r].artifact = "claimed" => auth'[r].artifact = "claimed"
          /\ auth[r].pending \in {"approved", "rejected"} => auth'[r].pending = auth[r].pending
          /\ auth[r].invalid => auth'[r].invalid
          /\ auth[r].token = "revoked" => auth'[r].token = "revoked"]_recordVars
=============================================================================
