-------------------------- MODULE RelayMembership --------------------------
(***************************************************************************)
(* The membership of the account, as its root manages it (link.rs,         *)
(* member_grant.rs, policy.rs): a signer asks to join through a link, the  *)
(* root decides, assigns grants under a policy template, and suspends,     *)
(* restores or removes a member together with the grants of the member.    *)
(***************************************************************************)
EXTENDS RelayRecords

-----------------------------------------------------------------------------
(* Policy templates. *)

\* save_template: a template is created, or its content replaced.
save_template(v) ==
    /\ template' = v
    /\ UNCHANGED <<auth, rows, links, calls, released, burned>>

delete_template ==
    /\ template # NoTemplate
    /\ template' = NoTemplate
    /\ UNCHANGED <<auth, rows, links, calls, released, burned>>

-----------------------------------------------------------------------------
(* Links. *)

create_link(l, s) ==
    /\ links[l].status = "none"
    /\ ~isMember(s)
    /\ links' = [links EXCEPT ![l].signer = s, ![l].status = "pending"]
    /\ UNCHANGED <<auth, rows, template, calls, released, burned>>

ExpireLink(l) ==
    /\ links[l].status = "pending" /\ links[l].live
    /\ links' = [links EXCEPT ![l].live = FALSE]
    /\ UNCHANGED <<auth, rows, template, calls, released, burned>>

\* decide_link, LinkOutcome::Rejected
reject_link(l) ==
    /\ links[l].status = "pending" /\ links[l].live
    /\ links' = [links EXCEPT ![l].status = "rejected"]
    /\ UNCHANGED <<auth, rows, template, calls, released, burned>>

\* decide_link, LinkApproval::Membership
join_link(l) ==
    /\ links[l].status = "pending" /\ links[l].live
    /\ ~isMember(links[l].signer)
    /\ rows' = rows \cup {LinkRow(links[l].signer, l)}
    /\ links' = [links EXCEPT ![l].status = "approved"]
    /\ UNCHANGED <<auth, template, calls, released, burned>>

-----------------------------------------------------------------------------
(* Grants under a template.  The root signs the request composed from the  *)
(* template; it is verified and its artifact sealed in one transaction and *)
(* recorded in another.                                                    *)

\* record_member_grant
Recorded(r, s) ==
    [auth EXCEPT ![r].kind = "portal", ![r].dapp = s, ![r].owner = Root,
                 ![r].decision = "approved", ![r].artifact = "sealed"]

\* decide_link, LinkApproval::Grant: verification
verify_link_grant(h, l) ==
    /\ links[l].status = "pending" /\ links[l].live
    /\ template # NoTemplate
    /\ Begin(h, [at |-> "link", id |-> l, content |-> template])
    /\ UNCHANGED <<auth, rows, links, template, released, burned>>

\* decide_link, LinkApproval::Grant: the write, with the request recomposed
record_link_grant(h) ==
    LET l == calls[h].id
        s == links[l].signer
    IN  /\ calls[h].at = "link"
        /\ links[l].status = "pending"
        /\ template = calls[h].content
        /\ ~isMember(s)
        /\ auth' = Recorded(l, s)
        /\ rows' = rows \cup {GrantRow(s, l), LinkRow(s, l)}
        /\ links' = [links EXCEPT ![l].status = "approved"]
        /\ End(h)
        /\ UNCHANGED <<template, released, burned>>

\* assignment: a grant is assigned to an active member that is not the root.
Assignable(s) == activeMember(s) /\ s # Root

\* assign_grant: verification of a request prepare_assignment composed
verify_assignment(h, r, s) ==
    /\ Assignable(s) /\ template # NoTemplate
    /\ Begin(h, [at |-> "assign", id |-> r, signer |-> s, content |-> template])
    /\ UNCHANGED <<auth, rows, links, template, released, burned>>

\* Mutant: the member's standing is not looked at again.
record_assignmentMutant(h) ==
    LET r == calls[h].id
    IN  /\ calls[h].at = "assign"
        /\ auth[r].kind = "none"
        /\ template = calls[h].content
        /\ auth' = Recorded(r, calls[h].signer)
        /\ rows' = rows \cup {GrantRow(calls[h].signer, r)}
        /\ End(h)
        /\ UNCHANGED <<links, template, released, burned>>

\* assign_grant: the write
record_assignment(h) ==
    LET r == calls[h].id
    IN  /\ calls[h].at = "assign"
        /\ auth[r].kind = "none"
        /\ Assignable(calls[h].signer) /\ template = calls[h].content
        /\ auth' = Recorded(r, calls[h].signer)
        /\ rows' = rows \cup {GrantRow(calls[h].signer, r)}
        /\ End(h)
        /\ UNCHANGED <<links, template, released, burned>>

-----------------------------------------------------------------------------
(* Standing. *)

\* retire_member_requests: the member's undecided requests.
Asked(s, state) == {r \in Pars : auth[r].pending = state /\ auth[r].owner = s}

\* Mutant: only the grants that admitted the member are invalidated.
retire_grantsMutant(s) ==
    LET admitted == {m.id : m \in {m \in RowsOf(s) : m.by = "grant"}}
    IN  [r \in Ids |->
            IF r \in admitted /\ grantStatus(r) = "approved"
            THEN [auth[r] EXCEPT !.invalid = TRUE]
            ELSE auth[r]]

\* The grants that admitted the member or that it asked the root for.
GrantsOf(s) == {m.id : m \in {m \in RowsOf(s) : m.by = "grant"}} \cup Asked(s, "approved")

\* What the member still asks for is rejected, its grants are invalidated.
Retired(r, s) ==
    CASE r \in Asked(s, "undecided") ->
            [auth[r] EXCEPT !.decision = "rejected", !.pending = "rejected"]
      [] r \in GrantsOf(s) /\ grantStatus(r) = "approved" ->
            [auth[r] EXCEPT !.invalid = TRUE]
      [] OTHER -> auth[r]

retire_grants(s) == [r \in Ids |-> Retired(r, s)]

WithStanding(s, active) ==
    {IF m.signer = s THEN [m EXCEPT !.active = active] ELSE m : m \in rows}

\* set_member_status, MembershipStatus::Suspended
suspend_member(s) ==
    /\ s # Root
    /\ \E m \in RowsOf(s) : m.active
    /\ auth' = retire_grants(s)
    /\ rows' = WithStanding(s, FALSE)
    /\ UNCHANGED <<links, template, calls, released, burned>>

\* set_member_status, MembershipStatus::Active
restore_member(s) ==
    /\ s # Root
    /\ \E m \in RowsOf(s) : ~m.active
    /\ rows' = WithStanding(s, TRUE)
    /\ UNCHANGED <<auth, links, template, calls, released, burned>>

remove_member(s) ==
    LET joined == {m.id : m \in {m \in RowsOf(s) : m.by = "link"}}
    IN  /\ s # Root
        /\ RowsOf(s) # {}
        /\ links' = [l \in Links |-> IF l \in joined THEN [links[l] EXCEPT !.status = "removed"]
                                     ELSE links[l]]
        /\ auth' = retire_grants(s)
        /\ rows' = rows \ RowsOf(s)
        /\ UNCHANGED <<template, calls, released, burned>>

MembershipNext ==
    \/ \E v \in Versions : save_template(v)
    \/ delete_template
    \/ \E l \in Links :
          \/ \E s \in Signers : create_link(l, s)
          \/ ExpireLink(l) \/ reject_link(l) \/ join_link(l)
          \/ \E h \in Handlers : verify_link_grant(h, l)
    \/ \E h \in Handlers, r \in Assignments, s \in Signers : verify_assignment(h, r, s)
    \/ \E h \in Handlers : record_link_grant(h) \/ record_assignment(h)
    \/ \E s \in Signers : suspend_member(s) \/ restore_member(s) \/ remove_member(s)
=============================================================================
