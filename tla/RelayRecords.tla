---------------------------- MODULE RelayRecords ----------------------------
(***************************************************************************)
(* The durable records of the relay around one account: the authorization  *)
(* requests with their decision, code, sealed artifact, member approval    *)
(* and invalidation (records.rs, oauth/records.rs, oauth/pending.rs), the  *)
(* memberships of the account (registry.rs), the link requests (link.rs)   *)
(* and a policy template (policy.rs).                                      *)
(*                                                                         *)
(* A store transaction is one atomic step: it reads its rows with SELECT   *)
(* ... FOR UPDATE, and one that fails is rolled back (settle).  A handler  *)
(* that needs several transactions takes several steps and keeps what it   *)
(* read in between in calls.                                               *)
(*                                                                         *)
(* A handler reads the clock once, when it starts.  A deadline is a flag   *)
(* that goes from live to dead at any moment; it is only followed as long  *)
(* as some handler still reads it.                                         *)
(***************************************************************************)
EXTENDS Integers, FiniteSets

CONSTANTS
    Pars,           \* pushed authorization requests
    Links,          \* link requests
    Assignments,    \* requests of grants the root assigns to a member
    Signers,        \* registered signers
    Root,           \* the account's root signer
    NoSigner,       \* no signer
    Versions,       \* contents of the policy template
    NoTemplate,     \* no template
    Handlers        \* request handlers at work

ASSUME RelayAssumption ==
    /\ Root \in Signers /\ NoSigner \notin Signers
    /\ NoTemplate \notin Versions
    /\ Pars \cap Links = {} /\ Pars \cap Assignments = {} /\ Links \cap Assignments = {}

VARIABLES
    auth,       \* per identifier, its authorization records
    rows,       \* the memberships of the account, oaath_account_signer_v1
    links,      \* the link requests
    template,   \* the content of the policy template
    calls,      \* per handler, what it carries from one transaction to the next
    released,   \* history: per identifier, how often its artifact was released
    burned      \* history: the codes spent by an exchange that was not bound to them

recordVars == <<auth, rows, links, template, calls, released, burned>>

\* An approved link or assignment is recorded as a grant under its own id.
Ids == Pars \cup Links \cup Assignments

Kinds == {"none", "login", "grant", "operation", "transaction", "portal"}

\* owner is owner_subject; dapp is the signer that a grant admits to the
\* account (its operator credential), or the sender of a transaction; live
\* tells whether the pushed request, then its code, has not expired.
NoRecords ==
    [kind |-> "none", dapp |-> NoSigner, owner |-> NoSigner, live |-> TRUE,
     decision |-> "none", code |-> "none", artifact |-> "none", pending |-> "none",
     invalid |-> FALSE, token |-> "none"]

Authorizations ==
    [kind : Kinds, dapp : Signers \cup {NoSigner}, owner : Signers \cup {NoSigner},
     live : BOOLEAN, decision : {"none", "approved", "rejected"},
     code : {"none", "issued", "consumed"}, artifact : {"none", "sealed", "claimed"},
     pending : {"none", "undecided", "approved", "rejected"},
     invalid : BOOLEAN, token : {"none", "live", "revoked"}]

\* by tells what admitted the signer: nothing (the root), a link or a grant.
RootRow == [signer |-> Root, by |-> "root", id |-> Root, active |-> TRUE]
LinkRow(s, l)  == [signer |-> s, by |-> "link", id |-> l, active |-> TRUE]
GrantRow(s, r) == [signer |-> s, by |-> "grant", id |-> r, active |-> TRUE]

RowsOf(s) == {m \in rows : m.signer = s}

NewLink == [signer |-> NoSigner, status |-> "none", live |-> TRUE]

LinkRecords ==
    [signer : Signers \cup {NoSigner}, live : BOOLEAN,
     status : {"none", "pending", "approved", "rejected", "removed"}]

Idle == [at |-> "idle"]

InitRecords ==
    /\ auth = [r \in Ids |-> NoRecords]
    /\ rows = {RootRow}
    /\ links = [l \in Links |-> NewLink]
    /\ template = NoTemplate
    /\ calls = [h \in Handlers |-> Idle]
    /\ released = [r \in Ids |-> 0]
    /\ burned = {}

-----------------------------------------------------------------------------
(* What the handlers read. *)

isMember(s) == RowsOf(s) # {}

\* require_active_member
activeMember(s) == \E m \in RowsOf(s) : m.active

\* The pushed request waits for its decision: lock_par, then
\* lock_authorization_request finds nothing.
Undecided(r) ==
    /\ auth[r].kind # "none"
    /\ auth[r].owner = NoSigner /\ auth[r].decision = "none"

Open(r) == Undecided(r) /\ auth[r].live

IsGrant(r) == auth[r].kind \in {"grant", "portal"}

\* The status read_grant answers.
grantStatus(r) ==
    IF auth[r].decision # "approved" THEN auth[r].decision
    ELSE IF auth[r].invalid THEN "invalidated" ELSE "approved"

-----------------------------------------------------------------------------
(* Handlers that take several transactions. *)

Begin(h, call) ==
    /\ calls[h] = Idle
    /\ calls' = [calls EXCEPT ![h] = call]

Advance(h, at) == calls' = [calls EXCEPT ![h].at = at]

End(h) == calls' = [calls EXCEPT ![h] = Idle]

\* The process stops, a transaction fails, or the outcome of its COMMIT is not
\* known: the handler answers an error and takes none of its other steps.
StopCall(h) ==
    /\ calls[h] # Idle
    /\ End(h)
    /\ UNCHANGED <<auth, rows, links, template, released, burned>>
=============================================================================
