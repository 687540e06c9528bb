----------------------------- MODULE Relay_proofs -----------------------------
(***************************************************************************)
(* Proofs about Relay, for every set of requests, links, assignments,      *)
(* signers, templates and handlers.                                        *)
(*                                                                         *)
(* The invariant has three parts.  The records of one request agree with   *)
(* each other (GoodRecord).  An exchange between two of its transactions   *)
(* is the only one past the code, and what it read of the request still    *)
(* holds (ExchangeOK).  Memberships, links and grants are in step          *)
(* (MembersOK).  The records of a request only move forward (Later), which *)
(* is why what an exchange read stays true while other handlers work.      *)
(***************************************************************************)
EXTENDS Relay, TLAPS


-----------------------------------------------------------------------------
(* The records of one request. *)

\* The records of a pushed request.
PushedOK(a) ==
    /\ a \in Authorizations /\ a.kind # "portal"
    /\ a.kind = "none" => a = NoRecords
    /\ a.dapp # NoSigner <=> a.kind \in {"grant", "transaction"}
    /\ a.code = "none" => a.owner = NoSigner /\ a.decision # "approved" /\ a.pending = "none"
    /\ a.code # "none" => a.owner # NoSigner /\ (a.pending = "none" => a.decision = "approved")
    /\ a.pending = "undecided" => a.decision = "none"
    /\ a.pending \in {"approved", "rejected"} => a.decision = a.pending
    /\ a.pending # "none" => a.kind = "grant"
    /\ a.kind = "grant" /\ a.owner # NoSigner /\ a.pending = "none" => a.owner = Root
    /\ a.artifact # "none" <=> a.decision = "approved" /\ a.kind # "login"
    /\ a.code # "consumed" => a.artifact # "claimed"

\* The records of an approved link or of an assigned grant.
PortalOK(a) ==
    \/ a = NoRecords
    \/ /\ a \in Authorizations /\ a.kind = "portal" /\ a.dapp \in Signers /\ a.owner = Root
       /\ a.decision = "approved" /\ a.artifact = "sealed"
       /\ a.code = "none" /\ a.pending = "none" /\ a.token = "none"

GoodRecord(r, a) == IF r \in Pars THEN PushedOK(a) ELSE PortalOK(a)

RecordsOK == auth \in [Ids -> Authorizations] /\ \A r \in Ids : GoodRecord(r, auth[r])

\* The records of a request only move forward.
Later(a, b) ==
    /\ a.kind # "none" => b.kind = a.kind
    /\ a.code # "none" => b.code # "none" /\ (b.live => a.live)
    /\ a.code = "consumed" => b.code = "consumed"
    /\ a.decision # "none" => b.decision = a.decision /\ b.owner = a.owner
    /\ a.artifact = "claimed" => b.artifact = "claimed"
    /\ a.pending \in {"approved", "rejected"} => b.pending = a.pending
    /\ a.invalid => b.invalid
    /\ a.token = "revoked" => b.token = "revoked"

-----------------------------------------------------------------------------
(* The exchanges. *)

CallSet ==
    {Idle}
      \cup [at : {"consume", "claims", "claim", "token"}, id : Pars,
            bound : BOOLEAN, resource : BOOLEAN]
      \cup [at : {"link"}, id : Links, content : Versions]
      \cup [at : {"assign"}, id : Assignments, signer : Signers, content : Versions]

Redeeming(c, r) == c.at \in {"claims", "claim", "token"} /\ c.id = r

\* What an exchange read of its request still holds: a is what is recorded of
\* it, fresh tells that its code is neither burned nor redeemed.
CallFits(c, a, fresh) ==
    /\ c.at = "consume" =>
         /\ a.code # "none"
         /\ c.bound /\ a.code = "issued" /\ a.live => a.decision = "approved"
    /\ c.at \in {"claims", "claim", "token"} =>
         a.code = "consumed" /\ a.decision = "approved" /\ fresh
    /\ c.at = "claim" => a.kind # "login"
    /\ c.at = "token" => a.artifact = IF a.kind = "login" THEN "none" ELSE "claimed"

Fresh(r) == r \notin burned /\ released[r] = 0

ExchangeOK ==
    /\ calls \in [Handlers -> CallSet]
    /\ released \in [Ids -> Nat]
    /\ burned \subseteq Pars
    /\ \A h \in Handlers : CallFits(calls[h], auth[calls[h].id], Fresh(calls[h].id))
    /\ \A r \in Pars, g, h \in Handlers :
          Redeeming(calls[g], r) /\ Redeeming(calls[h], r) => g = h
    /\ \A r \in Ids : auth[r].code # "consumed" => released[r] = 0 /\ r \notin burned
    /\ \A r \in Ids : released[r] = 0 => auth[r].token = "none"
    /\ ReleasedOnce

-----------------------------------------------------------------------------
(* The members. *)

\* A request of a member that waits for the root, or a usable grant.
Holding(a) == a.kind = "grant" /\ a.decision # "rejected" /\ ~(a.decision = "approved" /\ a.invalid)

Usable(a) == a.kind \in {"grant", "portal"} /\ a.decision = "approved" /\ ~a.invalid

Rows ==
    {RootRow} \cup [signer : Signers, by : {"link"}, id : Links, active : BOOLEAN]
              \cup [signer : Signers, by : {"grant"}, id : Ids, active : BOOLEAN]

MembersOK ==
    /\ rows \subseteq Rows /\ RootRow \in rows
    /\ links \in [Links -> LinkRecords]
    /\ template \in Versions \cup {NoTemplate}
    /\ \A r \in Pars : auth[r].owner # NoSigner /\ Holding(auth[r]) => activeMember(auth[r].owner)
    /\ \A r \in Ids : Usable(auth[r]) => GrantRow(auth[r].dapp, r) \in rows

LinksOK ==
    /\ \A l \in Links : links[l].status # "none" => links[l].signer \in Signers
    /\ \A l \in Links : auth[l].kind # "none" => links[l].status \in {"approved", "removed"}
    /\ \A m \in rows : m.by = "link" =>
          links[m.id].status = "approved" /\ links[m.id].signer = m.signer
    /\ \A l \in Links : links[l].status = "approved" => \E m \in rows : m.by = "link" /\ m.id = l

IInv == RecordsOK /\ ExchangeOK /\ MembersOK /\ LinksOK

-----------------------------------------------------------------------------
(***************************************************************************)
(* Steps that change the records of one request and no exchange.           *)
(***************************************************************************)
LEMMA Goods ==
    ASSUME IInv, NEW r \in Ids
    PROVE  /\ auth[r] \in Authorizations /\ GoodRecord(r, auth[r])
           /\ r \in Pars => PushedOK(auth[r])
           /\ r \notin Pars => PortalOK(auth[r])
BY Zenon DEF IInv, RecordsOK, GoodRecord

\* What an exchange read of a request stays true as the request moves on.
LEMMA FitsLater ==
    ASSUME NEW c, NEW a, NEW b, NEW fresh \in BOOLEAN, NEW still \in BOOLEAN,
           CallFits(c, a, fresh), PushedOK(a), PushedOK(b), Later(a, b), fresh => still
    PROVE  CallFits(c, b, still)
<1>1. a \in Authorizations /\ b \in Authorizations
  BY Zenon DEF PushedOK
<1>2. ASSUME c.at = "consume"
      PROVE  /\ b.code # "none"
             /\ c.bound /\ b.code = "issued" /\ b.live => b.decision = "approved"
  BY Zenon, <1>1, <1>2 DEF CallFits, Later, Authorizations
<1>3. ASSUME c.at \in {"claims", "claim", "token"}
      PROVE  b.code = "consumed" /\ b.decision = "approved" /\ still
  BY Zenon, <1>3 DEF CallFits, Later
<1>4. ASSUME c.at = "claim" PROVE b.kind # "login"
  BY <1>4 DEF CallFits, Later, PushedOK, NoRecords
<1>5. ASSUME c.at = "token" PROVE b.artifact = IF b.kind = "login" THEN "none" ELSE "claimed"
  BY Zenon, <1>5 DEF CallFits, Later, PushedOK, NoRecords
<1> QED BY Zenon, <1>2, <1>3, <1>4, <1>5 DEF CallFits

LEMMA IdleFits ==
    Idle \in CallSet /\ (\A a, f : CallFits(Idle, a, f)) /\ \A r : ~Redeeming(Idle, r)
BY Zenon DEF CallSet, CallFits, Idle, Redeeming

\* What the calls do in a step that is not of an exchange: at most, one ends.
CallsEnd ==
    /\ calls' \in [Handlers -> CallSet] /\ \A g \in Handlers : calls'[g] \in {calls[g], Idle}
    /\ UNCHANGED <<released, burned>>

LEMMA CallsStay == ASSUME IInv, UNCHANGED <<calls, released, burned>> PROVE CallsEnd
BY Zenon DEF IInv, ExchangeOK, CallsEnd

LEMMA RecordsMove ==
    ASSUME IInv, CallsEnd, RecordsOK',
           \A r \in Ids : Later(auth[r], auth'[r]),
           \A r \in Ids : released[r] = 0 => auth'[r].token = "none"
    PROVE  ExchangeOK'
<1>1. ASSUME NEW h \in Handlers
      PROVE  CallFits(calls[h], auth'[calls[h].id], Fresh(calls[h].id))
  <2>1. CallFits(calls[h], auth[calls[h].id], Fresh(calls[h].id)) /\ calls[h] \in CallSet
    BY Zenon DEF IInv, ExchangeOK
  <2>2. CASE calls[h].at \in {"consume", "claims", "claim", "token"}
    <3>1. calls[h].id \in Pars
      BY <2>1, <2>2 DEF CallSet, Idle
    <3>2. PushedOK(auth[calls[h].id]) /\ PushedOK(auth'[calls[h].id])
          /\ Later(auth[calls[h].id], auth'[calls[h].id])
      BY Zenon, <3>1 DEF IInv, RecordsOK, GoodRecord, Ids
    <3> QED BY Zenon, <2>1, <3>2, FitsLater DEF Fresh
  <2>3. CASE calls[h].at \notin {"consume", "claims", "claim", "token"}
    BY Zenon, <2>3 DEF CallFits
  <2> QED BY Zenon, <2>2, <2>3
<1>2. \A r \in Ids : auth'[r].code # "consumed" => released[r] = 0 /\ r \notin burned
  BY Zenon DEF IInv, ExchangeOK, Later
<1>3. ReleasedOnce'
  <2>1. ASSUME NEW r \in Ids, released[r] # 0
        PROVE  /\ released[r] = 1 /\ r \notin burned
               /\ auth'[r].decision = "approved" /\ auth'[r].code = "consumed"
               /\ auth'[r].artifact = IF auth'[r].kind = "login" THEN "none" ELSE "claimed"
    <3>1. /\ released[r] = 1 /\ r \notin burned
          /\ auth[r].decision = "approved" /\ auth[r].code = "consumed"
          /\ auth[r].artifact = IF auth[r].kind = "login" THEN "none" ELSE "claimed"
      BY Zenon, <2>1 DEF IInv, ExchangeOK, ReleasedOnce
    <3>2. r \in Pars
      BY <3>1, Goods DEF PortalOK, NoRecords
    <3>3. PushedOK(auth[r]) /\ PushedOK(auth'[r]) /\ Later(auth[r], auth'[r])
      BY Zenon, <3>2 DEF IInv, RecordsOK, GoodRecord
    <3> QED BY Zenon, <3>1, <3>3 DEF Later, PushedOK, NoRecords
  <2> QED BY Zenon, <2>1 DEF ReleasedOnce, CallsEnd
<1>4. UNCHANGED <<released, burned>> /\ calls' \in [Handlers -> CallSet]
  BY Zenon DEF CallsEnd
<1>5. \A h \in Handlers : CallFits(calls'[h], auth'[calls'[h].id], Fresh(calls'[h].id))
  BY Zenon, <1>1, IdleFits DEF CallsEnd
<1>6. \A r \in Pars, g, h \in Handlers :
          Redeeming(calls'[g], r) /\ Redeeming(calls'[h], r) => g = h
  <2>1. \A r \in Pars, g \in Handlers : Redeeming(calls'[g], r) => Redeeming(calls[g], r)
    BY Zenon, IdleFits DEF CallsEnd
  <2> QED BY Zenon, <2>1 DEF IInv, ExchangeOK
<1> QED BY Zenon, <1>2, <1>3, <1>4, <1>5, <1>6 DEF IInv, ExchangeOK, Fresh, Redeeming

LEMMA LaterSelf == ASSUME NEW a PROVE Later(a, a)
BY Zenon DEF Later

LEMMA OneRecord ==
    ASSUME IInv, CallsEnd,
           NEW r \in Ids, NEW b \in Authorizations, auth' = [auth EXCEPT ![r] = b],
           GoodRecord(r, b), Later(auth[r], b), released[r] = 0 => b.token = "none"
    PROVE  RecordsOK' /\ ExchangeOK' /\ \A q \in Ids : Later(auth[q], auth'[q])
<1>1. \A q \in Ids : auth'[q] = IF q = r THEN b ELSE auth[q]
  BY Zenon DEF IInv, RecordsOK
<1>2. auth' \in [Ids -> Authorizations]
  BY Zenon DEF IInv, RecordsOK
<1>3. \A q \in Ids : GoodRecord(q, auth'[q])
  BY Zenon, <1>1 DEF IInv, RecordsOK
<1>4. RecordsOK'
  BY Zenon, <1>2, <1>3 DEF RecordsOK, GoodRecord
<1>5. \A q \in Ids : Later(auth[q], auth'[q])
  BY Zenon, <1>1, LaterSelf
<1>6. \A q \in Ids : released[q] = 0 => auth'[q].token = "none"
  BY Zenon, <1>1 DEF IInv, ExchangeOK
<1> QED BY Zenon, <1>4, <1>5, <1>6, RecordsMove

\* The memberships only grow, by grants; the links stay.
LEMMA MembersGrow ==
    ASSUME IInv, UNCHANGED <<links, template>>,
           NEW r \in Ids, NEW b \in Authorizations, auth' = [auth EXCEPT ![r] = b],
           rows \subseteq rows', rows' \subseteq Rows,
           \A m \in rows' \ rows : m.by = "grant",
           r \in Links => b.kind = auth[r].kind,
           r \in Pars /\ b.owner # NoSigner /\ Holding(b) =>
              \/ auth[r].owner = b.owner /\ Holding(auth[r])
              \/ activeMember(b.owner),
           Usable(b) => GrantRow(b.dapp, r) \in rows'
    PROVE  MembersOK' /\ LinksOK'
<1>1. \A q \in Ids : auth'[q] = IF q = r THEN b ELSE auth[q]
  BY Zenon DEF IInv, RecordsOK
<1>2. \A s : activeMember(s) => activeMember(s)'
  BY Zenon DEF activeMember, RowsOf
<1>3. \A q \in Pars : auth'[q].owner # NoSigner /\ Holding(auth'[q]) => activeMember(auth'[q].owner)
  BY Zenon, <1>1 DEF IInv, MembersOK, Ids
<1>4. \A q \in Pars : auth'[q].owner # NoSigner /\ Holding(auth'[q]) =>
          \E m \in rows' : m.signer = auth'[q].owner /\ m.active
  BY Zenon, <1>3 DEF activeMember, RowsOf
<1>5. \A q \in Ids : Usable(auth'[q]) => GrantRow(auth'[q].dapp, q) \in rows'
  BY Zenon, <1>1 DEF IInv, MembersOK
<1>6. MembersOK'
  BY Zenon, <1>4, <1>5 DEF IInv, MembersOK, Holding, Usable, GrantRow, activeMember, RowsOf
<1>7. LinksOK'
  <2>1. \A l \in Links : auth'[l].kind # "none" => links[l].status \in {"approved", "removed"}
    BY <1>1 DEF IInv, LinksOK, Ids
  <2>2. \A m \in rows' : m.by = "link" =>
          links[m.id].status = "approved" /\ links[m.id].signer = m.signer
    BY Zenon DEF IInv, LinksOK
  <2>3. \A l \in Links : links[l].status = "approved" => \E m \in rows' : m.by = "link" /\ m.id = l
    BY Zenon DEF IInv, LinksOK
  <2> QED BY Zenon, <2>1, <2>2, <2>3 DEF IInv, LinksOK
<1> QED BY Zenon, <1>6, <1>7

Forward == IInv' /\ \A q \in Ids : Later(auth[q], auth'[q])

\* A step that changes one request and, at most, adds the grant it makes.
LEMMA RequestStep ==
    ASSUME IInv, UNCHANGED <<links, template, calls, released, burned>>,
           NEW r \in Pars, NEW b \in Authorizations, auth' = [auth EXCEPT ![r] = b],
           PushedOK(b), Later(auth[r], b), released[r] = 0 => b.token = "none",
           rows' = rows \/ (rows' = rows \cup {GrantRow(b.dapp, r)} /\ b.dapp \in Signers),
           b.owner # NoSigner /\ Holding(b) =>
              \/ auth[r].owner = b.owner /\ Holding(auth[r])
              \/ activeMember(b.owner),
           Usable(b) => \/ Usable(auth[r]) /\ b.dapp = auth[r].dapp
                        \/ GrantRow(b.dapp, r) \in rows'
    PROVE  Forward
<1>1. r \in Ids /\ r \notin Links /\ GoodRecord(r, b)
  BY Zenon, RelayAssumption DEF Ids, GoodRecord
<1>2. RecordsOK' /\ ExchangeOK' /\ \A q \in Ids : Later(auth[q], auth'[q])
  BY Zenon, <1>1, OneRecord, CallsStay
<1>a. PICK m : m = GrantRow(b.dapp, r)
  BY Zenon
<1>b. b.dapp \in Signers => m \in Rows /\ m.by = "grant"
  BY Zenon, <1>1, <1>a DEF Rows, GrantRow
<1>3. rows \subseteq rows' /\ rows' \subseteq Rows /\ \A n \in rows' \ rows : n.by = "grant"
  BY Zenon, <1>a, <1>b DEF IInv, MembersOK
<1>4. Usable(b) => GrantRow(b.dapp, r) \in rows'
  BY Zenon, <1>1, <1>3 DEF IInv, MembersOK
<1>5. MembersOK' /\ LinksOK'
  BY Zenon, <1>1, <1>3, <1>4, MembersGrow
<1> QED BY Zenon, <1>2, <1>5 DEF Forward, IInv

LEMMA PushKeeps ==
    ASSUME IInv, NEW r \in Pars, NEW kind \in {"login", "grant", "operation", "transaction"},
           NEW s \in Signers \cup {NoSigner}, push(r, kind, s)
    PROVE  Forward
<1>a. PICK b : b = [auth[r] EXCEPT !.kind = kind, !.dapp = s]
  BY Zenon
<1>1. r \in Ids /\ auth[r] = NoRecords /\ auth[r] \in Authorizations /\ auth \in [Ids -> Authorizations]
  BY Zenon, Goods DEF push, PushedOK, Ids, IInv, RecordsOK
<1>2. auth' = [auth EXCEPT ![r] = b] /\ UNCHANGED <<rows, links, template, calls, released, burned>>
  BY Zenon, <1>1, <1>a DEF push
<1>3. /\ b \in Authorizations /\ b.kind = kind /\ b.dapp = s /\ b.owner = NoSigner
      /\ b.decision = "none" /\ b.code = "none" /\ b.artifact = "none" /\ b.pending = "none"
      /\ b.token = "none"
  <2>1. b \in Authorizations
    BY Zenon, <1>1, <1>a DEF Authorizations, Kinds
  <2> QED BY <1>1, <1>a, <2>1 DEF NoRecords
<1>4. PushedOK(b)
  BY Zenon, <1>3 DEF PushedOK, push
<1>5. Later(auth[r], b) /\ ~Usable(b)
  BY <1>1, <1>3 DEF Later, NoRecords, Usable
<1> QED BY Zenon, <1>2, <1>3, <1>4, <1>5, RequestStep

LEMMA ExpireKeeps ==
    ASSUME IInv, NEW r \in Pars, Expire(r)
    PROVE  Forward
<1>a. PICK b : b = [auth[r] EXCEPT !.live = FALSE]
  BY Zenon
<1>1. /\ r \in Ids /\ PushedOK(auth[r]) /\ auth[r] \in Authorizations
      /\ auth \in [Ids -> Authorizations]
  BY Zenon, Goods DEF Ids, IInv, RecordsOK
<1>2. auth' = [auth EXCEPT ![r] = b] /\ UNCHANGED <<rows, links, template, calls, released, burned>>
  BY Zenon, <1>1, <1>a DEF Expire
<1>3. /\ b \in Authorizations /\ b.kind = auth[r].kind /\ b.dapp = auth[r].dapp
      /\ b.owner = auth[r].owner /\ b.decision = auth[r].decision /\ b.code = auth[r].code
      /\ b.artifact = auth[r].artifact /\ b.pending = auth[r].pending
      /\ b.token = auth[r].token /\ ~b.live /\ b.invalid = auth[r].invalid
  BY Zenon, <1>1, <1>a DEF Authorizations
<1>4. auth[r].kind # "none"
  BY <1>1 DEF Expire, Undecided, PushedOK, NoRecords
<1>5. PushedOK(b)
  BY Zenon, <1>1, <1>3, <1>4 DEF PushedOK
<1>6. Later(auth[r], b) /\ (Usable(b) => Usable(auth[r])) /\ (Holding(b) => Holding(auth[r]))
  BY Zenon, <1>3 DEF Later, Usable, Holding
<1>7. released[r] = 0 => b.token = "none"
  BY Zenon, <1>1, <1>3 DEF IInv, ExchangeOK
<1> QED BY Zenon, <1>2, <1>3, <1>5, <1>6, <1>7, RequestStep

LEMMA RootIsActive == ASSUME IInv PROVE activeMember(Root)
BY DEF IInv, MembersOK, activeMember, RowsOf, RootRow

LEMMA UndecidedIs ==
    ASSUME IInv, NEW r \in Pars, Undecided(r)
    PROVE  /\ r \in Ids /\ PushedOK(auth[r]) /\ auth[r] \in Authorizations
           /\ auth \in [Ids -> Authorizations]
           /\ auth[r].kind # "none" /\ auth[r].owner = NoSigner /\ auth[r].decision = "none"
           /\ auth[r].code = "none" /\ auth[r].artifact = "none" /\ auth[r].pending = "none"
           /\ released[r] = 0 /\ auth[r].token = "none"
<1>1. r \in Ids /\ PushedOK(auth[r]) /\ auth[r] \in Authorizations /\ auth \in [Ids -> Authorizations]
  BY Zenon, Goods DEF Ids, IInv, RecordsOK
<1>2. auth[r].code = "none"
  BY Zenon, <1>1 DEF Undecided, PushedOK
<1>3. released[r] = 0 /\ auth[r].token = "none"
  BY Zenon, <1>1, <1>2 DEF IInv, ExchangeOK
<1> QED BY Zenon, <1>1, <1>2, <1>3 DEF Undecided, PushedOK

LEMMA ApprovedKeeps ==
    ASSUME IInv, NEW r \in Pars, Undecided(r), NEW owner \in Signers, activeMember(owner),
           auth[r].kind = "grant" => owner = Root,
           NEW artifact, artifact = IF auth[r].kind = "login" THEN "none" ELSE "sealed",
           auth' = Approved(r, owner, artifact),
           IF auth[r].kind = "grant" THEN rows' = rows \cup {GrantRow(auth[r].dapp, r)}
                                     ELSE rows' = rows,
           UNCHANGED <<links, template, calls, released, burned>>
    PROVE  Forward
<1>a. PICK b : b = [auth[r] EXCEPT !.owner = owner, !.decision = "approved",
                                   !.code = "issued", !.artifact = artifact]
  BY Zenon
<1>1. /\ r \in Ids /\ PushedOK(auth[r]) /\ auth[r] \in Authorizations
      /\ auth \in [Ids -> Authorizations]
      /\ auth[r].kind # "none" /\ auth[r].decision = "none" /\ auth[r].code = "none"
      /\ auth[r].pending = "none" /\ auth[r].artifact = "none" /\ auth[r].token = "none"
  BY Zenon, UndecidedIs
<1>2. auth' = [auth EXCEPT ![r] = b]
  BY Zenon, <1>1, <1>a DEF Approved
<1>3. b \in Authorizations
  BY Zenon, <1>1, <1>a DEF Authorizations
<1>4. /\ b.kind = auth[r].kind /\ b.dapp = auth[r].dapp /\ b.owner = owner
      /\ b.decision = "approved" /\ b.code = "issued" /\ b.artifact = artifact
      /\ b.pending = "none" /\ b.token = "none" /\ b.invalid = auth[r].invalid
  BY Zenon, <1>1, <1>a DEF Authorizations
<1>5. PushedOK(b)
  BY Zenon, <1>1, <1>3, <1>4, RelayAssumption DEF PushedOK
<1>6. Later(auth[r], b)
  BY Zenon, <1>1, <1>4 DEF Later
<1>7. b.kind = "grant" => b.dapp \in Signers
  BY Zenon, <1>1, <1>4 DEF PushedOK, Authorizations
<1>8. /\ rows' = rows \/ (rows' = rows \cup {GrantRow(b.dapp, r)} /\ b.dapp \in Signers)
      /\ Usable(b) => GrantRow(b.dapp, r) \in rows'
  BY Zenon, <1>1, <1>4, <1>5, <1>7 DEF Usable, PushedOK
<1> QED BY Zenon, <1>2, <1>3, <1>4, <1>5, <1>6, <1>8, RequestStep

LEMMA DecisionKeeps ==
    ASSUME IInv, NEW r \in Pars, NEW s \in Signers,
           \/ decide_login(r, s)
           \/ decide_grant(r)
           \/ decide_operation(r)
           \/ decide_transaction(r)
    PROVE  Forward
<1>1. CASE decide_login(r, s)
  <2>1. /\ Undecided(r) /\ auth[r].kind = "login" /\ activeMember(s)
        /\ auth' = Approved(r, s, "none")
        /\ rows' = rows /\ UNCHANGED <<links, template, calls, released, burned>>
    BY Zenon, <1>1 DEF decide_login, Open
  <2> QED BY Zenon, <2>1, ApprovedKeeps
<1>2. CASE decide_grant(r)
  <2>1. /\ Undecided(r) /\ auth[r].kind = "grant" /\ auth' = Approved(r, Root, "sealed")
        /\ rows' = rows \cup {GrantRow(auth[r].dapp, r)}
        /\ UNCHANGED <<links, template, calls, released, burned>>
    BY Zenon, <1>2 DEF decide_grant, Open
  <2> QED BY Zenon, <2>1, ApprovedKeeps, RootIsActive, RelayAssumption
<1>3. CASE decide_operation(r)
  <2>1. /\ Undecided(r) /\ auth[r].kind = "operation" /\ auth' = Approved(r, Root, "sealed")
        /\ rows' = rows /\ UNCHANGED <<links, template, calls, released, burned>>
    BY Zenon, <1>3 DEF decide_operation, Open
  <2> QED BY Zenon, <2>1, ApprovedKeeps, RootIsActive, RelayAssumption
<1>4. CASE decide_transaction(r)
  <2>1. /\ Undecided(r) /\ auth[r].kind = "transaction" /\ activeMember(auth[r].dapp)
        /\ auth' = Approved(r, auth[r].dapp, "sealed")
        /\ rows' = rows /\ UNCHANGED <<links, template, calls, released, burned>>
    BY Zenon, <1>4 DEF decide_transaction, Open
  <2>2. auth[r].dapp \in Signers
    BY Zenon, <2>1, UndecidedIs DEF PushedOK, Authorizations
  <2> QED BY Zenon, <2>1, <2>2, ApprovedKeeps
<1> QED BY Zenon, <1>1, <1>2, <1>3, <1>4

LEMMA CancelKeeps ==
    ASSUME IInv, NEW r \in Pars, cancel(r)
    PROVE  Forward
<1>a. PICK b : b = [auth[r] EXCEPT !.decision = "rejected"]
  BY Zenon
<1>1. /\ r \in Ids /\ PushedOK(auth[r]) /\ auth[r] \in Authorizations
      /\ auth \in [Ids -> Authorizations]
      /\ auth[r].kind # "none" /\ auth[r].decision = "none" /\ auth[r].code = "none"
      /\ auth[r].owner = NoSigner
      /\ auth[r].pending = "none" /\ auth[r].artifact = "none" /\ auth[r].token = "none"
  BY Zenon, UndecidedIs DEF cancel, Open
<1>2. auth' = [auth EXCEPT ![r] = b] /\ UNCHANGED <<rows, links, template, calls, released, burned>>
  BY Zenon, <1>1, <1>a DEF cancel
<1>3. b \in Authorizations
  BY Zenon, <1>1, <1>a DEF Authorizations
<1>4. /\ b.kind = auth[r].kind /\ b.dapp = auth[r].dapp /\ b.owner = NoSigner
      /\ b.decision = "rejected" /\ b.code = "none" /\ b.artifact = "none"
      /\ b.pending = "none" /\ b.token = "none" /\ b.invalid = auth[r].invalid
  BY Zenon, <1>1, <1>a DEF Authorizations
<1>5. PushedOK(b)
  BY Zenon, <1>1, <1>3, <1>4 DEF PushedOK
<1>6. Later(auth[r], b) /\ ~Usable(b)
  BY Zenon, <1>1, <1>4 DEF Later, Usable
<1> QED BY Zenon, <1>2, <1>3, <1>4, <1>5, <1>6, RequestStep

LEMMA RequestApprovalKeeps ==
    ASSUME IInv, NEW r \in Pars, NEW s \in Signers, request_root_approval(r, s)
    PROVE  Forward
<1>a. PICK b : b = [auth[r] EXCEPT !.owner = s, !.code = "issued", !.pending = "undecided"]
  BY Zenon
<1>1. /\ r \in Ids /\ PushedOK(auth[r]) /\ auth[r] \in Authorizations
      /\ auth \in [Ids -> Authorizations]
      /\ auth[r].kind = "grant" /\ auth[r].decision = "none" /\ auth[r].code = "none"
      /\ auth[r].pending = "none" /\ auth[r].artifact = "none" /\ auth[r].token = "none"
  BY Zenon, UndecidedIs DEF request_root_approval, Open
<1>2. auth' = [auth EXCEPT ![r] = b] /\ UNCHANGED <<rows, links, template, calls, released, burned>>
  BY Zenon, <1>1, <1>a DEF request_root_approval
<1>3. b \in Authorizations
  BY Zenon, <1>1, <1>a DEF Authorizations
<1>4. /\ b.kind = auth[r].kind /\ b.dapp = auth[r].dapp /\ b.owner = s
      /\ b.decision = "none" /\ b.code = "issued" /\ b.artifact = "none"
      /\ b.pending = "undecided" /\ b.token = "none" /\ b.invalid = auth[r].invalid
  BY Zenon, <1>1, <1>a DEF Authorizations
<1>5. PushedOK(b)
  BY Zenon, <1>1, <1>3, <1>4, RelayAssumption DEF PushedOK
<1>6. Later(auth[r], b) /\ ~Usable(b) /\ activeMember(b.owner)
  BY Zenon, <1>1, <1>4 DEF Later, Usable, request_root_approval
<1> QED BY Zenon, <1>2, <1>3, <1>4, <1>5, <1>6, RequestStep

LEMMA PendingIs ==
    ASSUME IInv, NEW r \in Pars, auth[r].pending = "undecided"
    PROVE  /\ r \in Ids /\ PushedOK(auth[r]) /\ auth[r] \in Authorizations
           /\ auth \in [Ids -> Authorizations]
           /\ auth[r].kind = "grant" /\ auth[r].owner # NoSigner /\ auth[r].decision = "none"
           /\ auth[r].code # "none" /\ auth[r].artifact = "none"
           /\ released[r] = 0 /\ auth[r].token = "none" /\ auth[r].dapp \in Signers
<1>1. r \in Ids /\ PushedOK(auth[r]) /\ auth[r] \in Authorizations /\ auth \in [Ids -> Authorizations]
  BY Zenon, Goods DEF Ids, IInv, RecordsOK
<1>2. /\ auth[r].kind = "grant" /\ auth[r].owner # NoSigner /\ auth[r].decision = "none"
      /\ auth[r].code # "none" /\ auth[r].artifact = "none" /\ auth[r].dapp # NoSigner
  BY Zenon, <1>1 DEF PushedOK
<1>3. released[r] = 0 /\ auth[r].token = "none"
  BY Zenon, <1>1, <1>2 DEF IInv, ExchangeOK, ReleasedOnce
<1> QED BY Zenon, <1>1, <1>2, <1>3 DEF Authorizations

LEMMA ApprovePendingKeeps ==
    ASSUME IInv, NEW r \in Pars, approve_pending(r)
    PROVE  Forward
<1>a. PICK b : b = [auth[r] EXCEPT !.decision = "approved", !.artifact = "sealed",
                                   !.pending = "approved"]
  BY Zenon
<1>1. /\ r \in Ids /\ PushedOK(auth[r]) /\ auth[r] \in Authorizations
      /\ auth \in [Ids -> Authorizations]
      /\ auth[r].kind = "grant" /\ auth[r].owner # NoSigner /\ auth[r].decision = "none"
      /\ auth[r].code # "none" /\ auth[r].pending = "undecided" /\ auth[r].artifact = "none"
      /\ auth[r].token = "none" /\ auth[r].dapp \in Signers
  BY Zenon, PendingIs DEF approve_pending
<1>2. /\ auth' = [auth EXCEPT ![r] = b] /\ rows' = rows \cup {GrantRow(auth[r].dapp, r)}
      /\ UNCHANGED <<links, template, calls, released, burned>>
  BY Zenon, <1>1, <1>a DEF approve_pending
<1>3. b \in Authorizations
  BY Zenon, <1>1, <1>a DEF Authorizations
<1>4. /\ b.kind = "grant" /\ b.dapp = auth[r].dapp /\ b.owner = auth[r].owner
      /\ b.live = auth[r].live
      /\ b.decision = "approved" /\ b.code = auth[r].code /\ b.artifact = "sealed"
      /\ b.pending = "approved" /\ b.token = "none" /\ b.invalid = auth[r].invalid
  BY Zenon, <1>1, <1>a DEF Authorizations
<1>5. PushedOK(b)
  BY Zenon, <1>1, <1>3, <1>4 DEF PushedOK
<1>6. Later(auth[r], b) /\ Holding(auth[r])
  BY Zenon, <1>1, <1>4 DEF Later, Holding
<1>7. GrantRow(b.dapp, r) \in rows'
  BY Zenon, <1>2, <1>4
<1> QED BY Zenon, <1>1, <1>2, <1>3, <1>4, <1>5, <1>6, <1>7, RequestStep

LEMMA RejectPendingKeeps ==
    ASSUME IInv, NEW r \in Pars, reject_pending(r)
    PROVE  Forward
<1>a. PICK b : b = [auth[r] EXCEPT !.decision = "rejected", !.pending = "rejected"]
  BY Zenon
<1>1. /\ r \in Ids /\ PushedOK(auth[r]) /\ auth[r] \in Authorizations
      /\ auth \in [Ids -> Authorizations]
      /\ auth[r].kind = "grant" /\ auth[r].owner # NoSigner /\ auth[r].decision = "none"
      /\ auth[r].code # "none" /\ auth[r].pending = "undecided" /\ auth[r].artifact = "none"
      /\ auth[r].token = "none" /\ auth[r].dapp \in Signers
  BY Zenon, PendingIs DEF reject_pending
<1>2. auth' = [auth EXCEPT ![r] = b] /\ UNCHANGED <<rows, links, template, calls, released, burned>>
  BY Zenon, <1>1, <1>a DEF reject_pending
<1>3. b \in Authorizations
  BY Zenon, <1>1, <1>a DEF Authorizations
<1>4. /\ b.kind = "grant" /\ b.dapp = auth[r].dapp /\ b.owner = auth[r].owner
      /\ b.live = auth[r].live
      /\ b.decision = "rejected" /\ b.code = auth[r].code /\ b.artifact = "none"
      /\ b.pending = "rejected" /\ b.token = "none" /\ b.invalid = auth[r].invalid
  BY Zenon, <1>1, <1>a DEF Authorizations
<1>5. PushedOK(b)
  BY Zenon, <1>1, <1>3, <1>4 DEF PushedOK
<1>6. Later(auth[r], b) /\ ~Holding(b) /\ ~Usable(b)
  BY Zenon, <1>1, <1>4 DEF Later, Holding, Usable
<1> QED BY Zenon, <1>1, <1>2, <1>3, <1>4, <1>5, <1>6, RequestStep

LEMMA RevokeTokenKeeps ==
    ASSUME IInv, NEW r \in Pars, revoke_token(r)
    PROVE  Forward
<1>a. PICK b : b = [auth[r] EXCEPT !.token = "revoked"]
  BY Zenon
<1>1. /\ r \in Ids /\ PushedOK(auth[r]) /\ auth[r] \in Authorizations
      /\ auth \in [Ids -> Authorizations]
  BY Zenon, Goods DEF Ids, IInv, RecordsOK
<1>2. auth' = [auth EXCEPT ![r] = b] /\ UNCHANGED <<rows, links, template, calls, released, burned>>
  BY Zenon, <1>1, <1>a DEF revoke_token
<1>3. b \in Authorizations
  BY Zenon, <1>1, <1>a DEF Authorizations
<1>4. /\ b.kind = auth[r].kind /\ b.dapp = auth[r].dapp /\ b.owner = auth[r].owner
      /\ b.live = auth[r].live
      /\ b.decision = auth[r].decision /\ b.code = auth[r].code /\ b.artifact = auth[r].artifact
      /\ b.pending = auth[r].pending /\ b.token = "revoked" /\ b.invalid = auth[r].invalid
  BY Zenon, <1>1, <1>a DEF Authorizations
<1>5. auth[r].token = "live" /\ released[r] # 0 /\ auth[r].kind # "none"
  BY <1>1 DEF revoke_token, IInv, ExchangeOK, PushedOK, NoRecords
<1>6. PushedOK(b)
  BY Zenon, <1>1, <1>3, <1>4, <1>5 DEF PushedOK
<1>7. Later(auth[r], b) /\ (Usable(b) => Usable(auth[r])) /\ (Holding(b) => Holding(auth[r]))
  BY Zenon, <1>4 DEF Later, Usable, Holding
<1> QED BY Zenon, <1>2, <1>3, <1>4, <1>5, <1>6, <1>7, RequestStep

\* A grant of the pushed kind or of the portal is invalidated.
LEMMA InvalidateKeeps ==
    ASSUME IInv, NEW r \in Ids, invalidate_grant(r)
    PROVE  Forward
<1>a. PICK b : b = [auth[r] EXCEPT !.invalid = TRUE]
  BY Zenon
<1>1. /\ GoodRecord(r, auth[r]) /\ auth[r] \in Authorizations
      /\ auth \in [Ids -> Authorizations]
  BY Zenon, Goods DEF IInv, RecordsOK
<1>2. auth' = [auth EXCEPT ![r] = b] /\ UNCHANGED <<rows, links, template, calls, released, burned>>
  BY Zenon, <1>1, <1>a DEF invalidate_grant
<1>3. b \in Authorizations
  BY Zenon, <1>1, <1>a DEF Authorizations
<1>4. /\ b.kind = auth[r].kind /\ b.dapp = auth[r].dapp /\ b.owner = auth[r].owner
      /\ b.live = auth[r].live
      /\ b.decision = auth[r].decision /\ b.code = auth[r].code /\ b.artifact = auth[r].artifact
      /\ b.pending = auth[r].pending /\ b.token = auth[r].token /\ b.invalid = TRUE
  BY Zenon, <1>1, <1>a DEF Authorizations
<1>5. auth[r].kind \in {"grant", "portal"}
  BY Zenon DEF invalidate_grant, IsGrant
<1>6. GoodRecord(r, b)
  BY <1>1, <1>3, <1>4, <1>5 DEF GoodRecord, PushedOK, PortalOK, NoRecords
<1>7. Later(auth[r], b) /\ ~Usable(b) /\ (Holding(b) => Holding(auth[r]))
  BY Zenon, <1>4 DEF Later, Usable, Holding
<1>8. released[r] = 0 => b.token = "none"
  BY Zenon, <1>4 DEF IInv, ExchangeOK
<1>9. RecordsOK' /\ ExchangeOK' /\ \A q \in Ids : Later(auth[q], auth'[q])
  BY Zenon, <1>2, <1>3, <1>6, <1>7, <1>8, OneRecord, CallsStay
<1>10. MembersOK' /\ LinksOK'
  <2>1. rows \subseteq rows' /\ rows' \subseteq Rows /\ \A m \in rows' \ rows : m.by = "grant"
    BY Zenon, <1>2 DEF IInv, MembersOK
  <2> QED BY Zenon, <1>2, <1>3, <1>4, <1>7, <2>1, MembersGrow
<1> QED BY Zenon, <1>9, <1>10 DEF Forward, IInv

-----------------------------------------------------------------------------
(***************************************************************************)
(* Steps of the handlers.                                                  *)
(***************************************************************************)
\* Members and links do not depend on what is exchanged.
LEMMA MembersStay ==
    ASSUME IInv, UNCHANGED <<rows, links, template>>,
           \A q \in Ids : /\ auth'[q].kind = auth[q].kind /\ auth'[q].dapp = auth[q].dapp
                          /\ auth'[q].owner = auth[q].owner
                          /\ auth'[q].decision = auth[q].decision
                          /\ auth'[q].invalid = auth[q].invalid
    PROVE  MembersOK' /\ LinksOK'
<1>1. \A q \in Ids : Holding(auth'[q]) = Holding(auth[q]) /\ Usable(auth'[q]) = Usable(auth[q])
  BY Zenon DEF Holding, Usable
<1>2. \A q \in Pars : auth'[q].owner # NoSigner /\ Holding(auth'[q]) => activeMember(auth'[q].owner)
  BY Zenon, <1>1 DEF IInv, MembersOK, Ids
<1>3. \A q \in Pars : auth'[q].owner # NoSigner /\ Holding(auth'[q]) =>
          \E m \in rows : m.signer = auth'[q].owner /\ m.active
  BY Zenon, <1>2 DEF activeMember, RowsOf
<1>4. \A q \in Ids : Usable(auth'[q]) => GrantRow(auth'[q].dapp, q) \in rows
  BY Zenon, <1>1 DEF IInv, MembersOK
<1>5. MembersOK'
  BY Zenon, <1>3, <1>4 DEF IInv, MembersOK, Holding, Usable, GrantRow, activeMember, RowsOf
<1>6. LinksOK'
  BY DEF IInv, LinksOK, Ids
<1> QED BY Zenon, <1>5, <1>6

\* A handler begins, goes on or ends, and writes nothing.
LEMMA CallMoves ==
    ASSUME IInv, NEW h \in Handlers, NEW c \in CallSet, calls' = [calls EXCEPT ![h] = c],
           UNCHANGED <<auth, rows, links, template, released, burned>>,
           CallFits(c, auth[c.id], Fresh(c.id)),
           \A r \in Pars : Redeeming(c, r) => Redeeming(calls[h], r)
    PROVE  Forward
<1>1. \A g \in Handlers : calls'[g] = IF g = h THEN c ELSE calls[g]
  BY Zenon DEF IInv, ExchangeOK
<1>2. calls' \in [Handlers -> CallSet]
  BY Zenon DEF IInv, ExchangeOK
<1>3. \A g \in Handlers : CallFits(calls'[g], auth[calls'[g].id], Fresh(calls'[g].id))
  BY Zenon, <1>1 DEF IInv, ExchangeOK
<1>4. \A g \in Handlers, r \in Pars : Redeeming(calls'[g], r) => Redeeming(calls[g], r)
  BY Zenon, <1>1
<1>5. \A r \in Pars, g, k \in Handlers :
        Redeeming(calls'[g], r) /\ Redeeming(calls'[k], r) => g = k
  BY Zenon, <1>4 DEF IInv, ExchangeOK
<1>6. ReleasedOnce'
  BY Zenon DEF IInv, ExchangeOK, ReleasedOnce
<1>7. ExchangeOK'
  BY Zenon, <1>2, <1>3, <1>5, <1>6 DEF IInv, ExchangeOK, Fresh, Redeeming
<1>8. MembersOK' /\ LinksOK'
  BY Zenon, MembersStay
<1>9. RecordsOK'
  BY Zenon DEF IInv, RecordsOK, GoodRecord
<1> QED BY Zenon, <1>7, <1>8, <1>9, LaterSelf DEF Forward, IInv

LEMMA StopKeeps == ASSUME IInv, NEW h \in Handlers, StopCall(h) PROVE Forward
<1>1. calls' = [calls EXCEPT ![h] = Idle]
      /\ UNCHANGED <<auth, rows, links, template, released, burned>>
  BY Zenon DEF StopCall, End
<1> QED BY Zenon, <1>1, IdleFits, CallMoves

\* A handler writes the records of the request it is exchanging.
LEMMA ExchangeMoves ==
    ASSUME IInv, NEW h \in Handlers, NEW c \in CallSet, calls' = [calls EXCEPT ![h] = c],
           NEW r \in Pars, NEW b \in Authorizations, auth' = [auth EXCEPT ![r] = b],
           UNCHANGED <<rows, links, template>>,
           PushedOK(b), Later(auth[r], b),
           b.kind = auth[r].kind, b.dapp = auth[r].dapp, b.owner = auth[r].owner,
           b.decision = auth[r].decision, b.invalid = auth[r].invalid,
           released' \in [Ids -> Nat], burned' \subseteq Pars,
           \A q \in Ids : q # r => released'[q] = released[q] /\ (q \in burned' <=> q \in burned),
           \/ c = Idle
           \/ c.id = r /\ CallFits(c, b, r \notin burned' /\ released'[r] = 0),
           \A g \in Handlers : g # h /\ Redeeming(calls[g], r) =>
              ~Redeeming(c, r) /\ r \notin burned' /\ released'[r] = 0,
           b.code = "consumed",
           released'[r] = 0 => b.token = "none",
           released'[r] # 0 =>
              /\ released'[r] = 1 /\ r \notin burned' /\ b.decision = "approved"
              /\ b.artifact = IF b.kind = "login" THEN "none" ELSE "claimed"
    PROVE  Forward
<1>1. \A g \in Handlers : calls'[g] = IF g = h THEN c ELSE calls[g]
  BY Zenon DEF IInv, ExchangeOK
<1>2. calls' \in [Handlers -> CallSet]
  BY Zenon DEF IInv, ExchangeOK
<1>3. r \in Ids /\ \A q \in Ids : auth'[q] = IF q = r THEN b ELSE auth[q]
  BY Zenon DEF IInv, RecordsOK, Ids
<1>4. RecordsOK'
  <2>1. auth' \in [Ids -> Authorizations] /\ \A q \in Ids : GoodRecord(q, auth'[q])
    BY Zenon, <1>3 DEF IInv, RecordsOK, GoodRecord
  <2> QED BY Zenon, <2>1 DEF RecordsOK, GoodRecord
<1>5. \A q \in Ids : Later(auth[q], auth'[q])
  BY Zenon, <1>3, LaterSelf
<1>6. MembersOK' /\ LinksOK'
  BY Zenon, <1>3, MembersStay
<1>7. ASSUME NEW g \in Handlers
      PROVE  CallFits(calls'[g], auth'[calls'[g].id],
                      calls'[g].id \notin burned' /\ released'[calls'[g].id] = 0)
  <2>1. CASE g = h
    BY <1>1, <1>3, <2>1, IdleFits
  <2>2. CASE g # h
    <3>1. calls'[g] = calls[g] /\ calls[g] \in CallSet
          /\ CallFits(calls[g], auth[calls[g].id], Fresh(calls[g].id))
      BY Zenon, <1>1, <2>2 DEF IInv, ExchangeOK
    <3>2. CASE calls[g].at \in {"consume", "claims", "claim", "token"}
      <4>1. calls[g].id \in Pars
        BY <3>1, <3>2 DEF CallSet, Idle
      <4>2. PushedOK(auth[calls[g].id]) /\ PushedOK(auth'[calls[g].id])
            /\ Later(auth[calls[g].id], auth'[calls[g].id])
        BY Zenon, <1>3, <1>5, <4>1 DEF IInv, RecordsOK, GoodRecord, Ids
      <4>3. CASE calls[g].at = "consume"
        <5>1. CallFits(calls[g], auth'[calls[g].id], Fresh(calls[g].id))
          BY Zenon, <3>1, <4>2, FitsLater DEF Fresh
        <5> QED BY Zenon, <3>1, <4>3, <5>1 DEF CallFits
      <4>4. CASE calls[g].at \in {"claims", "claim", "token"}
        <5>1. Fresh(calls[g].id) => calls[g].id \notin burned' /\ released'[calls[g].id] = 0
          BY Zenon, <2>2, <4>1, <4>4 DEF Fresh, Redeeming, Ids
        <5>2. PICK fresh \in BOOLEAN : fresh = Fresh(calls[g].id)
          BY Zenon DEF Fresh
        <5>3. PICK still \in BOOLEAN :
                 still = (calls[g].id \notin burned' /\ released'[calls[g].id] = 0)
          BY Zenon
        <5>4. CallFits(calls[g], auth'[calls[g].id], still)
          <6>1. /\ fresh \in BOOLEAN /\ still \in BOOLEAN /\ (fresh => still)
                /\ CallFits(calls[g], auth[calls[g].id], fresh)
            BY Zenon, <3>1, <5>1, <5>2, <5>3
          <6>2. PICK x : x = calls[g]
            BY Zenon
          <6>3. PICK y : y = auth[x.id]
            BY Zenon
          <6>4. PICK z : z = auth'[x.id]
            BY Zenon
          <6>5. CallFits(x, y, fresh) /\ PushedOK(y) /\ PushedOK(z) /\ Later(y, z)
            BY Zenon, <4>2, <6>1, <6>2, <6>3, <6>4
          <6>6. CallFits(x, z, still)
            BY Zenon, <6>1, <6>5, FitsLater
          <6> QED BY Zenon, <6>2, <6>4, <6>6
        <5> QED BY Zenon, <3>1, <5>3, <5>4
      <4> QED BY Zenon, <3>2, <4>3, <4>4
    <3>3. CASE calls[g].at \notin {"consume", "claims", "claim", "token"}
      BY Zenon, <3>1, <3>3 DEF CallFits
    <3> QED BY Zenon, <3>2, <3>3
  <2> QED BY Zenon, <2>1, <2>2
<1>8. \A q \in Pars, g, k \in Handlers :
        Redeeming(calls'[g], q) /\ Redeeming(calls'[k], q) => g = k
  <2>1. SUFFICES ASSUME NEW q \in Pars, NEW g \in Handlers, NEW k \in Handlers,
                        Redeeming(calls'[g], q), Redeeming(calls'[k], q), g # k
                 PROVE  FALSE
    BY Zenon
  <2>2. CASE g # h /\ k # h
    BY Zenon, <1>1, <2>1, <2>2 DEF IInv, ExchangeOK
  <2>3. CASE g = h \/ k = h
    <3>1. Redeeming(c, q) /\ \E j \in Handlers : j # h /\ Redeeming(calls[j], q)
      BY <1>1, <2>1, <2>3
    <3>2. q = r
      BY Zenon, <3>1, IdleFits DEF Redeeming
    <3> QED BY Zenon, <3>1, <3>2
  <2> QED BY Zenon, <2>2, <2>3
<1>9. \A q \in Ids : auth'[q].code # "consumed" => released'[q] = 0 /\ q \notin burned'
  BY <1>3 DEF IInv, ExchangeOK
<1>10. \A q \in Ids : released'[q] = 0 => auth'[q].token = "none"
  BY <1>3 DEF IInv, ExchangeOK
<1>11. ReleasedOnce'
  <2>1. ASSUME NEW q \in Ids, released'[q] # 0
        PROVE  /\ released'[q] = 1 /\ q \notin burned'
               /\ auth'[q].decision = "approved" /\ auth'[q].code = "consumed"
               /\ auth'[q].artifact = IF auth'[q].kind = "login" THEN "none" ELSE "claimed"
    BY <1>3, <2>1 DEF IInv, ExchangeOK, ReleasedOnce
  <2> QED BY Zenon, <2>1 DEF ReleasedOnce
<1>12. ExchangeOK'
  BY Zenon, <1>2, <1>7, <1>8, <1>9, <1>10, <1>11 DEF ExchangeOK, Fresh, Redeeming
<1> QED BY Zenon, <1>4, <1>5, <1>6, <1>12 DEF Forward, IInv

LEMMA GateKeeps ==
    ASSUME IInv, NEW h \in Handlers, NEW r \in Pars, NEW bound \in BOOLEAN,
           NEW resource \in BOOLEAN, gate_exchange(h, r, bound, resource)
    PROVE  Forward
<1>1. /\ r \in Ids /\ PushedOK(auth[r]) /\ auth[r] \in Authorizations
      /\ auth \in [Ids -> Authorizations] /\ auth[r].code # "none"
      /\ UNCHANGED <<rows, links, template, released, burned>>
  BY Zenon, Goods DEF Ids, IInv, RecordsOK, gate_exchange
<1>2. CASE /\ auth[r].code = "issued" /\ auth[r].pending = "rejected"
           /\ auth' = [auth EXCEPT ![r].code = "consumed"] /\ UNCHANGED calls
  <2>a. PICK b : b = [auth[r] EXCEPT !.code = "consumed"]
    BY Zenon
  <2>1. auth' = [auth EXCEPT ![r] = b]
    BY Zenon, <1>1, <1>2, <2>a
  <2>2. b \in Authorizations
    BY Zenon, <1>1, <2>a DEF Authorizations
  <2>3. /\ b.kind = auth[r].kind /\ b.dapp = auth[r].dapp /\ b.owner = auth[r].owner
        /\ b.live = auth[r].live
        /\ b.decision = auth[r].decision /\ b.code = "consumed" /\ b.artifact = auth[r].artifact
        /\ b.pending = auth[r].pending /\ b.token = auth[r].token /\ b.invalid = auth[r].invalid
    BY Zenon, <1>1, <2>a DEF Authorizations
  <2>4. PushedOK(b)
    BY Zenon, <1>1, <1>2, <2>2, <2>3 DEF PushedOK, NoRecords
  <2>5. Later(auth[r], b) /\ (Usable(b) => Usable(auth[r])) /\ (Holding(b) => Holding(auth[r]))
    BY Zenon, <2>3 DEF Later, Usable, Holding
  <2>6. released[r] = 0 => b.token = "none"
    BY Zenon, <1>1, <2>3 DEF IInv, ExchangeOK
  <2> QED BY Zenon, <1>1, <1>2, <2>1, <2>2, <2>3, <2>4, <2>5, <2>6, RequestStep
<1>3. CASE /\ ~(bound /\ auth[r].code = "issued" /\ auth[r].live
                  /\ auth[r].pending \in {"undecided", "rejected"})
           /\ calls' = [calls EXCEPT ![h] = [at |-> "consume", id |-> r, bound |-> bound,
                                             resource |-> resource]]
           /\ UNCHANGED auth
  <2>a. PICK c : c = [at |-> "consume", id |-> r, bound |-> bound, resource |-> resource]
    BY Zenon
  <2>1. c \in CallSet /\ c.at = "consume" /\ c.id = r /\ c.bound = bound
    BY Zenon, <2>a DEF CallSet
  <2>2. bound /\ auth[r].code = "issued" /\ auth[r].live => auth[r].decision = "approved"
    BY Zenon, <1>1, <1>3 DEF PushedOK, Authorizations
  <2>3. CallFits(c, auth[c.id], Fresh(c.id)) /\ \A q : ~Redeeming(c, q)
    BY Zenon, <1>1, <2>1, <2>2 DEF CallFits, Redeeming
  <2> QED BY Zenon, <1>1, <1>3, <2>a, <2>1, <2>3, CallMoves
<1> QED BY Zenon, <1>2, <1>3 DEF gate_exchange, Begin

LEMMA AtCall ==
    ASSUME IInv, NEW h \in Handlers, calls[h].at \in {"consume", "claims", "claim", "token"}
    PROVE  /\ calls[h] \in CallSet /\ calls[h].id \in Pars /\ calls[h].id \in Ids
           /\ calls[h].bound \in BOOLEAN /\ calls[h].resource \in BOOLEAN
           /\ PushedOK(auth[calls[h].id]) /\ auth[calls[h].id] \in Authorizations
           /\ auth \in [Ids -> Authorizations]
           /\ CallFits(calls[h], auth[calls[h].id], Fresh(calls[h].id))
           /\ \A at \in {"consume", "claims", "claim", "token"} :
                 LET c == [calls[h] EXCEPT !.at = at]
                 IN  /\ c \in CallSet /\ c.at = at /\ c.id = calls[h].id
                     /\ c.bound = calls[h].bound /\ c.resource = calls[h].resource
<1>1. calls[h] \in [at : {"consume", "claims", "claim", "token"}, id : Pars,
                    bound : BOOLEAN, resource : BOOLEAN]
  BY DEF IInv, ExchangeOK, CallSet, Idle
<1>2. calls[h].id \in Pars /\ calls[h].id \in Ids /\ calls[h] \in CallSet
      /\ calls[h].bound \in BOOLEAN /\ calls[h].resource \in BOOLEAN
  BY Zenon, <1>1 DEF CallSet, Ids
<1>3. PushedOK(auth[calls[h].id]) /\ auth[calls[h].id] \in Authorizations
      /\ auth \in [Ids -> Authorizations]
      /\ CallFits(calls[h], auth[calls[h].id], Fresh(calls[h].id))
  BY Zenon, <1>2, Goods DEF IInv, RecordsOK, ExchangeOK
<1>4. ASSUME NEW at \in {"consume", "claims", "claim", "token"},
             NEW c, c = [calls[h] EXCEPT !.at = at]
      PROVE  /\ c \in CallSet /\ c.at = at /\ c.id = calls[h].id
             /\ c.bound = calls[h].bound /\ c.resource = calls[h].resource
  BY Zenon, <1>1, <1>4 DEF CallSet
<1> QED BY Zenon, <1>2, <1>3, <1>4

LEMMA ConsumeKeeps ==
    ASSUME IInv, NEW h \in Handlers, consume(h)
    PROVE  Forward
<1>a. PICK r : r = calls[h].id
  BY Zenon
<1>b. PICK c : c = [calls[h] EXCEPT !.at = "claims"]
  BY Zenon
<1>0. calls[h].at = "consume"
  BY Zenon DEF consume
<1>1. /\ r \in Pars /\ r \in Ids /\ calls[h].bound \in BOOLEAN
      /\ PushedOK(auth[r]) /\ auth[r] \in Authorizations /\ auth \in [Ids -> Authorizations]
      /\ CallFits(calls[h], auth[r], Fresh(r))
      /\ c \in CallSet /\ c.at = "claims" /\ c.id = r
  BY Zenon, <1>0, <1>a, <1>b, AtCall
<1>2. released \in [Ids -> Nat] /\ burned \subseteq Pars /\ calls \in [Handlers -> CallSet]
  BY Zenon DEF IInv, ExchangeOK
<1>3. UNCHANGED <<rows, links, template, released>>
  BY Zenon DEF consume
<1>4. CASE calls' = [calls EXCEPT ![h] = Idle] /\ UNCHANGED <<auth, burned>>
  BY Zenon, <1>3, <1>4, IdleFits, CallMoves
<1>5. ASSUME auth[r].code = "issued"
      PROVE  Fresh(r) /\ \A g \in Handlers : ~Redeeming(calls[g], r)
  <2>1. released[r] = 0 /\ r \notin burned
    BY Zenon, <1>1, <1>5 DEF IInv, ExchangeOK
  <2>2. ASSUME NEW g \in Handlers, Redeeming(calls[g], r) PROVE FALSE
    BY Zenon, <1>5, <2>2, AtCall DEF Redeeming, CallFits
  <2> QED BY Zenon, <2>1, <2>2 DEF Fresh
<1>6. CASE /\ auth[r].code = "issued" /\ auth[r].live /\ calls[h].bound
           /\ auth' = [auth EXCEPT ![r].code = "consumed"]
           /\ calls' = [calls EXCEPT ![h].at = "claims"] /\ UNCHANGED burned
  <2>a. PICK b : b = [auth[r] EXCEPT !.code = "consumed"]
    BY Zenon
  <2>1. auth' = [auth EXCEPT ![r] = b] /\ calls' = [calls EXCEPT ![h] = c]
    BY Zenon, <1>1, <1>2, <1>6, <1>b, <2>a
  <2>2. b \in Authorizations
    BY <1>1, <2>a DEF Authorizations
  <2>3. /\ b.kind = auth[r].kind /\ b.dapp = auth[r].dapp /\ b.owner = auth[r].owner
        /\ b.live = auth[r].live
        /\ b.decision = auth[r].decision /\ b.code = "consumed" /\ b.artifact = auth[r].artifact
        /\ b.pending = auth[r].pending /\ b.token = auth[r].token /\ b.invalid = auth[r].invalid
    BY Zenon, <1>1, <2>a DEF Authorizations
  <2>4. PushedOK(b)
    BY <1>1, <1>6, <2>2, <2>3 DEF PushedOK, NoRecords
  <2>5. Later(auth[r], b)
    BY Zenon, <2>3 DEF Later
  <2>6. released[r] = 0 /\ r \notin burned /\ auth[r].token = "none"
    BY Zenon, <1>1, <1>5, <1>6 DEF Fresh, IInv, ExchangeOK
  <2>7. CallFits(c, b, r \notin burned /\ released[r] = 0)
    BY Zenon, <1>0, <1>1, <1>6, <2>3, <2>6 DEF CallFits
  <2>8. /\ released' \in [Ids -> Nat] /\ burned' \subseteq Pars
        /\ \A q \in Ids : q # r => released'[q] = released[q] /\ (q \in burned' <=> q \in burned)
        /\ CallFits(c, b, r \notin burned' /\ released'[r] = 0) /\ released'[r] = 0
    BY Zenon, <1>2, <1>3, <1>6, <2>6, <2>7
  <2>9. \A g \in Handlers : ~Redeeming(calls[g], r)
    BY Zenon, <1>5, <1>6
  <2> QED BY Zenon, <1>1, <1>3, <2>1, <2>2, <2>3, <2>4, <2>5, <2>6, <2>8, <2>9, ExchangeMoves
<1>7. CASE /\ auth[r].code = "issued"
           /\ auth' = [auth EXCEPT ![r].code = "consumed",
                                   ![r].artifact = IF @ = "sealed" THEN "claimed" ELSE @]
           /\ burned' = burned \cup {r} /\ calls' = [calls EXCEPT ![h] = Idle]
  <2>c. PICK artifact : artifact = IF auth[r].artifact = "sealed" THEN "claimed" ELSE auth[r].artifact
    BY Zenon
  <2>a. PICK b : b = [auth[r] EXCEPT !.code = "consumed", !.artifact = artifact]
    BY Zenon
  <2>1. auth' = [auth EXCEPT ![r] = b]
    BY Zenon, <1>1, <1>7, <2>a, <2>c
  <2>0. /\ artifact \in {"none", "sealed", "claimed"}
        /\ artifact # "sealed" /\ (artifact = "none" <=> auth[r].artifact = "none")
    BY Zenon, <1>1, <2>c DEF Authorizations
  <2>2. b \in Authorizations
    <3>1. PICK k : k = [auth[r] EXCEPT !.code = "consumed"]
      BY Zenon
    <3>2. k \in Authorizations
      BY <1>1, <3>1 DEF Authorizations
    <3>3. b = [k EXCEPT !.artifact = artifact]
      BY Zenon, <2>a, <3>1
    <3>4. artifact \in {"none", "sealed", "claimed"}
      BY Zenon, <2>0
    <3> QED BY Zenon, <3>2, <3>3, <3>4 DEF Authorizations
  <2>3. /\ b.kind = auth[r].kind /\ b.dapp = auth[r].dapp /\ b.owner = auth[r].owner
        /\ b.live = auth[r].live
        /\ b.decision = auth[r].decision /\ b.code = "consumed" /\ b.artifact = artifact
        /\ b.pending = auth[r].pending /\ b.token = auth[r].token /\ b.invalid = auth[r].invalid
    BY Zenon, <1>1, <2>a DEF Authorizations
  <2>4. PushedOK(b)
    BY <1>1, <1>7, <2>0, <2>2, <2>3 DEF PushedOK, NoRecords
  <2>5. Later(auth[r], b)
    BY Zenon, <2>0, <2>3, <2>c DEF Later
  <2>6. released[r] = 0 /\ auth[r].token = "none"
    BY Zenon, <1>1, <1>5, <1>7 DEF Fresh, IInv, ExchangeOK
  <2>8. /\ released' \in [Ids -> Nat] /\ burned' \subseteq Pars
        /\ \A q \in Ids : q # r => released'[q] = released[q] /\ (q \in burned' <=> q \in burned)
        /\ released'[r] = 0
    BY Zenon, <1>1, <1>2, <1>3, <1>7, <2>6
  <2>9. \A g \in Handlers : ~Redeeming(calls[g], r)
    BY Zenon, <1>5, <1>7
  <2>d. PICK i : i = Idle
    BY Zenon
  <2>10. i \in CallSet /\ i = Idle /\ calls' = [calls EXCEPT ![h] = i]
    BY Zenon, <1>7, <2>d, IdleFits
  <2>11. \A g \in Handlers : g # h /\ Redeeming(calls[g], r) =>
            ~Redeeming(i, r) /\ r \notin burned' /\ released'[r] = 0
    BY Zenon, <2>9
  <2>12. released'[r] = 0 /\ b.code = "consumed" /\ b.token = "none"
    BY Zenon, <2>3, <2>6, <2>8
  <2>13. r \in Pars
    BY Zenon, <1>1
  <2> QED BY Zenon, <1>3, <2>1, <2>2, <2>3, <2>4, <2>5, <2>8, <2>10, <2>11, <2>12, <2>13,
             ExchangeMoves
<1> QED BY Zenon, <1>4, <1>6, <1>7, <1>a DEF consume, End, Advance

LEMMA ClaimsKeeps ==
    ASSUME IInv, NEW h \in Handlers, login_claims(h)
    PROVE  Forward
<1>a. PICK r : r = calls[h].id
  BY Zenon
<1>b. PICK at : at = IF auth[r].kind = "login" THEN "token" ELSE "claim"
  BY Zenon
<1>c. PICK c : c = [calls[h] EXCEPT !.at = at]
  BY Zenon
<1>0. calls[h].at = "claims" /\ UNCHANGED <<auth, rows, links, template, released, burned>>
  BY Zenon DEF login_claims
<1>1. /\ r \in Pars /\ PushedOK(auth[r]) /\ CallFits(calls[h], auth[r], Fresh(r))
      /\ c \in CallSet /\ c.at = at /\ c.id = r
  <2>1. at \in {"consume", "claims", "claim", "token"}
    BY Zenon, <1>b
  <2>2. c \in CallSet /\ c.at = at /\ c.id = calls[h].id
    BY Zenon, <1>0, <1>c, <2>1, AtCall
  <2>3. /\ calls[h].id \in Pars /\ PushedOK(auth[calls[h].id])
        /\ CallFits(calls[h], auth[calls[h].id], Fresh(calls[h].id))
    BY Zenon, <1>0, AtCall
  <2> QED BY Zenon, <1>a, <2>2, <2>3
<1>2. calls' = [calls EXCEPT ![h] = Idle] \/ calls' = [calls EXCEPT ![h] = c]
  <2>1. calls \in [Handlers -> CallSet]
    BY Zenon DEF IInv, ExchangeOK
  <2> QED BY Zenon, <2>1, <1>a, <1>b, <1>c DEF login_claims, End, Advance
<1>3. CallFits(c, auth[c.id], Fresh(c.id))
  BY Zenon, <1>0, <1>1, <1>b DEF CallFits, PushedOK
<1>4. \A q \in Pars : Redeeming(c, q) => Redeeming(calls[h], q)
  BY Zenon, <1>0, <1>1, <1>a DEF Redeeming
<1>5. CASE calls' = [calls EXCEPT ![h] = Idle]
  BY Zenon, <1>0, <1>5, IdleFits, CallMoves
<1>6. CASE calls' = [calls EXCEPT ![h] = c]
  BY Zenon, <1>0, <1>1, <1>3, <1>4, <1>6, CallMoves
<1> QED BY Zenon, <1>2, <1>5, <1>6

LEMMA ClaimKeeps ==
    ASSUME IInv, NEW h \in Handlers, claim(h)
    PROVE  Forward
<1>a. PICK r : r = calls[h].id
  BY Zenon
<1>b. PICK c : c = [calls[h] EXCEPT !.at = "token"]
  BY Zenon
<1>0. calls[h].at = "claim" /\ UNCHANGED <<rows, links, template, released, burned>>
  BY Zenon DEF claim
<1>1. /\ r \in Pars /\ r \in Ids
      /\ PushedOK(auth[r]) /\ auth[r] \in Authorizations /\ auth \in [Ids -> Authorizations]
      /\ CallFits(calls[h], auth[r], Fresh(r))
      /\ c \in CallSet /\ c.at = "token" /\ c.id = r
  BY Zenon, <1>0, <1>a, <1>b, AtCall
<1>2. released \in [Ids -> Nat] /\ burned \subseteq Pars /\ calls \in [Handlers -> CallSet]
  BY Zenon DEF IInv, ExchangeOK
<1>3. CASE calls' = [calls EXCEPT ![h] = Idle] /\ UNCHANGED auth
  BY Zenon, <1>0, <1>3, IdleFits, CallMoves
<1>4. CASE /\ auth[r].artifact = "sealed"
           /\ auth' = [auth EXCEPT ![r].artifact = "claimed"]
           /\ calls' = [calls EXCEPT ![h].at = "token"]
  <2>a. PICK b : b = [auth[r] EXCEPT !.artifact = "claimed"]
    BY Zenon
  <2>1. auth' = [auth EXCEPT ![r] = b] /\ calls' = [calls EXCEPT ![h] = c]
    BY Zenon, <1>1, <1>2, <1>4, <1>b, <2>a
  <2>2. b \in Authorizations
    BY <1>1, <2>a DEF Authorizations
  <2>3. /\ b.kind = auth[r].kind /\ b.dapp = auth[r].dapp /\ b.owner = auth[r].owner
        /\ b.live = auth[r].live
        /\ b.decision = auth[r].decision /\ b.code = auth[r].code /\ b.artifact = "claimed"
        /\ b.pending = auth[r].pending /\ b.token = auth[r].token /\ b.invalid = auth[r].invalid
    BY Zenon, <1>1, <2>a DEF Authorizations
  <2>4. auth[r].code = "consumed" /\ auth[r].decision = "approved" /\ Fresh(r) /\ auth[r].kind # "login"
    BY Zenon, <1>0, <1>1 DEF CallFits
  <2>5. PushedOK(b)
    BY <1>1, <1>4, <2>2, <2>3, <2>4 DEF PushedOK, NoRecords
  <2>6. Later(auth[r], b)
    BY Zenon, <2>3 DEF Later
  <2>7. released'[r] = 0 /\ r \notin burned' /\ b.token = "none" /\ b.code = "consumed"
    BY Zenon, <1>0, <1>1, <2>3, <2>4 DEF Fresh, IInv, ExchangeOK
  <2>8. CallFits(c, b, r \notin burned' /\ released'[r] = 0)
    BY Zenon, <1>1, <2>3, <2>4, <2>7 DEF CallFits
  <2>9. /\ released' \in [Ids -> Nat] /\ burned' \subseteq Pars
        /\ \A q \in Ids : q # r => released'[q] = released[q] /\ (q \in burned' <=> q \in burned)
    BY Zenon, <1>0, <1>2
  <2>10. \A g \in Handlers : g # h => ~Redeeming(calls[g], r)
    BY Zenon, <1>0, <1>1, <1>a DEF IInv, ExchangeOK, Redeeming
  <2> QED BY Zenon, <1>0, <1>1, <2>1, <2>2, <2>3, <2>5, <2>6, <2>7, <2>8, <2>9, <2>10, ExchangeMoves
<1> QED BY Zenon, <1>3, <1>4, <1>a DEF claim, End, Advance

LEMMA RespondKeeps ==
    ASSUME IInv, NEW h \in Handlers, respond(h)
    PROVE  Forward
<1>a. PICK r : r = calls[h].id
  BY Zenon
<1>b. PICK token : token = IF calls[h].resource THEN auth[r].token ELSE "live"
  BY Zenon
<1>c. PICK b : b = [auth[r] EXCEPT !.token = token]
  BY Zenon
<1>d. PICK i : i = Idle
  BY Zenon
<1>0. calls[h].at = "token" /\ UNCHANGED <<rows, links, template, burned>>
  BY Zenon DEF respond
<1>1. /\ r \in Pars /\ r \in Ids
      /\ PushedOK(auth[r]) /\ auth[r] \in Authorizations /\ auth \in [Ids -> Authorizations]
      /\ CallFits(calls[h], auth[r], Fresh(r))
  BY Zenon, <1>0, <1>a, AtCall
<1>2. released \in [Ids -> Nat] /\ burned \subseteq Pars /\ calls \in [Handlers -> CallSet]
  BY Zenon DEF IInv, ExchangeOK
<1>3. /\ auth[r].code = "consumed" /\ auth[r].decision = "approved" /\ Fresh(r)
      /\ auth[r].artifact = IF auth[r].kind = "login" THEN "none" ELSE "claimed"
      /\ auth[r].token = "none"
  BY Zenon, <1>0, <1>1 DEF CallFits, IInv, ExchangeOK, Fresh
<1>4. token \in {"none", "live", "revoked"}
  BY Zenon, <1>3, <1>b
<1>5. /\ calls' = [calls EXCEPT ![h] = i] /\ i \in CallSet /\ i = Idle /\ ~Redeeming(i, r)
      /\ released' = [released EXCEPT ![r] = @ + 1]
  BY Zenon, <1>a, <1>d, IdleFits DEF respond, End
<1>6. auth' = [auth EXCEPT ![r] = b]
  <2>1. CASE calls[h].resource
    <3>1. auth' = auth /\ token = auth[r].token
      BY Zenon, <1>a, <1>b, <2>1 DEF respond
    <3>2. b = auth[r]
      BY Zenon, <1>1, <1>c, <3>1 DEF Authorizations
    <3> QED BY Zenon, <1>1, <3>1, <3>2
  <2>2. CASE ~calls[h].resource
    BY Zenon, <1>1, <1>a, <1>b, <1>c, <2>2 DEF respond
  <2> QED BY Zenon, <2>1, <2>2
<1>7. b \in Authorizations
  BY Zenon, <1>1, <1>4, <1>c DEF Authorizations
<1>8. /\ b.kind = auth[r].kind /\ b.dapp = auth[r].dapp /\ b.owner = auth[r].owner
      /\ b.live = auth[r].live
      /\ b.decision = auth[r].decision /\ b.code = auth[r].code /\ b.artifact = auth[r].artifact
      /\ b.pending = auth[r].pending /\ b.invalid = auth[r].invalid
  BY Zenon, <1>1, <1>c DEF Authorizations
<1>9. PushedOK(b)
  BY <1>1, <1>3, <1>7, <1>8 DEF PushedOK, NoRecords
<1>10. Later(auth[r], b)
  BY Zenon, <1>3, <1>8 DEF Later
<1>11. /\ released' \in [Ids -> Nat] /\ released'[r] = 1 /\ r \notin burned' /\ burned' \subseteq Pars
       /\ \A q \in Ids : q # r => released'[q] = released[q] /\ (q \in burned' <=> q \in burned)
  BY <1>0, <1>1, <1>2, <1>3, <1>5 DEF Fresh
<1>12. \A g \in Handlers : g # h => ~Redeeming(calls[g], r)
  BY Zenon, <1>0, <1>1, <1>a DEF IInv, ExchangeOK, Redeeming
<1>13. /\ b.code = "consumed" /\ b.decision = "approved" /\ released'[r] # 0
       /\ b.artifact = IF b.kind = "login" THEN "none" ELSE "claimed"
  BY <1>3, <1>8, <1>11
<1> QED BY Zenon, <1>0, <1>1, <1>5, <1>6, <1>7, <1>8, <1>9, <1>10, <1>11, <1>12, <1>13, ExchangeMoves

-----------------------------------------------------------------------------
(***************************************************************************)
(* Templates, links and grants under a template.                           *)
(***************************************************************************)
LEMMA ExchangesStay ==
    ASSUME IInv, UNCHANGED <<auth, calls, released, burned>>
    PROVE  RecordsOK' /\ ExchangeOK' /\ \A q \in Ids : Later(auth[q], auth'[q])
<1>1. RecordsOK'
  BY Zenon DEF IInv, RecordsOK, GoodRecord
<1>2. \A q \in Ids : Later(auth[q], auth'[q])
  BY Zenon, LaterSelf
<1>3. \A q \in Ids : released[q] = 0 => auth'[q].token = "none"
  BY Zenon DEF IInv, ExchangeOK
<1> QED BY Zenon, <1>1, <1>2, <1>3, CallsStay, RecordsMove

\* No active membership is taken away.
LEMMA MembersMove ==
    ASSUME IInv, links' \in [Links -> LinkRecords], template' \in Versions \cup {NoTemplate},
           rows' \subseteq Rows, \A m \in rows : m.active => m \in rows',
           \A q \in Pars : auth'[q] = auth[q],
           \A q \in Ids : Usable(auth'[q]) => auth'[q] = auth[q] \/ GrantRow(auth'[q].dapp, q) \in rows'
    PROVE  MembersOK'
<1>1. \A q \in Pars : auth'[q].owner # NoSigner /\ Holding(auth'[q]) =>
          \E m \in rows' : m.signer = auth'[q].owner /\ m.active
  BY Zenon DEF IInv, MembersOK, activeMember, RowsOf
<1>2. \A q \in Ids : Usable(auth'[q]) => GrantRow(auth'[q].dapp, q) \in rows'
  BY Zenon DEF IInv, MembersOK, GrantRow
<1>3. RootRow \in rows'
  BY Zenon DEF IInv, MembersOK, RootRow
<1> QED BY Zenon, <1>1, <1>2, <1>3 DEF MembersOK, Holding, Usable, GrantRow, activeMember, RowsOf

LEMMA TemplateKeeps ==
    ASSUME IInv, template' \in Versions \cup {NoTemplate},
           UNCHANGED <<auth, rows, links, calls, released, burned>>
    PROVE  Forward
<1>1. RecordsOK' /\ ExchangeOK' /\ \A q \in Ids : Later(auth[q], auth'[q])
  BY Zenon, ExchangesStay
<1>2. links \in [Links -> LinkRecords] /\ rows \subseteq Rows
  BY Zenon DEF IInv, MembersOK
<1>3. MembersOK'
  BY Zenon, <1>2, MembersMove
<1>4. LinksOK'
  BY Zenon DEF IInv, LinksOK
<1> QED BY Zenon, <1>1, <1>3, <1>4 DEF Forward, IInv

\* A link request is made, expires, or is rejected or approved without grant.
LEMMA LinkKeeps ==
    ASSUME IInv, NEW l \in Links, NEW k \in LinkRecords, links' = [links EXCEPT ![l] = k],
           UNCHANGED <<auth, template, calls, released, burned>>,
           auth[l].kind = "none", links[l].status # "approved",
           k.signer \in Signers,
           \/ k.status # "approved" /\ rows' = rows
           \/ k.status = "approved" /\ rows' = rows \cup {LinkRow(k.signer, l)}
    PROVE  Forward
<1>a. PICK m : m = LinkRow(k.signer, l)
  BY Zenon
<1>1. m \in Rows /\ m.by = "link" /\ m.id = l /\ m.signer = k.signer
  BY Zenon, <1>a DEF LinkRow, Rows
<1>2. RecordsOK' /\ ExchangeOK' /\ \A q \in Ids : Later(auth[q], auth'[q])
  BY Zenon, ExchangesStay
<1>3. /\ links \in [Links -> LinkRecords] /\ rows \subseteq Rows
      /\ template \in Versions \cup {NoTemplate}
  BY Zenon DEF IInv, MembersOK
<1>4. links' \in [Links -> LinkRecords] /\ \A q \in Links : links'[q] = IF q = l THEN k ELSE links[q]
  BY Zenon, <1>3
<1>5. MembersOK'
  BY Zenon, <1>1, <1>3, <1>4, <1>a, MembersMove
<1>6. \A n \in rows : n.by = "link" => n.id \in Links /\ n.id # l
  BY <1>3 DEF IInv, LinksOK, Rows, RootRow
<1>7. LinksOK'
  <2>1. \A q \in Links : links'[q].status # "none" => links'[q].signer \in Signers
    BY <1>4 DEF IInv, LinksOK
  <2>2. \A q \in Links : auth[q].kind # "none" => links'[q].status \in {"approved", "removed"}
    BY Zenon, <1>4 DEF IInv, LinksOK
  <2>3. \A n \in rows' : n.by = "link" =>
          links'[n.id].status = "approved" /\ links'[n.id].signer = n.signer
    BY <1>1, <1>4, <1>6, <1>a DEF IInv, LinksOK
  <2>4. \A q \in Links : links'[q].status = "approved" => \E n \in rows' : n.by = "link" /\ n.id = q
    BY <1>1, <1>4, <1>a DEF IInv, LinksOK
  <2> QED BY Zenon, <2>1, <2>2, <2>3, <2>4 DEF LinksOK
<1> QED BY Zenon, <1>2, <1>5, <1>7 DEF Forward, IInv

LEMMA LinkStepKeeps ==
    ASSUME IInv, NEW l \in Links, NEW s \in Signers,
           create_link(l, s) \/ ExpireLink(l) \/ reject_link(l) \/ join_link(l)
    PROVE  Forward
<1>1. links \in [Links -> LinkRecords] /\ links[l] \in LinkRecords
  BY Zenon DEF IInv, MembersOK
<1>2. links[l].status \in {"none", "pending"} /\ UNCHANGED <<auth, template, calls, released, burned>>
  BY Zenon DEF create_link, ExpireLink, reject_link, join_link
<1>3. auth[l].kind = "none"
  BY Zenon, <1>2 DEF IInv, LinksOK
<1>4. links[l].status = "pending" => links[l].signer \in Signers
  BY Zenon DEF IInv, LinksOK
<1>5. CASE create_link(l, s)
  <2>1. PICK k : k = [links[l] EXCEPT !.signer = s, !.status = "pending"]
    BY Zenon
  <2>2. k \in LinkRecords /\ k.signer = s /\ k.status = "pending"
    BY Zenon, <1>1, <2>1 DEF LinkRecords
  <2>3. links' = [links EXCEPT ![l] = k] /\ rows' = rows
    BY Zenon, <1>1, <1>5, <2>1 DEF create_link
  <2> QED BY Zenon, <1>2, <1>3, <2>2, <2>3, LinkKeeps
<1>6. CASE ExpireLink(l)
  <2>1. PICK k : k = [links[l] EXCEPT !.live = FALSE]
    BY Zenon
  <2>2. k \in LinkRecords /\ k.signer = links[l].signer /\ k.status = "pending"
    BY Zenon, <1>1, <1>6, <2>1 DEF LinkRecords, ExpireLink
  <2>3. links' = [links EXCEPT ![l] = k] /\ rows' = rows /\ links[l].status = "pending"
    BY Zenon, <1>1, <1>6, <2>1 DEF ExpireLink
  <2> QED BY Zenon, <1>2, <1>3, <1>4, <2>2, <2>3, LinkKeeps
<1>7. CASE reject_link(l)
  <2>1. PICK k : k = [links[l] EXCEPT !.status = "rejected"]
    BY Zenon
  <2>2. k \in LinkRecords /\ k.signer = links[l].signer /\ k.status = "rejected"
    BY Zenon, <1>1, <2>1 DEF LinkRecords
  <2>3. links' = [links EXCEPT ![l] = k] /\ rows' = rows /\ links[l].status = "pending"
    BY Zenon, <1>1, <1>7, <2>1 DEF reject_link
  <2> QED BY Zenon, <1>2, <1>3, <1>4, <2>2, <2>3, LinkKeeps
<1>8. CASE join_link(l)
  <2>1. PICK k : k = [links[l] EXCEPT !.status = "approved"]
    BY Zenon
  <2>2. k \in LinkRecords /\ k.signer = links[l].signer /\ k.status = "approved"
    BY Zenon, <1>1, <2>1 DEF LinkRecords
  <2>3. /\ links' = [links EXCEPT ![l] = k] /\ links[l].status = "pending"
        /\ rows' = rows \cup {LinkRow(k.signer, l)}
    BY Zenon, <1>1, <1>8, <2>1, <2>2 DEF join_link
  <2> QED BY Zenon, <1>2, <1>3, <1>4, <2>2, <2>3, LinkKeeps
<1> QED BY Zenon, <1>5, <1>6, <1>7, <1>8

LEMMA VerifyKeeps ==
    ASSUME IInv, NEW h \in Handlers,
           \/ \E l \in Links : verify_link_grant(h, l)
           \/ \E r \in Assignments, s \in Signers : verify_assignment(h, r, s)
    PROVE  Forward
<1>1. template \in Versions \cup {NoTemplate}
  BY Zenon DEF IInv, MembersOK
<1>2. CASE \E l \in Links : verify_link_grant(h, l)
  <2>1. PICK l \in Links : verify_link_grant(h, l)
    BY Zenon, <1>2
  <2>2. PICK c : c = [at |-> "link", id |-> l, content |-> template]
    BY Zenon
  <2>3. c \in CallSet /\ c.at = "link"
    BY Zenon, <1>1, <2>1, <2>2 DEF CallSet, verify_link_grant
  <2>4. CallFits(c, auth[c.id], Fresh(c.id)) /\ \A q : ~Redeeming(c, q)
    BY Zenon, <2>3 DEF CallFits, Redeeming
  <2>5. /\ calls' = [calls EXCEPT ![h] = c]
        /\ UNCHANGED <<auth, rows, links, template, released, burned>>
    BY Zenon, <2>1, <2>2 DEF verify_link_grant, Begin
  <2> QED BY Zenon, <2>3, <2>4, <2>5, CallMoves
<1>3. CASE \E r \in Assignments, s \in Signers : verify_assignment(h, r, s)
  <2>1. PICK r \in Assignments, s \in Signers : verify_assignment(h, r, s)
    BY Zenon, <1>3
  <2>2. PICK c : c = [at |-> "assign", id |-> r, signer |-> s, content |-> template]
    BY Zenon
  <2>3. c \in CallSet /\ c.at = "assign"
    BY Zenon, <1>1, <2>1, <2>2 DEF CallSet, verify_assignment
  <2>4. CallFits(c, auth[c.id], Fresh(c.id)) /\ \A q : ~Redeeming(c, q)
    BY Zenon, <2>3 DEF CallFits, Redeeming
  <2>5. /\ calls' = [calls EXCEPT ![h] = c]
        /\ UNCHANGED <<auth, rows, links, template, released, burned>>
    BY Zenon, <2>1, <2>2 DEF verify_assignment, Begin
  <2> QED BY Zenon, <2>3, <2>4, <2>5, CallMoves
<1> QED BY Zenon, <1>2, <1>3

\* What record_member_grant writes under an identifier nothing is recorded of.
LEMMA RecordedKeeps ==
    ASSUME IInv, NEW r \in Links \cup Assignments, NEW s \in Signers, auth[r].kind = "none",
           auth' = Recorded(r, s), CallsEnd
    PROVE  /\ RecordsOK' /\ ExchangeOK' /\ \A q \in Ids : Later(auth[q], auth'[q])
           /\ auth'[r].kind = "portal" /\ auth'[r].dapp = s
           /\ \A q \in Ids : q # r => auth'[q] = auth[q]
<1>a. PICK b : b = [auth[r] EXCEPT !.kind = "portal", !.dapp = s, !.owner = Root,
                                   !.decision = "approved", !.artifact = "sealed"]
  BY Zenon
<1>1. r \in Ids /\ r \notin Pars
  BY Zenon, RelayAssumption DEF Ids
<1>2. auth \in [Ids -> Authorizations] /\ auth[r] \in Authorizations /\ auth[r] = NoRecords
  BY Zenon, <1>1, Goods DEF IInv, RecordsOK, PortalOK
<1>3. auth' = [auth EXCEPT ![r] = b]
  BY Zenon, <1>1, <1>2, <1>a DEF Recorded
<1>4. b \in Authorizations
  BY Zenon, <1>2, <1>a, RelayAssumption DEF Authorizations, Kinds
<1>5. /\ b.kind = "portal" /\ b.dapp = s /\ b.owner = Root /\ b.decision = "approved"
      /\ b.artifact = "sealed" /\ b.code = "none" /\ b.pending = "none" /\ b.token = "none"
      /\ b.live = auth[r].live /\ b.invalid = auth[r].invalid
  BY <1>2, <1>a DEF NoRecords
<1>6. GoodRecord(r, b)
  BY Zenon, <1>1, <1>4, <1>5 DEF GoodRecord, PortalOK
<1>7. Later(auth[r], b)
  BY <1>2, <1>5 DEF Later, NoRecords
<1>8. RecordsOK' /\ ExchangeOK' /\ \A q \in Ids : Later(auth[q], auth'[q])
  BY Zenon, <1>1, <1>3, <1>4, <1>5, <1>6, <1>7, OneRecord
<1> QED BY Zenon, <1>1, <1>2, <1>3, <1>5, <1>8

LEMMA EndEnds ==
    ASSUME IInv, NEW h \in Handlers, End(h), UNCHANGED <<released, burned>>
    PROVE  CallsEnd
BY Zenon, IdleFits DEF End, CallsEnd, IInv, ExchangeOK

LEMMA RecordAssignmentKeeps ==
    ASSUME IInv, NEW h \in Handlers, record_assignment(h)
    PROVE  Forward
<1>a. PICK r : r = calls[h].id
  BY Zenon
<1>b. PICK s : s = calls[h].signer
  BY Zenon
<1>1. calls[h].at = "assign" /\ r \in Assignments /\ s \in Signers
  BY <1>a, <1>b DEF record_assignment, IInv, ExchangeOK, CallSet, Idle
<1>2. /\ auth[r].kind = "none" /\ auth' = Recorded(r, s) /\ rows' = rows \cup {GrantRow(s, r)}
      /\ UNCHANGED <<links, template>>
  BY Zenon, <1>a, <1>b DEF record_assignment
<1>3. CallsEnd
  BY Zenon, EndEnds DEF record_assignment
<1>4. /\ RecordsOK' /\ ExchangeOK' /\ \A q \in Ids : Later(auth[q], auth'[q])
      /\ auth'[r].kind = "portal" /\ auth'[r].dapp = s
      /\ \A q \in Ids : q # r => auth'[q] = auth[q]
  BY Zenon, <1>1, <1>2, <1>3, RecordedKeeps
<1>5. r \in Ids /\ r \notin Pars /\ r \notin Links
  BY Zenon, <1>1, RelayAssumption DEF Ids
<1>6. GrantRow(s, r) \in Rows /\ GrantRow(s, r).by = "grant"
  BY Zenon, <1>1, <1>5 DEF GrantRow, Rows
<1>7. /\ links \in [Links -> LinkRecords] /\ rows \subseteq Rows
      /\ template \in Versions \cup {NoTemplate}
  BY Zenon DEF IInv, MembersOK
<1>8. MembersOK'
  BY Zenon, <1>2, <1>4, <1>5, <1>6, <1>7, MembersMove DEF Ids
<1>9. LinksOK'
  <2>1. \A l \in Links : auth'[l] = auth[l]
    BY Zenon, <1>4, <1>5 DEF Ids
  <2> QED BY <1>2, <1>6, <2>1 DEF IInv, LinksOK
<1> QED BY Zenon, <1>4, <1>8, <1>9 DEF Forward, IInv

LEMMA RecordLinkGrantKeeps ==
    ASSUME IInv, NEW h \in Handlers, record_link_grant(h)
    PROVE  Forward
<1>a. PICK l : l = calls[h].id
  BY Zenon
<1>b. PICK s : s = links[l].signer
  BY Zenon
<1>c. PICK k : k = [links[l] EXCEPT !.status = "approved"]
  BY Zenon
<1>d. PICK g : g = GrantRow(s, l)
  BY Zenon
<1>e. PICK m : m = LinkRow(s, l)
  BY Zenon
<1>1. calls[h].at = "link" /\ l \in Links
  BY <1>a DEF record_link_grant, IInv, ExchangeOK, CallSet, Idle
<1>2. /\ links \in [Links -> LinkRecords] /\ rows \subseteq Rows
      /\ template \in Versions \cup {NoTemplate}
  BY Zenon DEF IInv, MembersOK
<1>3. /\ links[l].status = "pending" /\ auth' = Recorded(l, s)
      /\ rows' = rows \cup {g, m} /\ links' = [links EXCEPT ![l] = k] /\ template' = template
  BY Zenon, <1>1, <1>2, <1>a, <1>b, <1>c, <1>d, <1>e DEF record_link_grant
<1>4. s \in Signers /\ auth[l].kind = "none"
  BY Zenon, <1>1, <1>3, <1>b DEF IInv, LinksOK
<1>5. CallsEnd
  BY Zenon, EndEnds DEF record_link_grant
<1>6. /\ RecordsOK' /\ ExchangeOK' /\ \A q \in Ids : Later(auth[q], auth'[q])
      /\ auth'[l].kind = "portal" /\ auth'[l].dapp = s
      /\ \A q \in Ids : q # l => auth'[q] = auth[q]
  BY Zenon, <1>1, <1>3, <1>4, <1>5, RecordedKeeps
<1>7. l \in Ids /\ l \notin Pars
  BY Zenon, <1>1, RelayAssumption DEF Ids
<1>8. /\ g \in Rows /\ g.by = "grant"
      /\ m \in Rows /\ m.by = "link" /\ m.id = l /\ m.signer = s
  BY Zenon, <1>1, <1>4, <1>7, <1>d, <1>e DEF GrantRow, LinkRow, Rows
<1>9. k \in LinkRecords /\ k.status = "approved" /\ k.signer = s
  BY Zenon, <1>1, <1>2, <1>b, <1>c DEF LinkRecords
<1>10. links' \in [Links -> LinkRecords] /\ \A q \in Links : links'[q] = IF q = l THEN k ELSE links[q]
  BY Zenon, <1>1, <1>2, <1>3, <1>9
<1>11. MembersOK'
  BY Zenon, <1>2, <1>3, <1>6, <1>7, <1>8, <1>10, <1>d, MembersMove DEF Ids
<1>12. LinksOK'
  <2>1. \A q \in Links : links'[q].status # "none" => links'[q].signer \in Signers
    BY Zenon, <1>4, <1>9, <1>10 DEF IInv, LinksOK
  <2>2. \A q \in Links : auth'[q].kind # "none" => links'[q].status \in {"approved", "removed"}
    BY Zenon, <1>6, <1>9, <1>10 DEF IInv, LinksOK, Ids
  <2>3. \A n \in rows : n.by = "link" => n.id \in Links /\ n.id # l
    BY <1>2, <1>3 DEF IInv, LinksOK, Rows, RootRow
  <2>4. \A n \in rows' : n.by = "link" =>
          links'[n.id].status = "approved" /\ links'[n.id].signer = n.signer
    BY Zenon, <1>1, <1>3, <1>8, <1>9, <1>10, <2>3 DEF IInv, LinksOK
  <2>5. \A q \in Links : links'[q].status = "approved" => \E n \in rows' : n.by = "link" /\ n.id = q
    BY <1>3, <1>8, <1>10 DEF IInv, LinksOK
  <2> QED BY Zenon, <2>1, <2>2, <2>4, <2>5 DEF LinksOK
<1> QED BY Zenon, <1>6, <1>11, <1>12 DEF Forward, IInv

-----------------------------------------------------------------------------
(***************************************************************************)
(* Standing.                                                               *)
(***************************************************************************)
LEMMA StatusApproved ==
    ASSUME NEW r \in Ids
    PROVE  grantStatus(r) = "approved" <=> auth[r].decision = "approved" /\ ~auth[r].invalid
BY Zenon DEF grantStatus

Waiting(r, s) == r \in Pars /\ auth[r].pending = "undecided" /\ auth[r].owner = s

Ended(r, s) ==
    \/ \E m \in rows : m.signer = s /\ m.by = "grant" /\ m.id = r
    \/ r \in Pars /\ auth[r].pending = "approved" /\ auth[r].owner = s

LEMMA RetiredIs ==
    ASSUME IInv, NEW s, auth' = retire_grants(s), NEW r \in Ids
    PROVE  auth'[r] =
             IF Waiting(r, s) THEN [auth[r] EXCEPT !.decision = "rejected", !.pending = "rejected"]
             ELSE IF Ended(r, s) /\ auth[r].decision = "approved" /\ ~auth[r].invalid
             THEN [auth[r] EXCEPT !.invalid = TRUE]
             ELSE auth[r]
<1>1. r \in Asked(s, "undecided") <=> Waiting(r, s)
  BY Zenon DEF Asked, Waiting
<1>2. r \in GrantsOf(s) <=> Ended(r, s)
  BY Zenon DEF GrantsOf, Asked, Ended, RowsOf
<1>3. auth'[r] = Retired(r, s)
  BY Zenon DEF retire_grants
<1>4. Waiting(r, s) => auth[r].decision # "approved"
  BY Zenon, Goods DEF Waiting, PushedOK
<1>5. Waiting(r, s) => grantStatus(r) # "approved"
  BY Zenon, <1>4, StatusApproved
<1> QED BY Zenon, <1>1, <1>2, <1>3, <1>5, StatusApproved DEF Retired

LEMMA RetiredKeeps ==
    ASSUME IInv, NEW s, s # Root, s # NoSigner, auth' = retire_grants(s),
           UNCHANGED <<calls, released, burned>>
    PROVE  /\ RecordsOK' /\ ExchangeOK' /\ \A q \in Ids : Later(auth[q], auth'[q])
           /\ \A q \in Ids : /\ auth'[q].kind = auth[q].kind /\ auth'[q].dapp = auth[q].dapp
                             /\ auth'[q].owner = auth[q].owner
                             /\ Holding(auth'[q]) => Holding(auth[q])
                             /\ Usable(auth'[q]) => Usable(auth[q]) /\ ~Ended(q, s)
           /\ \A q \in Pars : auth[q].owner = s => ~Holding(auth'[q])
<1>1. ASSUME NEW q \in Ids
      PROVE  /\ auth'[q] \in Authorizations /\ GoodRecord(q, auth'[q]) /\ Later(auth[q], auth'[q])
             /\ auth'[q].kind = auth[q].kind /\ auth'[q].dapp = auth[q].dapp
             /\ auth'[q].owner = auth[q].owner /\ auth'[q].token = auth[q].token
             /\ Holding(auth'[q]) => Holding(auth[q])
             /\ Usable(auth'[q]) => Usable(auth[q]) /\ ~Ended(q, s)
             /\ q \in Pars /\ auth[q].owner = s => ~Holding(auth'[q])
  <2>a. PICK a : a = auth[q]
    BY Zenon
  <2>b. PICK b : b = auth'[q]
    BY Zenon
  <2>1. a \in Authorizations /\ GoodRecord(q, a)
    BY Zenon, <2>a, Goods
  <2>2. CASE Waiting(q, s)
    <3>1. b = [a EXCEPT !.decision = "rejected", !.pending = "rejected"]
      BY Zenon, <2>2, <2>a, <2>b, RetiredIs
    <3>2. b \in Authorizations
      BY Zenon, <2>1, <3>1 DEF Authorizations
    <3>3. /\ b.kind = a.kind /\ b.dapp = a.dapp /\ b.owner = a.owner /\ b.live = a.live
          /\ b.decision = "rejected" /\ b.code = a.code /\ b.artifact = a.artifact
          /\ b.pending = "rejected" /\ b.token = a.token /\ b.invalid = a.invalid
      BY Zenon, <2>1, <3>1 DEF Authorizations
    <3>4. q \in Pars /\ a.pending = "undecided" /\ PushedOK(a)
      BY Zenon, <2>1, <2>2, <2>a DEF Waiting, GoodRecord
    <3>5. PushedOK(b) /\ Later(a, b) /\ ~Holding(b) /\ ~Usable(b)
      BY Zenon, <3>2, <3>3, <3>4 DEF PushedOK, Later, Holding, Usable, NoRecords
    <3> QED BY Zenon, <2>a, <2>b, <3>2, <3>3, <3>4, <3>5 DEF GoodRecord
  <2>3. CASE ~Waiting(q, s) /\ Ended(q, s) /\ a.decision = "approved" /\ ~a.invalid
    <3>1. b = [a EXCEPT !.invalid = TRUE]
      BY Zenon, <2>3, <2>a, <2>b, RetiredIs
    <3>2. b \in Authorizations
      BY Zenon, <2>1, <3>1 DEF Authorizations
    <3>3. /\ b.kind = a.kind /\ b.dapp = a.dapp /\ b.owner = a.owner /\ b.live = a.live
          /\ b.decision = a.decision /\ b.code = a.code /\ b.artifact = a.artifact
          /\ b.pending = a.pending /\ b.token = a.token /\ b.invalid = TRUE
      BY Zenon, <2>1, <3>1 DEF Authorizations
    <3>4. GoodRecord(q, b)
      BY <2>1, <2>3, <3>2, <3>3 DEF GoodRecord, PushedOK, PortalOK, NoRecords
    <3>5. Later(a, b) /\ ~Holding(b) /\ ~Usable(b)
      BY Zenon, <2>3, <3>3 DEF Later, Holding, Usable
    <3> QED BY Zenon, <2>a, <2>b, <3>2, <3>3, <3>4, <3>5
  <2>4. CASE ~Waiting(q, s) /\ ~(Ended(q, s) /\ a.decision = "approved" /\ ~a.invalid)
    <3>1. b = a
      BY Zenon, <2>4, <2>a, <2>b, RetiredIs
    <3>2. Usable(b) => ~Ended(q, s)
      BY Zenon, <2>4, <3>1 DEF Usable
    <3>3. q \in Pars /\ a.owner = s => ~Holding(b)
      <4>1. SUFFICES ASSUME q \in Pars, a.owner = s, Holding(a) PROVE FALSE
        BY Zenon, <3>1
      <4>2. PushedOK(a) /\ a.kind = "grant"
        BY Zenon, <2>1, <4>1 DEF GoodRecord, Holding
      <4>3. a.pending \in {"undecided", "approved", "rejected"}
        BY Zenon, <2>1, <4>1, <4>2 DEF PushedOK, Authorizations
      <4>4. a.pending = "approved"
        BY Zenon, <2>4, <2>a, <4>1, <4>2, <4>3 DEF Waiting, PushedOK, Holding
      <4> QED BY Zenon, <2>4, <2>a, <4>1, <4>2, <4>4 DEF Ended, Holding, PushedOK
    <3> QED BY Zenon, <2>a, <2>b, <2>1, <3>1, <3>2, <3>3, LaterSelf
  <2> QED BY Zenon, <2>2, <2>3, <2>4
<1>2. auth' \in [Ids -> Authorizations]
  <2>1. auth' = [q \in Ids |-> auth'[q]]
    BY Zenon DEF retire_grants
  <2> QED BY Zenon, <1>1, <2>1
<1>3. RecordsOK'
  BY Zenon, <1>1, <1>2 DEF RecordsOK, GoodRecord
<1>4. \A q \in Ids : released[q] = 0 => auth'[q].token = "none"
  BY <1>1 DEF IInv, ExchangeOK
<1>5. ExchangeOK'
  BY Zenon, <1>1, <1>3, <1>4, CallsStay, RecordsMove
<1>6. \A q \in Pars : auth[q].owner = s => ~Holding(auth'[q])
  BY Zenon, <1>1 DEF Ids
<1> QED BY Zenon, <1>1, <1>3, <1>5, <1>6

LEMMA LinkRowsAre ==
    ASSUME IInv, NEW m \in rows, m.by = "link"
    PROVE  m.id \in Links
BY DEF IInv, MembersOK, Rows, RootRow

\* The memberships of the others stay as they are.
LEMMA OthersStay ==
    ASSUME IInv, NEW s \in Signers, s # Root, auth' = retire_grants(s),
           UNCHANGED <<template, calls, released, burned>>,
           links' \in [Links -> LinkRecords], rows' \subseteq Rows,
           \A m \in rows : m.signer # s => m \in rows'
    PROVE  RecordsOK' /\ ExchangeOK' /\ MembersOK' /\ \A q \in Ids : Later(auth[q], auth'[q])
<1>0. s # NoSigner
  BY Zenon, RelayAssumption
<1>1. /\ RecordsOK' /\ ExchangeOK' /\ \A q \in Ids : Later(auth[q], auth'[q])
      /\ \A q \in Ids : /\ auth'[q].dapp = auth[q].dapp
                        /\ auth'[q].owner = auth[q].owner
                        /\ Holding(auth'[q]) => Holding(auth[q])
                        /\ Usable(auth'[q]) => Usable(auth[q]) /\ ~Ended(q, s)
      /\ \A q \in Pars : auth[q].owner = s => ~Holding(auth'[q])
  BY Zenon, <1>0, RetiredKeeps
<1>2. \A q \in Pars : auth'[q].owner # NoSigner /\ Holding(auth'[q]) =>
          \E m \in rows' : m.signer = auth'[q].owner /\ m.active
  BY <1>1 DEF IInv, MembersOK, activeMember, RowsOf, Ids
<1>3. ASSUME NEW q \in Ids, Usable(auth'[q]) PROVE GrantRow(auth'[q].dapp, q) \in rows'
  <2>1. PICK m : m = GrantRow(auth[q].dapp, q)
    BY Zenon
  <2>2. m \in rows /\ m.signer = auth[q].dapp /\ m.by = "grant" /\ m.id = q
    BY Zenon, <1>1, <1>3, <2>1 DEF IInv, MembersOK, GrantRow
  <2>3. m.signer # s
    BY Zenon, <1>1, <1>3, <2>2 DEF Ended
  <2> QED BY Zenon, <1>1, <2>1, <2>2, <2>3
<1>4. RootRow \in rows'
  BY Zenon DEF IInv, MembersOK, RootRow
<1>5. template' \in Versions \cup {NoTemplate}
  BY Zenon DEF IInv, MembersOK
<1>6. MembersOK'
  BY Zenon, <1>2, <1>3, <1>4, <1>5 DEF MembersOK, Holding, Usable, GrantRow, activeMember, RowsOf
<1> QED BY Zenon, <1>1, <1>6

\* A change of standing keeps what a membership is.
LEMMA StandingIs ==
    ASSUME IInv, NEW s \in Signers, s # Root, NEW active \in BOOLEAN,
           rows' = WithStanding(s, active)
    PROVE  /\ rows' \subseteq Rows
           /\ \A m \in rows : m.signer # s => m \in rows'
           /\ active => \A m \in rows : m.active => m \in rows'
           /\ \A n \in rows' : \E m \in rows : n.by = m.by /\ n.id = m.id /\ n.signer = m.signer
           /\ \A m \in rows : \E n \in rows' : n.by = m.by /\ n.id = m.id /\ n.signer = m.signer
<1>1. ASSUME NEW m \in rows, NEW n, n = IF m.signer = s THEN [m EXCEPT !.active = active] ELSE m
      PROVE  /\ n \in Rows /\ n.by = m.by /\ n.id = m.id /\ n.signer = m.signer
             /\ active /\ m.active => n = m
  <2>1. CASE m.signer = s
    <3>1. \/ m \in [signer : Signers, by : {"link"}, id : Links, active : BOOLEAN]
          \/ m \in [signer : Signers, by : {"grant"}, id : Ids, active : BOOLEAN]
      BY <2>1 DEF IInv, MembersOK, Rows, RootRow
    <3>2. n = [m EXCEPT !.active = active]
      BY Zenon, <1>1, <2>1
    <3>3. n \in Rows /\ n.by = m.by /\ n.id = m.id /\ n.signer = m.signer
      BY Zenon, <3>1, <3>2 DEF Rows
    <3>4. active /\ m.active => n = m
      BY Zenon, <3>1, <3>2
    <3> QED BY Zenon, <3>3, <3>4
  <2>2. CASE m.signer # s
    BY Zenon, <1>1, <2>2 DEF IInv, MembersOK
  <2> QED BY Zenon, <2>1, <2>2
<1>2. \A n : n \in rows' <=>
        \E m \in rows : n = IF m.signer = s THEN [m EXCEPT !.active = active] ELSE m
  BY Zenon DEF WithStanding
<1>3. \A m \in rows : \E n \in rows' :
         n = IF m.signer = s THEN [m EXCEPT !.active = active] ELSE m
  BY Zenon, <1>2
<1>4. rows' \subseteq Rows
  BY <1>1, <1>2
<1>5. \A m \in rows : m.signer # s => m \in rows'
  BY Zenon, <1>3
<1>6. ASSUME active, NEW m \in rows, m.active PROVE m \in rows'
  <2>1. PICK n \in rows' : n = IF m.signer = s THEN [m EXCEPT !.active = active] ELSE m
    BY Zenon, <1>3
  <2>2. n = m
    BY Zenon, <1>1, <1>6, <2>1
  <2> QED BY Zenon, <2>1, <2>2
<1>7. \A n \in rows' : \E m \in rows : n.by = m.by /\ n.id = m.id /\ n.signer = m.signer
  BY <1>1, <1>2
<1>8. \A m \in rows : \E n \in rows' : n.by = m.by /\ n.id = m.id /\ n.signer = m.signer
  BY Zenon, <1>1, <1>3
<1> QED BY Zenon, <1>4, <1>5, <1>6, <1>7, <1>8

LEMMA StandingKeepsLinks ==
    ASSUME IInv, UNCHANGED links, \A q \in Ids : auth'[q].kind = auth[q].kind,
           \A n \in rows' : \E m \in rows : n.by = m.by /\ n.id = m.id /\ n.signer = m.signer,
           \A m \in rows : \E n \in rows' : n.by = m.by /\ n.id = m.id /\ n.signer = m.signer
    PROVE  LinksOK'
<1>1. \A n \in rows' : n.by = "link" =>
          links[n.id].status = "approved" /\ links[n.id].signer = n.signer
  BY DEF IInv, LinksOK
<1>2. \A l \in Links : links[l].status = "approved" => \E n \in rows' : n.by = "link" /\ n.id = l
  BY DEF IInv, LinksOK
<1> QED BY <1>1, <1>2 DEF IInv, LinksOK, Ids

LEMMA SuspendKeeps == ASSUME IInv, NEW s \in Signers, suspend_member(s) PROVE Forward
<1>1. /\ s # Root /\ auth' = retire_grants(s) /\ rows' = WithStanding(s, FALSE)
      /\ UNCHANGED <<links, template, calls, released, burned>>
  BY Zenon DEF suspend_member
<1>2. /\ rows' \subseteq Rows /\ \A m \in rows : m.signer # s => m \in rows'
      /\ \A n \in rows' : \E m \in rows : n.by = m.by /\ n.id = m.id /\ n.signer = m.signer
      /\ \A m \in rows : \E n \in rows' : n.by = m.by /\ n.id = m.id /\ n.signer = m.signer
  BY Zenon, <1>1, StandingIs
<1>3. links' \in [Links -> LinkRecords] /\ s # NoSigner
  BY Zenon, <1>1, RelayAssumption DEF IInv, MembersOK
<1>4. RecordsOK' /\ ExchangeOK' /\ MembersOK' /\ \A q \in Ids : Later(auth[q], auth'[q])
  BY Zenon, <1>1, <1>2, <1>3, OthersStay
<1>5. \A q \in Ids : auth'[q].kind = auth[q].kind
  BY Zenon, <1>1, <1>3, RetiredKeeps
<1>6. LinksOK'
  BY Zenon, <1>1, <1>2, <1>5, StandingKeepsLinks
<1> QED BY Zenon, <1>4, <1>6 DEF Forward, IInv

LEMMA RestoreKeeps == ASSUME IInv, NEW s \in Signers, restore_member(s) PROVE Forward
<1>1. /\ s # Root /\ rows' = WithStanding(s, TRUE)
      /\ UNCHANGED <<auth, links, template, calls, released, burned>>
  BY Zenon DEF restore_member
<1>2. /\ rows' \subseteq Rows /\ \A m \in rows : m.active => m \in rows'
      /\ \A n \in rows' : \E m \in rows : n.by = m.by /\ n.id = m.id /\ n.signer = m.signer
      /\ \A m \in rows : \E n \in rows' : n.by = m.by /\ n.id = m.id /\ n.signer = m.signer
  BY Zenon, <1>1, StandingIs
<1>3. links' \in [Links -> LinkRecords] /\ template' \in Versions \cup {NoTemplate}
  BY Zenon, <1>1 DEF IInv, MembersOK
<1>4. RecordsOK' /\ ExchangeOK' /\ \A q \in Ids : Later(auth[q], auth'[q])
  BY Zenon, <1>1, ExchangesStay
<1>5. MembersOK'
  BY Zenon, <1>1, <1>2, <1>3, MembersMove
<1>6. LinksOK'
  BY Zenon, <1>1, <1>2, StandingKeepsLinks
<1> QED BY Zenon, <1>4, <1>5, <1>6 DEF Forward, IInv

LEMMA RemoveKeeps == ASSUME IInv, NEW s \in Signers, remove_member(s) PROVE Forward
<1>a. PICK joined : joined = {m.id : m \in {m \in RowsOf(s) : m.by = "link"}}
  BY Zenon
<1>1. /\ s # Root /\ auth' = retire_grants(s) /\ rows' = rows \ RowsOf(s)
      /\ links' = [l \in Links |-> IF l \in joined THEN [links[l] EXCEPT !.status = "removed"]
                                   ELSE links[l]]
      /\ UNCHANGED <<template, calls, released, burned>>
  BY Zenon, <1>a DEF remove_member
<1>2. \A l : l \in joined <=> \E m \in rows : m.signer = s /\ m.by = "link" /\ m.id = l
  BY Zenon, <1>a DEF RowsOf
<1>3. rows \subseteq Rows /\ links \in [Links -> LinkRecords] /\ s # NoSigner
  BY Zenon, RelayAssumption DEF IInv, MembersOK
<1>4. \A m : m \in rows' <=> m \in rows /\ m.signer # s
  BY Zenon, <1>1 DEF RowsOf
<1>5. ASSUME NEW l \in Links
      PROVE  /\ links'[l] \in LinkRecords /\ links'[l].signer = links[l].signer
             /\ links'[l].status = IF l \in joined THEN "removed" ELSE links[l].status
  <2>1. CASE l \in joined
    <3>1. links'[l] = [links[l] EXCEPT !.status = "removed"] /\ links[l] \in LinkRecords
      BY Zenon, <1>1, <1>3, <2>1
    <3> QED BY Zenon, <2>1, <3>1 DEF LinkRecords
  <2>2. CASE l \notin joined
    BY Zenon, <1>1, <1>3, <2>2
  <2> QED BY Zenon, <2>1, <2>2
<1>6. links' \in [Links -> LinkRecords]
  BY Zenon, <1>1, <1>5
<1>7. RecordsOK' /\ ExchangeOK' /\ MembersOK' /\ \A q \in Ids : Later(auth[q], auth'[q])
  BY Zenon, <1>1, <1>3, <1>4, <1>6, OthersStay
<1>8. \A q \in Ids : auth'[q].kind = auth[q].kind
  BY Zenon, <1>1, <1>3, RetiredKeeps
<1>9. LinksOK'
  <2>1. \A l \in joined : l \in Links /\ links[l].status = "approved" /\ links[l].signer = s
    BY <1>2, LinkRowsAre DEF IInv, LinksOK
  <2>2. \A l \in Links : links'[l].status # "none" => links'[l].signer \in Signers
    BY Zenon, <1>5, <2>1 DEF IInv, LinksOK
  <2>3. \A l \in Links : auth'[l].kind # "none" => links'[l].status \in {"approved", "removed"}
    BY Zenon, <1>5, <1>8 DEF IInv, LinksOK, Ids
  <2>4. \A m \in rows' : m.by = "link" =>
          links'[m.id].status = "approved" /\ links'[m.id].signer = m.signer
    BY <1>4, <1>5, <2>1, LinkRowsAre DEF IInv, LinksOK
  <2>5. \A l \in Links : links'[l].status = "approved" => \E m \in rows' : m.by = "link" /\ m.id = l
    BY <1>2, <1>4, <1>5 DEF IInv, LinksOK
  <2> QED BY Zenon, <2>2, <2>3, <2>4, <2>5 DEF LinksOK
<1> QED BY Zenon, <1>7, <1>9 DEF Forward, IInv

-----------------------------------------------------------------------------
(***************************************************************************)
(* The invariant.                                                          *)
(***************************************************************************)
LEMMA InitIInv == ASSUME Init PROVE IInv
<1> USE DEF Init, InitRecords
<1>1. NoRecords \in Authorizations
  BY Zenon DEF NoRecords, Authorizations, Kinds
<1>2. PushedOK(NoRecords) /\ PortalOK(NoRecords) /\ ~Holding(NoRecords) /\ ~Usable(NoRecords)
  <2>1. PushedOK(NoRecords)
    BY Zenon, <1>1 DEF PushedOK, NoRecords
  <2> QED BY Zenon, <2>1 DEF PortalOK, Usable, Holding, NoRecords
<1>3. RecordsOK
  BY Zenon, <1>1, <1>2 DEF RecordsOK, GoodRecord
<1>4. ExchangeOK
  <2>1. \A r \in Ids : auth[r].code = "none" /\ auth[r].token = "none"
    BY Zenon DEF NoRecords
  <2> QED BY Zenon, <2>1, IdleFits DEF ExchangeOK, ReleasedOnce
<1>5. MembersOK
  <2>1. NewLink \in LinkRecords
    BY Zenon DEF NewLink, LinkRecords
  <2>2. \A r \in Ids : ~Usable(auth[r]) /\ auth[r].owner = NoSigner
    BY Zenon, <1>2 DEF NoRecords
  <2> QED BY Zenon, <2>1, <2>2 DEF MembersOK, Rows, Ids
<1>6. LinksOK
  BY DEF LinksOK, NewLink, NoRecords, RootRow, Ids
<1> QED BY Zenon, <1>3, <1>4, <1>5, <1>6 DEF IInv

LEMMA NextForward == ASSUME IInv, Next PROVE Forward
<1>1. CASE AuthorizationNext
  BY Zenon, <1>1, PushKeeps, ExpireKeeps, CancelKeeps, DecisionKeeps, RequestApprovalKeeps,
     ApprovePendingKeeps, RejectPendingKeeps, RevokeTokenKeeps, GateKeeps, InvalidateKeeps,
     ConsumeKeeps, ClaimsKeeps, ClaimKeeps, RespondKeeps, RelayAssumption DEF AuthorizationNext
<1>2. CASE MembershipNext
  <2>1. ASSUME NEW v \in Versions, save_template(v) PROVE Forward
    BY Zenon, <2>1, TemplateKeeps DEF save_template
  <2>2. ASSUME delete_template PROVE Forward
    BY Zenon, <2>2, TemplateKeeps DEF delete_template
  <2> QED BY Zenon, <1>2, <2>1, <2>2, LinkStepKeeps, VerifyKeeps, RecordLinkGrantKeeps,
             RecordAssignmentKeeps, SuspendKeeps, RestoreKeeps, RemoveKeeps, RelayAssumption
             DEF MembershipNext
<1> QED BY Zenon, <1>1, <1>2, StopKeeps DEF Next

LEMMA NextIInv == ASSUME IInv, [Next]_recordVars PROVE IInv'
<1>1. CASE UNCHANGED recordVars
  <2>1. /\ UNCHANGED <<auth, rows, links, calls, released, burned>> /\ template' = template
        /\ template \in Versions \cup {NoTemplate}
    BY Zenon, <1>1 DEF recordVars, IInv, MembersOK
  <2> QED BY Zenon, <2>1, TemplateKeeps DEF Forward
<1> QED BY Zenon, <1>1, NextForward DEF Forward

LEMMA Invariance == Spec => []IInv
BY InitIInv, NextIInv, PTL DEF Spec
-----------------------------------------------------------------------------
(***************************************************************************)
(* The properties.                                                         *)
(***************************************************************************)

\* Every record of the relay keeps to its enumeration, memberships name what
\* admitted them and the root stays an active member (records.rs, registry.rs,
\* link.rs).
THEOREM RelayTypeCorrect == Spec => []TypeOK
<1>1. IInv => TypeOK
  BY Zenon DEF IInv, RecordsOK, ExchangeOK, MembersOK, Rows, TypeOK
<1> QED BY <1>1, Invariance, PTL

\* A code is redeemed at most once, for an approved request, after its artifact
\* was claimed, and an exchange past the gate never finds its request undecided
\* or rejected, whatever other handlers do between its transactions
\* (exchange_code, gate_exchange, consume_authorization_code, login_claims).
THEOREM RelayExchangeIsSound == Spec => []ExchangeIsSound
<1>1. IInv => ExchangeIsSound
  BY Zenon DEF IInv, ExchangeOK, ExchangeIsSound, RedeemedIsApproved, CallFits
<1> QED BY <1>1, Invariance, PTL

\* The approval a member asked for and the decision of its request are settled
\* together, with an artifact exactly if approved (pending.rs).
THEOREM RelayPendingAgrees == Spec => []PendingAgrees
<1>1. ASSUME IInv PROVE PendingAgrees
  <2>1. \A r \in Pars : PushedOK(auth[r])
    BY Zenon, <1>1, Goods DEF Ids
  <2> QED BY Zenon, <2>1 DEF PendingAgrees, PushedOK, Authorizations
<1> QED BY <1>1, Invariance, PTL

\* Suspension and removal leave a member no request and no usable grant, a
\* usable grant has its signer's active membership, and a link is approved as
\* long as the membership it admitted exists (retire_grants, set_member_status,
\* remove_member, join_dapp_signer, record_member_grant).
THEOREM RelayMembershipIsSound == Spec => []MembershipIsSound
<1>1. ASSUME IInv PROVE RetiredMemberHoldsNothing
  <2> SUFFICES ASSUME NEW s \in Signers, ~activeMember(s), NEW r \in Pars,
                      auth[r].owner = s, auth[r].kind = "grant"
               PROVE  grantStatus(r) \in {"rejected", "invalidated"}
    BY Zenon DEF RetiredMemberHoldsNothing
  <2>1. ~Holding(auth[r])
    BY Zenon, <1>1, RelayAssumption DEF IInv, MembersOK
  <2> QED BY Zenon, <2>1 DEF Holding, grantStatus
<1>2. ASSUME IInv PROVE LiveGrantHasMember
  <2> SUFFICES ASSUME NEW r \in Ids, IsGrant(r), grantStatus(r) = "approved"
               PROVE  GrantRow(auth[r].dapp, r) \in rows
    BY Zenon DEF LiveGrantHasMember
  <2>1. Usable(auth[r])
    BY Zenon, StatusApproved DEF Usable, IsGrant
  <2> QED BY Zenon, <1>1, <1>2, <2>1 DEF IInv, MembersOK
<1>3. ASSUME IInv PROVE LinkOwnsRow
  BY <1>3 DEF IInv, LinksOK, LinkOwnsRow, RowsOf
<1> QED BY <1>1, <1>2, <1>3, Invariance, PTL DEF MembershipIsSound

\* Only the recording of a link's or an assignment's grant changes what kind of
\* request is recorded under its identifier.
LEMMA KindStays ==
    ASSUME IInv, Next, \A h \in Handlers : ~record_link_grant(h) /\ ~record_assignment(h),
           NEW q \in Links \cup Assignments
    PROVE  auth'[q].kind = auth[q].kind
<1>1. q \in Ids /\ q \notin Pars /\ auth \in [Ids -> Authorizations]
  BY Zenon, RelayAssumption DEF Ids, IInv, RecordsOK
<1>2. ASSUME NEW r \in Pars,
             \/ Expire(r) \/ cancel(r) \/ decide_grant(r) \/ decide_operation(r)
             \/ decide_transaction(r) \/ approve_pending(r) \/ reject_pending(r) \/ revoke_token(r)
      PROVE  auth'[q] = auth[q]
  BY Zenon, <1>1, <1>2 DEF Expire, cancel, decide_grant, decide_operation, decide_transaction,
     approve_pending, reject_pending, revoke_token, Approved
<1>3. ASSUME NEW r \in Pars, NEW s, NEW kind,
             push(r, kind, s) \/ decide_login(r, s) \/ request_root_approval(r, s)
      PROVE  auth'[q] = auth[q]
  BY Zenon, <1>1, <1>3 DEF push, decide_login, request_root_approval, Approved
<1>4. ASSUME NEW r \in Pars, NEW h, NEW bound, NEW resource, gate_exchange(h, r, bound, resource)
      PROVE  auth'[q] = auth[q]
  BY Zenon, <1>1, <1>4 DEF gate_exchange
<1>5. ASSUME NEW r \in Ids, invalidate_grant(r)
      PROVE  auth'[q].kind = auth[q].kind
  BY <1>1, <1>5 DEF invalidate_grant, Authorizations
<1>6. ASSUME NEW h \in Handlers, consume(h) \/ login_claims(h) \/ claim(h) \/ respond(h)
      PROVE  auth'[q] = auth[q]
  <2>1. calls[h].at \in {"consume", "claims", "claim", "token"} /\ calls[h] \in CallSet
    BY Zenon, <1>6 DEF consume, login_claims, claim, respond, IInv, ExchangeOK
  <2>2. calls[h].id # q
    BY <1>1, <2>1 DEF CallSet, Idle
  <2> QED BY Zenon, <1>1, <1>6, <2>2 DEF consume, login_claims, claim, respond
<1>7. ASSUME NEW s \in Signers, s # Root, auth' = retire_grants(s),
             UNCHANGED <<calls, released, burned>>
      PROVE  auth'[q].kind = auth[q].kind
  <2>1. s # NoSigner
    BY Zenon, RelayAssumption
  <2> QED BY Zenon, <1>1, <1>7, <2>1, RetiredKeeps
<1>8. CASE AuthorizationNext
  BY Zenon, <1>8, <1>2, <1>3, <1>4, <1>5, <1>6 DEF AuthorizationNext
<1>9. CASE MembershipNext
  <2>1. ASSUME NEW s \in Signers, suspend_member(s) \/ remove_member(s)
        PROVE  auth'[q].kind = auth[q].kind
    BY Zenon, <1>7, <2>1 DEF suspend_member, remove_member
  <2>2. (\A s \in Signers : ~suspend_member(s) /\ ~remove_member(s)) => UNCHANGED auth
    BY Zenon, <1>9 DEF MembershipNext, save_template, delete_template, create_link, ExpireLink,
       reject_link, join_link, verify_link_grant, verify_assignment, restore_member
  <2> QED BY Zenon, <2>1, <2>2
<1> QED BY Zenon, <1>8, <1>9 DEF Next, StopCall

\* A recorded grant is the one the root's approval was verified for: the
\* template has kept its content, an assigned member is still active and a
\* linked one has not joined otherwise (decide_link, assign_grant).
THEOREM RelayRecordsWhatWasVerified == Spec => RecordsWhatWasVerified
<1> DEFINE Step(r) ==
      auth[r].kind = "none" /\ auth'[r].kind = "portal" =>
          /\ r \in Assignments => activeMember(auth'[r].dapp)
          /\ r \in Links => ~isMember(auth'[r].dapp)
          /\ \E h \in Handlers : /\ calls[h] # Idle /\ calls[h].id = r
                                 /\ calls[h].at \in {"link", "assign"}
                                 /\ calls[h].content = template
<1>1. ASSUME IInv, [Next]_recordVars, NEW q \in Links \cup Assignments
      PROVE  Step(q)
  <2>1. q \in Ids /\ auth \in [Ids -> Authorizations] /\ calls \in [Handlers -> CallSet]
    BY Zenon, <1>1 DEF Ids, IInv, RecordsOK, ExchangeOK
  <2>2. ASSUME NEW h \in Handlers, record_link_grant(h)
        PROVE  Step(q)
    <3>1. PICK l, s : l = calls[h].id /\ s = links[calls[h].id].signer
      BY Zenon
    <3>2. /\ calls[h].at = "link" /\ template = calls[h].content
          /\ ~isMember(s) /\ auth' = Recorded(l, s)
      BY Zenon, <2>2, <3>1 DEF record_link_grant
    <3>3. l \in Links /\ calls[h] # Idle
      BY <2>1, <3>1, <3>2 DEF CallSet, Idle
    <3>4. CASE q = l
      <4>1. auth'[q].dapp = s /\ q \notin Assignments
        BY <2>1, <3>2, <3>3, <3>4, RelayAssumption DEF Recorded, Authorizations
      <4> QED BY Zenon, <3>1, <3>2, <3>3, <3>4, <4>1
    <3>5. CASE q # l
      BY Zenon, <2>1, <3>2, <3>5 DEF Recorded
    <3> QED BY Zenon, <3>4, <3>5
  <2>3. ASSUME NEW h \in Handlers, record_assignment(h)
        PROVE  Step(q)
    <3>1. PICK r, s : r = calls[h].id /\ s = calls[h].signer
      BY Zenon
    <3>2. /\ calls[h].at = "assign" /\ template = calls[h].content
          /\ activeMember(s) /\ auth' = Recorded(r, s)
      BY Zenon, <2>3, <3>1 DEF record_assignment, Assignable
    <3>3. r \in Assignments /\ calls[h] # Idle
      BY <2>1, <3>1, <3>2 DEF CallSet, Idle
    <3>4. CASE q = r
      <4>1. auth'[q].dapp = s /\ q \notin Links
        BY <2>1, <3>2, <3>3, <3>4, RelayAssumption DEF Recorded, Authorizations
      <4> QED BY Zenon, <3>1, <3>2, <3>3, <3>4, <4>1
    <3>5. CASE q # r
      BY Zenon, <2>1, <3>2, <3>5 DEF Recorded
    <3> QED BY Zenon, <3>4, <3>5
  <2>4. CASE Next /\ \A h \in Handlers : ~record_link_grant(h) /\ ~record_assignment(h)
    <3>1. auth'[q].kind = auth[q].kind
      BY Zenon, <1>1, <2>4, KindStays
    <3> QED BY Zenon, <3>1
  <2>5. CASE UNCHANGED recordVars
    BY Zenon, <2>5 DEF recordVars
  <2> QED BY Zenon, <1>1, <2>2, <2>3, <2>4, <2>5
<1>2. IInv /\ [Next]_recordVars => [RecordsVerified]_recordVars
  BY Zenon, <1>1 DEF RecordsVerified
<1> QED BY <1>2, Invariance, PTL DEF Spec, RecordsWhatWasVerified

\* What is decided, consumed, claimed, invalidated or revoked stays so: no
\* handler undoes a one-shot transition (the contract of store/mod.rs).
THEOREM RelayOneShot == Spec => OneShot
<1> DEFINE Step(r) ==
      /\ auth[r].decision # "none" => /\ auth'[r].decision = auth[r].decision
                                      /\ auth'[r].owner = auth[r].owner
      /\ auth[r].code = "consumed" => auth'[r].code = "consumed"
      /\ auth[r].artifact = "claimed" => auth'[r].artifact = "claimed"
      /\ auth[r].pending \in {"approved", "rejected"} => auth'[r].pending = auth[r].pending
      /\ auth[r].invalid => auth'[r].invalid
      /\ auth[r].token = "revoked" => auth'[r].token = "revoked"
<1>1. IInv /\ [Next]_recordVars => [\A r \in Ids : Step(r)]_recordVars
  <2> SUFFICES ASSUME IInv, Next, NEW r \in Ids PROVE Step(r)
    BY Zenon
  <2>1. Later(auth[r], auth'[r])
    BY Zenon, NextForward DEF Forward
  <2> QED BY Zenon, <2>1 DEF Later
<1> QED BY <1>1, Invariance, PTL DEF Spec, OneShot
=============================================================================
