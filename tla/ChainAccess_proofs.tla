--------------------------- MODULE ChainAccess_proofs ---------------------------
(***************************************************************************)
(* Proofs about the JSON-RPC pool (RpcPool.tla, as ChainAccess instantiates*)
(* it), for any callers, endpoints, budget and concurrency limit, and any  *)
(* set of endpoints that serve another chain.                              *)
(*                                                                         *)
(* The invariant has three parts.  What is known of one request (RecordOK) *)
(* ties its step to the chain checks, to the endpoint it is on and to the  *)
(* bundler's decision.  SessionOK says that the one send of the session is *)
(* the only one that can be on its way, and that nothing was posted before *)
(* it left.  CountersOK balances the owner's counters against the checks   *)
(* and the requests in flight.                                             *)
(***************************************************************************)
EXTENDS ChainAccess, FiniteSetTheorems, TLAPS

Fields == {"pc", "kind", "attempt", "start", "lead", "result", "by"}

\* The steps of a request that leads itself.
Going == {"checking", "checked", "wire", "delay"}
Pcs == Going \cup {"idle", "joined", "done"}

Checks == {"right", "wrong_chain", "unavailable", "check_rejected", "aborted"}

\* What the request of a caller knows, whoever else asks: w are the endpoints
\* being checked, b is what the bundler made of the operation, and f are the
\* endpoints of another chain.
RecordOK(s, w, b, f) ==
    /\ DOMAIN s = Fields /\ s.pc \in Pcs
    /\ s.pc \notin {"checked", "done"} => s.result = "none"
    /\ s.pc = "checked" => s.result \in Checks /\ (s.result = "right" => P!endpointOf(s) \notin f)
    /\ s.pc = "wire" => P!endpointOf(s) \notin f
    /\ s.pc = "checking" => P!endpointOf(s) \in w
    /\ s.result = "ok" => s.by \notin f
    /\ s.kind = "send" => s.pc # "delay"
    /\ s.kind = "send" /\ s.pc = "done" =>
          /\ s.result = "ok" => b = "accepted"
          /\ s.result = "refused" => b = "refused"

\* The send that is on its way is the one of the session.
SendOK(r, s, sent) == s.kind = "send" /\ s.pc \in Going => r = sent

\* Whoever shares a request shares one of the same kind that has not ended.
JoinedOK(s, all) ==
    s.pc = "joined" =>
       s.lead \in Callers /\ all[s.lead].pc \in Going /\ all[s.lead].kind = s.kind

RequestsOK ==
    /\ request = [r \in Callers |-> request[r]]
    /\ \A r \in Callers : RecordOK(request[r], checking, bundle, foreign)
    /\ \A r \in Callers : SendOK(r, request[r], session.sent)
    /\ \A r \in Callers : JoinedOK(request[r], request)

SessionOK ==
    /\ DOMAIN session = {"closed", "sent"}
    /\ session.sent # "nobody" =>
          /\ session.sent \in Callers
          /\ request[session.sent].kind = "send"
          /\ request[session.sent].pc \in {"checking", "checked", "wire", "done"}
    /\ posted \in {0, 1}
    /\ posted = 1 => session.sent # "nobody" /\ request[session.sent].pc \in {"wire", "done"}

\* The requests on the wire.
OnWire == {r \in Callers : request[r].pc = "wire"}

CountersOK ==
    /\ IsFiniteSet(checking)
    /\ active \in Nat /\ used \in Nat
    /\ active = Cardinality(checking) + Cardinality(OnWire)
    /\ active <= MaxConcurrency /\ used <= MaxWire

PInv == RequestsOK /\ SessionOK /\ CountersOK /\ checked \cap foreign = {}

-----------------------------------------------------------------------------
(* How one step of a caller changes the requests. *)

LEMMA SameEndpoint ==
    ASSUME NEW s, NEW n, n.kind = s.kind, n.start = s.start, n.attempt = s.attempt
    PROVE  P!endpointOf(n) = P!endpointOf(s)
BY Zenon DEF P!endpointOf, P!indexOf

\* The request of r becomes n; when it ends, so do those that share it.
Moves(r, n) ==
    /\ request' = [q \in Callers |-> request'[q]] /\ request'[r] = n
    /\ \A q \in Callers : q # r =>
          IF n.pc = "done" /\ request[q].pc = "joined" /\ request[q].lead = r
          THEN LET m == request'[q]
               IN  /\ DOMAIN m = Fields /\ m.pc = "done" /\ m.kind = request[q].kind
                   /\ m.result = n.result /\ m.by = n.by
          ELSE request'[q] = request[q]

\* The request r is about, and what its kind says of the session.
Entry(r, s) ==
    /\ DOMAIN s = Fields
    /\ DOMAIN session' = {"closed", "sent"}
    /\ session'.sent = IF s.kind = "send" THEN r ELSE session.sent
    /\ \/ request[r].pc \in Going /\ s.kind = request[r].kind
       \/ request[r].pc = "idle" /\ (s.kind = "send" => session.sent = "nobody")

LEMMA OneMoves ==
    ASSUME RequestsOK, NEW r \in Callers, NEW n, n.pc # "done", request' = [request EXCEPT ![r] = n]
    PROVE  Moves(r, n)
BY Zenon DEF RequestsOK, Moves

LEMMA SettleMoves ==
    ASSUME RequestsOK, NEW r \in Callers, NEW s, DOMAIN s = Fields, NEW result, P!Settle(r, s, result)
    PROVE  \E n : /\ DOMAIN n = Fields /\ n.pc = "done" /\ n.kind = s.kind
                  /\ n.result = result /\ n.by = P!endpointOf(s) /\ Moves(r, n)
<1>1. PICK e : e = P!endpointOf(s)
  BY Zenon
<1>2. PICK n : n = [s EXCEPT !.pc = "done", !.result = result, !.by = e]
  BY Zenon
<1>3. DOMAIN n = Fields /\ n.pc = "done" /\ n.kind = s.kind /\ n.result = result /\ n.by = e
  BY Zenon, <1>2 DEF Fields
<1>4. request' = [q \in Callers |->
         CASE q = r -> n
           [] q # r /\ P!Leads(r, q) -> [request[q] EXCEPT !.pc = "done", !.result = result, !.by = e]
           [] OTHER -> request[q]]
  BY Zenon, <1>1, <1>2 DEF P!Settle
<1>5. request' = [q \in Callers |-> request'[q]] /\ request'[r] = n
  BY Zenon, <1>4
<1>6. ASSUME NEW q \in Callers, q # r, ~P!Leads(r, q) PROVE request'[q] = request[q]
  BY Zenon, <1>4, <1>6
<1>7. ASSUME NEW q \in Callers, q # r, P!Leads(r, q), NEW m, m = request'[q]
      PROVE  /\ DOMAIN m = Fields /\ m.pc = "done" /\ m.kind = request[q].kind
             /\ m.result = n.result /\ m.by = n.by
  <2>1. m = [request[q] EXCEPT !.pc = "done", !.result = result, !.by = e]
    BY Zenon, <1>4, <1>7
  <2>2. DOMAIN request[q] = Fields
    BY Zenon DEF RequestsOK, RecordOK
  <2>3. PICK o : o = request[q]
    BY Zenon
  <2> QED BY Zenon, <1>3, <2>1, <2>2, <2>3 DEF Fields
<1>8. Moves(r, n)
  BY Zenon, <1>3, <1>5, <1>6, <1>7 DEF Moves, P!Leads
<1> QED BY Zenon, <1>1, <1>3, <1>8

LEMMA MoveRequests ==
    ASSUME PInv, NEW r \in Callers, NEW n, Moves(r, n), Entry(r, n), n.pc \in Going \cup {"done"},
           RecordOK(n, checking', bundle, foreign), checking \subseteq checking', UNCHANGED <<foreign, bundle>>
    PROVE  RequestsOK'
<1>1. ASSUME NEW q \in Callers, q # r PROVE RecordOK(request'[q], checking', bundle, foreign)
  <2>1. RecordOK(request[q], checking, bundle, foreign) /\ JoinedOK(request[q], request)
    BY Zenon DEF PInv, RequestsOK
  <2>2. CASE n.pc = "done" /\ request[q].pc = "joined" /\ request[q].lead = r
    <3>1. PICK m : m = request'[q]
      BY Zenon
    <3>2. DOMAIN m = Fields /\ m.pc = "done" /\ m.kind = request[q].kind /\ m.result = n.result /\ m.by = n.by
      BY Zenon, <1>1, <2>2, <3>1 DEF Moves
    <3>3. m.kind = n.kind
      BY Zenon, <2>1, <2>2, <3>2 DEF JoinedOK, Entry, Going
    <3>4. RecordOK(m, checking', bundle, foreign)
      BY Zenon, <2>2, <3>2, <3>3 DEF RecordOK, Pcs
    <3> QED BY Zenon, <3>1, <3>4
  <2>3. CASE ~(n.pc = "done" /\ request[q].pc = "joined" /\ request[q].lead = r)
    <3>1. request'[q] = request[q]
      BY Zenon, <1>1, <2>3 DEF Moves
    <3> QED BY Zenon, <2>1, <3>1 DEF RecordOK
  <2> QED BY Zenon, <2>2, <2>3
<1>2. ASSUME NEW q \in Callers, q # r PROVE SendOK(q, request'[q], session'.sent)
  <2>1. SendOK(q, request[q], session.sent)
    BY Zenon DEF PInv, RequestsOK
  <2>2. request'[q] = request[q] \/ request'[q].pc \notin Going
    BY Zenon, <1>2 DEF Moves, Going
  <2>3. n.kind = "send" => session.sent = r \/ session.sent = "nobody"
    BY Zenon DEF Entry, PInv, RequestsOK, SendOK
  <2>4. session.sent = q => session'.sent = q
    BY Zenon, <1>2, <2>3, PoolAssumption DEF Entry
  <2> QED BY Zenon, <2>1, <2>2, <2>4 DEF SendOK
<1>3. ASSUME NEW q \in Callers, q # r PROVE JoinedOK(request'[q], request')
  <2>1. JoinedOK(request[q], request)
    BY Zenon DEF PInv, RequestsOK
  <2>2. CASE n.pc = "done" /\ request[q].pc = "joined" /\ request[q].lead = r
    <3>1. request'[q].pc = "done"
      BY Zenon, <1>3, <2>2 DEF Moves
    <3> QED BY Zenon, <3>1 DEF JoinedOK
  <2>3. CASE ~(n.pc = "done" /\ request[q].pc = "joined" /\ request[q].lead = r)
    <3>1. request'[q] = request[q]
      BY Zenon, <1>3, <2>3 DEF Moves
    <3>2. PICK s : s = request[q]
      BY Zenon
    <3>3. CASE s.pc # "joined"
      BY Zenon, <3>1, <3>2, <3>3 DEF JoinedOK
    <3>4. CASE s.pc = "joined" /\ s.lead = r
      <4>1. request[r].pc \in Going /\ request[r].kind = s.kind /\ n.pc \in Going
        BY Zenon, <2>1, <2>3, <3>2, <3>4 DEF JoinedOK
      <4>2. request'[r] = n /\ n.kind = request[r].kind
        BY Zenon, <4>1 DEF Moves, Entry, Going
      <4> QED BY Zenon, <3>1, <3>2, <3>4, <4>1, <4>2 DEF JoinedOK
    <3>5. CASE s.pc = "joined" /\ s.lead # r
      <4>1. s.lead \in Callers /\ request[s.lead].pc \in Going /\ request[s.lead].kind = s.kind
        BY Zenon, <2>1, <3>2, <3>5 DEF JoinedOK
      <4>2. request[s.lead].pc # "joined"
        BY Zenon, <4>1 DEF Going
      <4>3. request'[s.lead] = request[s.lead]
        BY Zenon, <3>5, <4>1, <4>2 DEF Moves
      <4> QED BY Zenon, <3>1, <3>2, <4>1, <4>3 DEF JoinedOK
    <3> QED BY Zenon, <3>3, <3>4, <3>5
  <2> QED BY Zenon, <2>2, <2>3
<1>4. SendOK(r, n, session'.sent) /\ JoinedOK(n, request')
  BY Zenon DEF SendOK, JoinedOK, Entry, Going
<1>5. request' = [q \in Callers |-> request'[q]] /\ request'[r] = n
  BY Zenon DEF Moves
<1>6. \A q \in Callers : RecordOK(request'[q], checking', bundle', foreign')
  BY Zenon, <1>1, <1>5
<1> QED BY Zenon, <1>2, <1>3, <1>4, <1>5, <1>6 DEF RequestsOK

LEMMA MoveSession ==
    ASSUME PInv, NEW r \in Callers, NEW n, Moves(r, n), Entry(r, n), n.pc \in Going \cup {"done"},
           n.kind = "send" => n.pc # "delay", posted' \in {0, 1},
           posted' = posted \/ (n.kind = "send" /\ n.pc = "wire"),
           n.kind = "send" /\ n.pc \in {"checking", "checked"} => posted = 0
    PROVE  SessionOK'
<1>1. request'[r] = n /\ DOMAIN session' = {"closed", "sent"}
  BY Zenon DEF Moves, Entry
<1>2. CASE n.kind = "send"
  <2>1. session'.sent = r /\ r # "nobody"
    BY Zenon, <1>2, PoolAssumption DEF Entry
  <2>2. n.pc \in {"checking", "checked", "wire", "done"}
    BY Zenon, <1>2 DEF Going
  <2>3. posted' = 1 => n.pc \in {"wire", "done"}
    BY <1>2, <2>2
  <2> QED BY Zenon, <1>1, <1>2, <2>1, <2>2, <2>3 DEF SessionOK
<1>3. CASE n.kind # "send"
  <2>1. session'.sent = session.sent /\ posted' = posted
    BY Zenon, <1>3 DEF Entry
  <2>2. ASSUME session.sent # "nobody" PROVE request'[session.sent] = request[session.sent]
    <3>1. PICK q \in Callers : q = session.sent
      BY Zenon, <2>2 DEF PInv, SessionOK
    <3>2. request[q].kind = "send" /\ request[q].pc \in {"checking", "checked", "wire", "done"}
      BY Zenon, <2>2, <3>1 DEF PInv, SessionOK
    <3>3. q # r /\ request[q].pc # "joined"
      BY Zenon, <1>3, <3>2 DEF Entry
    <3> QED BY Zenon, <3>1, <3>3 DEF Moves
  <2> QED BY Zenon, <1>1, <2>1, <2>2 DEF SessionOK, PInv
<1> QED BY Zenon, <1>2, <1>3

\* The requests on the wire are the same but for r.
LEMMA MoveWire ==
    ASSUME PInv, NEW r \in Callers, NEW n, Moves(r, n)
    PROVE  /\ n.pc = "wire" => OnWire' = OnWire \cup {r}
           /\ n.pc # "wire" => OnWire' = OnWire \ {r}
<1>1. ASSUME NEW q \in Callers, q # r PROVE request'[q].pc = "wire" <=> request[q].pc = "wire"
  BY Zenon, <1>1 DEF Moves
<1>2. request'[r].pc = n.pc
  BY Zenon DEF Moves
<1> QED BY Zenon, <1>1, <1>2 DEF OnWire

LEMMA WireFinite == IsFiniteSet(OnWire)
<1>1. OnWire \subseteq Callers
  BY Zenon DEF OnWire
<1> QED BY Zenon, <1>1, PoolAssumption, FS_Subset

\* How the counters follow: a check starts, a request leaves or comes back.
LEMMA Counters ==
    ASSUME PInv, NEW r \in Callers, NEW n, Moves(r, n), used' \in Nat, used' <= MaxWire,
           \/ /\ request[r].pc # "wire" /\ n.pc # "wire"
              /\ checking' = checking /\ active' = active
           \/ /\ request[r].pc # "wire" /\ n.pc = "wire"
              /\ checking' = checking /\ active' = active + 1 /\ active < MaxConcurrency
           \/ /\ request[r].pc = "wire" /\ n.pc # "wire"
              /\ checking' = checking /\ active' = active - 1
           \/ /\ request[r].pc # "wire" /\ n.pc # "wire" /\ active' = active + 1 /\ active < MaxConcurrency
              /\ \E e : e \notin checking /\ checking' = checking \cup {e}
    PROVE  CountersOK'
<1>1. /\ IsFiniteSet(OnWire) /\ IsFiniteSet(checking)
      /\ Cardinality(OnWire) \in Nat /\ Cardinality(checking) \in Nat
  BY Zenon, WireFinite, FS_CardinalityType DEF PInv, CountersOK
<1>2. active = Cardinality(checking) + Cardinality(OnWire) /\ active <= MaxConcurrency /\ active \in Nat
  BY Zenon DEF PInv, CountersOK
<1>3. MaxConcurrency \in Nat
  BY Zenon, PoolAssumption
<1>4. request[r].pc # "wire" => r \notin OnWire
  BY Zenon DEF OnWire
<1>5. request[r].pc = "wire" => r \in OnWire
  BY Zenon DEF OnWire
<1>6. CASE /\ request[r].pc # "wire" /\ n.pc # "wire"
           /\ checking' = checking /\ active' = active
  <2>1. OnWire' = OnWire \ {r} /\ r \notin OnWire
    BY Zenon, <1>4, <1>6, MoveWire
  <2>2. OnWire' = OnWire
    BY Zenon, <2>1
  <2> QED BY Zenon, <1>1, <1>2, <1>6, <2>2 DEF CountersOK
<1>7. CASE /\ request[r].pc # "wire" /\ n.pc = "wire"
           /\ checking' = checking /\ active' = active + 1 /\ active < MaxConcurrency
  <2>1. OnWire' = OnWire \cup {r} /\ r \notin OnWire
    <3>1. r \notin OnWire /\ n.pc = "wire"
      BY Zenon, <1>4, <1>7
    <3> QED BY Zenon, <3>1, MoveWire
  <2>2. Cardinality(OnWire') = Cardinality(OnWire) + 1
    BY Zenon, <1>1, <2>1, FS_AddElement
  <2>3. active' = Cardinality(checking') + Cardinality(OnWire') /\ active' \in Nat /\ active' <= MaxConcurrency
    BY <1>1, <1>2, <1>3, <1>7, <2>2
  <2> QED BY Zenon, <1>1, <1>7, <2>3 DEF CountersOK
<1>8. CASE /\ request[r].pc = "wire" /\ n.pc # "wire"
           /\ checking' = checking /\ active' = active - 1
  <2>1. OnWire' = OnWire \ {r} /\ r \in OnWire
    BY Zenon, <1>5, <1>8, MoveWire
  <2>2. Cardinality(OnWire') = Cardinality(OnWire) - 1
    BY Zenon, <1>1, <2>1, FS_RemoveElement
  <2>3. IsFiniteSet(OnWire') /\ Cardinality(OnWire') \in Nat
    BY Zenon, <1>1, <2>1, FS_RemoveElement, FS_CardinalityType
  <2>4. active' = Cardinality(checking') + Cardinality(OnWire') /\ active' \in Nat /\ active' <= MaxConcurrency
    BY <1>1, <1>2, <1>3, <1>8, <2>2, <2>3
  <2> QED BY Zenon, <1>1, <1>8, <2>4 DEF CountersOK
<1>9. ASSUME request[r].pc # "wire", n.pc # "wire", active' = active + 1, active < MaxConcurrency,
             NEW e, e \notin checking, checking' = checking \cup {e}
      PROVE  CountersOK'
  <2>0. OnWire' = OnWire \ {r} /\ r \notin OnWire
    BY Zenon, <1>4, <1>9, MoveWire
  <2>1. OnWire' = OnWire
    BY Zenon, <2>0
  <2>2. Cardinality(checking') = Cardinality(checking) + 1 /\ IsFiniteSet(checking')
    BY Zenon, <1>1, <1>9, FS_AddElement
  <2>3. active' = Cardinality(checking') + Cardinality(OnWire') /\ active' \in Nat /\ active' <= MaxConcurrency
    BY <1>1, <1>2, <1>3, <1>9, <2>1, <2>2
  <2> QED BY Zenon, <2>2, <2>3 DEF CountersOK
<1> QED BY Zenon, <1>6, <1>7, <1>8, <1>9

-----------------------------------------------------------------------------
(* The parts of an attempt. *)

\* r leaves the wire, or was not on it.
Back(r) ==
    \/ request[r].pc # "wire" /\ active' = active
    \/ request[r].pc = "wire" /\ active' = active - 1

LEMMA RefusalIs ==
    ASSUME PInv
    PROVE  /\ P!Refusal \in {"aborted", "budget_exhausted", "concurrency_exceeded", "none"}
           /\ P!Refusal = "none" => used < MaxWire /\ active < MaxConcurrency
<1>1. used \in Nat /\ active \in Nat /\ MaxWire \in Nat /\ MaxConcurrency \in Nat
  BY Zenon, PoolAssumption DEF PInv, CountersOK
<1>2. CASE aborted
  BY Zenon, <1>2 DEF P!Refusal
<1>3. CASE ~aborted /\ used >= MaxWire
  BY Zenon, <1>3 DEF P!Refusal
<1>4. CASE ~aborted /\ used < MaxWire /\ active >= MaxConcurrency
  BY Zenon, <1>1, <1>4 DEF P!Refusal
<1>5. CASE ~aborted /\ used < MaxWire /\ active < MaxConcurrency
  BY Zenon, <1>1, <1>5 DEF P!Refusal
<1> QED BY <1>1, <1>2, <1>3, <1>4, <1>5

LEMMA Room ==
    ASSUME PInv, P!Refusal = "none"
    PROVE  used + 1 \in Nat /\ used + 1 <= MaxWire /\ active < MaxConcurrency
<1>1. used < MaxWire /\ active < MaxConcurrency
  BY Zenon, RefusalIs
<1>2. used \in Nat /\ active \in Nat /\ MaxWire \in Nat /\ MaxConcurrency \in Nat
  BY Zenon, PoolAssumption DEF PInv, CountersOK
<1> QED BY <1>1, <1>2

LEMMA SettleOK ==
    ASSUME PInv, NEW r \in Callers, NEW s, Entry(r, s), NEW result, P!Settle(r, s, result), Back(r),
           UNCHANGED <<foreign, bundle, checking, posted, used>>, checked' \cap foreign = {},
           result = "ok" => P!endpointOf(s) \notin foreign,
           s.kind = "send" => (result = "ok" => bundle = "accepted") /\ (result = "refused" => bundle = "refused")
    PROVE  PInv'
<1>1. PICK n : /\ DOMAIN n = Fields /\ n.pc = "done" /\ n.kind = s.kind
               /\ n.result = result /\ n.by = P!endpointOf(s) /\ Moves(r, n)
  <2>1. RequestsOK /\ DOMAIN s = Fields
    BY Zenon DEF PInv, Entry
  <2> QED BY <2>1, SettleMoves
<1>2. Entry(r, n)
  BY Zenon, <1>1 DEF Entry
<1>3. RecordOK(n, checking', bundle, foreign)
  BY Zenon, <1>1 DEF RecordOK, Pcs
<1>4. RequestsOK'
  BY Zenon, <1>1, <1>2, <1>3, MoveRequests
<1>5. posted' \in {0, 1} /\ posted' = posted
  BY Zenon DEF PInv, SessionOK
<1>6. SessionOK'
  BY Zenon, <1>1, <1>2, <1>5, MoveSession
<1>7. used' \in Nat /\ used' <= MaxWire
  BY Zenon DEF PInv, CountersOK
<1>8. CountersOK'
  BY Zenon, <1>1, <1>7, Counters DEF Back
<1> QED BY Zenon, <1>4, <1>6, <1>8 DEF PInv

\* A request goes on: it waits for a check or for the next attempt, or it is
\* on the wire.
LEMMA GoesOn ==
    ASSUME PInv, NEW r \in Callers, NEW s, Entry(r, s), NEW n, DOMAIN n = Fields, n.pc # "done",
           n.kind = s.kind, n.start = s.start, n.attempt = s.attempt,
           request' = [request EXCEPT ![r] = n]
    PROVE  P!endpointOf(n) = P!endpointOf(s) /\ Entry(r, n) /\ Moves(r, n)
<1>1. P!endpointOf(n) = P!endpointOf(s)
  BY Zenon, SameEndpoint
<1>2. Moves(r, n)
  BY Zenon, OneMoves DEF PInv
<1> QED BY Zenon, <1>1, <1>2 DEF Entry

\* The catch of one attempt.
LEMMA FailOK ==
    ASSUME PInv, NEW r \in Callers, NEW s, Entry(r, s), s.result = "none", NEW error, P!Fail(r, s, error),
           Back(r), UNCHANGED <<foreign, bundle, checking, posted, used>>, error \notin {"ok", "refused"},
           s.kind = "send" /\ error \in {"rejected", "busy"} => bundle = "refused"
    PROVE  PInv'
<1>1. CASE error \in P!Transient /\ P!Retries(s)
  <2>1. PICK n : n = [s EXCEPT !.pc = "delay"]
    BY Zenon
  <2>2. request' = [request EXCEPT ![r] = n] /\ checked' = checked \ {P!endpointOf(s)} /\ s.kind # "send"
    BY Zenon, <1>1, <2>1 DEF P!Fail, P!Retries
  <2>3. /\ DOMAIN n = Fields /\ n.pc = "delay" /\ n.kind = s.kind /\ n.result = "none"
        /\ P!endpointOf(n) = P!endpointOf(s) /\ Entry(r, n) /\ Moves(r, n)
    <3>1. DOMAIN s = Fields
      BY Zenon DEF Entry
    <3>2. /\ DOMAIN n = Fields /\ n.pc = "delay" /\ n.kind = s.kind /\ n.result = "none"
          /\ n.start = s.start /\ n.attempt = s.attempt
      BY Zenon, <2>1, <3>1 DEF Fields
    <3>3. n.pc # "done"
      BY Zenon, <3>2
    <3> QED BY Zenon, <2>2, <3>2, <3>3, GoesOn
  <2>4. RecordOK(n, checking', bundle, foreign)
    BY Zenon, <2>2, <2>3 DEF RecordOK, Pcs, Going
  <2>5. n.pc \in Going
    BY Zenon, <2>3 DEF Going
  <2>6. RequestsOK'
    BY Zenon, <2>3, <2>4, <2>5, MoveRequests
  <2>7. posted' \in {0, 1} /\ posted' = posted
    BY Zenon DEF PInv, SessionOK
  <2>8. SessionOK'
    BY Zenon, <2>2, <2>3, <2>5, <2>7, MoveSession
  <2>9. used' \in Nat /\ used' <= MaxWire
    BY Zenon DEF PInv, CountersOK
  <2>10. CountersOK'
    BY Zenon, <2>3, <2>9, Counters DEF Back
  <2>11. checked' \cap foreign' = {}
    BY Zenon, <2>2 DEF PInv
  <2> QED BY Zenon, <2>6, <2>8, <2>10, <2>11 DEF PInv
<1>2. CASE ~(error \in P!Transient /\ P!Retries(s))
  <2>1. PICK result : result = P!Outcome(s, error)
    BY Zenon
  <2>2. P!Settle(r, s, result) /\ checked' = checked
    BY Zenon, <1>2, <2>1 DEF P!Fail
  <2>3. result # "ok" /\ (s.kind = "send" /\ result = "refused" => bundle = "refused")
    BY Zenon, <2>1 DEF P!Outcome
  <2>4. checked' \cap foreign = {}
    BY Zenon, <2>2 DEF PInv
  <2> QED BY Zenon, <2>2, <2>3, <2>4, SettleOK
<1> QED BY Zenon, <1>1, <1>2

\* One request to an endpoint of the chain.
LEMMA PostOK ==
    ASSUME PInv, NEW r \in Callers, NEW s, Entry(r, s), s.result = "none", P!Post(r, s),
           request[r].pc # "wire", P!endpointOf(s) \notin foreign, s.kind = "send" => posted = 0,
           UNCHANGED <<foreign, bundle, checking>>
    PROVE  PInv'
<1>1. checked' \cap foreign = {}
  BY Zenon DEF P!Post, PInv
<1>2. CASE P!Refusal # "none"
  <2>1. PICK result : result = P!Refusal
    BY Zenon
  <2>2. P!Settle(r, s, result) /\ UNCHANGED <<used, active, posted>>
    BY Zenon, <1>2, <2>1 DEF P!Post
  <2>3. result \notin {"ok", "refused"}
    BY Zenon, <2>1, RefusalIs
  <2>4. Back(r)
    BY Zenon, <2>2 DEF Back
  <2> QED BY Zenon, <1>1, <2>2, <2>3, <2>4, SettleOK
<1>3. CASE P!Refusal = "none"
  <2>1. PICK n : n = [s EXCEPT !.pc = "wire"]
    BY Zenon
  <2>2. /\ request' = [request EXCEPT ![r] = n] /\ used' = used + 1 /\ active' = active + 1
        /\ posted' = posted + (IF s.kind = "send" THEN 1 ELSE 0)
    BY Zenon, <1>3, <2>1 DEF P!Post
  <2>3. /\ DOMAIN n = Fields /\ n.pc = "wire" /\ n.kind = s.kind /\ n.result = "none"
        /\ P!endpointOf(n) = P!endpointOf(s) /\ Entry(r, n) /\ Moves(r, n)
    <3>1. DOMAIN s = Fields
      BY Zenon DEF Entry
    <3>2. /\ DOMAIN n = Fields /\ n.pc = "wire" /\ n.kind = s.kind /\ n.result = "none"
          /\ n.start = s.start /\ n.attempt = s.attempt
      BY Zenon, <2>1, <3>1 DEF Fields
    <3>3. n.pc # "done"
      BY Zenon, <3>2
    <3> QED BY Zenon, <2>2, <3>2, <3>3, GoesOn
  <2>4. RecordOK(n, checking', bundle, foreign)
    BY Zenon, <2>3 DEF RecordOK, Pcs, Going
  <2>5. n.pc \in Going
    BY Zenon, <2>3 DEF Going
  <2>6. RequestsOK'
    BY Zenon, <2>3, <2>4, <2>5, MoveRequests
  <2>7. posted' \in {0, 1} /\ (posted' = posted \/ n.kind = "send")
    BY <2>2, <2>3 DEF PInv, SessionOK
  <2>8. SessionOK'
    BY Zenon, <2>3, <2>5, <2>7, MoveSession
  <2>9. used' \in Nat /\ used' <= MaxWire /\ active < MaxConcurrency
    BY Zenon, <1>3, <2>2, Room
  <2>10. CountersOK'
    BY Zenon, <2>2, <2>3, <2>9, Counters
  <2> QED BY Zenon, <1>1, <2>6, <2>8, <2>10 DEF PInv
<1> QED BY Zenon, <1>2, <1>3

\* The chain check of an endpoint, or joining the one in flight.
LEMMA ReadChainOK ==
    ASSUME PInv, NEW r \in Callers, NEW s, Entry(r, s), s.result = "none", P!readChain(r, s),
           request[r].pc # "wire", s.kind = "send" => posted = 0, UNCHANGED <<foreign, bundle, posted>>
    PROVE  PInv'
<1>1. PICK e : e = P!endpointOf(s)
  BY Zenon
<1>2. CASE e \notin checking /\ P!Refusal # "none"
  <2>1. PICK error : error = P!Refusal
    BY Zenon
  <2>2. P!Fail(r, s, error) /\ UNCHANGED <<checking, used, active>>
    BY Zenon, <1>1, <1>2, <2>1 DEF P!readChain
  <2>3. error \notin {"ok", "refused", "rejected", "busy"}
    BY Zenon, <2>1, RefusalIs
  <2>4. Back(r)
    BY Zenon, <2>2 DEF Back
  <2> QED BY Zenon, <2>2, <2>3, <2>4, FailOK
<1>3. CASE e \in checking \/ P!Refusal = "none"
  <2>1. PICK n : n = [s EXCEPT !.pc = "checking"]
    BY Zenon
  <2>2. /\ request' = [request EXCEPT ![r] = n] /\ UNCHANGED checked
        /\ \/ e \in checking /\ UNCHANGED <<checking, used, active>>
           \/ /\ e \notin checking /\ P!Refusal = "none"
              /\ checking' = checking \cup {e} /\ used' = used + 1 /\ active' = active + 1
    BY Zenon, <1>1, <1>3, <2>1 DEF P!readChain
  <2>3. /\ DOMAIN n = Fields /\ n.pc = "checking" /\ n.kind = s.kind /\ n.result = "none"
        /\ P!endpointOf(n) = P!endpointOf(s) /\ Entry(r, n) /\ Moves(r, n)
    <3>1. DOMAIN s = Fields
      BY Zenon DEF Entry
    <3>2. /\ DOMAIN n = Fields /\ n.pc = "checking" /\ n.kind = s.kind /\ n.result = "none"
          /\ n.start = s.start /\ n.attempt = s.attempt
      BY Zenon, <2>1, <3>1 DEF Fields
    <3>3. n.pc # "done"
      BY Zenon, <3>2
    <3> QED BY Zenon, <2>2, <3>2, <3>3, GoesOn
  <2>4. e \in checking' /\ checking \subseteq checking'
    BY Zenon, <2>2
  <2>5. RecordOK(n, checking', bundle, foreign)
    BY Zenon, <1>1, <2>3, <2>4 DEF RecordOK, Pcs, Going
  <2>6. n.pc \in Going
    BY Zenon, <2>3 DEF Going
  <2>7. RequestsOK'
    BY Zenon, <2>3, <2>4, <2>5, <2>6, MoveRequests
  <2>8. posted' \in {0, 1} /\ posted' = posted
    BY Zenon DEF PInv, SessionOK
  <2>9. SessionOK'
    BY Zenon, <2>3, <2>6, <2>8, MoveSession
  <2>10. CountersOK'
    <3>1. CASE e \in checking /\ UNCHANGED <<checking, used, active>>
      <4>1. used' \in Nat /\ used' <= MaxWire
        BY Zenon, <3>1 DEF PInv, CountersOK
      <4> QED BY Zenon, <2>3, <3>1, <4>1, Counters
    <3>2. CASE /\ e \notin checking /\ P!Refusal = "none"
               /\ checking' = checking \cup {e} /\ used' = used + 1 /\ active' = active + 1
      <4>1. used' \in Nat /\ used' <= MaxWire /\ active < MaxConcurrency
        BY Zenon, <3>2, Room
      <4> QED BY Zenon, <2>3, <3>2, <4>1, Counters
    <3> QED BY Zenon, <2>2, <3>1, <3>2
  <2>11. checked' \cap foreign' = {}
    BY Zenon, <2>2 DEF PInv
  <2> QED BY Zenon, <2>7, <2>9, <2>10, <2>11 DEF PInv
<1> QED BY Zenon, <1>2, <1>3

LEMMA AttemptOK ==
    ASSUME PInv, NEW r \in Callers, NEW s, Entry(r, s), s.result = "none", P!Attempt(r, s),
           request[r].pc # "wire", s.kind = "send" => posted = 0, UNCHANGED <<foreign, bundle>>
    PROVE  PInv'
<1>1. CASE s.kind = "chain_id" \/ P!endpointOf(s) \notin checked
  <2>1. P!readChain(r, s) /\ UNCHANGED posted
    BY Zenon, <1>1 DEF P!Attempt
  <2> QED BY Zenon, <2>1, ReadChainOK
<1>2. CASE ~(s.kind = "chain_id" \/ P!endpointOf(s) \notin checked)
  <2>1. P!Post(r, s) /\ UNCHANGED checking
    BY Zenon, <1>2 DEF P!Attempt
  <2>2. P!endpointOf(s) \notin foreign
    BY Zenon, <1>2 DEF PInv
  <2> QED BY Zenon, <2>1, <2>2, PostOK
<1> QED BY Zenon, <1>1, <1>2

-----------------------------------------------------------------------------
(* Asking. *)

\* A caller that shares the request of another, or is answered at once.
LEMMA IdleBecomes ==
    ASSUME PInv, NEW r \in Callers, request[r].pc = "idle", NEW n, request' = [request EXCEPT ![r] = n],
           n.pc \in {"joined", "done"}, RecordOK(n, checking, bundle, foreign), JoinedOK(n, request),
           UNCHANGED <<checked, checking, used, active, session, foreign, posted, bundle>>
    PROVE  PInv'
<1>1. /\ request = [q \in Callers |-> request[q]]
      /\ \A q \in Callers : RecordOK(request[q], checking, bundle, foreign)
      /\ \A q \in Callers : SendOK(q, request[q], session.sent)
      /\ \A q \in Callers : JoinedOK(request[q], request)
  BY Zenon DEF PInv, RequestsOK
<1>2. /\ request' = [q \in Callers |-> request'[q]] /\ request'[r] = n
      /\ \A q \in Callers : q # r => request'[q] = request[q]
  BY Zenon, <1>1
<1>3. ASSUME NEW m, JoinedOK(m, request) PROVE JoinedOK(m, request')
  <2>1. CASE m.pc = "joined"
    <3>1. m.lead \in Callers /\ request[m.lead].pc \in Going /\ request[m.lead].kind = m.kind
      BY Zenon, <1>3, <2>1 DEF JoinedOK
    <3>2. m.lead # r
      BY Zenon, <3>1 DEF Going
    <3> QED BY Zenon, <1>2, <3>1, <3>2 DEF JoinedOK
  <2> QED BY Zenon, <2>1 DEF JoinedOK
<1>4. SendOK(r, n, session.sent)
  BY Zenon DEF SendOK, Going
<1>5. RequestsOK'
  <2>1. \A q \in Callers : RecordOK(request'[q], checking, bundle, foreign)
    BY Zenon, <1>1, <1>2
  <2>2. \A q \in Callers : SendOK(q, request'[q], session.sent)
    BY Zenon, <1>1, <1>2, <1>4
  <2>3. \A q \in Callers : JoinedOK(request'[q], request')
    BY Zenon, <1>1, <1>2, <1>3
  <2> QED BY Zenon, <1>2, <2>1, <2>2, <2>3 DEF RequestsOK
<1>6. SessionOK'
  <2>1. session.sent # "nobody" => session.sent \in Callers /\ session.sent # r
    BY Zenon DEF PInv, SessionOK
  <2>2. session.sent # "nobody" => request'[session.sent] = request[session.sent]
    BY Zenon, <1>2, <2>1
  <2> QED BY Zenon, <2>2 DEF PInv, SessionOK
<1>7. OnWire' = OnWire
  <2>1. \A q \in Callers : request'[q].pc = "wire" <=> request[q].pc = "wire"
    BY Zenon, <1>2
  <2> QED BY Zenon, <2>1 DEF OnWire
<1>8. CountersOK'
  BY Zenon, <1>7 DEF PInv, CountersOK
<1> QED BY Zenon, <1>5, <1>6, <1>8 DEF PInv

LEMMA SharedIs ==
    ASSUME PInv, NEW kind \in P!Kinds, NEW q \in P!Shared(kind)
    PROVE  /\ q \in Callers /\ request[q].kind = kind
           /\ request[q].pc # "done" => request[q].pc \in Going
<1>1. CASE kind = "send"
  <2>1. q \in Callers /\ q = session.sent
    BY Zenon, <1>1 DEF P!Shared
  <2>2. q # "nobody"
    BY Zenon, <2>1, PoolAssumption
  <2>3. request[q].kind = "send" /\ request[q].pc \in {"checking", "checked", "wire", "done"}
    BY Zenon, <2>1, <2>2 DEF PInv, SessionOK
  <2> QED BY Zenon, <1>1, <2>1, <2>3 DEF Going
<1>2. CASE kind # "send"
  <2>1. q \in Callers /\ request[q].kind = kind /\ request[q].lead = q /\ request[q].pc \notin {"idle", "done"}
    BY Zenon, <1>2 DEF P!Shared
  <2>2. RecordOK(request[q], checking, bundle, foreign) /\ JoinedOK(request[q], request)
    BY Zenon, <2>1 DEF PInv, RequestsOK
  <2>3. request[q].pc # "joined"
    BY Zenon, <2>1, <2>2 DEF JoinedOK, Going
  <2>4. request[q].pc \in Pcs
    BY Zenon, <2>2 DEF RecordOK
  <2> QED BY Zenon, <2>1, <2>3, <2>4 DEF Pcs
<1> QED BY Zenon, <1>1, <1>2

LEMMA NobodySent ==
    ASSUME PInv, P!Shared("send") = {}
    PROVE  session.sent = "nobody" /\ posted = 0
<1>1. session.sent \notin Callers
  BY Zenon DEF P!Shared
<1>2. session.sent = "nobody"
  BY Zenon, <1>1 DEF PInv, SessionOK
<1> QED BY Zenon, <1>2 DEF PInv, SessionOK

LEMMA AskKeeps ==
    ASSUME PInv, NEW r \in Callers, NEW kind \in P!Kinds, P!ask(r, kind)
    PROVE  PInv'
<1>1. PICK start : start = IF Len(P!EndpointsOf(kind)) = 1 THEN 0 ELSE preferred
  BY Zenon
<1>2. PICK s : s = [P!Idle EXCEPT !.kind = kind, !.lead = r, !.start = start]
  BY Zenon
<1>3. DOMAIN s = Fields /\ s.kind = kind /\ s.pc = "idle" /\ s.result = "none"
  BY Zenon, <1>2 DEF P!Idle, Fields
<1>4. request[r].pc = "idle" /\ UNCHANGED <<preferred, aborted, foreign, bundle>>
  BY Zenon DEF P!ask
<1>5. CASE kind = "send" /\ session.closed
  <2>1. PICK n : n = [s EXCEPT !.pc = "done", !.result = "closed"]
    BY Zenon
  <2>2. /\ request' = [request EXCEPT ![r] = n]
        /\ UNCHANGED <<checked, checking, used, active, posted, session>>
    BY Zenon, <1>1, <1>2, <1>5, <2>1 DEF P!ask
  <2>3. DOMAIN n = Fields /\ n.pc = "done" /\ n.result = "closed"
    BY Zenon, <1>3, <2>1 DEF Fields
  <2>4. RecordOK(n, checking, bundle, foreign) /\ JoinedOK(n, request)
    BY Zenon, <2>3 DEF RecordOK, JoinedOK, Pcs
  <2> QED BY Zenon, <1>4, <2>2, <2>3, <2>4, IdleBecomes
<1>6. CASE ~(kind = "send" /\ session.closed) /\ kind # "send" /\ aborted
  <2>1. P!Settle(r, s, "aborted") /\ UNCHANGED <<checked, checking, used, active, posted, session>>
    BY Zenon, <1>1, <1>2, <1>6 DEF P!ask
  <2>2. Entry(r, s)
    BY Zenon, <1>3, <1>4, <1>6, <2>1 DEF Entry, PInv, SessionOK
  <2>3. Back(r)
    BY Zenon, <1>4, <2>1 DEF Back
  <2>4. checked' \cap foreign = {}
    BY Zenon, <2>1 DEF PInv
  <2>5. PICK result : result = "aborted"
    BY Zenon
  <2>6. result # "ok" /\ result # "refused" /\ P!Settle(r, s, result)
    BY Zenon, <2>1, <2>5
  <2> QED BY Zenon, <1>4, <2>1, <2>2, <2>3, <2>4, <2>6, SettleOK
<1>7. CASE /\ ~(kind = "send" /\ session.closed) /\ ~(kind # "send" /\ aborted)
           /\ P!Shared(kind) # {}
  <2>1. PICK q \in P!Shared(kind) : q = CHOOSE x \in P!Shared(kind) : TRUE
    BY Zenon, <1>7
  <2>2. /\ request' = [request EXCEPT ![r] =
               IF request[q].pc = "done" THEN [request[q] EXCEPT !.lead = q]
               ELSE [s EXCEPT !.pc = "joined", !.lead = q]]
        /\ UNCHANGED <<checked, checking, used, active, posted, session>>
    BY Zenon, <1>1, <1>2, <1>7, <2>1 DEF P!ask
  <2>3. q \in Callers /\ request[q].kind = kind /\ (request[q].pc # "done" => request[q].pc \in Going)
    BY Zenon, SharedIs
  <2>4. CASE request[q].pc = "done"
    <3>1. PICK o : o = request[q]
      BY Zenon
    <3>2. PICK n : n = [o EXCEPT !.lead = q]
      BY Zenon
    <3>3. RecordOK(o, checking, bundle, foreign)
      BY Zenon, <2>3, <3>1 DEF PInv, RequestsOK
    <3>4. /\ DOMAIN n = Fields /\ n.pc = "done" /\ o.pc = "done" /\ n.kind = o.kind /\ n.result = o.result
          /\ n.by = o.by
      BY Zenon, <2>4, <3>1, <3>2, <3>3 DEF RecordOK, Fields
    <3>5. RecordOK(n, checking, bundle, foreign) /\ JoinedOK(n, request)
      BY Zenon, <3>3, <3>4 DEF RecordOK, JoinedOK
    <3>6. request' = [request EXCEPT ![r] = n]
      BY Zenon, <2>2, <2>4, <3>1, <3>2
    <3> QED BY Zenon, <1>4, <2>2, <3>4, <3>5, <3>6, IdleBecomes
  <2>5. CASE request[q].pc # "done"
    <3>1. PICK n : n = [s EXCEPT !.pc = "joined", !.lead = q]
      BY Zenon
    <3>2. DOMAIN n = Fields /\ n.pc = "joined" /\ n.kind = kind /\ n.result = "none" /\ n.lead = q
      BY Zenon, <1>3, <3>1 DEF Fields
    <3>3. RecordOK(n, checking, bundle, foreign)
      BY Zenon, <3>2 DEF RecordOK, Pcs
    <3>4. JoinedOK(n, request)
      BY Zenon, <2>3, <2>5, <3>2 DEF JoinedOK
    <3>5. request' = [request EXCEPT ![r] = n]
      BY Zenon, <2>2, <2>5, <3>1
    <3> QED BY Zenon, <1>4, <2>2, <3>2, <3>3, <3>4, <3>5, IdleBecomes
  <2> QED BY Zenon, <2>4, <2>5
<1>8. CASE /\ ~(kind = "send" /\ session.closed) /\ ~(kind # "send" /\ aborted)
           /\ P!Shared(kind) = {}
  <2>1. session' = (IF kind = "send" THEN [session EXCEPT !.sent = r] ELSE session) /\ P!Attempt(r, s)
    BY Zenon, <1>1, <1>2, <1>8 DEF P!ask
  <2>2. kind = "send" => session.sent = "nobody" /\ posted = 0
    BY Zenon, <1>8, NobodySent
  <2>3. DOMAIN session = {"closed", "sent"}
    BY Zenon DEF PInv, SessionOK
  <2>4. DOMAIN session' = {"closed", "sent"} /\ session'.sent = IF kind = "send" THEN r ELSE session.sent
    BY Zenon, <2>1, <2>3
  <2>5. Entry(r, s)
    BY Zenon, <1>3, <1>4, <2>2, <2>4 DEF Entry
  <2>6. request[r].pc # "wire"
    BY Zenon, <1>4
  <2> QED BY Zenon, <1>3, <1>4, <2>1, <2>2, <2>5, <2>6, AttemptOK
<1> QED BY Zenon, <1>5, <1>6, <1>7, <1>8

-----------------------------------------------------------------------------
(* The steps of a request that was asked. *)

\* The request of r goes on as s, of the same kind.
LEMMA GoingEntry ==
    ASSUME PInv, NEW r \in Callers, request[r].pc \in Going, NEW s, DOMAIN s = Fields,
           s.kind = request[r].kind, UNCHANGED session
    PROVE  Entry(r, s)
<1>1. s.kind = "send" => session.sent = r
  BY Zenon DEF PInv, RequestsOK, SendOK
<1>2. DOMAIN session = {"closed", "sent"}
  BY Zenon DEF PInv, SessionOK
<1> QED BY Zenon, <1>1, <1>2 DEF Entry

LEMMA RecordOf ==
    ASSUME PInv, NEW r \in Callers
    PROVE  RecordOK(request[r], checking, bundle, foreign) /\ DOMAIN request[r] = Fields
BY Zenon DEF PInv, RequestsOK, RecordOK

LEMMA AgainKeeps ==
    ASSUME PInv, NEW r \in Callers, P!again(r)
    PROVE  PInv'
<1>1. PICK o : o = request[r]
  BY Zenon
<1>2. /\ RecordOK(o, checking, bundle, foreign) /\ DOMAIN o = Fields /\ o.pc = "delay"
      /\ UNCHANGED <<preferred, aborted, session, foreign, bundle>>
  BY Zenon, <1>1, RecordOf DEF P!again
<1>3. o.kind # "send" /\ o.result = "none" /\ request[r].pc \in Going /\ request[r].pc # "wire"
  BY Zenon, <1>1, <1>2 DEF RecordOK, Going
<1>4. CASE aborted
  <2>1. PICK result : result = "aborted"
    BY Zenon
  <2>2. /\ P!Settle(r, o, result) /\ UNCHANGED <<checked, checking, used, active, posted>>
    BY Zenon, <1>1, <1>4, <2>1 DEF P!again
  <2>3. Entry(r, o)
    BY Zenon, <1>1, <1>2, <1>3, GoingEntry
  <2>4. Back(r)
    BY Zenon, <1>3, <2>2 DEF Back
  <2>5. checked' \cap foreign = {}
    BY Zenon, <2>2 DEF PInv
  <2>6. result # "ok" /\ result # "refused"
    BY Zenon, <2>1
  <2> QED BY Zenon, <1>2, <2>2, <2>3, <2>4, <2>5, <2>6, SettleOK
<1>5. CASE ~aborted
  <2>1. PICK s : s = [o EXCEPT !.attempt = @ + 1]
    BY Zenon
  <2>2. P!Attempt(r, s)
    BY Zenon, <1>1, <1>5, <2>1 DEF P!again
  <2>3. DOMAIN s = Fields /\ s.kind = o.kind /\ s.result = o.result
    BY Zenon, <1>2, <2>1 DEF Fields
  <2>4. Entry(r, s)
    BY Zenon, <1>1, <1>2, <1>3, <2>3, GoingEntry
  <2> QED BY Zenon, <1>2, <1>3, <2>2, <2>3, <2>4, AttemptOK
<1> QED BY Zenon, <1>4, <1>5

LEMMA CheckedKeeps ==
    ASSUME PInv, NEW r \in Callers, P!checkedGoesOn(r)
    PROVE  PInv'
<1>1. PICK o : o = request[r]
  BY Zenon
<1>2. /\ RecordOK(o, checking, bundle, foreign) /\ DOMAIN o = Fields /\ o.pc = "checked"
      /\ UNCHANGED <<checking, aborted, session, foreign, bundle>>
  BY Zenon, <1>1, RecordOf DEF P!checkedGoesOn
<1>3. PICK s : s = [o EXCEPT !.result = "none"]
  BY Zenon
<1>4. /\ DOMAIN s = Fields /\ s.kind = o.kind /\ s.result = "none" /\ s.start = o.start
      /\ s.attempt = o.attempt
  BY Zenon, <1>2, <1>3 DEF Fields
<1>5. P!endpointOf(s) = P!endpointOf(o)
  BY Zenon, <1>4, SameEndpoint
<1>6. /\ o.result \in Checks /\ (o.result = "right" => P!endpointOf(s) \notin foreign)
      /\ request[r].pc \in Going /\ request[r].pc # "wire"
  BY Zenon, <1>1, <1>2, <1>5 DEF RecordOK, Going
<1>7. Entry(r, s)
  BY Zenon, <1>1, <1>2, <1>4, <1>6, GoingEntry
<1>8. s.kind = "send" => posted = 0
  <2>1. s.kind = "send" => session.sent = r
    BY Zenon, <1>2, <1>7 DEF Entry
  <2> QED BY Zenon, <1>1, <1>2, <2>1 DEF PInv, SessionOK
<1>9. CASE o.result # "right"
  <2>1. PICK error : error = o.result
    BY Zenon
  <2>2. P!Fail(r, s, error) /\ UNCHANGED <<preferred, used, active, posted>>
    BY Zenon, <1>1, <1>3, <1>9, <2>1 DEF P!checkedGoesOn
  <2>3. error \notin {"ok", "refused", "rejected", "busy"}
    BY Zenon, <1>6, <2>1 DEF Checks
  <2>4. Back(r)
    BY Zenon, <1>6, <2>2 DEF Back
  <2> QED BY Zenon, <1>2, <1>4, <1>7, <2>2, <2>3, <2>4, FailOK
<1>10. CASE o.result = "right" /\ s.kind = "chain_id"
  <2>1. PICK result : result = "ok"
    BY Zenon
  <2>2. /\ P!Settle(r, s, result) /\ checked' = checked \cup {P!endpointOf(s)}
        /\ UNCHANGED <<used, active, posted>>
    BY Zenon, <1>1, <1>3, <1>10, <2>1 DEF P!checkedGoesOn
  <2>3. checked' \cap foreign = {} /\ s.kind # "send" /\ P!endpointOf(s) \notin foreign
    BY Zenon, <1>6, <1>10, <2>2 DEF PInv
  <2>4. Back(r)
    BY Zenon, <1>6, <2>2 DEF Back
  <2> QED BY Zenon, <1>2, <1>7, <2>2, <2>3, <2>4, SettleOK
<1>11. CASE o.result = "right" /\ s.kind # "chain_id"
  <2>1. P!Post(r, s)
    BY Zenon, <1>1, <1>3, <1>11 DEF P!checkedGoesOn
  <2> QED BY Zenon, <1>2, <1>4, <1>6, <1>7, <1>8, <1>11, <2>1, PostOK
<1> QED BY Zenon, <1>9, <1>10, <1>11

LEMMA WireKeeps ==
    ASSUME PInv, NEW r \in Callers, NEW answer \in P!Answers, P!wireAnswers(r, answer)
    PROVE  PInv'
<1>1. PICK o : o = request[r]
  BY Zenon
<1>2. /\ RecordOK(o, checking, bundle, foreign) /\ DOMAIN o = Fields /\ o.pc = "wire"
      /\ UNCHANGED <<checking, used, aborted, session, foreign, posted, bundle>>
      /\ o.kind = "send" /\ answer = "ok" => bundle = "accepted"
      /\ o.kind = "send" /\ answer \in {"rejected", "busy"} => bundle = "refused"
  BY Zenon, <1>1, RecordOf DEF P!wireAnswers
<1>3. o.result = "none" /\ P!endpointOf(o) \notin foreign /\ request[r].pc \in Going
  BY Zenon, <1>1, <1>2 DEF RecordOK, Going
<1>4. Entry(r, o)
  BY Zenon, <1>1, <1>2, <1>3, GoingEntry
<1>5. Back(r)
  BY Zenon, <1>1, <1>2 DEF Back, P!wireAnswers
<1>6. CASE answer = "ok"
  <2>1. P!Settle(r, o, answer) /\ UNCHANGED checked
    BY Zenon, <1>1, <1>6 DEF P!wireAnswers
  <2>2. checked' \cap foreign = {} /\ answer # "refused"
    BY Zenon, <1>6, <2>1 DEF PInv
  <2> QED BY Zenon, <1>2, <1>3, <1>4, <1>5, <1>6, <2>1, <2>2, SettleOK
<1>7. CASE answer # "ok"
  <2>1. P!Fail(r, o, answer)
    BY Zenon, <1>1, <1>7 DEF P!wireAnswers
  <2>2. answer \notin {"ok", "refused"}
    BY Zenon, <1>7 DEF P!Answers
  <2> QED BY Zenon, <1>2, <1>3, <1>4, <1>5, <2>1, <2>2, FailOK
<1> QED BY Zenon, <1>6, <1>7

\* A check ends for everyone who waits for it.
LEMMA ChainKeeps ==
    ASSUME PInv, NEW e, NEW answer \in Checks, P!chainAnswers(e, answer)
    PROVE  PInv'
<1>1. /\ e \in checking /\ (answer = "right" => e \notin foreign)
      /\ checking' = checking \ {e} /\ active' = active - 1
      /\ UNCHANGED <<checked, preferred, used, aborted, session, foreign, posted, bundle>>
  BY Zenon DEF P!chainAnswers
<1>2. request' = [q \in Callers |->
         IF request[q].pc = "checking" /\ P!endpointOf(request[q]) = e
         THEN [request[q] EXCEPT !.pc = "checked", !.result = answer] ELSE request[q]]
  BY Zenon DEF P!chainAnswers
<1>3. ASSUME NEW q \in Callers
      PROVE  /\ RecordOK(request'[q], checking', bundle, foreign)
             /\ request'[q].kind = request[q].kind
             /\ request'[q].lead = request[q].lead
             /\ \/ request'[q].pc = request[q].pc
                \/ request[q].pc = "checking" /\ request'[q].pc = "checked"
  <2>1. PICK o : o = request[q]
    BY Zenon
  <2>2. RecordOK(o, checking, bundle, foreign) /\ DOMAIN o = Fields
    BY Zenon, <2>1, RecordOf
  <2>3. CASE o.pc = "checking" /\ P!endpointOf(o) = e
    <3>1. PICK n : n = [o EXCEPT !.pc = "checked", !.result = answer]
      BY Zenon
    <3>2. request'[q] = n
      BY Zenon, <1>2, <2>1, <2>3, <3>1
    <3>3. /\ DOMAIN n = Fields /\ n.pc = "checked" /\ n.kind = o.kind /\ n.result = answer /\ n.lead = o.lead
          /\ n.start = o.start /\ n.attempt = o.attempt
      BY Zenon, <2>2, <3>1 DEF Fields
    <3>4. P!endpointOf(n) = e
      BY Zenon, <2>3, <3>3, SameEndpoint
    <3>5. answer # "ok"
      BY Zenon DEF Checks
    <3>6. RecordOK(n, checking', bundle, foreign)
      BY Zenon, <1>1, <3>3, <3>4, <3>5 DEF RecordOK, Pcs, Going
    <3> QED BY Zenon, <2>1, <2>3, <3>2, <3>3, <3>6
  <2>4. CASE ~(o.pc = "checking" /\ P!endpointOf(o) = e)
    <3>1. request'[q] = o
      BY Zenon, <1>2, <2>1, <2>4
    <3>2. RecordOK(o, checking', bundle, foreign)
      BY Zenon, <1>1, <2>2, <2>4 DEF RecordOK
    <3> QED BY Zenon, <2>1, <3>1, <3>2
  <2> QED BY Zenon, <2>3, <2>4
<1>4. request' = [q \in Callers |-> request'[q]]
  BY Zenon, <1>2
<1>5. ASSUME NEW q \in Callers PROVE SendOK(q, request'[q], session.sent)
  <2>1. SendOK(q, request[q], session.sent)
    BY Zenon DEF PInv, RequestsOK
  <2> QED BY Zenon, <1>3, <2>1 DEF SendOK, Going
<1>6. ASSUME NEW q \in Callers PROVE JoinedOK(request'[q], request')
  <2>1. JoinedOK(request[q], request)
    BY Zenon DEF PInv, RequestsOK
  <2>2. PICK l : l = request[q].lead
    BY Zenon
  <2>3. ASSUME request'[q].pc = "joined" PROVE request[q].pc = "joined"
    BY Zenon, <1>3, <2>3
  <2>4. ASSUME request[q].pc = "joined"
        PROVE  l \in Callers /\ request'[l].pc \in Going /\ request'[l].kind = request[q].kind
    <3>1. l \in Callers /\ request[l].pc \in Going /\ request[l].kind = request[q].kind
      BY Zenon, <2>1, <2>2, <2>4 DEF JoinedOK
    <3> QED BY Zenon, <1>3, <3>1 DEF Going
  <2> QED BY Zenon, <1>3, <2>2, <2>3, <2>4 DEF JoinedOK
<1>7. RequestsOK'
  BY Zenon, <1>1, <1>3, <1>4, <1>5, <1>6 DEF RequestsOK
<1>8. SessionOK'
  <2>1. ASSUME session.sent # "nobody"
        PROVE  /\ session.sent \in Callers /\ request'[session.sent].kind = "send"
               /\ request'[session.sent].pc \in {"checking", "checked", "wire", "done"}
               /\ request[session.sent].pc \in {"wire", "done"} =>
                     request'[session.sent].pc \in {"wire", "done"}
    <3>1. PICK q \in Callers : q = session.sent
      BY Zenon, <2>1 DEF PInv, SessionOK
    <3>2. request[q].kind = "send" /\ request[q].pc \in {"checking", "checked", "wire", "done"}
      BY Zenon, <2>1, <3>1 DEF PInv, SessionOK
    <3>3. /\ request'[q].kind = "send" /\ request'[q].pc \in {"checking", "checked", "wire", "done"}
          /\ request[q].pc \in {"wire", "done"} => request'[q].pc \in {"wire", "done"}
      BY Zenon, <1>3, <3>2
    <3> QED BY Zenon, <3>1, <3>3
  <2> QED BY Zenon, <1>1, <2>1 DEF PInv, SessionOK
<1>9. OnWire' = OnWire
  <2>1. \A q \in Callers : request'[q].pc = "wire" <=> request[q].pc = "wire"
    BY Zenon, <1>3
  <2> QED BY Zenon, <2>1 DEF OnWire
<1>10. CountersOK'
  <2>1. /\ IsFiniteSet(checking') /\ Cardinality(checking') = Cardinality(checking) - 1
        /\ Cardinality(checking') \in Nat /\ Cardinality(checking) \in Nat /\ Cardinality(OnWire) \in Nat
    BY Zenon, <1>1, WireFinite, FS_RemoveElement, FS_CardinalityType DEF PInv, CountersOK
  <2>2. active = Cardinality(checking) + Cardinality(OnWire) /\ active <= MaxConcurrency /\ active \in Nat
    BY Zenon DEF PInv, CountersOK
  <2>3. MaxConcurrency \in Nat
    BY Zenon, PoolAssumption
  <2>4. active' = Cardinality(checking') + Cardinality(OnWire') /\ active' \in Nat /\ active' <= MaxConcurrency
    BY <1>1, <1>9, <2>1, <2>2, <2>3
  <2> QED BY Zenon, <1>1, <2>1, <2>4 DEF PInv, CountersOK
<1> QED BY Zenon, <1>1, <1>7, <1>8, <1>10 DEF PInv

\* The bundler decides while nobody was told what it decided.
LEMMA DecideKeeps ==
    ASSUME PInv, P!bundlerDecides
    PROVE  PInv'
<1>1. /\ bundle = "none"
      /\ UNCHANGED <<request, checked, checking, used, active, session, foreign, posted>>
  BY Zenon DEF P!bundlerDecides
<1>2. ASSUME NEW q \in Callers PROVE RecordOK(request[q], checking, bundle', foreign)
  <2>1. RecordOK(request[q], checking, bundle, foreign)
    BY Zenon DEF PInv, RequestsOK
  <2> QED BY Zenon, <1>1, <2>1 DEF RecordOK
<1>3. RequestsOK'
  BY Zenon, <1>1, <1>2 DEF PInv, RequestsOK
<1>4. SessionOK'
  BY Zenon, <1>1 DEF PInv, SessionOK
<1>5. CountersOK'
  BY Zenon, <1>1 DEF PInv, CountersOK, OnWire
<1> QED BY Zenon, <1>1, <1>3, <1>4, <1>5 DEF PInv

LEMMA CloseKeeps ==
    ASSUME PInv, P!closeSession
    PROVE  PInv'
<1>1. /\ session' = [session EXCEPT !.closed = TRUE]
      /\ UNCHANGED <<request, checked, checking, used, active, foreign, posted, bundle>>
  BY Zenon DEF P!closeSession
<1>2. DOMAIN session' = {"closed", "sent"} /\ session'.sent = session.sent
  <2>1. DOMAIN session = {"closed", "sent"}
    BY Zenon DEF PInv, SessionOK
  <2> QED BY Zenon, <1>1, <2>1
<1>3. RequestsOK'
  BY Zenon, <1>1, <1>2 DEF PInv, RequestsOK
<1>4. SessionOK'
  BY Zenon, <1>1, <1>2 DEF PInv, SessionOK
<1>5. CountersOK'
  BY Zenon, <1>1 DEF PInv, CountersOK, OnWire
<1> QED BY Zenon, <1>1, <1>3, <1>4, <1>5 DEF PInv

\* Neither the caller's signal nor a step of the observation or of a revocation
\* touches what the invariant speaks of.
LEMMA RestKeeps ==
    ASSUME PInv,
           UNCHANGED <<request, checked, checking, used, active, session, foreign, posted, bundle>>
    PROVE  PInv'
<1>1. RequestsOK'
  BY Zenon DEF PInv, RequestsOK
<1>2. SessionOK'
  BY Zenon DEF PInv, SessionOK
<1>3. CountersOK'
  BY Zenon DEF PInv, CountersOK, OnWire
<1> QED BY Zenon, <1>1, <1>2, <1>3 DEF PInv

-----------------------------------------------------------------------------
(* The invariant, and what follows from it. *)

LEMMA PoolStarts ==
    ASSUME P!Init
    PROVE  PInv
<1>1. PICK i : i = P!Idle
  BY Zenon
<1>2. /\ DOMAIN i = Fields /\ i.pc = "idle" /\ i.kind = "none" /\ i.result = "none"
  BY Zenon, <1>1 DEF P!Idle, Fields
<1>3. request = [r \in Callers |-> i]
  BY Zenon, <1>1 DEF P!Init
<1>4. \A r \in Callers : request[r] = i
  BY Zenon, <1>3
<1>5. RecordOK(i, checking, bundle, foreign) /\ i.pc \notin Going \cup {"joined", "wire"}
  BY Zenon, <1>2 DEF RecordOK, Pcs, Going
<1>6. RequestsOK
  BY Zenon, <1>3, <1>4, <1>5 DEF RequestsOK, SendOK, JoinedOK
<1>7. SessionOK
  BY DEF P!Init, SessionOK, P!Nobody
<1>8. OnWire = {} /\ checking = {} /\ checked = {} /\ used = 0 /\ active = 0
  BY Zenon, <1>4, <1>2, <1>5 DEF OnWire, P!Init
<1>9. IsFiniteSet(checking) /\ Cardinality(checking) = 0 /\ Cardinality(OnWire) = 0
  BY Zenon, <1>8, FS_EmptySet
<1>10. CountersOK
  BY <1>8, <1>9, PoolAssumption DEF CountersOK
<1> QED BY Zenon, <1>6, <1>7, <1>8, <1>10 DEF PInv

LEMMA PoolNext ==
    ASSUME PInv, [AccessNext]_accessVars
    PROVE  PInv'
<1>1. CASE P!Next
  <2>1. ASSUME NEW r \in Callers, NEW kind \in P!Kinds, P!ask(r, kind) PROVE PInv'
    BY Zenon, <2>1, AskKeeps
  <2>2. ASSUME NEW r \in Callers, P!again(r) PROVE PInv'
    BY Zenon, <2>2, AgainKeeps
  <2>3. ASSUME NEW r \in Callers, P!checkedGoesOn(r) PROVE PInv'
    BY Zenon, <2>3, CheckedKeeps
  <2>4. ASSUME NEW r \in Callers, NEW answer \in P!Answers, P!wireAnswers(r, answer) PROVE PInv'
    BY Zenon, <2>4, WireKeeps
  <2>5. ASSUME NEW e, NEW answer \in Checks, P!chainAnswers(e, answer) PROVE PInv'
    BY Zenon, <2>5, ChainKeeps
  <2>6. CASE P!bundlerDecides
    BY Zenon, <2>6, DecideKeeps
  <2>7. CASE P!closeSession
    BY Zenon, <2>7, CloseKeeps
  <2>8. CASE P!abort
    BY Zenon, <2>8, RestKeeps DEF P!abort
  <2> QED BY Zenon, <1>1, <2>1, <2>2, <2>3, <2>4, <2>5, <2>6, <2>7, <2>8 DEF P!Next, Checks
<1>2. CASE UNCHANGED poolVars
  BY Zenon, <1>2, RestKeeps DEF poolVars
<1> QED BY Zenon, <1>1, <1>2 DEF AccessNext, accessVars

\* The pool's invariant holds in every reachable state: every request, the
\* submission session and the owner's counters agree with one another
\* (rpcOwner, rpcPool, submission.open).
THEOREM PoolInvariant == AccessSpec => []PInv
<1>1. AccessInit => PInv
  BY Zenon, PoolStarts DEF AccessInit
<1>2. PInv /\ [AccessNext]_accessVars => PInv'
  BY Zenon, PoolNext
<1> QED BY <1>1, <1>2, PTL DEF AccessSpec

\* The operation is put on the wire at most once; a caller that is told it was
\* accepted or refused is told the truth; no answer comes from an endpoint of
\* another chain; the owner's counters are the requests in flight, within their
\* limits; and nobody waits for a request that has ended (rpcOwner, rpcPool,
\* submission.open).
THEOREM PoolSound == AccessSpec => []PoolIsSound
<1>1. ASSUME PInv PROVE PoolIsSound
  <2>1. P!SendIsSingle
    <3>1. posted <= 1
      BY <1>1 DEF PInv, SessionOK
    <3> QED BY Zenon, <1>1, <3>1 DEF PInv, RequestsOK, RecordOK, P!SendIsSingle
  <2>2. P!AnswerIsOfChain
    BY Zenon, <1>1 DEF PInv, RequestsOK, RecordOK, P!AnswerIsOfChain
  <2>3. ASSUME NEW r \in Callers
        PROVE  /\ request[r].pc = "joined" => request[request[r].lead].pc \notin {"idle", "joined", "done"}
               /\ request[r].pc = "checking" => P!endpointOf(request[r]) \in checking
    <3>1. RecordOK(request[r], checking, bundle, foreign) /\ JoinedOK(request[r], request)
      BY Zenon, <1>1 DEF PInv, RequestsOK
    <3>2. \A x \in Going : x \notin {"idle", "joined", "done"}
      BY Zenon DEF Going
    <3> QED BY Zenon, <3>1, <3>2 DEF RecordOK, JoinedOK
  <2>4. P!SlotsBalance
    <3>1. /\ active = Cardinality(checking) + Cardinality({r \in Callers : request[r].pc = "wire"})
          /\ active <= MaxConcurrency /\ used <= MaxWire
      BY Zenon, <1>1 DEF PInv, CountersOK, OnWire
    <3>2. ASSUME NEW S PROVE P!Cardinality(S) = Cardinality(S)
      BY Zenon DEF P!Cardinality, P!IsFiniteSet, Cardinality, IsFiniteSet
    <3> QED BY Zenon, <2>3, <3>1, <3>2 DEF P!SlotsBalance
  <2> QED BY Zenon, <2>1, <2>2, <2>4 DEF PoolIsSound
<1> QED BY <1>1, PoolInvariant, PTL
=============================================================================
