------------------------------- MODULE RpcPool -------------------------------
(***************************************************************************)
(* The JSON-RPC requests behind the chain ports (sdk/src/cetane/rpc.ts,    *)
(* chain-ports.ts): one owner with a request budget and a concurrency      *)
(* limit, a pool of public endpoints and one bundler endpoint, each checked*)
(* to be of the configured chain before it is used, retries that rotate    *)
(* over the endpoints, reads that share a pending request, and one         *)
(* submission session whose send leaves at most once.                      *)
(***************************************************************************)
EXTENDS Naturals, FiniteSets, Sequences

CONSTANTS Requests,        \* callers
          Public,          \* the public endpoints, in order
          Bundler,         \* the bundler endpoint
          Attempts,        \* retry.attempts
          MaxWire,         \* maxRequests
          MaxConcurrency   \* maxConcurrency

VARIABLES
    request,    \* per caller, its request
    checked,    \* endpoints verified to be of the chain
    checking,   \* pendingChainChecks: endpoints with a check in flight
    preferred,  \* index of the public endpoint that answered last
    used, active,   \* the owner's counters
    aborted,    \* the caller's signal
    session,    \* of the submission: closed, and the send that left
    foreign,    \* endpoints that serve another chain
    posted,     \* history: eth_sendUserOperation requests on the wire
    bundle      \* what the bundler made of the operation

vars == <<request, checked, checking, preferred, used, active, aborted, session, foreign, posted,
          bundle>>

Kinds == {"chain_id", "read", "receipt", "send"}
Nobody == "nobody"

Idle == [pc |-> "idle", kind |-> "none", attempt |-> 0, start |-> 0, lead |-> Nobody,
         result |-> "none", by |-> Nobody]

\* publicRpc serves the chain, bundlerRpc operations.
EndpointsOf(kind) == IF kind \in {"receipt", "send"} THEN <<Bundler>> ELSE Public

indexOf(s) == (s.start + s.attempt) % Len(EndpointsOf(s.kind))
endpointOf(s) == EndpointsOf(s.kind)[indexOf(s) + 1]

\* once: why the owner lets no request out, if it does not.
Refusal ==
    CASE aborted -> "aborted"
      [] ~aborted /\ used >= MaxWire -> "budget_exhausted"
      [] ~aborted /\ used < MaxWire /\ active >= MaxConcurrency -> "concurrency_exceeded"
      [] OTHER -> "none"

\* A bug in which the send is retried like any request.
RetriesMutant(s) == s.attempt + 1 < Attempts

\* Estimates, sponsorship and the send pass retry = false.
Retries(s) == s.kind # "send" /\ s.attempt + 1 < Attempts

Transient == {"unavailable", "busy", "wrong_chain"}

Leads(r, q) == request[q].pc = "joined" /\ request[q].lead = r

\* The caller and everyone who shares its request get its result.
Settle(r, s, result) ==
    request' = [q \in Requests |->
        CASE q = r -> [s EXCEPT !.pc = "done", !.result = result, !.by = endpointOf(s)]
          [] q # r /\ Leads(r, q) ->
                [request[q] EXCEPT !.pc = "done", !.result = result, !.by = endpointOf(s)]
          [] OTHER -> request[q]]

\* submissionRejections: only a JSON-RPC error the bundler answered the send
\* with says that the operation was refused.
Outcome(s, error) == IF s.kind = "send" /\ error \in {"rejected", "busy"} THEN "refused" ELSE error

\* The catch of one attempt.
Fail(r, s, error) ==
    IF error \in Transient /\ Retries(s)
    THEN /\ request' = [request EXCEPT ![r] = [s EXCEPT !.pc = "delay"]]
         /\ checked' = checked \ {endpointOf(s)}
    ELSE Settle(r, s, Outcome(s, error)) /\ UNCHANGED checked

\* One request on the wire to a verified endpoint.
Post(r, s) ==
    /\ IF Refusal # "none"
       THEN Settle(r, s, Refusal) /\ UNCHANGED <<used, active, posted>>
       ELSE /\ request' = [request EXCEPT ![r] = [s EXCEPT !.pc = "wire"]]
            /\ used' = used + 1 /\ active' = active + 1
            /\ posted' = posted + (IF s.kind = "send" THEN 1 ELSE 0)
    /\ checked' = checked \cup {endpointOf(s)}

\* The chain check of an endpoint is shared by everyone who waits for it.
readChain(r, s) ==
    LET e == endpointOf(s) IN
    IF e \in checking
    THEN /\ request' = [request EXCEPT ![r] = [s EXCEPT !.pc = "checking"]]
         /\ UNCHANGED <<checked, checking, used, active>>
    ELSE IF Refusal # "none"
    THEN Fail(r, s, Refusal) /\ UNCHANGED <<checking, used, active>>
    ELSE /\ request' = [request EXCEPT ![r] = [s EXCEPT !.pc = "checking"]]
         /\ checking' = checking \cup {e}
         /\ used' = used + 1 /\ active' = active + 1
         /\ UNCHANGED checked

Attempt(r, s) ==
    IF s.kind = "chain_id" \/ endpointOf(s) \notin checked
    THEN readChain(r, s) /\ UNCHANGED posted
    ELSE Post(r, s) /\ UNCHANGED checking

-----------------------------------------------------------------------------
\* Whom a new request shares its answer with: a pending read of the same key,
\* or the one send of the session (sent ??= ...).
Shared(kind) ==
    IF kind = "send" THEN {q \in Requests : q = session.sent}
    ELSE {q \in Requests : request[q].kind = kind /\ request[q].lead = q
                           /\ request[q].pc \notin {"idle", "done"}}

ask(r, kind) ==
    LET s == [Idle EXCEPT !.kind = kind, !.lead = r,
                          !.start = IF Len(EndpointsOf(kind)) = 1 THEN 0 ELSE preferred]
        shared == Shared(kind)
    IN  /\ request[r].pc = "idle"
        /\ IF kind = "send" /\ session.closed
           THEN /\ request' = [request EXCEPT ![r] = [s EXCEPT !.pc = "done", !.result = "closed"]]
                /\ UNCHANGED <<checked, checking, used, active, posted, session>>
           ELSE IF kind # "send" /\ aborted
           THEN Settle(r, s, "aborted") /\ UNCHANGED <<checked, checking, used, active, posted, session>>
           ELSE IF shared # {}
           THEN LET q == CHOOSE q \in shared : TRUE IN
                /\ request' = [request EXCEPT ![r] =
                     IF request[q].pc = "done"
                     THEN [request[q] EXCEPT !.lead = q]
                     ELSE [s EXCEPT !.pc = "joined", !.lead = q]]
                /\ UNCHANGED <<checked, checking, used, active, posted, session>>
           ELSE /\ session' = IF kind = "send" THEN [session EXCEPT !.sent = r] ELSE session
                /\ Attempt(r, s)
        /\ UNCHANGED <<preferred, aborted, foreign, bundle>>

\* retryDelay, then the next endpoint.
again(r) ==
    LET s == [request[r] EXCEPT !.attempt = @ + 1]
    IN  /\ request[r].pc = "delay"
        /\ IF aborted
           THEN Settle(r, request[r], "aborted") /\ UNCHANGED <<checked, checking, used, active, posted>>
           ELSE Attempt(r, s)
        /\ UNCHANGED <<preferred, aborted, session, foreign, bundle>>

\* A chain check ends: with the endpoint's chain, or with nothing in time.
chainAnswers(e, answer) ==
    /\ e \in checking
    /\ answer = "right" => e \notin foreign
    /\ answer = "wrong_chain" => e \in foreign
    /\ answer = "aborted" => aborted
    /\ checking' = checking \ {e}
    /\ active' = active - 1
    /\ request' = [q \in Requests |->
         IF request[q].pc = "checking" /\ endpointOf(request[q]) = e
         THEN [request[q] EXCEPT !.pc = "checked", !.result = answer] ELSE request[q]]
    /\ UNCHANGED <<checked, preferred, used, aborted, session, foreign, posted, bundle>>

\* Each waiter goes on by itself.
checkedGoesOn(r) ==
    LET s == [request[r] EXCEPT !.result = "none"]
        e == endpointOf(s)
    IN  /\ request[r].pc = "checked"
        /\ IF request[r].result # "right"
           THEN Fail(r, s, request[r].result) /\ UNCHANGED <<preferred, used, active, posted>>
           ELSE IF s.kind = "chain_id"
           THEN /\ Settle(r, s, "ok")
                /\ checked' = checked \cup {e} /\ preferred' = indexOf(s)
                /\ UNCHANGED <<used, active, posted>>
           ELSE Post(r, s) /\ UNCHANGED preferred
        /\ UNCHANGED <<checking, aborted, session, foreign, bundle>>

Answers == {"ok", "rejected", "busy", "http_rejected", "unavailable", "aborted"}

\* The answer to one request: a result, a JSON-RPC error (busy: -32005, -32016
\* or 429), a refusal of the HTTP server, or nothing in time.
wireAnswers(r, answer) ==
    LET s == request[r]
    IN  /\ s.pc = "wire"
        /\ answer = "aborted" => aborted
        /\ s.kind = "send" /\ answer = "ok" => bundle = "accepted"
        /\ s.kind = "send" /\ answer \in {"rejected", "busy"} => bundle = "refused"
        /\ active' = active - 1
        /\ IF answer = "ok"
           THEN /\ Settle(r, s, "ok") /\ UNCHANGED checked
                /\ preferred' = IF Len(EndpointsOf(s.kind)) = 1 THEN preferred ELSE indexOf(s)
           ELSE Fail(r, s, answer) /\ UNCHANGED preferred
        /\ UNCHANGED <<checking, used, aborted, session, foreign, posted, bundle>>

\* The bundler decides on what it was sent, also after the caller gave up.
bundlerDecides ==
    /\ posted > 0 /\ bundle = "none"
    /\ bundle' \in {"accepted", "refused"}
    /\ UNCHANGED <<request, checked, checking, preferred, used, active, aborted, session, foreign, posted>>

closeSession ==
    /\ ~session.closed
    /\ session' = [session EXCEPT !.closed = TRUE]
    /\ UNCHANGED <<request, checked, checking, preferred, used, active, aborted, foreign, posted, bundle>>

abort ==
    /\ ~aborted
    /\ aborted' = TRUE
    /\ UNCHANGED <<request, checked, checking, preferred, used, active, session, foreign, posted, bundle>>

Endpoints == {Public[i] : i \in 1..Len(Public)} \cup {Bundler}

Init ==
    /\ request = [r \in Requests |-> Idle]
    /\ checked = {} /\ checking = {} /\ preferred = 0
    /\ used = 0 /\ active = 0 /\ aborted = FALSE
    /\ session = [closed |-> FALSE, sent |-> Nobody]
    /\ foreign \in SUBSET Endpoints
    /\ posted = 0 /\ bundle = "none"

Next ==
    \/ \E r \in Requests :
         \/ \E kind \in Kinds : ask(r, kind)
         \/ again(r)
         \/ checkedGoesOn(r)
         \/ \E answer \in Answers : wireAnswers(r, answer)
    \/ \E e \in Endpoints, answer \in {"right", "wrong_chain", "unavailable", "check_rejected", "aborted"} :
         chainAnswers(e, answer)
    \/ bundlerDecides \/ closeSession \/ abort

Spec == Init /\ [][Next]_vars

-----------------------------------------------------------------------------
\* The operation is put on the wire at most once, whatever fails, is retried
\* or is asked again; a caller that is told it was accepted or refused is told
\* the truth, and in every other case the outcome is left open.
SendIsSingle ==
    /\ posted <= 1
    /\ \A r \in Requests : request[r].kind = "send" /\ request[r].pc = "done" =>
         /\ request[r].result = "ok" => bundle = "accepted"
         /\ request[r].result = "refused" => bundle = "refused"

\* No answer is taken from an endpoint of another chain, also not by a caller
\* that shared the request or found the endpoint verified by another.
AnswerIsOfChain ==
    \A r \in Requests : request[r].result = "ok" => request[r].by \notin foreign

\* The owner's counters are the requests in flight, within their limits, and
\* nobody waits for a request that has ended.
SlotsBalance ==
    /\ active = Cardinality(checking) + Cardinality({r \in Requests : request[r].pc = "wire"})
    /\ active <= MaxConcurrency /\ used <= MaxWire
    /\ \A r \in Requests :
         /\ request[r].pc = "joined" => request[request[r].lead].pc \notin {"idle", "joined", "done"}
         /\ request[r].pc = "checking" => endpointOf(request[r]) \in checking
=============================================================================
