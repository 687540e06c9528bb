------------------------------ MODULE OAuthClient ------------------------------
(***************************************************************************)
(* The OAuth realm of the SDK (client/oauth-realm.ts) with the session     *)
(* record it keeps (client/service-session.ts), the connection it adopts   *)
(* Grants through (client/connection.ts), the authorization exchange       *)
(* (client/oauth-login.ts) and disconnect (create-oaath.ts and             *)
(* cleanup/coordinator.ts).                                                *)
(*                                                                         *)
(* The pages of one origin share durable stores: the wrapping key and the  *)
(* record it opens, the binding pointer, the journal of the pending        *)
(* request, one client context and one cleanup checkpoint per binding, and *)
(* the Grants.  A page makes one call at a time, every await of it is a    *)
(* step, and it may be reloaded between any two.  One account is chosen in *)
(* the portal, so a binding is named by its session.  The issuer is        *)
(* external: it releases a code once, and forgets nothing.                 *)
(***************************************************************************)
EXTENDS Naturals, Sequences

CONSTANTS
    Pages,          \* the tabs of one origin
    Requesters,     \* the tabs that ask for permissions
    Managers,       \* the tabs that resume, revoke and disconnect
    MaxSessions,    \* bound on the sessions ever created
    MaxRequests,    \* bound on the requests ever pushed
    Failing         \* the tabs whose calls of a store may fail

ASSUME ClientAssumption ==
    Requesters \cup Managers \cup Failing \subseteq Pages /\ MaxSessions \in Nat /\ MaxRequests \in Nat

None == 0
Sessions == 1 .. MaxSessions
Requests == 1 .. MaxRequests

\* The effects of a disconnect, in the order they are attempted.
Effects == <<"revoke", "signOut", "forgetLocal", "close">>
EffectNames == {"revoke", "signOut", "forgetLocal", "close"}

VARIABLES
    key,        \* the session whose wrapping key the key store holds
    record,     \* the session whose wrapped key the context store holds
    created,    \* how many sessions have been created
    pointer,    \* the request of the stored binding pointer
    pending,    \* the request of the pending journal
    context,    \* per binding, the request of its client context
    grants,     \* per request, the state of its Grant record
    checkpoint, \* per binding, the effects its cleanup checkpoint names
    issuer,     \* per request, its state at the issuer
    signer,     \* per request, the session it names
    invalid,    \* the requests the issuer has invalidated
    page        \* per page, its call in progress and its memory

stored == <<key, record, created, pointer, pending, context, grants, checkpoint>>
remote == <<issuer, signer, invalid>>
vars == <<key, record, created, pointer, pending, context, grants, checkpoint,
          issuer, signer, invalid, page>>

NoHandle == [grant |-> None, inner |-> None, key |-> None]

Steps == {"idle", "load", "fresh", "write", "authorize", "journal", "token", "verify", "clear",
          "bind", "pointer", "persist", "save", "context", "ask", "invalidate", "effect", "mark"}

\* A page as createOAuthRealm builds it.
Opened ==
    [at |-> "idle", goal |-> "none", redeeming |-> FALSE, req |-> None, sess |-> None,
     conns |-> [s \in Sessions |-> "none"], bound |-> None, handle |-> NoHandle,
     asked |-> {}, done |-> {}, failed |-> {}, skipped |-> FALSE, closed |-> FALSE]

\* A page whose realm is closed: only a reload uses it again.
Closed == [Opened EXCEPT !.closed = TRUE]

Init ==
    /\ key = None /\ record = None /\ created = 0
    /\ pointer = None /\ pending = None
    /\ context = [s \in Sessions |-> None]
    /\ grants = [r \in Requests |-> "absent"]
    /\ checkpoint = [s \in Sessions |-> {}]
    /\ issuer = [r \in Requests |-> "none"]
    /\ signer = [r \in Requests |-> None]
    /\ invalid = {}
    /\ page = [p \in Pages |-> Opened]

\* The memory me with these fields changed.
With(changes, me) == [f \in DOMAIN me |-> IF f \in DOMAIN changes THEN changes[f] ELSE me[f]]

\* The page changes these fields of its memory.
Turn(p, changes) ==
    page' = [page EXCEPT ![p] = With(changes, @)]

Ready(p) == page[p].at = "idle" /\ ~page[p].closed

\* Memory of a call that is over.
Over == [at |-> "idle", goal |-> "none", redeeming |-> FALSE, req |-> None, sess |-> None,
         asked |-> {}, done |-> {}, failed |-> {}, skipped |-> FALSE]

\* An adoption that ends, well or badly: the journal of a redeemed code is
\* cleared all the same.
Adopted(p) == [Over EXCEPT !.at = IF page[p].redeeming THEN "clear" ELSE @]

-----------------------------------------------------------------------------
(* session(): the durable session, or a fresh one saved before it is used. *)

\* Where the caller of session() goes on.
Continue(goal) ==
    CASE goal = "request" -> "authorize" [] goal = "sign" -> "invalidate" [] OTHER -> "bind"

\* loadServiceSession reads the record and then the key that opens it: a record
\* with another key, or with none, reads as no session.
loadServiceSession(p) ==
    /\ page[p].at = "load"
    /\ Turn(p, IF record # None /\ key = record
               THEN [at |-> Continue(page[p].goal), sess |-> record] ELSE [at |-> "fresh"])
    /\ UNCHANGED <<stored, remote>>

\* saveServiceSession stores the wrapping key ...
StoreKey(p) ==
    /\ page[p].at = "fresh" /\ created < MaxSessions
    /\ created' = created + 1 /\ key' = created + 1
    /\ Turn(p, [at |-> "write", sess |-> created + 1])
    /\ UNCHANGED <<record, pointer, pending, context, grants, checkpoint, remote>>

\* ... and then the record it opens.
WriteRecord(p) ==
    /\ page[p].at = "write"
    /\ record' = page[p].sess
    /\ Turn(p, [at |-> Continue(page[p].goal)])
    /\ UNCHANGED <<key, created, pointer, pending, context, grants, checkpoint, remote>>

-----------------------------------------------------------------------------
(* Requesting and redeeming a permission. *)

\* A request in the journal must be redeemed first.
requestPermission(p) ==
    /\ p \in Requesters /\ Ready(p) /\ pending = None
    /\ Turn(p, [at |-> "load", goal |-> "request"])
    /\ UNCHANGED <<stored, remote>>

\* The request is pushed, reviewed in the portal and its code redeemed once:
\* refused, waiting for the root, or released.  The page may miss the answer.
authorize(p) ==
    /\ page[p].at = "authorize"
    /\ \E r \in Requests, outcome \in {"denied", "waiting", "spent"} :
          /\ issuer[r] = "none" /\ \A q \in Requests : q < r => issuer[q] # "none"
          /\ issuer' = [issuer EXCEPT ![r] = outcome]
          /\ signer' = [signer EXCEPT ![r] = page[p].sess]
          /\ \/ Turn(p, Over)
             \/ outcome = "waiting" /\ Turn(p, [at |-> "journal", goal |-> "none", req |-> r, sess |-> None])
             \/ outcome = "spent" /\ Turn(p, [at |-> "verify", goal |-> "adopt", req |-> r, sess |-> None])
    /\ UNCHANGED <<stored, invalid>>

writePending(p) ==
    /\ page[p].at = "journal"
    /\ pending' = page[p].req
    /\ Turn(p, Over)
    /\ UNCHANGED <<key, record, created, pointer, context, grants, checkpoint, remote>>

redeemPending(p) ==
    /\ p \in Requesters /\ Ready(p) /\ pending # None
    /\ Turn(p, IF issuer[pending] = "expired" THEN [at |-> "clear"]
               ELSE [at |-> "token", req |-> pending])
    /\ UNCHANGED <<stored, remote>>

\* A bug in which any failure of the token request clears the journal.
redeemMutant(p) ==
    /\ page[p].at = "token"
    /\ \/ Turn(p, [at |-> "clear"]) /\ UNCHANGED issuer
       \/ /\ issuer[page[p].req] = "approved"
          /\ issuer' = [issuer EXCEPT ![page[p].req] = "spent"]
          /\ Turn(p, [at |-> "verify", goal |-> "adopt", redeeming |-> TRUE])
    /\ UNCHANGED <<stored, signer, invalid>>

\* One token request.  No answer, and an answer of "pending", leave the journal;
\* a rejected, expired or spent code clears it; a released Grant is adopted,
\* unless its answer is lost on the way.
redeem(p) ==
    LET r == page[p].req
    IN  /\ page[p].at = "token"
        /\ \/ Turn(p, Over) /\ UNCHANGED issuer
           \/ /\ issuer[r] \in {"denied", "spent", "expired"}
              /\ Turn(p, [at |-> "clear", req |-> None])
              /\ UNCHANGED issuer
           \/ /\ issuer[r] = "approved"
              /\ issuer' = [issuer EXCEPT ![r] = "spent"]
              /\ \/ Turn(p, [at |-> "verify", goal |-> "adopt", redeeming |-> TRUE])
                 \/ Turn(p, Over)
        /\ UNCHANGED <<stored, signer, invalid>>

clearPending(p) ==
    /\ page[p].at = "clear"
    /\ pending' = None
    /\ Turn(p, Over)
    /\ UNCHANGED <<key, record, created, pointer, context, grants, checkpoint, remote>>

\* The account root decides a member's request, or its time runs out.
RootDecides(r) ==
    /\ issuer[r] = "waiting"
    /\ \E decision \in {"approved", "denied"} : issuer' = [issuer EXCEPT ![r] = decision]
    /\ UNCHANGED <<stored, signer, invalid, page>>

RequestExpires(r) ==
    /\ issuer[r] \in {"waiting", "approved"}
    /\ issuer' = [issuer EXCEPT ![r] = "expired"]
    /\ UNCHANGED <<stored, signer, invalid, page>>

-----------------------------------------------------------------------------
(* Adopting a released Grant, and resuming the stored one. *)

\* The answer must be exactly the request this page made, for the account the
\* identity token names: the issuer is not trusted to answer so.
verifyGrant(p) ==
    /\ page[p].at = "verify"
    /\ \E same \in BOOLEAN : Turn(p, IF same THEN [at |-> "load"] ELSE Adopted(p))
    /\ UNCHANGED <<stored, remote>>

\* A bug in which the session is not compared with the request's.
bindMutant(p) ==
    LET me == page[p]
    IN  /\ me.at = "bind"
        /\ Turn(p, [at |-> IF me.goal = "adopt" THEN "pointer" ELSE "context", bound |-> me.sess,
                    conns |-> [me.conns EXCEPT ![me.sess] = IF @ = "none" THEN "open" ELSE @]])
        /\ UNCHANGED <<stored, remote>>

\* realmFor and connectionFor: the request must name the session that was just
\* loaded; the page is bound to it and keeps one connection per binding.
bind(p) ==
    LET me == page[p]
    IN  /\ me.at = "bind"
        /\ Turn(p, IF me.sess # signer[me.req] THEN Adopted(p)
                   ELSE [at |-> IF me.goal = "adopt" THEN "pointer" ELSE "context",
                         bound |-> me.sess,
                         conns |-> [me.conns EXCEPT ![me.sess] = IF @ = "none" THEN "open" ELSE @]])
        /\ UNCHANGED <<stored, remote>>

writePointer(p) ==
    /\ page[p].at = "pointer"
    /\ pointer' = page[p].req
    /\ Turn(p, [at |-> "persist"])
    /\ UNCHANGED <<key, record, created, pending, context, grants, checkpoint, remote>>

\* applyArtifact: a connection that is signed out or closed adopts nothing; the
\* Grant is created, never replaced.
persistGrant(p) ==
    LET me == page[p]
        usable == me.conns[me.sess] = "open" /\ grants[me.req] = "absent"
    IN  /\ me.at = "persist"
        /\ grants' = IF usable THEN [grants EXCEPT ![me.req] = "active"] ELSE grants
        /\ Turn(p, IF usable THEN [at |-> "save"] ELSE Adopted(p))
        /\ UNCHANGED <<key, record, created, pointer, pending, context, checkpoint, remote>>

Wrapped(g, i, s) == [grant |-> g, inner |-> i, key |-> s]

\* The handle is wrapped by withIssuerRevoke.
writeContext(p) ==
    LET me == page[p]
    IN  /\ me.at = "save"
        /\ context' = [context EXCEPT ![me.sess] = me.req]
        /\ page' = [page EXCEPT ![p] =
              With(Adopted(p), [me EXCEPT !.handle = Wrapped(me.req, me.req, me.sess)])]
        /\ UNCHANGED <<key, record, created, pointer, pending, grants, checkpoint, remote>>

resume(p) ==
    /\ p \in Managers /\ Ready(p) /\ pointer # None
    /\ Turn(p, [at |-> "load", goal |-> "resume", req |-> pointer])
    /\ UNCHANGED <<stored, remote>>

\* resumeWork: the Grant is the one the binding's context names, the handle is
\* wrapped with the pointer's request.
resumeWork(p) ==
    LET me == page[p]
        inner == context[me.sess]
    IN  /\ me.at = "context"
        /\ IF me.conns[me.sess] = "open" /\ inner # None
           THEN page' = [page EXCEPT ![p] =
                   With(Over, [me EXCEPT !.handle = Wrapped(me.req, inner, me.sess)])]
           ELSE Turn(p, Over)
        /\ UNCHANGED <<stored, remote>>

\* A store refuses a call of an adoption: what was written stays.
StoreFails(p) ==
    /\ p \in Failing /\ page[p].at \in {"pointer", "persist", "save"}
    /\ Turn(p, Adopted(p))
    /\ UNCHANGED <<stored, remote>>

-----------------------------------------------------------------------------
(* Revoking. *)

\* handle.revoke(): it starts, and it may or may not be final on every chain.
RevokeLocally(i) ==
    \E state \in {"revoking", "revoked"} :
        /\ grants[i] = "revoked" => state = "revoked"
        /\ grants' = [grants EXCEPT ![i] = state]

revoke(p) ==
    /\ p \in Managers /\ Ready(p) /\ page[p].handle # NoHandle
    /\ RevokeLocally(page[p].handle.inner)
    /\ Turn(p, [at |-> "ask"])
    /\ UNCHANGED <<key, record, created, pointer, pending, context, checkpoint, remote>>

\* The revoke has returned: to the application, or to the revoke effect, which
\* succeeds only when the Grant is revoked.
Answered(p) ==
    LET me == page[p]
    IN  IF me.asked = {} THEN Over
        ELSE IF grants[me.handle.inner] = "revoked" THEN [at |-> "mark", goal |-> "none", sess |-> None]
        ELSE [at |-> "effect", goal |-> "none", sess |-> None, failed |-> me.failed \cup {"revoke"}]

\* invalidateAtIssuer: only a Grant that is revoking here is reported.
askIssuer(p) ==
    /\ page[p].at = "ask"
    /\ Turn(p, IF grants[page[p].handle.grant] \in {"revoking", "revoked"}
               THEN [at |-> "load", goal |-> "sign"] ELSE Answered(p))
    /\ UNCHANGED <<stored, remote>>

\* The issuer accepts the proof of the session the request names; whatever it
\* answers, and if it does not, the revoke goes on.
invalidateAtIssuer(p) ==
    LET r == page[p].handle.grant
    IN  /\ page[p].at = "invalidate"
        /\ \/ page[p].sess = signer[r] /\ invalid' = invalid \cup {r}
           \/ UNCHANGED invalid
        /\ Turn(p, Answered(p))
        /\ UNCHANGED <<stored, issuer, signer>>

-----------------------------------------------------------------------------
(* disconnect: the effects in order, each recorded once it has succeeded. *)

\* An unreadable checkpoint means that nothing is proven complete.
readCompleted(p) == {checkpoint[page[p].bound]} \cup (IF p \in Failing THEN {{}} ELSE {})

disconnect(p, withGrant) ==
    LET me == page[p]
        needed == withGrant /\ grants[me.handle.inner] # "revoked"
    IN  /\ p \in Managers /\ Ready(p) /\ (withGrant => me.handle # NoHandle)
        /\ IF me.bound = None THEN Turn(p, Closed)
           ELSE \E read \in readCompleted(p) :
                   Turn(p, [at |-> "effect", done |-> read, skipped |-> needed /\ "revoke" \in read,
                            asked |-> IF needed THEN EffectNames ELSE EffectNames \ {"revoke"}])
        /\ UNCHANGED <<stored, remote>>

\* A bug in which local state is forgotten whatever became of the revocation.
BlockedMutant(me, e) == e = "close" /\ ~(me.asked \ {"close"} \subseteq me.done)

\* Destructive dependents wait for their prerequisites.
Blocked(me, e) ==
    \/ e = "forgetLocal" /\ "revoke" \in me.asked /\ "revoke" \notin me.done
    \/ e = "close" /\ ~(me.asked \ {"close"} \subseteq me.done)

\* The effects of this run that may still be attempted.
Due(me) == {e \in me.asked \ (me.done \cup me.failed) : ~Blocked(me, e)}

\* The effect whose turn it is.
Current(me) == Effects[CHOOSE n \in DOMAIN Effects : /\ Effects[n] \in Due(me)
                                                    /\ \A m \in 1 .. n - 1 : Effects[m] \notin Due(me)]

Attempts(p, e) == page[p].at = "effect" /\ e \in Due(page[p]) /\ Current(page[p]) = e

revokeEffect(p) ==
    /\ Attempts(p, "revoke")
    /\ RevokeLocally(page[p].handle.inner)
    /\ Turn(p, [at |-> "ask"])
    /\ UNCHANGED <<key, record, created, pointer, pending, context, checkpoint, remote>>

signOutEffect(p) ==
    /\ Attempts(p, "signOut")
    /\ Turn(p, [at |-> "mark",
                conns |-> [page[p].conns EXCEPT ![page[p].bound] = IF @ = "open" THEN "ended" ELSE @]])
    /\ UNCHANGED <<stored, remote>>

\* Both deletions are attempted; the effect succeeds when both do.
forgetLocalEffect(p) ==
    LET me == page[p]
    IN  /\ Attempts(p, "forgetLocal")
        /\ \E deleted, cleared \in (IF p \in Failing THEN BOOLEAN ELSE {TRUE}) :
              /\ key' = IF deleted THEN None ELSE key
              /\ context' = IF cleared THEN [context EXCEPT ![me.bound] = None] ELSE context
              /\ Turn(p, IF deleted /\ cleared THEN [at |-> "mark"]
                         ELSE [failed |-> me.failed \cup {"forgetLocal"}])
        /\ UNCHANGED <<record, created, pointer, pending, grants, checkpoint, remote>>

closeEffect(p) ==
    /\ Attempts(p, "close")
    /\ Turn(p, [at |-> "mark", handle |-> NoHandle,
                conns |-> [page[p].conns EXCEPT ![page[p].bound] = "ended"]])
    /\ UNCHANGED <<stored, remote>>

\* The checkpoint is written after the effect; when that fails the effect is
\* unproven and counts as unfinished.
writeCheckpoint(p) ==
    LET me == page[p]
    IN  /\ me.at = "mark"
        /\ \/ /\ checkpoint' = [checkpoint EXCEPT ![me.bound] = me.done \cup {Current(me)}]
              /\ Turn(p, [at |-> "effect", done |-> me.done \cup {Current(me)}])
           \/ /\ p \in Failing
              /\ Turn(p, [at |-> "effect", failed |-> me.failed \cup {Current(me)}])
              /\ UNCHANGED checkpoint
        /\ UNCHANGED <<key, record, created, pointer, pending, context, grants, remote>>

\* Nothing unfinished: the checkpoint is cleared (a failure of that is ignored)
\* and the realm closes.  Otherwise disconnect throws and the realm stays open.
finishCleanup(p) ==
    LET me == page[p]
        complete == me.asked \subseteq me.done
    IN  /\ me.at = "effect" /\ Due(me) = {}
        /\ \/ complete /\ checkpoint' = [checkpoint EXCEPT ![me.bound] = {}]
           \/ (complete => p \in Failing) /\ UNCHANGED checkpoint
        /\ Turn(p, IF complete THEN Closed ELSE Over)
        /\ UNCHANGED <<key, record, created, pointer, pending, context, grants, remote>>

\* The page goes away, or the application builds a new client.
Reload(p) ==
    /\ page[p] # Opened
    /\ page' = [page EXCEPT ![p] = Opened]
    /\ UNCHANGED <<stored, remote>>

Next ==
    \/ \E p \in Pages :
          \/ loadServiceSession(p) \/ StoreKey(p) \/ WriteRecord(p)
          \/ requestPermission(p) \/ authorize(p) \/ writePending(p)
          \/ redeemPending(p) \/ redeem(p) \/ clearPending(p)
          \/ verifyGrant(p) \/ bind(p) \/ writePointer(p) \/ persistGrant(p) \/ writeContext(p)
          \/ resume(p) \/ resumeWork(p) \/ StoreFails(p)
          \/ revoke(p) \/ askIssuer(p) \/ invalidateAtIssuer(p)
          \/ \E withGrant \in BOOLEAN : disconnect(p, withGrant)
          \/ revokeEffect(p) \/ signOutEffect(p) \/ forgetLocalEffect(p) \/ closeEffect(p)
          \/ writeCheckpoint(p) \/ finishCleanup(p) \/ Reload(p)
    \/ \E r \in Requests : RootDecides(r) \/ RequestExpires(r)

Spec == Init /\ [][Next]_vars
-----------------------------------------------------------------------------
(* Properties. *)

TypeOK ==
    /\ key \in Sessions \cup {None} /\ record \in Sessions \cup {None} /\ created \in 0 .. MaxSessions
    /\ pointer \in Requests \cup {None} /\ pending \in Requests \cup {None}
    /\ context \in [Sessions -> Requests \cup {None}]
    /\ grants \in [Requests -> {"absent", "active", "revoking", "revoked"}]
    /\ checkpoint \in [Sessions -> SUBSET EffectNames]
    /\ issuer \in [Requests -> {"none", "waiting", "approved", "denied", "expired", "spent"}]
    /\ signer \in [Requests -> Sessions \cup {None}]
    /\ invalid \subseteq Requests
    /\ \A p \in Pages : /\ page[p].at \in Steps
                        /\ page[p].conns \in [Sessions -> {"none", "open", "ended"}]
                        /\ page[p].bound \in Sessions \cup {None}
                        /\ page[p].done \subseteq EffectNames

\* A handle signs with the session key its Grant names, and the request it
\* reports to the issuer names that key too, whatever the other pages did to
\* the stored session in the meantime (realmFor's oauth_session_mismatch).  The
\* issuer is told to invalidate a Grant only when it is already revoking in
\* this origin's store (invalidateAtIssuer).
HandleIsBound ==
    /\ \A p \in Pages : page[p].handle # NoHandle =>
         LET h == page[p].handle
         IN  /\ grants[h.inner] # "absent" /\ issuer[h.inner] = "spent"
             /\ signer[h.inner] = h.key /\ signer[h.grant] = h.key
    /\ \A r \in invalid : grants[r] \in {"revoking", "revoked"}

\* The journal of a request that may still be approved is not dropped: it goes
\* only once the code is spent, rejected or expired (oauth-realm.ts: "a
\* rejection, an expired or spent code, or the request's expiry clears the
\* journal").
JournalKept ==
    [][pending # None /\ pending' # pending => issuer[pending] \in {"spent", "denied", "expired"}]_vars

\* A disconnect that is given a Grant deletes the wrapping key only once the
\* Grant is revoked, or once an earlier, unfinished disconnect of the binding
\* had recorded its revoke as done (README.md: "deletes local key custody only
\* after revocation completes").
ForgottenIsRevoked ==
    [][\A p \in Pages :
         (Attempts(p, "forgetLocal") /\ page'[p] # page[p] /\ key' = None /\ "revoke" \in page[p].asked)
            => grants[page[p].handle.inner] = "revoked" \/ page[p].skipped]_vars

\* The same without the exception.
DisconnectRevokes ==
    [][\A p \in Pages :
         (Attempts(p, "forgetLocal") /\ page'[p] # page[p] /\ key' = None /\ "revoke" \in page[p].asked)
            => grants[page[p].handle.inner] = "revoked"]_vars
=============================================================================
