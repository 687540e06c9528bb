--------------------------- MODULE OAuthClient_proofs ---------------------------
(***************************************************************************)
(* Proofs about the pages of one origin (OAuthClient.tla), for any number  *)
(* of pages, sessions and requests, and any of them failing.               *)
(*                                                                         *)
(* What a page holds in memory was read from stores that the other pages   *)
(* go on changing.  The argument is that the part of the world a page      *)
(* relies on only moves forward: a code that is spent stays spent and its  *)
(* request keeps naming the same session, a Grant that exists never goes   *)
(* away, and one that is revoking never becomes active again (Forward).    *)
(* So what a page knew stays true (Remembered), and each action has to be  *)
(* looked at for the one page that takes it.                               *)
(***************************************************************************)
EXTENDS OAuthClient, TLAPS

Fields == {"at", "goal", "redeeming", "req", "sess", "conns", "bound", "handle",
           "asked", "done", "failed", "skipped", "closed"}

Goals == {"none", "request", "adopt", "resume", "sign"}

\* The record of a page: the call in progress, and with it the disconnect.
Typed(me) ==
    /\ DOMAIN me = Fields
    /\ me.at \in Steps /\ me.goal \in Goals /\ me.redeeming \in BOOLEAN /\ me.closed \in BOOLEAN
    /\ me.req \in Requests \cup {None} /\ me.sess \in Sessions \cup {None}
    /\ me.conns \in [Sessions -> {"none", "open", "ended"}] /\ me.bound \in Sessions \cup {None}

Memory(me) ==
    /\ Typed(me) /\ me.skipped \in BOOLEAN
    /\ me.asked \subseteq EffectNames /\ me.done \subseteq EffectNames /\ me.failed \subseteq EffectNames

Spent(r, i) == r \in Requests /\ i[r] = "spent"

Going(r, g) == g[r] \in {"revoking", "revoked"}

\* What a handle was built from; i, g and s are the requests at the issuer, the
\* Grants and the sessions the requests name.
HandleOK(h, i, g, s) ==
    /\ Spent(h.inner, i) /\ Spent(h.grant, i)
    /\ g[h.inner] # "absent"
    /\ s[h.inner] = h.key /\ s[h.grant] = h.key

\* Which goal and which effects go with a step of a call.
ShapeOK(me) ==
    /\ me.at \in {"idle", "journal", "token", "clear", "ask", "effect", "mark"} => me.goal = "none"
    /\ me.at \in {"load", "fresh", "write"} => me.goal # "none"
    /\ me.at \in {"verify", "bind", "pointer", "persist", "save", "context"} =>
          me.goal \in {"adopt", "resume"}
    /\ me.at = "authorize" => me.goal = "request"
    /\ me.at = "invalidate" => me.goal = "sign"
    /\ me.at \notin {"ask", "effect", "mark"} /\ me.goal # "sign" => me.asked = {}

\* What the call in progress read, and still relies on.
CallOK(me, i, g, s) ==
    /\ me.handle # NoHandle => HandleOK(me.handle, i, g, s)
    /\ me.at = "ask" \/ me.goal = "sign" => me.handle # NoHandle
    /\ me.goal = "sign" => Going(me.handle.grant, g)
    /\ me.goal \in {"adopt", "resume"} => Spent(me.req, i)
    /\ me.at \in {"journal", "token"} => me.req \in Requests
    /\ me.at \in {"write", "authorize", "bind", "pointer", "persist", "save", "context", "invalidate"} =>
          me.sess \in Sessions
    /\ me.at \in {"pointer", "persist", "save", "context"} => me.sess = s[me.req]
    /\ me.at = "save" => g[me.req] # "absent"

\* An effect that is being attempted is due, and a revoke that counts as done
\* was done to the Grant of the handle, or by an earlier disconnect.
CleanupOK(me, g) ==
    /\ "revoke" \in me.asked \ me.done => me.handle # NoHandle
    /\ me.at = "mark" \/ (me.asked # {} /\ (me.at = "ask" \/ me.goal = "sign")) => Due(me) # {}
    /\ me.at = "mark" /\ Current(me) = "revoke" => me.handle # NoHandle /\ g[me.handle.inner] = "revoked"
    /\ "revoke" \in me.asked \cap me.done =>
          \/ me.handle = NoHandle /\ me.asked \ {"close"} \subseteq me.done
          \/ me.skipped
          \/ me.handle # NoHandle /\ g[me.handle.inner] = "revoked"

PageOK(me, i, g, s) == Memory(me) /\ ShapeOK(me) /\ CallOK(me, i, g, s) /\ CleanupOK(me, g)

\* The durable stores and the issuer.
StoreOK ==
    /\ key \in Sessions \cup {None} /\ record \in Sessions \cup {None} /\ created \in 0 .. MaxSessions
    /\ pointer \in Requests \cup {None} /\ pending \in Requests \cup {None}
    /\ context \in [Sessions -> Requests \cup {None}]
    /\ grants \in [Requests -> {"absent", "active", "revoking", "revoked"}]
    /\ checkpoint \in [Sessions -> SUBSET EffectNames]
    /\ issuer \in [Requests -> {"none", "waiting", "approved", "denied", "expired", "spent"}]
    /\ signer \in [Requests -> Sessions \cup {None}]
    /\ invalid \subseteq Requests

\* What is stored of an adopted Grant was released by the issuer.
AdoptedOK ==
    /\ pointer # None => Spent(pointer, issuer)
    /\ \A s \in Sessions : context[s] # None =>
          Spent(context[s], issuer) /\ grants[context[s]] # "absent" /\ signer[context[s]] = s
    /\ \A r \in invalid : Going(r, grants)

PagesOK ==
    /\ page = [p \in Pages |-> page[p]]
    /\ \A p \in Pages : PageOK(page[p], issuer, grants, signer)

IInv == StoreOK /\ AdoptedOK /\ PagesOK

\* How the issuer, the Grants and the sessions of the requests may change.
Moves(i, g, s, j, k, t) ==
    \A r \in Requests :
       /\ i[r] = "spent" => j[r] = "spent" /\ t[r] = s[r]
       /\ g[r] # "absent" => k[r] # "absent"
       /\ Going(r, g) => Going(r, k)
       /\ g[r] = "revoked" => k[r] = "revoked"

Forward == Moves(issuer, grants, signer, issuer', grants', signer')

-----------------------------------------------------------------------------
(* What a page remembers stays true as the world moves on. *)

LEMMA HandleStays ==
    ASSUME NEW h, NEW i, NEW g, NEW s, NEW j, NEW k, NEW t,
           HandleOK(h, i, g, s), Moves(i, g, s, j, k, t)
    PROVE  HandleOK(h, j, k, t)
BY Zenon DEF HandleOK, Spent, Moves

LEMMA Remembered ==
    ASSUME NEW me, NEW i, NEW g, NEW s, NEW j, NEW k, NEW t,
           PageOK(me, i, g, s), Moves(i, g, s, j, k, t)
    PROVE  PageOK(me, j, k, t)
<1>1. me.handle # NoHandle => HandleOK(me.handle, j, k, t)
  BY Zenon, HandleStays DEF PageOK, CallOK
<1>2. CallOK(me, j, k, t)
  <2>1. me.goal = "sign" => Going(me.handle.grant, k)
    BY Zenon DEF PageOK, CallOK, HandleOK, Spent, Moves
  <2>2. me.goal \in {"adopt", "resume"} => Spent(me.req, j) /\ t[me.req] = s[me.req]
    BY Zenon DEF PageOK, CallOK, Spent, Moves
  <2>3. me.at \in {"pointer", "persist", "save", "context"} => me.sess = t[me.req]
    BY Zenon, <2>2 DEF PageOK, CallOK, ShapeOK
  <2>4. me.at = "save" => k[me.req] # "absent"
    BY Zenon, <2>2 DEF PageOK, CallOK, ShapeOK, Spent, Moves
  <2> QED BY Zenon, <1>1, <2>1, <2>2, <2>3, <2>4 DEF PageOK, CallOK
<1>3. CleanupOK(me, k)
  <2>1. me.handle # NoHandle /\ g[me.handle.inner] = "revoked" => k[me.handle.inner] = "revoked"
    BY Zenon DEF PageOK, CallOK, HandleOK, Spent, Moves
  <2> QED BY Zenon, <2>1 DEF PageOK, CleanupOK
<1> QED BY Zenon, <1>2, <1>3 DEF PageOK

LEMMA PageStep ==
    ASSUME IInv, NEW p \in Pages, NEW n, page' = [page EXCEPT ![p] = n], Forward,
           PageOK(n, issuer', grants', signer')
    PROVE  PagesOK'
<1>1. page' = [q \in Pages |-> page'[q]] /\ page'[p] = n
  BY Zenon DEF IInv, PagesOK
<1>2. ASSUME NEW q \in Pages, q # p PROVE PageOK(page'[q], issuer', grants', signer')
  <2>1. page'[q] = page[q] /\ PageOK(page[q], issuer, grants, signer)
    BY Zenon, <1>2 DEF IInv, PagesOK
  <2> QED BY Zenon, <2>1, Remembered DEF Forward
<1> QED BY Zenon, <1>1, <1>2 DEF PagesOK

LEMMA AllPagesStay ==
    ASSUME IInv, UNCHANGED page, Forward
    PROVE  PagesOK'
<1>1. ASSUME NEW q \in Pages PROVE PageOK(page'[q], issuer', grants', signer')
  <2>1. page'[q] = page[q] /\ PageOK(page[q], issuer, grants, signer)
    BY Zenon DEF IInv, PagesOK
  <2> QED BY Zenon, <2>1, Remembered DEF Forward
<1> QED BY Zenon, <1>1 DEF PagesOK, IInv

LEMMA AdoptedStays ==
    ASSUME IInv, Forward, UNCHANGED <<pointer, context, invalid>>
    PROVE  AdoptedOK'
<1>1. pointer' # None => Spent(pointer', issuer')
  BY Zenon DEF IInv, AdoptedOK, Spent, Forward, Moves
<1>2. ASSUME NEW s \in Sessions, context'[s] # None
      PROVE  Spent(context'[s], issuer') /\ grants'[context'[s]] # "absent" /\ signer'[context'[s]] = s
  BY Zenon, <1>2 DEF IInv, AdoptedOK, Spent, Forward, Moves
<1>3. \A r \in invalid' : Going(r, grants')
  BY Zenon DEF IInv, StoreOK, AdoptedOK, Forward, Moves
<1> QED BY Zenon, <1>1, <1>2, <1>3 DEF AdoptedOK

LEMMA NothingMoves ==
    ASSUME UNCHANGED <<issuer, grants, signer>>
    PROVE  Forward
BY Zenon DEF Forward, Moves, Going

\* A step in the memory of one page.
LEMMA LocalStep ==
    ASSUME IInv, NEW p \in Pages, NEW n, page' = [page EXCEPT ![p] = n],
           UNCHANGED <<stored, remote>>, PageOK(n, issuer, grants, signer)
    PROVE  IInv'
<1>1. UNCHANGED <<key, record, created, pointer, pending, context, grants, checkpoint, issuer, signer, invalid>>
  BY Zenon DEF stored, remote
<1>2. Forward
  BY Zenon, <1>1, NothingMoves
<1>3. PagesOK'
  BY Zenon, <1>1, <1>2, PageStep
<1>4. AdoptedOK'
  BY Zenon, <1>1, <1>2, AdoptedStays
<1>5. StoreOK'
  BY Zenon, <1>1 DEF IInv, StoreOK
<1> QED BY Zenon, <1>3, <1>4, <1>5 DEF IInv

-----------------------------------------------------------------------------
(* The memory of one page. *)

\* The part of the memory a disconnect works on.
Inner(n, me) ==
    /\ n.handle = me.handle /\ n.asked = me.asked /\ n.done = me.done
    /\ n.failed = me.failed /\ n.skipped = me.skipped

LEMMA DueSame ==
    ASSUME NEW me, NEW n, n.asked = me.asked, n.done = me.done, n.failed = me.failed
    PROVE  Due(n) = Due(me) /\ Current(n) = Current(me)
<1>1. Due(n) = Due(me)
  BY Zenon DEF Due, Blocked
<1> QED BY Zenon, <1>1 DEF Current

\* The effect whose turn it is is one of those that are due.
LEMMA CurrentDue ==
    ASSUME NEW me, me.asked \subseteq EffectNames, Due(me) # {}
    PROVE  Current(me) \in Due(me) /\ Current(me) \in EffectNames
<1> DEFINE P(n) == Effects[n] \in Due(me) /\ \A m \in 1 .. n - 1 : Effects[m] \notin Due(me)
<1>1. /\ DOMAIN Effects = 1 .. 4 /\ Effects[1] = "revoke" /\ Effects[2] = "signOut"
      /\ Effects[3] = "forgetLocal" /\ Effects[4] = "close"
  BY DEF Effects
<1>2. Due(me) \subseteq EffectNames
  BY Zenon DEF Due
<1>3. \E n \in 1 .. 4 : P(n)
  <2>1. CASE "revoke" \in Due(me)
    <3>1. P(1)
      BY <1>1, <2>1
    <3> QED BY <3>1
  <2>2. CASE "revoke" \notin Due(me) /\ "signOut" \in Due(me)
    <3>1. P(2)
      BY <1>1, <2>2
    <3> QED BY <3>1
  <2>3. CASE "revoke" \notin Due(me) /\ "signOut" \notin Due(me) /\ "forgetLocal" \in Due(me)
    <3>1. P(3)
      BY <1>1, <2>3
    <3> QED BY <3>1
  <2>4. CASE "revoke" \notin Due(me) /\ "signOut" \notin Due(me) /\ "forgetLocal" \notin Due(me)
    <3>1. "close" \in Due(me)
      BY Zenon, <1>2, <2>4 DEF EffectNames
    <3>2. P(4)
      BY <1>1, <2>4, <3>1
    <3> QED BY <3>2
  <2> QED BY Zenon, <2>1, <2>2, <2>3, <2>4
<1>4. PICK c : c = CHOOSE n \in DOMAIN Effects : P(n)
  BY Zenon
<1>5. P(c)
  <2>1. \E n \in DOMAIN Effects : P(n)
    BY Zenon, <1>1, <1>3
  <2> QED BY Zenon, <1>4, <2>1
<1>6. Current(me) = Effects[c]
  BY Zenon, <1>4 DEF Current
<1> QED BY Zenon, <1>2, <1>5, <1>6

\* A step of a call that leaves the disconnect and the handle alone.
LEMMA CallMoves ==
    ASSUME NEW me, NEW n, NEW i, NEW g, NEW s, PageOK(me, i, g, s), Inner(n, me),
           Typed(n), ShapeOK(n), CallOK(n, i, g, s),
           n.at = "mark" \/ (me.asked # {} /\ (n.at = "ask" \/ n.goal = "sign")) => Due(me) # {},
           n.at = "mark" /\ Current(me) = "revoke" =>
              me.handle # NoHandle /\ g[me.handle.inner] = "revoked"
    PROVE  PageOK(n, i, g, s)
<1>1. Memory(n)
  BY Zenon DEF Memory, PageOK, Inner
<1>2. Due(n) = Due(me) /\ Current(n) = Current(me)
  BY Zenon, DueSame DEF Inner
<1>3. CleanupOK(n, g)
  BY Zenon, <1>2 DEF PageOK, CleanupOK, Inner
<1> QED BY Zenon, <1>1, <1>3 DEF PageOK

\* The end of a call, with the handle h it leaves.
Ends(n, me, at, h) ==
    /\ DOMAIN n = Fields /\ n.at = at /\ n.goal = "none" /\ n.redeeming = FALSE
    /\ n.req = None /\ n.sess = None /\ n.conns = me.conns /\ n.bound = me.bound /\ n.handle = h
    /\ n.asked = {} /\ n.done = {} /\ n.failed = {} /\ n.skipped = FALSE /\ n.closed = me.closed

LEMMA EndOK ==
    ASSUME NEW me, NEW n, NEW i, NEW g, NEW s, PageOK(me, i, g, s), NEW at \in {"idle", "clear"}, NEW h,
           Ends(n, me, at, h), h # NoHandle => HandleOK(h, i, g, s)
    PROVE  PageOK(n, i, g, s)
<1>1. Memory(n)
  BY Zenon DEF Memory, Typed, PageOK, Ends, Steps, Goals
<1>2. ShapeOK(n)
  BY Zenon DEF ShapeOK, Ends
<1>3. CallOK(n, i, g, s)
  BY Zenon DEF CallOK, Ends
<1>4. CleanupOK(n, g)
  BY Zenon DEF CleanupOK, Ends
<1> QED BY Zenon, <1>1, <1>2, <1>3, <1>4 DEF PageOK

LEMMA OverIs ==
    ASSUME NEW me, DOMAIN me = Fields, NEW at, NEW n, n = With([Over EXCEPT !.at = at], me)
    PROVE  Ends(n, me, at, me.handle)
BY Zenon DEF With, Over, Ends, Fields

LEMMA OverIdle ==
    ASSUME NEW me, DOMAIN me = Fields, NEW n, n = With(Over, me)
    PROVE  Ends(n, me, "idle", me.handle)
BY Zenon DEF With, Over, Ends, Fields

LEMMA OverOK ==
    ASSUME NEW me, NEW n, NEW i, NEW g, NEW s, PageOK(me, i, g, s), n = With(Over, me)
    PROVE  PageOK(n, i, g, s)
<1>1. DOMAIN me = Fields /\ (me.handle # NoHandle => HandleOK(me.handle, i, g, s))
  BY Zenon DEF PageOK, Memory, Typed, CallOK
<1>2. Ends(n, me, "idle", me.handle)
  BY Zenon, <1>1, OverIdle
<1> QED BY Zenon, <1>1, <1>2, EndOK

\* The end of an adoption: the journal is still to be cleared, or nothing is.
LEMMA AdoptedEnds ==
    ASSUME NEW p, NEW me, NEW n, NEW i, NEW g, NEW s, PageOK(me, i, g, s), n = With(Adopted(p), me)
    PROVE  PageOK(n, i, g, s)
<1>1. DOMAIN me = Fields /\ (me.handle # NoHandle => HandleOK(me.handle, i, g, s))
  BY Zenon DEF PageOK, Memory, Typed, CallOK
<1>2. PICK at \in {"idle", "clear"} : at = IF page[p].redeeming THEN "clear" ELSE "idle"
  BY Zenon
<1>3. Adopted(p) = [Over EXCEPT !.at = at]
  BY Zenon, <1>2 DEF Adopted, Over
<1>4. Ends(n, me, at, me.handle)
  BY Zenon, <1>1, <1>3, OverIs
<1> QED BY Zenon, <1>1, <1>4, EndOK

-----------------------------------------------------------------------------
(* Each action keeps the invariant: session(). *)

LEMMA Here ==
    ASSUME IInv, NEW p \in Pages
    PROVE  PageOK(page[p], issuer, grants, signer) /\ Memory(page[p]) /\ DOMAIN page[p] = Fields
BY Zenon DEF IInv, PagesOK, PageOK, Memory, Typed

\* Steps that write the stores.
LEMMA WorldStep ==
    ASSUME IInv, NEW p \in Pages, NEW n, page' = [page EXCEPT ![p] = n], Forward,
           StoreOK', AdoptedOK', PageOK(n, issuer', grants', signer')
    PROVE  IInv'
BY Zenon, PageStep DEF IInv

LEMMA StoreStep ==
    ASSUME IInv, NEW p \in Pages, NEW n, page' = [page EXCEPT ![p] = n], UNCHANGED <<grants, remote>>,
           StoreOK', AdoptedOK', PageOK(n, issuer, grants, signer)
    PROVE  IInv'
<1>1. UNCHANGED <<issuer, grants, signer>>
  BY Zenon DEF remote
<1> QED BY Zenon, <1>1, NothingMoves, WorldStep

LEMMA LoadKeeps ==
    ASSUME IInv, NEW p \in Pages, loadServiceSession(p)
    PROVE  IInv'
<1>1. PICK me : me = page[p]
  BY Zenon
<1>2. PageOK(me, issuer, grants, signer) /\ Memory(me) /\ DOMAIN me = Fields /\ me.at = "load"
  BY Zenon, <1>1, Here DEF loadServiceSession
<1>3. me.goal \in {"request", "sign", "adopt", "resume"}
  BY Zenon, <1>2 DEF PageOK, ShapeOK, Memory, Typed, Goals
<1>4. CASE record # None /\ key = record
  <2>1. PICK n : n = With([at |-> Continue(me.goal), sess |-> record], me)
    BY Zenon
  <2>2. page' = [page EXCEPT ![p] = n] /\ UNCHANGED <<stored, remote>>
    BY Zenon, <1>4, <1>1, <2>1 DEF loadServiceSession, Turn
  <2>3. /\ DOMAIN n = Fields /\ n.at = Continue(me.goal) /\ n.sess = record /\ n.goal = me.goal
        /\ n.redeeming = me.redeeming /\ n.req = me.req /\ n.conns = me.conns
        /\ n.bound = me.bound /\ n.handle = me.handle /\ n.asked = me.asked /\ n.done = me.done
        /\ n.failed = me.failed /\ n.skipped = me.skipped /\ n.closed = me.closed
    BY Zenon, <1>2, <2>1 DEF With, Fields
  <2>4. record \in Sessions
    BY Zenon, <1>4 DEF IInv, StoreOK
  <2>5. /\ me.goal = "request" => n.at = "authorize"
        /\ me.goal = "sign" => n.at = "invalidate"
        /\ me.goal \in {"adopt", "resume"} => n.at = "bind"
    BY Zenon, <1>3, <2>3 DEF Continue
  <2>6. ShapeOK(n)
    BY <1>2, <2>3, <1>3, <2>4, <2>5 DEF PageOK, ShapeOK
  <2>7. CallOK(n, issuer, grants, signer)
    BY Zenon, <1>2, <2>3, <1>3, <2>4, <2>5 DEF PageOK, CallOK
  <2>8. Typed(n) /\ Inner(n, me)
    BY Zenon, <1>2, <2>3, <1>3, <2>4, <2>5 DEF Memory, Typed, Steps, Goals, Inner
  <2>9. me.asked # {} => Due(me) # {}
    BY Zenon, <1>2, <1>3 DEF PageOK, CleanupOK, ShapeOK
  <2>10. PageOK(n, issuer, grants, signer)
    BY Zenon, <1>2, <2>3, <2>6, <2>7, <2>8, <2>9, <1>3, <2>4, <2>5, CallMoves
  <2> QED BY Zenon, <2>2, <2>10, LocalStep
<1>5. CASE ~(record # None /\ key = record)
  <2>1. PICK n : n = With([at |-> "fresh"], me)
    BY Zenon
  <2>2. page' = [page EXCEPT ![p] = n] /\ UNCHANGED <<stored, remote>>
    BY Zenon, <1>5, <1>1, <2>1 DEF loadServiceSession, Turn
  <2>3. /\ DOMAIN n = Fields /\ n.at = "fresh" /\ n.goal = me.goal /\ n.redeeming = me.redeeming
        /\ n.req = me.req /\ n.sess = me.sess /\ n.conns = me.conns /\ n.bound = me.bound
        /\ n.handle = me.handle /\ n.asked = me.asked /\ n.done = me.done
        /\ n.failed = me.failed /\ n.skipped = me.skipped /\ n.closed = me.closed
    BY Zenon, <1>2, <2>1 DEF With, Fields
  <2>4. ShapeOK(n)
    BY Zenon, <1>2, <2>3, <1>3 DEF PageOK, ShapeOK
  <2>5. CallOK(n, issuer, grants, signer)
    BY Zenon, <1>2, <2>3, <1>3 DEF PageOK, CallOK
  <2>6. Typed(n) /\ Inner(n, me)
    BY Zenon, <1>2, <2>3, <1>3 DEF Memory, Typed, Steps, Goals, Inner
  <2>7. me.asked # {} => Due(me) # {}
    BY Zenon, <1>2, <1>3 DEF PageOK, CleanupOK, ShapeOK
  <2>8. PageOK(n, issuer, grants, signer)
    BY Zenon, <1>2, <2>3, <2>4, <2>5, <2>6, <2>7, <1>3, CallMoves
  <2> QED BY Zenon, <2>2, <2>8, LocalStep
<1> QED BY Zenon, <1>4, <1>5

LEMMA StoreKeyKeeps ==
    ASSUME IInv, NEW p \in Pages, StoreKey(p)
    PROVE  IInv'
<1>1. PICK me : me = page[p]
  BY Zenon
<1>2. PageOK(me, issuer, grants, signer) /\ Memory(me) /\ DOMAIN me = Fields /\ me.at = "fresh"
  BY Zenon, <1>1, Here DEF StoreKey
<1>3. me.goal \in {"request", "sign", "adopt", "resume"}
  BY Zenon, <1>2 DEF PageOK, ShapeOK, Memory, Typed, Goals
<1>4. PICK n : n = With([at |-> "write", sess |-> created + 1], me)
  BY Zenon
<1>5. page' = [page EXCEPT ![p] = n] /\ UNCHANGED <<grants, remote>>
  BY Zenon, <1>1, <1>4 DEF StoreKey, Turn
<1>6. /\ DOMAIN n = Fields /\ n.at = "write" /\ n.sess = created + 1 /\ n.goal = me.goal
      /\ n.redeeming = me.redeeming /\ n.req = me.req /\ n.conns = me.conns
      /\ n.bound = me.bound /\ n.handle = me.handle /\ n.asked = me.asked /\ n.done = me.done
      /\ n.failed = me.failed /\ n.skipped = me.skipped /\ n.closed = me.closed
  BY Zenon, <1>2, <1>4 DEF With, Fields
<1>7. created + 1 \in Sessions /\ created + 1 \in 0 .. MaxSessions
  BY ClientAssumption DEF IInv, StoreOK, Sessions, StoreKey
<1>8. ShapeOK(n)
  BY Zenon, <1>2, <1>6, <1>3, <1>7 DEF PageOK, ShapeOK
<1>9. CallOK(n, issuer, grants, signer)
  BY Zenon, <1>2, <1>6, <1>3, <1>7 DEF PageOK, CallOK
<1>10. Typed(n) /\ Inner(n, me)
  BY Zenon, <1>2, <1>6, <1>3, <1>7 DEF Memory, Typed, Steps, Goals, Inner
<1>11. me.asked # {} => Due(me) # {}
  BY Zenon, <1>2, <1>3 DEF PageOK, CleanupOK, ShapeOK
<1>12. PageOK(n, issuer, grants, signer)
  BY Zenon, <1>2, <1>6, <1>8, <1>9, <1>10, <1>11, <1>3, <1>7, CallMoves
<1>13. StoreOK'
  BY Zenon, <1>7, <1>5 DEF StoreKey, IInv, StoreOK, remote
<1>14. AdoptedOK'
  BY Zenon, <1>5, NothingMoves, AdoptedStays DEF StoreKey, remote
<1> QED BY Zenon, <1>5, <1>12, <1>13, <1>14, StoreStep

LEMMA WriteRecordKeeps ==
    ASSUME IInv, NEW p \in Pages, WriteRecord(p)
    PROVE  IInv'
<1>1. PICK me : me = page[p]
  BY Zenon
<1>2. PageOK(me, issuer, grants, signer) /\ Memory(me) /\ DOMAIN me = Fields /\ me.at = "write"
  BY Zenon, <1>1, Here DEF WriteRecord
<1>3. me.goal \in {"request", "sign", "adopt", "resume"} /\ me.sess \in Sessions
  BY Zenon, <1>2 DEF PageOK, ShapeOK, CallOK, Memory, Typed, Goals
<1>4. PICK n : n = With([at |-> Continue(me.goal)], me)
  BY Zenon
<1>5. page' = [page EXCEPT ![p] = n] /\ UNCHANGED <<grants, remote>>
  BY Zenon, <1>1, <1>4 DEF WriteRecord, Turn
<1>6. /\ DOMAIN n = Fields /\ n.at = Continue(me.goal) /\ n.goal = me.goal
      /\ n.redeeming = me.redeeming /\ n.req = me.req /\ n.sess = me.sess /\ n.conns = me.conns
      /\ n.bound = me.bound /\ n.handle = me.handle /\ n.asked = me.asked /\ n.done = me.done
      /\ n.failed = me.failed /\ n.skipped = me.skipped /\ n.closed = me.closed
  BY Zenon, <1>2, <1>4 DEF With, Fields
<1>7. /\ me.goal = "request" => n.at = "authorize"
      /\ me.goal = "sign" => n.at = "invalidate"
      /\ me.goal \in {"adopt", "resume"} => n.at = "bind"
  BY Zenon, <1>3, <1>6 DEF Continue
<1>8. ShapeOK(n)
  BY Zenon, <1>2, <1>6, <1>3, <1>7 DEF PageOK, ShapeOK
<1>9. CallOK(n, issuer, grants, signer)
  BY Zenon, <1>2, <1>6, <1>3, <1>7 DEF PageOK, CallOK
<1>10. Typed(n) /\ Inner(n, me)
  BY Zenon, <1>2, <1>6, <1>3, <1>7 DEF Memory, Typed, Steps, Goals, Inner
<1>11. me.asked # {} => Due(me) # {}
  BY Zenon, <1>2, <1>3 DEF PageOK, CleanupOK, ShapeOK
<1>12. PageOK(n, issuer, grants, signer)
  BY Zenon, <1>2, <1>6, <1>8, <1>9, <1>10, <1>11, <1>3, <1>7, CallMoves
<1>13. StoreOK'
  BY Zenon, <1>3, <1>5, <1>1 DEF WriteRecord, IInv, StoreOK, remote
<1>14. AdoptedOK'
  BY Zenon, <1>5, NothingMoves, AdoptedStays DEF WriteRecord, remote
<1> QED BY Zenon, <1>5, <1>12, <1>13, <1>14, StoreStep

-----------------------------------------------------------------------------
(* Requesting and redeeming. *)

LEMMA RequestKeeps ==
    ASSUME IInv, NEW p \in Pages, requestPermission(p)
    PROVE  IInv'
<1>1. PICK me : me = page[p]
  BY Zenon
<1>2. PageOK(me, issuer, grants, signer) /\ Memory(me) /\ DOMAIN me = Fields /\ me.at = "idle"
  BY Zenon, <1>1, Here DEF requestPermission, Ready
<1>3. PICK n : n = With([at |-> "load", goal |-> "request"], me)
  BY Zenon
<1>4. page' = [page EXCEPT ![p] = n] /\ UNCHANGED <<stored, remote>>
  BY Zenon, <1>1, <1>3 DEF requestPermission, Turn
<1>5. /\ DOMAIN n = Fields /\ n.at = "load" /\ n.goal = "request" /\ n.redeeming = me.redeeming
      /\ n.req = me.req /\ n.sess = me.sess /\ n.conns = me.conns /\ n.bound = me.bound
      /\ n.handle = me.handle /\ n.asked = me.asked /\ n.done = me.done /\ n.failed = me.failed
      /\ n.skipped = me.skipped /\ n.closed = me.closed
  BY Zenon, <1>2, <1>3 DEF With, Fields
<1>6. ShapeOK(n)
  BY Zenon, <1>2, <1>5 DEF PageOK, ShapeOK
<1>7. CallOK(n, issuer, grants, signer)
  BY Zenon, <1>2, <1>5 DEF PageOK, CallOK
<1>8. Typed(n) /\ Inner(n, me)
  BY Zenon, <1>2, <1>5 DEF Memory, Typed, Steps, Goals, Inner
<1>9. PageOK(n, issuer, grants, signer)
  BY Zenon, <1>2, <1>5, <1>6, <1>7, <1>8, CallMoves
<1> QED BY Zenon, <1>4, <1>9, LocalStep

LEMMA AuthorizeKeeps ==
    ASSUME IInv, NEW p \in Pages, authorize(p)
    PROVE  IInv'
<1>1. PICK me : me = page[p]
  BY Zenon
<1>2. PageOK(me, issuer, grants, signer) /\ Memory(me) /\ DOMAIN me = Fields /\ me.at = "authorize"
  BY Zenon, <1>1, Here DEF authorize
<1>3. PICK r \in Requests, outcome \in {"denied", "waiting", "spent"} :
         /\ issuer[r] = "none" /\ issuer' = [issuer EXCEPT ![r] = outcome]
         /\ signer' = [signer EXCEPT ![r] = page[p].sess]
         /\ \/ Turn(p, Over)
            \/ outcome = "waiting" /\ Turn(p, [at |-> "journal", goal |-> "none", req |-> r, sess |-> None])
            \/ outcome = "spent" /\ Turn(p, [at |-> "verify", goal |-> "adopt", req |-> r, sess |-> None])
  BY Zenon DEF authorize
<1>4. UNCHANGED <<key, record, created, pointer, pending, context, grants, checkpoint, invalid>>
  BY Zenon DEF authorize, stored
<1>5. me.sess \in Sessions /\ me.asked = {}
  BY Zenon, <1>2 DEF PageOK, CallOK, ShapeOK
<1>6. Forward
  BY Zenon, <1>3, <1>4 DEF Forward, Moves, Going, IInv, StoreOK
<1>7. StoreOK' /\ AdoptedOK'
  <2>1. StoreOK'
    BY Zenon, <1>5, <1>1, <1>3, <1>4 DEF IInv, StoreOK
  <2> QED BY Zenon, <1>6, <1>4, <2>1, AdoptedStays
<1>8. PageOK(me, issuer', grants', signer')
  BY Zenon, <1>2, <1>6, Remembered DEF Forward
<1>9. CASE Turn(p, Over)
  <2>1. PICK n : n = With(Over, me)
    BY Zenon
  <2>2. page' = [page EXCEPT ![p] = n]
    BY Zenon, <1>9, <1>1, <2>1 DEF authorize, Turn
  <2>3. PageOK(n, issuer', grants', signer')
    BY Zenon, <1>8, <2>1, OverOK
  <2> QED BY Zenon, <1>6, <1>7, <2>2, <2>3, WorldStep
<1>10. CASE outcome = "waiting" /\ Turn(p, [at |-> "journal", goal |-> "none", req |-> r, sess |-> None])
  <2>1. PICK n : n = With([at |-> "journal", goal |-> "none", req |-> r, sess |-> None], me)
    BY Zenon
  <2>2. page' = [page EXCEPT ![p] = n]
    BY Zenon, <1>10, <1>1, <2>1 DEF authorize, Turn
  <2>3. /\ DOMAIN n = Fields /\ n.at = "journal" /\ n.goal = "none" /\ n.req = r
        /\ n.sess = None /\ n.redeeming = me.redeeming /\ n.conns = me.conns
        /\ n.bound = me.bound /\ n.handle = me.handle /\ n.asked = me.asked /\ n.done = me.done
        /\ n.failed = me.failed /\ n.skipped = me.skipped /\ n.closed = me.closed
    BY Zenon, <1>2, <2>1 DEF With, Fields
  <2>4. ShapeOK(n)
    BY Zenon, <1>2, <2>3, <1>5, <1>8 DEF PageOK, ShapeOK
  <2>5. CallOK(n, issuer', grants', signer')
    BY Zenon, <1>2, <2>3, <1>5, <1>8 DEF PageOK, CallOK
  <2>6. Typed(n) /\ Inner(n, me)
    BY Zenon, <1>2, <2>3, <1>5, <1>8 DEF Memory, Typed, Steps, Goals, Inner
  <2>7. PageOK(n, issuer', grants', signer')
    BY Zenon, <1>2, <2>3, <2>4, <2>5, <2>6, <1>5, <1>8, CallMoves
  <2> QED BY Zenon, <1>6, <1>7, <2>2, <2>7, WorldStep
<1>11. CASE outcome = "spent" /\ Turn(p, [at |-> "verify", goal |-> "adopt", req |-> r, sess |-> None])
  <2>1. PICK n : n = With([at |-> "verify", goal |-> "adopt", req |-> r, sess |-> None], me)
    BY Zenon
  <2>2. page' = [page EXCEPT ![p] = n]
    BY Zenon, <1>11, <1>1, <2>1 DEF authorize, Turn
  <2>3. /\ DOMAIN n = Fields /\ n.at = "verify" /\ n.goal = "adopt" /\ n.req = r
        /\ n.sess = None /\ n.redeeming = me.redeeming /\ n.conns = me.conns
        /\ n.bound = me.bound /\ n.handle = me.handle /\ n.asked = me.asked /\ n.done = me.done
        /\ n.failed = me.failed /\ n.skipped = me.skipped /\ n.closed = me.closed
    BY Zenon, <1>2, <2>1 DEF With, Fields
  <2>4. Spent(r, issuer')
    BY Zenon, <1>3, <1>11 DEF Spent, IInv, StoreOK
  <2>5. ShapeOK(n)
    BY Zenon, <1>2, <2>3, <1>5, <1>8, <2>4 DEF PageOK, ShapeOK
  <2>6. CallOK(n, issuer', grants', signer')
    BY Zenon, <1>2, <2>3, <1>5, <1>8, <2>4 DEF PageOK, CallOK
  <2>7. Typed(n) /\ Inner(n, me)
    BY Zenon, <1>2, <2>3, <1>5, <1>8, <2>4 DEF Memory, Typed, Steps, Goals, Inner
  <2>8. PageOK(n, issuer', grants', signer')
    BY Zenon, <1>2, <2>3, <2>5, <2>6, <2>7, <1>5, <1>8, <2>4, CallMoves
  <2> QED BY Zenon, <1>6, <1>7, <2>2, <2>8, WorldStep
<1> QED BY Zenon, <1>3, <1>9, <1>10, <1>11

LEMMA WritePendingKeeps ==
    ASSUME IInv, NEW p \in Pages, writePending(p)
    PROVE  IInv'
<1>1. PICK me : me = page[p]
  BY Zenon
<1>2. PageOK(me, issuer, grants, signer) /\ Memory(me) /\ DOMAIN me = Fields /\ me.at = "journal"
  BY Zenon, <1>1, Here DEF writePending
<1>3. PICK n : n = With(Over, me)
  BY Zenon
<1>4. page' = [page EXCEPT ![p] = n] /\ UNCHANGED <<grants, remote>>
  BY Zenon, <1>1, <1>3 DEF writePending, Turn
<1>5. PageOK(n, issuer, grants, signer)
  BY Zenon, <1>2, <1>3, OverOK
<1>6. me.req \in Requests
  BY Zenon, <1>2 DEF PageOK, CallOK
<1>7. StoreOK'
  BY Zenon, <1>6, <1>4, <1>1 DEF writePending, IInv, StoreOK, remote
<1>8. AdoptedOK'
  BY Zenon, <1>4, NothingMoves, AdoptedStays DEF writePending, remote
<1> QED BY Zenon, <1>4, <1>5, <1>7, <1>8, StoreStep

LEMMA RedeemPendingKeeps ==
    ASSUME IInv, NEW p \in Pages, redeemPending(p)
    PROVE  IInv'
<1>1. PICK me : me = page[p]
  BY Zenon
<1>2. PageOK(me, issuer, grants, signer) /\ Memory(me) /\ DOMAIN me = Fields /\ me.at = "idle"
  BY Zenon, <1>1, Here DEF redeemPending, Ready
<1>3. me.goal = "none" /\ me.asked = {}
  BY Zenon, <1>2 DEF PageOK, ShapeOK
<1>4. CASE issuer[pending] = "expired"
  <2>1. PICK n : n = With([at |-> "clear"], me)
    BY Zenon
  <2>2. page' = [page EXCEPT ![p] = n] /\ UNCHANGED <<stored, remote>>
    BY Zenon, <1>4, <1>1, <2>1 DEF redeemPending, Turn
  <2>3. /\ DOMAIN n = Fields /\ n.at = "clear" /\ n.goal = me.goal /\ n.redeeming = me.redeeming
        /\ n.req = me.req /\ n.sess = me.sess /\ n.conns = me.conns /\ n.bound = me.bound
        /\ n.handle = me.handle /\ n.asked = me.asked /\ n.done = me.done
        /\ n.failed = me.failed /\ n.skipped = me.skipped /\ n.closed = me.closed
    BY Zenon, <1>2, <2>1 DEF With, Fields
  <2>4. ShapeOK(n)
    BY Zenon, <1>2, <2>3, <1>3 DEF PageOK, ShapeOK
  <2>5. CallOK(n, issuer, grants, signer)
    BY Zenon, <1>2, <2>3, <1>3 DEF PageOK, CallOK
  <2>6. Typed(n) /\ Inner(n, me)
    BY Zenon, <1>2, <2>3, <1>3 DEF Memory, Typed, Steps, Goals, Inner
  <2>7. PageOK(n, issuer, grants, signer)
    BY Zenon, <1>2, <2>3, <2>4, <2>5, <2>6, <1>3, CallMoves
  <2> QED BY Zenon, <2>2, <2>7, LocalStep
<1>5. CASE issuer[pending] # "expired"
  <2>1. PICK n : n = With([at |-> "token", req |-> pending], me)
    BY Zenon
  <2>2. page' = [page EXCEPT ![p] = n] /\ UNCHANGED <<stored, remote>>
    BY Zenon, <1>5, <1>1, <2>1 DEF redeemPending, Turn
  <2>3. /\ DOMAIN n = Fields /\ n.at = "token" /\ n.req = pending /\ n.goal = me.goal
        /\ n.redeeming = me.redeeming /\ n.sess = me.sess /\ n.conns = me.conns
        /\ n.bound = me.bound /\ n.handle = me.handle /\ n.asked = me.asked /\ n.done = me.done
        /\ n.failed = me.failed /\ n.skipped = me.skipped /\ n.closed = me.closed
    BY Zenon, <1>2, <2>1 DEF With, Fields
  <2>4. pending \in Requests
    BY Zenon DEF redeemPending, IInv, StoreOK
  <2>5. ShapeOK(n)
    BY Zenon, <1>2, <2>3, <1>3, <2>4 DEF PageOK, ShapeOK
  <2>6. CallOK(n, issuer, grants, signer)
    BY Zenon, <1>2, <2>3, <1>3, <2>4 DEF PageOK, CallOK
  <2>7. Typed(n) /\ Inner(n, me)
    BY Zenon, <1>2, <2>3, <1>3, <2>4 DEF Memory, Typed, Steps, Goals, Inner
  <2>8. PageOK(n, issuer, grants, signer)
    BY Zenon, <1>2, <2>3, <2>5, <2>6, <2>7, <1>3, <2>4, CallMoves
  <2> QED BY Zenon, <2>2, <2>8, LocalStep
<1> QED BY Zenon, <1>4, <1>5

LEMMA RedeemKeeps ==
    ASSUME IInv, NEW p \in Pages, redeem(p)
    PROVE  IInv'
<1>1. PICK me : me = page[p]
  BY Zenon
<1>2. PageOK(me, issuer, grants, signer) /\ Memory(me) /\ DOMAIN me = Fields /\ me.at = "token"
  BY Zenon, <1>1, Here DEF redeem
<1>3. PICK r : r = me.req
  BY Zenon
<1>4. r \in Requests /\ me.goal = "none" /\ me.asked = {} /\ UNCHANGED <<stored, signer, invalid>>
  BY Zenon, <1>2, <1>3 DEF PageOK, CallOK, ShapeOK, redeem
<1>5. CASE Turn(p, Over) /\ UNCHANGED issuer
  <2>1. PICK n : n = With(Over, me)
    BY Zenon
  <2>2. page' = [page EXCEPT ![p] = n] /\ UNCHANGED <<stored, remote>>
    BY Zenon, <1>4, <1>5, <1>1, <2>1 DEF redeem, remote, Turn
  <2>3. PageOK(n, issuer, grants, signer)
    BY Zenon, <1>2, <2>1, OverOK
  <2> QED BY Zenon, <2>2, <2>3, LocalStep
<1>6. CASE Turn(p, [at |-> "clear", req |-> None]) /\ UNCHANGED issuer
  <2>1. PICK n : n = With([at |-> "clear", req |-> None], me)
    BY Zenon
  <2>2. page' = [page EXCEPT ![p] = n] /\ UNCHANGED <<stored, remote>>
    BY Zenon, <1>4, <1>6, <1>1, <2>1 DEF redeem, remote, Turn
  <2>3. /\ DOMAIN n = Fields /\ n.at = "clear" /\ n.req = None /\ n.goal = me.goal
        /\ n.redeeming = me.redeeming /\ n.sess = me.sess /\ n.conns = me.conns
        /\ n.bound = me.bound /\ n.handle = me.handle /\ n.asked = me.asked /\ n.done = me.done
        /\ n.failed = me.failed /\ n.skipped = me.skipped /\ n.closed = me.closed
    BY Zenon, <1>2, <2>1 DEF With, Fields
  <2>4. ShapeOK(n)
    BY Zenon, <1>2, <2>3, <1>4 DEF PageOK, ShapeOK
  <2>5. CallOK(n, issuer, grants, signer)
    BY Zenon, <1>2, <2>3, <1>4 DEF PageOK, CallOK
  <2>6. Typed(n) /\ Inner(n, me)
    BY Zenon, <1>2, <2>3, <1>4 DEF Memory, Typed, Steps, Goals, Inner
  <2>7. PageOK(n, issuer, grants, signer)
    BY Zenon, <1>2, <2>3, <2>4, <2>5, <2>6, <1>4, CallMoves
  <2> QED BY Zenon, <2>2, <2>7, LocalStep
<1>7. CASE /\ issuer[r] = "approved" /\ issuer' = [issuer EXCEPT ![r] = "spent"]
           /\ \/ Turn(p, [at |-> "verify", goal |-> "adopt", redeeming |-> TRUE])
              \/ Turn(p, Over)
  <2>1. UNCHANGED <<key, record, created, pointer, pending, context, grants, checkpoint, signer, invalid>>
    BY Zenon, <1>4 DEF stored
  <2>2. Forward
    BY Zenon, <1>4, <1>7, <2>1 DEF Forward, Moves, Going, IInv, StoreOK
  <2>3. StoreOK' /\ AdoptedOK'
    <3>1. StoreOK'
      BY Zenon, <1>4, <1>7, <2>1 DEF IInv, StoreOK
    <3> QED BY Zenon, <2>1, <2>2, <3>1, AdoptedStays
  <2>4. PageOK(me, issuer', grants', signer')
    BY Zenon, <1>2, <2>2, Remembered DEF Forward
  <2>5. CASE Turn(p, [at |-> "verify", goal |-> "adopt", redeeming |-> TRUE])
    <3>1. PICK n : n = With([at |-> "verify", goal |-> "adopt", redeeming |-> TRUE], me)
      BY Zenon
    <3>2. page' = [page EXCEPT ![p] = n]
      BY Zenon, <2>5, <1>1, <3>1 DEF redeem, Turn
    <3>3. /\ DOMAIN n = Fields /\ n.at = "verify" /\ n.goal = "adopt" /\ n.redeeming = TRUE
          /\ n.req = me.req /\ n.sess = me.sess /\ n.conns = me.conns /\ n.bound = me.bound
          /\ n.handle = me.handle /\ n.asked = me.asked /\ n.done = me.done
          /\ n.failed = me.failed /\ n.skipped = me.skipped /\ n.closed = me.closed
      BY Zenon, <1>2, <3>1 DEF With, Fields
    <3>4. Spent(n.req, issuer')
      BY Zenon, <1>3, <1>4, <1>7, <3>3 DEF Spent, IInv, StoreOK
    <3>5. ShapeOK(n)
      BY Zenon, <1>2, <3>3, <1>4, <2>4, <3>4 DEF PageOK, ShapeOK
    <3>6. CallOK(n, issuer', grants', signer')
      BY Zenon, <1>2, <3>3, <1>4, <2>4, <3>4 DEF PageOK, CallOK
    <3>7. Typed(n) /\ Inner(n, me)
      BY Zenon, <1>2, <3>3, <1>4, <2>4, <3>4 DEF Memory, Typed, Steps, Goals, Inner
    <3>8. PageOK(n, issuer', grants', signer')
      BY Zenon, <1>2, <3>3, <3>5, <3>6, <3>7, <1>4, <2>4, <3>4, CallMoves
    <3> QED BY Zenon, <2>2, <2>3, <3>2, <3>8, WorldStep
  <2>6. CASE Turn(p, Over)
    <3>1. PICK n : n = With(Over, me)
      BY Zenon
    <3>2. page' = [page EXCEPT ![p] = n]
      BY Zenon, <2>6, <1>1, <3>1 DEF redeem, Turn
    <3>3. PageOK(n, issuer', grants', signer')
      BY Zenon, <2>4, <3>1, OverOK
    <3> QED BY Zenon, <2>2, <2>3, <3>2, <3>3, WorldStep
  <2> QED BY Zenon, <1>7, <2>5, <2>6
<1> QED BY Zenon, <1>3, <1>5, <1>6, <1>7, <1>1 DEF redeem

LEMMA ClearPendingKeeps ==
    ASSUME IInv, NEW p \in Pages, clearPending(p)
    PROVE  IInv'
<1>1. PICK me : me = page[p]
  BY Zenon
<1>2. PageOK(me, issuer, grants, signer) /\ Memory(me) /\ DOMAIN me = Fields /\ me.at = "clear"
  BY Zenon, <1>1, Here DEF clearPending
<1>3. PICK n : n = With(Over, me)
  BY Zenon
<1>4. page' = [page EXCEPT ![p] = n] /\ UNCHANGED <<grants, remote>>
  BY Zenon, <1>1, <1>3 DEF clearPending, Turn
<1>5. PageOK(n, issuer, grants, signer)
  BY Zenon, <1>2, <1>3, OverOK
<1>6. StoreOK'
  BY Zenon, <1>4 DEF clearPending, IInv, StoreOK, remote
<1>7. AdoptedOK'
  BY Zenon, <1>4, NothingMoves, AdoptedStays DEF clearPending, remote
<1> QED BY Zenon, <1>4, <1>5, <1>6, <1>7, StoreStep

-----------------------------------------------------------------------------
(* Adopting and resuming. *)

LEMMA VerifyKeeps ==
    ASSUME IInv, NEW p \in Pages, verifyGrant(p)
    PROVE  IInv'
<1>1. PICK me : me = page[p]
  BY Zenon
<1>2. PageOK(me, issuer, grants, signer) /\ Memory(me) /\ DOMAIN me = Fields /\ me.at = "verify"
  BY Zenon, <1>1, Here DEF verifyGrant
<1>3. me.goal \in {"adopt", "resume"} /\ me.asked = {}
  BY Zenon, <1>2 DEF PageOK, ShapeOK
<1>4. PICK same \in BOOLEAN : Turn(p, IF same THEN [at |-> "load"] ELSE Adopted(p))
  BY Zenon DEF verifyGrant
<1>5. CASE same
  <2>1. PICK n : n = With([at |-> "load"], me)
    BY Zenon
  <2>2. page' = [page EXCEPT ![p] = n] /\ UNCHANGED <<stored, remote>>
    BY Zenon, <1>4, <1>5, <1>1, <2>1 DEF verifyGrant, Turn
  <2>3. /\ DOMAIN n = Fields /\ n.at = "load" /\ n.goal = me.goal /\ n.redeeming = me.redeeming
        /\ n.req = me.req /\ n.sess = me.sess /\ n.conns = me.conns /\ n.bound = me.bound
        /\ n.handle = me.handle /\ n.asked = me.asked /\ n.done = me.done
        /\ n.failed = me.failed /\ n.skipped = me.skipped /\ n.closed = me.closed
    BY Zenon, <1>2, <2>1 DEF With, Fields
  <2>4. ShapeOK(n)
    BY Zenon, <1>2, <2>3, <1>3 DEF PageOK, ShapeOK
  <2>5. CallOK(n, issuer, grants, signer)
    BY Zenon, <1>2, <2>3, <1>3 DEF PageOK, CallOK
  <2>6. Typed(n) /\ Inner(n, me)
    BY Zenon, <1>2, <2>3, <1>3 DEF Memory, Typed, Steps, Goals, Inner
  <2>7. PageOK(n, issuer, grants, signer)
    BY Zenon, <1>2, <2>3, <2>4, <2>5, <2>6, <1>3, CallMoves
  <2> QED BY Zenon, <2>2, <2>7, LocalStep
<1>6. CASE ~same
  <2>1. PICK n : n = With(Adopted(p), me)
    BY Zenon
  <2>2. page' = [page EXCEPT ![p] = n] /\ UNCHANGED <<stored, remote>>
    BY Zenon, <1>4, <1>6, <1>1, <2>1 DEF verifyGrant, Turn
  <2>3. PageOK(n, issuer, grants, signer)
    BY Zenon, <1>2, <2>1, AdoptedEnds
  <2> QED BY Zenon, <2>2, <2>3, LocalStep
<1> QED BY Zenon, <1>5, <1>6

LEMMA BindKeeps ==
    ASSUME IInv, NEW p \in Pages, bind(p)
    PROVE  IInv'
<1>1. PICK me : me = page[p]
  BY Zenon
<1>2. PageOK(me, issuer, grants, signer) /\ Memory(me) /\ DOMAIN me = Fields /\ me.at = "bind"
  BY Zenon, <1>1, Here DEF bind
<1>3. me.goal \in {"adopt", "resume"} /\ me.asked = {} /\ me.sess \in Sessions
  BY Zenon, <1>2 DEF PageOK, ShapeOK, CallOK
<1>4. CASE me.sess # signer[me.req]
  <2>1. PICK n : n = With(Adopted(p), me)
    BY Zenon
  <2>2. page' = [page EXCEPT ![p] = n] /\ UNCHANGED <<stored, remote>>
    BY Zenon, <1>4, <1>1, <2>1 DEF bind, Turn
  <2>3. PageOK(n, issuer, grants, signer)
    BY Zenon, <1>2, <2>1, AdoptedEnds
  <2> QED BY Zenon, <2>2, <2>3, LocalStep
<1>5. CASE me.sess = signer[me.req]
  <2>1. PICK at \in {"pointer", "context"} : at = IF me.goal = "adopt" THEN "pointer" ELSE "context"
    BY Zenon
  <2>2. PICK conns : conns = [me.conns EXCEPT ![me.sess] = IF @ = "none" THEN "open" ELSE @]
    BY Zenon
  <2>3. conns \in [Sessions -> {"none", "open", "ended"}]
    BY Zenon, <1>2, <2>2 DEF Memory, Typed
  <2>4. PICK n : n = With([at |-> at, bound |-> me.sess, conns |-> conns], me)
    BY Zenon
  <2>5. page' = [page EXCEPT ![p] = n] /\ UNCHANGED <<stored, remote>>
    BY Zenon, <1>5, <2>1, <2>2, <1>1, <2>4 DEF bind, Turn
  <2>6. /\ DOMAIN n = Fields /\ n.at = at /\ n.conns = conns /\ n.bound = me.sess
        /\ n.goal = me.goal /\ n.redeeming = me.redeeming /\ n.req = me.req /\ n.sess = me.sess
        /\ n.handle = me.handle /\ n.asked = me.asked /\ n.done = me.done
        /\ n.failed = me.failed /\ n.skipped = me.skipped /\ n.closed = me.closed
    BY Zenon, <1>2, <2>4 DEF With, Fields
  <2>7. ShapeOK(n)
    BY Zenon, <1>2, <2>6, <1>3, <1>5, <2>1, <2>3 DEF PageOK, ShapeOK
  <2>8. CallOK(n, issuer, grants, signer)
    BY Zenon, <1>2, <2>6, <1>3, <1>5, <2>1, <2>3 DEF PageOK, CallOK
  <2>9. Typed(n) /\ Inner(n, me)
    BY <1>2, <2>6, <1>3, <1>5, <2>1, <2>3 DEF Memory, Typed, Steps, Goals, Inner
  <2>10. PageOK(n, issuer, grants, signer)
    BY Zenon, <1>2, <2>6, <2>7, <2>8, <2>9, <1>3, <1>5, <2>1, <2>3, CallMoves
  <2> QED BY Zenon, <2>5, <2>10, LocalStep
<1> QED BY Zenon, <1>4, <1>5

LEMMA WritePointerKeeps ==
    ASSUME IInv, NEW p \in Pages, writePointer(p)
    PROVE  IInv'
<1>1. PICK me : me = page[p]
  BY Zenon
<1>2. PageOK(me, issuer, grants, signer) /\ Memory(me) /\ DOMAIN me = Fields /\ me.at = "pointer"
  BY Zenon, <1>1, Here DEF writePointer
<1>3. me.goal \in {"adopt", "resume"} /\ me.asked = {} /\ Spent(me.req, issuer)
  BY Zenon, <1>2 DEF PageOK, ShapeOK, CallOK
<1>4. PICK n : n = With([at |-> "persist"], me)
  BY Zenon
<1>5. page' = [page EXCEPT ![p] = n] /\ UNCHANGED <<grants, remote>>
  BY Zenon, <1>1, <1>4 DEF writePointer, Turn
<1>6. /\ DOMAIN n = Fields /\ n.at = "persist" /\ n.goal = me.goal /\ n.redeeming = me.redeeming
      /\ n.req = me.req /\ n.sess = me.sess /\ n.conns = me.conns /\ n.bound = me.bound
      /\ n.handle = me.handle /\ n.asked = me.asked /\ n.done = me.done /\ n.failed = me.failed
      /\ n.skipped = me.skipped /\ n.closed = me.closed
  BY Zenon, <1>2, <1>4 DEF With, Fields
<1>7. ShapeOK(n)
  BY Zenon, <1>2, <1>6, <1>3 DEF PageOK, ShapeOK
<1>8. CallOK(n, issuer, grants, signer)
  BY Zenon, <1>2, <1>6, <1>3 DEF PageOK, CallOK
<1>9. Typed(n) /\ Inner(n, me)
  BY Zenon, <1>2, <1>6, <1>3 DEF Memory, Typed, Steps, Goals, Inner
<1>10. PageOK(n, issuer, grants, signer)
  BY Zenon, <1>2, <1>6, <1>7, <1>8, <1>9, <1>3, CallMoves
<1>11. StoreOK'
  BY Zenon, <1>3, <1>5, <1>1 DEF writePointer, IInv, StoreOK, remote, Spent
<1>12. AdoptedOK'
  BY Zenon, <1>3, <1>5, <1>1 DEF writePointer, IInv, AdoptedOK, remote
<1> QED BY Zenon, <1>5, <1>10, <1>11, <1>12, StoreStep

LEMMA PersistKeeps ==
    ASSUME IInv, NEW p \in Pages, persistGrant(p)
    PROVE  IInv'
<1>1. PICK me : me = page[p]
  BY Zenon
<1>2. PageOK(me, issuer, grants, signer) /\ Memory(me) /\ DOMAIN me = Fields /\ me.at = "persist"
  BY Zenon, <1>1, Here DEF persistGrant
<1>3. /\ me.goal \in {"adopt", "resume"} /\ me.asked = {} /\ Spent(me.req, issuer)
      /\ me.sess \in Sessions /\ me.sess = signer[me.req]
  BY Zenon, <1>2 DEF PageOK, ShapeOK, CallOK
<1>4. UNCHANGED <<key, record, created, pointer, pending, context, checkpoint, issuer, signer, invalid>>
  BY Zenon DEF persistGrant, remote
<1>5. CASE me.conns[me.sess] = "open" /\ grants[me.req] = "absent"
  <2>1. PICK n : n = With([at |-> "save"], me)
    BY Zenon
  <2>2. page' = [page EXCEPT ![p] = n] /\ grants' = [grants EXCEPT ![me.req] = "active"]
    BY Zenon, <1>5, <1>1, <2>1 DEF persistGrant, Turn
  <2>3. /\ DOMAIN n = Fields /\ n.at = "save" /\ n.goal = me.goal /\ n.redeeming = me.redeeming
        /\ n.req = me.req /\ n.sess = me.sess /\ n.conns = me.conns /\ n.bound = me.bound
        /\ n.handle = me.handle /\ n.asked = me.asked /\ n.done = me.done
        /\ n.failed = me.failed /\ n.skipped = me.skipped /\ n.closed = me.closed
    BY Zenon, <1>2, <2>1 DEF With, Fields
  <2>4. Forward
    BY Zenon, <1>5, <1>4, <2>2 DEF Forward, Moves, Going, IInv, StoreOK
  <2>5. PageOK(me, issuer', grants', signer')
    BY Zenon, <1>2, <2>4, Remembered DEF Forward
  <2>6. grants'[n.req] # "absent"
    BY Zenon, <1>3, <2>3, <2>2 DEF IInv, StoreOK, Spent
  <2>7. Spent(me.req, issuer') /\ me.sess = signer'[me.req]
    BY Zenon, <1>3, <1>4
  <2>8. ShapeOK(n)
    BY Zenon, <1>2, <2>3, <1>3, <2>5, <2>6, <2>7 DEF PageOK, ShapeOK
  <2>9. CallOK(n, issuer', grants', signer')
    BY Zenon, <1>2, <2>3, <1>3, <2>5, <2>6, <2>7 DEF PageOK, CallOK
  <2>10. Typed(n) /\ Inner(n, me)
    BY Zenon, <1>2, <2>3, <1>3, <2>5, <2>6, <2>7 DEF Memory, Typed, Steps, Goals, Inner
  <2>11. PageOK(n, issuer', grants', signer')
    BY Zenon, <1>2, <2>3, <2>8, <2>9, <2>10, <1>3, <2>5, <2>6, <2>7, CallMoves
  <2>12. StoreOK'
    BY Zenon, <1>4, <2>2 DEF IInv, StoreOK
  <2>13. AdoptedOK'
    BY Zenon, <1>4, <2>4, AdoptedStays
  <2> QED BY Zenon, <2>4, <2>12, <2>13, <2>2, <2>11, WorldStep
<1>6. CASE ~(me.conns[me.sess] = "open" /\ grants[me.req] = "absent")
  <2>1. PICK n : n = With(Adopted(p), me)
    BY Zenon
  <2>2. page' = [page EXCEPT ![p] = n] /\ UNCHANGED <<stored, remote>>
    BY Zenon, <1>6, <1>1, <2>1 DEF persistGrant, stored, remote, Turn
  <2>3. PageOK(n, issuer, grants, signer)
    BY Zenon, <1>2, <2>1, AdoptedEnds
  <2> QED BY Zenon, <2>2, <2>3, LocalStep
<1> QED BY Zenon, <1>5, <1>6

\* The end of a call that leaves a new handle.
LEMMA HandleEnds ==
    ASSUME NEW me, NEW n, NEW i, NEW g, NEW s, PageOK(me, i, g, s), NEW h, HandleOK(h, i, g, s),
           NEW at \in {"idle", "clear"}, NEW c, c = [Over EXCEPT !.at = at] \/ (c = Over /\ at = "idle"),
           n = With(c, [me EXCEPT !.handle = h])
    PROVE  PageOK(n, i, g, s)
<1>1. DOMAIN me = Fields
  BY Zenon DEF PageOK, Memory, Typed
<1>2. PICK e : e = [me EXCEPT !.handle = h]
  BY Zenon
<1>3. DOMAIN e = Fields /\ e.handle = h /\ e.conns = me.conns /\ e.bound = me.bound /\ e.closed = me.closed
  BY Zenon, <1>1, <1>2 DEF Fields
<1>4. Ends(n, e, at, h)
  <2>1. CASE c = [Over EXCEPT !.at = at]
    <3>1. n = With([Over EXCEPT !.at = at], e)
      BY Zenon, <1>2, <2>1
    <3> QED BY Zenon, <1>3, <3>1, OverIs
  <2>2. CASE c = Over /\ at = "idle"
    BY Zenon, <1>2, <1>3, <2>2, OverIdle
  <2> QED BY Zenon, <2>1, <2>2
<1>5. Ends(n, me, at, h)
  BY Zenon, <1>3, <1>4 DEF Ends
<1> QED BY Zenon, <1>5, EndOK

LEMMA WriteContextKeeps ==
    ASSUME IInv, NEW p \in Pages, writeContext(p)
    PROVE  IInv'
<1>1. PICK me : me = page[p]
  BY Zenon
<1>2. PageOK(me, issuer, grants, signer) /\ Memory(me) /\ DOMAIN me = Fields /\ me.at = "save"
  BY Zenon, <1>1, Here DEF writeContext
<1>3. /\ Spent(me.req, issuer) /\ me.sess \in Sessions /\ me.sess = signer[me.req]
      /\ grants[me.req] # "absent"
  BY Zenon, <1>2 DEF PageOK, ShapeOK, CallOK
<1>4. PICK h : h = Wrapped(me.req, me.req, me.sess)
  BY Zenon
<1>5. HandleOK(h, issuer, grants, signer)
  BY Zenon, <1>3, <1>4 DEF HandleOK, Wrapped
<1>6. PICK at \in {"idle", "clear"} : at = IF page[p].redeeming THEN "clear" ELSE "idle"
  BY Zenon
<1>7. Adopted(p) = [Over EXCEPT !.at = at]
  BY Zenon, <1>6 DEF Adopted, Over
<1>8. PICK n : n = With([Over EXCEPT !.at = at], [me EXCEPT !.handle = h])
  BY Zenon
<1>9. page' = [page EXCEPT ![p] = n] /\ UNCHANGED <<grants, remote>>
  BY Zenon, <1>1, <1>4, <1>7, <1>8 DEF writeContext
<1>10. PageOK(n, issuer, grants, signer)
  BY Zenon, <1>2, <1>5, <1>8, HandleEnds
<1>11. context' = [context EXCEPT ![me.sess] = me.req] /\ UNCHANGED <<pointer, issuer, signer, invalid>>
  BY Zenon, <1>1 DEF writeContext, remote
<1>12. StoreOK'
  BY Zenon, <1>3, <1>9, <1>11 DEF writeContext, IInv, StoreOK, Spent
<1>13. AdoptedOK'
  <2>1. ASSUME NEW s \in Sessions, context'[s] # None
        PROVE  Spent(context'[s], issuer) /\ grants[context'[s]] # "absent" /\ signer[context'[s]] = s
    BY Zenon, <1>3, <1>11, <2>1 DEF IInv, StoreOK, AdoptedOK
  <2> QED BY <1>11, <1>9, <2>1 DEF IInv, AdoptedOK
<1> QED BY Zenon, <1>9, <1>10, <1>12, <1>13, StoreStep

LEMMA ResumeKeeps ==
    ASSUME IInv, NEW p \in Pages, resume(p)
    PROVE  IInv'
<1>1. PICK me : me = page[p]
  BY Zenon
<1>2. PageOK(me, issuer, grants, signer) /\ Memory(me) /\ DOMAIN me = Fields /\ me.at = "idle"
  BY Zenon, <1>1, Here DEF resume, Ready
<1>3. Spent(pointer, issuer) /\ pointer \in Requests /\ me.goal = "none" /\ me.asked = {}
  BY Zenon, <1>2 DEF resume, IInv, AdoptedOK, Spent, PageOK, ShapeOK
<1>4. PICK n : n = With([at |-> "load", goal |-> "resume", req |-> pointer], me)
  BY Zenon
<1>5. page' = [page EXCEPT ![p] = n] /\ UNCHANGED <<stored, remote>>
  BY Zenon, <1>1, <1>4 DEF resume, Turn
<1>6. /\ DOMAIN n = Fields /\ n.at = "load" /\ n.goal = "resume" /\ n.req = pointer
      /\ n.redeeming = me.redeeming /\ n.sess = me.sess /\ n.conns = me.conns
      /\ n.bound = me.bound /\ n.handle = me.handle /\ n.asked = me.asked /\ n.done = me.done
      /\ n.failed = me.failed /\ n.skipped = me.skipped /\ n.closed = me.closed
  BY Zenon, <1>2, <1>4 DEF With, Fields
<1>7. ShapeOK(n)
  BY Zenon, <1>2, <1>6, <1>3 DEF PageOK, ShapeOK
<1>8. CallOK(n, issuer, grants, signer)
  BY Zenon, <1>2, <1>6, <1>3 DEF PageOK, CallOK
<1>9. Typed(n) /\ Inner(n, me)
  BY Zenon, <1>2, <1>6, <1>3 DEF Memory, Typed, Steps, Goals, Inner
<1>10. PageOK(n, issuer, grants, signer)
  BY Zenon, <1>2, <1>6, <1>7, <1>8, <1>9, <1>3, CallMoves
<1> QED BY Zenon, <1>5, <1>10, LocalStep

LEMMA ResumeWorkKeeps ==
    ASSUME IInv, NEW p \in Pages, resumeWork(p)
    PROVE  IInv'
<1>1. PICK me : me = page[p]
  BY Zenon
<1>2. PageOK(me, issuer, grants, signer) /\ Memory(me) /\ DOMAIN me = Fields /\ me.at = "context"
  BY Zenon, <1>1, Here DEF resumeWork
<1>3. Spent(me.req, issuer) /\ me.sess \in Sessions /\ me.sess = signer[me.req]
  BY Zenon, <1>2 DEF PageOK, ShapeOK, CallOK
<1>4. CASE me.conns[me.sess] = "open" /\ context[me.sess] # None
  <2>1. PICK h : h = Wrapped(me.req, context[me.sess], me.sess)
    BY Zenon
  <2>2. HandleOK(h, issuer, grants, signer)
    BY Zenon, <1>3, <1>4, <2>1 DEF HandleOK, Wrapped, IInv, AdoptedOK
  <2>3. PICK n : n = With(Over, [me EXCEPT !.handle = h])
    BY Zenon
  <2>4. page' = [page EXCEPT ![p] = n] /\ UNCHANGED <<stored, remote>>
    BY Zenon, <1>4, <1>1, <2>1, <2>3 DEF resumeWork
  <2>5. PageOK(n, issuer, grants, signer)
    BY Zenon, <1>2, <2>2, <2>3, HandleEnds
  <2> QED BY Zenon, <2>4, <2>5, LocalStep
<1>5. CASE ~(me.conns[me.sess] = "open" /\ context[me.sess] # None)
  <2>1. PICK n : n = With(Over, me)
    BY Zenon
  <2>2. page' = [page EXCEPT ![p] = n] /\ UNCHANGED <<stored, remote>>
    BY Zenon, <1>5, <1>1, <2>1 DEF resumeWork, Turn
  <2>3. PageOK(n, issuer, grants, signer)
    BY Zenon, <1>2, <2>1, OverOK
  <2> QED BY Zenon, <2>2, <2>3, LocalStep
<1> QED BY Zenon, <1>4, <1>5

LEMMA StoreFailsKeeps ==
    ASSUME IInv, NEW p \in Pages, StoreFails(p)
    PROVE  IInv'
<1>1. PICK me : me = page[p]
  BY Zenon
<1>2. PageOK(me, issuer, grants, signer) /\ Memory(me) /\ DOMAIN me = Fields /\ me.at = page[p].at
  BY Zenon, <1>1, Here DEF StoreFails
<1>3. PICK n : n = With(Adopted(p), me)
  BY Zenon
<1>4. page' = [page EXCEPT ![p] = n] /\ UNCHANGED <<stored, remote>>
  BY Zenon, <1>1, <1>3 DEF StoreFails, Turn
<1>5. PageOK(n, issuer, grants, signer)
  BY Zenon, <1>2, <1>3, AdoptedEnds
<1> QED BY Zenon, <1>4, <1>5, LocalStep

-----------------------------------------------------------------------------
(* Revoking. *)

\* The Grant of a handle starts to be revoked, or is revoked.
LEMMA RevokeMoves ==
    ASSUME IInv, NEW r \in Requests, grants[r] # "absent", RevokeLocally(r), UNCHANGED remote,
           UNCHANGED <<key, record, created, pointer, pending, context, checkpoint>>
    PROVE  Forward /\ StoreOK' /\ AdoptedOK'
<1>1. UNCHANGED <<issuer, signer, invalid>>
  BY Zenon DEF remote
<1>2. PICK state \in {"revoking", "revoked"} :
         (grants[r] = "revoked" => state = "revoked") /\ grants' = [grants EXCEPT ![r] = state]
  BY Zenon DEF RevokeLocally
<1>3. Forward
  BY Zenon, <1>1, <1>2 DEF Forward, Moves, Going, IInv, StoreOK
<1>4. StoreOK'
  BY Zenon, <1>1, <1>2 DEF IInv, StoreOK
<1> QED BY Zenon, <1>1, <1>3, <1>4, AdoptedStays

LEMMA RevokeKeeps ==
    ASSUME IInv, NEW p \in Pages, revoke(p)
    PROVE  IInv'
<1>1. PICK me : me = page[p]
  BY Zenon
<1>2. PageOK(me, issuer, grants, signer) /\ Memory(me) /\ DOMAIN me = Fields /\ me.at = "idle"
  BY Zenon, <1>1, Here DEF revoke, Ready
<1>3. me.goal = "none" /\ me.asked = {} /\ me.handle # NoHandle
  BY Zenon, <1>1, <1>2 DEF PageOK, ShapeOK, revoke
<1>4. me.handle.inner \in Requests /\ grants[me.handle.inner] # "absent"
  BY Zenon, <1>2, <1>3 DEF PageOK, CallOK, HandleOK, Spent
<1>5. Forward /\ StoreOK' /\ AdoptedOK'
  BY Zenon, <1>1, <1>4, RevokeMoves DEF revoke
<1>6. PageOK(me, issuer', grants', signer')
  BY Zenon, <1>2, <1>5, Remembered DEF Forward
<1>7. PICK n : n = With([at |-> "ask"], me)
  BY Zenon
<1>8. page' = [page EXCEPT ![p] = n]
  BY Zenon, <1>1, <1>7 DEF revoke, Turn
<1>9. /\ DOMAIN n = Fields /\ n.at = "ask" /\ n.goal = me.goal /\ n.redeeming = me.redeeming
      /\ n.req = me.req /\ n.sess = me.sess /\ n.conns = me.conns /\ n.bound = me.bound
      /\ n.handle = me.handle /\ n.asked = me.asked /\ n.done = me.done /\ n.failed = me.failed
      /\ n.skipped = me.skipped /\ n.closed = me.closed
  BY Zenon, <1>2, <1>7 DEF With, Fields
<1>10. ShapeOK(n)
  BY Zenon, <1>2, <1>9, <1>3, <1>6 DEF PageOK, ShapeOK
<1>11. CallOK(n, issuer', grants', signer')
  BY Zenon, <1>2, <1>9, <1>3, <1>6 DEF PageOK, CallOK
<1>12. Typed(n) /\ Inner(n, me)
  BY Zenon, <1>2, <1>9, <1>3, <1>6 DEF Memory, Typed, Steps, Goals, Inner
<1>13. PageOK(n, issuer', grants', signer')
  BY Zenon, <1>2, <1>9, <1>10, <1>11, <1>12, <1>3, <1>6, CallMoves
<1> QED BY Zenon, <1>5, <1>8, <1>13, WorldStep

\* The revoke has returned.
LEMMA AnsweredOK ==
    ASSUME NEW p, NEW me, NEW n, NEW i, NEW s, PageOK(me, i, grants, s), me = page[p],
           me.at = "ask" \/ me.goal = "sign", n = With(Answered(p), me)
    PROVE  PageOK(n, i, grants, s)
<1>1. DOMAIN me = Fields /\ Memory(me) /\ me.handle # NoHandle
  BY Zenon DEF PageOK, Memory, Typed, CallOK
<1>2. CASE me.asked = {}
  <2>1. n = With(Over, me)
    BY Zenon, <1>2 DEF Answered
  <2> QED BY Zenon, <2>1, OverOK
<1>3. CASE me.asked # {} /\ grants[me.handle.inner] = "revoked"
  <2>1. n = With([at |-> "mark", goal |-> "none", sess |-> None], me)
    BY Zenon, <1>3 DEF Answered
  <2>2. /\ DOMAIN n = Fields /\ n.at = "mark" /\ n.goal = "none" /\ n.sess = None
        /\ n.redeeming = me.redeeming /\ n.req = me.req /\ n.conns = me.conns
        /\ n.bound = me.bound /\ n.handle = me.handle /\ n.asked = me.asked /\ n.done = me.done
        /\ n.failed = me.failed /\ n.skipped = me.skipped /\ n.closed = me.closed
    BY <1>1, <2>1 DEF With, Fields
  <2>3. ShapeOK(n)
    BY Zenon, <1>1, <2>2, <1>3 DEF PageOK, ShapeOK
  <2>4. CallOK(n, i, grants, s)
    BY Zenon, <1>1, <2>2, <1>3 DEF PageOK, CallOK
  <2>5. Typed(n) /\ Inner(n, me)
    BY <1>1, <2>2, <1>3 DEF Memory, Typed, Steps, Goals, Inner
  <2>6. me.asked # {} => Due(me) # {}
    BY Zenon, <1>1, <1>3 DEF PageOK, CleanupOK, ShapeOK
  <2>7. PageOK(n, i, grants, s)
    BY Zenon, <1>1, <2>2, <2>3, <2>4, <2>5, <2>6, <1>3, CallMoves
  <2> QED BY Zenon, <2>7
<1>4. CASE me.asked # {} /\ grants[me.handle.inner] # "revoked"
  <2>1. PICK e : e = me.failed \cup {"revoke"}
    BY Zenon
  <2>2. n = With([at |-> "effect", goal |-> "none", sess |-> None, failed |-> e], me)
    BY Zenon, <1>4, <2>1 DEF Answered
  <2>3. /\ DOMAIN n = Fields /\ n.at = "effect" /\ n.goal = "none" /\ n.sess = None
        /\ n.failed = e /\ n.redeeming = me.redeeming /\ n.req = me.req /\ n.conns = me.conns
        /\ n.bound = me.bound /\ n.handle = me.handle /\ n.asked = me.asked /\ n.done = me.done
        /\ n.skipped = me.skipped /\ n.closed = me.closed
    BY <1>1, <2>2 DEF With, Fields
  <2>4. Memory(n)
    BY <1>1, <2>1, <2>3 DEF Memory, Typed, Steps, Goals, EffectNames
  <2>5. ShapeOK(n)
    BY Zenon, <2>3 DEF ShapeOK
  <2>6. CallOK(n, i, grants, s)
    BY Zenon, <2>3 DEF PageOK, CallOK
  <2>7. CleanupOK(n, grants)
    BY <2>3 DEF PageOK, CleanupOK
  <2> QED BY Zenon, <2>4, <2>5, <2>6, <2>7 DEF PageOK
<1> QED BY Zenon, <1>2, <1>3, <1>4

LEMMA AskKeeps ==
    ASSUME IInv, NEW p \in Pages, askIssuer(p)
    PROVE  IInv'
<1>1. PICK me : me = page[p]
  BY Zenon
<1>2. PageOK(me, issuer, grants, signer) /\ Memory(me) /\ DOMAIN me = Fields /\ me.at = "ask"
  BY Zenon, <1>1, Here DEF askIssuer
<1>3. me.goal = "none" /\ me.handle # NoHandle
  BY Zenon, <1>2 DEF PageOK, ShapeOK, CallOK
<1>4. CASE grants[me.handle.grant] \in {"revoking", "revoked"}
  <2>1. PICK n : n = With([at |-> "load", goal |-> "sign"], me)
    BY Zenon
  <2>2. page' = [page EXCEPT ![p] = n] /\ UNCHANGED <<stored, remote>>
    BY Zenon, <1>4, <1>1, <2>1 DEF askIssuer, Turn
  <2>3. /\ DOMAIN n = Fields /\ n.at = "load" /\ n.goal = "sign" /\ n.redeeming = me.redeeming
        /\ n.req = me.req /\ n.sess = me.sess /\ n.conns = me.conns /\ n.bound = me.bound
        /\ n.handle = me.handle /\ n.asked = me.asked /\ n.done = me.done
        /\ n.failed = me.failed /\ n.skipped = me.skipped /\ n.closed = me.closed
    BY Zenon, <1>2, <2>1 DEF With, Fields
  <2>4. Going(me.handle.grant, grants)
    BY Zenon, <1>4 DEF Going
  <2>5. ShapeOK(n)
    BY Zenon, <1>2, <2>3, <1>3, <2>4 DEF PageOK, ShapeOK
  <2>6. CallOK(n, issuer, grants, signer)
    BY Zenon, <1>2, <2>3, <1>3, <2>4 DEF PageOK, CallOK
  <2>7. Typed(n) /\ Inner(n, me)
    BY Zenon, <1>2, <2>3, <1>3, <2>4 DEF Memory, Typed, Steps, Goals, Inner
  <2>8. me.asked # {} => Due(me) # {}
    BY Zenon, <1>2, <1>3 DEF PageOK, CleanupOK, ShapeOK
  <2>9. PageOK(n, issuer, grants, signer)
    BY Zenon, <1>2, <2>3, <2>5, <2>6, <2>7, <2>8, <1>3, <2>4, CallMoves
  <2> QED BY Zenon, <2>2, <2>9, LocalStep
<1>5. CASE grants[me.handle.grant] \notin {"revoking", "revoked"}
  <2>1. PICK n : n = With(Answered(p), me)
    BY Zenon
  <2>2. page' = [page EXCEPT ![p] = n] /\ UNCHANGED <<stored, remote>>
    BY Zenon, <1>5, <1>1, <2>1 DEF askIssuer, Turn
  <2>3. PageOK(n, issuer, grants, signer)
    BY Zenon, <1>1, <1>2, <2>1, AnsweredOK
  <2> QED BY Zenon, <2>2, <2>3, LocalStep
<1> QED BY Zenon, <1>4, <1>5

LEMMA InvalidateKeeps ==
    ASSUME IInv, NEW p \in Pages, invalidateAtIssuer(p)
    PROVE  IInv'
<1>1. PICK me : me = page[p]
  BY Zenon
<1>2. PageOK(me, issuer, grants, signer) /\ Memory(me) /\ DOMAIN me = Fields /\ me.at = "invalidate"
  BY Zenon, <1>1, Here DEF invalidateAtIssuer
<1>3. /\ me.goal = "sign" /\ me.handle # NoHandle /\ Going(me.handle.grant, grants)
      /\ me.handle.grant \in Requests
  BY Zenon, <1>2 DEF PageOK, ShapeOK, CallOK, HandleOK, Spent
<1>4. PICK n : n = With(Answered(p), me)
  BY Zenon
<1>5. page' = [page EXCEPT ![p] = n]
  BY Zenon, <1>1, <1>4 DEF invalidateAtIssuer, Turn
<1>6. UNCHANGED <<key, record, created, pointer, pending, context, grants, checkpoint, issuer, signer>>
  BY Zenon DEF invalidateAtIssuer, stored
<1>7. PageOK(n, issuer, grants, signer)
  BY Zenon, <1>1, <1>2, <1>3, <1>4, AnsweredOK
<1>8. invalid' = invalid \cup {me.handle.grant} \/ invalid' = invalid
  BY Zenon, <1>1 DEF invalidateAtIssuer
<1>9. StoreOK'
  BY Zenon, <1>3, <1>6, <1>8 DEF IInv, StoreOK
<1>10. AdoptedOK'
  <2>1. \A r \in invalid' : Going(r, grants')
    BY Zenon, <1>3, <1>6, <1>8 DEF IInv, AdoptedOK
  <2> QED BY Zenon, <1>6, <2>1 DEF IInv, AdoptedOK
<1>11. Forward
  BY Zenon, <1>6, NothingMoves
<1>12. PageOK(n, issuer', grants', signer')
  BY Zenon, <1>6, <1>7
<1> QED BY Zenon, <1>9, <1>10, <1>11, <1>12, <1>5, WorldStep

-----------------------------------------------------------------------------
(* Disconnecting, and a page that goes away. *)

\* A page as it is opened, or closed.
Blank(n) ==
    /\ DOMAIN n = Fields /\ n.at = "idle" /\ n.goal = "none" /\ n.redeeming = FALSE
    /\ n.req = None /\ n.sess = None /\ n.conns = [s \in Sessions |-> "none"] /\ n.bound = None
    /\ n.handle = NoHandle /\ n.asked = {} /\ n.done = {} /\ n.failed = {} /\ n.skipped = FALSE
    /\ n.closed \in BOOLEAN

LEMMA BlankOK ==
    ASSUME NEW n, Blank(n), NEW i, NEW g, NEW s
    PROVE  PageOK(n, i, g, s)
<1>1. Memory(n)
  BY Zenon DEF Memory, Typed, Blank, Steps, Goals
<1>2. ShapeOK(n)
  BY Zenon DEF ShapeOK, Blank
<1>3. CallOK(n, i, g, s)
  BY Zenon DEF CallOK, Blank
<1>4. CleanupOK(n, g)
  BY Zenon DEF CleanupOK, Blank
<1> QED BY Zenon, <1>1, <1>2, <1>3, <1>4 DEF PageOK

LEMMA OpenedBlank == Blank(Opened)
BY Zenon DEF Blank, Opened, Fields

LEMMA ClosedBlank ==
    ASSUME NEW me, DOMAIN me = Fields, NEW n, n = With(Closed, me)
    PROVE  Blank(n)
BY Zenon DEF Blank, Opened, Closed, With, Fields

LEMMA ReloadKeeps ==
    ASSUME IInv, NEW p \in Pages, Reload(p)
    PROVE  IInv'
<1>1. PICK n : n = Opened
  BY Zenon
<1>2. page' = [page EXCEPT ![p] = n] /\ UNCHANGED <<stored, remote>>
  BY Zenon, <1>1 DEF Reload
<1>3. PageOK(n, issuer, grants, signer)
  BY Zenon, <1>1, OpenedBlank, BlankOK
<1> QED BY Zenon, <1>2, <1>3, LocalStep

LEMMA DisconnectKeeps ==
    ASSUME IInv, NEW p \in Pages, NEW withGrant \in BOOLEAN, disconnect(p, withGrant)
    PROVE  IInv'
<1>1. PICK me : me = page[p]
  BY Zenon
<1>2. PageOK(me, issuer, grants, signer) /\ Memory(me) /\ DOMAIN me = Fields /\ me.at = "idle"
  BY Zenon, <1>1, Here DEF disconnect, Ready
<1>3. me.goal = "none" /\ (withGrant => me.handle # NoHandle)
  BY Zenon, <1>1, <1>2 DEF PageOK, ShapeOK, disconnect
<1>4. CASE me.bound = None
  <2>1. PICK n : n = With(Closed, me)
    BY Zenon
  <2>2. page' = [page EXCEPT ![p] = n] /\ UNCHANGED <<stored, remote>>
    BY Zenon, <1>4, <1>1, <2>1 DEF disconnect, Turn
  <2>3. PageOK(n, issuer, grants, signer)
    BY Zenon, <1>2, <2>1, ClosedBlank, BlankOK
  <2> QED BY Zenon, <2>2, <2>3, LocalStep
<1>5. CASE me.bound # None
  <2>1. PICK needed \in BOOLEAN : needed = (withGrant /\ grants[me.handle.inner] # "revoked")
    BY Zenon
  <2>2. PICK asked : asked = IF needed THEN EffectNames ELSE EffectNames \ {"revoke"}
    BY Zenon
  <2>3. PICK read \in readCompleted(p) :
           Turn(p, [at |-> "effect", done |-> read, skipped |-> needed /\ "revoke" \in read, asked |-> asked])
    BY Zenon, <1>5, <1>1, <2>1, <2>2 DEF disconnect
  <2>4. read \subseteq EffectNames
    BY <1>5, <1>1, <1>2 DEF readCompleted, IInv, StoreOK, Memory, Typed
  <2>5. PICK skipped \in BOOLEAN : skipped = (needed /\ "revoke" \in read)
    BY Zenon
  <2>6. PICK n : n = With([at |-> "effect", done |-> read, skipped |-> skipped, asked |-> asked], me)
    BY Zenon
  <2>7. page' = [page EXCEPT ![p] = n] /\ UNCHANGED <<stored, remote>>
    BY Zenon, <2>3, <2>5, <1>1, <2>6 DEF disconnect, Turn
  <2>8. /\ DOMAIN n = Fields /\ n.at = "effect" /\ n.asked = asked /\ n.done = read
        /\ n.skipped = skipped /\ n.goal = me.goal /\ n.redeeming = me.redeeming
        /\ n.req = me.req /\ n.sess = me.sess /\ n.conns = me.conns /\ n.bound = me.bound
        /\ n.handle = me.handle /\ n.failed = me.failed /\ n.closed = me.closed
    BY Zenon, <1>2, <2>6 DEF With, Fields
  <2>9. Memory(n)
    BY <1>2, <2>2, <2>4, <2>5, <2>8 DEF Memory, Typed, Steps, EffectNames
  <2>10. ShapeOK(n)
    BY Zenon, <1>3, <2>8 DEF ShapeOK
  <2>11. CallOK(n, issuer, grants, signer)
    BY Zenon, <1>2, <1>3, <2>8 DEF PageOK, CallOK
  <2>12. "revoke" \in asked => needed
    BY Zenon, <2>2
  <2>13. CleanupOK(n, grants)
    BY Zenon, <1>3, <2>1, <2>5, <2>12, <2>8 DEF CleanupOK
  <2>14. PageOK(n, issuer, grants, signer)
    BY Zenon, <2>9, <2>10, <2>11, <2>13 DEF PageOK
  <2> QED BY Zenon, <2>7, <2>14, LocalStep
<1> QED BY Zenon, <1>4, <1>5

LEMMA RevokeEffectKeeps ==
    ASSUME IInv, NEW p \in Pages, revokeEffect(p)
    PROVE  IInv'
<1>1. PICK me : me = page[p]
  BY Zenon
<1>2. PageOK(me, issuer, grants, signer) /\ Memory(me) /\ DOMAIN me = Fields /\ me.at = "effect"
  BY Zenon, <1>1, Here DEF revokeEffect, Attempts
<1>3. "revoke" \in Due(me)
  BY Zenon, <1>1 DEF revokeEffect, Attempts
<1>4. me.goal = "none" /\ me.handle # NoHandle /\ Due(me) # {}
  BY Zenon, <1>2, <1>3 DEF PageOK, ShapeOK, CleanupOK, Due
<1>5. me.handle.inner \in Requests /\ grants[me.handle.inner] # "absent"
  BY Zenon, <1>2, <1>4 DEF PageOK, CallOK, HandleOK, Spent
<1>6. Forward /\ StoreOK' /\ AdoptedOK'
  BY Zenon, <1>1, <1>5, RevokeMoves DEF revokeEffect
<1>7. PageOK(me, issuer', grants', signer')
  BY Zenon, <1>2, <1>6, Remembered DEF Forward
<1>8. PICK n : n = With([at |-> "ask"], me)
  BY Zenon
<1>9. page' = [page EXCEPT ![p] = n]
  BY Zenon, <1>1, <1>8 DEF revokeEffect, Turn
<1>10. /\ DOMAIN n = Fields /\ n.at = "ask" /\ n.goal = me.goal /\ n.redeeming = me.redeeming
      /\ n.req = me.req /\ n.sess = me.sess /\ n.conns = me.conns /\ n.bound = me.bound
      /\ n.handle = me.handle /\ n.asked = me.asked /\ n.done = me.done /\ n.failed = me.failed
      /\ n.skipped = me.skipped /\ n.closed = me.closed
  BY Zenon, <1>2, <1>8 DEF With, Fields
<1>11. ShapeOK(n)
  BY Zenon, <1>2, <1>10, <1>4, <1>7 DEF PageOK, ShapeOK
<1>12. CallOK(n, issuer', grants', signer')
  BY Zenon, <1>2, <1>10, <1>4, <1>7 DEF PageOK, CallOK
<1>13. Typed(n) /\ Inner(n, me)
  BY Zenon, <1>2, <1>10, <1>4, <1>7 DEF Memory, Typed, Steps, Goals, Inner
<1>14. PageOK(n, issuer', grants', signer')
  BY Zenon, <1>2, <1>10, <1>11, <1>12, <1>13, <1>4, <1>7, CallMoves
<1> QED BY Zenon, <1>6, <1>9, <1>14, WorldStep

LEMMA SignOutKeeps ==
    ASSUME IInv, NEW p \in Pages, signOutEffect(p)
    PROVE  IInv'
<1>1. PICK me : me = page[p]
  BY Zenon
<1>2. PageOK(me, issuer, grants, signer) /\ Memory(me) /\ DOMAIN me = Fields /\ me.at = "effect"
  BY Zenon, <1>1, Here DEF signOutEffect, Attempts
<1>3. me.goal = "none" /\ Due(me) # {} /\ Current(me) # "revoke"
  BY Zenon, <1>1, <1>2 DEF signOutEffect, Attempts, PageOK, ShapeOK
<1>4. PICK conns : conns = [me.conns EXCEPT ![me.bound] = IF @ = "open" THEN "ended" ELSE @]
  BY Zenon
<1>5. conns \in [Sessions -> {"none", "open", "ended"}]
  BY Zenon, <1>2, <1>4 DEF Memory, Typed
<1>6. PICK n : n = With([at |-> "mark", conns |-> conns], me)
  BY Zenon
<1>7. page' = [page EXCEPT ![p] = n] /\ UNCHANGED <<stored, remote>>
  BY Zenon, <1>4, <1>1, <1>6 DEF signOutEffect, Turn
<1>8. /\ DOMAIN n = Fields /\ n.at = "mark" /\ n.conns = conns /\ n.goal = me.goal
      /\ n.redeeming = me.redeeming /\ n.req = me.req /\ n.sess = me.sess /\ n.bound = me.bound
      /\ n.handle = me.handle /\ n.asked = me.asked /\ n.done = me.done /\ n.failed = me.failed
      /\ n.skipped = me.skipped /\ n.closed = me.closed
  BY Zenon, <1>2, <1>6 DEF With, Fields
<1>9. ShapeOK(n)
  BY Zenon, <1>2, <1>8, <1>3, <1>5 DEF PageOK, ShapeOK
<1>10. CallOK(n, issuer, grants, signer)
  BY Zenon, <1>2, <1>8, <1>3, <1>5 DEF PageOK, CallOK
<1>11. Typed(n) /\ Inner(n, me)
  BY Zenon, <1>2, <1>8, <1>3, <1>5 DEF Memory, Typed, Steps, Goals, Inner
<1>12. PageOK(n, issuer, grants, signer)
  BY Zenon, <1>2, <1>8, <1>9, <1>10, <1>11, <1>3, <1>5, CallMoves
<1> QED BY Zenon, <1>7, <1>12, LocalStep

LEMMA ForgetLocalKeeps ==
    ASSUME IInv, NEW p \in Pages, forgetLocalEffect(p)
    PROVE  IInv'
<1>1. PICK me : me = page[p]
  BY Zenon
<1>2. PageOK(me, issuer, grants, signer) /\ Memory(me) /\ DOMAIN me = Fields /\ me.at = "effect"
  BY Zenon, <1>1, Here DEF forgetLocalEffect, Attempts
<1>3. me.goal = "none" /\ Due(me) # {} /\ Current(me) # "revoke"
  BY Zenon, <1>1, <1>2 DEF forgetLocalEffect, Attempts, PageOK, ShapeOK
<1>4. PICK deleted \in BOOLEAN, cleared \in BOOLEAN :
         /\ key' = IF deleted THEN None ELSE key
         /\ context' = IF cleared THEN [context EXCEPT ![me.bound] = None] ELSE context
         /\ Turn(p, IF deleted /\ cleared THEN [at |-> "mark"]
                    ELSE [failed |-> me.failed \cup {"forgetLocal"}])
  BY Zenon, <1>1 DEF forgetLocalEffect
<1>5. UNCHANGED <<record, created, pointer, pending, grants, checkpoint, issuer, signer, invalid>>
  BY Zenon DEF forgetLocalEffect, remote
<1>6. StoreOK'
  <2>1. key' \in Sessions \cup {None}
    BY Zenon, <1>4 DEF IInv, StoreOK
  <2>2. context' \in [Sessions -> Requests \cup {None}]
    BY Zenon, <1>4 DEF IInv, StoreOK
  <2> QED BY Zenon, <1>5, <2>1, <2>2 DEF IInv, StoreOK
<1>7. AdoptedOK'
  <2>1. ASSUME NEW s \in Sessions, context'[s] # None PROVE context'[s] = context[s]
    BY Zenon, <1>4, <2>1 DEF IInv, StoreOK
  <2> QED BY Zenon, <1>5, <2>1 DEF IInv, AdoptedOK
<1>8. UNCHANGED <<grants, remote>>
  BY Zenon, <1>5 DEF remote
<1>9. CASE deleted /\ cleared
  <2>1. PICK n : n = With([at |-> "mark"], me)
    BY Zenon
  <2>2. page' = [page EXCEPT ![p] = n]
    BY Zenon, <1>4, <1>9, <1>1, <2>1 DEF forgetLocalEffect, Turn
  <2>3. /\ DOMAIN n = Fields /\ n.at = "mark" /\ n.goal = me.goal /\ n.redeeming = me.redeeming
        /\ n.req = me.req /\ n.sess = me.sess /\ n.conns = me.conns /\ n.bound = me.bound
        /\ n.handle = me.handle /\ n.asked = me.asked /\ n.done = me.done
        /\ n.failed = me.failed /\ n.skipped = me.skipped /\ n.closed = me.closed
    BY Zenon, <1>2, <2>1 DEF With, Fields
  <2>4. ShapeOK(n)
    BY Zenon, <1>2, <2>3, <1>3 DEF PageOK, ShapeOK
  <2>5. CallOK(n, issuer, grants, signer)
    BY Zenon, <1>2, <2>3, <1>3 DEF PageOK, CallOK
  <2>6. Typed(n) /\ Inner(n, me)
    BY Zenon, <1>2, <2>3, <1>3 DEF Memory, Typed, Steps, Goals, Inner
  <2>7. PageOK(n, issuer, grants, signer)
    BY Zenon, <1>2, <2>3, <2>4, <2>5, <2>6, <1>3, CallMoves
  <2> QED BY Zenon, <1>6, <1>7, <1>8, <2>2, <2>7, StoreStep
<1>10. CASE ~(deleted /\ cleared)
  <2>1. PICK e : e = me.failed \cup {"forgetLocal"}
    BY Zenon
  <2>2. PICK n : n = With([failed |-> e], me)
    BY Zenon
  <2>3. page' = [page EXCEPT ![p] = n]
    BY Zenon, <1>4, <1>10, <2>1, <1>1, <2>2 DEF forgetLocalEffect, Turn
  <2>4. /\ DOMAIN n = Fields /\ n.failed = e /\ n.at = me.at /\ n.goal = me.goal
        /\ n.redeeming = me.redeeming /\ n.req = me.req /\ n.sess = me.sess
        /\ n.conns = me.conns /\ n.bound = me.bound /\ n.handle = me.handle
        /\ n.asked = me.asked /\ n.done = me.done /\ n.skipped = me.skipped
        /\ n.closed = me.closed
    BY Zenon, <1>2, <2>2 DEF With, Fields
  <2>5. Memory(n)
    BY Zenon, <1>2, <2>1, <2>4 DEF Memory, Typed, EffectNames
  <2>6. ShapeOK(n)
    BY Zenon, <1>2, <2>4 DEF PageOK, ShapeOK
  <2>7. CallOK(n, issuer, grants, signer)
    BY Zenon, <1>2, <2>4 DEF PageOK, CallOK
  <2>8. CleanupOK(n, grants)
    BY Zenon, <1>2, <1>3, <2>4 DEF PageOK, CleanupOK
  <2>9. PageOK(n, issuer, grants, signer)
    BY Zenon, <2>5, <2>6, <2>7, <2>8 DEF PageOK
  <2> QED BY Zenon, <1>6, <1>7, <1>8, <2>3, <2>9, StoreStep
<1> QED BY Zenon, <1>9, <1>10

LEMMA CloseKeeps ==
    ASSUME IInv, NEW p \in Pages, closeEffect(p)
    PROVE  IInv'
<1>1. PICK me : me = page[p]
  BY Zenon
<1>2. PageOK(me, issuer, grants, signer) /\ Memory(me) /\ DOMAIN me = Fields /\ me.at = "effect"
  BY Zenon, <1>1, Here DEF closeEffect, Attempts
<1>3. "close" \in Due(me) /\ Current(me) = "close"
  BY Zenon, <1>1 DEF closeEffect, Attempts
<1>4. me.goal = "none" /\ Due(me) # {} /\ me.asked \ {"close"} \subseteq me.done
  BY Zenon, <1>2, <1>3 DEF PageOK, ShapeOK, Due, Blocked
<1>5. PICK conns : conns = [me.conns EXCEPT ![me.bound] = "ended"]
  BY Zenon
<1>6. conns \in [Sessions -> {"none", "open", "ended"}]
  BY Zenon, <1>2, <1>5 DEF Memory, Typed
<1>7. PICK n : n = With([at |-> "mark", handle |-> NoHandle, conns |-> conns], me)
  BY Zenon
<1>8. page' = [page EXCEPT ![p] = n] /\ UNCHANGED <<stored, remote>>
  BY Zenon, <1>5, <1>1, <1>7 DEF closeEffect, Turn
<1>9. /\ DOMAIN n = Fields /\ n.at = "mark" /\ n.conns = conns /\ n.handle = NoHandle
      /\ n.goal = me.goal /\ n.redeeming = me.redeeming /\ n.req = me.req /\ n.sess = me.sess
      /\ n.bound = me.bound /\ n.asked = me.asked /\ n.done = me.done /\ n.failed = me.failed
      /\ n.skipped = me.skipped /\ n.closed = me.closed
  BY Zenon, <1>2, <1>7 DEF With, Fields
<1>10. Memory(n)
  BY Zenon, <1>2, <1>6, <1>9 DEF Memory, Typed, Steps
<1>11. ShapeOK(n)
  BY Zenon, <1>4, <1>9 DEF ShapeOK
<1>12. CallOK(n, issuer, grants, signer)
  BY Zenon, <1>4, <1>9 DEF CallOK
<1>13. Due(n) = Due(me) /\ Current(n) = Current(me)
  BY Zenon, <1>9, DueSame
<1>14. CleanupOK(n, grants)
  BY Zenon, <1>3, <1>4, <1>13, <1>9 DEF CleanupOK
<1>15. PageOK(n, issuer, grants, signer)
  BY Zenon, <1>10, <1>11, <1>12, <1>14 DEF PageOK
<1> QED BY Zenon, <1>8, <1>15, LocalStep

LEMMA WriteCheckpointKeeps ==
    ASSUME IInv, NEW p \in Pages, writeCheckpoint(p)
    PROVE  IInv'
<1>1. PICK me : me = page[p]
  BY Zenon
<1>2. PageOK(me, issuer, grants, signer) /\ Memory(me) /\ DOMAIN me = Fields /\ me.at = "mark"
  BY Zenon, <1>1, Here DEF writeCheckpoint
<1>3. me.goal = "none" /\ Due(me) # {}
  BY Zenon, <1>2 DEF PageOK, ShapeOK, CleanupOK
<1>4. PICK c : c = Current(me)
  BY Zenon
<1>5. c \in EffectNames
  BY Zenon, <1>2, <1>4, <1>3, CurrentDue DEF Memory
<1>6. UNCHANGED <<key, record, created, pointer, pending, context, grants, issuer, signer, invalid>>
  BY Zenon DEF writeCheckpoint, remote
<1>7. UNCHANGED <<grants, remote>>
  BY Zenon, <1>6 DEF remote
<1>8. AdoptedOK'
  BY Zenon, <1>6, NothingMoves, AdoptedStays
<1>9. me.done \cup {c} \subseteq EffectNames /\ me.failed \cup {c} \subseteq EffectNames
  BY Zenon, <1>5, <1>2 DEF Memory
<1>10. CASE /\ checkpoint' = [checkpoint EXCEPT ![me.bound] = me.done \cup {c}]
           /\ Turn(p, [at |-> "effect", done |-> me.done \cup {c}])
  <2>1. PICK e : e = me.done \cup {c}
    BY Zenon
  <2>2. PICK n : n = With([at |-> "effect", done |-> e], me)
    BY Zenon
  <2>3. page' = [page EXCEPT ![p] = n]
    BY Zenon, <1>10, <2>1, <1>1, <2>2 DEF writeCheckpoint, Turn
  <2>4. /\ DOMAIN n = Fields /\ n.at = "effect" /\ n.done = e /\ n.goal = me.goal
        /\ n.redeeming = me.redeeming /\ n.req = me.req /\ n.sess = me.sess
        /\ n.conns = me.conns /\ n.bound = me.bound /\ n.handle = me.handle
        /\ n.asked = me.asked /\ n.failed = me.failed /\ n.skipped = me.skipped
        /\ n.closed = me.closed
    BY Zenon, <1>2, <2>2 DEF With, Fields
  <2>5. Memory(n)
    BY Zenon, <1>2, <1>9, <2>1, <2>4 DEF Memory, Typed, Steps
  <2>6. ShapeOK(n)
    BY Zenon, <1>3, <2>4 DEF ShapeOK
  <2>7. CallOK(n, issuer, grants, signer)
    BY Zenon, <1>2, <1>3, <2>4 DEF PageOK, CallOK
  <2>8. CleanupOK(n, grants)
    BY Zenon, <1>2, <1>4, <1>3, <2>1, <2>4 DEF PageOK, CleanupOK
  <2>9. PageOK(n, issuer, grants, signer)
    BY Zenon, <2>5, <2>6, <2>7, <2>8 DEF PageOK
  <2>10. StoreOK'
    BY Zenon, <1>9, <1>6, <1>10 DEF IInv, StoreOK
  <2> QED BY Zenon, <1>7, <1>8, <2>10, <2>3, <2>9, StoreStep
<1>11. CASE Turn(p, [at |-> "effect", failed |-> me.failed \cup {c}]) /\ UNCHANGED checkpoint
  <2>1. PICK e : e = me.failed \cup {c}
    BY Zenon
  <2>2. PICK n : n = With([at |-> "effect", failed |-> e], me)
    BY Zenon
  <2>3. page' = [page EXCEPT ![p] = n]
    BY Zenon, <1>11, <2>1, <1>1, <2>2 DEF writeCheckpoint, Turn
  <2>4. /\ DOMAIN n = Fields /\ n.at = "effect" /\ n.failed = e /\ n.goal = me.goal
        /\ n.redeeming = me.redeeming /\ n.req = me.req /\ n.sess = me.sess
        /\ n.conns = me.conns /\ n.bound = me.bound /\ n.handle = me.handle
        /\ n.asked = me.asked /\ n.done = me.done /\ n.skipped = me.skipped
        /\ n.closed = me.closed
    BY Zenon, <1>2, <2>2 DEF With, Fields
  <2>5. Memory(n)
    BY Zenon, <1>2, <1>9, <2>1, <2>4 DEF Memory, Typed, Steps
  <2>6. ShapeOK(n)
    BY Zenon, <1>3, <2>4 DEF ShapeOK
  <2>7. CallOK(n, issuer, grants, signer)
    BY Zenon, <1>2, <1>3, <2>4 DEF PageOK, CallOK
  <2>8. CleanupOK(n, grants)
    BY Zenon, <1>2, <1>3, <2>4 DEF PageOK, CleanupOK
  <2>9. PageOK(n, issuer, grants, signer)
    BY Zenon, <2>5, <2>6, <2>7, <2>8 DEF PageOK
  <2>10. StoreOK'
    BY Zenon, <1>6, <1>11 DEF IInv, StoreOK
  <2> QED BY Zenon, <1>7, <1>8, <2>10, <2>3, <2>9, StoreStep
<1> QED BY Zenon, <1>10, <1>11, <1>1, <1>4 DEF writeCheckpoint

LEMMA FinishKeeps ==
    ASSUME IInv, NEW p \in Pages, finishCleanup(p)
    PROVE  IInv'
<1>1. PICK me : me = page[p]
  BY Zenon
<1>2. PageOK(me, issuer, grants, signer) /\ Memory(me) /\ DOMAIN me = Fields /\ me.at = "effect"
  BY Zenon, <1>1, Here DEF finishCleanup
<1>3. UNCHANGED <<key, record, created, pointer, pending, context, grants, issuer, signer, invalid>>
  BY Zenon DEF finishCleanup, remote
<1>4. UNCHANGED <<grants, remote>>
  BY Zenon, <1>3 DEF remote
<1>5. AdoptedOK'
  BY Zenon, <1>3, NothingMoves, AdoptedStays
<1>6. StoreOK'
  <2>1. checkpoint' = checkpoint \/ checkpoint' = [checkpoint EXCEPT ![me.bound] = {}]
    BY Zenon, <1>1 DEF finishCleanup
  <2>2. checkpoint' \in [Sessions -> SUBSET EffectNames]
    BY Zenon, <2>1 DEF IInv, StoreOK
  <2> QED BY Zenon, <1>3, <2>2 DEF IInv, StoreOK
<1>7. CASE me.asked \subseteq me.done
  <2>1. PICK n : n = With(Closed, me)
    BY Zenon
  <2>2. page' = [page EXCEPT ![p] = n]
    BY Zenon, <1>7, <1>1, <2>1 DEF finishCleanup, Turn
  <2>3. PageOK(n, issuer, grants, signer)
    BY Zenon, <1>2, <2>1, ClosedBlank, BlankOK
  <2> QED BY Zenon, <1>4, <1>5, <1>6, <2>2, <2>3, StoreStep
<1>8. CASE ~(me.asked \subseteq me.done)
  <2>1. PICK n : n = With(Over, me)
    BY Zenon
  <2>2. page' = [page EXCEPT ![p] = n]
    BY Zenon, <1>8, <1>1, <2>1 DEF finishCleanup, Turn
  <2>3. PageOK(n, issuer, grants, signer)
    BY Zenon, <1>2, <2>1, OverOK
  <2> QED BY Zenon, <1>4, <1>5, <1>6, <2>2, <2>3, StoreStep
<1> QED BY Zenon, <1>7, <1>8

\* The root decides, or a request expires: neither touches a spent code.
LEMMA IssuerKeeps ==
    ASSUME IInv, NEW r \in Requests, RootDecides(r) \/ RequestExpires(r)
    PROVE  IInv'
<1>1. /\ UNCHANGED <<key, record, created, pointer, pending, context, grants, checkpoint>>
      /\ UNCHANGED <<signer, invalid, page>>
  BY Zenon DEF RootDecides, RequestExpires, stored
<1>2. PICK e \in {"approved", "denied", "expired"} : issuer' = [issuer EXCEPT ![r] = e]
  BY Zenon DEF RootDecides, RequestExpires
<1>3. issuer[r] # "spent"
  BY Zenon DEF RootDecides, RequestExpires
<1>4. Forward
  BY Zenon, <1>1, <1>2, <1>3 DEF Forward, Moves, Going, IInv, StoreOK
<1>5. StoreOK'
  BY Zenon, <1>1, <1>2 DEF IInv, StoreOK
<1> QED BY Zenon, <1>1, <1>4, <1>5, AdoptedStays, AllPagesStay DEF IInv

-----------------------------------------------------------------------------
(* The theorems. *)

LEMMA InitOK == Init => IInv
<1> SUFFICES ASSUME Init PROVE IInv
  BY Zenon
<1>1. StoreOK
  BY ClientAssumption DEF Init, StoreOK, None
<1>2. AdoptedOK
  BY Zenon DEF Init, AdoptedOK
<1>3. PagesOK
  <2>1. page = [p \in Pages |-> page[p]] /\ \A p \in Pages : page[p] = Opened
    BY Zenon DEF Init
  <2> QED BY Zenon, <2>1, OpenedBlank, BlankOK DEF PagesOK
<1> QED BY Zenon, <1>1, <1>2, <1>3 DEF IInv

LEMMA NextOK == IInv /\ [Next]_vars => IInv'
<1> SUFFICES ASSUME IInv, [Next]_vars PROVE IInv'
  BY Zenon
<1>1. CASE UNCHANGED vars
  <2>1. /\ UNCHANGED <<key, record, created, pointer, pending, context, grants, checkpoint>>
        /\ UNCHANGED <<issuer, signer, invalid, page>>
    BY Zenon, <1>1 DEF vars
  <2>2. StoreOK'
    BY Zenon, <2>1 DEF IInv, StoreOK
  <2> QED BY Zenon, <2>1, <2>2, NothingMoves, AdoptedStays, AllPagesStay DEF IInv
<1>2. ASSUME NEW p \in Pages,
             loadServiceSession(p) \/ StoreKey(p) \/ WriteRecord(p) \/ requestPermission(p)
             \/ authorize(p) \/ writePending(p) \/ redeemPending(p) \/ redeem(p) \/ clearPending(p)
      PROVE  IInv'
  BY Zenon, <1>2, LoadKeeps, StoreKeyKeeps, WriteRecordKeeps, RequestKeeps, AuthorizeKeeps,
     WritePendingKeeps, RedeemPendingKeeps, RedeemKeeps, ClearPendingKeeps
<1>3. ASSUME NEW p \in Pages,
             verifyGrant(p) \/ bind(p) \/ writePointer(p) \/ persistGrant(p) \/ writeContext(p)
             \/ resume(p) \/ resumeWork(p) \/ StoreFails(p)
      PROVE  IInv'
  BY Zenon, <1>3, VerifyKeeps, BindKeeps, WritePointerKeeps, PersistKeeps, WriteContextKeeps,
     ResumeKeeps, ResumeWorkKeeps, StoreFailsKeeps
<1>4. ASSUME NEW p \in Pages,
             revoke(p) \/ askIssuer(p) \/ invalidateAtIssuer(p)
             \/ \E withGrant \in BOOLEAN : disconnect(p, withGrant)
      PROVE  IInv'
  BY Zenon, <1>4, RevokeKeeps, AskKeeps, InvalidateKeeps, DisconnectKeeps
<1>5. ASSUME NEW p \in Pages,
             revokeEffect(p) \/ signOutEffect(p) \/ forgetLocalEffect(p) \/ closeEffect(p)
             \/ writeCheckpoint(p) \/ finishCleanup(p) \/ Reload(p)
      PROVE  IInv'
  BY Zenon, <1>5, RevokeEffectKeeps, SignOutKeeps, ForgetLocalKeeps, CloseKeeps,
     WriteCheckpointKeeps, FinishKeeps, ReloadKeeps
<1>6. ASSUME NEW r \in Requests, RootDecides(r) \/ RequestExpires(r)
      PROVE  IInv'
  BY Zenon, <1>6, IssuerKeeps
<1> QED BY Zenon, <1>1, <1>2, <1>3, <1>4, <1>5, <1>6 DEF Next

\* The inductive invariant: what a page remembers of the issuer, the Grants and
\* the sessions stays true whatever the other pages and the issuer do.
THEOREM ClientInvariant == Spec => []IInv
<1> QED BY InitOK, NextOK, PTL DEF Spec

\* The stores, the issuer and the memory of the pages keep their types.
THEOREM ClientTypeCorrect == Spec => []TypeOK
<1>1. IInv => TypeOK
  <2> SUFFICES ASSUME IInv PROVE TypeOK
    BY Zenon
  <2>1. ASSUME NEW p \in Pages
        PROVE  /\ page[p].at \in Steps /\ page[p].conns \in [Sessions -> {"none", "open", "ended"}]
               /\ page[p].bound \in Sessions \cup {None} /\ page[p].done \subseteq EffectNames
    BY Zenon, Here DEF Memory, Typed
  <2> QED BY Zenon, <2>1 DEF IInv, StoreOK, TypeOK
<1> QED BY ClientInvariant, <1>1, PTL

\* Whatever the other pages did to the stored session, a handle signs with the
\* session key its Grant and the reported request name; and the issuer is asked
\* to invalidate only a Grant that is revoking in this origin's store
\* (realmFor, withIssuerRevoke and invalidateAtIssuer).
THEOREM ClientBindsHandles == Spec => []HandleIsBound
<1>1. IInv => HandleIsBound
  <2> SUFFICES ASSUME IInv PROVE HandleIsBound
    BY Zenon
  <2>1. ASSUME NEW p \in Pages, page[p].handle # NoHandle
        PROVE  HandleOK(page[p].handle, issuer, grants, signer)
    BY Zenon, <2>1, Here DEF PageOK, CallOK
  <2> QED BY Zenon, <2>1 DEF HandleOK, Spent, IInv, AdoptedOK, Going, HandleIsBound
<1> QED BY ClientInvariant, <1>1, PTL

\* A disconnect that is given a Grant deletes the wrapping key only once the
\* Grant is revoked, or once an earlier disconnect of the binding had recorded
\* its revoke (cleanup/coordinator.ts, with the effects of create-oaath.ts).
THEOREM ClientForgetsRevoked == Spec => ForgottenIsRevoked
<1>1. IInv /\ [Next]_vars =>
         [\A p \in Pages :
            (Attempts(p, "forgetLocal") /\ page'[p] # page[p] /\ key' = None /\ "revoke" \in page[p].asked)
               => grants[page[p].handle.inner] = "revoked" \/ page[p].skipped]_vars
  <2> SUFFICES ASSUME IInv, NEW p \in Pages, Attempts(p, "forgetLocal"), "revoke" \in page[p].asked
               PROVE  grants[page[p].handle.inner] = "revoked" \/ page[p].skipped
    BY Zenon
  <2>1. PICK me : me = page[p]
    BY Zenon
  <2>2. PageOK(me, issuer, grants, signer)
    BY Zenon, <2>1, Here
  <2>3. "forgetLocal" \in Due(me) /\ "revoke" \in me.asked
    BY Zenon, <2>1 DEF Attempts
  <2>4. "revoke" \in me.done /\ "forgetLocal" \in me.asked \ me.done
    BY Zenon, <2>3 DEF Due, Blocked
  <2>5. grants[me.handle.inner] = "revoked" \/ me.skipped
    BY Zenon, <2>2, <2>3, <2>4 DEF PageOK, CleanupOK
  <2> QED BY Zenon, <2>1, <2>5
<1> QED BY ClientInvariant, <1>1, PTL DEF Spec, ForgottenIsRevoked

-----------------------------------------------------------------------------
(* The journal.  Two requesting pages share one journal, and the later request *)
(* replaces the earlier one; with one requesting page it is the request that   *)
(* page redeems.                                                               *)

OneRequester == \A p, q \in Requesters : p = q

\* The memory of the requesting page; j is the journal, i the issuer.
JournalOK(me, j, i) ==
    /\ me.at \in {"authorize", "journal"} \/ me.goal = "request" => j = None
    /\ me.at = "token" => me.req = j /\ j # None
    /\ me.at = "clear" /\ j # None => i[j] \in {"spent", "denied", "expired"}
    /\ me.redeeming => j # None /\ i[j] = "spent"

\* The memory of a page that never requests.
Aside(me) ==
    /\ me.at \notin {"authorize", "journal", "token", "clear"}
    /\ me.goal # "request" /\ ~me.redeeming

JPage(p, me, j, i) ==
    /\ p \in Requesters => JournalOK(me, j, i)
    /\ p \notin Requesters => Aside(me)

JInv == \A p \in Pages : JPage(p, page[p], pending, issuer)

LEMMA JStep ==
    ASSUME IInv, JInv, OneRequester, NEW p \in Pages, NEW n, page' = [page EXCEPT ![p] = n],
           JPage(p, n, pending', issuer'), p \in Requesters \/ UNCHANGED <<pending, issuer>>
    PROVE  JInv'
<1>1. page = [q \in Pages |-> page[q]]
  BY Zenon DEF IInv, PagesOK
<1>2. ASSUME NEW q \in Pages PROVE JPage(q, page'[q], pending', issuer')
  <2>1. CASE q = p
    <3>1. page'[q] = n
      BY Zenon, <1>1, <2>1
    <3> QED BY Zenon, <2>1, <3>1
  <2>2. CASE q # p
    <3>1. page'[q] = page[q] /\ JPage(q, page[q], pending, issuer)
      BY Zenon, <1>1, <2>2 DEF JInv
    <3>2. q \notin Requesters \/ UNCHANGED <<pending, issuer>>
      BY Zenon, <2>2 DEF OneRequester
    <3> QED BY Zenon, <3>1, <3>2 DEF JPage
  <2> QED BY Zenon, <2>1, <2>2
<1> QED BY Zenon, <1>2 DEF JInv

\* Changes of the memory that have nothing to do with the journal: nothing is
\* requested or redeemed, and the journal is cleared after a redemption only.
PlainChange(c, me) ==
    /\ "at" \in DOMAIN c => /\ c.at \notin {"journal", "token"}
                            /\ c.at = "clear" => me.redeeming
                            /\ c.at = "authorize" => me.goal = "request"
    /\ "at" \notin DOMAIN c => me.at \notin {"authorize", "journal", "token", "clear"}
    /\ "goal" \in DOMAIN c => c.goal # "request"
    /\ "redeeming" \in DOMAIN c => c.redeeming = FALSE

LEMMA PlainOK ==
    ASSUME NEW p, NEW me, DOMAIN me = Fields, NEW j, NEW i, JPage(p, me, j, i), NEW c,
           PlainChange(c, me), NEW n, n = With(c, me)
    PROVE  JPage(p, n, j, i)
<1>1. /\ n.at = IF "at" \in DOMAIN c THEN c.at ELSE me.at
      /\ n.goal = IF "goal" \in DOMAIN c THEN c.goal ELSE me.goal
      /\ n.redeeming = IF "redeeming" \in DOMAIN c THEN c.redeeming ELSE me.redeeming
  BY Zenon DEF With, Fields
<1>2. /\ n.at \notin {"journal", "token"} /\ (n.at = "clear" => me.redeeming)
      /\ n.at = "authorize" \/ n.goal = "request" => me.goal = "request"
      /\ n.redeeming = FALSE \/ n.redeeming = me.redeeming
  BY Zenon, <1>1 DEF PlainChange
<1>3. p \in Requesters => JournalOK(n, j, i)
  BY Zenon, <1>2 DEF JPage, JournalOK
<1>4. p \notin Requesters => Aside(n)
  BY Zenon, <1>2 DEF JPage, Aside
<1> QED BY Zenon, <1>3, <1>4 DEF JPage

\* A step that changes the memory of one page so, and not the journal.
PlainStep(p) ==
    /\ UNCHANGED <<pending, issuer>>
    /\ \E c : PlainChange(c, page[p]) /\ Turn(p, c)

LEMMA OverPlain ==
    ASSUME NEW me PROVE PlainChange(Over, me)
BY Zenon DEF PlainChange, Over

LEMMA ClosedPlain ==
    ASSUME NEW me PROVE PlainChange(Closed, me)
BY Zenon DEF PlainChange, Closed, Opened

LEMMA AdoptedPlain ==
    ASSUME NEW p PROVE PlainChange(Adopted(p), page[p])
BY Zenon DEF PlainChange, Adopted, Over

LEMMA AnsweredPlain ==
    ASSUME NEW p PROVE PlainChange(Answered(p), page[p])
<1>1. PlainChange([at |-> "mark", goal |-> "none", sess |-> None], page[p])
  BY Zenon DEF PlainChange
<1>2. ASSUME NEW e
      PROVE  PlainChange([at |-> "effect", goal |-> "none", sess |-> None, failed |-> e], page[p])
  BY Zenon DEF PlainChange
<1> QED BY Zenon, <1>1, <1>2, OverPlain DEF Answered

\* session() leaves the journal alone.
LEMMA SessionPlain ==
    ASSUME IInv, NEW p \in Pages,
           loadServiceSession(p) \/ StoreKey(p) \/ WriteRecord(p)
    PROVE  PlainStep(p)
<1>1. CASE loadServiceSession(p)
  <2>1. PlainChange([at |-> Continue(page[p].goal), sess |-> record], page[p])
    BY Zenon, <1>1 DEF PlainChange, Continue
  <2>2. PlainChange([at |-> "fresh"], page[p])
    BY Zenon, <1>1 DEF PlainChange
  <2> QED BY Zenon, <1>1, <2>1, <2>2 DEF loadServiceSession, PlainStep, stored, remote
<1>2. CASE StoreKey(p)
  <2>1. PlainChange([at |-> "write", sess |-> created + 1], page[p])
    BY Zenon, <1>2 DEF PlainChange
  <2> QED BY Zenon, <1>2, <2>1 DEF StoreKey, PlainStep, stored, remote
<1>3. CASE WriteRecord(p)
  <2>1. PlainChange([at |-> Continue(page[p].goal)], page[p])
    BY Zenon, <1>3 DEF PlainChange, Continue
  <2> QED BY Zenon, <1>3, <2>1 DEF WriteRecord, PlainStep, stored, remote
<1> QED BY Zenon, <1>1, <1>2, <1>3

\* So do an adoption and a resume.
LEMMA AdoptionPlain ==
    ASSUME IInv, NEW p \in Pages,
           verifyGrant(p) \/ bind(p) \/ writePointer(p) \/ persistGrant(p) \/ resume(p)
           \/ StoreFails(p)
    PROVE  PlainStep(p)
<1>1. CASE verifyGrant(p)
  <2>1. PlainChange([at |-> "load"], page[p])
    BY Zenon, <1>1 DEF PlainChange
  <2> QED BY Zenon, <1>1, <2>1, AdoptedPlain DEF verifyGrant, PlainStep, stored, remote
<1>2. CASE bind(p)
  <2>1. ASSUME NEW at \in {"pointer", "context"}, NEW s, NEW c
        PROVE  PlainChange([at |-> at, bound |-> s, conns |-> c], page[p])
    BY Zenon, <1>2 DEF PlainChange
  <2> QED BY Zenon, <1>2, <2>1, AdoptedPlain DEF bind, PlainStep, stored, remote
<1>3. CASE writePointer(p)
  <2>1. PlainChange([at |-> "persist"], page[p])
    BY Zenon, <1>3 DEF PlainChange
  <2> QED BY Zenon, <1>3, <2>1 DEF writePointer, PlainStep, stored, remote
<1>4. CASE persistGrant(p)
  <2>1. PlainChange([at |-> "save"], page[p])
    BY Zenon, <1>4 DEF PlainChange
  <2> QED BY Zenon, <1>4, <2>1, AdoptedPlain DEF persistGrant, PlainStep, stored, remote
<1>5. CASE resume(p)
  <2>1. PlainChange([at |-> "load", goal |-> "resume", req |-> pointer], page[p])
    BY Zenon, <1>5 DEF PlainChange
  <2> QED BY Zenon, <1>5, <2>1 DEF resume, PlainStep, stored, remote
<1>6. CASE StoreFails(p)
  BY Zenon, <1>6, AdoptedPlain DEF StoreFails, PlainStep, stored, remote
<1> QED BY Zenon, <1>1, <1>2, <1>3, <1>4, <1>5, <1>6

\* So does a revoke.
LEMMA RevokePlain ==
    ASSUME IInv, NEW p \in Pages,
           revoke(p) \/ askIssuer(p) \/ invalidateAtIssuer(p)
    PROVE  PlainStep(p)
<1>1. CASE revoke(p)
  <2>1. PlainChange([at |-> "ask"], page[p])
    BY Zenon, <1>1 DEF PlainChange
  <2> QED BY Zenon, <1>1, <2>1 DEF revoke, PlainStep, stored, remote
<1>2. CASE askIssuer(p)
  <2>1. PlainChange([at |-> "load", goal |-> "sign"], page[p])
    BY Zenon, <1>2 DEF PlainChange
  <2> QED BY Zenon, <1>2, <2>1, AnsweredPlain DEF askIssuer, PlainStep, stored, remote
<1>3. CASE invalidateAtIssuer(p)
  BY Zenon, <1>3, AnsweredPlain DEF invalidateAtIssuer, PlainStep, stored, remote
<1> QED BY Zenon, <1>1, <1>2, <1>3

\* So do the effects of a disconnect.
LEMMA EffectsPlain ==
    ASSUME IInv, NEW p \in Pages,
           revokeEffect(p) \/ signOutEffect(p) \/ forgetLocalEffect(p) \/ closeEffect(p)
           \/ writeCheckpoint(p) \/ finishCleanup(p)
    PROVE  PlainStep(p)
<1>1. CASE revokeEffect(p)
  <2>1. PlainChange([at |-> "ask"], page[p])
    BY Zenon, <1>1 DEF PlainChange
  <2> QED BY Zenon, <1>1, <2>1 DEF revokeEffect, PlainStep, stored, remote
<1>2. CASE signOutEffect(p)
  <2>1. ASSUME NEW c PROVE PlainChange([at |-> "mark", conns |-> c], page[p])
    BY Zenon, <1>2 DEF PlainChange
  <2> QED BY Zenon, <1>2, <2>1 DEF signOutEffect, PlainStep, stored, remote
<1>3. CASE forgetLocalEffect(p)
  <2>1. PlainChange([at |-> "mark"], page[p])
    BY Zenon, <1>3 DEF PlainChange
  <2>2. ASSUME NEW e PROVE PlainChange([failed |-> e], page[p])
    BY Zenon, <1>3 DEF PlainChange, forgetLocalEffect, Attempts
  <2> QED BY Zenon, <1>3, <2>1, <2>2 DEF forgetLocalEffect, PlainStep, stored, remote
<1>4. CASE closeEffect(p)
  <2>1. ASSUME NEW c PROVE PlainChange([at |-> "mark", handle |-> NoHandle, conns |-> c], page[p])
    BY Zenon, <1>4 DEF PlainChange
  <2> QED BY Zenon, <1>4, <2>1 DEF closeEffect, PlainStep, stored, remote
<1>5. CASE writeCheckpoint(p)
  <2>1. ASSUME NEW e PROVE PlainChange([at |-> "effect", done |-> e], page[p])
    BY Zenon, <1>5 DEF PlainChange
  <2>2. ASSUME NEW e PROVE PlainChange([at |-> "effect", failed |-> e], page[p])
    BY Zenon, <1>5 DEF PlainChange
  <2> QED BY Zenon, <1>5, <2>1, <2>2 DEF writeCheckpoint, PlainStep, stored, remote
<1>6. CASE finishCleanup(p)
  BY Zenon, <1>6, ClosedPlain, OverPlain DEF finishCleanup, PlainStep, stored, remote
<1> QED BY Zenon, <1>1, <1>2, <1>3, <1>4, <1>5, <1>6

LEMMA DisconnectPlain ==
    ASSUME NEW p \in Pages, NEW withGrant \in BOOLEAN, disconnect(p, withGrant)
    PROVE  PlainStep(p)
<1>1. CASE page[p].bound = None
  BY Zenon, <1>1, ClosedPlain DEF disconnect, PlainStep, stored, remote
<1>2. CASE page[p].bound # None
  <2>1. ASSUME NEW d, NEW s, NEW a
        PROVE  PlainChange([at |-> "effect", done |-> d, skipped |-> s, asked |-> a], page[p])
    BY Zenon DEF PlainChange
  <2> QED BY Zenon, <1>2, <2>1 DEF disconnect, PlainStep, stored, remote
<1> QED BY Zenon, <1>1, <1>2

LEMMA PlainKeeps ==
    ASSUME IInv, JInv, OneRequester, NEW p \in Pages, PlainStep(p)
    PROVE  JInv' /\ pending' = pending
<1>1. PICK c : PlainChange(c, page[p]) /\ Turn(p, c)
  BY Zenon DEF PlainStep
<1>2. PICK n : n = With(c, page[p])
  BY Zenon
<1>3. page' = [page EXCEPT ![p] = n] /\ UNCHANGED <<pending, issuer>>
  BY Zenon, <1>1, <1>2 DEF Turn, PlainStep
<1>4. JPage(p, n, pending', issuer')
  BY Zenon, <1>1, <1>2, <1>3, Here, PlainOK DEF JInv
<1> QED BY Zenon, <1>3, <1>4, JStep

\* A handle that is built leaves the journal alone as well, and a page that is
\* opened again has nothing to do with it.
LEMMA HandlesKeep ==
    ASSUME IInv, JInv, OneRequester, NEW p \in Pages, writeContext(p) \/ resumeWork(p) \/ Reload(p)
    PROVE  JInv' /\ pending' = pending
<1>1. PICK me : me = page[p]
  BY Zenon
<1>2. DOMAIN me = Fields /\ JPage(p, me, pending, issuer)
  BY Zenon, <1>1, Here DEF JInv
<1>3. UNCHANGED <<pending, issuer>>
  BY Zenon DEF writeContext, resumeWork, Reload, stored, remote
<1>4. ASSUME NEW h, NEW c, PlainChange(c, me), page' = [page EXCEPT ![p] = With(c, [me EXCEPT !.handle = h])]
      PROVE  JInv'
  <2>1. PICK e : e = [me EXCEPT !.handle = h]
    BY Zenon
  <2>2. DOMAIN e = Fields /\ e.at = me.at /\ e.goal = me.goal /\ e.redeeming = me.redeeming /\ e.req = me.req
    BY Zenon, <1>2, <2>1 DEF Fields
  <2>3. JPage(p, e, pending, issuer) /\ PlainChange(c, e)
    BY Zenon, <1>2, <1>4, <2>2 DEF JPage, JournalOK, Aside, PlainChange
  <2>4. PICK n : n = With(c, e)
    BY Zenon
  <2>5. JPage(p, n, pending', issuer')
    BY Zenon, <1>3, <2>2, <2>3, <2>4, PlainOK
  <2>6. page' = [page EXCEPT ![p] = n]
    BY Zenon, <1>4, <2>1, <2>4
  <2> QED BY Zenon, <1>3, <2>5, <2>6, JStep
<1>5. CASE writeContext(p)
  BY Zenon, <1>1, <1>3, <1>4, <1>5, AdoptedPlain DEF writeContext
<1>6. CASE resumeWork(p) /\ ~Turn(p, Over)
  BY Zenon, <1>1, <1>3, <1>4, <1>6, OverPlain DEF resumeWork
<1>7. CASE Turn(p, Over)
  BY Zenon, <1>3, <1>7, OverPlain, PlainKeeps DEF PlainStep
<1>8. CASE Reload(p)
  <2>1. PICK n : n = Opened
    BY Zenon
  <2>2. n.at = "idle" /\ n.goal = "none" /\ n.redeeming = FALSE
    BY Zenon, <2>1 DEF Opened
  <2>3. JPage(p, n, pending', issuer')
    BY Zenon, <2>2 DEF JPage, JournalOK, Aside
  <2>4. page' = [page EXCEPT ![p] = n]
    BY Zenon, <1>8, <2>1 DEF Reload
  <2> QED BY Zenon, <1>3, <2>3, <2>4, JStep
<1> QED BY Zenon, <1>5, <1>6, <1>7, <1>8

\* A journal is dropped only once its request is settled at the issuer.
Settled == pending # None /\ pending' # pending => issuer[pending] \in {"spent", "denied", "expired"}

\* The steps of the requesting page.
LEMMA RequestsKeep ==
    ASSUME IInv, JInv, OneRequester, NEW p \in Pages, requestPermission(p) \/ redeemPending(p)
    PROVE  JInv' /\ pending' = pending
<1>1. PICK me : me = page[p]
  BY Zenon
<1>2. DOMAIN me = Fields /\ me.goal = "none" /\ p \in Requesters /\ JournalOK(me, pending, issuer)
  BY Zenon, <1>1, Here DEF JInv, JPage, PageOK, ShapeOK, requestPermission, redeemPending, Ready
<1>3. UNCHANGED <<pending, issuer>>
  BY Zenon DEF requestPermission, redeemPending, stored, remote
<1>4. CASE requestPermission(p)
  <2>1. PICK n : n = With([at |-> "load", goal |-> "request"], me)
    BY Zenon
  <2>2. page' = [page EXCEPT ![p] = n] /\ pending = None
    BY Zenon, <1>4, <1>1, <2>1 DEF requestPermission, Turn
  <2>3. /\ DOMAIN n = Fields /\ n.at = "load" /\ n.goal = "request"
        /\ n.redeeming = me.redeeming /\ n.req = me.req /\ n.sess = me.sess
        /\ n.conns = me.conns /\ n.bound = me.bound /\ n.handle = me.handle
        /\ n.asked = me.asked /\ n.done = me.done /\ n.failed = me.failed
        /\ n.skipped = me.skipped /\ n.closed = me.closed
    BY Zenon, <1>2, <2>1 DEF With, Fields
  <2>4. JPage(p, n, pending', issuer')
    BY Zenon, <1>2, <1>3, <2>3, <2>2 DEF JPage, JournalOK
  <2> QED BY Zenon, <1>3, <2>2, <2>4, JStep
<1>5. CASE redeemPending(p) /\ issuer[pending] = "expired"
  <2>1. PICK n : n = With([at |-> "clear"], me)
    BY Zenon
  <2>2. page' = [page EXCEPT ![p] = n]
    BY Zenon, <1>5, <1>1, <2>1 DEF redeemPending, Turn
  <2>3. /\ DOMAIN n = Fields /\ n.at = "clear" /\ n.goal = me.goal /\ n.redeeming = me.redeeming
        /\ n.req = me.req /\ n.sess = me.sess /\ n.conns = me.conns /\ n.bound = me.bound
        /\ n.handle = me.handle /\ n.asked = me.asked /\ n.done = me.done
        /\ n.failed = me.failed /\ n.skipped = me.skipped /\ n.closed = me.closed
    BY Zenon, <1>2, <2>1 DEF With, Fields
  <2>4. JPage(p, n, pending', issuer')
    BY Zenon, <1>2, <1>3, <1>5, <2>3 DEF JPage, JournalOK
  <2> QED BY Zenon, <1>3, <2>2, <2>4, JStep
<1>6. CASE redeemPending(p) /\ issuer[pending] # "expired"
  <2>1. PICK n : n = With([at |-> "token", req |-> pending], me)
    BY Zenon
  <2>2. page' = [page EXCEPT ![p] = n] /\ pending # None
    BY Zenon, <1>6, <1>1, <2>1 DEF redeemPending, Turn
  <2>3. /\ DOMAIN n = Fields /\ n.at = "token" /\ n.req = pending /\ n.goal = me.goal
        /\ n.redeeming = me.redeeming /\ n.sess = me.sess /\ n.conns = me.conns
        /\ n.bound = me.bound /\ n.handle = me.handle /\ n.asked = me.asked /\ n.done = me.done
        /\ n.failed = me.failed /\ n.skipped = me.skipped /\ n.closed = me.closed
    BY Zenon, <1>2, <2>1 DEF With, Fields
  <2>4. JPage(p, n, pending', issuer')
    BY Zenon, <1>2, <1>3, <2>3, <2>2 DEF JPage, JournalOK
  <2> QED BY Zenon, <1>3, <2>2, <2>4, JStep
<1> QED BY Zenon, <1>4, <1>5, <1>6

LEMMA AuthorizeJournal ==
    ASSUME IInv, JInv, OneRequester, NEW p \in Pages, authorize(p)
    PROVE  JInv' /\ pending' = pending
<1>1. PICK me : me = page[p]
  BY Zenon
<1>2. /\ DOMAIN me = Fields /\ p \in Requesters /\ pending = None /\ pending' = None
      /\ ~me.redeeming
  BY Zenon, <1>1, Here DEF JInv, JPage, JournalOK, Aside, authorize, stored
<1>3. PICK c : /\ Turn(p, c) /\ \/ c = Over
                                \/ \E r : c = [at |-> "journal", goal |-> "none", req |-> r, sess |-> None]
                                \/ \E r : c = [at |-> "verify", goal |-> "adopt", req |-> r, sess |-> None]
  BY Zenon DEF authorize
<1>4. PICK n : n = With(c, me)
  BY Zenon
<1>5. n.at # "token" /\ ~n.redeeming
  <2>1. CASE c = Over
    BY Zenon, <1>2, <1>4, <2>1 DEF With, Fields, Over
  <2>2. CASE \E r : c = [at |-> "journal", goal |-> "none", req |-> r, sess |-> None]
    BY <1>2, <1>4, <2>2 DEF With, Fields
  <2>3. CASE \E r : c = [at |-> "verify", goal |-> "adopt", req |-> r, sess |-> None]
    BY <1>2, <1>4, <2>3 DEF With, Fields
  <2> QED BY Zenon, <1>3, <2>1, <2>2, <2>3
<1>6. JPage(p, n, pending', issuer')
  BY Zenon, <1>2, <1>5 DEF JPage, JournalOK
<1>7. page' = [page EXCEPT ![p] = n]
  BY Zenon, <1>1, <1>3, <1>4 DEF Turn
<1> QED BY Zenon, <1>2, <1>6, <1>7, JStep

\* The journal is written when it is empty, and cleared when it is settled.
LEMMA PendingJournal ==
    ASSUME IInv, JInv, OneRequester, NEW p \in Pages, writePending(p) \/ clearPending(p)
    PROVE  JInv' /\ Settled
<1>1. PICK me : me = page[p]
  BY Zenon
<1>2. DOMAIN me = Fields /\ p \in Requesters /\ JournalOK(me, pending, issuer)
  BY Zenon, <1>1, Here DEF JInv, JPage, Aside, writePending, clearPending
<1>3. PICK n : n = With(Over, me)
  BY Zenon
<1>4. n.at = "idle" /\ n.goal = "none" /\ n.redeeming = FALSE
  BY Zenon, <1>2, <1>3 DEF With, Fields, Over
<1>5. JPage(p, n, pending', issuer')
  BY Zenon, <1>2, <1>4 DEF JPage, JournalOK
<1>6. page' = [page EXCEPT ![p] = n]
  BY Zenon, <1>1, <1>3 DEF writePending, clearPending, Turn
<1>7. Settled
  BY Zenon, <1>1, <1>2 DEF Settled, JournalOK, writePending, clearPending
<1> QED BY Zenon, <1>2, <1>5, <1>6, <1>7, JStep

LEMMA RedeemJournal ==
    ASSUME IInv, JInv, OneRequester, NEW p \in Pages, redeem(p)
    PROVE  JInv' /\ pending' = pending
<1>1. PICK me : me = page[p]
  BY Zenon
<1>2. /\ DOMAIN me = Fields /\ me.goal = "none" /\ p \in Requesters /\ JournalOK(me, pending, issuer)
      /\ me.req = pending /\ pending # None /\ pending \in Requests
  BY Zenon, <1>1, Here DEF JInv, JPage, JournalOK, Aside, PageOK, ShapeOK, redeem, IInv, StoreOK
<1>3. pending' = pending
  BY Zenon DEF redeem, stored
<1>4. CASE Turn(p, Over)
  <2>1. PICK n : n = With(Over, me)
    BY Zenon
  <2>2. page' = [page EXCEPT ![p] = n]
    BY Zenon, <1>4, <1>1, <2>1 DEF redeem, Turn
  <2>3. n.at = "idle" /\ n.goal = "none" /\ n.redeeming = FALSE
    BY Zenon, <1>2, <2>1 DEF With, Fields, Over
  <2>4. JPage(p, n, pending', issuer')
    BY Zenon, <1>2, <2>3 DEF JPage, JournalOK
  <2> QED BY Zenon, <1>2, <1>3, <2>2, <2>4, JStep
<1>5. CASE /\ issuer[pending] \in {"denied", "spent", "expired"}
           /\ Turn(p, [at |-> "clear", req |-> None]) /\ UNCHANGED issuer
  <2>1. PICK n : n = With([at |-> "clear", req |-> None], me)
    BY Zenon
  <2>2. page' = [page EXCEPT ![p] = n]
    BY Zenon, <1>5, <1>1, <2>1 DEF redeem, Turn
  <2>3. /\ DOMAIN n = Fields /\ n.at = "clear" /\ n.req = None /\ n.goal = me.goal
        /\ n.redeeming = me.redeeming /\ n.sess = me.sess /\ n.conns = me.conns
        /\ n.bound = me.bound /\ n.handle = me.handle /\ n.asked = me.asked /\ n.done = me.done
        /\ n.failed = me.failed /\ n.skipped = me.skipped /\ n.closed = me.closed
    BY Zenon, <1>2, <2>1 DEF With, Fields
  <2>4. JPage(p, n, pending', issuer')
    BY Zenon, <1>2, <1>3, <1>5, <2>3 DEF JPage, JournalOK
  <2> QED BY Zenon, <1>2, <1>3, <2>2, <2>4, JStep
<1>6. CASE /\ issuer' = [issuer EXCEPT ![pending] = "spent"]
           /\ Turn(p, [at |-> "verify", goal |-> "adopt", redeeming |-> TRUE])
  <2>1. PICK n : n = With([at |-> "verify", goal |-> "adopt", redeeming |-> TRUE], me)
    BY Zenon
  <2>2. page' = [page EXCEPT ![p] = n]
    BY Zenon, <1>6, <1>1, <2>1 DEF redeem, Turn
  <2>3. /\ DOMAIN n = Fields /\ n.at = "verify" /\ n.goal = "adopt" /\ n.redeeming = TRUE
        /\ n.req = me.req /\ n.sess = me.sess /\ n.conns = me.conns /\ n.bound = me.bound
        /\ n.handle = me.handle /\ n.asked = me.asked /\ n.done = me.done
        /\ n.failed = me.failed /\ n.skipped = me.skipped /\ n.closed = me.closed
    BY Zenon, <1>2, <2>1 DEF With, Fields
  <2>4. issuer'[pending] = "spent"
    BY Zenon, <1>2, <1>6 DEF IInv, StoreOK
  <2>5. JPage(p, n, pending', issuer')
    BY Zenon, <1>2, <1>3, <2>4, <2>3 DEF JPage, JournalOK
  <2> QED BY Zenon, <1>2, <1>3, <2>2, <2>5, JStep
<1> QED BY Zenon, <1>1, <1>2, <1>3, <1>4, <1>5, <1>6 DEF redeem

LEMMA IssuerJournal ==
    ASSUME IInv, JInv, NEW r \in Requests, RootDecides(r) \/ RequestExpires(r)
    PROVE  JInv' /\ pending' = pending
<1>1. UNCHANGED <<page, pending>> /\ issuer[r] \in {"waiting", "approved"}
  BY Zenon DEF RootDecides, RequestExpires, stored
<1>2. \A q \in Requests : q # r => issuer'[q] = issuer[q]
  BY Zenon DEF RootDecides, RequestExpires, IInv, StoreOK
<1>3. ASSUME NEW p \in Pages PROVE JPage(p, page[p], pending, issuer')
  BY Zenon, <1>1, <1>2 DEF JInv, JPage, JournalOK, IInv, StoreOK
<1> QED BY Zenon, <1>1, <1>3 DEF JInv

LEMMA JournalStep ==
    ASSUME IInv, JInv, OneRequester, [Next]_vars
    PROVE  JInv' /\ Settled
<1>1. CASE UNCHANGED vars
  BY Zenon, <1>1 DEF vars, JInv, Settled
<1>2. ASSUME NEW p \in Pages,
             requestPermission(p) \/ authorize(p) \/ writePending(p)
             \/ redeemPending(p) \/ redeem(p) \/ clearPending(p)
      PROVE  JInv' /\ Settled
  BY Zenon, <1>2, RequestsKeep, AuthorizeJournal, PendingJournal, RedeemJournal DEF Settled
<1>3. ASSUME NEW p \in Pages,
             loadServiceSession(p) \/ StoreKey(p) \/ WriteRecord(p) \/ verifyGrant(p) \/ bind(p)
             \/ writePointer(p) \/ persistGrant(p) \/ resume(p) \/ StoreFails(p)
      PROVE  JInv' /\ Settled
  BY Zenon, <1>3, SessionPlain, AdoptionPlain, PlainKeeps DEF Settled
<1>4. ASSUME NEW p \in Pages,
             revoke(p) \/ askIssuer(p) \/ invalidateAtIssuer(p)
             \/ \E withGrant \in BOOLEAN : disconnect(p, withGrant)
      PROVE  JInv' /\ Settled
  BY Zenon, <1>4, RevokePlain, DisconnectPlain, PlainKeeps DEF Settled
<1>5. ASSUME NEW p \in Pages,
             revokeEffect(p) \/ signOutEffect(p) \/ forgetLocalEffect(p) \/ closeEffect(p)
             \/ writeCheckpoint(p) \/ finishCleanup(p)
      PROVE  JInv' /\ Settled
  BY Zenon, <1>5, EffectsPlain, PlainKeeps DEF Settled
<1>6. ASSUME NEW p \in Pages, writeContext(p) \/ resumeWork(p) \/ Reload(p)
      PROVE  JInv' /\ Settled
  BY Zenon, <1>6, HandlesKeep DEF Settled
<1>7. ASSUME NEW r \in Requests, RootDecides(r) \/ RequestExpires(r)
      PROVE  JInv' /\ Settled
  BY Zenon, <1>7, IssuerJournal DEF Settled
<1> QED BY Zenon, <1>1, <1>2, <1>3, <1>4, <1>5, <1>6, <1>7 DEF Next

\* With one requesting page, the journal of a request that may still be
\* approved is never dropped, whatever the page's reloads, the lost answers of
\* the token endpoint and the other pages do (requestPermission, redeemPending
\* and redeem in client/oauth-realm.ts).
THEOREM ClientKeepsJournal ==
    ASSUME OneRequester
    PROVE  Spec => JournalKept
<1>1. Init => JInv
  <2> SUFFICES ASSUME Init, NEW p \in Pages PROVE JPage(p, page[p], pending, issuer)
    BY Zenon DEF JInv
  <2>1. Blank(page[p])
    BY Zenon, OpenedBlank DEF Init
  <2> QED BY Zenon, <2>1 DEF Blank, JPage, JournalOK, Aside
<1>2. IInv /\ JInv /\ [Next]_vars =>
         /\ JInv'
         /\ [pending # None /\ pending' # pending => issuer[pending] \in {"spent", "denied", "expired"}]_vars
  BY Zenon, JournalStep DEF Settled
<1> QED BY ClientInvariant, <1>1, <1>2, PTL DEF Spec, JournalKept

=============================================================================
