---------------------------- MODULE OperationLane ----------------------------
(***************************************************************************)
(* What a journal lane promises its callers, without journal, runners,     *)
(* bundler or reorganisations: a lane is a lock.  An identity takes it     *)
(* once, is sent at most once, executes only while it holds the lane, and  *)
(* gives the lane back with a conclusion that is true.  OperationRunner is *)
(* shown to implement this; GrantHandle builds on it.                      *)
(***************************************************************************)
CONSTANTS Ids, NoId

VARIABLES holder,    \* the identity that occupies the lane, or NoId
          status,    \* what the journal says of each identity
          sent,      \* identities handed to the submission session
          executed   \* identities in the final chain

vars == <<holder, status, sent, executed>>

Conclusions == {"finalized", "dropped", "superseded", "abandoned"}

Init ==
  /\ holder = NoId
  /\ status = [id \in Ids |-> "new"]
  /\ sent = {}
  /\ executed = {}

Take(id) ==
  /\ holder = NoId /\ status[id] = "new"
  /\ holder' = id
  /\ status' = [status EXCEPT ![id] = "prepared"]
  /\ UNCHANGED <<sent, executed>>

Attempt(id) ==
  /\ holder = id /\ status[id] = "prepared"
  /\ status' = [status EXCEPT ![id] = "attempted"]
  /\ UNCHANGED <<holder, sent, executed>>

\* A send may be so late that its sequence is already consumed.
Send(id) ==
  /\ id \notin sent /\ status[id] \in {"attempted", "dropped", "superseded"}
  /\ sent' = sent \cup {id}
  /\ UNCHANGED <<holder, status, executed>>

Execute(id) ==
  /\ holder = id /\ status[id] = "attempted"
  /\ id \in sent \ executed
  /\ executed' = executed \cup {id}
  /\ UNCHANGED <<holder, status, sent>>

\* Superseded says only that the sequence is consumed, by this identity or not.
MayConclude(id, conclusion) ==
  CASE conclusion = "abandoned" ->
         status[id] = "prepared" \/ id \in sent \ executed
    [] conclusion = "finalized" -> status[id] = "attempted" /\ id \in executed
    [] conclusion = "dropped" -> status[id] = "attempted" /\ id \notin executed
    [] conclusion = "superseded" -> status[id] = "attempted"

Conclude(id, conclusion) ==
  /\ holder = id /\ MayConclude(id, conclusion)
  /\ holder' = NoId
  /\ status' = [status EXCEPT ![id] = conclusion]
  /\ UNCHANGED <<sent, executed>>

Next ==
  \E id \in Ids :
    \/ Take(id) \/ Attempt(id) \/ Send(id) \/ Execute(id)
    \/ \E conclusion \in Conclusions : Conclude(id, conclusion)

Spec == Init /\ [][Next]_vars
=============================================================================
