------------------------- MODULE AutomationExecutor -------------------------
(***************************************************************************)
(* The executors of the automation server (executor.ts) driving the runs   *)
(* of one plan, composed with the plan API and the scheduler.              *)
(*                                                                         *)
(* An executor works on a snapshot of the run row taken when it claimed    *)
(* the run and on a snapshot of the plan row.  Every database statement    *)
(* and every call of the OAAth client is a step of its own; between two    *)
(* steps the other executors, the scheduler, the API and the chain may     *)
(* move, the process may stop, and the lease may run out.                  *)
(*                                                                         *)
(* The OAAth client is reduced to what OperationRunner establishes: an     *)
(* operation is journaled before it is attempted, only while its lane is   *)
(* free, and is reported abandoned only if it can never be included.       *)
(* Journaling an operation links its hash to the prepared run of the lane  *)
(* in the same transaction (claimIdentity of store.ts).                    *)
(***************************************************************************)
EXTENDS AutomationPlan, Sequences

CONSTANTS
    Workers,            \* executor loops, of all replicas together
    MaxSendAttempts,    \* MAX_SEND_ATTEMPTS, 3 in the code
    MayCrash,           \* whether an executor may stop between two steps
    MayOverrun          \* whether a lease may run out under a live executor

ASSUME WorkersAssumption ==
    /\ IsFiniteSet(Workers)
    /\ MaxSendAttempts \in Nat \ {0}
    /\ MayCrash \in BOOLEAN /\ MayOverrun \in BOOLEAN

VARIABLES
    work,   \* what each executor is doing
    ops     \* per run, the operations linked to it, oldest first: their calls
            \* (named by the run the calls were resolved for) and their state

vars == <<plan, runs, now, work, ops>>

Unresolved == {"prepared", "attempted", "sent", "included_success", "included_reverted"}

Resolved == {"abandoned", "dropped", "final_success", "final_reverted"}

Operations == [calls : Keys, state : Unresolved \cup Resolved]

\* Outcomes of gateway.observe.  "pending" stands for no answer, pending and
\* unreadable: the executor treats them alike.
Observations == Resolved \cup {"pending", "included_success", "included_reverted"}

Steps == {"idle", "load", "skip", "wait", "prepare", "open", "send", "sign", "wire",
          "sent", "failed", "link", "uncertain", "observe", "write", "activate",
          "settle", "defer"}

\* run is the claimed row as this executor last knew it; link is the run that
\* the operation being sent was linked to; flag is the outcome to settle the
\* plan with, or whether a deferral counts as a send.
Idle == [at |-> "idle", key |-> Setup, run |-> NewRun("none"), plan |-> "draft",
         link |-> Setup, seen |-> "pending", flag |-> FALSE]

Rows == [status : RunStatuses, op : 0 .. MaxSendAttempts, gen : Nat,
         leased : BOOLEAN, attempts : 0 .. MaxSendAttempts]

Works == [at : Steps, key : Keys, run : Rows, plan : PlanStatuses,
          link : Keys, seen : Observations, flag : BOOLEAN]

\* Every column keeps to its enumeration, a run is sent for at most
\* MAX_SEND_ATTEMPTS times, and op_hash names an operation journaled for the
\* run (executor.ts, store.ts, db.ts).
TypeOK ==
    /\ plan \in [status : PlanStatuses, slot : 0 .. Occurrences]
    /\ runs \in [Keys -> Rows]
    /\ now \in 0 .. Horizon
    /\ work \in [Workers -> Works]
    /\ \A k \in Keys : /\ ops[k] \in Seq(Operations)
                       /\ Len(ops[k]) <= MaxSendAttempts
                       /\ runs[k].op <= Len(ops[k])

Init ==
    /\ InitPlan
    /\ work = [w \in Workers |-> Idle]
    /\ ops = [k \in Keys |-> <<>>]

-----------------------------------------------------------------------------
(* Writes. *)

Go(w, at) == work' = [work EXCEPT ![w].at = at]

Rest(w) == work' = [work EXCEPT ![w] = Idle]

\* The generation still is the one this executor claimed.
Fenced(w) == runs[work[w].key].gen = work[w].run.gen

\* update: nothing changes once another claim superseded this one.
Update(w, row) ==
    runs' = IF Fenced(w) THEN [runs EXCEPT ![work[w].key] = row] ELSE runs

\* The row as it is now, its lease released.
Released(w) == [runs[work[w].key] EXCEPT !.leased = FALSE]

\* A new generation.  Generations are only compared for equality, so one that
\* no executor still at work on the run holds stands for generation + 1.
NextGeneration(k) ==
    LET held == {work[v].run.gen : v \in {v \in Workers : work[v].at # "idle" /\ work[v].key = k}}
    IN  CHOOSE g \in 0 .. Cardinality(held) : g \notin held

claimRun(w, k) ==
    LET row == [runs[k] EXCEPT !.gen = NextGeneration(k),
                               !.leased = TRUE,
                               !.status = IF @ = "due" THEN "claimed" ELSE @]
    IN  /\ work[w].at = "idle"
        /\ IsOpen(runs, k)
        /\ ~runs[k].leased
        /\ runs' = [runs EXCEPT ![k] = row]
        /\ work' = [work EXCEPT ![w] = [Idle EXCEPT !.at = "load", !.key = k, !.run = row]]
        /\ UNCHANGED <<plan, now, ops>>

\* admitted(plan, run, now).
admitted(status, k) ==
    IF k[1] = "setup" THEN IF status = "authorized" THEN "run" ELSE "skip"
    ELSE IF k[1] = "cancel" THEN IF status = "cancelling" THEN "run" ELSE "skip"
    ELSE IF now >= closesAt(k[2]) THEN "skip"
    ELSE CASE status = "active" -> "run"
           [] status = "paused" -> "wait"
           [] OTHER -> "skip"

-----------------------------------------------------------------------------
(* processRun, up to the send. *)

LoadPlan(w) ==
    LET decision == admitted(plan.status, work[w].key)
    IN  /\ work[w].at = "load"
        /\ \/ /\ work[w].run.status = "claimed" /\ decision # "run"
              /\ Go(w, decision)
           \/ /\ work[w].run.status # "claimed" \/ decision = "run"
              /\ work' = [work EXCEPT ![w].plan = plan.status,
                                      ![w].at = IF work[w].run.status = "claimed"
                                                THEN "prepare" ELSE "open"]
        /\ UNCHANGED <<plan, runs, now, ops>>

Skip(w) ==
    /\ work[w].at = "skip"
    /\ Update(w, [Released(w) EXCEPT !.status = "skipped"])
    /\ Rest(w)
    /\ UNCHANGED <<plan, now, ops>>

Wait(w) ==
    /\ work[w].at = "wait"
    /\ Update(w, Released(w))
    /\ Rest(w)
    /\ UNCHANGED <<plan, now, ops>>

Prepare(w) ==
    /\ work[w].at = "prepare"
    /\ Update(w, [runs[work[w].key] EXCEPT !.status = "prepared"])
    /\ IF Fenced(w)
       THEN work' = [work EXCEPT ![w].at = "open", ![w].run.status = "prepared"]
       ELSE Rest(w)
    /\ UNCHANGED <<plan, now, ops>>

\* The plan row is not read again after this point.
Onward(w, at) == work' = [work EXCEPT ![w].at = at, ![w].plan = "draft"]

\* Mutant: the admission is checked again for a run that has journaled.
OpenMutant(w) ==
    /\ work[w].at = "open"
    /\ Onward(w, IF admitted(work[w].plan, work[w].key) # "run" THEN "skip"
                 ELSE IF work[w].run.op # 0 THEN "observe" ELSE "send")
    /\ UNCHANGED <<plan, runs, now, ops>>

\* The Grant handle opens, and the run either sends, on the plan row read
\* before, or goes on to observe what it already journaled.
Open(w) ==
    LET run == work[w].run
        stale == admitted(work[w].plan, work[w].key)
    IN  /\ work[w].at = "open"
        /\ \/ /\ run.status = "prepared" /\ run.op = 0
              /\ Onward(w, IF work[w].key[1] = "occurrence" /\ stale # "run"
                           THEN "skip" ELSE "send")
           \/ run.op # 0 /\ Onward(w, "observe")
        /\ UNCHANGED <<plan, runs, now, ops>>

\* The Grant handle cannot be opened, or an observation throws.
CannotReach(w) ==
    /\ work[w].at \in {"open", "observe"}
    /\ Onward(w, "defer")
    /\ UNCHANGED <<plan, runs, now, ops>>

-----------------------------------------------------------------------------
(* gateway.send: the OAAth client starts one operation on the run's lane. *)

LaneOccupied(l) == \E k \in Keys : /\ Lane(k) = l
                                   /\ ops[k] # <<>>
                                   /\ ops[k][Len(ops[k])].state \in Unresolved

\* claimIdentity: the prepared run of the lane that has no hash yet.  It is
\* found by lane and status; the generation plays no part.
Claimable(l) == {k \in Keys : Lane(k) = l /\ runs[k].status = "prepared" /\ runs[k].op = 0}

\* The identity is journaled and linked in one transaction.
Publish(w) ==
    LET lane == Lane(work[w].key)
    IN  /\ work[w].at = "send"
        /\ ~LaneOccupied(lane)
        /\ \E k \in Keys :
              /\ Claimable(lane) = {k}
              /\ ops' = [ops EXCEPT ![k] =
                            Append(@, [calls |-> work[w].key, state |-> "prepared"])]
              /\ runs' = [runs EXCEPT ![k].op = Len(ops[k]) + 1]
              /\ work' = [work EXCEPT ![w].at = "sign", ![w].link = k]
        /\ UNCHANGED <<plan, now>>

\* The client refuses or fails before anything is journaled.
SendRefused(w) ==
    /\ work[w].at = "send"
    /\ Go(w, "failed")
    /\ UNCHANGED <<plan, runs, now, ops>>

SetOp(w, state) ==
    LET k == work[w].link
    IN  ops' = [ops EXCEPT ![k][Len(ops[k])].state = state]

\* The send is over; what it was linked to is not needed any more.
SendEnds(w, at) == work' = [work EXCEPT ![w].at = at, ![w].link = Setup]

\* The attempt is journaled; only then the operation goes to the bundler.
Attempt(w) ==
    /\ work[w].at = "sign"
    /\ SetOp(w, "attempted")
    /\ Go(w, "wire")
    /\ UNCHANGED <<plan, runs, now>>

\* Authorization refused after journaling, or the bundler refused the
\* operation: the identity is abandoned and the send throws.
SendAbandoned(w) ==
    /\ work[w].at \in {"sign", "wire"}
    /\ SetOp(w, "abandoned")
    /\ SendEnds(w, "failed")
    /\ UNCHANGED <<plan, runs, now>>

\* The bundler takes the operation; the call may still end in an error.
Submit(w) ==
    /\ work[w].at = "wire"
    /\ SetOp(w, "sent")
    /\ SendEnds(w, "sent") \/ SendEnds(w, "failed")
    /\ UNCHANGED <<plan, runs, now>>

-----------------------------------------------------------------------------
(* processRun, after the send.  The row is read again before it is written. *)

\* The send returned: a linked hash is recorded on the snapshot.
ReadAfterSend(w) ==
    LET op == runs[work[w].key].op
    IN  /\ work[w].at = "sent"
        /\ work' = [work EXCEPT ![w].at = IF op = 0 THEN "defer" ELSE "link",
                                ![w].run.op = op]
        /\ UNCHANGED <<plan, runs, now, ops>>

MarkSubmitted(w) ==
    /\ work[w].at = "link"
    /\ Update(w, [runs[work[w].key] EXCEPT !.status = "submitted"])
    /\ IF Fenced(w)
       THEN work' = [work EXCEPT ![w].at = "observe", ![w].run.status = "submitted"]
       ELSE Rest(w)
    /\ UNCHANGED <<plan, now, ops>>

\* Mutant: a send that threw is taken for one that never happened.
ReadAfterFailureMutant(w) ==
    /\ work[w].at = "failed"
    /\ \E counts \in BOOLEAN :
          work' = [work EXCEPT ![w].at = "defer", ![w].flag = counts]
    /\ UNCHANGED <<plan, runs, now, ops>>

\* The send threw: a linked hash means it may have been sent.  A spent
\* request budget defers without counting the attempt.
ReadAfterFailure(w) ==
    /\ work[w].at = "failed"
    /\ IF runs[work[w].key].op # 0
       THEN Go(w, "uncertain")
       ELSE \E counts \in BOOLEAN :
               work' = [work EXCEPT ![w].at = "defer", ![w].flag = counts]
    /\ UNCHANGED <<plan, runs, now, ops>>

MarkUncertain(w) ==
    /\ work[w].at = "uncertain"
    /\ Update(w, [Released(w) EXCEPT !.status = "submitted"])
    /\ Rest(w)
    /\ UNCHANGED <<plan, now, ops>>

\* Mutant: the end of the cancel run does not reach the plan.
SettledMutant(k, finalized) ==
    CASE k = Setup /\ finalized /\ plan.status = "authorized" -> "active"
      [] k = Setup /\ ~finalized /\ plan.status \in {"authorized", "active", "paused"} -> "failed"
      [] OTHER -> plan.status

\* What settlePlan does to the plan row when the run of key k ends.
Settled(k, finalized) ==
    CASE k = Setup /\ finalized /\ plan.status = "authorized" -> "active"
      [] k = Setup /\ ~finalized /\ plan.status \in {"authorized", "active", "paused"} -> "failed"
      [] k = Cancel /\ plan.status = "cancelling" -> "cancelled"
      [] OTHER -> plan.status

\* settlePlan, a statement of its own after the run was written.
Settle(w) ==
    /\ work[w].at = "settle"
    /\ plan' = [plan EXCEPT !.status = Settled(work[w].key, work[w].flag)]
    /\ Rest(w)
    /\ UNCHANGED <<runs, now, ops>>

\* activatePlan of a setup that is included but not final.
Activate(w) ==
    /\ work[w].at = "activate"
    /\ plan' = [plan EXCEPT !.status = IF @ = "authorized" THEN "active" ELSE @]
    /\ Rest(w)
    /\ UNCHANGED <<runs, now, ops>>

\* Go on to settlePlan, or be done with the run.
SettleIf(w, condition, finalized) ==
    IF condition
    THEN work' = [work EXCEPT ![w].at = "settle", ![w].flag = finalized]
    ELSE Rest(w)

\* defer: release the run for a later attempt, or fail it after too many sends.
Defer(w) ==
    LET run == work[w].run
        exhausted == work[w].flag /\ run.attempts + 1 >= MaxSendAttempts
    IN  /\ work[w].at = "defer"
        /\ Update(w, [Released(w) EXCEPT
                         !.status = IF exhausted THEN "failed" ELSE run.status,
                         !.attempts = IF work[w].flag THEN @ + 1 ELSE @])
        /\ SettleIf(w, exhausted, FALSE)
        /\ UNCHANGED <<plan, now, ops>>

-----------------------------------------------------------------------------
(* observe: it never sends. *)

\* What the client can report of an operation.  A prepared one is refused.
Reports(state) ==
    CASE state = "prepared" -> {}
      [] state \in {"attempted", "sent"} -> {"pending"}
      [] state \in {"included_success", "included_reverted"} -> {"pending", state}
      [] state \in {"dropped", "final_success", "final_reverted"} -> {"pending", state}
      [] OTHER -> {state}

Observe(w) ==
    /\ work[w].at = "observe"
    /\ \E seen \in Reports(ops[work[w].key][work[w].run.op].state) :
          work' = [work EXCEPT ![w].at = "write", ![w].seen = seen]
    /\ UNCHANGED <<plan, runs, now, ops>>

\* No conclusion: the run stays open; a transaction hash makes it observed.
WritePending(w) ==
    LET seen == work[w].seen
    IN  /\ work[w].at = "write"
        /\ seen \in {"pending", "included_success", "included_reverted"}
        /\ Update(w, [Released(w) EXCEPT
                         !.status = IF seen = "pending" THEN work[w].run.status ELSE "observed"])
        /\ IF Fenced(w) /\ work[w].key = Setup /\ seen = "included_success"
           THEN Go(w, "activate")
           ELSE Rest(w)
        /\ UNCHANGED <<plan, now, ops>>

\* Proven never submitted: the hash is cleared and the run may send afresh.
WriteAbandoned(w) ==
    LET exhausted == work[w].run.attempts + 1 >= MaxSendAttempts
    IN  /\ work[w].at = "write"
        /\ work[w].seen = "abandoned"
        /\ Update(w, [Released(w) EXCEPT !.status = IF exhausted THEN "failed" ELSE "prepared",
                                         !.op = 0, !.attempts = @ + 1])
        /\ SettleIf(w, exhausted, FALSE)
        /\ UNCHANGED <<plan, now, ops>>

\* Mutant: a dropped operation is replaced by a fresh send.
WriteDroppedMutant(w) ==
    /\ work[w].at = "write"
    /\ work[w].seen = "dropped"
    /\ Update(w, [Released(w) EXCEPT !.status = "prepared", !.op = 0])
    /\ Rest(w)
    /\ UNCHANGED <<plan, now, ops>>

WriteDropped(w) ==
    /\ work[w].at = "write"
    /\ work[w].seen = "dropped"
    /\ Update(w, [Released(w) EXCEPT !.status = "failed"])
    /\ SettleIf(w, TRUE, FALSE)
    /\ UNCHANGED <<plan, now, ops>>

\* Mutant: finality alone makes the run finalized.
WriteFinalizedMutant(w) ==
    /\ work[w].at = "write"
    /\ work[w].seen \in {"final_success", "final_reverted"}
    /\ Update(w, [Released(w) EXCEPT !.status = "finalized"])
    /\ SettleIf(w, Fenced(w), TRUE)
    /\ UNCHANGED <<plan, now, ops>>

WriteFinalized(w) ==
    LET bound == ops[work[w].key][work[w].run.op].calls = work[w].key
        succeeded == bound /\ work[w].seen = "final_success"
    IN  /\ work[w].at = "write"
        /\ work[w].seen \in {"final_success", "final_reverted"}
        /\ Update(w, [Released(w) EXCEPT !.status = IF succeeded THEN "finalized" ELSE "failed"])
        /\ SettleIf(w, Fenced(w), succeeded)
        /\ UNCHANGED <<plan, now, ops>>

-----------------------------------------------------------------------------
(* The world around the executors. *)

\* The process stops, or a statement fails: the loop starts over, and only
\* the lease keeps the run from the other executors.
Crash(w) ==
    /\ MayCrash
    /\ work[w].at # "idle"
    /\ Rest(w)
    /\ UNCHANGED <<plan, runs, now, ops>>

AtWork(k) == \E w \in Workers : /\ work[w].at \notin {"idle", "activate", "settle"}
                                /\ work[w].key = k
                                /\ work[w].run.gen = runs[k].gen

\* LEASE_SECONDS pass.
LeaseRunsOut(k) ==
    /\ runs[k].leased
    /\ MayOverrun \/ ~AtWork(k)
    /\ runs' = [runs EXCEPT ![k].leased = FALSE]
    /\ UNCHANGED <<plan, now, work, ops>>

\* The chain and the bundler move a sent operation.
Move(k, from, to) ==
    \E n \in DOMAIN ops[k] :
        /\ ops[k][n].state \in from
        /\ \E state \in to : ops' = [ops EXCEPT ![k][n].state = state]
        /\ UNCHANGED <<plan, runs, now, work>>

Include(k)  == Move(k, {"sent"}, {"included_success", "included_reverted"})

FinalizeSuccess(k) == Move(k, {"included_success"}, {"final_success"})

FinalizeReverted(k) == Move(k, {"included_reverted"}, {"final_reverted"})

\* Its nonce goes to another operation, if need be after a reorganisation.
Drop(k) == Move(k, {"sent", "included_success", "included_reverted"}, {"dropped"})

WorkStep(w) ==
    \/ LoadPlan(w) \/ Skip(w) \/ Wait(w) \/ Prepare(w) \/ Open(w) \/ CannotReach(w)
    \/ Publish(w) \/ SendRefused(w) \/ Attempt(w) \/ SendAbandoned(w) \/ Submit(w)
    \/ ReadAfterSend(w) \/ MarkSubmitted(w) \/ ReadAfterFailure(w) \/ MarkUncertain(w)
    \/ Settle(w) \/ Activate(w) \/ Defer(w) \/ Observe(w)
    \/ WritePending(w) \/ WriteAbandoned(w) \/ WriteDropped(w) \/ WriteFinalized(w)

ChainStep(k) == Include(k) \/ FinalizeSuccess(k) \/ FinalizeReverted(k) \/ Drop(k)

Next ==
    \/ PlanNext /\ UNCHANGED <<work, ops>>
    \/ \E w \in Workers, k \in Keys : claimRun(w, k)
    \/ \E w \in Workers : WorkStep(w) \/ Crash(w)
    \/ \E k \in Keys : LeaseRunsOut(k) \/ ChainStep(k)

Spec == Init /\ [][Next]_vars

\* An answer other than "pending" reaches the executor.
ObserveConclusively(w) == Observe(w) /\ work'[w].seen # "pending"

\* service.ts runs the tick and the executor loops forever; claimRun takes the
\* run that has waited longest; leases run out; the chain decides every
\* operation it received; and the issuer, bundler and RPC endpoints are not
\* out of reach forever.
Fairness ==
    /\ WF_vars(tick /\ UNCHANGED <<work, ops>>)
    /\ WF_vars(PassTime /\ UNCHANGED <<work, ops>>)
    /\ \A w \in Workers : /\ WF_vars(WorkStep(w))
                           /\ SF_vars(Open(w))
                           /\ SF_vars(Publish(w))
                           /\ SF_vars(ObserveConclusively(w))
    /\ \A k \in Keys : /\ SF_vars(\E w \in Workers : claimRun(w, k))
                        /\ WF_vars(LeaseRunsOut(k))
                        /\ WF_vars(ChainStep(k))

FairSpec == Spec /\ Fairness

\* From some time on, no executor stops any more.
SteadySpec == FairSpec /\ <>[][\A w \in Workers : ~Crash(w)]_vars
-----------------------------------------------------------------------------
(* Properties. *)

\* The operations that carry the calls of run c and may have reached the bundler.
SentFor(c) ==
    UNION {{<<k, n>> : n \in {m \in DOMAIN ops[k] :
                                /\ ops[k][m].calls = c
                                /\ ops[k][m].state \notin {"prepared", "abandoned"}}}
           : k \in Keys}

\* The calls of one run reach the bundler in at most one operation that was
\* not proven abandoned: no crash, lost lease, timeout or drop makes an
\* executor send again (README of the server: "A timeout, missing receipt, drop or
\* unreadable observation never resubmits").
SentOnce == \A c \in Keys : Cardinality(SentFor(c)) <= 1

\* A run whose journaled operation is not resolved stays open, so that it is
\* observed again (README of the server: "A run with an operation hash is only
\* ever observed again").
JournaledRunStaysOpen ==
    \A k \in Keys : \A n \in DOMAIN ops[k] :
        ops[k][n].state \in Unresolved => IsOpen(runs, k) /\ runs[k].op = n

\* The cancel calls run alone: while the cancel run is open or done, no other
\* run of the plan is open and no operation of another run is unresolved
\* (scheduler.ts: "forbidden ... a cancel run while another run of the plan is
\* open").
CancelRunsAlone ==
    runs[Cancel].status # "none" =>
        \A k \in Keys \ {Cancel} :
            /\ ~IsOpen(runs, k)
            /\ \A n \in DOMAIN ops[k] : ops[k][n].state \notin Unresolved

\* With a setup, no occurrence is ever admitted to run unless an operation of
\* the setup was on chain and successful at some time (scheduler.ts: "never
\* before its setup is included and successful").
OccurrenceNeedsSetup ==
    HasSetup /\ (\E s \in Slots : runs[Occurrence(s)].status \notin {"none", "skipped"}) =>
        \E n \in DOMAIN ops[Setup] :
            ops[Setup][n].state \in {"included_success", "final_success", "dropped"}

\* A plan that is completed or cancelled leaves no operation behind that can
\* still execute (scheduler.ts: "completes or expires only once none of its
\* runs (setup included) is open").
ClosedPlanIsQuiet ==
    plan.status \in {"completed", "cancelled"} =>
        \A k \in Keys : \A n \in DOMAIN ops[k] : ops[k][n].state \notin Unresolved

\* A run is reported finalized only for a final, successful operation that
\* carries its own calls, and failed or skipped never for one (executor.ts,
\* the evidence check of observe).
OutcomeIsTrue ==
    \A k \in Keys :
        LET done == \E n \in DOMAIN ops[k] : ops[k][n] = [calls |-> k, state |-> "final_success"]
        IN  /\ runs[k].status = "finalized" => done
            /\ runs[k].status \in {"failed", "skipped"} => ~done

\* The unique index on open runs never refuses an admission: no two open runs
\* of the plan share a lane (db.ts automation_runs_lane_open).
LanesAreExclusive ==
    \A j, k \in Keys : j # k /\ IsOpen(runs, j) /\ IsOpen(runs, k) => Lane(j) # Lane(k)

\* The runs of a plan keep to their order: cancel calls alone, occurrences
\* after their setup, one open run on a lane (scheduler.ts).
RunsAreOrdered == CancelRunsAlone /\ OccurrenceNeedsSetup /\ LanesAreExclusive

\* A plan is failed only for a setup that cannot succeed any more: none of the
\* setup's operations is on chain and successful, or can still get there
\* (executor.ts: "every write is fenced by the claim's generation", so an
\* executor that lost its claim does not fail the plan).
FailedPlanHasFailedSetup ==
    plan.status = "failed" =>
        \A n \in DOMAIN ops[Setup] :
            ops[Setup][n].state \in {"abandoned", "dropped", "final_reverted"}

\* Once authorized, a plan ends: it completes, expires, fails or is cancelled,
\* whatever its runs wait for.
PlanEnds ==
    plan.status \in {"authorized", "active", "paused", "cancelling"}
        ~> plan.status \in {"completed", "expired", "failed", "cancelled"}

\* An operation that was journaled but never attempted does not stay that way:
\* after a crash another executor takes the run up and resolves it
\* (executor.ts: "leases expire; any replica resumes from PostgreSQL").
JournaledIsResolved ==
    \A k \in Keys :
        (\E n \in DOMAIN ops[k] : ops[k][n].state = "prepared")
            ~> ~(\E n \in DOMAIN ops[k] : ops[k][n].state = "prepared")
=============================================================================
