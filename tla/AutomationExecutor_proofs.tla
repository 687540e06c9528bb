---------------------- MODULE AutomationExecutor_proofs ----------------------
(***************************************************************************)
(* Proofs about AutomationExecutor, for every schedule, any number of      *)
(* occurrences, executors and send attempts, and any crashes, as long as   *)
(* no lease runs out under a live executor.                                *)
(*                                                                         *)
(* The invariant says who may write what.  An executor at work on a run    *)
(* holds its lease alone and knows the row (WorkOK), so each write of the  *)
(* row is about the operation that the row names; all the other operations *)
(* of the run are abandoned (RowOK).  What the plan row says of its setup  *)
(* and of its cancel run follows from the rows it was derived from         *)
(* (PlanOK).                                                               *)
(***************************************************************************)
EXTENDS AutomationExecutor, FiniteSetTheorems, TLAPS


Active == Steps \ {"idle", "activate", "settle"}

Dead == {"abandoned", "dropped", "final_reverted"}

\* os are the operations linked to the run of key k with the given row.
RowOK(k, row, os) ==
    /\ row \in Rows /\ os \in Seq(Operations)
    /\ row.op \in {0, Len(os)}
    /\ Len(os) <= row.attempts + (IF row.op = 0 THEN 0 ELSE 1)
    /\ \A n \in 1 .. Len(os) : os[n].calls = k /\ (n # row.op => os[n].state = "abandoned")
    /\ row.status \in {"none", "due", "claimed", "skipped"} => row.op = 0
    /\ row.status = "none" => row.attempts = 0
    /\ row.status \in {"submitted", "observed", "finalized"} => row.op # 0
    /\ row.status = "finalized" => os[row.op].state = "final_success"
    /\ row.status = "failed" /\ row.op # 0 => os[row.op].state \in {"dropped", "final_reverted"}
    /\ row.status \in OpenRun => row.attempts < MaxSendAttempts

\* An operation of the setup has been on chain.
Included(os) ==
    \E n \in 1 .. Len(os) : os[n].state \in {"included_success", "final_success", "dropped"}

\* What an executor knows of its run and of the operation it works on.
WorkOK(c, row, os) ==
    /\ c.at \in Active =>
         /\ row.leased /\ row.gen = c.run.gen
         /\ row.attempts = c.run.attempts /\ row.status = c.run.status
         /\ row.status \in OpenRun \ {"due"}
         /\ c.at \notin {"sign", "wire", "sent", "failed", "uncertain"} => c.run.op = row.op
         /\ c.flag => c.at = "defer" /\ row.op = 0
    /\ c.at \in {"sign", "wire", "sent", "failed", "uncertain"} => c.run.op = 0
    /\ c.at \in {"wait", "prepare"} => row.status = "claimed"
    /\ c.at \in {"skip", "send"} => row.op = 0
    /\ c.at = "open" => row.status # "claimed"
    /\ c.at \in {"send", "sign", "wire", "sent", "failed", "link", "uncertain"} =>
         row.status = "prepared"
    /\ c.at \in {"sign", "wire"} => c.link = c.key
    /\ c.at \in {"sign", "wire", "sent", "link", "uncertain", "observe", "write"} => row.op # 0
    /\ c.at = "sign" => os[row.op].state = "prepared"
    /\ c.at = "wire" => os[row.op].state = "attempted"
    /\ c.at = "write" =>
         /\ c.seen \in Resolved => os[row.op].state = c.seen
         /\ c.seen = "included_success" => Included(os)
    /\ c.at = "activate" => c.key = Setup /\ Included(os)
    /\ c.at = "settle" => row.status = IF c.flag THEN "finalized" ELSE "failed"

PlanOK ==
    /\ plan \in [status : PlanStatuses, slot : 0 .. Occurrences]
    /\ now \in 0 .. Horizon
    /\ runs[Setup].status # "none" => HasSetup
    /\ HasSetup /\ plan.status \in {"active", "paused"} => Included(ops[Setup])
    /\ \A s \in Slots : HasSetup /\ runs[Occurrence(s)].status \notin {"none", "skipped"} =>
          Included(ops[Setup])
    /\ plan.status = "failed" => runs[Setup].status = "failed"
    /\ runs[Cancel].status # "none" =>
          /\ plan.status \in {"cancelling", "cancelled"}
          /\ \A k \in Keys \ {Cancel} : ~IsOpen(runs, k)
    /\ \A s \in Slots : s >= plan.slot => runs[Occurrence(s)].status = "none"
    /\ plan.status \in {"draft", "awaiting_consent", "completed", "cancelled"} =>
          \A k \in Keys : ~IsOpen(runs, k)

RowsOK ==
    /\ runs \in [Keys -> Rows] /\ ops \in [Keys -> Seq(Operations)]
    /\ \A k \in Keys : RowOK(k, runs[k], ops[k])

WorksOK ==
    /\ work \in [Workers -> Works]
    /\ \A w \in Workers : WorkOK(work[w], runs[work[w].key], ops[work[w].key])
    /\ \A v, w \in Workers :
          work[v].at \in Active /\ work[w].at \in Active /\ work[v].key = work[w].key => v = w

IInv == PlanOK /\ RowsOK /\ WorksOK
-----------------------------------------------------------------------------
(***************************************************************************)
(* Keys, rows and operations.                                              *)
(***************************************************************************)
LEMMA KeyFacts ==
    /\ Setup \in Keys /\ Cancel \in Keys /\ Setup # Cancel
    /\ \A s \in Slots : Occurrence(s) \in Keys
    /\ \A s : Occurrence(s) # Setup /\ Occurrence(s) # Cancel
    /\ \A s, t : Occurrence(s) = Occurrence(t) => s = t
    /\ \A k \in Keys : k = Setup \/ k = Cancel \/ \E s \in Slots : k = Occurrence(s)
    /\ Setup[1] = "setup" /\ Cancel[1] = "cancel"
    /\ \A s : Occurrence(s)[1] = "occurrence" /\ Occurrence(s)[2] = s
BY Zenon DEF Keys, Setup, Cancel, Occurrence

LEMMA IdleWorks == Idle \in Works /\ Idle.at = "idle" /\ \A row, os : WorkOK(Idle, row, os)
<1>1. NewRun("none") \in Rows
  BY WorkersAssumption DEF NewRun, Rows, RunStatuses
<1>2. Idle \in Works
  BY Zenon, <1>1, KeyFacts DEF Idle, Works, Steps, PlanStatuses, Observations
<1>3. Idle.at = "idle"
  BY Zenon DEF Idle
<1>4. ASSUME NEW row, NEW os PROVE WorkOK(Idle, row, os)
  BY Zenon, <1>3 DEF WorkOK, Active
<1> QED BY Zenon, <1>2, <1>3, <1>4

\* One operation of a run changes its state.
LEMMA SetState ==
    ASSUME NEW os \in Seq(Operations), NEW n \in 1 .. Len(os),
           NEW state \in Unresolved \cup Resolved,
           NEW q, q = [os EXCEPT ![n].state = state]
    PROVE  /\ q \in Seq(Operations) /\ Len(q) = Len(os)
           /\ q[n].state = state /\ q[n].calls = os[n].calls
           /\ \A m \in 1 .. Len(os) : m # n => q[m] = os[m]
<1>1. os[n] \in Operations /\ DOMAIN os = 1 .. Len(os) /\ Len(os) \in Nat
  OBVIOUS
<1>2. PICK o : o = [os[n] EXCEPT !.state = state]
  BY Zenon
<1>3. o \in Operations /\ o.state = state /\ o.calls = os[n].calls
  BY Zenon, <1>1, <1>2 DEF Operations
<1>4. q = [os EXCEPT ![n] = o]
  BY Zenon, <1>2
<1>5. q \in [1 .. Len(os) -> Operations]
  BY <1>1, <1>3, <1>4
<1>6. q \in Seq(Operations) /\ Len(q) = Len(os)
  BY <1>1, <1>5
<1> QED BY Zenon, <1>1, <1>3, <1>4, <1>6

\* A step that writes one row and the operations of its run.
LEMMA PlanStays ==
    ASSUME IInv, NEW k \in Keys, NEW row, NEW os,
           runs' = [runs EXCEPT ![k] = row], ops' = [ops EXCEPT ![k] = os],
           plan' = plan, now' = now,
           RowOK(k, row, os), Included(ops[k]) => Included(os),
           \/ row.status = runs[k].status
           \/ runs[k].status \in OpenRun /\ row.status # "none"
    PROVE  PlanOK' /\ RowsOK'
<1>0. row \in Rows /\ os \in Seq(Operations)
  BY Zenon DEF RowOK
<1>1. /\ runs' \in [Keys -> Rows] /\ ops' \in [Keys -> Seq(Operations)]
      /\ \A j \in Keys : runs'[j] = (IF j = k THEN row ELSE runs[j])
      /\ \A j \in Keys : ops'[j] = (IF j = k THEN os ELSE ops[j])
  BY Zenon, <1>0 DEF IInv, RowsOK
<1>2. RowsOK'
  BY Zenon, <1>1 DEF IInv, RowsOK
<1>3. \A j \in Keys : Included(ops[j]) => Included(ops'[j])
  BY Zenon, <1>1
<1>4. \A j \in Keys : /\ runs'[j].status = "none" => runs[j].status = "none"
                      /\ runs'[j].status # "none" => runs[j].status # "none"
                      /\ runs'[j].status \notin {"none", "skipped"} =>
                            runs[j].status \notin {"none", "skipped"}
                      /\ IsOpen(runs, j)' => IsOpen(runs, j)
                      /\ runs[j].status \notin OpenRun => runs'[j].status = runs[j].status
  BY Zenon, <1>1 DEF OpenRun, IsOpen
<1>5. /\ plan' \in [status : PlanStatuses, slot : 0 .. Occurrences] /\ now' \in 0 .. Horizon
      /\ runs'[Setup].status # "none" => HasSetup
      /\ HasSetup /\ plan'.status \in {"active", "paused"} => Included(ops'[Setup])
      /\ \A s \in Slots : HasSetup /\ runs'[Occurrence(s)].status \notin {"none", "skipped"} =>
            Included(ops'[Setup])
  BY Zenon, <1>3, <1>4, KeyFacts DEF IInv, PlanOK
<1>6. /\ plan'.status = "failed" => runs'[Setup].status = "failed"
      /\ runs'[Cancel].status # "none" =>
            /\ plan'.status \in {"cancelling", "cancelled"}
            /\ \A j \in Keys \ {Cancel} : ~IsOpen(runs, j)'
      /\ \A s \in Slots : s >= plan'.slot => runs'[Occurrence(s)].status = "none"
      /\ plan'.status \in {"draft", "awaiting_consent", "completed", "cancelled"} =>
            \A j \in Keys : ~IsOpen(runs, j)'
  BY Zenon, <1>4, KeyFacts DEF IInv, PlanOK, OpenRun
<1> QED BY Zenon, <1>2, <1>5, <1>6 DEF PlanOK

\* A step of the only executor at an open run that writes the run and its operations.
LEMMA OwnerKeeps ==
    ASSUME IInv, NEW w \in Workers, NEW k \in Keys, NEW row, NEW os, NEW c,
           runs[k].status \in OpenRun,
           \A v \in Workers : work[v].at \in Active /\ work[v].key = k => v = w,
           runs' = [runs EXCEPT ![k] = row], ops' = [ops EXCEPT ![k] = os],
           work' = [work EXCEPT ![w] = c], plan' = plan, now' = now,
           RowOK(k, row, os), Included(ops[k]) => Included(os), row.status # "none",
           c \in Works, c = Idle \/ (c.key = k /\ WorkOK(c, row, os))
    PROVE  IInv'
<1>1. work \in [Workers -> Works]
  BY Zenon DEF IInv, WorksOK
<1>3. PlanOK' /\ RowsOK'
  BY Zenon, PlanStays
<1>4. /\ \A j \in Keys : runs'[j] = (IF j = k THEN row ELSE runs[j])
      /\ \A j \in Keys : ops'[j] = (IF j = k THEN os ELSE ops[j])
  BY Zenon DEF IInv, RowsOK
<1>5. work' \in [Workers -> Works] /\ work'[w] = c /\ \A v \in Workers \ {w} : work'[v] = work[v]
  BY Zenon, <1>1
<1>6. ASSUME NEW v \in Workers PROVE WorkOK(work'[v], runs'[work'[v].key], ops'[work'[v].key])
  <2>1. CASE v = w
    BY <1>1, <1>4, <1>5, <2>1, IdleWorks
  <2>2. CASE v # w /\ work[v].key # k
    <3>1. work[v].key \in Keys /\ WorkOK(work[v], runs[work[v].key], ops[work[v].key])
      BY Zenon, <1>1 DEF Works, IInv, WorksOK
    <3> QED BY <1>4, <1>5, <2>2, <3>1
  <2>3. CASE v # w /\ work[v].key = k
    <3>1. work[v].at \notin Active /\ WorkOK(work[v], runs[k], ops[k]) /\ work[v].at \in Steps
      BY Zenon, <1>1, <2>3 DEF IInv, WorksOK, Works
    <3>2. work[v].at # "settle"
      BY Zenon, <3>1 DEF WorkOK, OpenRun
    <3>3. WorkOK(work[v], row, os)
      BY Zenon, <3>1, <3>2 DEF WorkOK, Active
    <3> QED BY <1>1, <1>4, <1>5, <2>3, <3>3
  <2> QED BY Zenon, <2>1, <2>2, <2>3
<1>7. ASSUME NEW u \in Workers, NEW v \in Workers, work'[u].at \in Active, work'[v].at \in Active,
             work'[u].key = work'[v].key
      PROVE  u = v
  <2>1. c.at \in Active => c.key = k
    BY Zenon, IdleWorks DEF Active
  <2> QED BY <1>5, <1>7, <2>1 DEF IInv, WorksOK
<1>8. WorksOK'
  BY Zenon, <1>5, <1>6, <1>7 DEF WorksOK
<1> QED BY Zenon, <1>3, <1>8 DEF IInv

\* A step of an executor at work that writes its run and its operations.
LEMMA WorkerKeeps ==
    ASSUME IInv, NEW w \in Workers, work[w].at \in Active,
           NEW k, k = work[w].key, NEW row, NEW os, NEW c,
           runs' = [runs EXCEPT ![k] = row], ops' = [ops EXCEPT ![k] = os],
           work' = [work EXCEPT ![w] = c], plan' = plan, now' = now,
           RowOK(k, row, os), Included(ops[k]) => Included(os), row.status # "none",
           c \in Works, c = Idle \/ (c.key = k /\ WorkOK(c, row, os))
    PROVE  IInv'
<1>1. k \in Keys /\ runs[k].status \in OpenRun
  BY Zenon DEF IInv, WorksOK, WorkOK, Works
<1>2. \A v \in Workers : work[v].at \in Active /\ work[v].key = k => v = w
  BY Zenon DEF IInv, WorksOK
<1> QED BY Zenon, <1>1, <1>2, OwnerKeeps

\* A step of an executor at work that reads.
LEMMA ReaderKeeps ==
    ASSUME IInv, NEW w \in Workers, work[w].at \in Active, NEW c,
           UNCHANGED <<plan, runs, now, ops>>, work' = [work EXCEPT ![w] = c],
           c \in Works, c = Idle \/ (c.key = work[w].key /\ WorkOK(c, runs[c.key], ops[c.key]))
    PROVE  IInv'
<1>1. PICK k : k = work[w].key
  BY Zenon
<1>2. k \in Keys /\ RowOK(k, runs[k], ops[k]) /\ runs[k].status # "none"
  BY Zenon, <1>1 DEF IInv, WorksOK, RowsOK, Works, WorkOK, OpenRun
<1>3. runs' = [runs EXCEPT ![k] = runs[k]] /\ ops' = [ops EXCEPT ![k] = ops[k]]
  BY Zenon, <1>2 DEF IInv, RowsOK
<1>4. c = Idle \/ (c.key = k /\ WorkOK(c, runs[k], ops[k]))
  BY Zenon, <1>1
<1>5. plan' = plan /\ now' = now
  BY Zenon
<1> QED BY Zenon, <1>1, <1>2, <1>3, <1>4, <1>5, WorkerKeeps
-----------------------------------------------------------------------------
(***************************************************************************)
(* The steps of an executor at work.                                       *)
(***************************************************************************)
LEMMA Known ==
    ASSUME IInv, NEW w \in Workers, work[w].at \in Active
    PROVE  /\ work[w] \in Works /\ work[w].key \in Keys /\ work[w].run \in Rows
           /\ runs \in [Keys -> Rows] /\ ops \in [Keys -> Seq(Operations)]
           /\ work \in [Workers -> Works]
           /\ runs[work[w].key] \in Rows
           /\ RowOK(work[w].key, runs[work[w].key], ops[work[w].key])
           /\ WorkOK(work[w], runs[work[w].key], ops[work[w].key])
           /\ runs[work[w].key].status \in OpenRun /\ Fenced(w)
BY Zenon DEF IInv, WorksOK, RowsOK, Works, WorkOK, Fenced

LEMMA AtStep ==
    ASSUME NEW c \in Works, NEW at \in Steps, NEW d, d = [c EXCEPT !.at = at]
    PROVE  /\ d \in Works /\ d.at = at /\ d.key = c.key /\ d.run = c.run
           /\ d.link = c.link /\ d.seen = c.seen /\ d.flag = c.flag
BY Zenon DEF Works

\* An executor that goes on with nothing else changed.
LEMMA GoKeeps ==
    ASSUME IInv, NEW w \in Workers, work[w].at \in Active, NEW at \in Active,
           Go(w, at), UNCHANGED <<plan, runs, now, ops>>,
           NEW k, k = work[w].key,
           \A d : /\ d.at = at /\ d.key = k /\ d.run = work[w].run /\ d.link = work[w].link
                  /\ d.seen = work[w].seen /\ d.flag = work[w].flag
                  => WorkOK(d, runs[k], ops[k])
    PROVE  IInv'
<1>1. PICK d : d = [work[w] EXCEPT !.at = at]
  BY Zenon
<1>2. /\ d \in Works /\ d.at = at /\ d.key = k /\ d.run = work[w].run
      /\ d.link = work[w].link /\ d.seen = work[w].seen /\ d.flag = work[w].flag
  BY <1>1, Known, AtStep DEF Active
<1>3. work' = [work EXCEPT ![w] = d]
  BY Zenon, <1>1 DEF Go
<1> QED BY Zenon, <1>2, <1>3, ReaderKeeps

\* An executor that is done with its run, or writes it and is done.
LEMMA RestKeeps ==
    ASSUME IInv, NEW w \in Workers, work[w].at \in Active, NEW row,
           RowOK(work[w].key, row, ops[work[w].key]), row.status # "none",
           Update(w, row), Rest(w), UNCHANGED <<plan, now, ops>>
    PROVE  IInv'
<1>1. PICK k : k = work[w].key
  BY Zenon
<1>2. k \in Keys /\ Fenced(w) /\ ops \in [Keys -> Seq(Operations)]
  BY Zenon, <1>1, Known
<1>3. runs' = [runs EXCEPT ![k] = row]
  BY Zenon, <1>1, <1>2 DEF Update
<1>4. ops' = [ops EXCEPT ![k] = ops[k]] /\ plan' = plan /\ now' = now
  BY Zenon, <1>2
<1>5. work' = [work EXCEPT ![w] = Idle] /\ Idle \in Works
  BY Zenon, IdleWorks DEF Rest
<1>6. RowOK(k, row, ops[k])
  BY Zenon, <1>1
<1> QED BY Zenon, <1>1, <1>2, <1>3, <1>4, <1>5, <1>6, WorkerKeeps

LEMMA AdmittedIs == \A status, k : admitted(status, k) \in {"run", "skip", "wait"}
BY Zenon DEF admitted

LEMMA LoadPlanKeeps == ASSUME IInv, NEW w \in Workers, LoadPlan(w) PROVE IInv'
<1>1. work[w].at = "load" /\ UNCHANGED <<plan, runs, now, ops>>
  BY Zenon DEF LoadPlan
<1>2. PICK k : k = work[w].key
  BY Zenon
<1>3. /\ work[w] \in Works /\ RowOK(k, runs[k], ops[k]) /\ WorkOK(work[w], runs[k], ops[k])
      /\ plan.status \in PlanStatuses /\ work[w].at \in Active
  BY Zenon, <1>1, <1>2, Known DEF Active, Steps, IInv, PlanOK
<1>4. PICK decision : decision = admitted(plan.status, k)
  BY Zenon
<1>5. decision \in {"run", "skip", "wait"}
  BY Zenon, <1>4, AdmittedIs
<1>6. CASE work[w].run.status = "claimed" /\ decision # "run" /\ Go(w, decision)
  <2>1. decision \in Active
    BY Zenon, <1>5, <1>6 DEF Active, Steps
  <2>2. ASSUME NEW d, d.at = decision, d.key = k, d.run = work[w].run, d.flag = work[w].flag
        PROVE  WorkOK(d, runs[k], ops[k])
    BY <1>1, <1>3, <1>5, <1>6, <2>2 DEF WorkOK, RowOK, Active, Steps
  <2> QED BY <1>1, <1>2, <1>3, <1>6, <2>1, <2>2, GoKeeps
<1>7. CASE /\ work[w].run.status # "claimed" \/ decision = "run"
           /\ work' = [work EXCEPT ![w].plan = plan.status,
                                   ![w].at = IF work[w].run.status = "claimed"
                                             THEN "prepare" ELSE "open"]
  <2>1. PICK at : at = IF work[w].run.status = "claimed" THEN "prepare" ELSE "open"
    BY Zenon
  <2>2. PICK d : d = [work[w] EXCEPT !.plan = plan.status, !.at = at]
    BY Zenon
  <2>3. /\ d \in Works /\ d.at = at /\ d.key = k /\ d.run = work[w].run /\ d.flag = work[w].flag
    BY Zenon, <1>2, <1>3, <2>1, <2>2 DEF Works, Steps
  <2>4. work' = [work EXCEPT ![w] = d]
    BY Zenon, <1>7, <2>1, <2>2
  <2>5. WorkOK(d, runs[k], ops[k])
    BY <1>1, <1>3, <2>1, <2>3 DEF WorkOK, Active, Steps
  <2> QED BY Zenon, <1>1, <1>2, <1>3, <2>3, <2>4, <2>5, ReaderKeeps
<1> QED BY Zenon, <1>2, <1>4, <1>6, <1>7 DEF LoadPlan

LEMMA SkipKeeps == ASSUME IInv, NEW w \in Workers, Skip(w) PROVE IInv'
<1>1. PICK k : k = work[w].key
  BY Zenon
<1>2. work[w].at = "skip" /\ work[w].at \in Active /\ Rest(w) /\ UNCHANGED <<plan, now, ops>>
  BY Zenon DEF Skip, Active, Steps
<1>3. RowOK(k, runs[k], ops[k]) /\ WorkOK(work[w], runs[k], ops[k]) /\ runs[k] \in Rows
  BY Zenon, <1>1, <1>2, Known
<1>4. PICK row : row = [[runs[k] EXCEPT !.leased = FALSE] EXCEPT !.status = "skipped"]
  BY Zenon
<1>5. Update(w, row)
  BY Zenon, <1>1, <1>4 DEF Skip, Released
<1>6. /\ row \in Rows /\ row.status = "skipped" /\ row.op = runs[k].op
      /\ row.attempts = runs[k].attempts
  BY Zenon, <1>3, <1>4 DEF Rows, RunStatuses
<1>7. RowOK(k, row, ops[k])
  BY <1>2, <1>3, <1>6 DEF RowOK, WorkOK, OpenRun
<1> QED BY Zenon, <1>1, <1>2, <1>5, <1>6, <1>7, RestKeeps

LEMMA WaitKeeps == ASSUME IInv, NEW w \in Workers, Wait(w) PROVE IInv'
<1>1. PICK k : k = work[w].key
  BY Zenon
<1>2. work[w].at = "wait" /\ work[w].at \in Active /\ Rest(w) /\ UNCHANGED <<plan, now, ops>>
  BY Zenon DEF Wait, Active, Steps
<1>3. RowOK(k, runs[k], ops[k]) /\ runs[k].status \in OpenRun /\ runs[k] \in Rows
  BY Zenon, <1>1, <1>2, Known
<1>4. PICK row : row = [runs[k] EXCEPT !.leased = FALSE]
  BY Zenon
<1>5. Update(w, row)
  BY Zenon, <1>1, <1>4 DEF Wait, Released
<1>6. /\ row \in Rows /\ row.status = runs[k].status /\ row.op = runs[k].op
      /\ row.attempts = runs[k].attempts
  BY Zenon, <1>3, <1>4 DEF Rows
<1>7. RowOK(k, row, ops[k]) /\ row.status # "none"
  BY Zenon, <1>3, <1>6 DEF RowOK, OpenRun
<1> QED BY Zenon, <1>1, <1>2, <1>5, <1>7, RestKeeps

LEMMA PrepareKeeps == ASSUME IInv, NEW w \in Workers, Prepare(w) PROVE IInv'
<1>1. PICK k : k = work[w].key
  BY Zenon
<1>2. work[w].at = "prepare" /\ work[w].at \in Active /\ UNCHANGED <<plan, now, ops>>
  BY Zenon DEF Prepare, Active, Steps
<1>3. /\ RowOK(k, runs[k], ops[k]) /\ WorkOK(work[w], runs[k], ops[k]) /\ runs[k] \in Rows
      /\ Fenced(w) /\ k \in Keys /\ ops \in [Keys -> Seq(Operations)] /\ work[w] \in Works
  BY Zenon, <1>1, <1>2, Known
<1>4. PICK row : row = [runs[k] EXCEPT !.status = "prepared"]
  BY Zenon
<1>5. PICK c : c = [work[w] EXCEPT !.at = "open", !.run.status = "prepared"]
  BY Zenon
<1>6. /\ runs' = [runs EXCEPT ![k] = row] /\ ops' = [ops EXCEPT ![k] = ops[k]]
      /\ work' = [work EXCEPT ![w] = c] /\ plan' = plan /\ now' = now
  BY Zenon, <1>1, <1>2, <1>3, <1>4, <1>5 DEF Prepare, Update
<1>7. /\ row \in Rows /\ row.status = "prepared" /\ row.op = runs[k].op /\ row.gen = runs[k].gen
      /\ row.attempts = runs[k].attempts /\ row.leased = runs[k].leased
  BY Zenon, <1>3, <1>4 DEF Rows, RunStatuses, OpenRun
<1>8. /\ c \in Works /\ c.at = "open" /\ c.key = k /\ c.flag = work[w].flag
      /\ c.run.status = "prepared" /\ c.run.op = work[w].run.op
      /\ c.run.gen = work[w].run.gen /\ c.run.attempts = work[w].run.attempts
  <2>1. PICK r : r = [work[w].run EXCEPT !.status = "prepared"]
    BY Zenon
  <2>2. /\ r \in Rows /\ r.status = "prepared" /\ r.op = work[w].run.op
        /\ r.gen = work[w].run.gen /\ r.attempts = work[w].run.attempts
    BY Zenon, <1>3, <2>1 DEF Works, Rows, RunStatuses, OpenRun
  <2>3. c = [[work[w] EXCEPT !.run = r] EXCEPT !.at = "open"]
    BY Zenon, <1>3, <1>5, <2>1 DEF Works
  <2>4. c \in Works /\ c.at = "open" /\ c.key = k /\ c.flag = work[w].flag /\ c.run = r
    BY Zenon, <1>1, <1>3, <2>2, <2>3 DEF Works, Steps
  <2> QED BY Zenon, <2>2, <2>4
<1>9. RowOK(k, row, ops[k]) /\ WorkOK(c, row, ops[k])
  <2>1. RowOK(k, row, ops[k])
    BY <1>2, <1>3, <1>7 DEF RowOK, WorkOK, OpenRun
  <2>2. WorkOK(c, row, ops[k])
    BY <1>2, <1>3, <1>7, <1>8 DEF WorkOK, OpenRun, Active, Steps
  <2> QED BY Zenon, <2>1, <2>2
<1> QED BY Zenon, <1>1, <1>2, <1>6, <1>7, <1>8, <1>9, WorkerKeeps

LEMMA OnwardKeeps ==
    ASSUME IInv, NEW w \in Workers, work[w].at \in Active, NEW at \in Active,
           Onward(w, at), UNCHANGED <<plan, runs, now, ops>>,
           NEW k, k = work[w].key,
           \A d : /\ d.at = at /\ d.key = k /\ d.run = work[w].run /\ d.flag = work[w].flag
                  => WorkOK(d, runs[k], ops[k])
    PROVE  IInv'
<1>1. PICK d : d = [work[w] EXCEPT !.at = at, !.plan = "draft"]
  BY Zenon
<1>2. /\ d \in Works /\ d.at = at /\ d.key = k /\ d.run = work[w].run /\ d.flag = work[w].flag
  BY Zenon, <1>1, Known DEF Active, Works, PlanStatuses
<1>3. work' = [work EXCEPT ![w] = d]
  BY Zenon, <1>1 DEF Onward
<1> QED BY Zenon, <1>2, <1>3, ReaderKeeps

LEMMA OpenKeeps == ASSUME IInv, NEW w \in Workers, Open(w) PROVE IInv'
<1>1. PICK k : k = work[w].key
  BY Zenon
<1>2. work[w].at = "open" /\ work[w].at \in Active /\ UNCHANGED <<plan, runs, now, ops>>
  BY Zenon DEF Open, Active, Steps
<1>3. RowOK(k, runs[k], ops[k]) /\ WorkOK(work[w], runs[k], ops[k])
  BY Zenon, <1>1, <1>2, Known
<1>4. PICK at \in {"skip", "send", "observe"} :
         /\ Onward(w, at)
         /\ at \in {"skip", "send"} => work[w].run.status = "prepared" /\ work[w].run.op = 0
         /\ at = "observe" => work[w].run.op # 0
  BY Zenon DEF Open
<1>5. at \in Active
  BY Zenon DEF Active, Steps
<1>6. ASSUME NEW d, d.at = at, d.key = k, d.run = work[w].run, d.flag = work[w].flag
      PROVE  WorkOK(d, runs[k], ops[k])
  BY <1>2, <1>3, <1>4, <1>6 DEF WorkOK, Active, Steps
<1> QED BY <1>1, <1>2, <1>4, <1>5, <1>6, OnwardKeeps

LEMMA CannotReachKeeps == ASSUME IInv, NEW w \in Workers, CannotReach(w) PROVE IInv'
<1>1. PICK k : k = work[w].key
  BY Zenon
<1>2. /\ work[w].at \in {"open", "observe"} /\ work[w].at \in Active
      /\ UNCHANGED <<plan, runs, now, ops>> /\ Onward(w, "defer") /\ "defer" \in Active
  BY Zenon DEF CannotReach, Active, Steps
<1>3. RowOK(k, runs[k], ops[k]) /\ WorkOK(work[w], runs[k], ops[k])
  BY Zenon, <1>1, <1>2, Known
<1>4. ASSUME NEW d, d.at = "defer", d.key = k, d.run = work[w].run, d.flag = work[w].flag
      PROVE  WorkOK(d, runs[k], ops[k])
  BY <1>2, <1>3, <1>4 DEF WorkOK, Active, Steps
<1> QED BY <1>1, <1>2, <1>4, OnwardKeeps

LEMMA SendRefusedKeeps == ASSUME IInv, NEW w \in Workers, SendRefused(w) PROVE IInv'
<1>1. PICK k : k = work[w].key
  BY Zenon
<1>2. /\ work[w].at = "send" /\ work[w].at \in Active /\ "failed" \in Active
      /\ UNCHANGED <<plan, runs, now, ops>> /\ Go(w, "failed")
  BY Zenon DEF SendRefused, Active, Steps
<1>3. WorkOK(work[w], runs[k], ops[k])
  BY Zenon, <1>1, <1>2, Known
<1>4. ASSUME NEW d, d.at = "failed", d.key = k, d.run = work[w].run, d.flag = work[w].flag
      PROVE  WorkOK(d, runs[k], ops[k])
  BY <1>2, <1>3, <1>4 DEF WorkOK, Active, Steps
<1> QED BY <1>1, <1>2, <1>4, GoKeeps

\* The operation is journaled for the run it was resolved for: no other run of
\* the lane is prepared.
LEMMA PublishKeeps == ASSUME IInv, NEW w \in Workers, Publish(w) PROVE IInv'
<1>1. PICK k : k = work[w].key
  BY Zenon
<1>2. work[w].at = "send" /\ work[w].at \in Active /\ plan' = plan /\ now' = now
  BY Zenon DEF Publish, Active, Steps
<1>3. /\ RowOK(k, runs[k], ops[k]) /\ WorkOK(work[w], runs[k], ops[k]) /\ runs[k] \in Rows
      /\ k \in Keys /\ ops \in [Keys -> Seq(Operations)] /\ runs \in [Keys -> Rows]
      /\ work[w] \in Works
  BY Zenon, <1>1, <1>2, Known
<1>4. k \in Claimable(Lane(k))
  BY Zenon, <1>2, <1>3 DEF Claimable, WorkOK
<1>5. PICK row, os, c, o : /\ o = [calls |-> k, state |-> "prepared"] /\ os = Append(ops[k], o)
                           /\ row = [runs[k] EXCEPT !.op = Len(ops[k]) + 1]
                           /\ c = [work[w] EXCEPT !.at = "sign", !.link = k]
  BY Zenon
<1>6. /\ runs' = [runs EXCEPT ![k] = row] /\ ops' = [ops EXCEPT ![k] = os]
      /\ work' = [work EXCEPT ![w] = c]
  <2>1. PICK j \in Keys :
           /\ Claimable(Lane(k)) = {j}
           /\ ops' = [ops EXCEPT ![j] = Append(@, [calls |-> k, state |-> "prepared"])]
           /\ runs' = [runs EXCEPT ![j].op = Len(ops[j]) + 1]
           /\ work' = [work EXCEPT ![w].at = "sign", ![w].link = j]
    BY Zenon, <1>1 DEF Publish
  <2>2. j = k
    BY Zenon, <1>4, <2>1
  <2> QED BY Zenon, <1>3, <1>5, <2>1, <2>2
<1>7. Len(ops[k]) \in Nat /\ Len(ops[k]) + 1 \in 0 .. MaxSendAttempts /\ runs[k].op = 0
  BY <1>2, <1>3, WorkersAssumption DEF RowOK, WorkOK, OpenRun, Rows
<1>8. /\ row \in Rows /\ row.status = runs[k].status /\ row.op = Len(ops[k]) + 1
      /\ row.gen = runs[k].gen /\ row.attempts = runs[k].attempts /\ row.leased = runs[k].leased
  BY Zenon, <1>3, <1>5, <1>7 DEF Rows
<1>9. /\ o \in Operations /\ os \in Seq(Operations) /\ Len(os) = Len(ops[k]) + 1
      /\ os[Len(ops[k]) + 1] = o /\ \A n \in 1 .. Len(ops[k]) : os[n] = ops[k][n]
  <2>1. o \in Operations
    BY Zenon, <1>3, <1>5 DEF Operations, Unresolved
  <2> QED BY <1>3, <1>5, <2>1
<1>10. /\ c \in Works /\ c.at = "sign" /\ c.key = k /\ c.run = work[w].run /\ c.link = k
       /\ c.flag = work[w].flag
  BY Zenon, <1>1, <1>3, <1>5 DEF Works, Steps
<1>11. o.calls = k /\ o.state = "prepared"
  BY Zenon, <1>5
<1>12. RowOK(k, row, os)
  <2>1. /\ row.status = "prepared" /\ row.attempts \in Nat
        /\ Len(ops[k]) <= row.attempts /\ row.attempts < MaxSendAttempts
    BY <1>2, <1>3, <1>7, <1>8 DEF RowOK, WorkOK, OpenRun, Rows
  <2>2. ASSUME NEW n \in 1 .. Len(os)
        PROVE  os[n].calls = k /\ (n # row.op => os[n].state = "abandoned")
    <3>1. CASE n = Len(ops[k]) + 1
      BY Zenon, <1>8, <1>9, <1>11, <3>1
    <3>2. CASE n \in 1 .. Len(ops[k])
      BY <1>3, <1>7, <1>9, <3>2 DEF RowOK
    <3> QED BY <1>7, <1>9, <3>1, <3>2
  <2> QED BY <1>7, <1>8, <1>9, <2>1, <2>2 DEF RowOK, OpenRun
<1>13. WorkOK(c, row, os)
  BY <1>2, <1>3, <1>7, <1>8, <1>9, <1>10, <1>11 DEF WorkOK, Active, Steps
<1>14. Included(ops[k]) => Included(os)
  BY <1>7, <1>9 DEF Included
<1>15. row.status # "none"
  BY Zenon, <1>3, <1>8, <1>2 DEF WorkOK
<1> QED BY Zenon, <1>1, <1>2, <1>6, <1>10, <1>12, <1>13, <1>14, <1>15, WorkerKeeps

\* The client writes the state of the operation it is sending.
LEMMA SendKeeps ==
    ASSUME IInv, NEW w \in Workers, work[w].at \in {"sign", "wire"},
           NEW state \in {"attempted", "abandoned", "sent"}, SetOp(w, state),
           UNCHANGED <<plan, runs, now>>,
           NEW c \in Works, work' = [work EXCEPT ![w] = c],
           c.key = work[w].key, c.run = work[w].run, c.flag = work[w].flag,
           c.at \in {"wire", "sent", "failed"},
           c.at = "wire" => c.link = work[w].link /\ state = "attempted"
    PROVE  IInv'
<1>1. PICK k : k = work[w].key
  BY Zenon
<1>2. work[w].at \in Active
  BY Zenon DEF Active, Steps
<1>3. /\ RowOK(k, runs[k], ops[k]) /\ WorkOK(work[w], runs[k], ops[k])
      /\ k \in Keys /\ ops \in [Keys -> Seq(Operations)] /\ runs \in [Keys -> Rows]
  BY Zenon, <1>1, <1>2, Known
<1>4. PICK n : n = Len(ops[k])
  BY Zenon
<1>5. /\ n = runs[k].op /\ n \in 1 .. Len(ops[k]) /\ n # 0 /\ work[w].link = k
      /\ ops[k] \in Seq(Operations) /\ ops[k][n].state \in {"prepared", "attempted"}
      /\ runs[k].status = "prepared"
  <2>1. ops[k] \in Seq(Operations) /\ Len(ops[k]) \in Nat
    BY <1>3
  <2>2. /\ runs[k].op # 0 /\ runs[k].op \in {0, Len(ops[k])} /\ work[w].link = k
        /\ runs[k].status = "prepared"
    BY Zenon, <1>1, <1>3 DEF RowOK, WorkOK
  <2>3. ops[k][runs[k].op].state \in {"prepared", "attempted"}
    BY Zenon, <1>3 DEF WorkOK
  <2> QED BY <1>4, <2>1, <2>2, <2>3
<1>6. PICK os : os = [ops[k] EXCEPT ![n].state = state]
  BY Zenon
<1>7. ops' = [ops EXCEPT ![k] = os] /\ runs' = [runs EXCEPT ![k] = runs[k]]
  BY Zenon, <1>3, <1>4, <1>5, <1>6 DEF SetOp
<1>8. /\ os \in Seq(Operations) /\ Len(os) = Len(ops[k])
      /\ os[n].state = state /\ os[n].calls = ops[k][n].calls
      /\ \A m \in 1 .. Len(ops[k]) : m # n => os[m] = ops[k][m]
  <2>1. state \in Unresolved \cup Resolved
    BY Zenon DEF Unresolved, Resolved
  <2>2. PICK z : z = ops[k]
    BY Zenon
  <2>3. z \in Seq(Operations) /\ n \in 1 .. Len(z) /\ os = [z EXCEPT ![n].state = state]
    BY Zenon, <1>5, <1>6, <2>2
  <2>4. /\ os \in Seq(Operations) /\ Len(os) = Len(z)
        /\ os[n].state = state /\ os[n].calls = z[n].calls
        /\ \A m \in 1 .. Len(z) : m # n => os[m] = z[m]
    BY <2>1, <2>3, SetState
  <2> QED BY Zenon, <2>2, <2>4
<1>9. RowOK(k, runs[k], os)
  BY <1>3, <1>5, <1>8 DEF RowOK, OpenRun
<1>10. Included(ops[k]) => Included(os)
  BY <1>5, <1>8 DEF Included
<1>11. WorkOK(c, runs[k], os)
  BY Zenon, <1>1, <1>3, <1>5, <1>8 DEF WorkOK, Active, Steps
<1>12. runs[k].status # "none" /\ plan' = plan /\ now' = now /\ c.key = k
  BY Zenon, <1>1, <1>5
<1> QED BY Zenon, <1>1, <1>2, <1>7, <1>9, <1>10, <1>11, <1>12, WorkerKeeps

LEMMA AttemptKeeps == ASSUME IInv, NEW w \in Workers, Attempt(w) PROVE IInv'
<1>1. PICK c : c = [work[w] EXCEPT !.at = "wire"]
  BY Zenon
<1>2. /\ work[w].at = "sign" /\ SetOp(w, "attempted") /\ UNCHANGED <<plan, runs, now>>
      /\ work' = [work EXCEPT ![w] = c] /\ work[w].at \in Active /\ "wire" \in Steps
  BY Zenon, <1>1 DEF Attempt, Go, Active, Steps
<1>3. /\ c \in Works /\ c.at = "wire" /\ c.key = work[w].key /\ c.run = work[w].run
      /\ c.link = work[w].link /\ c.flag = work[w].flag
  BY <1>1, <1>2, Known, AtStep
<1> QED BY Zenon, <1>2, <1>3, SendKeeps

\* The end of a send.
LEMMA SentKeeps ==
    ASSUME IInv, NEW w \in Workers, work[w].at \in {"sign", "wire"},
           NEW state \in {"abandoned", "sent"}, SetOp(w, state),
           NEW at \in {"sent", "failed"}, SendEnds(w, at), UNCHANGED <<plan, runs, now>>
    PROVE  IInv'
<1>1. PICK c : c = [work[w] EXCEPT !.at = at, !.link = Setup]
  BY Zenon
<1>2. work' = [work EXCEPT ![w] = c] /\ work[w].at \in Active
  BY Zenon, <1>1 DEF SendEnds, Active, Steps
<1>3. c \in Works /\ c.at = at /\ c.key = work[w].key /\ c.run = work[w].run /\ c.flag = work[w].flag
  BY Zenon, <1>1, <1>2, Known, KeyFacts DEF Works, Steps
<1> QED BY Zenon, <1>2, <1>3, SendKeeps

LEMMA SubmitKeeps ==
    ASSUME IInv, NEW w \in Workers, Submit(w) \/ SendAbandoned(w) PROVE IInv'
BY Zenon, SentKeeps DEF Submit, SendAbandoned

LEMMA ReadAfterSendKeeps == ASSUME IInv, NEW w \in Workers, ReadAfterSend(w) PROVE IInv'
<1>1. PICK k, op : k = work[w].key /\ op = runs[k].op
  BY Zenon
<1>2. work[w].at = "sent" /\ work[w].at \in Active /\ UNCHANGED <<plan, runs, now, ops>>
  BY Zenon DEF ReadAfterSend, Active, Steps
<1>3. /\ RowOK(k, runs[k], ops[k]) /\ WorkOK(work[w], runs[k], ops[k]) /\ work[w] \in Works
      /\ runs[k] \in Rows /\ work[w].run \in Rows
  BY Zenon, <1>1, <1>2, Known
<1>4. op # 0 /\ op \in 0 .. MaxSendAttempts
  BY Zenon, <1>1, <1>2, <1>3 DEF WorkOK, Rows
<1>5. PICK r : r = [work[w].run EXCEPT !.op = op]
  BY Zenon
<1>6. /\ r \in Rows /\ r.op = op /\ r.status = work[w].run.status /\ r.gen = work[w].run.gen
      /\ r.attempts = work[w].run.attempts
  BY Zenon, <1>3, <1>4, <1>5 DEF Rows
<1>7. PICK c : c = [work[w] EXCEPT !.at = "link", !.run = r]
  BY Zenon
<1>8. work' = [work EXCEPT ![w] = c]
  BY Zenon, <1>1, <1>3, <1>4, <1>5, <1>7 DEF ReadAfterSend, Works
<1>9. c \in Works /\ c.at = "link" /\ c.key = k /\ c.run = r /\ c.flag = work[w].flag
  BY Zenon, <1>1, <1>3, <1>6, <1>7 DEF Works, Steps
<1>10. WorkOK(c, runs[k], ops[k])
  BY <1>1, <1>2, <1>3, <1>4, <1>6, <1>9 DEF WorkOK, Active, Steps
<1> QED BY Zenon, <1>1, <1>2, <1>8, <1>9, <1>10, ReaderKeeps

LEMMA MarkSubmittedKeeps == ASSUME IInv, NEW w \in Workers, MarkSubmitted(w) PROVE IInv'
<1>1. PICK k : k = work[w].key
  BY Zenon
<1>2. work[w].at = "link" /\ work[w].at \in Active /\ UNCHANGED <<plan, now, ops>>
  BY Zenon DEF MarkSubmitted, Active, Steps
<1>3. /\ RowOK(k, runs[k], ops[k]) /\ WorkOK(work[w], runs[k], ops[k]) /\ runs[k] \in Rows
      /\ Fenced(w) /\ k \in Keys /\ ops \in [Keys -> Seq(Operations)] /\ work[w] \in Works
      /\ work[w].run \in Rows
  BY Zenon, <1>1, <1>2, Known
<1>4. PICK row, r : /\ row = [runs[k] EXCEPT !.status = "submitted"]
                    /\ r = [work[w].run EXCEPT !.status = "submitted"]
  BY Zenon
<1>5. /\ row \in Rows /\ row.status = "submitted" /\ row.op = runs[k].op /\ row.gen = runs[k].gen
      /\ row.attempts = runs[k].attempts /\ row.leased = runs[k].leased
  BY Zenon, <1>3, <1>4 DEF Rows, RunStatuses, OpenRun
<1>6. /\ r \in Rows /\ r.status = "submitted" /\ r.op = work[w].run.op
      /\ r.gen = work[w].run.gen /\ r.attempts = work[w].run.attempts
  BY Zenon, <1>3, <1>4 DEF Rows, RunStatuses, OpenRun
<1>7. PICK c : c = [work[w] EXCEPT !.at = "observe", !.run = r]
  BY Zenon
<1>8. c \in Works /\ c.at = "observe" /\ c.key = k /\ c.run = r /\ c.flag = work[w].flag
  BY Zenon, <1>1, <1>3, <1>6, <1>7 DEF Works, Steps
<1>9. /\ runs' = [runs EXCEPT ![k] = row] /\ ops' = [ops EXCEPT ![k] = ops[k]]
      /\ work' = [work EXCEPT ![w] = c] /\ plan' = plan /\ now' = now
  BY Zenon, <1>1, <1>2, <1>3, <1>4, <1>7 DEF MarkSubmitted, Update, Works
<1>10. RowOK(k, row, ops[k])
  BY Zenon, <1>2, <1>3, <1>5 DEF RowOK, WorkOK, OpenRun
<1>11. WorkOK(c, row, ops[k])
  BY <1>2, <1>3, <1>5, <1>6, <1>8 DEF WorkOK, OpenRun, Active, Steps
<1> QED BY Zenon, <1>1, <1>2, <1>5, <1>8, <1>9, <1>10, <1>11, WorkerKeeps

LEMMA ReadAfterFailureKeeps == ASSUME IInv, NEW w \in Workers, ReadAfterFailure(w) PROVE IInv'
<1>1. PICK k : k = work[w].key
  BY Zenon
<1>2. /\ work[w].at = "failed" /\ work[w].at \in Active /\ UNCHANGED <<plan, runs, now, ops>>
      /\ "uncertain" \in Active
  BY Zenon DEF ReadAfterFailure, Active, Steps
<1>3. RowOK(k, runs[k], ops[k]) /\ WorkOK(work[w], runs[k], ops[k]) /\ work[w] \in Works
  BY Zenon, <1>1, <1>2, Known
<1>4. CASE runs[k].op # 0
  <2>1. Go(w, "uncertain")
    BY Zenon, <1>1, <1>4 DEF ReadAfterFailure
  <2>2. ASSUME NEW d, d.at = "uncertain", d.key = k, d.run = work[w].run, d.flag = work[w].flag
        PROVE  WorkOK(d, runs[k], ops[k])
    BY <1>2, <1>3, <1>4, <2>2 DEF WorkOK, Active, Steps
  <2> QED BY <1>1, <1>2, <2>1, <2>2, GoKeeps
<1>5. CASE runs[k].op = 0
  <2>1. PICK counts \in BOOLEAN : work' = [work EXCEPT ![w].at = "defer", ![w].flag = counts]
    BY Zenon, <1>1, <1>5 DEF ReadAfterFailure
  <2>2. PICK c : c = [work[w] EXCEPT !.at = "defer", !.flag = counts]
    BY Zenon
  <2>3. c \in Works /\ c.at = "defer" /\ c.key = k /\ c.run = work[w].run /\ c.flag = counts
    BY Zenon, <1>1, <1>3, <2>2 DEF Works, Steps
  <2>4. work' = [work EXCEPT ![w] = c]
    BY Zenon, <2>1, <2>2
  <2>5. WorkOK(c, runs[k], ops[k])
    BY <1>2, <1>3, <1>5, <2>3 DEF WorkOK, Active, Steps
  <2> QED BY Zenon, <1>1, <1>2, <2>3, <2>4, <2>5, ReaderKeeps
<1> QED BY Zenon, <1>4, <1>5

LEMMA MarkUncertainKeeps == ASSUME IInv, NEW w \in Workers, MarkUncertain(w) PROVE IInv'
<1>1. PICK k : k = work[w].key
  BY Zenon
<1>2. work[w].at = "uncertain" /\ work[w].at \in Active /\ Rest(w) /\ UNCHANGED <<plan, now, ops>>
  BY Zenon DEF MarkUncertain, Active, Steps
<1>3. RowOK(k, runs[k], ops[k]) /\ WorkOK(work[w], runs[k], ops[k]) /\ runs[k] \in Rows
  BY Zenon, <1>1, <1>2, Known
<1>4. PICK row : row = [[runs[k] EXCEPT !.leased = FALSE] EXCEPT !.status = "submitted"]
  BY Zenon
<1>5. Update(w, row)
  BY Zenon, <1>1, <1>4 DEF MarkUncertain, Released
<1>6. /\ row \in Rows /\ row.status = "submitted" /\ row.op = runs[k].op
      /\ row.attempts = runs[k].attempts
  BY Zenon, <1>3, <1>4 DEF Rows, RunStatuses, OpenRun
<1>7. RowOK(k, row, ops[k])
  BY <1>2, <1>3, <1>6 DEF RowOK, WorkOK, OpenRun
<1> QED BY Zenon, <1>1, <1>2, <1>5, <1>6, <1>7, RestKeeps

\* An executor writes its run and goes on to settle the plan, if that ended it.
LEMMA EndKeeps ==
    ASSUME IInv, NEW w \in Workers, work[w].at \in Active, NEW row,
           RowOK(work[w].key, row, ops[work[w].key]), row.status # "none",
           NEW ended, NEW finalized \in BOOLEAN,
           ended => row.status = IF finalized THEN "finalized" ELSE "failed",
           Update(w, row), SettleIf(w, ended, finalized), UNCHANGED <<plan, now, ops>>
    PROVE  IInv'
<1>1. CASE ~ended
  <2>1. Rest(w)
    BY Zenon, <1>1 DEF SettleIf
  <2> QED BY Zenon, <2>1, RestKeeps
<1>2. CASE ended
  <2>1. PICK k : k = work[w].key
    BY Zenon
  <2>2. k \in Keys /\ Fenced(w) /\ ops \in [Keys -> Seq(Operations)] /\ work[w] \in Works
    BY Zenon, <2>1, Known
  <2>3. PICK c : c = [work[w] EXCEPT !.at = "settle", !.flag = finalized]
    BY Zenon
  <2>4. c \in Works /\ c.at = "settle" /\ c.key = k /\ c.flag = finalized
    BY Zenon, <2>1, <2>2, <2>3 DEF Works, Steps
  <2>5. /\ runs' = [runs EXCEPT ![k] = row] /\ ops' = [ops EXCEPT ![k] = ops[k]]
        /\ work' = [work EXCEPT ![w] = c] /\ plan' = plan /\ now' = now
    BY Zenon, <1>2, <2>1, <2>2, <2>3 DEF Update, SettleIf
  <2>6. WorkOK(c, row, ops[k])
    BY Zenon, <1>2, <2>4 DEF WorkOK, Active
  <2>7. RowOK(k, row, ops[k])
    BY Zenon, <2>1
  <2> QED BY Zenon, <2>1, <2>4, <2>5, <2>6, <2>7, WorkerKeeps
<1> QED BY Zenon, <1>1, <1>2

LEMMA DeferKeeps == ASSUME IInv, NEW w \in Workers, Defer(w) PROVE IInv'
<1> DEFINE exhausted == work[w].flag /\ work[w].run.attempts + 1 >= MaxSendAttempts
<1>1. PICK k : k = work[w].key
  BY Zenon
<1>2. work[w].at = "defer" /\ work[w].at \in Active /\ UNCHANGED <<plan, now, ops>>
  BY Zenon DEF Defer, Active, Steps
<1>3. /\ RowOK(k, runs[k], ops[k]) /\ WorkOK(work[w], runs[k], ops[k]) /\ runs[k] \in Rows
      /\ work[w] \in Works
  BY Zenon, <1>1, <1>2, Known
<1>4. PICK status, attempts :
         /\ status = IF exhausted THEN "failed" ELSE work[w].run.status
         /\ attempts = IF work[w].flag THEN runs[k].attempts + 1 ELSE runs[k].attempts
  BY Zenon
<1>5. PICK row :
         row = [[runs[k] EXCEPT !.leased = FALSE] EXCEPT !.status = status, !.attempts = attempts]
  BY Zenon
<1>6. Update(w, row) /\ SettleIf(w, exhausted, FALSE)
  BY Zenon, <1>1, <1>3, <1>4, <1>5 DEF Defer, Released, Rows
<1>7. /\ runs[k].status \in OpenRun /\ work[w].run.status = runs[k].status
      /\ work[w].run.attempts = runs[k].attempts /\ runs[k].attempts \in Nat
      /\ runs[k].attempts < MaxSendAttempts /\ work[w].flag \in BOOLEAN
      /\ work[w].flag => runs[k].op = 0
  <2>1. work[w].flag \in BOOLEAN /\ runs[k].attempts \in Nat
    BY <1>3, WorkersAssumption DEF Rows, Works
  <2>2. /\ runs[k].status \in OpenRun /\ work[w].run.status = runs[k].status
        /\ work[w].run.attempts = runs[k].attempts
        /\ work[w].flag => runs[k].op = 0
    BY Zenon, <1>2, <1>3 DEF WorkOK
  <2> QED BY Zenon, <1>3, <2>1, <2>2 DEF RowOK
<1>8. status \in RunStatuses /\ attempts \in 0 .. MaxSendAttempts
  BY <1>4, <1>7, WorkersAssumption DEF RunStatuses
<1>9. row \in Rows /\ row.status = status /\ row.op = runs[k].op /\ row.attempts = attempts
  BY Zenon, <1>3, <1>5, <1>8 DEF Rows
<1>10. RowOK(k, row, ops[k])
  <2>1. CASE exhausted
    <3>1. /\ row.status = "failed" /\ runs[k].op = 0 /\ row.op = 0 /\ row \in Rows
          /\ row.attempts = runs[k].attempts + 1 /\ runs[k].attempts \in Nat
      BY Zenon, <1>4, <1>7, <1>9, <2>1
    <3> HIDE DEF exhausted
    <3> QED BY <1>3, <3>1 DEF RowOK, OpenRun
  <2>2. CASE ~exhausted
    <3>1. attempts < MaxSendAttempts /\ attempts >= runs[k].attempts /\ attempts \in Nat
      BY <1>1, <1>4, <1>7, <2>2, WorkersAssumption
    <3>2. row.status = runs[k].status
      BY Zenon, <1>4, <1>7, <1>9, <2>2
    <3>3. PICK length : length = Len(ops[k])
      BY Zenon
    <3>4. length \in Nat /\ length <= runs[k].attempts + (IF runs[k].op = 0 THEN 0 ELSE 1)
      BY <1>3, <3>3 DEF RowOK
    <3>5. length <= row.attempts + (IF row.op = 0 THEN 0 ELSE 1)
      BY <1>7, <1>9, <3>1, <3>4
    <3>6. row.status \in OpenRun /\ row.attempts < MaxSendAttempts
      BY Zenon, <1>7, <1>9, <3>1, <3>2
    <3> HIDE DEF exhausted
    <3> QED BY Zenon, <1>3, <1>9, <3>2, <3>3, <3>5, <3>6 DEF RowOK, OpenRun
  <2> QED BY Zenon, <2>1, <2>2
<1>11. row.status # "none" /\ (exhausted => row.status = IF FALSE THEN "finalized" ELSE "failed")
  BY Zenon, <1>4, <1>7, <1>9 DEF OpenRun
<1> QED BY Zenon, <1>1, <1>2, <1>6, <1>10, <1>11, EndKeeps

LEMMA ReportsAre ==
    ASSUME NEW state, NEW seen \in Reports(state), state \in Unresolved \cup Resolved
    PROVE  /\ seen \in Observations
           /\ seen \in Resolved => state = seen
           /\ seen = "included_success" => state = "included_success"
BY Zenon DEF Reports, Observations, Unresolved, Resolved

LEMMA ObserveKeeps == ASSUME IInv, NEW w \in Workers, Observe(w) PROVE IInv'
<1>1. PICK k, n : k = work[w].key /\ n = work[w].run.op
  BY Zenon
<1>2. work[w].at = "observe" /\ work[w].at \in Active /\ UNCHANGED <<plan, runs, now, ops>>
  BY Zenon DEF Observe, Active, Steps
<1>3. /\ RowOK(k, runs[k], ops[k]) /\ WorkOK(work[w], runs[k], ops[k]) /\ work[w] \in Works
      /\ ops[k] \in Seq(Operations)
  BY Zenon, <1>1, <1>2, Known
<1>4. n = runs[k].op /\ n # 0 /\ n \in 1 .. Len(ops[k])
  <2>1. n = runs[k].op /\ n # 0 /\ n \in {0, Len(ops[k])}
    BY Zenon, <1>1, <1>2, <1>3 DEF RowOK, WorkOK
  <2>2. Len(ops[k]) \in Nat
    BY <1>3
  <2> QED BY <2>1, <2>2
<1>5. PICK seen \in Reports(ops[k][n].state) :
         work' = [work EXCEPT ![w].at = "write", ![w].seen = seen]
  BY Zenon, <1>1 DEF Observe
<1>6. ops[k][n].state \in Unresolved \cup Resolved
  <2>1. ops[k][n] \in Operations
    BY <1>3, <1>4
  <2> QED BY Zenon, <2>1 DEF Operations
<1>7. /\ seen \in Observations
      /\ seen \in Resolved => ops[k][n].state = seen
      /\ seen = "included_success" => ops[k][n].state = "included_success"
  BY Zenon, <1>6, ReportsAre
<1>8. PICK c : c = [work[w] EXCEPT !.at = "write", !.seen = seen]
  BY Zenon
<1>9. /\ c \in Works /\ c.at = "write" /\ c.key = k /\ c.run = work[w].run
      /\ c.seen = seen /\ c.flag = work[w].flag
  BY Zenon, <1>1, <1>3, <1>7, <1>8 DEF Works, Steps
<1>10. work' = [work EXCEPT ![w] = c]
  BY Zenon, <1>5, <1>8
<1>11. seen = "included_success" => Included(ops[k])
  BY Zenon, <1>4, <1>7 DEF Included
<1>12. WorkOK(c, runs[k], ops[k])
  BY <1>2, <1>3, <1>4, <1>7, <1>9, <1>11 DEF WorkOK, Active, Steps
<1> QED BY Zenon, <1>1, <1>2, <1>9, <1>10, <1>12, ReaderKeeps

\* What an executor that writes its observation knows.
LEMMA Writing ==
    ASSUME IInv, NEW w \in Workers, work[w].at = "write", NEW k, k = work[w].key
    PROVE  /\ work[w].at \in Active /\ work[w] \in Works /\ k \in Keys
           /\ runs[k] \in Rows /\ ops[k] \in Seq(Operations)
           /\ RowOK(k, runs[k], ops[k]) /\ Fenced(w)
           /\ runs[k].op # 0 /\ runs[k].op \in 1 .. Len(ops[k]) /\ runs[k].op = work[w].run.op
           /\ runs[k].attempts = work[w].run.attempts /\ runs[k].status = work[w].run.status
           /\ runs[k].attempts \in Nat /\ runs[k].attempts < MaxSendAttempts
           /\ runs[k].status \in OpenRun
           /\ work[w].seen \in Resolved => ops[k][runs[k].op].state = work[w].seen
           /\ work[w].seen = "included_success" => Included(ops[k])
           /\ ~work[w].flag
<1>1. work[w].at \in Active
  BY Zenon DEF Active, Steps
<1>2. /\ RowOK(k, runs[k], ops[k]) /\ WorkOK(work[w], runs[k], ops[k]) /\ work[w] \in Works
      /\ ops[k] \in Seq(Operations) /\ runs[k] \in Rows /\ k \in Keys /\ Fenced(w)
      /\ runs[k].status \in OpenRun
  BY Zenon, <1>1, Known
<1>3. runs[k].op # 0 /\ runs[k].op \in {0, Len(ops[k])} /\ Len(ops[k]) \in Nat
  <2>1. Len(ops[k]) \in Nat
    BY <1>2
  <2> QED BY Zenon, <1>2, <2>1 DEF RowOK, WorkOK
<1>4. runs[k].attempts \in Nat /\ runs[k].attempts < MaxSendAttempts
  <2>1. runs[k].attempts \in 0 .. MaxSendAttempts
    BY Zenon, <1>2 DEF Rows
  <2>2. runs[k].attempts < MaxSendAttempts
    BY Zenon, <1>2 DEF RowOK
  <2> QED BY <2>1, <2>2, WorkersAssumption
<1>5. /\ runs[k].op = work[w].run.op
      /\ runs[k].attempts = work[w].run.attempts /\ runs[k].status = work[w].run.status
      /\ work[w].seen \in Resolved => ops[k][runs[k].op].state = work[w].seen
      /\ work[w].seen = "included_success" => Included(ops[k])
      /\ ~work[w].flag
  BY Zenon, <1>1, <1>2 DEF WorkOK
<1>6. runs[k].op \in 1 .. Len(ops[k])
  BY <1>3
<1> QED BY Zenon, <1>1, <1>2, <1>3, <1>4, <1>5, <1>6

LEMMA WritePendingKeeps == ASSUME IInv, NEW w \in Workers, WritePending(w) PROVE IInv'
<1>1. PICK k, status : /\ k = work[w].key
                       /\ status = IF work[w].seen = "pending" THEN work[w].run.status
                                   ELSE "observed"
  BY Zenon
<1>2. work[w].at = "write" /\ UNCHANGED <<plan, now, ops>>
  BY Zenon DEF WritePending
<1>3. /\ work[w].at \in Active /\ work[w] \in Works /\ k \in Keys
      /\ runs[k] \in Rows /\ RowOK(k, runs[k], ops[k]) /\ Fenced(w) /\ runs[k].op # 0
      /\ runs[k].status = work[w].run.status /\ runs[k].status \in OpenRun
      /\ work[w].seen = "included_success" => Included(ops[k])
  BY Zenon, <1>1, <1>2, Writing
<1>4. PICK row : row = [[runs[k] EXCEPT !.leased = FALSE] EXCEPT !.status = status]
  BY Zenon
<1>5. Update(w, row)
  BY Zenon, <1>1, <1>4 DEF WritePending, Released
<1>6. status \in OpenRun /\ (status = runs[k].status \/ status = "observed")
  BY Zenon, <1>1, <1>3 DEF OpenRun
<1>7. /\ row \in Rows /\ row.status = status /\ row.op = runs[k].op
      /\ row.attempts = runs[k].attempts
  BY Zenon, <1>3, <1>4, <1>6 DEF Rows, RunStatuses
<1>8. RowOK(k, row, ops[k]) /\ row.status # "none"
  BY Zenon, <1>3, <1>6, <1>7 DEF RowOK, OpenRun
<1>9. CASE Rest(w)
  BY Zenon, <1>1, <1>2, <1>3, <1>5, <1>8, <1>9, RestKeeps
<1>10. CASE Go(w, "activate") /\ k = Setup /\ work[w].seen = "included_success"
  <2>1. PICK c : c = [work[w] EXCEPT !.at = "activate"]
    BY Zenon
  <2>2. c \in Works /\ c.at = "activate" /\ c.key = k
    BY Zenon, <1>1, <1>3, <2>1 DEF Works, Steps
  <2>3. /\ runs' = [runs EXCEPT ![k] = row] /\ ops' = [ops EXCEPT ![k] = ops[k]]
        /\ work' = [work EXCEPT ![w] = c] /\ plan' = plan /\ now' = now
    BY Zenon, <1>1, <1>2, <1>3, <1>5, <1>10, <2>1 DEF Update, Go, IInv, RowsOK
  <2>4. WorkOK(c, row, ops[k])
    BY Zenon, <1>3, <1>10, <2>2 DEF WorkOK, Active
  <2> QED BY Zenon, <1>1, <1>3, <1>8, <2>2, <2>3, <2>4, WorkerKeeps
<1> QED BY Zenon, <1>1, <1>9, <1>10 DEF WritePending

LEMMA WriteAbandonedKeeps == ASSUME IInv, NEW w \in Workers, WriteAbandoned(w) PROVE IInv'
<1> DEFINE exhausted == work[w].run.attempts + 1 >= MaxSendAttempts
<1>1. PICK k, status : /\ k = work[w].key
                       /\ status = IF exhausted THEN "failed" ELSE "prepared"
  BY Zenon
<1>2. work[w].at = "write" /\ UNCHANGED <<plan, now, ops>> /\ work[w].seen = "abandoned"
  BY Zenon DEF WriteAbandoned
<1>3. /\ work[w].at \in Active /\ runs[k] \in Rows /\ RowOK(k, runs[k], ops[k])
      /\ runs[k].op # 0 /\ runs[k].op \in 1 .. Len(ops[k])
      /\ ops[k][runs[k].op].state = "abandoned" /\ ops[k] \in Seq(Operations)
      /\ runs[k].attempts = work[w].run.attempts
      /\ runs[k].attempts \in Nat /\ runs[k].attempts < MaxSendAttempts
  BY Zenon, <1>1, <1>2, Writing DEF Resolved
<1>4. PICK row : row = [[runs[k] EXCEPT !.leased = FALSE] EXCEPT
                           !.status = status, !.op = 0, !.attempts = runs[k].attempts + 1]
  BY Zenon
<1>5. Update(w, row) /\ SettleIf(w, exhausted, FALSE)
  BY Zenon, <1>1, <1>3, <1>4 DEF WriteAbandoned, Released, Rows
<1>6. status \in RunStatuses /\ runs[k].attempts + 1 \in 0 .. MaxSendAttempts
  BY <1>1, <1>3, WorkersAssumption DEF RunStatuses, OpenRun
<1>7. row \in Rows /\ row.status = status /\ row.op = 0 /\ row.attempts = runs[k].attempts + 1
  <2>1. PICK attempts : attempts = runs[k].attempts + 1
    BY Zenon
  <2>2. row = [[[[runs[k] EXCEPT !.leased = FALSE] EXCEPT !.status = status] EXCEPT !.op = 0]
                  EXCEPT !.attempts = attempts]
    BY Zenon, <1>3, <1>4, <2>1 DEF Rows
  <2>3. attempts \in 0 .. MaxSendAttempts /\ 0 \in 0 .. MaxSendAttempts
    BY <1>6, <2>1, WorkersAssumption
  <2>4. row \in Rows /\ row.status = status /\ row.op = 0 /\ row.attempts = attempts
    BY Zenon, <1>3, <1>6, <2>2, <2>3 DEF Rows
  <2> QED BY Zenon, <2>1, <2>4
<1>8. RowOK(k, row, ops[k])
  <2>1. \A n \in 1 .. Len(ops[k]) : ops[k][n].calls = k /\ ops[k][n].state = "abandoned"
    BY Zenon, <1>3 DEF RowOK
  <2>2. Len(ops[k]) <= row.attempts
    BY Zenon, <1>3, <1>7 DEF RowOK
  <2>3. status = "prepared" => row.attempts < MaxSendAttempts
    BY <1>1, <1>3, <1>7, WorkersAssumption
  <2>4. status \in {"failed", "prepared"}
    BY Zenon, <1>1
  <2> HIDE DEF exhausted
  <2> QED BY <1>3, <1>7, <2>1, <2>2, <2>3, <2>4 DEF RowOK, OpenRun
<1>9. row.status # "none" /\ (exhausted => row.status = IF FALSE THEN "finalized" ELSE "failed")
  BY Zenon, <1>1, <1>7
<1> QED BY Zenon, <1>1, <1>2, <1>3, <1>5, <1>8, <1>9, EndKeeps

LEMMA WriteEndKeeps ==
    ASSUME IInv, NEW w \in Workers, WriteDropped(w) \/ WriteFinalized(w) PROVE IInv'
<1>1. PICK k : k = work[w].key
  BY Zenon
<1>2. work[w].at = "write" /\ UNCHANGED <<plan, now, ops>>
  BY Zenon DEF WriteDropped, WriteFinalized
<1>3. /\ work[w].at \in Active /\ runs[k] \in Rows /\ RowOK(k, runs[k], ops[k]) /\ Fenced(w)
      /\ runs[k].op # 0 /\ runs[k].op \in 1 .. Len(ops[k]) /\ runs[k].op = work[w].run.op
      /\ work[w].seen \in Resolved => ops[k][runs[k].op].state = work[w].seen
  BY <1>1, <1>2, Writing
<1>4. ops[k][work[w].run.op].calls = k
  BY Zenon, <1>3 DEF RowOK
<1>5. PICK finalized \in BOOLEAN :
         /\ finalized <=> work[w].seen = "final_success"
         /\ work[w].seen \in {"dropped", "final_success", "final_reverted"}
         /\ Update(w, [Released(w) EXCEPT !.status = IF finalized THEN "finalized" ELSE "failed"])
         /\ SettleIf(w, TRUE, finalized)
  <2>1. CASE WriteDropped(w)
    BY Zenon, <2>1 DEF WriteDropped
  <2>2. CASE WriteFinalized(w)
    <3>1. CASE work[w].seen = "final_success"
      BY Zenon, <1>1, <1>3, <1>4, <2>2, <3>1 DEF WriteFinalized, SettleIf
    <3>2. CASE work[w].seen # "final_success"
      BY Zenon, <1>1, <1>3, <1>4, <2>2, <3>2 DEF WriteFinalized, SettleIf
    <3> QED BY Zenon, <3>1, <3>2
  <2> QED BY Zenon, <2>1, <2>2
<1>6. PICK status : status = IF finalized THEN "finalized" ELSE "failed"
  BY Zenon
<1>7. PICK row : row = [[runs[k] EXCEPT !.leased = FALSE] EXCEPT !.status = status]
  BY Zenon
<1>8. Update(w, row)
  BY Zenon, <1>1, <1>5, <1>6, <1>7 DEF Released
<1>9. /\ row \in Rows /\ row.status = status /\ row.op = runs[k].op
      /\ row.attempts = runs[k].attempts
  BY Zenon, <1>3, <1>6, <1>7 DEF Rows, RunStatuses
<1>10. ops[k][row.op].state = work[w].seen
  BY Zenon, <1>3, <1>5, <1>9 DEF Resolved
<1>11. RowOK(k, row, ops[k])
  BY Zenon, <1>3, <1>5, <1>6, <1>9, <1>10 DEF RowOK, OpenRun
<1>12. row.status # "none" /\ (TRUE => row.status = IF finalized THEN "finalized" ELSE "failed")
  BY Zenon, <1>6, <1>9
<1> QED BY Zenon, <1>1, <1>2, <1>3, <1>5, <1>8, <1>11, <1>12, EndKeeps
-----------------------------------------------------------------------------
(***************************************************************************)
(* Claims, settlements, leases and the chain.                              *)
(***************************************************************************)

\* A generation that no executor at work holds exists.
LEMMA NextGenerationIs ==
    ASSUME IInv, NEW k \in Keys
    PROVE  NextGeneration(k) \in Nat
<1>1. PICK at, held :
         /\ at = {v \in Workers : work[v].at # "idle" /\ work[v].key = k}
         /\ held = {work[v].run.gen : v \in at}
  BY Zenon
<1>2. IsFiniteSet(at)
  BY Zenon, <1>1, WorkersAssumption, FS_Subset
<1>3. IsFiniteSet(held) /\ Cardinality(held) \in Nat
  <2>1. PICK f : f = [v \in at |-> work[v].run.gen]
    BY Zenon
  <2>2. f \in Surjection(at, held)
    BY Zenon, <1>1, <2>1 DEF Surjection
  <2> QED BY Zenon, <1>2, <2>2, FS_Surjection, FS_CardinalityType
<1>4. \E g \in 0 .. Cardinality(held) : g \notin held
  <2>1. SUFFICES ASSUME 0 .. Cardinality(held) \subseteq held PROVE FALSE
    BY Zenon
  <2>2. Cardinality(0 .. Cardinality(held)) = Cardinality(held) + 1
    BY <1>3, FS_Interval
  <2>3. Cardinality(0 .. Cardinality(held)) <= Cardinality(held)
    BY Zenon, <1>3, <2>1, FS_Subset
  <2> QED BY <1>3, <2>2, <2>3
<1>5. NextGeneration(k) = CHOOSE g \in 0 .. Cardinality(held) : g \notin held
  BY Zenon, <1>1 DEF NextGeneration
<1> QED BY <1>3, <1>4, <1>5

LEMMA ClaimKeeps ==
    ASSUME IInv, NEW w \in Workers, NEW k \in Keys, claimRun(w, k) PROVE IInv'
<1>1. PICK gen, status : /\ gen = NextGeneration(k)
                         /\ status = IF runs[k].status = "due" THEN "claimed" ELSE runs[k].status
  BY Zenon
<1>2. PICK row : row = [runs[k] EXCEPT !.gen = gen, !.leased = TRUE, !.status = status]
  BY Zenon
<1>3. PICK c : c = [Idle EXCEPT !.at = "load", !.key = k, !.run = row]
  BY Zenon
<1>4. /\ work[w].at = "idle" /\ runs[k].status \in OpenRun /\ ~runs[k].leased
      /\ plan' = plan /\ now' = now /\ ops \in [Keys -> Seq(Operations)]
      /\ runs \in [Keys -> Rows] /\ RowOK(k, runs[k], ops[k]) /\ gen \in Nat
  BY Zenon, <1>1, NextGenerationIs DEF claimRun, IsOpen, IInv, RowsOK
<1>5. /\ runs' = [runs EXCEPT ![k] = row] /\ ops' = [ops EXCEPT ![k] = ops[k]]
      /\ work' = [work EXCEPT ![w] = c]
  <2>1. row = [runs[k] EXCEPT !.gen = NextGeneration(k), !.leased = TRUE,
                              !.status = IF @ = "due" THEN "claimed" ELSE @]
    BY Zenon, <1>1, <1>2, <1>4 DEF Rows
  <2> QED BY Zenon, <1>3, <1>4, <2>1 DEF claimRun
<1>6. \A v \in Workers : work[v].at \in Active /\ work[v].key = k => v = w
  BY Zenon, <1>4 DEF IInv, WorksOK, WorkOK
<1>7. status \in OpenRun \ {"due"} /\ (status = runs[k].status \/ runs[k].status = "due")
  BY Zenon, <1>1, <1>4 DEF OpenRun
<1>8. /\ row \in Rows /\ row.gen = gen /\ row.leased = TRUE /\ row.status = status
      /\ row.op = runs[k].op /\ row.attempts = runs[k].attempts
  <2>1. PICK r : r = [runs[k] EXCEPT !.gen = gen, !.leased = TRUE]
    BY Zenon
  <2>2. /\ r \in Rows /\ r.gen = gen /\ r.leased = TRUE /\ r.op = runs[k].op
        /\ r.attempts = runs[k].attempts
    BY Zenon, <1>4, <2>1 DEF Rows
  <2>3. row = [r EXCEPT !.status = status]
    BY Zenon, <1>2, <1>4, <2>1 DEF Rows
  <2> QED BY Zenon, <1>7, <2>2, <2>3 DEF Rows, RunStatuses
<1>9. c \in Works /\ c.at = "load" /\ c.key = k /\ c.run = row /\ c.flag = FALSE
  <2>1. Idle \in Works /\ Idle.flag = FALSE
    BY Zenon, IdleWorks DEF Idle
  <2> QED BY Zenon, <1>3, <1>8, <2>1 DEF Works, Steps
<1>10. RowOK(k, row, ops[k])
  <2>1. row.status \in OpenRun /\ (row.status # runs[k].status => runs[k].op = 0)
    BY Zenon, <1>4, <1>7, <1>8 DEF RowOK
  <2>2. row.status \in {"submitted", "observed"} => row.op # 0
    BY Zenon, <1>1, <1>4, <1>7, <1>8 DEF RowOK
  <2>3. row.status = "claimed" => row.op = 0
    BY <1>1, <1>4, <1>7, <1>8 DEF RowOK
  <2> QED BY Zenon, <1>4, <1>7, <1>8, <2>1, <2>2, <2>3 DEF RowOK, OpenRun
<1>11. WorkOK(c, row, ops[k]) /\ row.status # "none"
  BY Zenon, <1>7, <1>8, <1>9 DEF WorkOK, Active, Steps, OpenRun
<1>12. PICK os : os = ops[k]
  BY Zenon
<1>13. /\ runs[k].status \in OpenRun /\ plan' = plan /\ now' = now
       /\ runs' = [runs EXCEPT ![k] = row] /\ ops' = [ops EXCEPT ![k] = os]
       /\ work' = [work EXCEPT ![w] = c]
       /\ RowOK(k, row, os) /\ (Included(ops[k]) => Included(os)) /\ row.status # "none"
       /\ c \in Works /\ (c = Idle \/ (c.key = k /\ WorkOK(c, row, os)))
  BY Zenon, <1>4, <1>5, <1>9, <1>10, <1>11, <1>12
<1> QED BY Zenon, <1>6, <1>13, OwnerKeeps

\* An executor that is done, possibly after a write of the plan row.
LEMMA LeaveKeeps ==
    ASSUME IInv, NEW w \in Workers, Rest(w), UNCHANGED <<runs, ops>>, PlanOK'
    PROVE  IInv'
<1>1. RowsOK'
  BY Zenon DEF IInv, RowsOK
<1>2. work' = [work EXCEPT ![w] = Idle] /\ work \in [Workers -> Works]
  BY Zenon DEF Rest, IInv, WorksOK
<1>3. work' \in [Workers -> Works] /\ work'[w] = Idle /\ \A v \in Workers \ {w} : work'[v] = work[v]
  BY Zenon, <1>2, IdleWorks
<1>4. ASSUME NEW v \in Workers PROVE WorkOK(work'[v], runs'[work'[v].key], ops'[work'[v].key])
  BY Zenon, <1>3, IdleWorks DEF IInv, WorksOK
<1>5. Idle.at \notin Active
  BY Zenon, IdleWorks DEF Active
<1>6. WorksOK'
  BY Zenon, <1>3, <1>4, <1>5 DEF IInv, WorksOK
<1> QED BY Zenon, <1>1, <1>6 DEF IInv

LEMMA CrashKeeps == ASSUME IInv, NEW w \in Workers, Crash(w) PROVE IInv'
<1>1. PlanOK'
  BY Zenon DEF Crash, IInv, PlanOK, IsOpen
<1> QED BY Zenon, <1>1, LeaveKeeps DEF Crash

\* A step that writes the status of the plan.
LEMMA PlanMoves ==
    ASSUME IInv, NEW status \in PlanStatuses, plan' = [plan EXCEPT !.status = status],
           UNCHANGED <<runs, now, ops>>,
           HasSetup /\ status \in {"active", "paused"} => Included(ops[Setup]),
           status = "failed" => runs[Setup].status = "failed",
           runs[Cancel].status # "none" => status \in {"cancelling", "cancelled"},
           status \in {"draft", "awaiting_consent", "completed", "cancelled"} =>
              \A k \in Keys : ~IsOpen(runs, k)
    PROVE  PlanOK'
<1>1. /\ plan' \in [status : PlanStatuses, slot : 0 .. Occurrences]
      /\ plan'.status = status /\ plan'.slot = plan.slot
  BY Zenon DEF IInv, PlanOK
<1> QED BY Zenon, <1>1 DEF IInv, PlanOK, IsOpen

LEMMA SettledIs ==
    ASSUME NEW k, NEW finalized, NEW status, status = Settled(k, finalized)
    PROVE  \/ k = Setup /\ finalized /\ plan.status = "authorized" /\ status = "active"
           \/ /\ k = Setup /\ ~finalized /\ plan.status \in {"authorized", "active", "paused"}
              /\ status = "failed"
           \/ k = Cancel /\ plan.status = "cancelling" /\ status = "cancelled"
           \/ status = plan.status
BY Zenon DEF Settled

LEMMA SettleKeeps == ASSUME IInv, NEW w \in Workers, Settle(w) PROVE IInv'
<1>1. PICK k, status : k = work[w].key /\ status = Settled(k, work[w].flag)
  BY Zenon
<1>2. /\ work[w].at = "settle" /\ plan' = [plan EXCEPT !.status = status] /\ Rest(w)
      /\ UNCHANGED <<runs, now, ops>>
  BY Zenon, <1>1 DEF Settle
<1>3. /\ k \in Keys /\ RowOK(k, runs[k], ops[k])
      /\ runs[k].status = IF work[w].flag THEN "finalized" ELSE "failed"
  BY Zenon, <1>1, <1>2 DEF IInv, WorksOK, RowsOK, Works, WorkOK
<1>4. CASE k = Setup /\ work[w].flag /\ plan.status = "authorized" /\ status = "active"
  <2>1. /\ runs[k].op # 0 /\ runs[k].op \in {0, Len(ops[k])}
        /\ ops[k][runs[k].op].state = "final_success" /\ ops[k] \in Seq(Operations)
    BY Zenon, <1>3, <1>4 DEF RowOK
  <2>2. runs[k].op \in 1 .. Len(ops[k])
    BY <2>1
  <2>3. Included(ops[Setup])
    BY Zenon, <1>4, <2>1, <2>2 DEF Included
  <2>4. PlanOK'
    BY Zenon, <1>2, <1>4, <2>3, PlanMoves DEF PlanStatuses, IInv, PlanOK
  <2> QED BY Zenon, <1>2, <2>4, LeaveKeeps
<1>5. CASE /\ k = Setup /\ ~work[w].flag /\ plan.status \in {"authorized", "active", "paused"}
           /\ status = "failed"
  <2>1. PlanOK'
    BY Zenon, <1>2, <1>3, <1>5, PlanMoves DEF PlanStatuses, IInv, PlanOK
  <2> QED BY Zenon, <1>2, <2>1, LeaveKeeps
<1>6. CASE k = Cancel /\ plan.status = "cancelling" /\ status = "cancelled"
  <2>1. \A j \in Keys : ~IsOpen(runs, j)
    BY Zenon, <1>3, <1>6 DEF IInv, PlanOK, IsOpen, OpenRun
  <2>2. PlanOK'
    BY Zenon, <1>2, <1>6, <2>1, PlanMoves DEF PlanStatuses
  <2> QED BY Zenon, <1>2, <2>2, LeaveKeeps
<1>7. CASE status = plan.status
  <2>1. PlanOK'
    BY Zenon, <1>2, <1>7, PlanMoves DEF IInv, PlanOK
  <2> QED BY Zenon, <1>2, <2>1, LeaveKeeps
<1> QED BY <1>1, <1>4, <1>5, <1>6, <1>7, SettledIs

LEMMA ActivateKeeps == ASSUME IInv, NEW w \in Workers, Activate(w) PROVE IInv'
<1>1. PICK status : status = IF plan.status = "authorized" THEN "active" ELSE plan.status
  BY Zenon
<1>2. /\ work[w].at = "activate" /\ plan' = [plan EXCEPT !.status = status] /\ Rest(w)
      /\ UNCHANGED <<runs, now, ops>>
  BY Zenon, <1>1 DEF Activate, IInv, PlanOK
<1>3. Included(ops[Setup])
  BY Zenon, <1>2 DEF IInv, WorksOK, WorkOK
<1>4. PlanOK'
  BY <1>1, <1>2, <1>3, PlanMoves DEF PlanStatuses, IInv, PlanOK
<1> QED BY Zenon, <1>2, <1>4, LeaveKeeps

LEMMA LeaseKeeps ==
    ASSUME IInv, ~MayOverrun, NEW k \in Keys, LeaseRunsOut(k) PROVE IInv'
<1>1. PICK row : row = [runs[k] EXCEPT !.leased = FALSE]
  BY Zenon
<1>2. /\ ~AtWork(k) /\ UNCHANGED <<plan, now, work, ops>> /\ runs' = [runs EXCEPT ![k] = row]
      /\ runs \in [Keys -> Rows] /\ ops \in [Keys -> Seq(Operations)] /\ RowOK(k, runs[k], ops[k])
  BY Zenon, <1>1 DEF LeaseRunsOut, IInv, RowsOK
<1>3. /\ row \in Rows /\ row.status = runs[k].status /\ row.op = runs[k].op
      /\ row.attempts = runs[k].attempts
  BY Zenon, <1>1, <1>2 DEF Rows
<1>4. RowOK(k, row, ops[k])
  BY Zenon, <1>2, <1>3 DEF RowOK
<1>5. ops' = [ops EXCEPT ![k] = ops[k]]
  BY Zenon, <1>2
<1>6. PlanOK' /\ RowsOK'
  BY Zenon, <1>2, <1>3, <1>4, <1>5, PlanStays
<1>7. ASSUME NEW v \in Workers PROVE WorkOK(work'[v], runs'[work'[v].key], ops'[work'[v].key])
  <2>1. WorkOK(work[v], runs[work[v].key], ops[work[v].key]) /\ work[v] \in Works
    BY Zenon DEF IInv, WorksOK
  <2>2. CASE work[v].key # k
    BY Zenon, <1>2, <2>1, <2>2 DEF Works
  <2>3. CASE work[v].key = k
    <3>1. work[v].at \notin Active
      BY Zenon, <1>2, <2>1, <2>3 DEF AtWork, WorkOK, Active
    <3>2. work[v].at \in {"idle", "activate", "settle"}
      BY Zenon, <2>1, <3>1 DEF Works, Active
    <3>3. WorkOK(work[v], row, ops[k])
      BY <1>3, <2>1, <2>3, <3>2 DEF WorkOK, Active
    <3> QED BY Zenon, <1>2, <2>3, <3>3
  <2> QED BY Zenon, <2>2, <2>3
<1>8. WorksOK'
  BY Zenon, <1>2, <1>7 DEF IInv, WorksOK
<1> QED BY Zenon, <1>6, <1>8 DEF IInv

\* The chain moves only an operation that is on its way.
LEMMA ChainKeeps == ASSUME IInv, NEW k \in Keys, ChainStep(k) PROVE IInv'
<1>1. PICK n \in DOMAIN ops[k], state \in {"included_success", "included_reverted",
                                           "final_success", "final_reverted", "dropped"} :
         /\ ops[k][n].state \in {"sent", "included_success", "included_reverted"}
         /\ ops[k][n].state = "included_success" => state \in {"final_success", "dropped"}
         /\ ops' = [ops EXCEPT ![k][n].state = state]
         /\ UNCHANGED <<plan, runs, now, work>>
  BY Zenon DEF ChainStep, Include, FinalizeSuccess, FinalizeReverted, Drop, Move
<1>2. /\ ops \in [Keys -> Seq(Operations)] /\ runs \in [Keys -> Rows]
      /\ RowOK(k, runs[k], ops[k])
  BY Zenon DEF IInv, RowsOK
<1>3. PICK old : old = ops[k]
  BY Zenon
<1>4. old \in Seq(Operations) /\ n \in 1 .. Len(old)
  BY <1>1, <1>2, <1>3
<1>5. PICK os : os = [old EXCEPT ![n].state = state]
  BY Zenon
<1>6. /\ os \in Seq(Operations) /\ Len(os) = Len(old)
      /\ os[n].state = state /\ os[n].calls = old[n].calls
      /\ \A m \in 1 .. Len(old) : m # n => os[m] = old[m]
  <2>1. state \in Unresolved \cup Resolved
    BY Zenon, <1>1 DEF Unresolved, Resolved
  <2> QED BY <1>4, <1>5, <2>1, SetState
<1>7. ops' = [ops EXCEPT ![k] = os] /\ runs' = [runs EXCEPT ![k] = runs[k]]
  BY Zenon, <1>1, <1>2, <1>3, <1>5
<1>8. n = runs[k].op /\ n # 0
  BY <1>1, <1>2, <1>3, <1>4 DEF RowOK
<1>9. RowOK(k, runs[k], os)
  BY <1>1, <1>2, <1>3, <1>4, <1>6, <1>8 DEF RowOK
<1>10. Included(old) => Included(os)
  BY Zenon, <1>1, <1>3, <1>4, <1>6 DEF Included
<1>11. PlanOK' /\ RowsOK'
  BY Zenon, <1>1, <1>3, <1>7, <1>9, <1>10, PlanStays
<1>12. ASSUME NEW v \in Workers PROVE WorkOK(work'[v], runs'[work'[v].key], ops'[work'[v].key])
  <2>1. WorkOK(work[v], runs[work[v].key], ops[work[v].key]) /\ work[v] \in Works
    BY Zenon DEF IInv, WorksOK
  <2>2. CASE work[v].key # k
    BY Zenon, <1>1, <1>2, <1>7, <2>1, <2>2 DEF Works
  <2>3. CASE work[v].key = k
    <3>1. WorkOK(work[v], runs[k], os)
      BY Zenon, <1>1, <1>3, <1>6, <1>8, <1>10, <2>1, <2>3 DEF WorkOK, Resolved
    <3> QED BY Zenon, <1>1, <1>2, <1>7, <2>3, <3>1
  <2> QED BY Zenon, <2>2, <2>3
<1>13. WorksOK'
  BY Zenon, <1>1, <1>12 DEF IInv, WorksOK
<1> QED BY Zenon, <1>11, <1>13 DEF IInv
-----------------------------------------------------------------------------
(***************************************************************************)
(* The admission pass.                                                     *)
(***************************************************************************)

\* PlanOK of a state of the pass; inc tells that the setup has been on chain.
PassOK(s, inc) ==
    /\ s \in [plan : [status : PlanStatuses, slot : 0 .. Occurrences], runs : [Keys -> Rows]]
    /\ s.runs[Setup].status # "none" => HasSetup
    /\ HasSetup /\ s.plan.status \in {"active", "paused"} => inc
    /\ \A t \in Slots : HasSetup /\ s.runs[Occurrence(t)].status \notin {"none", "skipped"} => inc
    /\ s.plan.status = "failed" => s.runs[Setup].status = "failed"
    /\ s.runs[Cancel].status # "none" =>
          /\ s.plan.status \in {"cancelling", "cancelled"}
          /\ \A k \in Keys \ {Cancel} : ~IsOpen(s.runs, k)
    /\ \A t \in Slots : t >= s.plan.slot => s.runs[Occurrence(t)].status = "none"
    /\ s.plan.status \in {"draft", "awaiting_consent", "completed", "cancelled"} =>
          \A k \in Keys : ~IsOpen(s.runs, k)

\* The pass only adds rows.
Admits(rs, qs) ==
    \A k \in Keys :
        \/ qs[k] = rs[k]
        \/ rs[k].status = "none" /\ qs[k] \in {NewRun("due"), NewRun("skipped")}

LEMMA NewRows ==
    /\ NewRun("due") \in Rows /\ NewRun("due").status = "due"
    /\ NewRun("skipped") \in Rows /\ NewRun("skipped").status = "skipped"
    /\ \A status : NewRun(status).op = 0 /\ NewRun(status).attempts = 0
BY WorkersAssumption DEF NewRun, Rows, RunStatuses, OpenRun

LEMMA KeysFinite == IsFiniteSet(Keys)
<1>1. PICK occ : occ = {Occurrence(s) : s \in Slots}
  BY Zenon
<1>2. IsFiniteSet(Slots)
  BY ScheduleAssumption, FS_Interval DEF Slots
<1>3. IsFiniteSet(occ)
  <2>1. PICK f : f = [s \in Slots |-> Occurrence(s)]
    BY Zenon
  <2>2. f \in Surjection(Slots, occ)
    BY Zenon, <1>1, <2>1 DEF Surjection
  <2> QED BY Zenon, <1>2, <2>2, FS_Surjection
<1>4. IsFiniteSet({Setup, Cancel})
  <2>1. {Setup, Cancel} = {Setup} \cup {Cancel}
    BY Zenon
  <2>2. IsFiniteSet({Setup}) /\ IsFiniteSet({Cancel})
    BY Zenon, FS_Singleton
  <2> QED BY Zenon, <2>1, <2>2, FS_Union
<1>5. Keys = {Setup, Cancel} \cup occ
  BY Zenon, <1>1 DEF Keys
<1> QED BY Zenon, <1>3, <1>4, <1>5, FS_Union

LEMMA OpenRunsIs == ASSUME NEW rs, openRuns(rs) = 0 PROVE \A k \in Keys : ~IsOpen(rs, k)
<1>1. PICK open : open = {k \in Keys : IsOpen(rs, k)}
  BY Zenon
<1>2. IsFiniteSet(open) /\ Cardinality(open) = 0
  BY Zenon, <1>1, KeysFinite, FS_Subset DEF openRuns
<1>3. open = {}
  BY Zenon, <1>2, FS_EmptySet
<1> QED BY Zenon, <1>1, <1>3

LEMMA OpenRunsZero == ASSUME NEW rs, ~(openRuns(rs) > 0) PROVE openRuns(rs) = 0
<1>1. PICK open : open = {k \in Keys : IsOpen(rs, k)}
  BY Zenon
<1>2. Cardinality(open) \in Nat
  BY Zenon, <1>1, KeysFinite, FS_Subset, FS_CardinalityType
<1> QED BY <1>1, <1>2 DEF openRuns

LEMMA AdmitsTwice ==
    ASSUME NEW rs, NEW qs, NEW ps, Admits(rs, qs), Admits(qs, ps)
    PROVE  Admits(rs, ps)
BY Zenon, NewRows DEF Admits

LEMMA ExpiredOK ==
    ASSUME NEW s, NEW inc, PassOK(s, inc)
    PROVE  PassOK(Expired(s), inc) /\ Admits(s.runs, Expired(s).runs)
<1>1. CASE Expired(s) = s
  BY Zenon, <1>1 DEF Admits
<1>2. CASE /\ s.plan.status \in {"draft", "awaiting_consent", "authorized"}
           /\ Expired(s) = [s EXCEPT !.plan.status = "expired"]
  <2>1. PICK q : q = [s EXCEPT !.plan.status = "expired"]
    BY Zenon
  <2>2. /\ q \in [plan : [status : PlanStatuses, slot : 0 .. Occurrences], runs : [Keys -> Rows]]
        /\ q.plan.status = "expired" /\ q.plan.slot = s.plan.slot /\ q.runs = s.runs
    BY Zenon, <2>1 DEF PassOK, PlanStatuses
  <2>3. PassOK(q, inc)
    BY <1>2, <2>2 DEF PassOK
  <2> QED BY Zenon, <1>2, <2>1, <2>2, <2>3 DEF Admits
<1> QED BY Zenon, <1>1, <1>2 DEF Expired

\* A pass that writes one row.
LEMMA AdmitOne ==
    ASSUME NEW s, NEW inc, PassOK(s, inc), NEW k \in {Setup, Cancel},
           s.runs[k].status = "none", NEW q, q = [s EXCEPT !.runs[k] = NewRun("due")],
           k = Setup => HasSetup /\ s.plan.status = "authorized",
           k = Cancel => s.plan.status = "cancelling" /\ \A j \in Keys : ~IsOpen(s.runs, j)
    PROVE  PassOK(q, inc) /\ Admits(s.runs, q.runs)
<1>1. PICK rs : rs = [s.runs EXCEPT ![k] = NewRun("due")]
  BY Zenon
<1>2. s.runs \in [Keys -> Rows] /\ k \in Keys
  BY Zenon, KeyFacts DEF PassOK
<1>3. /\ rs \in [Keys -> Rows] /\ rs[k] = NewRun("due") /\ rs[k].status = "due"
      /\ \A j \in Keys \ {k} : rs[j] = s.runs[j]
  BY Zenon, <1>1, <1>2, NewRows
<1>4. q = [s EXCEPT !.runs = rs]
  BY Zenon, <1>1
<1>5. /\ q \in [plan : [status : PlanStatuses, slot : 0 .. Occurrences], runs : [Keys -> Rows]]
      /\ q.plan = s.plan /\ q.runs = rs
  BY Zenon, <1>3, <1>4 DEF PassOK
<1>6. \A t \in Slots : rs[Occurrence(t)] = s.runs[Occurrence(t)]
  BY <1>3, KeyFacts
<1>7. PassOK(q, inc)
  <2>1. CASE k = Setup
    <3>1. rs[Cancel].status = "none" /\ HasSetup
      BY <1>3, <2>1, KeyFacts DEF PassOK
    <3> QED BY <1>5, <1>6, <2>1, <3>1 DEF PassOK
  <2>2. CASE k = Cancel
    <3>1. \A j \in Keys \ {Cancel} : ~IsOpen(rs, j)
      BY Zenon, <1>3, <2>2 DEF IsOpen
    <3>2. rs[Setup] = s.runs[Setup]
      BY Zenon, <1>3, <2>2, KeyFacts
    <3> QED BY <1>5, <1>6, <2>2, <3>1, <3>2 DEF PassOK
  <2> QED BY Zenon, <2>1, <2>2
<1>8. Admits(s.runs, q.runs)
  BY Zenon, <1>3, <1>5 DEF Admits
<1> QED BY Zenon, <1>7, <1>8

LEMMA AdmitSetupOK ==
    ASSUME NEW s, NEW inc, PassOK(s, inc)
    PROVE  PassOK(admitSetup(s), inc) /\ Admits(s.runs, admitSetup(s).runs)
<1>1. CASE admitSetup(s) = s
  BY Zenon, <1>1 DEF Admits
<1>2. CASE /\ s.plan.status = "authorized" /\ ~HasSetup
           /\ admitSetup(s) = [s EXCEPT !.plan.status = "active"]
  <2>1. PICK q : q = [s EXCEPT !.plan.status = "active"]
    BY Zenon
  <2>2. /\ q \in [plan : [status : PlanStatuses, slot : 0 .. Occurrences], runs : [Keys -> Rows]]
        /\ q.plan.status = "active" /\ q.plan.slot = s.plan.slot /\ q.runs = s.runs
    BY Zenon, <2>1 DEF PassOK, PlanStatuses
  <2>3. PassOK(q, inc)
    BY <1>2, <2>2 DEF PassOK
  <2> QED BY Zenon, <1>2, <2>1, <2>2, <2>3 DEF Admits
<1>3. CASE /\ s.plan.status = "authorized" /\ HasSetup /\ s.runs[Setup].status = "none"
           /\ admitSetup(s) = [s EXCEPT !.runs[Setup] = NewRun("due")]
  <2>1. PICK q : q = [s EXCEPT !.runs[Setup] = NewRun("due")]
    BY Zenon
  <2>2. PassOK(q, inc) /\ Admits(s.runs, q.runs)
    BY Zenon, <1>3, <2>1, AdmitOne, KeyFacts
  <2> QED BY Zenon, <1>3, <2>1, <2>2
<1>4. \/ admitSetup(s) = s
      \/ /\ s.plan.status = "authorized" /\ ~HasSetup
         /\ admitSetup(s) = [s EXCEPT !.plan.status = "active"]
      \/ /\ s.plan.status = "authorized" /\ HasSetup /\ s.runs[Setup].status = "none"
         /\ admitSetup(s) = [s EXCEPT !.runs[Setup] = NewRun("due")]
  BY Zenon DEF admitSetup
<1> QED BY Zenon, <1>1, <1>2, <1>3, <1>4

LEMMA AdmitCancellationOK ==
    ASSUME NEW s, NEW inc, PassOK(s, inc)
    PROVE  PassOK(admitCancellation(s), inc) /\ Admits(s.runs, admitCancellation(s).runs)
<1>1. CASE admitCancellation(s) = s
  BY Zenon, <1>1 DEF Admits
<1>2. CASE /\ s.plan.status = "cancelling" /\ ~(openRuns(s.runs) > 0)
           /\ admitCancellation(s) = [s EXCEPT !.plan.status = "cancelled"]
  <2>1. PICK q : q = [s EXCEPT !.plan.status = "cancelled"]
    BY Zenon
  <2>2. /\ q \in [plan : [status : PlanStatuses, slot : 0 .. Occurrences], runs : [Keys -> Rows]]
        /\ q.plan.status = "cancelled" /\ q.plan.slot = s.plan.slot /\ q.runs = s.runs
    BY Zenon, <2>1 DEF PassOK, PlanStatuses
  <2>3. \A k \in Keys : ~IsOpen(s.runs, k)
    BY Zenon, <1>2, OpenRunsIs, OpenRunsZero
  <2>4. PassOK(q, inc)
    BY Zenon, <2>2, <2>3 DEF PassOK
  <2> QED BY Zenon, <1>2, <2>1, <2>2, <2>4 DEF Admits
<1>3. CASE /\ s.plan.status = "cancelling" /\ ~(openRuns(s.runs) > 0)
           /\ s.runs[Cancel].status = "none"
           /\ admitCancellation(s) = [s EXCEPT !.runs[Cancel] = NewRun("due")]
  <2>1. PICK q : q = [s EXCEPT !.runs[Cancel] = NewRun("due")]
    BY Zenon
  <2>2. \A k \in Keys : ~IsOpen(s.runs, k)
    BY Zenon, <1>3, OpenRunsIs, OpenRunsZero
  <2>3. PassOK(q, inc) /\ Admits(s.runs, q.runs)
    BY Zenon, <1>3, <2>1, <2>2, AdmitOne, KeyFacts
  <2> QED BY Zenon, <1>3, <2>1, <2>3
<1>4. \/ admitCancellation(s) = s
      \/ /\ s.plan.status = "cancelling" /\ ~(openRuns(s.runs) > 0)
         /\ admitCancellation(s) = [s EXCEPT !.plan.status = "cancelled"]
      \/ /\ s.plan.status = "cancelling" /\ ~(openRuns(s.runs) > 0)
         /\ s.runs[Cancel].status = "none"
         /\ admitCancellation(s) = [s EXCEPT !.runs[Cancel] = NewRun("due")]
  BY Zenon DEF admitCancellation
<1> QED BY Zenon, <1>1, <1>2, <1>3, <1>4

\* The slots that the loop takes are an interval that starts at next_slot.
LEMMA TakenIs ==
    ASSUME NEW s, s.plan.slot \in 0 .. Occurrences,
           NEW taken, taken = {t \in Slots : t >= s.plan.slot /\ Passed(s, t)}
    PROVE  /\ s.plan.slot + Cardinality(taken) \in s.plan.slot .. Occurrences
           /\ \A t \in Slots : t >= s.plan.slot + Cardinality(taken) => t \notin taken
<1>1. PICK a : a = s.plan.slot
  BY Zenon
<1>2. a \in Nat /\ a <= Occurrences /\ Occurrences \in Nat
  BY <1>1, ScheduleAssumption
<1>3. IsFiniteSet(a .. Occurrences - 1) /\ Cardinality(a .. Occurrences - 1) = Occurrences - a
  <2>1. PICK b : b = Occurrences - 1
    BY Zenon
  <2>2. a \in Int /\ b \in Int /\ a <= b + 1 /\ b = Occurrences - 1
    BY <1>2, <2>1
  <2>3. IsFiniteSet(a .. b) /\ Cardinality(a .. b) = IF a > b THEN 0 ELSE b - a + 1
    BY Zenon, <2>2, FS_Interval
  <2> QED BY <1>2, <2>1, <2>2, <2>3
<1>4. taken \subseteq a .. Occurrences - 1
  BY <1>1, <1>2 DEF Slots
<1>5. PICK c : c = Cardinality(taken)
  BY Zenon
<1>6. c \in Nat /\ c <= Occurrences - a /\ IsFiniteSet(taken)
  BY Zenon, <1>3, <1>4, <1>5, FS_Subset, FS_CardinalityType
<1>7. ASSUME NEW t \in taken PROVE t < a + c
  <2>1. t \in Nat /\ a <= t /\ t <= Occurrences - 1 /\ Passed(s, t)
    BY <1>1, <1>2, <1>4
  <2>2. ASSUME NEW u \in a .. t PROVE Passed(s, u)
    <3>1. a .. u \subseteq a .. t
      BY <1>2, <2>1
    <3> QED BY Zenon, <1>1, <2>1, <3>1 DEF Passed
  <2>3. a .. t \subseteq taken
    BY <1>1, <1>2, <2>1, <2>2 DEF Slots
  <2>4. Cardinality(a .. t) = t - a + 1
    BY <1>2, <2>1, FS_Interval
  <2>5. Cardinality(a .. t) <= Cardinality(taken)
    BY Zenon, <1>6, <2>3, FS_Subset
  <2> QED BY <1>2, <1>5, <1>6, <2>1, <2>4, <2>5
<1> QED BY <1>1, <1>2, <1>5, <1>6, <1>7 DEF Slots

LEMMA AdmitOccurrencesOK ==
    ASSUME NEW s, NEW inc, PassOK(s, inc)
    PROVE  PassOK(admitOccurrences(s), inc) /\ Admits(s.runs, admitOccurrences(s).runs)
<1>1. CASE s.plan.status \notin {"active", "paused"}
  BY Zenon, <1>1 DEF admitOccurrences, Admits
<1>2. CASE s.plan.status \in {"active", "paused"}
  <2>1. PICK taken : taken = {t \in Slots : t >= s.plan.slot /\ Passed(s, t)}
    BY Zenon
  <2>2. PICK rs : rs = [k \in Keys |->
                          IF k \in {Occurrence(t) : t \in taken}
                          THEN NewRun(IF missed(k[2]) THEN "skipped" ELSE "due")
                          ELSE s.runs[k]]
    BY Zenon
  <2>3. PICK slot : slot = s.plan.slot + Cardinality(taken)
    BY Zenon
  <2>4. PICK status : status =
              CASE slot >= Occurrences /\ openRuns(rs) = 0 /\ s.plan.status = "active" -> "completed"
                [] ~(slot >= Occurrences /\ s.plan.status = "active")
                     /\ now >= grantEnd /\ openRuns(rs) = 0 -> "expired"
                [] OTHER -> s.plan.status
    BY Zenon
  <2>5. PICK q : q = [plan |-> [status |-> status, slot |-> slot], runs |-> rs]
    BY Zenon
  <2>6. admitOccurrences(s) = q
    BY Zenon, <1>2, <2>1, <2>2, <2>3, <2>4, <2>5 DEF admitOccurrences
  <2>7. /\ s.runs \in [Keys -> Rows] /\ s.plan.slot \in 0 .. Occurrences
        /\ s.plan.status \in PlanStatuses
    BY Zenon DEF PassOK
  <2>8. /\ slot \in s.plan.slot .. Occurrences
        /\ \A t \in Slots : t >= slot => t \notin taken
    BY Zenon, <2>1, <2>3, <2>7, TakenIs
  <2>9. slot \in 0 .. Occurrences /\ slot >= s.plan.slot
    BY <2>7, <2>8, ScheduleAssumption
  <2>10. \/ status = s.plan.status
         \/ status \in {"completed", "expired"} /\ openRuns(rs) = 0
    BY Zenon, <2>4
  <2>11. ASSUME NEW k \in Keys
         PROVE  \/ rs[k] = s.runs[k]
                \/ /\ \E t \in taken : k = Occurrence(t)
                   /\ s.runs[k].status = "none" /\ rs[k] \in {NewRun("due"), NewRun("skipped")}
    <3>1. CASE k \notin {Occurrence(t) : t \in taken}
      BY Zenon, <2>2, <3>1
    <3>2. CASE k \in {Occurrence(t) : t \in taken}
      <4>1. PICK t \in taken : k = Occurrence(t)
        BY Zenon, <3>2
      <4>2. t \in Slots /\ t >= s.plan.slot
        BY Zenon, <2>1
      <4>3. s.runs[k].status = "none"
        BY Zenon, <4>1, <4>2 DEF PassOK
      <4>4. rs[k] \in {NewRun("due"), NewRun("skipped")}
        BY Zenon, <2>2, <3>2
      <4> QED BY Zenon, <4>1, <4>3, <4>4
    <3> QED BY Zenon, <3>1, <3>2
  <2>12. Admits(s.runs, rs)
    BY Zenon, <2>11 DEF Admits
  <2>13. rs \in [Keys -> Rows]
    <3>1. \A k \in Keys : rs[k] \in Rows
      BY Zenon, <2>7, <2>11, NewRows
    <3>2. rs = [k \in Keys |-> rs[k]]
      BY Zenon, <2>2
    <3> QED BY Zenon, <3>1, <3>2
  <2>14. /\ q \in [plan : [status : PlanStatuses, slot : 0 .. Occurrences], runs : [Keys -> Rows]]
         /\ q.plan.status = status /\ q.plan.slot = slot /\ q.runs = rs
    BY Zenon, <2>5, <2>7, <2>9, <2>10, <2>13 DEF PlanStatuses
  <2>15. rs[Setup] = s.runs[Setup] /\ rs[Cancel] = s.runs[Cancel]
    BY <2>11, KeyFacts
  <2>16. rs[Cancel].status = "none"
    BY Zenon, <1>2, <2>15 DEF PassOK
  <2>17. ASSUME NEW t \in Slots, t >= slot PROVE rs[Occurrence(t)].status = "none"
    <3>1. t \notin taken /\ t >= s.plan.slot
      BY <2>7, <2>8, <2>9, <2>17, ScheduleAssumption DEF Slots
    <3>2. rs[Occurrence(t)] = s.runs[Occurrence(t)]
      BY <2>11, <3>1, KeyFacts
    <3> QED BY Zenon, <3>1, <3>2 DEF PassOK
  <2>18. HasSetup => inc
    BY Zenon, <1>2 DEF PassOK
  <2>19. openRuns(rs) = 0 => \A k \in Keys : ~IsOpen(rs, k)
    BY Zenon, OpenRunsIs
  <2>20. PassOK(q, inc)
    BY Zenon, <1>2, <2>10, <2>14, <2>15, <2>16, <2>17, <2>18, <2>19 DEF PassOK
  <2> QED BY Zenon, <2>6, <2>12, <2>14, <2>20
<1> QED BY Zenon, <1>1, <1>2

LEMMA TickKeeps == ASSUME IInv, tick, UNCHANGED <<work, ops>> PROVE IInv'
<1>1. PICK inc : inc = Included(ops[Setup])
  BY Zenon
<1>2. PICK s0 : s0 = [plan |-> plan, runs |-> runs]
  BY Zenon
<1>3. s0.plan = plan /\ s0.runs = runs
  BY Zenon, <1>2
<1>4. PassOK(s0, inc)
  <2>1. s0 \in [plan : [status : PlanStatuses, slot : 0 .. Occurrences], runs : [Keys -> Rows]]
    BY Zenon, <1>2 DEF IInv, PlanOK, RowsOK
  <2> QED BY Zenon, <1>1, <1>3, <2>1 DEF IInv, PlanOK, PassOK
<1>5. PICK s1 : s1 = Expired(s0)
  BY Zenon
<1>6. PassOK(s1, inc) /\ Admits(runs, s1.runs)
  BY Zenon, <1>3, <1>4, <1>5, ExpiredOK
<1>7. PICK s2 : s2 = admitSetup(s1)
  BY Zenon
<1>8. PassOK(s2, inc) /\ Admits(s1.runs, s2.runs)
  BY Zenon, <1>6, <1>7, AdmitSetupOK
<1>9. PICK s3 : s3 = admitOccurrences(s2)
  BY Zenon
<1>10. PassOK(s3, inc) /\ Admits(s2.runs, s3.runs)
  BY Zenon, <1>8, <1>9, AdmitOccurrencesOK
<1>11. PICK s : s = admitCancellation(s3)
  BY Zenon
<1>12. PassOK(s, inc) /\ Admits(s3.runs, s.runs)
  BY Zenon, <1>10, <1>11, AdmitCancellationOK
<1>13. Admits(runs, s.runs)
  <2>1. Admits(runs, s2.runs)
    BY Zenon, <1>6, <1>8, AdmitsTwice
  <2>2. Admits(runs, s3.runs)
    BY Zenon, <1>10, <2>1, AdmitsTwice
  <2> QED BY Zenon, <1>12, <2>2, AdmitsTwice
<1>14. plan' = s.plan /\ runs' = s.runs /\ now' = now
  BY Zenon, <1>2, <1>5, <1>7, <1>9, <1>11 DEF tick
<1>15. PlanOK'
  <2>1. plan' \in [status : PlanStatuses, slot : 0 .. Occurrences]
    BY Zenon, <1>12, <1>14 DEF PassOK
  <2>2. now' \in 0 .. Horizon
    BY Zenon, <1>14 DEF IInv, PlanOK
  <2>3. ops'[Setup] = ops[Setup]
    BY Zenon
  <2> QED BY Zenon, <1>1, <1>12, <1>14, <2>1, <2>2, <2>3 DEF PassOK, PlanOK, IsOpen
<1>16. runs' \in [Keys -> Rows]
  BY Zenon, <1>12, <1>14 DEF PassOK
<1>17. ASSUME NEW k \in Keys
       PROVE  \/ runs'[k] = runs[k]
              \/ runs[k].status = "none" /\ runs'[k] \in {NewRun("due"), NewRun("skipped")}
  BY Zenon, <1>13, <1>14 DEF Admits
<1>18. RowsOK'
  <2>1. ASSUME NEW k \in Keys PROVE RowOK(k, runs'[k], ops'[k])
    <3>1. RowOK(k, runs[k], ops[k]) /\ ops'[k] = ops[k]
      BY Zenon DEF IInv, RowsOK
    <3>2. CASE runs[k].status = "none" /\ runs'[k] \in {NewRun("due"), NewRun("skipped")}
      <4>1. runs[k].op = 0 /\ runs[k].attempts = 0 /\ Len(ops[k]) \in Nat
        BY <3>1, <3>2 DEF RowOK
      <4>2. Len(ops[k]) = 0
        BY <3>1, <4>1 DEF RowOK
      <4>3. /\ runs'[k].status \in {"due", "skipped"} /\ runs'[k].op = 0 /\ runs'[k].attempts = 0
            /\ runs'[k] \in Rows
        BY Zenon, <3>2, NewRows
      <4>4. 0 < MaxSendAttempts
        BY WorkersAssumption
      <4> QED BY <3>1, <4>2, <4>3, <4>4 DEF RowOK
    <3> QED BY Zenon, <1>17, <3>1, <3>2
  <2> QED BY Zenon, <1>16, <2>1 DEF IInv, RowsOK
<1>19. WorksOK'
  <2>1. ASSUME NEW v \in Workers
        PROVE  WorkOK(work'[v], runs'[work'[v].key], ops'[work'[v].key])
    <3>1. WorkOK(work[v], runs[work[v].key], ops[work[v].key]) /\ work[v].key \in Keys
      BY Zenon DEF IInv, WorksOK, Works
    <3>2. CASE runs[work[v].key].status = "none"
      <4>1. work[v].at \notin Active /\ work[v].at # "settle"
        BY Zenon, <3>1, <3>2 DEF WorkOK, OpenRun
      <4> QED BY Zenon, <3>1, <4>1 DEF WorkOK, Active, Steps
    <3> QED BY Zenon, <1>17, <3>1, <3>2
  <2> QED BY Zenon, <2>1 DEF IInv, WorksOK
<1> QED BY Zenon, <1>15, <1>18, <1>19 DEF IInv
-----------------------------------------------------------------------------
(***************************************************************************)
(* The plan API, the clock, and the whole specification.                   *)
(***************************************************************************)
LEMMA OthersKeep ==
    ASSUME IInv, PlanOK', UNCHANGED <<runs, work, ops>> PROVE IInv'
<1>1. RowsOK'
  BY Zenon DEF IInv, RowsOK
<1>2. WorksOK'
  BY Zenon DEF IInv, WorksOK
<1> QED BY Zenon, <1>1, <1>2 DEF IInv

LEMMA ApiKeeps ==
    ASSUME IInv, UNCHANGED <<work, ops>>,
           \/ startAuthorization \/ declineConsent \/ expireConsent \/ adoptGrant
           \/ pausePlan \/ resumePlan \/ cancelPlan
    PROVE  IInv'
<1>1. PICK status \in PlanStatuses :
         /\ plan' = [plan EXCEPT !.status = status] /\ UNCHANGED <<runs, now>>
         /\ \/ plan.status \in {"draft", "awaiting_consent"} /\ status \in {"draft", "awaiting_consent"}
            \/ plan.status = "awaiting_consent" /\ status \in {"expired", "authorized"}
            \/ plan.status \in {"active", "paused"} /\ status \in {"active", "paused"}
            \/ plan.status \in {"draft", "awaiting_consent"} /\ status = "cancelled"
            \/ plan.status \in {"authorized", "active", "paused"} /\ status = "cancelling"
  BY Zenon DEF startAuthorization, declineConsent, expireConsent, adoptGrant, pausePlan, resumePlan,
         cancelPlan, PlanStatuses
<1>2. PlanOK'
  <2>1. HasSetup /\ status \in {"active", "paused"} => Included(ops[Setup])
    BY Zenon, <1>1 DEF IInv, PlanOK
  <2>2. status # "failed"
    BY Zenon, <1>1
  <2>3. runs[Cancel].status = "none"
    BY Zenon, <1>1 DEF IInv, PlanOK
  <2>4. status \in {"draft", "awaiting_consent", "completed", "cancelled"} =>
           \A k \in Keys : ~IsOpen(runs, k)
    BY Zenon, <1>1 DEF IInv, PlanOK
  <2> QED BY Zenon, <1>1, <2>1, <2>2, <2>3, <2>4, PlanMoves
<1> QED BY Zenon, <1>1, <1>2, OthersKeep

LEMMA TimeKeeps == ASSUME IInv, PassTime, UNCHANGED <<work, ops>> PROVE IInv'
<1>1. now' \in 0 .. Horizon
  BY ScheduleAssumption DEF PassTime, IInv, PlanOK
<1>2. PlanOK'
  BY Zenon, <1>1 DEF PassTime, IInv, PlanOK, IsOpen
<1> QED BY Zenon, <1>2, OthersKeep DEF PassTime

LEMMA InitIInv == Init => IInv
<1> SUFFICES ASSUME Init PROVE IInv
  BY Zenon
<1>1. NewRun("none") \in Rows /\ NewRun("none").status = "none" /\ NewRun("none").op = 0
      /\ NewRun("none").attempts = 0
  BY WorkersAssumption DEF NewRun, Rows, RunStatuses
<1>2. runs \in [Keys -> Rows] /\ \A k \in Keys : runs[k] = NewRun("none")
  BY Zenon, <1>1 DEF Init, InitPlan
<1>3. ops \in [Keys -> Seq(Operations)] /\ \A k \in Keys : ops[k] = <<>>
  BY DEF Init
<1>4. PlanOK
  <2>1. /\ plan \in [status : PlanStatuses, slot : 0 .. Occurrences] /\ plan.status = "draft"
        /\ now \in 0 .. Horizon
    BY ScheduleAssumption DEF Init, InitPlan, PlanStatuses
  <2>2. \A k \in Keys : runs[k].status = "none"
    BY Zenon, <1>1, <1>2
  <2> QED BY Zenon, <2>1, <2>2, KeyFacts DEF PlanOK, IsOpen, OpenRun
<1>5. RowsOK
  <2>1. ASSUME NEW k \in Keys PROVE RowOK(k, NewRun("none"), <<>>)
    BY <1>1 DEF RowOK, OpenRun
  <2> QED BY Zenon, <1>2, <1>3, <2>1 DEF RowsOK
<1>6. WorksOK
  <2>1. work \in [Workers -> Works] /\ \A w \in Workers : work[w] = Idle
    BY Zenon, IdleWorks DEF Init
  <2>2. Idle.at \notin Active
    BY Zenon, IdleWorks DEF Active
  <2> QED BY Zenon, <2>1, <2>2, IdleWorks DEF WorksOK
<1> QED BY Zenon, <1>4, <1>5, <1>6 DEF IInv

LEMMA NextIInv == ASSUME ~MayOverrun, IInv, [Next]_vars PROVE IInv'
<1>1. CASE PlanNext /\ UNCHANGED <<work, ops>>
  BY Zenon, <1>1, ApiKeeps, TickKeeps, TimeKeeps DEF PlanNext
<1>2. ASSUME NEW w \in Workers, NEW k \in Keys, claimRun(w, k) PROVE IInv'
  BY Zenon, <1>2, ClaimKeeps
<1>3. ASSUME NEW w \in Workers, WorkStep(w) PROVE IInv'
  <2>1. CASE \/ LoadPlan(w) \/ Skip(w) \/ Wait(w) \/ Prepare(w) \/ Open(w) \/ CannotReach(w)
             \/ Publish(w) \/ SendRefused(w) \/ Attempt(w)
    BY Zenon, <2>1, LoadPlanKeeps, SkipKeeps, WaitKeeps, PrepareKeeps, OpenKeeps, CannotReachKeeps,
       PublishKeeps, SendRefusedKeeps, AttemptKeeps
  <2>2. CASE \/ SendAbandoned(w) \/ Submit(w) \/ ReadAfterSend(w) \/ MarkSubmitted(w)
             \/ ReadAfterFailure(w) \/ MarkUncertain(w)
    BY Zenon, <2>2, SubmitKeeps, ReadAfterSendKeeps, MarkSubmittedKeeps, ReadAfterFailureKeeps,
       MarkUncertainKeeps
  <2>3. CASE \/ Settle(w) \/ Activate(w) \/ Defer(w) \/ Observe(w) \/ WritePending(w)
             \/ WriteAbandoned(w) \/ WriteDropped(w) \/ WriteFinalized(w)
    BY Zenon, <2>3, SettleKeeps, ActivateKeeps, DeferKeeps, ObserveKeeps, WritePendingKeeps,
       WriteAbandonedKeeps, WriteEndKeeps
  <2> QED BY Zenon, <1>3, <2>1, <2>2, <2>3 DEF WorkStep
<1>4. ASSUME NEW w \in Workers, Crash(w) PROVE IInv'
  BY Zenon, <1>4, CrashKeeps
<1>5. ASSUME NEW k \in Keys, LeaseRunsOut(k) PROVE IInv'
  BY Zenon, <1>5, LeaseKeeps
<1>6. ASSUME NEW k \in Keys, ChainStep(k) PROVE IInv'
  BY Zenon, <1>6, ChainKeeps
<1>7. CASE UNCHANGED vars
  <2>1. PlanOK' /\ UNCHANGED <<runs, work, ops>>
    BY Zenon, <1>7 DEF vars, IInv, PlanOK, IsOpen
  <2> QED BY Zenon, <2>1, OthersKeep
<1> QED BY Zenon, <1>1, <1>2, <1>3, <1>4, <1>5, <1>6, <1>7 DEF Next

\* The invariant of every behaviour in which no lease runs out under a live
\* executor.
THEOREM AutomationInvariant == ASSUME ~MayOverrun PROVE Spec => []IInv
<1>1. Init => IInv
  BY Zenon, InitIInv
<1>2. IInv /\ [Next]_vars => IInv'
  BY Zenon, NextIInv
<1> QED BY <1>1, <1>2, PTL DEF Spec
-----------------------------------------------------------------------------
(***************************************************************************)
(* What follows from the invariant.                                        *)
(***************************************************************************)

\* The operation that a row names, and the others.
LEMMA RowFacts ==
    ASSUME IInv, NEW k \in Keys
    PROVE  /\ runs[k] \in Rows /\ ops[k] \in Seq(Operations) /\ Len(ops[k]) \in Nat
           /\ DOMAIN ops[k] = 1 .. Len(ops[k])
           /\ runs[k].op \in {0, Len(ops[k])}
           /\ \A n \in DOMAIN ops[k] :
                 /\ ops[k][n] \in Operations /\ ops[k][n].calls = k
                 /\ ops[k][n].state # "abandoned" => n = runs[k].op
<1>1. /\ runs[k] \in Rows /\ ops[k] \in Seq(Operations)
      /\ runs[k].op \in {0, Len(ops[k])}
      /\ \A n \in 1 .. Len(ops[k]) :
            ops[k][n].calls = k /\ (n # runs[k].op => ops[k][n].state = "abandoned")
  BY Zenon DEF IInv, RowsOK, RowOK
<1>2. Len(ops[k]) \in Nat /\ DOMAIN ops[k] = 1 .. Len(ops[k])
  BY <1>1
<1>3. \A n \in DOMAIN ops[k] : ops[k][n] \in Operations
  BY <1>1, <1>2
<1> QED BY Zenon, <1>1, <1>2, <1>3

LEMMA TypeFollows == IInv => TypeOK
<1> SUFFICES ASSUME IInv PROVE TypeOK
  BY Zenon
<1>1. ASSUME NEW k \in Keys PROVE Len(ops[k]) <= MaxSendAttempts /\ runs[k].op <= Len(ops[k])
  <2>1. /\ RowOK(k, runs[k], ops[k])
        /\ runs[k].op \in 0 .. MaxSendAttempts /\ runs[k].attempts \in 0 .. MaxSendAttempts
    BY Zenon DEF IInv, RowsOK, Rows
  <2>2. Len(ops[k]) \in Nat
    BY Zenon, RowFacts
  <2> QED BY <2>1, <2>2, WorkersAssumption DEF RowOK
<1>2. /\ plan \in [status : PlanStatuses, slot : 0 .. Occurrences] /\ now \in 0 .. Horizon
      /\ runs \in [Keys -> Rows] /\ work \in [Workers -> Works]
      /\ \A k \in Keys : ops[k] \in Seq(Operations)
  BY Zenon DEF IInv, PlanOK, RowsOK, WorksOK
<1> QED BY Zenon, <1>1, <1>2 DEF TypeOK

LEMMA OnceFollows == IInv => SentOnce
<1> SUFFICES ASSUME IInv, NEW c \in Keys PROVE Cardinality(SentFor(c)) <= 1
  BY Zenon DEF SentOnce
<1>1. SentFor(c) \subseteq {<<c, runs[c].op>>}
  <2> SUFFICES ASSUME NEW p \in SentFor(c) PROVE p = <<c, runs[c].op>>
    BY Zenon
  <2>1. PICK k, n :
           /\ k \in Keys /\ n \in DOMAIN ops[k]
           /\ p = <<k, n>> /\ ops[k][n].calls = c
           /\ ops[k][n].state \notin {"prepared", "abandoned"}
    BY Zenon DEF SentFor
  <2>2. k = c /\ n = runs[c].op
    BY <2>1, RowFacts
  <2> QED BY Zenon, <2>1, <2>2
<1>2. IsFiniteSet({<<c, runs[c].op>>}) /\ Cardinality({<<c, runs[c].op>>}) = 1
  BY Zenon, FS_Singleton
<1> QED BY <1>1, <1>2, FS_Subset

\* Only an open run has an operation that is not resolved.
LEMMA OpenFollows == IInv => JournaledRunStaysOpen
<1> SUFFICES ASSUME IInv, NEW k \in Keys, NEW n \in DOMAIN ops[k], ops[k][n].state \in Unresolved
             PROVE  IsOpen(runs, k) /\ runs[k].op = n
  BY Zenon DEF JournaledRunStaysOpen
<1>1. n = runs[k].op /\ n \in 1 .. Len(ops[k]) /\ Len(ops[k]) \in Nat
  BY Zenon, RowFacts DEF Unresolved
<1>2. n # 0
  BY <1>1
<1>3. RowOK(k, runs[k], ops[k]) /\ runs[k].status \in RunStatuses
  BY Zenon DEF IInv, RowsOK, Rows
<1>4. runs[k].status \notin {"none", "skipped", "finalized", "failed"}
  BY Zenon, <1>1, <1>2, <1>3 DEF RowOK, Unresolved
<1> QED BY Zenon, <1>1, <1>3, <1>4 DEF IsOpen, RunStatuses

LEMMA QuietFollows == IInv => ClosedPlanIsQuiet
<1> SUFFICES ASSUME IInv, plan.status \in {"completed", "cancelled"}, NEW k \in Keys,
                    NEW n \in DOMAIN ops[k]
             PROVE  ops[k][n].state \notin Unresolved
  BY Zenon DEF ClosedPlanIsQuiet
<1>1. ~IsOpen(runs, k)
  BY Zenon DEF IInv, PlanOK
<1> QED BY Zenon, <1>1, OpenFollows DEF JournaledRunStaysOpen

LEMMA OrderFollows == IInv => RunsAreOrdered
<1> SUFFICES ASSUME IInv PROVE RunsAreOrdered
  BY Zenon
<1>1. CancelRunsAlone
  BY Zenon, OpenFollows DEF CancelRunsAlone, JournaledRunStaysOpen, IInv, PlanOK
<1>2. OccurrenceNeedsSetup
  <2>1. DOMAIN ops[Setup] = 1 .. Len(ops[Setup])
    BY Zenon, RowFacts, KeyFacts
  <2> QED BY Zenon, <2>1 DEF OccurrenceNeedsSetup, IInv, PlanOK, Included
<1>3. LanesAreExclusive
  <2> SUFFICES ASSUME NEW j \in Keys, NEW k \in Keys, j # k, IsOpen(runs, j), IsOpen(runs, k)
               PROVE  Lane(j) # Lane(k)
    BY Zenon DEF LanesAreExclusive
  <2>1. j # Cancel /\ k # Cancel
    BY Zenon DEF IInv, PlanOK, IsOpen, OpenRun
  <2>2. Setup \in {j, k} => HasSetup
    BY Zenon DEF IInv, PlanOK, IsOpen, OpenRun
  <2>3. CASE \E s, t \in Slots : j = Occurrence(s) /\ k = Occurrence(t)
    <3>1. PICK s \in Slots, t \in Slots : j = Occurrence(s) /\ k = Occurrence(t)
      BY Zenon, <2>3
    <3>2. s # t /\ s \in Int /\ t \in Int
      BY <3>1, ScheduleAssumption DEF Slots
    <3>3. PICK d \in {0, 1} : \A u \in Slots : Lane(Occurrence(u)) = u + d
      BY Zenon, KeyFacts DEF Lane
    <3> QED BY <3>1, <3>2, <3>3
  <2>4. CASE j = Setup \/ k = Setup
    <3>1. Lane(Setup) = 0 /\ \A t \in Slots : Lane(Occurrence(t)) = t + 1
      BY Zenon, <2>2, <2>4, KeyFacts DEF Lane
    <3>2. \A t \in Slots : t + 1 # 0
      BY ScheduleAssumption DEF Slots
    <3> QED BY <2>1, <2>4, <3>1, <3>2, KeyFacts
  <2> QED BY Zenon, <2>1, <2>3, <2>4, KeyFacts
<1> QED BY Zenon, <1>1, <1>2, <1>3 DEF RunsAreOrdered

LEMMA OutcomeFollows == IInv => OutcomeIsTrue
<1> SUFFICES ASSUME IInv, NEW k \in Keys
             PROVE  LET done == \E n \in DOMAIN ops[k] :
                                   ops[k][n] = [calls |-> k, state |-> "final_success"]
                    IN  /\ runs[k].status = "finalized" => done
                        /\ runs[k].status \in {"failed", "skipped"} => ~done
  BY Zenon DEF OutcomeIsTrue
<1>1. RowOK(k, runs[k], ops[k])
  BY Zenon DEF IInv, RowsOK
<1>2. ASSUME runs[k].status = "finalized"
      PROVE  \E n \in DOMAIN ops[k] : ops[k][n] = [calls |-> k, state |-> "final_success"]
  <2>1. PICK n : n = runs[k].op
    BY Zenon
  <2>2. n # 0 /\ ops[k][n].state = "final_success"
    BY Zenon, <1>1, <1>2, <2>1 DEF RowOK
  <2>3. n \in DOMAIN ops[k]
    BY <2>1, <2>2, RowFacts
  <2>4. ops[k][n] \in Operations /\ ops[k][n].calls = k
    BY Zenon, <2>3, RowFacts
  <2>5. ops[k][n] = [calls |-> k, state |-> "final_success"]
    BY Zenon, <2>2, <2>4 DEF Operations
  <2> QED BY Zenon, <2>3, <2>5
<1>3. ASSUME runs[k].status \in {"failed", "skipped"}, NEW n \in DOMAIN ops[k],
             ops[k][n] = [calls |-> k, state |-> "final_success"]
      PROVE  FALSE
  <2>1. ops[k][n].state = "final_success"
    BY <1>3
  <2>2. n = runs[k].op /\ n # 0
    BY <2>1, RowFacts
  <2> QED BY Zenon, <1>1, <1>3, <2>1, <2>2 DEF RowOK
<1> QED BY Zenon, <1>2, <1>3

LEMMA FailureFollows == IInv => FailedPlanHasFailedSetup
<1> SUFFICES ASSUME IInv, plan.status = "failed", NEW n \in DOMAIN ops[Setup]
             PROVE  ops[Setup][n].state \in {"abandoned", "dropped", "final_reverted"}
  BY Zenon DEF FailedPlanHasFailedSetup
<1>1. RowOK(Setup, runs[Setup], ops[Setup]) /\ runs[Setup].status = "failed"
  BY Zenon, KeyFacts DEF IInv, PlanOK, RowsOK
<1>2. CASE ops[Setup][n].state # "abandoned"
  <2>1. n = runs[Setup].op /\ n # 0
    BY <1>2, RowFacts, KeyFacts
  <2> QED BY Zenon, <1>1, <2>1 DEF RowOK
<1> QED BY Zenon, <1>2
-----------------------------------------------------------------------------
(***************************************************************************)
(* The theorems.                                                           *)
(***************************************************************************)

\* Every row keeps to its columns, a run has at most MAX_SEND_ATTEMPTS
\* operations, and op_hash names one of them (executor.ts, store.ts, db.ts).
THEOREM AutomationTypeCorrect == ASSUME ~MayOverrun PROVE Spec => []TypeOK
BY AutomationInvariant, TypeFollows, PTL

\* The calls of a run reach the bundler in at most one operation that was not
\* abandoned, whatever crashes and however often the run is claimed again
\* (executor.ts claimRun, send, observe).
THEOREM AutomationSendsOnce == ASSUME ~MayOverrun PROVE Spec => []SentOnce
BY AutomationInvariant, OnceFollows, PTL

\* While an operation of a run may still execute, the run is open and its
\* op_hash names that operation, so it is observed again (executor.ts execute).
THEOREM AutomationKeepsObserving == ASSUME ~MayOverrun PROVE Spec => []JournaledRunStaysOpen
BY AutomationInvariant, OpenFollows, PTL

\* The cancel calls run alone, no occurrence runs before its setup was on
\* chain, and open runs have lanes of their own (scheduler.ts).
THEOREM AutomationKeepsOrder == ASSUME ~MayOverrun PROVE Spec => []RunsAreOrdered
BY AutomationInvariant, OrderFollows, PTL

\* A run is finalized exactly for a final, successful operation with its own
\* calls, and never failed or skipped in spite of one (executor.ts observe).
THEOREM AutomationReportsTruly == ASSUME ~MayOverrun PROVE Spec => []OutcomeIsTrue
BY AutomationInvariant, OutcomeFollows, PTL

\* A plan fails only for a setup none of whose operations is or can get on
\* chain successfully (executor.ts settlePlan).
THEOREM AutomationFailsTruly == ASSUME ~MayOverrun PROVE Spec => []FailedPlanHasFailedSetup
BY AutomationInvariant, FailureFollows, PTL

\* A completed or cancelled plan leaves no operation behind that can still
\* execute (scheduler.ts admitOccurrences, admitCancellation).
THEOREM AutomationClosesQuietly == ASSUME ~MayOverrun PROVE Spec => []ClosedPlanIsQuiet
BY AutomationInvariant, QuietFollows, PTL
=============================================================================
