--------------------------- MODULE AutomationPlan ---------------------------
(***************************************************************************)
(* One scheduled automation plan of the automation server and the runs     *)
(* admitted for it: the plan API (plans.ts, oauth.ts) and the admission    *)
(* pass of the scheduler (scheduler.ts).  Both live in PostgreSQL; each    *)
(* action here is one transaction that holds the plan row.  The executors  *)
(* that drive the admitted runs are added in AutomationExecutor.           *)
(*                                                                         *)
(* The clock is a small integer.  next_at, next_attempt_at and             *)
(* next_consent_at only delay work that is already allowed; the model lets *)
(* that work happen at any later time, so they are not state.              *)
(***************************************************************************)
EXTENDS Integers, FiniteSets

CONSTANTS
    HasSetup, HasCancel,    \* whether the definition declares setup and cancel calls
    Occurrences,            \* schedule.occurrences
    StartAt, Every, Grace,  \* schedule.startAt, schedule.every, schedule.grace
    MaxOpenSlots,           \* AUTOMATION_MAX_OPEN_SLOTS
    Horizon                 \* bound: the last instant of the clock

ASSUME ScheduleAssumption ==
    /\ HasSetup \in BOOLEAN /\ HasCancel \in BOOLEAN
    /\ {Occurrences, Every, Grace, MaxOpenSlots} \subseteq Nat \ {0}
    /\ {StartAt, Horizon} \subseteq Nat

VARIABLES
    plan,   \* the automation_plans row: its status and next_slot
    runs,   \* the automation_runs rows of the plan, by run key
    now     \* the clock

Slots == 0 .. Occurrences - 1

Setup  == <<"setup", 0>>
Cancel == <<"cancel", 0>>
Occurrence(s) == <<"occurrence", s>>

Keys == {Setup, Cancel} \cup {Occurrence(s) : s \in Slots}

PlanStatuses == {"draft", "awaiting_consent", "authorized", "active", "paused",
                 "cancelling", "cancelled", "completed", "expired", "failed"}

OpenRun == {"due", "claimed", "prepared", "submitted", "observed"}

RunStatuses == OpenRun \cup {"none", "finalized", "failed", "skipped"}

\* The columns of a run the executor reads and writes.  op is op_hash: 0 for
\* NULL, n for the n-th operation journaled for the run.
NewRun(status) ==
    [status |-> status, op |-> 0, gen |-> 0, leased |-> FALSE, attempts |-> 0]

Lane(k) == IF k[1] = "occurrence" THEN k[2] + (IF HasSetup THEN 1 ELSE 0) ELSE 0

slotTime(s) == StartAt + s * Every

\* schedule.endAt, exclusive.  derivePlanPolicy signs validUntil = endAt - 1,
\* and adoptGrant refuses any other policy, so the Grant ends there too.
planEnd  == slotTime(Occurrences - 1) + Grace
grantEnd == planEnd

closesAt(s) == IF slotTime(s) + Grace <= grantEnd THEN slotTime(s) + Grace ELSE grantEnd

IsOpen(rs, k) == rs[k].status \in OpenRun

openRuns(rs) == Cardinality({k \in Keys : IsOpen(rs, k)})

InitPlan ==
    /\ plan = [status |-> "draft", slot |-> 0]
    /\ runs = [k \in Keys |-> NewRun("none")]
    /\ now = 0

-----------------------------------------------------------------------------
(* The plan API. *)

\* startAuthorization: a pushed authorization request is recorded on the plan,
\* in place of an earlier one if there is any.
startAuthorization ==
    /\ plan.status \in {"draft", "awaiting_consent"}
    /\ plan' = [plan EXCEPT !.status = "awaiting_consent"]
    /\ UNCHANGED <<runs, now>>

\* redeem: the issuer declined the consent, so the plan can be authorized anew.
declineConsent ==
    /\ plan.status = "awaiting_consent"
    /\ plan' = [plan EXCEPT !.status = "draft"]
    /\ UNCHANGED <<runs, now>>

\* redeemPendingConsent: the request expires with the plan's terms.
expireConsent ==
    /\ plan.status = "awaiting_consent"
    /\ now >= planEnd
    /\ plan' = [plan EXCEPT !.status = "expired"]
    /\ UNCHANGED <<runs, now>>

\* adoptGrant: the approved Grant is stored.
adoptGrant ==
    /\ plan.status = "awaiting_consent"
    /\ plan' = [plan EXCEPT !.status = "authorized"]
    /\ UNCHANGED <<runs, now>>

pausePlan ==
    /\ plan.status = "active"
    /\ plan' = [plan EXCEPT !.status = "paused"]
    /\ UNCHANGED <<runs, now>>

resumePlan ==
    /\ plan.status = "paused"
    /\ now < planEnd
    /\ plan' = [plan EXCEPT !.status = "active"]
    /\ UNCHANGED <<runs, now>>

cancelPlan ==
    /\ plan.status \in {"draft", "awaiting_consent", "authorized", "active", "paused"}
    /\ plan' = [plan EXCEPT !.status =
                   IF @ \in {"draft", "awaiting_consent"} THEN "cancelled" ELSE "cancelling"]
    /\ UNCHANGED <<runs, now>>

-----------------------------------------------------------------------------
(* The admission pass.  A state of the pass is [plan, runs].               *)

\* The expiry update at the head of tick.
Expired(s) ==
    IF s.plan.status \in {"draft", "awaiting_consent", "authorized"} /\ grantEnd <= now
    THEN [s EXCEPT !.plan.status = "expired"]
    ELSE s

admitSetup(s) ==
    IF s.plan.status # "authorized" \/ s.runs[Setup].status # "none" THEN s
    ELSE IF HasSetup THEN [s EXCEPT !.runs[Setup] = NewRun("due")]
    ELSE [s EXCEPT !.plan.status = "active"]

\* installIncluded: some run of the plan has been seen on chain.
installIncluded(rs) == \E k \in Keys : rs[k].status \in {"observed", "finalized"}

\* A slot whose window is over, or opens only after the Grant ends.
missed(s) == slotTime(s) >= grantEnd \/ now >= closesAt(s)

\* The loop of admitOccurrences takes slots in order and stops at the first
\* one that is not due yet or may not open now.
Passed(s, slot) ==
    LET limit == IF installIncluded(s.runs) THEN MaxOpenSlots ELSE 1
        openAt(t) == openRuns(s.runs)
                       + Cardinality({u \in s.plan.slot .. t - 1 : ~missed(u)})
    IN  \A t \in s.plan.slot .. slot :
            \/ missed(t)
            \/ now >= slotTime(t) /\ s.plan.status = "active" /\ openAt(t) < limit

admitOccurrences(s) ==
    LET taken  == {t \in Slots : t >= s.plan.slot /\ Passed(s, t)}
        rs     == [k \in Keys |->
                      IF k \in {Occurrence(t) : t \in taken}
                      THEN NewRun(IF missed(k[2]) THEN "skipped" ELSE "due")
                      ELSE s.runs[k]]
        slot   == s.plan.slot + Cardinality(taken)
        active == s.plan.status = "active"
        status == CASE slot >= Occurrences /\ openRuns(rs) = 0 /\ active -> "completed"
                    [] ~(slot >= Occurrences /\ active)
                         /\ now >= grantEnd /\ openRuns(rs) = 0 -> "expired"
                    [] OTHER -> s.plan.status
    IN  IF s.plan.status \in {"active", "paused"}
        THEN [plan |-> [status |-> status, slot |-> slot], runs |-> rs]
        ELSE s

\* Mutant: the cancel run does not wait for the open runs.
admitCancellationMutant(s) ==
    IF s.plan.status # "cancelling" \/ s.runs[Cancel].status # "none"
    THEN s
    ELSE [s EXCEPT !.runs[Cancel] = NewRun("due")]

admitCancellation(s) ==
    LET touched == \E k \in Keys : s.runs[k].op # 0
    IN  IF \/ s.plan.status # "cancelling"
           \/ s.runs[Cancel].status # "none"
           \/ openRuns(s.runs) > 0
        THEN s
        ELSE IF HasCancel /\ touched /\ now < planEnd
             THEN [s EXCEPT !.runs[Cancel] = NewRun("due")]
             ELSE [s EXCEPT !.plan.status = "cancelled"]

tick ==
    LET s == admitCancellation(admitOccurrences(admitSetup(Expired(
                 [plan |-> plan, runs |-> runs]))))
    IN  /\ plan' = s.plan
        /\ runs' = s.runs
        /\ UNCHANGED now

PassTime ==
    /\ now < Horizon
    /\ now' = now + 1
    /\ UNCHANGED <<plan, runs>>

PlanNext ==
    \/ startAuthorization \/ declineConsent \/ expireConsent \/ adoptGrant
    \/ pausePlan \/ resumePlan \/ cancelPlan
    \/ tick \/ PassTime
=============================================================================
