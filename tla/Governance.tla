----------------------------- MODULE Governance -----------------------------
(***************************************************************************)
(* The authorization engine (governance/authorization.py) and the          *)
(* high-autonomy controller that acts through it (operations/autonomy.py). *)
(* Both live in one process and await nothing: a call is one step.  What   *)
(* is hard is the order of legal calls: approvals, schedules, budget and   *)
(* activations are used up by some and must not be by others.  The audit   *)
(* log is a sequence; its hashes only make it tamper-evident.              *)
(***************************************************************************)
EXTENDS Naturals, Sequences, FiniteSets

CONSTANTS
    Action,       \* records: kind, protected, tainted, cost; an action is its digest
    Approval,     \* records: action, from, until, signed
    Schedule,     \* records: kinds, scope (the actions it matches), from, until, max_runs, signed
    Proof,        \* activation proofs, records: epoch, from, until, verified
    Ceiling,      \* monthly_ceiling_usd
    MaxFollowups, \* maximum_followups
    MaxTime,      \* bound on the clock
    MaxDecisions, \* bound on the calls of authorize
    MaxAnomalies  \* bound on the anomalies

ASSUME GovernanceAssumption ==
    /\ Ceiling \in Nat /\ MaxFollowups \in Nat \ {0}
    /\ MaxTime \in Nat /\ MaxDecisions \in Nat /\ MaxAnomalies \in Nat

VARIABLES
    clock,
    spent,        \* BudgetGovernor._spent
    consumed,     \* _consumed_approvals
    runs,         \* _schedule_runs
    decisions,    \* the audit log
    activation,   \* _activation: a set with the proof, or empty
    anomalies,    \* how many anomalies were recorded
    cleared,      \* how many of them activate has cleared from _anomalies
    followups     \* how many follow-ups were scheduled

governanceVars == <<clock, spent, consumed, runs, decisions, activation, anomalies, cleared, followups>>

Current(x) == clock >= x.from /\ clock < x.until

-----------------------------------------------------------------------------
(* The engine.                                                             *)

\* _validate_taint.
Untainted(a) == a.protected => ~a.tainted

\* _validate_approval: `approvals' has the approval given, if any.
Approved(a, approvals) ==
    \E p \in approvals : p \notin consumed /\ p.signed /\ Current(p) /\ p.action = a

\* _validate_schedule.
InSchedule(a, schedules) ==
    \A s \in schedules : /\ s.signed /\ Current(s)
                         /\ a.kind \in s.kinds /\ a \in s.scope
                         /\ runs[s] < s.max_runs

Permitted(a, approvals, schedules) ==
    /\ Untainted(a)
    /\ InSchedule(a, schedules)
    /\ a.protected => Approved(a, approvals)

\* BudgetGovernor.reserve.
WithinBudget(a) == spent + a.cost <= Ceiling

\* What is audited; what an authorized action was asked with is kept beside it.
Decision(a, allowed, approvals, schedules, epoch) ==
    IF allowed
    THEN [action |-> a, allowed |-> TRUE, approvals |-> approvals, schedules |-> schedules,
          epoch |-> epoch, anomalies |-> anomalies]
    ELSE [action |-> a, allowed |-> FALSE, approvals |-> {}, schedules |-> {},
          epoch |-> 0, anomalies |-> 0]

\* Mutant: the budget is reserved before the approval is validated.
MutAuthorize(a, approvals, schedules, epoch) ==
    LET within == Untainted(a) /\ InSchedule(a, schedules) /\ WithinBudget(a)
        allowed == within /\ (a.protected => Approved(a, approvals))
    IN  /\ Len(decisions) < MaxDecisions
        /\ decisions' = Append(decisions, Decision(a, allowed, approvals, schedules, epoch))
        /\ spent' = IF within THEN spent + a.cost ELSE spent
        /\ consumed' = IF allowed /\ a.protected THEN consumed \cup approvals ELSE consumed
        /\ runs' = [s \in Schedule |-> IF allowed /\ s \in schedules THEN runs[s] + 1 ELSE runs[s]]
        /\ UNCHANGED <<clock, activation, anomalies, cleared, followups>>

\* authorize, with at most one approval and one schedule.
Authorize(a, approvals, schedules, epoch) ==
    LET allowed == Permitted(a, approvals, schedules) /\ WithinBudget(a)
    IN  /\ Len(decisions) < MaxDecisions
        /\ decisions' = Append(decisions, Decision(a, allowed, approvals, schedules, epoch))
        /\ spent' = IF allowed THEN spent + a.cost ELSE spent
        /\ consumed' = IF allowed /\ a.protected THEN consumed \cup approvals ELSE consumed
        /\ runs' = [s \in Schedule |-> IF allowed /\ s \in schedules THEN runs[s] + 1 ELSE runs[s]]
        /\ UNCHANGED <<clock, activation, anomalies, cleared, followups>>

-----------------------------------------------------------------------------
(* The controller.                                                         *)

\* Mutant: an activation of an older epoch replaces a newer one.
MutActivate(p) ==
    /\ Current(p) /\ p.verified
    /\ activation' = {p}
    /\ cleared' = anomalies
    /\ UNCHANGED <<clock, spent, consumed, runs, decisions, anomalies, followups>>

\* activate: the epoch must advance on the activation that is in force.
Activate(p) ==
    /\ Current(p) /\ p.verified
    /\ \A q \in activation : p.epoch > q.epoch
    /\ activation' = {p}
    /\ cleared' = anomalies
    /\ UNCHANGED <<clock, spent, consumed, runs, decisions, anomalies, followups>>

\* record_anomaly.
RecordAnomaly ==
    /\ anomalies < MaxAnomalies
    /\ anomalies' = anomalies + 1
    /\ activation' = {}
    /\ UNCHANGED <<clock, spent, consumed, runs, decisions, cleared, followups>>

\* _require_active.
ActiveProof(p) == p \in activation /\ anomalies = cleared /\ Current(p)

\* run: an action under a schedule, never with an approval.
Run(a, s) == \E p \in Proof : ActiveProof(p) /\ Authorize(a, {}, {s}, p.epoch)

\* schedule_followup, of a new identity within the horizon.
ScheduleFollowup ==
    /\ \E p \in Proof : ActiveProof(p)
    /\ followups < MaxFollowups
    /\ followups' = followups + 1
    /\ UNCHANGED <<clock, spent, consumed, runs, decisions, activation, anomalies, cleared>>

ClockTick ==
    /\ clock < MaxTime
    /\ clock' = clock + 1
    /\ UNCHANGED <<spent, consumed, runs, decisions, activation, anomalies, cleared, followups>>

-----------------------------------------------------------------------------

GovernanceInit ==
    /\ clock = 0 /\ spent = 0 /\ consumed = {}
    /\ runs = [s \in Schedule |-> 0]
    /\ decisions = << >>
    /\ activation = {} /\ anomalies = 0 /\ cleared = 0 /\ followups = 0

AtMostOne(S) == {{}} \cup {{x} : x \in S}

GovernanceNext ==
    \/ ClockTick \/ RecordAnomaly \/ ScheduleFollowup
    \/ \E a \in Action, ps \in AtMostOne(Approval), ss \in AtMostOne(Schedule) : Authorize(a, ps, ss, 0)
    \/ \E a \in Action, s \in Schedule : Run(a, s)
    \/ \E p \in Proof : Activate(p)

GovernanceSpec == GovernanceInit /\ [][GovernanceNext]_governanceVars

-----------------------------------------------------------------------------
(* Properties.                                                             *)

Allowed == {i \in DOMAIN decisions : decisions[i].allowed}

Cost[n \in Nat] ==
    IF n = 0 THEN 0
    ELSE Cost[n - 1] + (IF n \in Allowed THEN decisions[n].action.cost ELSE 0)

\* What was spent, consumed and run is what the audit log says was authorized: a
\* denial, at whichever of its checks, has used up nothing, and the ceiling holds.
UsedIsAudited ==
    /\ spent = Cost[Len(decisions)] /\ spent <= Ceiling
    /\ consumed = UNION {decisions[i].approvals : i \in {j \in Allowed : decisions[j].action.protected}}
    /\ \A s \in Schedule : runs[s] = Cardinality({i \in Allowed : s \in decisions[i].schedules})

\* "activation epoch must advance": between two anomalies, no action is taken under
\* an activation older than one that has already acted.  (An anomaly forgets the
\* epoch: after it an older proof that is still valid activates again.)
ActivationsAdvance ==
    \A i, j \in DOMAIN decisions :
        /\ i < j /\ decisions[i].anomalies = decisions[j].anomalies
        /\ decisions[i].epoch > 0 /\ decisions[j].epoch > 0
        => decisions[i].epoch <= decisions[j].epoch
=============================================================================
