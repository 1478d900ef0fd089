--------------------------- MODULE WorkerAdmission --------------------------
(***************************************************************************)
(* Worker admission (workers/admission.py): a worker runs under a lease on *)
(* its worktree and artifact prefix, within the limits of its class and of *)
(* the host, as far as the mode of the system lets its priority in.        *)
(***************************************************************************)
EXTENDS Naturals, FiniteSets, FiniteSetsExt

CONSTANTS
    Work,         \* requests, records: class, worktree, prefix, cpu, memory, priority
    LeaseToken,   \* isolation tokens, each handed out once
    Concurrency,  \* worker class -> its limit
    Capacity      \* of the host: cpu, memory

ASSUME WorkerAdmissionAssumption ==
    /\ \A w \in Work : w.cpu \in Nat \ {0} /\ w.memory \in Nat \ {0} /\ Concurrency[w.class] \in Nat \ {0}
    /\ Capacity.cpu \in Nat \ {0} /\ Capacity.memory \in Nat \ {0}

VARIABLES
    system_mode,  \* _mode
    workers,      \* _active: the leases, records: token, of
    handed        \* the tokens handed out

workerVars == <<system_mode, workers, handed>>

SystemMode == {"normal", "constrained", "degraded", "survival"}
Background == 10
Interactive == 30
ControlWork == 100

HeldBy(class) == {l \in workers : l.of.class = class}
UsedCpu == MapThenSumSet(LAMBDA l : l.of.cpu, workers)
UsedMemory == MapThenSumSet(LAMBDA l : l.of.memory, workers)

-----------------------------------------------------------------------------

\* _require_mode.
LetIn(w) ==
    \/ w.priority = ControlWork
    \/ system_mode = "normal"
    \/ system_mode = "degraded" /\ w.priority >= Interactive
    \/ system_mode = "constrained" /\ w.priority # Background

Isolated(w) == \A l \in workers : l.of.worktree # w.worktree /\ l.of.prefix # w.prefix

\* Mutant: the request itself is left out of what the host must hold.
MutFits(w) ==
    /\ Cardinality(HeldBy(w.class)) < Concurrency[w.class]
    /\ UsedCpu <= Capacity.cpu /\ UsedMemory <= Capacity.memory

Fits(w) ==
    /\ Cardinality(HeldBy(w.class)) < Concurrency[w.class]
    /\ UsedCpu + w.cpu <= Capacity.cpu /\ UsedMemory + w.memory <= Capacity.memory

\* admit, of a request it does not deny.
AdmitWork(t, w) ==
    /\ t \notin handed
    /\ LetIn(w) /\ Isolated(w) /\ Fits(w)
    /\ workers' = workers \cup {[token |-> t, of |-> w]}
    /\ handed' = handed \cup {t}
    /\ UNCHANGED system_mode

\* release; a token that is not active is an error.
ReleaseWork(l) ==
    /\ workers' = workers \ {l}
    /\ UNCHANGED <<system_mode, handed>>

\* set_mode: the workers that run stay.
SetMode(m) == system_mode' = m /\ UNCHANGED <<workers, handed>>

-----------------------------------------------------------------------------

WorkerInit == system_mode \in SystemMode /\ workers = {} /\ handed = {}

WorkerNext ==
    \/ \E t \in LeaseToken, w \in Work : AdmitWork(t, w)
    \/ \E l \in workers : ReleaseWork(l)
    \/ \E m \in SystemMode : SetMode(m)

WorkerSpec == WorkerInit /\ [][WorkerNext]_workerVars

-----------------------------------------------------------------------------
(* Properties.                                                             *)

\* Whatever is admitted and released in whatever order, and however the mode changes
\* meanwhile, the workers that run fit the host and the limits of their classes, and no
\* two of them share a worktree or an artifact prefix.
WorkFits ==
    /\ UsedCpu <= Capacity.cpu /\ UsedMemory <= Capacity.memory
    /\ \A l \in workers : Cardinality(HeldBy(l.of.class)) <= Concurrency[l.of.class]
    /\ \A l, m \in workers :
         l.token # m.token => l.of.worktree # m.of.worktree /\ l.of.prefix # m.of.prefix
=============================================================================
