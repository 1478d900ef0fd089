--------------------------- MODULE BurstCapacity ----------------------------
(***************************************************************************)
(* Elastic burst workers (capacity/burst.py): BurstManager provisions,     *)
(* joins, drains and deletes instances under a monthly ceiling, and        *)
(* deletes the orphans that a lost run has left at the provider.  The      *)
(* provider's calls may raise, and the process may die between them; the   *)
(* manager's memory is lost with it, the provider's instances are not.     *)
(***************************************************************************)
EXTENDS Naturals, FiniteSets

CONSTANTS
    Instance,
    MonthlyCeiling, \* in units of what one instance costs
    MaxDeaths       \* bound on the deaths of the process

ASSUME BurstAssumption == MonthlyCeiling \in Nat /\ MaxDeaths \in Nat

VARIABLES
    managed,      \* the instances at the provider (list_managed)
    held,         \* _active
    accrued,      \* _accrued_usd
    burst,        \* the run in progress: its phase and the instances it still has to delete
    cutShort,     \* a delete has raised since the process started
    deaths

burstVars == <<managed, held, accrued, burst, cutShort, deaths>>

NoBurst == [phase |-> "none", left |-> {}]

-----------------------------------------------------------------------------

\* run, up to provision: the forecast is accrued before it, and kept when it raises,
\* with the instances that the provider may have made by then.
Provision(S) ==
    /\ burst = NoBurst
    /\ S # {} /\ S \cap managed = {}
    /\ accrued + Cardinality(S) <= MonthlyCeiling
    /\ accrued' = accrued + Cardinality(S)
    /\ \/ /\ managed' = managed \cup S
          /\ held' = held \cup S
          /\ burst' = [phase |-> "working", left |-> S]
       \/ /\ managed' = managed \cup S        \* but the set returned is not the one asked for
          /\ burst' = [phase |-> "deleting", left |-> S]
          /\ UNCHANGED held
       \/ /\ \E made \in SUBSET S : managed' = managed \cup made
          /\ UNCHANGED <<held, burst>>
    /\ UNCHANGED <<cutShort, deaths>>

\* join_private and drain of every instance, or one of them raises: the finally
\* clause deletes the instances either way.
Work ==
    /\ burst.phase = "working"
    /\ burst' = [burst EXCEPT !.phase = "deleting"]
    /\ UNCHANGED <<managed, held, accrued, cutShort, deaths>>

\* Mutant: an instance that was deleted stays in _active.
MutDeleteOne(i) ==
    /\ burst.phase = "deleting" /\ i \in burst.left
    /\ managed' = managed \ {i}
    /\ burst' = IF burst.left = {i} THEN NoBurst ELSE [burst EXCEPT !.left = @ \ {i}]
    /\ UNCHANGED <<held, accrued, cutShort, deaths>>

\* One delete of the finally clause.
DeleteOne(i) ==
    /\ burst.phase = "deleting" /\ i \in burst.left
    /\ managed' = managed \ {i}
    /\ held' = held \ {i}
    /\ burst' = IF burst.left = {i} THEN NoBurst ELSE [burst EXCEPT !.left = @ \ {i}]
    /\ UNCHANGED <<accrued, cutShort, deaths>>

\* A delete raises: the others are not tried, and all stay in _active.
DeleteRaises ==
    /\ burst.phase = "deleting"
    /\ burst' = NoBurst
    /\ cutShort' = TRUE
    /\ UNCHANGED <<managed, held, accrued, deaths>>

\* reconcile_orphans, between two runs.
ReconcileOrphans ==
    /\ burst = NoBurst /\ managed \ held # {}
    /\ managed' = managed \cap held
    /\ UNCHANGED <<held, accrued, burst, cutShort, deaths>>

\* The process dies and is started again.
RestartBurst ==
    /\ deaths < MaxDeaths
    /\ deaths' = deaths + 1
    /\ held' = {} /\ accrued' = 0 /\ burst' = NoBurst /\ cutShort' = FALSE
    /\ UNCHANGED managed

-----------------------------------------------------------------------------

BurstInit ==
    /\ managed = {} /\ held = {} /\ accrued = 0
    /\ burst = NoBurst /\ cutShort = FALSE /\ deaths = 0

BurstNext ==
    \/ \E S \in SUBSET Instance : Provision(S)
    \/ Work \/ DeleteRaises \/ ReconcileOrphans \/ RestartBurst
    \/ \E i \in Instance : DeleteOne(i)

\* A run goes on to its end, and orphans are reconciled again and again.
BurstFairness ==
    /\ WF_burstVars(Work) /\ WF_burstVars(\E i \in Instance : DeleteOne(i))
    /\ WF_burstVars(ReconcileOrphans)

BurstSpec == BurstInit /\ [][BurstNext]_burstVars /\ BurstFairness

-----------------------------------------------------------------------------
(* Properties.                                                             *)

\* Every instance is deleted at last, whichever calls raise and wherever the process
\* dies, as long as no delete raises: one that does leaves the instances of its run
\* in _active, where no reconciliation of this process looks at them.
InstancesAreDeleted ==
    \A i \in Instance : i \in managed ~> (i \notin managed \/ cutShort)
=============================================================================
