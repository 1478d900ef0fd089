---------------------------- MODULE PolicyKernel ----------------------------
(***************************************************************************)
(* The policy kernel (governance/policy.py): it puts signed releases of    *)
(* the governance policy in force.  Which one is in force is in memory     *)
(* only.                                                                   *)
(***************************************************************************)
EXTENDS Naturals, Sequences

CONSTANTS
    Release,      \* releases, records: sequence, from, until, canonical
    MaxMonth,     \* bound on the clock
    MaxStarts     \* bound on starts of the kernel

ASSUME PolicyKernelAssumption ==
    /\ MaxMonth \in Nat /\ MaxStarts \in Nat
    /\ \A p \in Release : /\ p.from \in Nat /\ p.until \in Nat /\ p.sequence \in Nat
                          /\ p.from < p.until /\ p.sequence >= 1

VARIABLES
    month,        \* the clock
    starts,
    in_force,     \* _active, or NoRelease
    activations   \* the releases put in force: which, when and in which start of the kernel

policyVars == <<month, starts, in_force, activations>>

NoRelease == [sequence |-> 0, from |-> 0, until |-> 0, canonical |-> TRUE]

-----------------------------------------------------------------------------

\* Mutant: a release of the sequence in force is taken again.
MutAdvances(p) == p.sequence >= in_force.sequence

Advances(p) == p.sequence > in_force.sequence

\* verify_and_activate, of a release that the principal may activate, that is approved and
\* that a known signer has signed.
ActivateRelease(p) ==
    /\ p.canonical
    /\ p.from <= month /\ month < p.until
    /\ Advances(p)
    /\ in_force' = p
    /\ activations' = Append(activations, [of |-> p, at |-> month, start |-> starts])
    /\ UNCHANGED <<month, starts>>

MonthPasses ==
    /\ month < MaxMonth
    /\ month' = month + 1
    /\ UNCHANGED <<starts, in_force, activations>>

KernelRestarts ==
    /\ starts < MaxStarts
    /\ starts' = starts + 1
    /\ in_force' = NoRelease
    /\ UNCHANGED <<month, activations>>

-----------------------------------------------------------------------------

PolicyInit == month = 0 /\ starts = 1 /\ in_force = NoRelease /\ activations = << >>

PolicyNext == (\E p \in Release : ActivateRelease(p)) \/ MonthPasses \/ KernelRestarts

PolicySpec == PolicyInit /\ [][PolicyNext]_policyVars

-----------------------------------------------------------------------------
(* Properties.                                                             *)

\* Policy never goes back, nor is the same release put in force again, while the kernel
\* runs.  After a restart it may go back, but never to a release that had expired when
\* the one that replaced it was put in force.
PolicyNeverGoesBack ==
    \A i, j \in DOMAIN activations :
        LET a == activations[i]
            b == activations[j]
        IN  i < j /\ b.of.sequence <= a.of.sequence => a.start # b.start /\ a.at < b.of.until
=============================================================================
