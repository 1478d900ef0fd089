------------------------------ MODULE MCLiveness ----------------------------
(***************************************************************************)
(* What must happen at last in three components that share no state: every *)
(* behaviour is one of the component that active names, under its own      *)
(* fairness, the others resting in their initial state.                    *)
(***************************************************************************)
EXTENDS NodeAgent, AuditExport, BurstCapacity

VARIABLE active

liveVars == <<active, vars, exportVars, burstVars>>

LiveInit ==
    /\ active \in {"agent", "export", "burst"}
    /\ Init /\ BurstInit /\ ExportInit /\ (active # "export" => max_events = 1)

LiveNext ==
    \/ active = "agent" /\ Next /\ UNCHANGED <<active, exportVars, burstVars>>
    \/ active = "export" /\ ExportNext /\ UNCHANGED <<active, vars, burstVars>>
    \/ active = "burst" /\ BurstNext /\ UNCHANGED <<active, vars, exportVars>>

LiveSpec ==
    /\ LiveInit /\ [][LiveNext]_liveVars
    /\ Fairness /\ BurstFairness
    /\ WF_exportVars(active = "export" /\ \E e \in Exporter : JobStep(e))
=============================================================================
