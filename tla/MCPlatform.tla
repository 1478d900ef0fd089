------------------------------ MODULE MCPlatform ----------------------------
(***************************************************************************)
(* The components that share no state with the node mesh or with each      *)
(* other, checked in one run: every behaviour is one of the component that *)
(* active names, the others resting in an initial state.                   *)
(***************************************************************************)
EXTENDS AuditExport, OffhostBackup, Governance, EffectLedger, CommandControl,
        GraphCompiler, FileCapabilities, EmergencyLatch, NodeEnrollment,
        RootBroker, PolicyKernel, WorkerAdmission, AuditChain, TLC

VARIABLE active

platformVars == <<active, exportVars, backupVars, governanceVars, effectVars, commandVars,
                  graphVars, fileVars, latchVars, enrollVars, brokerVars, policyVars,
                  workerVars, chainVars>>

Rests(c) ==
    /\ UNCHANGED active
    /\ IF c = "export" THEN TRUE ELSE UNCHANGED exportVars
    /\ IF c = "backup" THEN TRUE ELSE UNCHANGED backupVars
    /\ IF c = "governance" THEN TRUE ELSE UNCHANGED governanceVars
    /\ IF c = "effects" THEN TRUE ELSE UNCHANGED effectVars
    /\ IF c = "command" THEN TRUE ELSE UNCHANGED commandVars
    /\ IF c = "graph" THEN TRUE ELSE UNCHANGED graphVars
    /\ IF c = "files" THEN TRUE ELSE UNCHANGED fileVars
    /\ IF c = "latch" THEN TRUE ELSE UNCHANGED latchVars
    /\ IF c = "enrollment" THEN TRUE ELSE UNCHANGED enrollVars
    /\ IF c = "broker" THEN TRUE ELSE UNCHANGED brokerVars
    /\ IF c = "policy" THEN TRUE ELSE UNCHANGED policyVars
    /\ IF c = "workers" THEN TRUE ELSE UNCHANGED workerVars
    /\ IF c = "chain" THEN TRUE ELSE UNCHANGED chainVars

PlatformInit ==
    /\ active \in {"export", "backup", "governance", "effects", "command", "graph",
                   "files", "latch", "enrollment", "broker", "policy", "workers", "chain"}
    /\ ExportInit /\ (active # "export" => max_events = 1)
    /\ BackupInit /\ (active # "backup" => policy = 2)
    /\ GovernanceInit /\ EffectInit
    /\ CommandInit /\ (active # "command" => \A c \in Control : kind[c] = "pause")
    /\ GraphInit /\ (active # "graph" => (\A n \in GraphNode : depends_on[n] = {})
                                          /\ bounds = [nodes |-> 2, fan_out |-> 1])
    /\ FileInit /\ (active # "files" => ~allow /\ entry.inside = Absent
                                        /\ \A w \in Writer : mode[w] = "create")
    /\ LatchInit /\ EnrollInit /\ BrokerInit /\ PolicyInit
    /\ WorkerInit /\ (active # "workers" => system_mode = "normal")
    /\ ChainInit /\ (active # "chain" => chain = "mesh")

PlatformNext ==
    \/ active = "export" /\ ExportNext /\ Rests("export")
    \/ active = "backup" /\ BackupNext /\ Rests("backup")
    \/ active = "governance" /\ GovernanceNext /\ Rests("governance")
    \/ active = "effects" /\ EffectNext /\ Rests("effects")
    \/ active = "command" /\ CommandNext /\ Rests("command")
    \/ active = "graph" /\ GraphNext /\ Rests("graph")
    \/ active = "files" /\ FileNext /\ Rests("files")
    \/ active = "latch" /\ LatchNext /\ Rests("latch")
    \/ active = "enrollment" /\ EnrollNext /\ Rests("enrollment")
    \/ active = "broker" /\ BrokerNext /\ Rests("broker")
    \/ active = "policy" /\ PolicyNext /\ Rests("policy")
    \/ active = "workers" /\ WorkerNext /\ Rests("workers")
    \/ active = "chain" /\ ChainNext /\ Rests("chain")

PlatformSpec == PlatformInit /\ [][PlatformNext]_platformVars

-----------------------------------------------------------------------------
(* Constants.                                                              *)

Note == [kind |-> "note", protected |-> FALSE, tainted |-> FALSE, cost |-> 1]
Pay  == [kind |-> "pay", protected |-> TRUE, tainted |-> FALSE, cost |-> 1]
Odd  == [kind |-> "pay", protected |-> TRUE, tainted |-> TRUE, cost |-> 0]
MCAction == {Note, Pay, Odd}
MCApproval == {[action |-> a, from |-> 0, until |-> 1, signed |-> TRUE] : a \in {Pay, Odd}}
MCSchedule == {[kinds |-> {"note", "pay"}, scope |-> {Note, Pay}, from |-> 0, until |-> 1,
                max_runs |-> 2, signed |-> TRUE]}
MCProof == {[epoch |-> e, from |-> 0, until |-> 1, verified |-> TRUE] : e \in {1, 2}}

MCHostRequest ==
    {[nonce |-> 1, operation |-> "service.restart", argv |-> "a", digest |-> "a", from |-> 0, until |-> 2],
     [nonce |-> 1, operation |-> "root.command.literal", argv |-> "b", digest |-> "b", from |-> 1, until |-> 3],
     [nonce |-> 2, operation |-> "root.command.literal", argv |-> "b", digest |-> "a", from |-> 1, until |-> 3]}
MCRelease == {[sequence |-> 1, from |-> 0, until |-> 2, canonical |-> TRUE],
              [sequence |-> 2, from |-> 1, until |-> 3, canonical |-> TRUE],
              [sequence |-> 3, from |-> 0, until |-> 3, canonical |-> FALSE]}

Worker(c, d, p, cpu, memory, priority) ==
    [class |-> c, worktree |-> d, prefix |-> p, cpu |-> cpu, memory |-> memory, priority |-> priority]
MCWork == {Worker("codex", 1, 1, 1, 2, 10), Worker("codex", 1, 2, 1, 1, 20),
           Worker("codex", 2, 2, 1, 1, 30), Worker("claude", 3, 1, 2, 1, 30),
           Worker("verifier", 4, 4, 2, 1, 100)}
MCConcurrency == ("codex" :> 2) @@ ("claude" :> 1) @@ ("verifier" :> 1)
MCCapacity == [cpu |-> 4, memory |-> 3]
=============================================================================
