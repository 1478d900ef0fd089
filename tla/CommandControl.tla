--------------------------- MODULE CommandControl ---------------------------
(***************************************************************************)
(* One command workflow and the controls sent to it (workflows/command.py, *)
(* control/workflow.py): a checkpoint that waits while the workflow is     *)
(* paused, the activity that compiles the graph, and the limits on time    *)
(* that Temporal enforces.  A control is signalled once per delivery of    *)
(* its Discord interaction, so that it may arrive again and out of order.  *)
(* Time passes in steps of five seconds.                                   *)
(***************************************************************************)
EXTENDS Naturals, Sequences, SequencesExt

CONSTANT Control   \* control_id of the interactions

VARIABLES
    elapsed,      \* since the execution was started
    kind,         \* what each control asks for
    flags,        \* paused, cancelled, frozen
    processed,    \* _processed: the control_ids accepted
    delivered,    \* the controls in the order of their first deliveries
    command,      \* where the execution is, or how it has ended
    passed,       \* when it left the checkpoint, and how many controls had been delivered
    attempts,     \* of the activity
    overdue          \* work that was due had to wait for a worker

commandVars == <<elapsed, kind, flags, processed, delivered, command, passed, attempts, overdue>>

ExecutionTimeout == 12   \* COMMAND_WORKFLOW_EXECUTION_TIMEOUT
CheckpointWait == 11     \* CONTROL_CHECKPOINT_WAIT_TIMEOUT
MaximumAttempts == 3     \* COMPILE_GRAPH_ACTIVITY_MAXIMUM_ATTEMPTS

\* Mutant: the activity may take as long as the workflow.
MutScheduleToClose == 12

\* COMPILE_GRAPH_ACTIVITY_SCHEDULE_TO_CLOSE_TIMEOUT
ScheduleToClose == 6

\* The control that the workflow gives itself.
WaitTimeout == "control-wait-timeout"

Running == command \in {"checkpoint", "compiling"}

-----------------------------------------------------------------------------

\* _accept: whether a control is applied.
Accepted(c) == ~Contains(processed, c)

\* pause, resume, cancel and freeze, on the flags.
Applied(f, k) ==
    CASE k = "pause" /\ ~f.cancelled /\ ~f.frozen -> [f EXCEPT !.paused = TRUE]
      [] k = "resume" /\ ~f.cancelled /\ ~f.frozen -> [f EXCEPT !.paused = FALSE]
      [] k = "cancel" /\ ~f.frozen -> [f EXCEPT !.cancelled = TRUE, !.paused = FALSE]
      [] k = "freeze" -> [f EXCEPT !.frozen = TRUE, !.paused = FALSE]
      [] OTHER -> f

\* A control reaches the workflow, for the first time or again.
Signal(c) ==
    /\ Running
    /\ flags' = IF Accepted(c) THEN Applied(flags, kind[c]) ELSE flags
    /\ processed' = IF Accepted(c) THEN Append(processed, c) ELSE processed
    /\ delivered' = IF Contains(delivered, c) THEN delivered ELSE Append(delivered, c)
    /\ UNCHANGED <<elapsed, kind, command, passed, attempts, overdue>>

\* What the workflow waits for at its checkpoint.
Released(f) == ~f.paused \/ f.cancelled \/ f.frozen

\* Mutant: what was cancelled is compiled.
MutVerdict(f) == IF f.frozen THEN "frozen" ELSE "compiling"

\* How run goes on once it is released.
Verdict(f) == IF f.frozen THEN "frozen" ELSE IF f.cancelled THEN "cancelled" ELSE "compiling"

\* wait_condition returns.
Checkpoint ==
    /\ command = "checkpoint" /\ Released(flags)
    /\ command' = Verdict(flags)
    /\ passed' = [at |-> elapsed, controls |-> Len(delivered)]
    /\ UNCHANGED <<elapsed, kind, flags, processed, delivered, attempts, overdue>>

\* wait_condition times out, and the workflow cancels itself.
CheckpointTimesOut ==
    /\ command = "checkpoint" /\ ~Released(flags) /\ elapsed >= CheckpointWait
    /\ flags' = Applied(flags, "cancel")
    /\ processed' = Append(processed, WaitTimeout)
    /\ command' = Verdict(Applied(flags, "cancel"))
    /\ passed' = [at |-> elapsed, controls |-> Len(delivered)]
    /\ UNCHANGED <<elapsed, kind, delivered, attempts, overdue>>

\* compile_graph_activity returns the graph, whatever was signalled in the meantime.
Compiles ==
    /\ command = "compiling"
    /\ command' = "compiled"
    /\ UNCHANGED <<elapsed, kind, flags, processed, delivered, passed, attempts, overdue>>

\* An attempt fails or is lost; the last one fails the workflow.
CompileFails ==
    /\ command = "compiling"
    /\ attempts' = attempts + 1
    /\ command' = IF attempts' = MaximumAttempts THEN "failed" ELSE command
    /\ UNCHANGED <<elapsed, kind, flags, processed, delivered, passed, overdue>>

\* The activity has not closed in time.
CompileTimesOut ==
    /\ command = "compiling" /\ elapsed >= passed.at + ScheduleToClose
    /\ command' = "failed"
    /\ UNCHANGED <<elapsed, kind, flags, processed, delivered, passed, attempts, overdue>>

\* The server ends the execution.
ExecutionTimesOut ==
    /\ Running /\ elapsed >= ExecutionTimeout
    /\ command' = "timed out"
    /\ UNCHANGED <<elapsed, kind, flags, processed, delivered, passed, attempts, overdue>>

\* A timer has run out, or the wait is over.
Due ==
    \/ command = "checkpoint" /\ (Released(flags) \/ elapsed >= CheckpointWait)
    \/ command = "compiling" /\ elapsed >= passed.at + ScheduleToClose

\* Five seconds pass.  Temporal fires a timer and resumes the workflow when a worker
\* is there to run it, so that what is due may be overdue.
Elapse ==
    /\ Running /\ elapsed < ExecutionTimeout
    /\ elapsed' = elapsed + 1
    /\ overdue' = (overdue \/ Due)
    /\ UNCHANGED <<kind, flags, processed, delivered, command, passed, attempts>>

-----------------------------------------------------------------------------

CommandInit ==
    /\ elapsed = 0 /\ overdue = FALSE /\ attempts = 0
    /\ kind \in [Control -> {"pause", "resume", "cancel", "freeze"}]
    /\ flags = [paused |-> FALSE, cancelled |-> FALSE, frozen |-> FALSE]
    /\ processed = <<>> /\ delivered = <<>>
    /\ command = "checkpoint" /\ passed = [at |-> 0, controls |-> 0]

CommandNext ==
    \/ \E c \in Control : Signal(c)
    \/ Checkpoint \/ CheckpointTimesOut
    \/ Compiles \/ CompileFails \/ CompileTimesOut \/ ExecutionTimesOut
    \/ Elapse

CommandSpec == CommandInit /\ [][CommandNext]_commandVars

-----------------------------------------------------------------------------
(* Properties.                                                             *)

\* A control decides how the command ends exactly when it was delivered before the
\* workflow left its checkpoint (CommandWorkflow.run): nothing is compiled after such a
\* freeze or cancel, and one that comes during the compilation changes nothing.
CheckpointDecides ==
    LET before == {kind[delivered[i]] : i \in 1..passed.controls}
    IN  /\ command = "frozen" => "freeze" \in before
        /\ command = "cancelled" =>
             "freeze" \notin before /\ ("cancel" \in before \/ Contains(processed, WaitTimeout))
        /\ command \in {"compiling", "compiled", "failed"} =>
             before \cap {"freeze", "cancel"} = {}

\* The limits on time leave every command room to end by itself: the server cuts off
\* only one that was paused for half a minute or more, or that lacked a worker.
CutOffWasPaused ==
    command = "timed out" => overdue \/ passed.at >= 6
=============================================================================
