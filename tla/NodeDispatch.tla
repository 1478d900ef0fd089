---------------------------- MODULE NodeDispatch ----------------------------
(***************************************************************************)
(* NodeDispatchService.run_job (nodes/dispatch.py) and the job side of     *)
(* NodeSession (nodes/session.py): attempts of jobs on one node, racing    *)
(* with the kill switch, with cancellation, with the loss of the session   *)
(* and with the node's answers.                                            *)
(*                                                                         *)
(* run[j][a] is the coroutine of attempt a of job j; its steps are the     *)
(* stretches between awaits.  The node is the environment: it answers any  *)
(* dispatch frame it was sent, late or never.  A frame is handled by the   *)
(* session's pump in the step in which it arrives.                         *)
(***************************************************************************)
EXTENDS Naturals, FiniteSets

CONSTANTS
    Job,
    Session,        \* successive connections of the node
    None,
    MaxAttempts,    \* NODE_JOB_ACTIVITY_MAXIMUM_ATTEMPTS
    MaxConcurrent   \* MAX_CONCURRENT_JOBS_PER_NODE

ASSUME DispatchAssumption ==
    /\ MaxAttempts \in Nat \ {0} /\ MaxConcurrent \in Nat \ {0}
    /\ None \notin Session \cup Job

VARIABLES
    run,       \* job -> attempt -> where its run_job is
    jobs,      \* NodeDispatchService._jobs: job -> status
    durable,   \* the node_jobs table: job -> status
    pend,      \* NodeSession._pending: session -> job -> the attempt that waits
    saving,    \* session -> the job whose progress its pump is writing to the table
    up,        \* the session in _sessions that is not closed
    closed,    \* sessions that were shut down
    frozen,    \* dispatch_control.frozen
    freezer,   \* where NodeDispatchService.freeze is, and the jobs it has left to cancel
    sent,      \* frames written to the node: <<kind, session, job, attempt>>
    answered   \* terminal frames the node returned: <<session, job, attempt>>

vars == <<run, jobs, durable, pend, saving, up, closed, frozen, freezer, sent, answered>>

Attempt == 1..MaxAttempts

ActiveStatuses == {"dispatched", "running"}
Statuses == ActiveStatuses \cup {"none", "completed", "failed", "cancelled"}

\* Every await of run_job at which another coroutine may run.
Waiting == {"selected", "checked", "stored", "noted", "sent", "ending"}
RunStates == Waiting \cup {"idle", "done"}

Idle == [pc |-> "idle", session |-> None, end |-> "none"]
NoPending == [attempt |-> 0, acked |-> FALSE, result |-> "none"]

InFlight(s) == {j \in Job : pend[s][j].attempt # 0}
ActiveJobIds == {j \in Job : jobs[j] \in ActiveStatuses}

Goto(j, a, pc) == run' = [run EXCEPT ![j][a].pc = pc]

\* _update: nothing is recorded for a job that _jobs does not hold.
Update(j, status) == jobs' = [jobs EXCEPT ![j] = IF @ = "none" THEN @ ELSE status]

\* The attempt ends before it has a record.
Refused(j, a, end) ==
    /\ run' = [run EXCEPT ![j][a].pc = "done", ![j][a].end = end]
    /\ UNCHANGED <<jobs, durable, pend, sent>>

\* Mutant: the record keeps its active status.
MutEndsNoUpdate(j, a, status) ==
    /\ run' = [run EXCEPT ![j][a].pc = "ending", ![j][a].end = status]
    /\ UNCHANGED <<jobs, durable>>

\* The attempt leaves dispatch_job with this status; the table follows in Persist.
Ends(j, a, status) ==
    /\ run' = [run EXCEPT ![j][a].pc = "ending", ![j][a].end = status]
    /\ Update(j, status)
    /\ UNCHANGED durable

PopPending(j, a) == pend' = [pend EXCEPT ![run[j][a].session][j] = NoPending]

\* session.cancel_job: a cancel frame for the attempt that waits, if any.
CancelFrame(j) ==
    IF up # None /\ pend[up][j].attempt # 0 THEN {<<"cancel", up, j, pend[up][j].attempt>>} ELSE {}

-----------------------------------------------------------------------------
(* Admission.                                                              *)

\* Temporal retries a failure, other than a permanent refusal, and an attempt it
\* timed out, whose coroutine may still run.
MayStart(j, a) ==
    \A b \in Attempt : b + 1 = a => run[j][b].pc # "idle" /\ run[j][b].end # "refused"

\* registry.select_node: the node row may call the node online or not, whatever
\* this process's session map says.
Select(j, a) ==
    /\ run[j][a].pc = "idle" /\ MayStart(j, a)
    /\ \/ ~frozen /\ Goto(j, a, "selected") /\ UNCHANGED <<jobs, durable, pend, sent>>
       \/ \E end \in {"failed", "refused"} : (frozen => end = "refused") /\ Refused(j, a, end)
    /\ UNCHANGED <<up, closed, frozen, freezer, answered, saving>>

\* The kill switch is read again, then the session is looked up.
Recheck(j, a) ==
    /\ run[j][a].pc = "selected"
    /\ IF frozen \/ up = None
       THEN Refused(j, a, IF frozen THEN "refused" ELSE "failed")
       ELSE /\ run' = [run EXCEPT ![j][a].pc = "checked", ![j][a].session = up]
            /\ UNCHANGED <<jobs, durable, pend, sent>>
    /\ UNCHANGED <<up, closed, frozen, freezer, answered, saving>>

\* _remember: the table first, then the map.
Store(j, a) ==
    /\ run[j][a].pc = "checked"
    /\ durable' = [durable EXCEPT ![j] = "dispatched"]
    /\ Goto(j, a, "stored")
    /\ UNCHANGED <<jobs, pend, up, closed, frozen, freezer, sent, answered, saving>>

\* Mutant: any other record may be dropped.
MutDroppableAny(j) == Job \ {j}

\* The bounded map may drop other records, terminal ones only.
Droppable(j) == {i \in Job \ {j} : jobs[i] \notin ActiveStatuses}

\* _remember, before the audit of the admission.
Note(j, a) ==
    /\ run[j][a].pc = "stored"
    /\ \E gone \in SUBSET Droppable(j) :
         jobs' = [i \in Job |-> IF i = j THEN "dispatched" ELSE IF i \in gone THEN "none" ELSE jobs[i]]
    /\ Goto(j, a, "noted")
    /\ UNCHANGED <<durable, pend, up, closed, frozen, freezer, sent, answered, saving>>

-----------------------------------------------------------------------------
(* session.dispatch_job.                                                   *)

\* Mutant: a job that is already in flight is dispatched again.
MutSendDuplicate(j, a) ==
    LET s == run[j][a].session
        refuse == s \in closed
    IN  /\ run[j][a].pc = "noted"
        /\ IF refuse
           THEN Ends(j, a, "failed") /\ UNCHANGED <<pend, sent>>
           ELSE /\ pend' = [pend EXCEPT ![s][j] = [NoPending EXCEPT !.attempt = a]]
                /\ sent' = sent \cup {<<"dispatch", s, j, a>>}
                /\ Goto(j, a, "sent")
                /\ UNCHANGED <<jobs, durable>>
        /\ UNCHANGED <<up, closed, frozen, freezer, answered, saving>>

Send(j, a) ==
    LET s == run[j][a].session
        refuse == \/ s \in closed
                  \/ j \in InFlight(s)
                  \/ Cardinality(InFlight(s)) >= MaxConcurrent
    IN  /\ run[j][a].pc = "noted"
        /\ IF refuse
           THEN Ends(j, a, "failed") /\ UNCHANGED <<pend, sent>>
           ELSE /\ pend' = [pend EXCEPT ![s][j] = [NoPending EXCEPT !.attempt = a]]
                /\ sent' = sent \cup {<<"dispatch", s, j, a>>}
                /\ Goto(j, a, "sent")
                /\ UNCHANGED <<jobs, durable>>
        /\ UNCHANGED <<up, closed, frozen, freezer, answered, saving>>

\* The result, or the exception that shutdown set.
Return(j, a) ==
    LET p == pend[run[j][a].session][j]
    IN  /\ run[j][a].pc = "sent"
        /\ p.acked /\ p.result # "none"
        /\ Ends(j, a, IF p.result = "result" THEN "completed" ELSE "failed")
        /\ PopPending(j, a)
        /\ UNCHANGED <<up, closed, frozen, freezer, sent, answered, saving>>

\* An attempt that stops waiting for its result tells the node, unless it was
\* still in _await_ack (where it may be although the acknowledgement is there).
Leaves(j, a, status) ==
    LET s == run[j][a].session
    IN  /\ Ends(j, a, status)
        /\ PopPending(j, a)
        /\ \/ UNCHANGED sent
           \/ pend[s][j].acked /\ s \notin closed /\ sent' = sent \cup {<<"cancel", s, j, a>>}

\* The frame could not be written, or the acknowledgement or the deadline timed
\* out; a timeout may overtake the result that woke the coroutine.
TimesOut(j, a) ==
    /\ run[j][a].pc = "sent"
    /\ Leaves(j, a, "failed")
    /\ UNCHANGED <<up, closed, frozen, freezer, answered, saving>>

\* _update's own write, and the closing audit event.
Persist(j, a) ==
    /\ run[j][a].pc = "ending"
    /\ durable' = [durable EXCEPT ![j] = IF jobs[j] = "none" THEN @ ELSE run[j][a].end]
    /\ Goto(j, a, "done")
    /\ UNCHANGED <<jobs, pend, up, closed, frozen, freezer, sent, answered, saving>>

\* Temporal cancels the activity: CancelledError is raised at the await where the
\* coroutine is.  Only dispatch_job is inside the try that updates the record.
CancelAttempt(j, a) ==
    /\ run[j][a].pc \in Waiting
    /\ IF run[j][a].pc = "sent" THEN Leaves(j, a, "cancelled") ELSE Refused(j, a, "cancelled")
    /\ UNCHANGED <<up, closed, frozen, freezer, answered, saving>>

-----------------------------------------------------------------------------
(* The node and its session.                                               *)

\* The pump of the live session receives a frame about a dispatched attempt; it
\* handles one frame at a time.
Dispatched(s, j, a) == s = up /\ saving[s] = None /\ <<"dispatch", s, j, a>> \in sent

NodeAcks(s, j, a) ==
    /\ Dispatched(s, j, a)
    /\ pend[s][j].attempt = a /\ ~pend[s][j].acked
    /\ pend' = [pend EXCEPT ![s][j].acked = TRUE]
    /\ UNCHANGED <<run, jobs, durable, up, closed, frozen, freezer, sent, answered, saving>>

\* Progress of the attempt that waits marks the record; the table follows.
NodeProgress(s, j, a) ==
    /\ Dispatched(s, j, a)
    /\ pend[s][j].attempt = a /\ jobs[j] # "none"
    /\ Update(j, "running")
    /\ saving' = [saving EXCEPT ![s] = j]
    /\ UNCHANGED <<run, durable, pend, up, closed, frozen, freezer, sent, answered>>

SaveProgress(s) ==
    /\ saving[s] # None
    /\ durable' = [durable EXCEPT ![saving[s]] = "running"]
    /\ saving' = [saving EXCEPT ![s] = None]
    /\ UNCHANGED <<run, jobs, pend, up, closed, frozen, freezer, sent, answered>>

\* Mutant: a result is matched to the job only.
MutResultAnyAttempt(s, j, a) ==
    /\ Dispatched(s, j, a)
    /\ answered' = answered \cup {<<s, j, a>>}
    /\ pend' = IF pend[s][j].attempt # 0 /\ pend[s][j].result = "none"
               THEN [pend EXCEPT ![s][j].acked = TRUE, ![s][j].result = "result"]
               ELSE pend
    /\ UNCHANGED <<run, jobs, durable, up, closed, frozen, freezer, sent, saving>>

\* A terminal frame counts only for the attempt that waits.
NodeResult(s, j, a) ==
    /\ Dispatched(s, j, a)
    /\ answered' = answered \cup {<<s, j, a>>}
    /\ pend' = IF pend[s][j].attempt = a /\ pend[s][j].result = "none"
               THEN [pend EXCEPT ![s][j].acked = TRUE, ![s][j].result = "result"]
               ELSE pend
    /\ UNCHANGED <<run, jobs, durable, up, closed, frozen, freezer, sent, saving>>

\* Mutant: the futures of the waiting jobs are left alone.
MutShutdownNoFutures(s) == pend

\* shutdown fails every job that still waits on the session.
ShutdownPending(s) ==
    [pend EXCEPT ![s] = [j \in Job |->
        IF @[j].attempt = 0 THEN @[j]
        ELSE [@[j] EXCEPT !.acked = TRUE, !.result = IF @ = "none" THEN "closed" ELSE @]]]

CloseSession ==
    /\ up # None
    /\ pend' = ShutdownPending(up)
    /\ closed' = closed \cup {up}
    /\ up' = None
    /\ UNCHANGED <<run, jobs, durable, frozen, freezer, sent, answered, saving>>

\* A new session displaces the one in the map.
Connect(s) ==
    /\ s \notin closed /\ s # up
    /\ up' = s
    /\ closed' = IF up = None THEN closed ELSE closed \cup {up}
    /\ pend' = IF up = None THEN pend ELSE ShutdownPending(up)
    /\ UNCHANGED <<run, jobs, durable, frozen, freezer, sent, answered, saving>>

-----------------------------------------------------------------------------
(* The kill switch, and operator cancellation.                             *)

\* freeze_dispatch commits; a repeated freeze changes nothing and scans again.
FreezeCommits ==
    /\ freezer.pc \in {"idle", "returned"}
    /\ frozen' = TRUE
    /\ freezer' = [pc |-> "committed", todo |-> {}]
    /\ UNCHANGED <<run, jobs, durable, pend, up, closed, sent, answered, saving>>

FreezeScans ==
    /\ freezer.pc = "committed"
    /\ freezer' = [pc |-> IF ActiveJobIds = {} THEN "returned" ELSE "cancelling",
                   todo |-> ActiveJobIds]
    /\ UNCHANGED <<run, jobs, durable, pend, up, closed, frozen, sent, answered, saving>>

FreezeCancels(j) ==
    /\ freezer.pc = "cancelling" /\ j \in freezer.todo
    /\ sent' = sent \cup CancelFrame(j)
    /\ freezer' = [pc |-> IF freezer.todo = {j} THEN "returned" ELSE "cancelling",
                   todo |-> freezer.todo \ {j}]
    /\ UNCHANGED <<run, jobs, durable, pend, up, closed, frozen, answered, saving>>

Unfreeze ==
    /\ frozen
    /\ frozen' = FALSE
    /\ UNCHANGED <<run, jobs, durable, pend, up, closed, freezer, sent, answered, saving>>

CancelJob(j) ==
    /\ sent' = sent \cup CancelFrame(j)
    /\ UNCHANGED <<run, jobs, durable, pend, up, closed, frozen, freezer, answered, saving>>

\* The process restarts: every coroutine and session is gone, Temporal sees its
\* attempts fail, and recover_after_restart closes the rows still active.
Restart ==
    /\ run' = [j \in Job |-> [a \in Attempt |->
         IF run[j][a].pc \in Waiting
         THEN [run[j][a] EXCEPT !.pc = "done", !.end = "failed"] ELSE run[j][a]]]
    /\ jobs' = [j \in Job |-> "none"]
    /\ durable' = [j \in Job |-> IF durable[j] \in ActiveStatuses THEN "failed" ELSE durable[j]]
    /\ pend' = [s \in Session |-> [j \in Job |-> NoPending]]
    /\ saving' = [s \in Session |-> None]
    /\ up' = None
    /\ closed' = closed \cup ({up} \ {None})
    /\ freezer' = [pc |-> "idle", todo |-> {}]
    /\ UNCHANGED <<frozen, sent, answered>>

-----------------------------------------------------------------------------

Init ==
    /\ run = [j \in Job |-> [a \in Attempt |-> Idle]]
    /\ jobs = [j \in Job |-> "none"]
    /\ durable = [j \in Job |-> "none"]
    /\ pend = [s \in Session |-> [j \in Job |-> NoPending]]
    /\ saving = [s \in Session |-> None]
    /\ up = None
    /\ closed = {}
    /\ frozen = FALSE
    /\ freezer = [pc |-> "idle", todo |-> {}]
    /\ sent = {}
    /\ answered = {}

Next ==
    \/ \E j \in Job, a \in Attempt :
         \/ Select(j, a) \/ Recheck(j, a) \/ Store(j, a) \/ Note(j, a) \/ Send(j, a)
         \/ Return(j, a) \/ TimesOut(j, a) \/ Persist(j, a) \/ CancelAttempt(j, a)
    \/ \E s \in Session, j \in Job, a \in Attempt :
         NodeAcks(s, j, a) \/ NodeProgress(s, j, a) \/ NodeResult(s, j, a)
    \/ CloseSession
    \/ \E s \in Session : Connect(s) \/ SaveProgress(s)
    \/ FreezeCommits \/ FreezeScans \/ Unfreeze
    \/ \E j \in Job : FreezeCancels(j) \/ CancelJob(j)
    \/ Restart

Spec == Init /\ [][Next]_vars

\* The event loop resumes every coroutine that can run.  Nothing is assumed of
\* the node, of timeouts or of Temporal.
FairSpec ==
    /\ Spec
    /\ \A j \in Job, a \in Attempt :
         WF_vars(\/ Recheck(j, a) \/ Store(j, a) \/ Note(j, a)
                 \/ Send(j, a) \/ Return(j, a) \/ Persist(j, a))

-----------------------------------------------------------------------------
(* Properties.                                                             *)

\* "A node may only terminate the exact attempt and content identity it was
\* given" (_handle): an attempt completes only when the node answered that
\* attempt, on the session it was dispatched on; a late answer to an earlier
\* attempt, or one from an earlier connection, never completes it.
CompletedWasAnswered ==
    \A j \in Job, a \in Attempt :
        run[j][a].end = "completed" => <<run[j][a].session, j, a>> \in answered

\* What a session waits for and who waits for it agree: every pending entry
\* belongs to the one coroutine that is inside dispatch_job for it, and that
\* coroutine's entry is never taken by another attempt.
PendingHasWaiter ==
    \A s \in Session, j \in Job, a \in Attempt :
        pend[s][j].attempt = a <=> (run[j][a].pc = "sent" /\ run[j][a].session = s)

\* A job that a session waits for is among active_job_ids, so that freeze and
\* revoke_node find it to cancel it, unless another attempt of the job ended
\* and closed the record they share.
PendingIsActive ==
    \A s \in Session : \A j \in InFlight(s) :
        \/ j \in ActiveJobIds
        \/ \E b \in Attempt \ {pend[s][j].attempt} : run[j][b].end # "none"

\* "Freeze the mesh and stop every job already in flight" (freeze): once freeze
\* has returned and while the mesh stays frozen, every job a live session waits
\* for has been sent its cancel frame.
FreezeStopsInFlight ==
    frozen /\ freezer.pc = "returned" /\ up # None =>
        \A j \in InFlight(up) : <<"cancel", up, j, pend[up][j].attempt>> \in sent

\* "every job here exists because a Temporal activity is awaiting its outcome"
\* (NodeDispatchService): an active record has a run_job behind it.  The one
\* exception is an attempt cancelled before its frame was written, outside the
\* try of run_job.
ActiveRecordIsAwaited ==
    \A j \in ActiveJobIds : \E a \in Attempt :
        run[j][a].pc \in Waiting \/ run[j][a].end = "cancelled"

\* The loss of a session releases the attempts that wait on it, without waiting
\* for their deadlines (shutdown fails their futures).
ClosedSessionReleases ==
    \A s \in Session, j \in Job : (s \in closed /\ j \in InFlight(s)) ~> (j \notin InFlight(s))
=============================================================================
