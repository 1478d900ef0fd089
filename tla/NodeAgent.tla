------------------------------ MODULE NodeAgent -----------------------------
(***************************************************************************)
(* The node's side of job execution (node_agent/agent.py): the ledger of   *)
(* terminal results, the jobs in progress, attempts that join a job in     *)
(* progress, cancellation, loss of the connection and restarts.            *)
(*                                                                         *)
(* A job is named by its dedupe key, which covers the job id, so that      *)
(* dispatches of one key differ in their attempt only.  The control plane  *)
(* is the environment: it dispatches each attempt once and cancels at will *)
(* while the connection is up.                                             *)
(*                                                                         *)
(* What a provider does is not modelled beyond its outcome: a thread that  *)
(* a cancelled task abandons goes on unseen.                               *)
(***************************************************************************)
EXTENDS Naturals, FiniteSets, SequencesExt

CONSTANTS
    Key,        \* dedupe keys
    MaxAttempts,
    Capacity,   \* LEDGER_CAPACITY
    MaxFaultyWrites, \* bound on the writes of the ledger file that fail
    Yielding    \* whether the receive loop always yields between two frames, so that
                \* a task it created takes its first step before the next frame

ASSUME AgentAssumption ==
    /\ MaxAttempts \in Nat \ {0} /\ Capacity \in Nat \ {0} /\ MaxFaultyWrites \in Nat
    /\ Yielding \in BOOLEAN

VARIABLES
    up,        \* the session is open
    job,       \* _running: key -> where its task is, and the attempts that wait for it
    ledger,    \* _ResultLedger._entries, the least recently used first
    disk,      \* the ledger file
    out,       \* _outbox: terminal frames to send
    asked,     \* attempts accepted in this session
    seen,      \* attempts dispatched so far
    returned,  \* terminal frames the control plane received
    unheard    \* attempts that waited for a job whose record could not be written

vars == <<up, job, ledger, disk, out, asked, seen, returned, unheard>>

Attempt == 1..MaxAttempts
JobStates == {"none", "scheduled", "executing", "stopping", "dead"}
Outcomes == {"succeeded", "failed"}

NoJob == [pc |-> "none", waiters |-> {}]
JobResultFrame(k, a, status) == [key |-> k, attempt |-> a, status |-> status]

Recorded(k) == \E i \in 1..Len(ledger) : ledger[i].key = k
EntryOf(k) == CHOOSE e \in ToSet(ledger) : e.key = k

Without(k) == SelectSeq(ledger, LAMBDA e : e.key # k)

\* get: the entry that was used becomes the newest.
Touch(k) == Append(Without(k), EntryOf(k))

\* put: the newest entry last, the oldest ones dropped.
Put(k, status) ==
    LET all == Append(Without(k), [key |-> k, status |-> status])
    IN  SubSeq(all, 1 + IF Len(all) > Capacity THEN Len(all) - Capacity ELSE 0, Len(all))

-----------------------------------------------------------------------------
(* Frames from the control plane.                                          *)

Receives ==
    /\ up
    /\ Yielding => \A k \in Key : job[k].pc # "scheduled"

\* The attempts of a key are numbered in the order in which they arrive.
Arrives(k, a) == <<k, a>> \notin seen /\ \A b \in 1..(a - 1) : <<k, b>> \in seen

\* The capability is not granted in this session: a terminal frame and no job.
Reject(k, a) ==
    /\ Receives /\ Arrives(k, a)
    /\ seen' = seen \cup {<<k, a>>}
    /\ asked' = asked \cup {<<k, a>>}
    /\ out' = out \cup {JobResultFrame(k, a, "rejected")}
    /\ UNCHANGED <<up, job, ledger, disk, returned, unheard>>

\* Mutant: the attempt that joins a job in progress is not remembered.
MutAcceptForgetsJoiner(k, a) ==
    /\ Receives /\ Arrives(k, a)
    /\ seen' = seen \cup {<<k, a>>}
    /\ asked' = asked \cup {<<k, a>>}
    /\ IF Recorded(k)
       THEN /\ ledger' = Touch(k)
            /\ out' = out \cup {JobResultFrame(k, a, EntryOf(k).status)}
            /\ UNCHANGED job
       ELSE /\ job' = IF job[k].pc = "none"
                      THEN [job EXCEPT ![k] = [pc |-> "scheduled", waiters |-> {a}]] ELSE job
            /\ UNCHANGED <<ledger, out>>
    /\ UNCHANGED <<up, disk, returned, unheard>>

\* A recorded result is replayed, a job in progress is joined, and otherwise a
\* task is created.
Accept(k, a) ==
    /\ Receives /\ Arrives(k, a)
    /\ seen' = seen \cup {<<k, a>>}
    /\ asked' = asked \cup {<<k, a>>}
    /\ IF Recorded(k)
       THEN /\ ledger' = Touch(k)
            /\ out' = out \cup {JobResultFrame(k, a, EntryOf(k).status)}
            /\ UNCHANGED job
       ELSE /\ job' = [job EXCEPT ![k] = [pc |-> IF @.pc = "none" THEN "scheduled" ELSE @.pc,
                                          waiters |-> @.waiters \cup {a}]]
            /\ UNCHANGED <<ledger, out>>
    /\ UNCHANGED <<up, disk, returned, unheard>>

\* task.cancel(): a task that has not taken its first step never runs, and its
\* entry stays in _running.
Cancelled(pc) ==
    CASE pc = "scheduled" -> "dead"
      [] pc = "executing" -> "stopping"
      [] OTHER -> pc

CancelTasks(K) ==
    job' = [k \in Key |-> IF k \in K THEN [job[k] EXCEPT !.pc = Cancelled(@)] ELSE job[k]]

Cancel(k) ==
    /\ Receives
    /\ job[k].pc # "none"
    /\ CancelTasks({k})
    /\ UNCHANGED <<up, ledger, disk, out, asked, seen, returned, unheard>>

-----------------------------------------------------------------------------
(* _run_job.                                                               *)

Start(k) ==
    /\ job[k].pc = "scheduled"
    /\ job' = [job EXCEPT ![k].pc = "executing"]
    /\ UNCHANGED <<up, ledger, disk, out, asked, seen, returned, unheard>>

\* The entry is dropped and every attempt that waits gets the terminal frame.
Answer(k, status) ==
    /\ job' = [job EXCEPT ![k] = NoJob]
    /\ out' = out \cup {JobResultFrame(k, a, status) : a \in job[k].waiters}
    /\ UNCHANGED <<up, asked, seen, returned, unheard>>

\* Mutant: the ledger is not written to its file.
MutRecordNoPersist(k, status) ==
    /\ ledger' = Put(k, status)
    /\ UNCHANGED disk

Record(k, status) ==
    /\ ledger' = Put(k, status)
    /\ disk' = ledger'

\* The provider returned or raised, or the node's own deadline passed.
Finish(k) ==
    /\ job[k].pc = "executing"
    /\ \E status \in Outcomes : Record(k, status) /\ Answer(k, status)

\* The file cannot be written: put raises with the entry in memory, the task ends
\* without an answer, and its entry stays in _running.
RecordFails(k) ==
    /\ job[k].pc = "executing" /\ Cardinality(unheard) < MaxFaultyWrites
    /\ \E status \in Outcomes : ledger' = Put(k, status)
    /\ job' = [job EXCEPT ![k].pc = "dead"]
    /\ unheard' = unheard \cup {<<k, a>> : a \in job[k].waiters}
    /\ UNCHANGED <<up, disk, out, asked, seen, returned>>

\* A cancelled job answers but is not recorded.
Stop(k) ==
    /\ job[k].pc = "stopping"
    /\ Answer(k, "cancelled")
    /\ UNCHANGED <<ledger, disk>>

-----------------------------------------------------------------------------
(* The connection and the process.                                         *)

\* _sender_loop.
Deliver(f) ==
    /\ up /\ f \in out
    /\ out' = out \ {f}
    /\ returned' = returned \cup {f}
    /\ UNCHANGED <<up, job, ledger, disk, asked, seen, unheard>>

\* The channel closes: run() cancels every job.
Disconnect ==
    /\ Receives
    /\ up' = FALSE
    /\ CancelTasks(Key)
    /\ asked' = {}
    /\ UNCHANGED <<ledger, disk, out, seen, returned, unheard>>

\* run() again: frames queued for the dead session are dropped.
Reconnect ==
    /\ ~up
    /\ up' = TRUE
    /\ out' = {}
    /\ UNCHANGED <<job, ledger, disk, asked, seen, returned, unheard>>

\* The agent process is restarted and loads its ledger.
Restart ==
    /\ up' = FALSE
    /\ job' = [k \in Key |-> NoJob]
    /\ ledger' = disk
    /\ out' = {}
    /\ asked' = {}
    /\ UNCHANGED <<disk, seen, returned, unheard>>

Init ==
    /\ up = TRUE
    /\ job = [k \in Key |-> NoJob]
    /\ ledger = <<>> /\ disk = <<>>
    /\ out = {} /\ returned = {}
    /\ asked = {} /\ seen = {} /\ unheard = {}

Next ==
    \/ \E k \in Key, a \in Attempt : Reject(k, a) \/ Accept(k, a)
    \/ \E k \in Key : Cancel(k) \/ Start(k) \/ Finish(k) \/ RecordFails(k) \/ Stop(k)
    \/ \E f \in out : Deliver(f)
    \/ Disconnect \/ Reconnect \/ Restart

Spec == Init /\ [][Next]_vars

\* The task of a job goes on, since its provider ends or reaches its deadline, and the
\* sender drains the outbox.
Fairness ==
    /\ \A k \in Key : WF_vars(Start(k) \/ Finish(k) \/ Stop(k))
    /\ WF_vars(\E f \in out : Deliver(f))

FairSpec == Spec /\ Fairness

-----------------------------------------------------------------------------
(* Properties.                                                             *)

Unwritten == {x[1] : x \in unheard}

\* "a retried or replayed job returns the recorded outcome" (_ResultLedger):
\* whatever was cancelled, lost, joined or restarted in between, all attempts of
\* a key that were answered with an outcome were answered with the same one, as
\* long as the ledger has room for the keys in use and its file can be written.
AnswersAgree ==
    \A f, g \in returned :
        f.key = g.key /\ f.key \notin Unwritten /\ {f.status, g.status} \subseteq Outcomes =>
            f.status = g.status

\* "The node still returns a terminal frame" (cancel_job): an attempt that was
\* accepted is answered, cancelled or not, unless the session ends first or the
\* outcome it waited for could not be written.
AttemptIsAnswered ==
    \A k \in Key, a \in Attempt :
        <<k, a>> \in asked ~> \/ <<k, a>> \notin asked \/ <<k, a>> \in unheard
                              \/ \E f \in returned : f.key = k /\ f.attempt = a
=============================================================================
