---------------------------- MODULE NodeAdmission ---------------------------
(***************************************************************************)
(* Who may have which job run on which node: the lease that authorises a   *)
(* request of the operator API (gateway/auth.py, nodes_api.py), the        *)
(* approvals minted from it (authority/node_approvals.py), the scopes of a *)
(* node's grant (nodes/scopes.py), and the admission that reads them all   *)
(* (NodeRegistry.select_node), for jobs that a workflow runs and for jobs  *)
(* given to NodeDispatchService.run_job directly.  A path is the sequence  *)
(* of its parts; fs.read stands for fs.list as well, which has its scope.  *)
(***************************************************************************)
EXTENDS Naturals, Sequences, FiniteSets, SequencesExt

CONSTANTS
    Node, Request, ApprovalId,
    Grant,          \* node -> the capabilities granted to it and declared by it
    Roots,          \* node -> the roots of its file scopes, a sequence of paths
    Ttl,            \* lifetime of an approval
    LeaseTime,      \* lifetime of a lease
    MaxJobs, MaxNow, MaxLeases, MaxTurns

ASSUME NodeAdmissionAssumption ==
    {Ttl, LeaseTime, MaxJobs, MaxNow, MaxLeases, MaxTurns} \subseteq Nat

VARIABLES
    now,
    lease,        \* the lease now in force: its number, its expiry; 0 when there is none
    leases,       \* how many were issued
    status,       \* node -> "online", "offline", "quarantined" or "revoked"
    halted,       \* dispatch is frozen
    approvals,    \* the approvals issued
    used,         \* _spent of the verifier
    boots,        \* how often the control plane was started again
    turns,        \* how often the world changed: a node, the freeze, the lease, the process
    ask,          \* job -> where it is
    frames        \* the dispatch frames written

admissionVars == <<now, lease, leases, status, halted, approvals, used, boots, turns, ask, frames>>

NoNode == "any"
NoApproval == "no approval"
NoLease == [id |-> 0, until |-> 0]

LeaseLive == lease.id # 0 /\ now < lease.until

-----------------------------------------------------------------------------
(* Scopes.                                                                 *)

\* Mutant: a ".." at the top is dropped.
MutStep(done, part) ==
    CASE part = "." -> done
      [] part = ".." /\ done.path # <<>> -> [done EXCEPT !.path = Front(@)]
      [] part = ".." -> done
      [] OTHER -> [done EXCEPT !.path = Append(@, part)]

\* One part of the loop of normalize_path.
Step(done, part) ==
    CASE part = "." \/ ~done.ok -> done
      [] part = ".." /\ done.path # <<>> -> [done EXCEPT !.path = Front(@)]
      [] part = ".." -> [done EXCEPT !.ok = FALSE]
      [] OTHER -> [done EXCEPT !.path = Append(@, part)]

NormalizePath(raw) == FoldLeft(Step, [ok |-> TRUE, path |-> <<>>], raw)

\* is_within, part by part.
Within(root, path) == IsPrefix(root, path)

\* resolve of the read and of the write scope: a path that cannot be normalised is
\* invalid, one outside every root is not granted, and a root itself is not written to.
Resolve(n, c, raw) ==
    LET p == NormalizePath(raw)
        i == SelectInSeq(Roots[n], LAMBDA root : Within(root, p.path))
    IN  CASE ~p.ok -> "invalid"
          [] p.ok /\ i = 0 -> "not granted"
          [] p.ok /\ i > 0 /\ c = "fs.write" /\ p.path = Roots[n][i] -> "invalid"
          [] OTHER -> "ok"

\* assert_scoped_dispatch, of parameters that have a path or not.
Scoped(n, c, raw, given) == IF given THEN Resolve(n, c, raw) ELSE "invalid"

RequiresScope(c) == c \in {"fs.read", "fs.write"}
RequiresApproval(c) == c = "fs.write"

\* file_write_action_digest: the node, the path as it was given, the bytes and the mode.
Digest(n, r) == [node |-> n, path |-> r.path, content |-> r.content]

-----------------------------------------------------------------------------
(* The authority.                                                          *)

\* The commander authenticates: a new lease replaces the old one (lease_verify).
GiveLease ==
    /\ leases < MaxLeases /\ leases' = leases + 1
    /\ lease' = [id |-> leases', until |-> now + LeaseTime]
    /\ UNCHANGED <<now, status, halted, approvals, used, boots, turns, ask, frames>>

\* The authority is frozen, and its lease revoked.
RevokeLease ==
    /\ turns < MaxTurns /\ turns' = turns + 1 /\ lease # NoLease /\ lease' = NoLease
    /\ UNCHANGED <<now, leases, status, halted, approvals, used, boots, ask, frames>>

\* The expiry of an approval issued now.
Expiry == IF now + Ttl < lease.until THEN now + Ttl ELSE lease.until

\* NodeApprovalIssuer.issue, for one request on one node.
IssueApproval(a, n, r) ==
    /\ LeaseLive
    /\ RequiresApproval(r.capability) /\ \A x \in approvals : x.id # a
    /\ approvals' = approvals \cup
         {[id |-> a, digest |-> Digest(n, r), from |-> now, until |-> Expiry,
           lease |-> lease.id, leaseUntil |-> lease.until]}
    /\ UNCHANGED <<now, lease, leases, status, halted, used, boots, turns, ask, frames>>

TimePasses ==
    /\ now < MaxNow /\ now' = now + 1
    /\ UNCHANGED <<lease, leases, status, halted, approvals, used, boots, turns, ask, frames>>

-----------------------------------------------------------------------------
(* Admission.                                                              *)

\* Refusals that are retried, and refusals that are not (is_permanent_refusal), of
\* assert_dispatchable up to the approval; "none" when there is no refusal.
Barred(n, r, given) ==
    LET scope == Scoped(n, r.capability, r.path, given) IN
    CASE halted \/ status[n] = "revoked" -> "permanent"
      [] status[n] = "quarantined" -> "transient"
      [] r.capability \notin Grant[n] -> "permanent"
      [] RequiresScope(r.capability) /\ scope = "invalid" -> "transient"
      [] RequiresScope(r.capability) /\ scope = "not granted" -> "permanent"
      [] OTHER -> "none"

\* NodeApprovalVerifier.verify
ApprovalHolds(a, n, r) ==
    a \notin used /\ \E x \in approvals :
        x.id = a /\ x.digest = Digest(n, r) /\ x.from <= now /\ now < x.until

\* _assert_approved; what verify raises is retried, the lack of an approval is not.
Unapproved(a, n, r) ==
    CASE ~RequiresApproval(r.capability) -> "none"
      [] a = NoApproval -> "permanent"
      [] ~ApprovalHolds(a, n, r) -> "transient"
      [] OTHER -> "none"

\* The nodes among which select_node chooses when the request names none.  Their loads
\* are what they last reported, so any may be the least loaded.
Eligible(r, given) ==
    {n \in Node : /\ ~halted /\ status[n] = "online" /\ r.capability \in Grant[n]
                  /\ RequiresScope(r.capability) => Scoped(n, r.capability, r.path, given) = "ok"}

\* Why there is none: no node online offers the capability, or none has the scope.
NoneEligible(r) ==
    IF halted \/ \E n \in Node : status[n] = "online" /\ r.capability \in Grant[n]
    THEN "permanent" ELSE "transient"

AdmittedJob == 1 .. MaxJobs
NotAsked == [pc |-> "idle"]
Ended == [pc |-> "ended"]

\* Jobs are numbered as they are asked for.
NextJob(j) == ask[j] = NotAsked /\ \A i \in 1 .. j - 1 : ask[i] # NotAsked

\* An attempt is refused; a workflow makes a second one of what may change.
Refuse(j, why) ==
    ask' = [ask EXCEPT ![j] = IF why = "transient" /\ @.via = "workflow" /\ @.attempt = 1
                              THEN [@ EXCEPT !.attempt = 2, !.pc = ask[j].stage]
                              ELSE Ended]

\* ProductionLeaseAuthorizer.authorize: the grant of lease g is good while g is in force.
GrantHolds(g) == LeaseLive /\ g = lease.id

\* start_job, up to its authorization.
AuthorizeJob(j, r, g) ==
    /\ NextJob(j) /\ GrantHolds(g)
    /\ ask' = [ask EXCEPT ![j] = [pc |-> "authorized", stage |-> "select", via |-> "workflow",
                                  request |-> r, node |-> r.node, approval |-> NoApproval,
                                  attempt |-> 1, at |-> 0]]
    /\ UNCHANGED <<now, lease, leases, status, halted, approvals, used, boots, turns, frames>>

\* The rest of start_job: the workflow is started unless dispatch is frozen.
StartWorkflow(j) ==
    /\ ask[j].pc = "authorized"
    /\ ask' = [ask EXCEPT ![j] = IF halted THEN Ended ELSE [@ EXCEPT !.pc = "select"]]
    /\ UNCHANGED <<now, lease, leases, status, halted, approvals, used, boots, turns, frames>>

\* run_job called in the process itself, with an approval or without.
CallRunJob(j, r, a) ==
    /\ NextJob(j) /\ (a = NoApproval \/ (RequiresApproval(r.capability) /\ \E x \in approvals : x.id = a))
    /\ ask' = [ask EXCEPT ![j] = [pc |-> "admit", stage |-> "admit", via |-> "call",
                                  request |-> r, node |-> r.node, approval |-> a,
                                  attempt |-> 1, at |-> 0]]
    /\ UNCHANGED <<now, lease, leases, status, halted, approvals, used, boots, turns, frames>>

\* NodeRegistry.select_node, with the parameters of the request or without them.  The
\* approval is spent before the node is seen to be offline.
SelectNode(j, given, then) ==
    LET k == ask[j] r == k.request IN
    IF k.node = NoNode /\ Eligible(r, given) = {}
    THEN Refuse(j, NoneEligible(r)) /\ UNCHANGED used
    ELSE \E n \in IF k.node = NoNode THEN Eligible(r, given) ELSE {k.node} :
        LET why == IF Barred(n, r, given) # "none" THEN Barred(n, r, given)
                   ELSE Unapproved(k.approval, n, r) IN
        IF why # "none" THEN Refuse(j, why) /\ UNCHANGED used
        ELSE /\ used' = IF RequiresApproval(r.capability) THEN used \cup {k.approval} ELSE used
             /\ IF status[n] # "online" THEN Refuse(j, "transient")
                ELSE ask' = [ask EXCEPT ![j] = [k EXCEPT !.node = n, !.pc = then, !.at = now,
                                !.stage = IF then = "admit" THEN "admit" ELSE @,
                                !.attempt = IF then = "admit" THEN 1 ELSE @]]

\* The activity that pins the node of a workflow: select_node without parameters.
SelectActivity(j) ==
    /\ ask[j].pc = "select" /\ SelectNode(j, FALSE, "admit")
    /\ UNCHANGED <<now, lease, leases, status, halted, approvals, boots, turns, frames>>

\* Mutant: the approval is not spent.
MutAdmit(j) ==
    /\ ask[j].pc = "admit"
    /\ \E n \in Node : ask[j].node \in {n, NoNode} /\ Unapproved(ask[j].approval, n, ask[j].request) = "none"
          /\ Barred(n, ask[j].request, TRUE) = "none"
          /\ ask' = [ask EXCEPT ![j].pc = "recheck", ![j].node = n, ![j].at = now]
    /\ UNCHANGED <<now, lease, leases, status, halted, approvals, used, boots, turns, frames>>

\* run_job, up to the node admitted.
Admit(j) ==
    /\ ask[j].pc = "admit" /\ SelectNode(j, TRUE, "recheck")
    /\ UNCHANGED <<now, lease, leases, status, halted, approvals, boots, turns, frames>>

\* run_job, from there to the frame: dispatch must not be frozen, and the node have a
\* session in this process (NodeDispatch has the sessions; here there may be one or not).
WriteFrame(j) ==
    LET k == ask[j] IN
    /\ k.pc = "recheck" /\ ~halted
    /\ frames' = frames \cup {[job |-> j, attempt |-> k.attempt, boot |-> boots,
                               node |-> k.node, request |-> k.request, via |-> k.via,
                               approval |-> k.approval, at |-> k.at]}
    /\ ask' = [ask EXCEPT ![j].pc = "sent"]
    /\ UNCHANGED <<now, lease, leases, status, halted, approvals, used, boots, turns>>
NoFrame(j) ==
    /\ ask[j].pc = "recheck" /\ Refuse(j, IF halted THEN "permanent" ELSE "transient")
    /\ UNCHANGED <<now, lease, leases, status, halted, approvals, used, boots, turns, frames>>

\* The outcome comes (a failure, when the session of a call is lost), or the session is
\* lost and the attempt of a workflow fails.
JobAnswers(j) ==
    /\ ask[j].pc = "sent" /\ ask' = [ask EXCEPT ![j] = Ended]
    /\ UNCHANGED <<now, lease, leases, status, halted, approvals, used, boots, turns, frames>>
SessionLost(j) ==
    /\ ask[j].pc = "sent" /\ ask[j].via = "workflow" /\ Refuse(j, "transient")
    /\ UNCHANGED <<now, lease, leases, status, halted, approvals, used, boots, turns, frames>>

\* What NodeRegistry does, as admission sees it: state_of and the dispatch control.
NodeChanges(n) ==
    /\ status[n] # "revoked" /\ turns < MaxTurns /\ turns' = turns + 1
    /\ \E s \in {"online", "offline", "quarantined", "revoked"} \ {status[n]} :
          status' = [status EXCEPT ![n] = s]
    /\ UNCHANGED <<now, lease, leases, halted, approvals, used, boots, ask, frames>>
FreezeChanges ==
    /\ turns < MaxTurns /\ turns' = turns + 1 /\ halted' = ~halted
    /\ UNCHANGED <<now, lease, leases, status, approvals, used, boots, ask, frames>>

\* The control plane stops and starts: _spent is empty, calls are gone, and the attempts
\* of the workflows time out.
ControlPlaneRestarts ==
    /\ turns < MaxTurns /\ turns' = turns + 1 /\ boots' = boots + 1 /\ used' = {}
    /\ ask' = [j \in AdmittedJob |->
         CASE ask[j].pc \in {"idle", "ended"} -> ask[j]
           [] ask[j].pc = "authorized" \/ ask[j].via = "call" \/ ask[j].attempt = 2 ->
                Ended
           [] OTHER -> [ask[j] EXCEPT !.attempt = 2, !.pc = ask[j].stage]]
    /\ UNCHANGED <<now, lease, leases, status, halted, approvals, frames>>

AdmissionInit ==
    /\ turns = 0 /\ now = 0 /\ lease = NoLease /\ leases = 0 /\ status = [n \in Node |-> "online"]
    /\ halted = FALSE /\ approvals = {} /\ used = {} /\ boots = 0
    /\ ask = [j \in AdmittedJob |-> NotAsked] /\ frames = {}

AdmissionNext ==
    \/ GiveLease \/ RevokeLease \/ TimePasses \/ FreezeChanges \/ ControlPlaneRestarts
    \/ \E n \in Node : NodeChanges(n)
    \/ \E a \in ApprovalId, n \in Node, r \in Request : IssueApproval(a, n, r)
    \/ \E j \in AdmittedJob :
         \/ \E r \in Request :
              \/ \E g \in 1 .. leases : AuthorizeJob(j, r, g)
              \/ \E a \in ApprovalId \cup {NoApproval} : CallRunJob(j, r, a)
         \/ StartWorkflow(j) \/ SelectActivity(j) \/ Admit(j)
         \/ WriteFrame(j) \/ NoFrame(j) \/ JobAnswers(j) \/ SessionLost(j)

AdmissionSpec == AdmissionInit /\ [][AdmissionNext]_admissionVars

-----------------------------------------------------------------------------
(* Properties.                                                             *)

ApprovalsOf(f) == {x \in approvals : x.id = f.approval}

\* One approval has at most one frame written in the life of one process, whatever is
\* retried or called again ("spends them exactly once"); after a restart it may again,
\* _spent being in memory.  And a write was admitted on an approval of exactly this action
\* on this node, before the term of the lease that backed the approval (what verify cannot
\* see is a lease revoked before its term).
ApprovalOncePerBoot ==
    \A f \in frames :
        /\ f.approval # NoApproval =>
             \A g \in frames : g.approval = f.approval /\ g.boot = f.boot => f = g
        /\ RequiresApproval(f.request.capability) =>
             \E x \in ApprovalsOf(f) : x.digest = Digest(f.node, f.request) /\ f.at < x.leaseUntil

\* Reference: the parts of a path that no later ".." takes away.  Part i is taken by the
\* first j after it with as many ".." as names in between.
Takes(raw, i, j) ==
    LET names(a, b) == Cardinality({k \in a .. b : raw[k] \notin {".", ".."}})
        ups(a, b) == Cardinality({k \in a .. b : raw[k] = ".."})
    IN  /\ raw[j] = ".." /\ ups(i, j) = names(i, j)
        /\ \A k \in i .. j - 1 : ups(i, k) < names(i, k)
Kept(raw) ==
    {i \in DOMAIN raw : /\ raw[i] \notin {".", ".."}
                        /\ ~\E j \in i + 1 .. Len(raw) : Takes(raw, i, j)}

\* The nodes in a root of which the path of a request lies.
NodesOver ==
    [r \in Request |->
        LET raw == r.path
            kept == Kept(raw)
        IN  {n \in Node :
              /\ \A j \in DOMAIN raw : raw[j] = ".." =>
                   \E i \in 1 .. j - 1 : raw[i] \notin {".", ".."} /\ Takes(raw, i, j)
              /\ \E root \in Range(Roots[n]) : \A d \in DOMAIN root :
                   \E i \in kept : raw[i] = root[d] /\ Cardinality({h \in kept : h <= i}) = d}]

\* The file that a scoped frame names lies in a root of the node that gets it: its first
\* parts, once each ".." has taken a part away, are the root's, and no ".." is left over.
FrameInScope ==
    \A f \in frames : RequiresScope(f.request.capability) => f.node \in NodesOver[f.request]
=============================================================================
