---------------------------- MODULE NodeRegistry ----------------------------
(***************************************************************************)
(* The durable state of the node mesh and the operations of NodeRegistry   *)
(* (nodes/registry.py) on it, one action per store transaction.            *)
(*                                                                         *)
(* Here a transaction is one atomic step: that is what                     *)
(* InMemoryNodeMeshStore provides, whose single asyncio.Lock is held from  *)
(* the first read to the commit.  NodeTransactions splits the transactions *)
(* the way PostgreSQL runs them.                                           *)
(*                                                                         *)
(* Instants are abstracted to what the comparisons in the code tell apart: *)
(* a node row holds the AGE of its last heartbeat and a token row its      *)
(* remaining lifetime, and Tick moves all of them.                         *)
(***************************************************************************)
EXTENDS Naturals, FiniteSets

CONSTANTS
    Node,      \* node identifiers (node-<uuid4>)
    Token,     \* enrollment token identifiers
    Key,       \* Ed25519 public keys of the machines
    Session,   \* session identifiers (nsx-<uuid4>)
    Job,       \* job identifiers
    None,      \* an absent value
    Ttl,       \* lifetime of an enrollment token, in ticks
    Expiry,    \* heartbeat_expiry_seconds, in ticks
    Lag,       \* bound: ticks between an operation's clock read and its commit
    MaxEpoch   \* bound: freezes of one behaviour

ASSUME NoneAssumption ==
    None \notin Node \cup Token \cup Key \cup Session \cup Job
ASSUME BoundsAssumption ==
    Ttl \in Nat /\ Expiry \in Nat /\ Lag \in Nat /\ MaxEpoch \in Nat

VARIABLES
    node,      \* table nodes: node_id -> row
    token,     \* table enrollment_tokens: token_id -> row
    control,   \* the single row of dispatch_control
    job,       \* table node_jobs: job_id -> status
    audit      \* the events appended to the audit chain

vars == <<node, token, control, job, audit>>

-----------------------------------------------------------------------------
(* Rows.                                                                   *)

\* Ages above AgeCap are indistinguishable to every comparison in the code.
AgeCap == Expiry + Lag + 1

NodeRow == [key: Key \cup {None}, token: Token \cup {None},
            session: Session \cup {None}, seen: BOOLEAN, age: 0..AgeCap,
            quarantined: BOOLEAN, revoked: BOOLEAN]

TokenRow == [issued: BOOLEAN, ttl: 0..Ttl, revoked: BOOLEAN,
             consumedBy: Node \cup {None}]

NoNode == [key |-> None, token |-> None, session |-> None, seen |-> FALSE,
           age |-> 0, quarantined |-> FALSE, revoked |-> FALSE]

NoToken == [issued |-> FALSE, ttl |-> 0, revoked |-> FALSE, consumedBy |-> None]

ActiveStatuses == {"pending", "dispatched", "running"}
TerminalStatuses == {"succeeded", "failed", "cancelled", "timed_out", "rejected"}
NoJob == "none"

Known(r) == r.key # None

\* What each operation writes into a node row.
Enrolled(k, t) == [NoNode EXCEPT !.key = k, !.token = t]
Attached(r, s, lag) == [r EXCEPT !.session = s, !.seen = TRUE, !.age = lag]
Detached(r) == [r EXCEPT !.session = None]
Beaten(r, lag) == [r EXCEPT !.seen = TRUE, !.age = lag]
Quarantined(r) == [r EXCEPT !.quarantined = TRUE]
Restored(r) == [r EXCEPT !.quarantined = FALSE]
Revoked(r) == [r EXCEPT !.revoked = TRUE, !.session = None]

\* What each operation writes into a token row.
Minted == [NoToken EXCEPT !.issued = TRUE, !.ttl = Ttl]
Withdrawn(r) == [r EXCEPT !.revoked = TRUE]
Consumed(r, n) == [r EXCEPT !.consumedBy = n]

\* Audit events: an action and what it names.  The hash chain that orders
\* them is not modelled here.
Event(action, what, detail) == <<action, what, detail>>
Opened(n, s) == Event("SESSION_OPENED", n, s)
Closed(n, s) == Event("SESSION_CLOSED", n, s)
HeartbeatExpired(n, s) == Event("HEARTBEAT_EXPIRED", n, s)
Redeemed(t, n) == Event("ENROLLMENT_REDEEMED", t, n)
Frozen(e) == Event("DISPATCH_FROZEN", e, None)
Unfrozen(e) == Event("DISPATCH_UNFROZEN", e, None)
Append1(e) == audit' = audit \cup {e}

-----------------------------------------------------------------------------
(* Enrollment.                                                             *)

\* A token identifier is fresh random bytes.  A frozen mesh refuses to mint,
\* and the refusal is itself committed.
IssueToken(t) ==
    /\ ~token[t].issued
    /\ IF control.frozen
       THEN /\ Append1(Event("ENROLLMENT_ISSUE_DENIED", None, None))
            /\ UNCHANGED token
       ELSE /\ token' = [token EXCEPT ![t] = Minted]
            /\ Append1(Event("ENROLLMENT_ISSUED", t, None))
    /\ UNCHANGED <<node, control, job>>

\* An already revoked token is left alone; a consumed one is still stamped.
RevokeToken(t) ==
    /\ token[t].issued
    /\ ~token[t].revoked
    /\ token' = [token EXCEPT ![t] = Withdrawn(token[t])]
    /\ Append1(Event("ENROLLMENT_GRANT_REVOKED", t, None))
    /\ UNCHANGED <<node, control, job>>

\* inScope: the description's name, platform and kind are the token's.
EnrollmentFailure(r, inScope) ==
    CASE r.revoked -> "revoked"
      [] ~r.revoked /\ r.consumedBy # None -> "consumed"
      [] ~r.revoked /\ r.consumedBy = None /\ r.ttl = 0 -> "expired"
      [] OTHER -> IF inScope THEN "none" ELSE "scope"

\* The machine that consumed the token retries with the same key.
IsReplay(r, k) == r.consumedBy # None /\ node[r.consumedBy].key = k

RedeemToken(t, n, k, inScope) ==
    /\ token[t].issued
    /\ EnrollmentFailure(token[t], inScope) = "none"
    /\ ~Known(node[n])
    /\ node' = [node EXCEPT ![n] = Enrolled(k, t)]
    /\ token' = [token EXCEPT ![t] = Consumed(token[t], n)]
    /\ Append1(Redeemed(t, n))
    /\ UNCHANGED <<control, job>>

\* A replay returns the original record and writes nothing, so only the
\* refusals are steps.  genuine: the presented token parses and its secret
\* matches the stored hash.
RefuseRedemption(t, k, inScope, genuine) ==
    /\ token[t].issued /\ genuine => /\ EnrollmentFailure(token[t], inScope) # "none"
                                     /\ ~IsReplay(token[t], k)
    /\ Append1(Event("ENROLLMENT_REJECTED", None, None))
    /\ UNCHANGED <<node, token, control, job>>

-----------------------------------------------------------------------------
(* Sessions and heartbeats.                                                *)

AttachSession(n, s, lag) ==
    /\ Known(node[n])
    /\ ~node[n].revoked
    /\ node' = [node EXCEPT ![n] = Attached(node[n], s, lag)]
    /\ Append1(Opened(n, s))
    /\ UNCHANGED <<token, control, job>>

\* Mutant: a stale detach clears whatever session is current.
MutDetachStale(n, s) ==
    /\ Opened(n, s) \in audit
    /\ node' = [node EXCEPT ![n] = Detached(node[n])]
    /\ Append1(Closed(n, s))
    /\ UNCHANGED <<token, control, job>>

\* A detach from a connection that was replaced meanwhile is ignored.
DetachSession(n, s) ==
    /\ node[n].session = s
    /\ node' = [node EXCEPT ![n] = Detached(node[n])]
    /\ Append1(Closed(n, s))
    /\ UNCHANGED <<token, control, job>>

RecordHeartbeat(n, s, lag) ==
    /\ node[n].session = s
    /\ node' = [node EXCEPT ![n] = Beaten(node[n], lag)]
    /\ UNCHANGED <<token, control, job, audit>>

\* The sweeper reads its clock before it opens the transaction, so the ages it
\* compares may be up to lag ticks too young.
Expired(r, lag) == r.session # None /\ r.seen /\ r.age > Expiry + lag

\* Mutant: the expiry is recorded and the row is not written.
MutSweepNoWrite(lag) ==
    LET expired == {n \in Node : Expired(node[n], lag)}
    IN  /\ expired # {}
        /\ audit' = audit \cup {HeartbeatExpired(n, node[n].session) : n \in expired}
        /\ UNCHANGED <<node, token, control, job>>

SweepExpiredHeartbeats(lag) ==
    LET expired == {n \in Node : Expired(node[n], lag)}
    IN  /\ expired # {}
        /\ node' = [n \in Node |-> IF n \in expired THEN Detached(node[n]) ELSE node[n]]
        /\ audit' = audit \cup {HeartbeatExpired(n, node[n].session) : n \in expired}
        /\ UNCHANGED <<token, control, job>>

-----------------------------------------------------------------------------
(* Restart recovery: one transaction before the mesh accepts traffic.      *)

RecoverAfterRestart ==
    LET attached == {n \in Node : node[n].session # None}
        active == {j \in Job : job[j] \in ActiveStatuses}
    IN  /\ node' = [n \in Node |-> Detached(node[n])]
        /\ job' = [j \in Job |-> IF j \in active THEN "timed_out" ELSE job[j]]
        /\ audit' = audit \cup {Closed(n, node[n].session) : n \in attached}
                          \cup {Event("JOB_RECONCILED", j, job[j]) : j \in active}
        /\ UNCHANGED <<token, control>>

\* The dispatch service stores whatever status it computed.
UpsertJob(j, status) ==
    /\ job' = [job EXCEPT ![j] = status]
    /\ UNCHANGED <<node, token, control, audit>>

-----------------------------------------------------------------------------
(* Lifecycle.                                                              *)

QuarantineNode(n) ==
    /\ Known(node[n])
    /\ node' = [node EXCEPT ![n] = Quarantined(node[n])]
    /\ Append1(Event("NODE_QUARANTINED", n, None))
    /\ UNCHANGED <<token, control, job>>

RestoreNode(n) ==
    /\ Known(node[n])
    /\ ~node[n].revoked
    /\ node' = [node EXCEPT ![n] = Restored(node[n])]
    /\ Append1(Event("NODE_RESTORED", n, None))
    /\ UNCHANGED <<token, control, job>>

RevokeNode(n) ==
    /\ Known(node[n])
    /\ node' = [node EXCEPT ![n] = Revoked(node[n])]
    /\ Append1(Event("NODE_REVOKED", n, None))
    /\ UNCHANGED <<token, control, job>>

-----------------------------------------------------------------------------
(* The kill switch.                                                        *)

\* Freezing a frozen mesh returns the current state and writes nothing.
FreezeDispatch ==
    /\ ~control.frozen
    /\ control.epoch < MaxEpoch
    /\ control' = [frozen |-> TRUE, epoch |-> control.epoch + 1]
    /\ Append1(Frozen(control.epoch + 1))
    /\ UNCHANGED <<node, token, job>>

UnfreezeDispatch(expected) ==
    /\ control.frozen
    /\ IF expected # control.epoch
       THEN /\ Append1(Event("DISPATCH_UNFREEZE_DENIED", None, None))
            /\ UNCHANGED control
       ELSE /\ control' = [control EXCEPT !.frozen = FALSE]
            /\ Append1(Unfrozen(control.epoch))
    /\ UNCHANGED <<node, token, job>>

-----------------------------------------------------------------------------
(* One tick of the clock every instant is read from.                       *)

Older(r) == [r EXCEPT !.age = IF r.seen /\ r.age < AgeCap THEN r.age + 1 ELSE r.age]

NearerExpiry(r) == [r EXCEPT !.ttl = IF r.ttl > 0 THEN r.ttl - 1 ELSE 0]

Tick ==
    /\ node' = [n \in Node |-> Older(node[n])]
    /\ token' = [t \in Token |-> NearerExpiry(token[t])]
    /\ UNCHANGED <<control, job, audit>>

-----------------------------------------------------------------------------

Init ==
    /\ node = [n \in Node |-> NoNode]
    /\ token = [t \in Token |-> NoToken]
    /\ control = [frozen |-> FALSE, epoch |-> 0]
    /\ job = [j \in Job |-> NoJob]
    /\ audit = {}

\* uuid4 session identifiers are never reused.
Fresh(s) == \A n \in Node : Opened(n, s) \notin audit

Next ==
    \/ \E t \in Token : IssueToken(t) \/ RevokeToken(t)
    \/ \E t \in Token, n \in Node, k \in Key, b \in BOOLEAN : RedeemToken(t, n, k, b)
    \/ \E t \in Token, k \in Key, b, g \in BOOLEAN : RefuseRedemption(t, k, b, g)
    \/ \E n \in Node, s \in Session, lag \in 0..Lag : Fresh(s) /\ AttachSession(n, s, lag)
    \/ \E n \in Node, s \in Session, lag \in 0..Lag : RecordHeartbeat(n, s, lag)
    \/ \E n \in Node, s \in Session : DetachSession(n, s)
    \/ \E lag \in 0..Lag : SweepExpiredHeartbeats(lag)
    \/ RecoverAfterRestart
    \/ \E j \in Job, st \in ActiveStatuses \cup TerminalStatuses : UpsertJob(j, st)
    \/ \E n \in Node : QuarantineNode(n) \/ RestoreNode(n) \/ RevokeNode(n)
    \/ FreezeDispatch
    \/ \E e \in 0..MaxEpoch : UnfreezeDispatch(e)
    \/ Tick

Spec == Init /\ [][Next]_vars

-----------------------------------------------------------------------------
(* Properties.                                                             *)

\* Every table holds rows of its type (models.py) and the freeze epoch is a
\* natural number.
TypeOK ==
    /\ node \in [Node -> NodeRow]
    /\ token \in [Token -> TokenRow]
    /\ control \in [frozen: BOOLEAN, epoch: Nat]
    /\ job \in [Job -> ActiveStatuses \cup TerminalStatuses \cup {NoJob}]

\* A single-use token (redeem_enrollment_token) creates at most one node: every
\* enrolled node is the one its token records as its consumer, so no two nodes
\* can have come from one token, whatever is retried, revoked or expires.
EnrollmentSingleUse ==
    \A n \in Node : Known(node[n]) =>
        /\ node[n].token \in Token
        /\ token[node[n].token].consumedBy = n

\* A token that was revoked or ran out before it was redeemed is never redeemed
\* afterwards (the order of the checks in _enrollment_failure).
DeadTokenStaysDead ==
    [][\A t \in Token :
         token[t].issued /\ token[t].consumedBy = None /\ (token[t].revoked \/ token[t].ttl = 0)
            => token'[t].consumedBy = None]_vars

\* "Permanently retire a node identity. Revocation is irreversible."
\* (revoke_node): no operation clears revoked_at, and no operation gives a
\* revoked node a session.
RevocationIsFinal ==
    [][\A n \in Node : node[n].revoked => node'[n].revoked /\ node'[n].session = None]_vars

\* A session leaves a node row only through its own close or expiry, the
\* revocation of the node, or a newer session: a late detach_session or a sweep
\* aimed at one session never takes another one down.
SessionEndIsExplained ==
    [][\A n \in Node :
         LET s == node[n].session
         IN  s # None /\ node'[n].session # s =>
                \/ Closed(n, s) \in audit'
                \/ HeartbeatExpired(n, s) \in audit'
                \/ node'[n].revoked
                \/ node'[n].session # None]_vars

\* The audit trail and the rows agree on sessions: the session in a row was
\* opened for that node, and was neither closed nor expired; it is never shared
\* by two nodes.
SessionIsAudited ==
    \A n \in Node : LET s == node[n].session IN s # None =>
        /\ Opened(n, s) \in audit
        /\ Closed(n, s) \notin audit
        /\ HeartbeatExpired(n, s) \notin audit
        /\ \A m \in Node : node[m].session = s => m = n

\* The audit trail alone tells whether the mesh is frozen: every epoch up to the
\* current one has its DISPATCH_FROZEN event, every earlier epoch was thawed, and
\* the mesh is frozen exactly when the current epoch was not (freeze_dispatch and
\* unfreeze_dispatch commit the event with the row).
FreezeMatchesAudit ==
    /\ \A e \in 1..control.epoch : Frozen(e) \in audit
    /\ \A e \in 1..control.epoch :
         Unfrozen(e) \in audit <=> (e < control.epoch \/ ~control.frozen)

\* "Freezing is monotonic within an epoch" (DispatchControlState): the epoch
\* never goes back, a new epoch starts only by freezing a mesh that was not
\* frozen, and neither a restart nor a repeated freeze touches it.
FreezeEpochMonotone ==
    [][/\ control'.epoch >= control.epoch
       /\ control'.epoch # control.epoch => ~control.frozen /\ control'.frozen]_vars

-----------------------------------------------------------------------------
(* The inductive invariant behind the properties above.  A session event   *)
(* names a session that was opened before it, so a fresh identifier is in  *)
(* no event; and no thaw is recorded for an epoch still to come.           *)

UnissuedIsUnused == \A t \in Token : ~token[t].issued => token[t].consumedBy = None

RevokedHasNoSession == \A n \in Node : node[n].revoked => node[n].session = None

OnlyEnrolledAct ==
    \A n \in Node : node[n].revoked \/ node[n].session # None => Known(node[n])

EventsFollowOpening ==
    \A n \in Node, s \in Session :
        Closed(n, s) \in audit \/ HeartbeatExpired(n, s) \in audit => Opened(n, s) \in audit

NoFutureThaw == \A e \in 0..MaxEpoch : Unfrozen(e) \in audit => e <= control.epoch

RegistryInv ==
    /\ TypeOK
    /\ UnissuedIsUnused
    /\ EnrollmentSingleUse
    /\ OnlyEnrolledAct
    /\ RevokedHasNoSession
    /\ SessionIsAudited
    /\ EventsFollowOpening
    /\ FreezeMatchesAudit
    /\ NoFutureThaw
=============================================================================
