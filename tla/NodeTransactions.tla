-------------------------- MODULE NodeTransactions --------------------------
(***************************************************************************)
(* The registry's operations as store transactions that overlap: each one  *)
(* reads and decides in one step and commits in a later one.               *)
(*                                                                         *)
(* PostgresNodeMeshStore takes a connection of its pool per transaction    *)
(* and runs at READ COMMITTED.  get_enrollment_token and                   *)
(* get_dispatch_control lock the row they read (FOR UPDATE); get_node and  *)
(* list_nodes do not, and put_node writes back every column of the row     *)
(* that was read.  InMemoryNodeMeshStore holds one asyncio.Lock for the    *)
(* whole transaction.  Which of the two the process uses is decided when   *)
(* it starts, and never changes.                                           *)
(*                                                                         *)
(* upsert_job is left to NodeRegistry: its transaction is one statement.   *)
(***************************************************************************)
EXTENDS NodeRegistry

CONSTANTS
    Conn,       \* connections of the pool
    Stores      \* the stores that are configured: "memory", "postgres"

ASSUME StoresAssumption == Stores \subseteq {"memory", "postgres"}

VARIABLES
    store,      \* the store of this process
    tx          \* connection -> the transaction open on it

txVars == <<node, token, control, job, audit, store, tx>>

-----------------------------------------------------------------------------
(* A transaction: the rows it will write, the events it will append, the   *)
(* rows it has locked, and the ticks since it read its clock.              *)

NoRows == <<>>
ControlRow == "dispatch_control"

Idle == [open |-> FALSE, nodes |-> NoRows, tokens |-> NoRows, control |-> {},
         events |-> {}, locks |-> {}, lag |-> 0]

Only(x, row) == [y \in {x} |-> row]

\* The transactions of the registry, as what they write.
PutNode(n, row, events) ==
    [Idle EXCEPT !.open = TRUE, !.nodes = Only(n, row), !.events = events]
PutToken(t, row, event) ==
    [Idle EXCEPT !.open = TRUE, !.tokens = Only(t, row), !.events = {event}, !.locks = {t}]
PutControl(row, event) ==
    [Idle EXCEPT !.open = TRUE, !.control = {row}, !.events = {event}, !.locks = {ControlRow}]
Deny(event, lock) ==
    [Idle EXCEPT !.open = TRUE, !.events = {event}, !.locks = {lock}]

\* Mutant: the in-memory store does not take its lock.
MutBeginUnlocked(c, t) ==
    /\ ~tx[c].open
    /\ \A d \in Conn : tx[d].locks \cap t.locks = {}
    /\ tx' = [tx EXCEPT ![c] = t]
    /\ UNCHANGED <<vars, store>>

\* Reading waits for the rows it locks and, in memory, for every open transaction.
Begin(c, t) ==
    /\ ~tx[c].open
    /\ store = "memory" => \A d \in Conn : ~tx[d].open
    /\ \A d \in Conn : tx[d].locks \cap t.locks = {}
    /\ tx' = [tx EXCEPT ![c] = t]
    /\ UNCHANGED <<vars, store>>

Overlay(rows, table) ==
    [x \in DOMAIN table |-> IF x \in DOMAIN rows THEN rows[x] ELSE table[x]]

Commit(c) ==
    /\ tx[c].open
    /\ node' = Overlay(tx[c].nodes, node)
    /\ token' = Overlay(tx[c].tokens, token)
    /\ control' = IF tx[c].control = {} THEN control ELSE CHOOSE row \in tx[c].control : TRUE
    /\ audit' = audit \cup tx[c].events
    /\ tx' = [tx EXCEPT ![c] = Idle]
    /\ UNCHANGED <<job, store>>

\* A cancelled request, a lost connection, a deadlock victim.
Rollback(c) ==
    /\ tx[c].open
    /\ tx' = [tx EXCEPT ![c] = Idle]
    /\ UNCHANGED <<vars, store>>

-----------------------------------------------------------------------------
(* Reads of the enrollment and kill-switch operations: the row is locked.  *)

IssueReads(c, t) ==
    /\ ~token[t].issued
    /\ \A d \in Conn : t \notin DOMAIN tx[d].tokens
    /\ Begin(c, IF control.frozen
                THEN Deny(Event("ENROLLMENT_ISSUE_DENIED", None, None), ControlRow)
                ELSE [PutToken(t, Minted, Event("ENROLLMENT_ISSUED", t, None))
                        EXCEPT !.locks = {ControlRow}])

RevokeTokenReads(c, t) ==
    /\ token[t].issued
    /\ ~token[t].revoked
    /\ Begin(c, PutToken(t, Withdrawn(token[t]), Event("ENROLLMENT_GRANT_REVOKED", t, None)))

\* Mutant: the token is read without FOR UPDATE.
MutRedeemUnlocked(c, t, n, k, inScope) ==
    /\ token[t].issued
    /\ EnrollmentFailure(token[t], inScope) = "none"
    /\ ~Known(node[n]) /\ \A d \in Conn : n \notin DOMAIN tx[d].nodes
    /\ Begin(c, [PutToken(t, Consumed(token[t], n), Redeemed(t, n))
                   EXCEPT !.nodes = Only(n, Enrolled(k, t)), !.locks = {}])

\* The node identifier is a fresh uuid4.
RedeemReads(c, t, n, k, inScope) ==
    /\ token[t].issued
    /\ EnrollmentFailure(token[t], inScope) = "none"
    /\ ~Known(node[n]) /\ \A d \in Conn : n \notin DOMAIN tx[d].nodes
    /\ Begin(c, [PutToken(t, Consumed(token[t], n), Redeemed(t, n))
                   EXCEPT !.nodes = Only(n, Enrolled(k, t))])

RefuseReads(c, t, k, inScope, genuine) ==
    /\ token[t].issued /\ genuine => /\ EnrollmentFailure(token[t], inScope) # "none"
                                     /\ ~IsReplay(token[t], k)
    /\ Begin(c, Deny(Event("ENROLLMENT_REJECTED", None, None), t))

\* Mutant: dispatch_control is read without FOR UPDATE.
MutFreezeUnlocked(c) ==
    /\ ~control.frozen
    /\ control.epoch < MaxEpoch
    /\ Begin(c, [PutControl([frozen |-> TRUE, epoch |-> control.epoch + 1],
                            Frozen(control.epoch + 1)) EXCEPT !.locks = {}])

FreezeReads(c) ==
    /\ ~control.frozen
    /\ control.epoch < MaxEpoch
    /\ Begin(c, PutControl([frozen |-> TRUE, epoch |-> control.epoch + 1],
                           Frozen(control.epoch + 1)))

UnfreezeReads(c, expected) ==
    /\ control.frozen
    /\ Begin(c, IF expected # control.epoch
                THEN Deny(Event("DISPATCH_UNFREEZE_DENIED", None, None), ControlRow)
                ELSE PutControl([control EXCEPT !.frozen = FALSE], Unfrozen(control.epoch)))

-----------------------------------------------------------------------------
(* Reads of node rows: nothing is locked, the whole row is written back.   *)

\* A session identifier already promised to an open transaction is not fresh.
Unpromised(s) == \A n \in Node, c \in Conn : Opened(n, s) \notin audit \cup tx[c].events

AttachReads(c, n, s) ==
    /\ Known(node[n])
    /\ ~node[n].revoked
    /\ Unpromised(s)
    /\ Begin(c, PutNode(n, Attached(node[n], s, 0), {Opened(n, s)}))

DetachReads(c, n, s) ==
    /\ node[n].session = s
    /\ Begin(c, PutNode(n, Detached(node[n]), {Closed(n, s)}))

\* The session read its clock when the frame arrived, lag ticks ago.
HeartbeatReads(c, n, s, lag) ==
    /\ node[n].session = s
    /\ Begin(c, [PutNode(n, Beaten(node[n], lag), {}) EXCEPT !.lag = lag])

SweepReads(c, lag) ==
    LET expired == {n \in Node : Expired(node[n], lag)}
    IN  /\ expired # {}
        /\ Begin(c, [Idle EXCEPT !.open = TRUE, !.lag = lag,
                                 !.nodes = [n \in expired |-> Detached(node[n])],
                                 !.events = {HeartbeatExpired(n, node[n].session) : n \in expired}])

QuarantineReads(c, n) ==
    /\ Known(node[n])
    /\ Begin(c, PutNode(n, Quarantined(node[n]), {Event("NODE_QUARANTINED", n, None)}))

RestoreReads(c, n) ==
    /\ Known(node[n])
    /\ ~node[n].revoked
    /\ Begin(c, PutNode(n, Restored(node[n]), {Event("NODE_RESTORED", n, None)}))

RevokeReads(c, n) ==
    /\ Known(node[n])
    /\ Begin(c, PutNode(n, Revoked(node[n]), {Event("NODE_REVOKED", n, None)}))

-----------------------------------------------------------------------------

\* A restart ends every transaction that had not committed, and recovery runs
\* before the mesh accepts traffic.
Restart ==
    /\ RecoverAfterRestart
    /\ tx' = [c \in Conn |-> Idle]
    /\ UNCHANGED store

\* The rows an open transaction will write hold instants too.  No transaction
\* stays open longer than Lag ticks, and the expiry of a token is compared in
\* the tick in which its redemption commits.
TxTick ==
    /\ \A c \in Conn : tx[c].open => tx[c].lag < Lag /\ tx[c].tokens = NoRows
    /\ Tick
    /\ tx' = [c \in Conn |->
                 IF tx[c].open
                 THEN [tx[c] EXCEPT !.lag = @ + 1,
                                    !.nodes = [n \in DOMAIN @ |-> Older(@[n])]]
                 ELSE tx[c]]
    /\ UNCHANGED store

TxInit == Init /\ store \in Stores /\ tx = [c \in Conn |-> Idle]

TxNext ==
    \/ \E c \in Conn :
         \/ Commit(c) \/ Rollback(c)
         \/ \E t \in Token : IssueReads(c, t) \/ RevokeTokenReads(c, t)
         \/ \E t \in Token, n \in Node, k \in Key, b \in BOOLEAN : RedeemReads(c, t, n, k, b)
         \/ \E t \in Token, k \in Key, b, g \in BOOLEAN : RefuseReads(c, t, k, b, g)
         \/ FreezeReads(c)
         \/ \E e \in 0..MaxEpoch : UnfreezeReads(c, e)
         \/ \E n \in Node, s \in Session : AttachReads(c, n, s) \/ DetachReads(c, n, s)
         \/ \E n \in Node, s \in Session, lag \in 0..Lag : HeartbeatReads(c, n, s, lag)
         \/ \E lag \in 0..Lag : SweepReads(c, lag)
         \/ \E n \in Node : QuarantineReads(c, n) \/ RestoreReads(c, n) \/ RevokeReads(c, n)
    \/ Restart
    \/ TxTick

TxSpec == TxInit /\ [][TxNext]_txVars

-----------------------------------------------------------------------------
(* Properties.                                                             *)

Registry == INSTANCE NodeRegistry

\* With the in-memory store, whose lock is held for the whole transaction, the
\* overlapping reads and commits, rollbacks and restarts implement the registry of
\* module NodeRegistry: every commit is one of its atomic operations.
ImplementsRegistry ==
    /\ store = "memory" => Registry!Init
    /\ [][store = "memory" => Registry!Next]_vars
=============================================================================
