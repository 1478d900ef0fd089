----------------------------- MODULE AuditChain -----------------------------
(***************************************************************************)
(* The two audit chains in PostgreSQL.  A transaction appends its events   *)
(* after the last one it sees: those of the node mesh under an advisory    *)
(* lock (persistence/postgres_store.py), those of the authority under a    *)
(* lock of the last row (authority/sqlalchemy.py).  Sequence numbers are   *)
(* unique in both.                                                         *)
(*                                                                         *)
(* A transaction is the list of the rows it writes or locks and the events *)
(* it appends, in the order of the code.                                   *)
(***************************************************************************)
EXTENDS Naturals, FiniteSets, Sequences

CONSTANTS
    Client,       \* connections with a transaction each
    MaxEvents     \* bound on the length of a chain

ASSUME AuditChainAssumption == MaxEvents \in Nat

VARIABLES
    chain,        \* "mesh" or "authority"
    trail,        \* the committed events
    txn,          \* the transaction open on each connection
    conflicts     \* the inserts that the unique sequence refused: loser and winner

chainVars == <<chain, trail, txn, conflicts>>

-----------------------------------------------------------------------------
(* Transactions.                                                           *)

\* A session that begins or ends, a lifecycle change, a freeze or a token: one row that
\* others write too, then the event.  (The row of a token is taken as the control's is.)
RowPlan(r) == <<r, "append">>

\* record_audit
RecordPlan == <<"append">>

\* The sweep of two nodes writes a row and appends its event, node by node.
SweepPlan == <<"n1", "append", "n2", "append">>

\* A ceremony, an admission or a freeze of the authority locks its state first.
StatePlan == <<"state", "append">>

\* The enrollment of a credential locks no row that another transaction locks.
RegistrationPlan == <<"append">>

Plans == IF chain = "mesh" THEN {RowPlan("n1"), RowPlan("n2"), RowPlan("control"), RecordPlan, SweepPlan}
         ELSE {StatePlan, RegistrationPlan}

-----------------------------------------------------------------------------
(* Events and what a transaction waits for.                                *)

\* GENESIS_HASH and the sequence before the first.
Genesis == [sequence |-> 0, previous |-> << >>, hash |-> << >>, by |-> << >>]

\* link_event: the hash covers the sequence and the hash before.
LinkEvent(head, by) ==
    [sequence |-> head.sequence + 1, previous |-> head.hash,
     hash |-> Append(head.hash, <<head.sequence + 1, by>>), by |-> by]

LastOf(events) ==
    CHOOSE e \in events \cup {Genesis} : \A f \in events : f.sequence <= e.sequence

NoTxn == [plan |-> << >>, at |-> 1, holds |-> {}, looked |-> FALSE, head |-> Genesis,
          row |-> 0, own |-> << >>]

Opened(w) == txn[w].plan # << >>
Over(w) == txn[w].at > Len(txn[w].plan)
At(w, step) == Opened(w) /\ ~Over(w) /\ txn[w].plan[txn[w].at] = step
Appends(w) == At(w, "append")
TakesRow(w) == Opened(w) /\ ~Over(w) /\ ~Appends(w)

\* pg_advisory_xact_lock, once in a transaction.
TakesAuditLock(w) == chain = "mesh" /\ Appends(w) /\ "audit" \notin txn[w].holds

\* FOR UPDATE of the last row that was seen, unless it is the transaction's own.
LocksLast(w) ==
    /\ chain = "authority" /\ txn[w].looked
    /\ txn[w].own = << >> /\ txn[w].row # txn[w].head.sequence

Inserts(w) == txn[w].looked /\ ~LocksLast(w)

\* w waits for a lock that v holds, or for the outcome of v's insert of its sequence.
Blocked(w, v) ==
    \/ TakesRow(w) /\ txn[w].plan[txn[w].at] \in txn[v].holds
    \/ TakesAuditLock(w) /\ "audit" \in txn[v].holds
    \/ LocksLast(w) /\ txn[v].row = txn[w].head.sequence
    \/ /\ Inserts(w)
       /\ \E i \in DOMAIN txn[v].own : txn[v].own[i].sequence = txn[w].head.sequence + 1

Free(w) == \A v \in Client \ {w} : ~Blocked(w, v)

-----------------------------------------------------------------------------
(* Steps of a transaction.                                                 *)

BeginTxn(w, p) ==
    /\ ~Opened(w)
    /\ Cardinality(trail) < MaxEvents
    /\ txn' = [txn EXCEPT ![w] = [NoTxn EXCEPT !.plan = p]]
    /\ UNCHANGED <<chain, trail, conflicts>>

TakeRow(w) ==
    /\ TakesRow(w) /\ Free(w)
    /\ txn' = [txn EXCEPT ![w].holds = @ \cup {txn[w].plan[txn[w].at]}, ![w].at = @ + 1]
    /\ UNCHANGED <<chain, trail, conflicts>>

TakeAuditLock(w) ==
    /\ TakesAuditLock(w) /\ Free(w)
    /\ txn' = [txn EXCEPT ![w].holds = @ \cup {"audit"}]
    /\ UNCHANGED <<chain, trail, conflicts>>

\* Mutant: the last event is read before the lock is taken.
MutLookAtLast(w) ==
    /\ Appends(w) /\ ~txn[w].looked
    /\ txn' = [txn EXCEPT ![w].looked = TRUE,
                          ![w].head = IF txn[w].own # << >> THEN txn[w].own[Len(txn[w].own)]
                                      ELSE LastOf(trail)]
    /\ UNCHANGED <<chain, trail, conflicts>>

\* The SELECT of the last event: it sees what is committed when it starts, and the
\* transaction's own.
LookAtLast(w) ==
    /\ Appends(w) /\ ~TakesAuditLock(w) /\ ~txn[w].looked
    /\ txn' = [txn EXCEPT ![w].looked = TRUE,
                          ![w].head = IF txn[w].own # << >> THEN txn[w].own[Len(txn[w].own)]
                                      ELSE LastOf(trail)]
    /\ UNCHANGED <<chain, trail, conflicts>>

\* The wait for the row is over: the row is returned, though it may not be the last
\* any more.
LockLast(w) ==
    /\ LocksLast(w) /\ Free(w)
    /\ txn' = [txn EXCEPT ![w].row = txn[w].head.sequence]
    /\ UNCHANGED <<chain, trail, conflicts>>

\* Mutant: sequence numbers need not be unique.
MutInsertEvent(w) ==
    /\ Inserts(w)
    /\ txn' = [txn EXCEPT ![w].own = Append(@, LinkEvent(txn[w].head, txn[w].plan)),
                          ![w].looked = FALSE, ![w].at = @ + 1]
    /\ UNCHANGED <<chain, trail, conflicts>>

\* The INSERT of the linked event; the unique sequence refuses one that is taken, and
\* the transaction is rolled back.
InsertEvent(w) ==
    LET e == LinkEvent(txn[w].head, txn[w].plan)
        taken == {f \in trail : f.sequence = e.sequence}
    IN  /\ Inserts(w) /\ Free(w)
        /\ IF taken = {}
           THEN /\ txn' = [txn EXCEPT ![w].own = Append(@, e), ![w].looked = FALSE, ![w].at = @ + 1]
                /\ UNCHANGED conflicts
           ELSE /\ txn' = [txn EXCEPT ![w] = NoTxn]
                /\ conflicts' = conflicts \cup {[loser |-> e.by, winner |-> f.by] : f \in taken}
        /\ UNCHANGED <<chain, trail>>

CommitTxn(w) ==
    /\ Opened(w) /\ Over(w)
    /\ trail' = trail \cup {txn[w].own[i] : i \in DOMAIN txn[w].own}
    /\ txn' = [txn EXCEPT ![w] = NoTxn]
    /\ UNCHANGED <<chain, conflicts>>

\* A check refuses the operation, a statement fails, PostgreSQL ends a deadlock or the
\* process dies.
RollBack(w) ==
    /\ Opened(w)
    /\ txn' = [txn EXCEPT ![w] = NoTxn]
    /\ UNCHANGED <<chain, trail, conflicts>>

-----------------------------------------------------------------------------

ChainInit ==
    /\ chain \in {"mesh", "authority"}
    /\ trail = {} /\ conflicts = {}
    /\ txn = [w \in Client |-> NoTxn]

ChainNext ==
    \E w \in Client :
        \/ \E p \in Plans : BeginTxn(w, p)
        \/ TakeRow(w) \/ TakeAuditLock(w) \/ LookAtLast(w) \/ LockLast(w) \/ InsertEvent(w)
        \/ CommitTxn(w) \/ RollBack(w)

ChainSpec == ChainInit /\ [][ChainNext]_chainVars

-----------------------------------------------------------------------------
(* Properties.                                                             *)

\* verify_chain and verify_audit_chain, over the events in the order of their sequence:
\* they are numbered from 1 and each one is linked to the one before.
VerifyChain(events) ==
    \A e \in events :
        /\ e.sequence \in 1..Cardinality(events)
        /\ \A f \in events : f.sequence = e.sequence => f = e
        /\ \E f \in events \cup {Genesis} : e = LinkEvent(f, e.by)

\* Whatever transactions overlap, wait for each other and are rolled back, the chain
\* that is committed verifies: no gap, no fork, no event out of order.
TrailVerifies == VerifyChain(trail)

\* Transactions that wait for one another, so that none of them can go on.
Deadlocked(S) == S # {} /\ \A w \in S : \E v \in S \ {w} : Blocked(w, v)

\* Two transactions make each other fail in two cases only.  The unique sequence refuses
\* an event, never in the mesh and in the authority only when one of the two enrolled a
\* credential, which takes no lock of the authority's state.  And they deadlock when a
\* sweep is among them, which holds the audit lock while it waits for the next row.
CollisionsAreExplained ==
    /\ \A c \in conflicts : chain = "authority" /\ RegistrationPlan \in {c.loser, c.winner}
    /\ \A S \in SUBSET Client : Deadlocked(S) => \E w \in S : txn[w].plan = SweepPlan
=============================================================================
