---------------------------- MODULE NodeSessions ----------------------------
(***************************************************************************)
(* The control plane's end of the node connections (nodes/session.py), the *)
(* map of live sessions (nodes/dispatch.py) and the WebSocket endpoint     *)
(* (gateway/nodes_api.py), together with the node rows of NodeRegistry.    *)
(*                                                                         *)
(* A session is one coroutine.  Its steps are the stretches between two    *)
(* awaits that let another coroutine run: between the node row it wrote    *)
(* and the map it enters, between latching _closed and clearing the row,   *)
(* and between the revocation of a node and the end of its channel.        *)
(*                                                                         *)
(* Nodes are enrolled from the start: sessions of a node that is not known *)
(* are refused before they touch any state.                                *)
(***************************************************************************)
EXTENDS NodeRegistry

\* The enrolled nodes have a key, and a grant they consumed.
ASSUME SessionsAssumption == Key # {} /\ Token # {}

VARIABLES
    sess,         \* NodeSession objects: where each coroutine is, and for which node
    current,      \* NodeDispatchService._sessions: node -> session
    ending,       \* nodes whose revocation committed and whose channel is not closed yet
    sweeping      \* the sweeper task has not ended

svars == <<node, token, control, job, audit, sess, current, ending, sweeping>>

SessionStates == {"idle", "challenged", "bound", "serving", "closing", "closed", "lost"}

NoSession == [pc |-> "idle", node |-> None]

At(s, pc) == sess[s].pc = pc
Goto(s, pc) == sess' = [sess EXCEPT ![s].pc = pc]

-----------------------------------------------------------------------------
(* Handshake.                                                              *)

\* hello: the record is read and the challenge sent; a revoked node is refused.
Hello(s, n) ==
    /\ At(s, "idle")
    /\ sess' = [sess EXCEPT ![s] = [pc |-> IF node[n].revoked THEN "closed" ELSE "challenged",
                                    node |-> n]]
    /\ UNCHANGED <<node, token, control, job, audit, current, ending, sweeping>>

\* attest: attach_session reads the row again, so a revocation that landed
\* since the hello still refuses the session.
Attest(s) ==
    LET n == sess[s].node
    IN  /\ At(s, "challenged")
        /\ \/ AttachSession(n, s, 0) /\ Goto(s, "bound")
           \/ node[n].revoked /\ Goto(s, "closed") /\ UNCHANGED vars
        /\ UNCHANGED <<current, ending, sweeping>>

\* The handshake timeout interrupts the await of a COMMIT that PostgreSQL carries
\* out: self.node is still None, and shutdown does not clear the row.
AttestInterrupted(s) ==
    /\ At(s, "challenged")
    /\ AttachSession(sess[s].node, s, 0)
    /\ Goto(s, "lost")
    /\ UNCHANGED <<current, ending, sweeping>>

\* A timeout, a bad frame or a dead channel: before attach_session there is no
\* row to clear, after it there is.
HandshakeFails(s) ==
    /\ \/ At(s, "challenged") /\ Goto(s, "closed")
       \/ At(s, "bound") /\ Goto(s, "closing")
    /\ UNCHANGED <<node, token, control, job, audit, current, ending, sweeping>>

-----------------------------------------------------------------------------
(* A session in service.                                                   *)

\* Mutant: the previous session of the node is forgotten, not shut down.
MutAdoptKeepsPrevious(s) ==
    /\ At(s, "bound")
    /\ current' = [current EXCEPT ![sess[s].node] = s]
    /\ Goto(s, "serving")
    /\ UNCHANGED <<node, token, control, job, audit, ending, sweeping>>

\* dispatch.attach_session: the new session displaces the one in the map.
Adopt(s) ==
    LET n == sess[s].node
        p == current[n]
    IN  /\ At(s, "bound")
        /\ current' = [current EXCEPT ![n] = s]
        /\ sess' = [q \in Session |->
                      IF q = s THEN [sess[q] EXCEPT !.pc = "serving"]
                      ELSE IF q = p /\ At(q, "serving") THEN [sess[q] EXCEPT !.pc = "closing"]
                      ELSE sess[q]]
        /\ UNCHANGED <<node, token, control, job, audit, ending, sweeping>>

\* Mutant: a heartbeat that names a stale session is dropped.
MutBeatIgnoresReplacement(s) ==
    LET n == sess[s].node
    IN  /\ At(s, "serving")
        /\ RecordHeartbeat(n, s, 0)
        /\ UNCHANGED <<sess, current, ending, sweeping>>

\* A heartbeat of a session the row no longer names closes it
\* (NODE_SESSION_REPLACED).  The pump still handles the frame it was waiting
\* for when another coroutine latched _closed.
Beat(s) ==
    LET n == sess[s].node
    IN  /\ \/ /\ At(s, "serving") \/ At(s, "closing")
              /\ RecordHeartbeat(n, s, 0)
              /\ UNCHANGED sess
           \/ /\ At(s, "serving")
              /\ node[n].session # s
              /\ Goto(s, "closing")
              /\ UNCHANGED vars
        /\ UNCHANGED <<current, ending, sweeping>>

\* The channel closes, or a frame violates the protocol.
HangUp(s) ==
    /\ At(s, "serving")
    /\ Goto(s, "closing")
    /\ UNCHANGED <<node, token, control, job, audit, current, ending, sweeping>>

-----------------------------------------------------------------------------
(* shutdown and what follows it.                                           *)

\* _closed is latched; detach_session clears the row if it still names s.
ShutdownDetach(s) ==
    LET n == sess[s].node
    IN  /\ At(s, "closing")
        /\ \/ DetachSession(n, s)
           \/ node[n].session # s /\ UNCHANGED vars
        /\ Goto(s, "closed")
        /\ UNCHANGED <<current, ending, sweeping>>

\* dispatch.detach_session, when the endpoint's pump returns: it may return
\* before the row is cleared, because a second shutdown returns at once.
Forget(s) ==
    LET n == sess[s].node
    IN  /\ sess[s].pc \in {"closing", "closed"}
        /\ current[n] = s
        /\ current' = [current EXCEPT ![n] = None]
        /\ UNCHANGED <<node, token, control, job, audit, sess, ending, sweeping>>

-----------------------------------------------------------------------------
(* Operators, the sweeper, restarts.                                       *)

\* The row commits first, and its channel is closed after.
Revoke(n) ==
    /\ RevokeNode(n)
    /\ ending' = ending \cup {n}
    /\ UNCHANGED <<sess, current, sweeping>>

\* session_for(node_id), then its shutdown.
Terminate(n) ==
    LET s == current[n]
    IN  /\ n \in ending
        /\ ending' = ending \ {n}
        /\ sess' = IF s # None /\ At(s, "serving") THEN [sess EXCEPT ![s].pc = "closing"] ELSE sess
        /\ UNCHANGED <<node, token, control, job, audit, current, sweeping>>

Sweep(lag) ==
    /\ sweeping
    /\ SweepExpiredHeartbeats(lag)
    /\ UNCHANGED <<sess, current, ending, sweeping>>

\* A sweep raises: nothing restarts its task before the process is restarted.
SweeperDies ==
    /\ sweeping
    /\ sweeping' = FALSE
    /\ UNCHANGED <<node, token, control, job, audit, sess, current, ending>>

SessionTick == Tick /\ UNCHANGED <<sess, current, ending, sweeping>>

\* The process dies with its sockets; recover_after_restart clears the rows
\* before a new one is accepted.
Restart ==
    /\ RecoverAfterRestart
    /\ sess' = [s \in Session |-> IF At(s, "idle") THEN sess[s] ELSE [sess[s] EXCEPT !.pc = "closed"]]
    /\ current' = [n \in Node |-> None]
    /\ ending' = {}
    /\ sweeping' = TRUE

-----------------------------------------------------------------------------

SInit ==
    LET k == CHOOSE k \in Key : TRUE
        t == CHOOSE t \in Token : TRUE
    IN  /\ node = [n \in Node |-> Enrolled(k, t)]
        /\ token = [u \in Token |-> Consumed(Minted, CHOOSE n \in Node : TRUE)]
        /\ control = [frozen |-> FALSE, epoch |-> 0]
        /\ job = [j \in Job |-> NoJob]
        /\ audit = {}
        /\ sess = [s \in Session |-> NoSession]
        /\ current = [n \in Node |-> None]
        /\ ending = {}
        /\ sweeping = TRUE

SNext ==
    \/ \E s \in Session, n \in Node : Hello(s, n)
    \/ \E s \in Session : Attest(s) \/ AttestInterrupted(s) \/ HandshakeFails(s)
    \/ \E s \in Session : Adopt(s) \/ Beat(s) \/ HangUp(s) \/ ShutdownDetach(s) \/ Forget(s)
    \/ \E n \in Node : Revoke(n) \/ Terminate(n)
    \/ \E lag \in 0..Lag : Sweep(lag)
    \/ SweeperDies \/ SessionTick
    \/ Restart

SSpec == SInit /\ [][SNext]_svars

\* The event loop runs every coroutine that can run, the agent's heartbeat loop
\* sends while its channel is open, time passes and the sweeper sweeps.  No
\* fairness is assumed of connections, revocations, failures and restarts.
FairSessions ==
    /\ SSpec
    /\ \A s \in Session :
         WF_svars(Adopt(s) \/ ShutdownDetach(s) \/ Forget(s)) /\ WF_svars(Beat(s))
    /\ \A n \in Node : WF_svars(Terminate(n))
    /\ WF_svars(SessionTick) /\ WF_svars(\E lag \in 0..Lag : Sweep(lag))

-----------------------------------------------------------------------------
(* Properties.                                                             *)

\* The state of every session object and of the map is of its type, and the map
\* holds sessions that completed their handshake, under their own node.
SessionsTypeOK ==
    /\ sess \in [Session -> [pc: SessionStates, node: Node \cup {None}]]
    /\ current \in [Node -> Session \cup {None}]
    /\ ending \subseteq Node /\ sweeping \in BOOLEAN
    /\ \A n \in Node : LET s == current[n] IN s # None =>
         sess[s].node = n /\ sess[s].pc \in {"serving", "closing", "closed"}

\* Behind the session of a row there is a session object of that node that
\* serves, or that will still clear the row ("or the registry reports a node as
\* online with no session behind it and selection can prefer that phantom over a
\* live peer", handshake).  The one exception is an interrupted commit.
PhantomNeedsInterruption ==
    \A n \in Node : LET s == node[n].session IN s # None =>
        sess[s].node = n /\ sess[s].pc \in {"bound", "serving", "closing", "lost"}

\* The session that serves a node is the one dispatch finds: a displaced or
\* failed session never stays in service beside it, and a late
\* dispatch.detach_session never removes its successor.
ServingIsReachable ==
    \A s \in Session : At(s, "serving") => current[sess[s].node] = s

\* Once revoke_node has returned, no channel of the node is in service
\* ("Revoke a node and stop it doing anything it is already doing").
RevokedIsCutOff ==
    \A s \in Session : At(s, "serving") /\ node[sess[s].node].revoked => sess[s].node \in ending

\* A session whose node row went to another session, expired or was revoked
\* does not keep its channel: its next heartbeat closes it.
StrandedSessionCloses ==
    \A s \in Session :
        (At(s, "serving") /\ node[sess[s].node].session # s) ~> ~At(s, "serving")

\* The row that an interrupted commit left is cleared by the heartbeat sweep or
\* taken by the next session, unless a sweep that raised has ended the sweeper.
PhantomIsSwept ==
    \A n \in Node, s \in Session :
        (node[n].session = s /\ At(s, "lost")) ~> (node[n].session # s \/ ~sweeping)
=============================================================================
