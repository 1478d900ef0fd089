------------------------- MODULE NodeSessionsProofs -------------------------
(***************************************************************************)
(* Proofs about NodeSessions: whatever the number of nodes and connections,*)
(* the session that serves a node is the one dispatch finds, and a node    *)
(* row names a dead session only after an interrupted commit.              *)
(***************************************************************************)
EXTENDS NodeSessions, NodeRegistryProofs, TLAPS

\* A session object that left "idle" is bound to a node for good.
BoundToANode == \A s \in Session : ~At(s, "idle") => sess[s].node \in Node

\* The inductive invariant: the two properties need each other, since a session
\* may only be displaced, forgotten or torn down when row and map agree about
\* the objects they name, and both need the node of every object to be known.
SessionsInv ==
    /\ node \in [Node -> NodeRow]
    /\ SessionsTypeOK
    /\ BoundToANode
    /\ PhantomNeedsInterruption
    /\ ServingIsReachable

-----------------------------------------------------------------------------

\* What the sessions' steps write into a row keeps its type, and sets or clears
\* no session but the one they name.
LEMMA SessionRows ==
    ASSUME NEW r \in NodeRow, NEW s \in Session, NEW lag \in 0..Lag
    PROVE  /\ Attached(r, s, lag) \in NodeRow /\ Attached(r, s, lag).session = s
           /\ Detached(r) \in NodeRow /\ Detached(r).session = None
           /\ Beaten(r, lag) \in NodeRow /\ Beaten(r, lag).session = r.session
           /\ Revoked(r) \in NodeRow /\ Revoked(r).session = None
           /\ Older(r) \in NodeRow /\ Older(r).session = r.session
<1>1. Revoked(r).session = None
  BY DEF NodeRow, Revoked
<1>2. QED
  BY <1>1, NodeRowOps, AttachedFields, DetachedFields, KeptFields

\* The rows after a step, when each is as before or has lost its session.
RowsKept ==
    /\ node' \in [Node -> NodeRow]
    /\ \A n \in Node : node'[n].session \in {node[n].session, None}

\* A step that changes no session object and no map entry, and gives no row a
\* session, keeps the invariant.
LEMMA RowsOnly ==
    ASSUME SessionsInv, RowsKept, UNCHANGED <<sess, current>>,
           ending' \subseteq Node, sweeping' \in BOOLEAN
    PROVE  SessionsInv'
<1>1. PhantomNeedsInterruption'
  BY DEF SessionsInv, RowsKept, PhantomNeedsInterruption
<1>2. ServingIsReachable' /\ BoundToANode'
  BY DEF SessionsInv, ServingIsReachable, BoundToANode, At
<1>3. SessionsTypeOK'
  BY DEF SessionsInv, SessionsTypeOK
<1>4. QED
  BY <1>1, <1>2, <1>3 DEF SessionsInv, RowsKept

\* A step of session s that only moves it, out of "serving" or between states
\* that neither row nor map depends on.
LEMMA MovesOne ==
    ASSUME SessionsInv, RowsKept, NEW s \in Session, NEW pc \in SessionStates \ {"idle", "serving"},
           ~At(s, "idle"),
           sess' = [sess EXCEPT ![s].pc = pc],
           UNCHANGED current, ending' \subseteq Node, sweeping' \in BOOLEAN,
           \A n \in Node : current[n] = s => pc \in {"closing", "closed"},
           \A n \in Node : node'[n].session = s => pc \in {"bound", "closing", "lost"}
    PROVE  SessionsInv'
<1> USE DEF At
<1>1. sess \in [Session -> [pc: SessionStates, node: Node \cup {None}]]
  BY DEF SessionsInv, SessionsTypeOK
<1>2. /\ sess' \in [Session -> [pc: SessionStates, node: Node \cup {None}]]
      /\ sess'[s].pc = pc /\ sess'[s].node = sess[s].node
      /\ \A q \in Session \ {s} : sess'[q] = sess[q]
  BY <1>1
<1>3. PhantomNeedsInterruption'
  <2> SUFFICES ASSUME NEW n \in Node, node'[n].session # None
               PROVE  LET q == node'[n].session
                      IN  sess'[q].node = n /\ sess'[q].pc \in {"bound", "serving", "closing", "lost"}
    BY DEF PhantomNeedsInterruption
  <2>1. node'[n].session = node[n].session /\ node[n].session \in Session
    BY DEF RowsKept, SessionsInv, NodeRow
  <2>2. LET q == node[n].session
        IN  sess[q].node = n /\ sess[q].pc \in {"bound", "serving", "closing", "lost"}
    BY <2>1 DEF SessionsInv, PhantomNeedsInterruption
  <2>3. QED
    BY <1>2, <2>1, <2>2
<1>4. ServingIsReachable'
  BY <1>2 DEF SessionsInv, ServingIsReachable
<1>5. BoundToANode'
  BY <1>2 DEF SessionsInv, BoundToANode
<1>6. SessionsTypeOK'
  <2>1. current' \in [Node -> Session \cup {None}]
    BY DEF SessionsInv, SessionsTypeOK
  <2>2. \A n \in Node : current'[n] # None =>
          sess'[current'[n]].node = n /\ sess'[current'[n]].pc \in {"serving", "closing", "closed"}
    BY <1>2 DEF SessionsInv, SessionsTypeOK
  <2>3. QED
    BY <1>2, <2>1, <2>2 DEF SessionsTypeOK
<1>7. QED
  BY <1>3, <1>4, <1>5, <1>6 DEF SessionsInv, RowsKept

-----------------------------------------------------------------------------
(* One lemma for each group of steps.                                      *)

\* hello, attest and the failures between them.
LEMMA HandshakeSteps ==
    ASSUME SessionsInv, NEW s \in Session,
           \/ \E n \in Node : Hello(s, n)
           \/ Attest(s) \/ AttestInterrupted(s) \/ HandshakeFails(s)
    PROVE  SessionsInv'
<1> USE DEF At, Goto, SessionStates
<1>t. /\ node \in [Node -> NodeRow] /\ ending \subseteq Node /\ sweeping \in BOOLEAN
      /\ sess \in [Session -> [pc: SessionStates, node: Node \cup {None}]]
      /\ current \in [Node -> Session \cup {None}]
      /\ \A n \in Node : node[n].session \in Session \cup {None}
      /\ None \notin Session
  BY NoneAssumption DEF SessionsInv, SessionsTypeOK, NodeRow
<1>u. ASSUME At(s, "challenged") \/ At(s, "idle")
      PROVE  /\ \A n \in Node : current[n] # s
             /\ \A n \in Node : node[n].session # s
  BY <1>t, <1>u DEF SessionsInv, SessionsTypeOK, PhantomNeedsInterruption
<1>1. ASSUME NEW n \in Node, Hello(s, n) PROVE SessionsInv'
  <2>1. /\ UNCHANGED <<node, current, ending, sweeping>> /\ sess'[s].node = n
        /\ sess' \in [Session -> [pc: SessionStates, node: Node \cup {None}]]
        /\ sess'[s].pc \in {"closed", "challenged"}
        /\ \A q \in Session \ {s} : sess'[q] = sess[q]
    BY <1>1, <1>t DEF Hello
  <2>2. /\ \A m \in Node : current[m] # s
        /\ \A m \in Node : node[m].session # s
    BY <1>1, <1>u DEF Hello
  <2>3. PhantomNeedsInterruption'
    BY <2>1, <2>2, <1>t DEF SessionsInv, PhantomNeedsInterruption
  <2>4. ServingIsReachable' /\ BoundToANode'
    BY <2>1 DEF SessionsInv, ServingIsReachable, BoundToANode
  <2>5. SessionsTypeOK'
    BY <2>1, <2>2, <1>t DEF SessionsInv, SessionsTypeOK
  <2>6. QED
    BY <2>1, <2>3, <2>4, <2>5, <1>t DEF SessionsInv
<1>2. ASSUME NEW pc \in {"bound", "lost"}, At(s, "challenged"), AttachSession(sess[s].node, s, 0),
             Goto(s, pc), UNCHANGED <<current, ending, sweeping>>
      PROVE  SessionsInv'
  <2> DEFINE n == sess[s].node
  <2>1. n \in Node
    BY <1>2 DEF SessionsInv, BoundToANode
  <2>2. /\ node' \in [Node -> NodeRow] /\ node'[n].session = s
        /\ \A m \in Node \ {n} : node'[m] = node[m]
    <3>1. 0 \in 0..Lag /\ node[n] \in NodeRow
      BY BoundsAssumption, <1>t, <2>1
    <3>2. Attached(node[n], s, 0) \in NodeRow /\ Attached(node[n], s, 0).session = s
      BY <3>1, SessionRows, Zenon
    <3>3. node' = [node EXCEPT ![n] = Attached(node[n], s, 0)]
      BY <1>2 DEF AttachSession
    <3>4. QED
      BY <1>t, <2>1, <3>2, <3>3
  <2>3. /\ sess' \in [Session -> [pc: SessionStates, node: Node \cup {None}]]
        /\ sess'[s].pc = pc /\ sess'[s].node = n
        /\ \A q \in Session \ {s} : sess'[q] = sess[q]
    BY <1>2, <1>t
  <2>4. \A m \in Node : current[m] # s
    BY <1>2, <1>u
  <2>5. PhantomNeedsInterruption'
    BY <2>1, <2>2, <2>3, <1>t, <1>u, <1>2 DEF SessionsInv, PhantomNeedsInterruption
  <2>6. ServingIsReachable' /\ BoundToANode'
    BY <1>2, <2>1, <2>3 DEF SessionsInv, ServingIsReachable, BoundToANode
  <2>7. SessionsTypeOK'
    BY <1>2, <2>3, <2>4, <1>t DEF SessionsInv, SessionsTypeOK
  <2>8. QED
    BY <2>2, <2>5, <2>6, <2>7 DEF SessionsInv
<1>3. ASSUME NEW pc \in {"closed", "closing"}, pc = "closed" => At(s, "challenged"),
             pc = "closing" => At(s, "bound"), Goto(s, pc),
             UNCHANGED <<node, current, ending, sweeping>>
      PROVE  SessionsInv'
  <2>1. RowsKept
    BY <1>3, <1>t DEF RowsKept
  <2>2. /\ ~At(s, "idle") /\ sess' = [sess EXCEPT ![s].pc = pc]
        /\ \A n \in Node : node'[n].session = s => pc \in {"bound", "closing", "lost"}
    BY <1>3, <1>u
  <2>3. ending' \subseteq Node /\ sweeping' \in BOOLEAN
    BY <1>3, <1>t
  <2>4. QED
    BY <1>3, <2>1, <2>2, <2>3, MovesOne
<1>4. QED
  BY <1>1, <1>2, <1>3 DEF Attest, AttestInterrupted, HandshakeFails, vars
\* Adoption into the map, heartbeats, hang-ups, shutdown and removal.
LEMMA ServiceSteps ==
    ASSUME SessionsInv, NEW s \in Session,
           Adopt(s) \/ Beat(s) \/ HangUp(s) \/ ShutdownDetach(s) \/ Forget(s)
    PROVE  SessionsInv'
<1> USE DEF At, Goto, SessionStates
<1>t. /\ node \in [Node -> NodeRow] /\ ending \subseteq Node /\ sweeping \in BOOLEAN
      /\ sess \in [Session -> [pc: SessionStates, node: Node \cup {None}]]
      /\ current \in [Node -> Session \cup {None}]
      /\ \A n \in Node : node[n].session \in Session \cup {None}
      /\ None \notin Session
  BY NoneAssumption DEF SessionsInv, SessionsTypeOK, NodeRow
<1>b. ~At(s, "idle") => sess[s].node \in Node
  BY DEF SessionsInv, BoundToANode
<1> DEFINE n == sess[s].node
<1>1. CASE Adopt(s)
  <2>1. n \in Node /\ At(s, "bound") /\ UNCHANGED <<node, ending, sweeping>>
    BY <1>1, <1>b DEF Adopt
  <2>2. /\ current' \in [Node -> Session \cup {None}] /\ current'[n] = s
        /\ \A m \in Node \ {n} : current'[m] = current[m]
    BY <1>1, <1>t, <2>1 DEF Adopt
  <2>3. /\ sess' \in [Session -> [pc: SessionStates, node: Node \cup {None}]]
        /\ sess'[s].pc = "serving"
        /\ \A q \in Session : sess'[q].node = sess[q].node
        /\ \A q \in Session \ {s} :
             \/ sess'[q].pc = sess[q].pc /\ (q = current[n] => sess[q].pc # "serving")
             \/ q = current[n] /\ sess[q].pc = "serving" /\ sess'[q].pc = "closing"
    BY <1>1, <1>t DEF Adopt
  <2>4. PhantomNeedsInterruption'
    <3> SUFFICES ASSUME NEW m \in Node, node[m].session # None
                 PROVE  LET q == node[m].session
                        IN  sess'[q].node = m /\ sess'[q].pc \in {"bound", "serving", "closing", "lost"}
      BY <2>1 DEF PhantomNeedsInterruption
    <3>1. node[m].session \in Session
      BY <1>t
    <3>2. LET q == node[m].session
          IN  sess[q].node = m /\ sess[q].pc \in {"bound", "serving", "closing", "lost"}
      BY DEF SessionsInv, PhantomNeedsInterruption
    <3>3. QED
      BY <2>3, <3>1, <3>2
  <2>5. ServingIsReachable'
    <3> SUFFICES ASSUME NEW q \in Session, sess'[q].pc = "serving"
                 PROVE  current'[sess'[q].node] = q
      BY DEF ServingIsReachable
    <3>1. CASE q = s
      BY <3>1, <2>2, <2>3
    <3>2. CASE q # s
      <4>1. sess[q].pc = "serving" /\ q # current[n]
        BY <3>2, <2>3
      <4>2. current[sess[q].node] = q /\ sess[q].node \in Node
        BY <4>1 DEF SessionsInv, ServingIsReachable, BoundToANode
      <4>3. QED
        BY <4>1, <4>2, <2>2, <2>3
    <3>3. QED
      BY <3>1, <3>2
  <2>6. BoundToANode'
    BY <2>1, <2>3 DEF SessionsInv, BoundToANode
  <2>7. SessionsTypeOK'
    <3>1. ASSUME NEW m \in Node, current'[m] # None
          PROVE  /\ sess'[current'[m]].node = m
                 /\ sess'[current'[m]].pc \in {"serving", "closing", "closed"}
      <4>1. CASE m = n
        BY <4>1, <2>2, <2>3
      <4>2. CASE m # n
        <5>1. current'[m] = current[m] /\ current[m] \in Session
          BY <4>2, <3>1, <2>2
        <5>2. /\ sess[current[m]].node = m
              /\ sess[current[m]].pc \in {"serving", "closing", "closed"}
          BY <3>1, <5>1 DEF SessionsInv, SessionsTypeOK
        <5>3. current[m] # s
          BY <4>2, <5>2
        <5>4. QED
          BY <5>1, <5>2, <5>3, <2>3
      <4>3. QED
        BY <4>1, <4>2
    <3>2. QED
      BY <3>1, <2>1, <2>2, <2>3, <1>t DEF SessionsTypeOK
  <2>8. QED
    BY <2>1, <2>4, <2>5, <2>6, <2>7, <1>t DEF SessionsInv
<1>2. ASSUME RecordHeartbeat(n, s, 0), ~At(s, "idle"), UNCHANGED <<sess, current, ending, sweeping>>
      PROVE  SessionsInv'
  <2>1. n \in Node /\ 0 \in 0..Lag
    BY <1>2, <1>b, BoundsAssumption
  <2>2. node[n] \in NodeRow
    BY <1>t, <2>1
  <2>3. Beaten(node[n], 0) \in NodeRow /\ Beaten(node[n], 0).session = node[n].session
    BY <2>1, <2>2, SessionRows, Zenon
  <2>4. node' = [node EXCEPT ![n] = Beaten(node[n], 0)]
    BY <1>2 DEF RecordHeartbeat
  <2>5. RowsKept
    BY <1>t, <2>1, <2>3, <2>4 DEF RowsKept
  <2>6. QED
    BY <1>2, <1>t, <2>5, RowsOnly
<1>3. ASSUME At(s, "serving"), Goto(s, "closing"), UNCHANGED <<node, current, ending, sweeping>>
      PROVE  SessionsInv'
  <2>1. RowsKept
    BY <1>3, <1>t DEF RowsKept
  <2>2. QED
    BY <1>3, <1>t, <2>1, MovesOne
<1>4. CASE Beat(s)
  BY <1>2, <1>3, <1>4 DEF Beat, vars
<1>5. CASE HangUp(s)
  BY <1>3, <1>5 DEF HangUp
<1>6. CASE ShutdownDetach(s)
  <2>1. n \in Node /\ At(s, "closing") /\ sess' = [sess EXCEPT ![s].pc = "closed"]
    BY <1>6, <1>b DEF ShutdownDetach
  <2>2. UNCHANGED <<current, ending, sweeping>>
    BY <1>6 DEF ShutdownDetach
  <2>3. RowsKept /\ node'[n].session # s
    <3>1. CASE DetachSession(n, s)
      <4>1. node[n] \in NodeRow
        BY <1>t, <2>1
      <4>2. Detached(node[n]) \in NodeRow /\ Detached(node[n]).session = None
        BY <4>1, NodeRowOps, DetachedFields
      <4>3. node' = [node EXCEPT ![n] = Detached(node[n])]
        BY <3>1 DEF DetachSession
      <4>4. QED
        BY <1>t, <2>1, <4>2, <4>3 DEF RowsKept
    <3>2. CASE node[n].session # s /\ UNCHANGED vars
      BY <1>t, <3>2 DEF RowsKept, vars
    <3>3. QED
      BY <1>6, <3>1, <3>2 DEF ShutdownDetach
  <2>4. \A m \in Node : node'[m].session # s
    <3> SUFFICES ASSUME NEW m \in Node, node'[m].session = s PROVE FALSE
      OBVIOUS
    <3>1. node[m].session = s
      BY <2>3, <1>t DEF RowsKept
    <3>2. m = n
      BY <3>1, <1>t DEF SessionsInv, PhantomNeedsInterruption
    <3>3. QED
      BY <3>2, <2>3
  <2>5. QED
    BY <1>t, <2>1, <2>2, <2>3, <2>4, MovesOne
<1>7. CASE Forget(s)
  <2>1. /\ UNCHANGED <<node, sess, ending, sweeping>> /\ n \in Node /\ current[n] = s
        /\ sess[s].pc \in {"closing", "closed"}
    BY <1>7, <1>b DEF Forget
  <2>2. /\ current' \in [Node -> Session \cup {None}] /\ current'[n] = None
        /\ \A m \in Node \ {n} : current'[m] = current[m]
    BY <1>7, <1>t, <2>1 DEF Forget
  <2>3. ServingIsReachable'
    BY <2>1, <2>2 DEF SessionsInv, ServingIsReachable, BoundToANode
  <2>4. SessionsTypeOK'
    BY <2>1, <2>2, <1>t DEF SessionsInv, SessionsTypeOK
  <2>5. PhantomNeedsInterruption' /\ BoundToANode'
    BY <2>1 DEF SessionsInv, PhantomNeedsInterruption, BoundToANode
  <2>6. QED
    BY <2>1, <2>3, <2>4, <2>5, <1>t DEF SessionsInv
<1>8. QED
  BY <1>1, <1>4, <1>5, <1>6, <1>7
\* Revocation and what follows it, the sweeper, the clock and restarts.
LEMMA OperatorSteps ==
    ASSUME SessionsInv,
           \/ \E n \in Node : Revoke(n) \/ Terminate(n)
           \/ \E lag \in 0..Lag : Sweep(lag)
           \/ SweeperDies \/ SessionTick \/ Restart
    PROVE  SessionsInv'
<1> USE DEF At, SessionStates
<1>t. /\ node \in [Node -> NodeRow] /\ ending \subseteq Node /\ sweeping \in BOOLEAN
      /\ sess \in [Session -> [pc: SessionStates, node: Node \cup {None}]]
      /\ current \in [Node -> Session \cup {None}]
      /\ None \notin Session
  BY NoneAssumption DEF SessionsInv, SessionsTypeOK
<1>d. \A r \in NodeRow : Detached(r) \in NodeRow /\ Detached(r).session = None
  BY NodeRowOps, DetachedFields
<1>o. \A r \in NodeRow : Older(r) \in NodeRow /\ Older(r).session = r.session
  BY NodeRowOps, KeptFields
<1>1. ASSUME NEW n \in Node, Revoke(n) PROVE SessionsInv'
  <2>1. node[n] \in NodeRow
    BY <1>t
  <2>2. Revoked(node[n]) \in NodeRow /\ Revoked(node[n]).session = None
    BY <2>1, NodeRowOps DEF NodeRow, Revoked
  <2>3. /\ node' = [node EXCEPT ![n] = Revoked(node[n])]
        /\ ending' \subseteq Node /\ UNCHANGED <<sess, current, sweeping>>
    BY <1>1, <1>t DEF Revoke, RevokeNode
  <2>4. RowsKept
    BY <1>t, <2>2, <2>3 DEF RowsKept
  <2>5. QED
    BY <1>t, <2>3, <2>4, RowsOnly
<1>2. ASSUME NEW n \in Node, Terminate(n) PROVE SessionsInv'
  <2> DEFINE s == current[n]
  <2>1. /\ UNCHANGED <<node, current, sweeping>> /\ ending' \subseteq Node
        /\ sess' = IF s # None /\ At(s, "serving") THEN [sess EXCEPT ![s].pc = "closing"] ELSE sess
    BY <1>2, <1>t DEF Terminate
  <2>2. RowsKept
    BY <1>t, <2>1 DEF RowsKept
  <2>3. CASE s # None /\ At(s, "serving")
    <3>1. s \in Session /\ ~At(s, "idle") /\ sess' = [sess EXCEPT ![s].pc = "closing"]
      BY <1>t, <2>1, <2>3
    <3>2. QED
      BY <1>t, <2>1, <2>2, <3>1, MovesOne
  <2>4. CASE ~(s # None /\ At(s, "serving"))
    BY <1>t, <2>1, <2>2, <2>4, RowsOnly
  <2>5. QED
    BY <2>3, <2>4
<1>3. ASSUME NEW lag \in 0..Lag, Sweep(lag) PROVE SessionsInv'
  <2>1. PICK expired : node' = [n \in Node |-> IF n \in expired THEN Detached(node[n]) ELSE node[n]]
    BY <1>3 DEF Sweep, SweepExpiredHeartbeats
  <2>2. RowsKept
    BY <1>t, <1>d, <2>1 DEF RowsKept
  <2>3. UNCHANGED <<sess, current, ending, sweeping>>
    BY <1>3 DEF Sweep
  <2>4. QED
    BY <1>t, <2>2, <2>3, RowsOnly
<1>4. CASE SweeperDies
  <2>1. RowsKept /\ UNCHANGED <<sess, current, ending>> /\ sweeping' \in BOOLEAN
    BY <1>4, <1>t DEF SweeperDies, RowsKept
  <2>2. QED
    BY <1>t, <2>1, RowsOnly
<1>5. CASE SessionTick
  <2>1. node' = [n \in Node |-> Older(node[n])] /\ UNCHANGED <<sess, current, ending, sweeping>>
    BY <1>5 DEF SessionTick, Tick
  <2>2. RowsKept
    BY <1>t, <1>o, <2>1 DEF RowsKept
  <2>3. QED
    BY <1>t, <2>1, <2>2, RowsOnly
<1>6. CASE Restart
  <2>1. node' = [n \in Node |-> Detached(node[n])]
    BY <1>6 DEF Restart, RecoverAfterRestart
  <2>2. /\ sess' \in [Session -> [pc: SessionStates, node: Node \cup {None}]]
        /\ \A s \in Session : sess'[s].pc \in {"idle", "closed"} /\ sess'[s].node = sess[s].node
        /\ \A s \in Session : sess'[s].pc # "idle" => sess[s].pc # "idle"
    BY <1>6, <1>t DEF Restart
  <2>3. current' = [n \in Node |-> None] /\ ending' = {} /\ sweeping' = TRUE
    BY <1>6 DEF Restart
  <2>4. node' \in [Node -> NodeRow] /\ \A n \in Node : node'[n].session = None
    BY <1>t, <1>d, <2>1
  <2>5. QED
    BY <2>2, <2>3, <2>4
       DEF SessionsInv, SessionsTypeOK, BoundToANode, PhantomNeedsInterruption, ServingIsReachable
<1>7. QED
  BY <1>1, <1>2, <1>3, <1>4, <1>5, <1>6

-----------------------------------------------------------------------------
(* The theorems.                                                           *)

\* Every reachable state of the connections satisfies the inductive invariant.
THEOREM SessionsConsistent == SSpec => []SessionsInv
<1>1. SInit => SessionsInv
  <2> SUFFICES ASSUME SInit PROVE SessionsInv
    OBVIOUS
  <2>1. PICK k \in Key, t \in Token : node = [n \in Node |-> Enrolled(k, t)]
    BY SessionsAssumption DEF SInit
  <2>2. Enrolled(k, t) \in NodeRow /\ Enrolled(k, t).session = None
    BY NodeRowOps, EnrolledFields
  <2>3. node \in [Node -> NodeRow] /\ \A n \in Node : node[n].session = None
    BY <2>1, <2>2
  <2>4. QED
    BY <2>3 DEF SInit, SessionsInv, SessionsTypeOK, BoundToANode, PhantomNeedsInterruption,
                ServingIsReachable, NoSession, At, SessionStates
<1>2. SessionsInv /\ [SNext]_svars => SessionsInv'
  <2> SUFFICES ASSUME SessionsInv, [SNext]_svars PROVE SessionsInv'
    OBVIOUS
  <2>1. CASE UNCHANGED svars
    <3>1. UNCHANGED <<node, sess, current, ending, sweeping>>
      BY <2>1 DEF svars
    <3>2. QED
      BY <3>1 DEF SessionsInv, SessionsTypeOK, BoundToANode, PhantomNeedsInterruption,
                  ServingIsReachable, At
  <2>2. CASE SNext
    BY <2>2, HandshakeSteps, ServiceSteps, OperatorSteps DEF SNext
  <2>3. QED
    BY <2>1, <2>2
<1>3. QED
  BY <1>1, <1>2, PTL DEF SSpec

\* Session objects and the map of live sessions are of their types, and the map
\* holds sessions that completed their handshake, under their own node.
THEOREM SessionsTyped == SSpec => []SessionsTypeOK
BY SessionsConsistent, PTL DEF SessionsInv

\* Whatever connections, replacements, failures, revocations, sweeps and
\* restarts do, a node row names a session with nothing behind it only after
\* an interrupted commit of attach_session.
THEOREM PhantomsExplained == SSpec => []PhantomNeedsInterruption
BY SessionsConsistent, PTL DEF SessionsInv

\* The session in service for a node is the one dispatch.session_for finds.
THEOREM ServingReachable == SSpec => []ServingIsReachable
BY SessionsConsistent, PTL DEF SessionsInv
=============================================================================
