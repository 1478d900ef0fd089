------------------------- MODULE NodeRegistryProofs -------------------------
(***************************************************************************)
(* Proofs that the registry's transactions keep its tables and its audit   *)
(* trail consistent, for every number of nodes, tokens, sessions and jobs. *)
(***************************************************************************)
EXTENDS NodeRegistry, TLAPS

USE NoneAssumption, BoundsAssumption

\* What each operation writes into a node row is again a node row.
LEMMA NodeRowOps ==
    /\ NoNode \in NodeRow
    /\ \A k \in Key, t \in Token : Enrolled(k, t) \in NodeRow
    /\ \A r \in NodeRow, s \in Session, lag \in 0..Lag : Attached(r, s, lag) \in NodeRow
    /\ \A r \in NodeRow :
         /\ Detached(r) \in NodeRow /\ \A lag \in 0..Lag : Beaten(r, lag) \in NodeRow
         /\ Quarantined(r) \in NodeRow /\ Restored(r) \in NodeRow
         /\ Revoked(r) \in NodeRow /\ Older(r) \in NodeRow
<1> USE DEF NodeRow, NoNode
<1>1. 0 \in 0..AgeCap /\ \A lag \in 0..Lag : lag \in 0..AgeCap
  BY DEF AgeCap
<1>2. NoNode \in NodeRow /\ \A k \in Key, t \in Token : Enrolled(k, t) \in NodeRow
  BY <1>1 DEF Enrolled
<1>3. \A r \in NodeRow, s \in Session, lag \in 0..Lag : Attached(r, s, lag) \in NodeRow
  BY <1>1 DEF Attached
<1>4. ASSUME NEW r \in NodeRow
      PROVE  Detached(r) \in NodeRow /\ \A lag \in 0..Lag : Beaten(r, lag) \in NodeRow
  BY <1>1 DEF Detached, Beaten
<1>5. ASSUME NEW r \in NodeRow
      PROVE  Quarantined(r) \in NodeRow /\ Restored(r) \in NodeRow /\ Revoked(r) \in NodeRow
  BY DEF Quarantined, Restored, Revoked
<1>6. ASSUME NEW r \in NodeRow PROVE Older(r) \in NodeRow
  <2>1. (IF r.seen /\ r.age < AgeCap THEN r.age + 1 ELSE r.age) \in 0..AgeCap
    BY DEF AgeCap
  <2>2. QED
    BY <2>1 DEF Older
<1>7. QED
  BY <1>2, <1>3, <1>4, <1>5, <1>6

\* The same for enrollment tokens: minted, revoked, consumed or one tick older.
LEMMA TokenRowOps ==
    /\ NoToken \in TokenRow /\ Minted \in TokenRow
    /\ \A r \in TokenRow : Withdrawn(r) \in TokenRow /\ NearerExpiry(r) \in TokenRow
    /\ \A r \in TokenRow, n \in Node : Consumed(r, n) \in TokenRow
<1> USE DEF TokenRow, NoToken
<1>1. 0 \in 0..Ttl /\ Ttl \in 0..Ttl
  OBVIOUS
<1>2. NoToken \in TokenRow /\ Minted \in TokenRow
  BY <1>1 DEF Minted
<1>3. \A r \in TokenRow : Withdrawn(r) \in TokenRow
  BY DEF Withdrawn
<1>4. \A r \in TokenRow, n \in Node : Consumed(r, n) \in TokenRow
  BY DEF Consumed
<1>5. ASSUME NEW r \in TokenRow PROVE NearerExpiry(r) \in TokenRow
  <2>1. (IF r.ttl > 0 THEN r.ttl - 1 ELSE 0) \in 0..Ttl
    OBVIOUS
  <2>2. QED
    BY <2>1 DEF NearerExpiry
<1>6. QED
  BY <1>2, <1>3, <1>4, <1>5

\* Every operation of the registry keeps the tables well typed.
THEOREM TypeCorrect == Spec => []TypeOK
<1>1. Init => TypeOK
  BY NodeRowOps, TokenRowOps DEF Init, TypeOK
<1>2. TypeOK /\ [Next]_vars => TypeOK'
  <2> SUFFICES ASSUME TypeOK, [Next]_vars PROVE TypeOK'
    OBVIOUS
  <2> USE DEF TypeOK
  <2>1. ASSUME NEW t \in Token, IssueToken(t) PROVE TypeOK'
    BY <2>1, TokenRowOps DEF IssueToken
  <2>2. ASSUME NEW t \in Token, RevokeToken(t) PROVE TypeOK'
    BY <2>2, TokenRowOps DEF RevokeToken
  <2>3. ASSUME NEW t \in Token, NEW n \in Node, NEW k \in Key, NEW b \in BOOLEAN,
               RedeemToken(t, n, k, b)
        PROVE  TypeOK'
    BY <2>3, NodeRowOps, TokenRowOps DEF RedeemToken
  <2>4. ASSUME NEW t \in Token, NEW k \in Key, NEW b \in BOOLEAN, NEW g \in BOOLEAN,
               RefuseRedemption(t, k, b, g)
        PROVE  TypeOK'
    BY <2>4 DEF RefuseRedemption
  <2>5. ASSUME NEW n \in Node, NEW s \in Session, NEW lag \in 0..Lag,
               AttachSession(n, s, lag)
        PROVE  TypeOK'
    BY <2>5, NodeRowOps DEF AttachSession
  <2>6. ASSUME NEW n \in Node, NEW s \in Session, DetachSession(n, s) PROVE TypeOK'
    BY <2>6, NodeRowOps DEF DetachSession
  <2>7. ASSUME NEW n \in Node, NEW s \in Session, NEW lag \in 0..Lag,
               RecordHeartbeat(n, s, lag)
        PROVE  TypeOK'
    BY <2>7, NodeRowOps DEF RecordHeartbeat
  <2>8. ASSUME NEW lag \in 0..Lag, SweepExpiredHeartbeats(lag) PROVE TypeOK'
    BY <2>8, NodeRowOps DEF SweepExpiredHeartbeats
  <2>9. CASE RecoverAfterRestart
    BY <2>9, NodeRowOps DEF RecoverAfterRestart, TerminalStatuses
  <2>10. ASSUME NEW j \in Job, NEW st \in ActiveStatuses \cup TerminalStatuses,
                UpsertJob(j, st)
         PROVE  TypeOK'
    BY <2>10 DEF UpsertJob
  <2>11. ASSUME NEW n \in Node, QuarantineNode(n) \/ RestoreNode(n) \/ RevokeNode(n)
         PROVE  TypeOK'
    BY <2>11, NodeRowOps DEF QuarantineNode, RestoreNode, RevokeNode
  <2>12. CASE FreezeDispatch
    BY <2>12 DEF FreezeDispatch
  <2>13. ASSUME NEW e \in 0..MaxEpoch, UnfreezeDispatch(e) PROVE TypeOK'
    BY <2>13 DEF UnfreezeDispatch
  <2>14. CASE Tick
    BY <2>14, NodeRowOps, TokenRowOps DEF Tick
  <2>15. CASE UNCHANGED vars
    BY <2>15 DEF vars
  <2>16. QED
    BY <2>1, <2>2, <2>3, <2>4, <2>5, <2>6, <2>7, <2>8, <2>9, <2>10, <2>11,
       <2>12, <2>13, <2>14, <2>15 DEF Next
<1>3. QED
  BY <1>1, <1>2, PTL DEF Spec

-----------------------------------------------------------------------------
(* The rows an operation writes, field by field.                           *)

\* Each operation changes the fields it is about and keeps the identity of the
\* node: its key, its token and, except for RevokeNode, its revocation stamp.
LEMMA EnrolledFields ==
    ASSUME NEW k \in Key, NEW t \in Token
    PROVE  /\ Enrolled(k, t).key = k /\ Enrolled(k, t).token = t
           /\ Enrolled(k, t).session = None /\ Enrolled(k, t).revoked = FALSE
BY DEF NoNode, Enrolled

LEMMA AttachedFields ==
    ASSUME NEW r \in NodeRow, NEW s, NEW lag
    PROVE  /\ Attached(r, s, lag).key = r.key /\ Attached(r, s, lag).token = r.token
           /\ Attached(r, s, lag).session = s /\ Attached(r, s, lag).revoked = r.revoked
BY DEF NodeRow, Attached

\* What a heartbeat, quarantine, restoration or the clock leave alone.
LEMMA KeptFields ==
    ASSUME NEW r \in NodeRow, NEW lag,
           NEW q \in {Beaten(r, lag), Quarantined(r), Restored(r), Older(r)}
    PROVE  /\ q.key = r.key /\ q.token = r.token
           /\ q.session = r.session /\ q.revoked = r.revoked
BY DEF NodeRow, Beaten, Quarantined, Restored, Older

LEMMA DetachedFields ==
    ASSUME NEW r \in NodeRow
    PROVE  /\ Detached(r).key = r.key /\ Detached(r).token = r.token
           /\ Detached(r).session = None /\ Detached(r).revoked = r.revoked
BY DEF NodeRow, Detached

\* Only a redemption changes who consumed a token, and time and revocation
\* never bring a dead token back.
LEMMA TokenRowFields ==
    /\ Minted.issued = TRUE /\ Minted.consumedBy = None
    /\ \A r \in TokenRow : \A q \in {Withdrawn(r), NearerExpiry(r)} :
         q.issued = r.issued /\ q.consumedBy = r.consumedBy
    /\ \A r \in TokenRow, n \in Node :
         Consumed(r, n).issued = r.issued /\ Consumed(r, n).consumedBy = n
BY DEF TokenRow, NoToken, Minted, Withdrawn, NearerExpiry, Consumed

-----------------------------------------------------------------------------
(* The inductive invariant, first the tables, then sessions, then freezes. *)

\* A token is consumed by the one node that names it.
LEMMA EnrollmentPreserved ==
    ASSUME TypeOK, UnissuedIsUnused, EnrollmentSingleUse, [Next]_vars
    PROVE  UnissuedIsUnused' /\ EnrollmentSingleUse'
<1> DEFINE Goal == UnissuedIsUnused /\ EnrollmentSingleUse
<1> USE DEF TypeOK, UnissuedIsUnused, EnrollmentSingleUse, Known
<1>1. ASSUME NEW t \in Token, IssueToken(t) \/ RevokeToken(t) PROVE Goal'
  <2>1. UNCHANGED node /\ \A u \in Token \ {t} : token'[u] = token[u]
    BY <1>1 DEF IssueToken, RevokeToken
  <2>2. CASE IssueToken(t)
    <3>1. ~token[t].issued /\ token'[t] \in {token[t], Minted}
      BY <2>2 DEF IssueToken
    <3>2. Minted.consumedBy = None
      BY DEF Minted, NoToken
    <3>3. token'[t].consumedBy = token[t].consumedBy \/ token'[t].consumedBy = None
      BY <3>1, <3>2
    <3>4. token[t].consumedBy = None
      BY <3>1
    <3>5. QED
      BY <2>1, <3>1, <3>3, <3>4
  <2>3. CASE RevokeToken(t)
    <3>1. token'[t].issued = token[t].issued /\ token'[t].consumedBy = token[t].consumedBy
      BY <2>3, TokenRowFields DEF RevokeToken
    <3>2. QED
      BY <2>1, <3>1
  <2>4. QED
    BY <1>1, <2>2, <2>3
<1>2. ASSUME NEW t \in Token, NEW n \in Node, NEW k \in Key, NEW b \in BOOLEAN,
             RedeemToken(t, n, k, b)
      PROVE  Goal'
  <2>1. token[t].issued /\ token[t].consumedBy = None
    BY <1>2 DEF RedeemToken, EnrollmentFailure
  <2>2. \A m \in Node \ {n} : node'[m] = node[m]
    BY <1>2 DEF RedeemToken
  <2>3. \A u \in Token \ {t} : token'[u] = token[u]
    BY <1>2 DEF RedeemToken
  <2>4. node'[n].token = t /\ token'[t].consumedBy = n /\ token'[t].issued = TRUE
    <3>1. node'[n] = Enrolled(k, t) /\ token'[t] = Consumed(token[t], n) /\ token[t] \in TokenRow
      BY <1>2 DEF RedeemToken
    <3>2. token[t].issued = TRUE
      BY <2>1, <3>1 DEF TokenRow
    <3>3. token'[t].issued = token[t].issued /\ token'[t].consumedBy = n
      BY <3>1 DEF Consumed, TokenRow
    <3>4. node'[n].token = t
      BY <3>1, EnrolledFields
    <3>5. QED
      BY <3>2, <3>3, <3>4, Zenon
  <2>5. QED
    BY <2>1, <2>2, <2>3, <2>4
<1>3. ASSUME UNCHANGED token,
             \A n \in Node : node'[n].key = node[n].key /\ node'[n].token = node[n].token
      PROVE  Goal'
  BY <1>3
<1>4. ASSUME NEW n \in Node, NEW s \in Session, NEW lag \in 0..Lag,
             AttachSession(n, s, lag) \/ DetachSession(n, s) \/ RecordHeartbeat(n, s, lag)
      PROVE  Goal'
  BY <1>3, <1>4, AttachedFields, DetachedFields, KeptFields DEF AttachSession, DetachSession, RecordHeartbeat
<1>5. ASSUME NEW lag \in 0..Lag, SweepExpiredHeartbeats(lag) PROVE Goal'
  BY <1>3, <1>5, DetachedFields DEF SweepExpiredHeartbeats
<1>6. CASE RecoverAfterRestart
  BY <1>3, <1>6, DetachedFields DEF RecoverAfterRestart
<1>7. ASSUME NEW n \in Node, QuarantineNode(n) \/ RestoreNode(n) \/ RevokeNode(n)
      PROVE  Goal'
  <2>1. /\ node[n] \in NodeRow
        /\ node'[n] \in {Quarantined(node[n]), Restored(node[n]), Revoked(node[n])}
        /\ UNCHANGED token /\ \A m \in Node \ {n} : node'[m] = node[m]
    BY <1>7 DEF QuarantineNode, RestoreNode, RevokeNode
  <2>2. node'[n].key = node[n].key /\ node'[n].token = node[n].token
    <3> HIDE DEF TypeOK, UnissuedIsUnused, EnrollmentSingleUse
    <3>1. CASE node'[n] = Revoked(node[n])
      BY <2>1, <3>1 DEF Revoked, NodeRow
    <3>2. QED
      BY <2>1, <3>1, KeptFields
  <2>3. QED
    BY <1>3, <2>1, <2>2
<1>8. CASE Tick
  <2>1. \A n \in Node : node'[n].key = node[n].key /\ node'[n].token = node[n].token
    BY <1>8, KeptFields DEF Tick
  <2>2. \A t \in Token : token'[t].issued = token[t].issued
                            /\ token'[t].consumedBy = token[t].consumedBy
    BY <1>8, TokenRowFields DEF Tick
  <2>3. QED
    BY <2>1, <2>2
<1>9. CASE \/ \E t \in Token, k \in Key, b, g \in BOOLEAN : RefuseRedemption(t, k, b, g)
           \/ \E j \in Job, st \in ActiveStatuses \cup TerminalStatuses : UpsertJob(j, st)
           \/ FreezeDispatch
           \/ \E e \in 0..MaxEpoch : UnfreezeDispatch(e)
           \/ UNCHANGED vars
  BY <1>9 DEF RefuseRedemption, UpsertJob, FreezeDispatch, UnfreezeDispatch, vars
<1> HIDE DEF TypeOK, UnissuedIsUnused, EnrollmentSingleUse, Known
<1>10. QED
  BY <1>1, <1>2, <1>4, <1>5, <1>6, <1>7, <1>8, <1>9 DEF Next

\* The session in a row is the one the audit trail says is open, and a revoked
\* node has none.
LEMMA SessionsPreserved ==
    ASSUME TypeOK, RevokedHasNoSession, SessionIsAudited, EventsFollowOpening, [Next]_vars
    PROVE  RevokedHasNoSession' /\ SessionIsAudited' /\ EventsFollowOpening'
<1> DEFINE Goal == RevokedHasNoSession /\ SessionIsAudited /\ EventsFollowOpening
           SameEvents == \A n \in Node, s \in Session :
                            /\ Opened(n, s) \in audit' <=> Opened(n, s) \in audit
                            /\ Closed(n, s) \in audit' <=> Closed(n, s) \in audit
                            /\ HeartbeatExpired(n, s) \in audit'
                                  <=> HeartbeatExpired(n, s) \in audit
<1> SUFFICES Goal'
  OBVIOUS
<1>0. \A n \in Node : node[n].session \in Session \cup {None}
  BY DEF TypeOK, NodeRow
<1> USE DEF RevokedHasNoSession, SessionIsAudited, EventsFollowOpening
\* Steps that add no session event and only drop sessions of revoked nodes.
<1>1. ASSUME SameEvents,
             \A n \in Node : /\ node'[n].session \in {node[n].session, None}
                             /\ node'[n].revoked => node[n].revoked \/ node'[n].session = None
      PROVE  Goal'
  BY <1>0, <1>1
<1>2. ASSUME NEW a, NEW x, NEW y, Append1(Event(a, x, y)),
             a \notin {"SESSION_OPENED", "SESSION_CLOSED", "HEARTBEAT_EXPIRED"}
      PROVE  SameEvents
  BY <1>2 DEF Append1, Opened, Closed, HeartbeatExpired, Event
<1>3. ASSUME UNCHANGED node, SameEvents PROVE Goal'
  BY <1>0, <1>1, <1>3
<1>4. ASSUME NEW t \in Token, IssueToken(t) \/ RevokeToken(t) PROVE Goal'
  BY <1>2, <1>3, <1>4 DEF IssueToken, RevokeToken
<1>5. ASSUME NEW t \in Token, NEW n \in Node, NEW k \in Key, NEW b \in BOOLEAN,
             RedeemToken(t, n, k, b)
      PROVE  Goal'
  <2>1. SameEvents
    BY <1>2, <1>5 DEF RedeemToken, Redeemed
  <2>2. \A m \in Node : node'[m] = node[m] \/ (node'[m].session = None /\ ~node'[m].revoked)
    <3> HIDE DEF RevokedHasNoSession, SessionIsAudited, EventsFollowOpening
    <3>1. node' = [node EXCEPT ![n] = Enrolled(k, t)] /\ node \in [Node -> NodeRow]
      BY <1>5 DEF RedeemToken, TypeOK
    <3>2. Enrolled(k, t).session = None /\ Enrolled(k, t).revoked = FALSE
      BY <1>5, EnrolledFields
    <3>3. QED
      BY <3>1, <3>2
  <2>3. QED
    BY <1>1, <2>1, <2>2
<1>6. ASSUME NEW t \in Token, NEW k \in Key, NEW b \in BOOLEAN, NEW g \in BOOLEAN,
             RefuseRedemption(t, k, b, g)
      PROVE  Goal'
  BY <1>2, <1>3, <1>6 DEF RefuseRedemption
<1>7. ASSUME NEW n \in Node, NEW s \in Session, NEW lag \in 0..Lag,
             Fresh(s), AttachSession(n, s, lag)
      PROVE  Goal'
  <2>1. /\ node'[n].session = s /\ ~node'[n].revoked
        /\ \A m \in Node \ {n} : node'[m] = node[m]
    <3>1. /\ node' = [node EXCEPT ![n] = Attached(node[n], s, lag)] /\ ~node[n].revoked
          /\ node \in [Node -> NodeRow]
      BY <1>7 DEF AttachSession, TypeOK
    <3>2. QED
      BY <3>1, AttachedFields
  <2>2. \A m \in Node, q \in Session :
           /\ Opened(m, q) \in audit' <=> Opened(m, q) \in audit \/ (m = n /\ q = s)
           /\ Closed(m, q) \in audit' <=> Closed(m, q) \in audit
           /\ HeartbeatExpired(m, q) \in audit' <=> HeartbeatExpired(m, q) \in audit
    BY <1>7 DEF AttachSession, Append1, Opened, Closed, HeartbeatExpired, Event
  <2>3. \A m \in Node : /\ Opened(m, s) \notin audit /\ Closed(m, s) \notin audit
                        /\ HeartbeatExpired(m, s) \notin audit /\ node[m].session # s
    BY <1>0, <1>7 DEF Fresh
  <2>4. QED
    BY <1>0, <2>1, <2>2, <2>3
<1>8. ASSUME NEW n \in Node, NEW s \in Session, DetachSession(n, s) PROVE Goal'
  <2>1. /\ node[n].session = s /\ node'[n].session = None
        /\ \A m \in Node \ {n} : node'[m] = node[m]
    BY <1>8, DetachedFields DEF DetachSession, TypeOK
  <2>2. \A m \in Node, q \in Session :
           /\ Opened(m, q) \in audit' <=> Opened(m, q) \in audit
           /\ Closed(m, q) \in audit' <=> Closed(m, q) \in audit \/ (m = n /\ q = s)
           /\ HeartbeatExpired(m, q) \in audit' <=> HeartbeatExpired(m, q) \in audit
    BY <1>8 DEF DetachSession, Append1, Opened, Closed, HeartbeatExpired, Event
  <2>3. QED
    BY <1>0, <2>1, <2>2
<1>9. ASSUME NEW n \in Node, NEW s \in Session, NEW lag \in 0..Lag,
             RecordHeartbeat(n, s, lag)
      PROVE  Goal'
  <2>1. \A m \in Node : node'[m].session = node[m].session /\ node'[m].revoked = node[m].revoked
    BY <1>9, KeptFields DEF RecordHeartbeat, TypeOK
  <2>2. QED
    BY <1>1, <1>9, <2>1 DEF RecordHeartbeat
<1>10. ASSUME NEW lag \in 0..Lag, SweepExpiredHeartbeats(lag) PROVE Goal'
  <2> DEFINE expired == {n \in Node : Expired(node[n], lag)}
  <2>1. \A m \in Node : /\ m \in expired => node'[m].session = None /\ node[m].session # None
                        /\ m \notin expired => node'[m] = node[m]
    BY <1>10, DetachedFields DEF SweepExpiredHeartbeats, Expired, TypeOK
  <2>2. \A m \in Node, q \in Session :
           /\ Opened(m, q) \in audit' <=> Opened(m, q) \in audit
           /\ Closed(m, q) \in audit' <=> Closed(m, q) \in audit
           /\ HeartbeatExpired(m, q) \in audit'
                 <=> HeartbeatExpired(m, q) \in audit \/ (m \in expired /\ q = node[m].session)
    BY <1>10 DEF SweepExpiredHeartbeats, Opened, Closed, HeartbeatExpired, Event
  <2> HIDE DEF expired
  <2>3. QED
    BY <1>0, <2>1, <2>2
<1>11. CASE RecoverAfterRestart
  <2>1. \A m \in Node : node'[m].session = None
    BY <1>11, DetachedFields DEF RecoverAfterRestart, TypeOK
  <2>2. \A m \in Node, q \in Session :
           /\ Opened(m, q) \in audit' <=> Opened(m, q) \in audit
           /\ Closed(m, q) \in audit' =>
                 Closed(m, q) \in audit \/ (node[m].session # None /\ q = node[m].session)
           /\ HeartbeatExpired(m, q) \in audit' => HeartbeatExpired(m, q) \in audit
    BY <1>11 DEF RecoverAfterRestart, Opened, Closed, HeartbeatExpired, Event
  <2>3. QED
    BY <1>0, <2>1, <2>2
<1>12. ASSUME NEW n \in Node, QuarantineNode(n) \/ RestoreNode(n) \/ RevokeNode(n)
       PROVE  Goal'
  <2>1. SameEvents
    BY <1>2, <1>12 DEF QuarantineNode, RestoreNode, RevokeNode
  <2>2. \A m \in Node : \/ node'[m].session = None
                        \/ /\ node'[m].session = node[m].session
                           /\ node'[m].revoked = node[m].revoked
    <3>1. /\ node[n] \in NodeRow
          /\ node'[n] \in {Quarantined(node[n]), Restored(node[n]), Revoked(node[n])}
          /\ \A m \in Node \ {n} : node'[m] = node[m]
      BY <1>12 DEF QuarantineNode, RestoreNode, RevokeNode, TypeOK
    <3>2. \/ node'[n].session = None
          \/ node'[n].session = node[n].session /\ node'[n].revoked = node[n].revoked
      <4>1. CASE node'[n] = Revoked(node[n])
        BY <3>1, <4>1 DEF Revoked, NodeRow
      <4>2. QED
        BY <3>1, <4>1, KeptFields
    <3>3. QED
      BY <3>1, <3>2
  <2>3. QED
    BY <1>1, <2>1, <2>2
<1>13. CASE FreezeDispatch
  BY <1>2, <1>3, <1>13 DEF FreezeDispatch, Frozen
<1>14. ASSUME NEW e \in 0..MaxEpoch, UnfreezeDispatch(e) PROVE Goal'
  BY <1>2, <1>3, <1>14 DEF UnfreezeDispatch, Unfrozen
<1>15. CASE Tick
  <2>1. \A m \in Node : node'[m].session = node[m].session /\ node'[m].revoked = node[m].revoked
    BY <1>15, KeptFields DEF Tick, TypeOK
  <2>2. QED
    BY <1>1, <1>15, <2>1 DEF Tick
<1>16. CASE \/ \E j \in Job, st \in ActiveStatuses \cup TerminalStatuses : UpsertJob(j, st)
            \/ UNCHANGED vars
  BY <1>3, <1>16 DEF UpsertJob, vars
<1> HIDE DEF Goal, RevokedHasNoSession, SessionIsAudited, EventsFollowOpening
<1>17. QED
  BY <1>4, <1>5, <1>6, <1>7, <1>8, <1>9, <1>10, <1>11, <1>12, <1>13, <1>14, <1>15, <1>16
     DEF Next

\* The audit trail tells the state of the kill switch.
LEMMA FreezePreserved ==
    ASSUME TypeOK, FreezeMatchesAudit, NoFutureThaw, [Next]_vars
    PROVE  FreezeMatchesAudit' /\ NoFutureThaw'
<1> DEFINE Goal == FreezeMatchesAudit /\ NoFutureThaw
           SameEvents == \A e \in Nat : /\ Frozen(e) \in audit' <=> Frozen(e) \in audit
                                        /\ Unfrozen(e) \in audit' <=> Unfrozen(e) \in audit
<1>0. control.epoch \in Nat /\ control.frozen \in BOOLEAN
  BY DEF TypeOK
<1> USE DEF FreezeMatchesAudit, NoFutureThaw
<1>1. ASSUME UNCHANGED control, SameEvents PROVE Goal'
  BY <1>0, <1>1
<1>2. ASSUME NEW a, NEW x, NEW y, Append1(Event(a, x, y)),
             a \notin {"DISPATCH_FROZEN", "DISPATCH_UNFROZEN"}
      PROVE  SameEvents
  BY <1>2 DEF Append1, Frozen, Unfrozen, Event
<1>3. ASSUME UNCHANGED audit PROVE SameEvents
  BY <1>3
<1>4. CASE FreezeDispatch
  <2>1. /\ control'.epoch = control.epoch + 1 /\ control'.frozen = TRUE
        /\ control.frozen = FALSE /\ control.epoch + 1 \in 0..MaxEpoch
    BY <1>0, <1>4 DEF FreezeDispatch
  <2>2. \A e \in Nat : /\ Frozen(e) \in audit' <=> Frozen(e) \in audit \/ e = control.epoch + 1
                       /\ Unfrozen(e) \in audit' <=> Unfrozen(e) \in audit
    BY <1>4 DEF FreezeDispatch, Append1, Frozen, Unfrozen, Event
  <2>3. Unfrozen(control.epoch + 1) \notin audit
    BY <1>0, <2>1
  <2>4. QED
    BY <1>0, <2>1, <2>2, <2>3
<1>5. ASSUME NEW x \in 0..MaxEpoch, UnfreezeDispatch(x) PROVE Goal'
  <2>1. CASE x # control.epoch
    BY <1>1, <1>2, <1>5, <2>1 DEF UnfreezeDispatch
  <2>2. CASE x = control.epoch
    <3>1. control'.epoch = control.epoch /\ control'.frozen = FALSE /\ control.frozen = TRUE
      BY <1>0, <1>5, <2>2 DEF UnfreezeDispatch, TypeOK
    <3>2. \A e \in Nat : /\ Frozen(e) \in audit' <=> Frozen(e) \in audit
                         /\ Unfrozen(e) \in audit' <=> Unfrozen(e) \in audit \/ e = control.epoch
      BY <1>5, <2>2 DEF UnfreezeDispatch, Append1, Frozen, Unfrozen, Event
    <3>3. QED
      BY <1>0, <3>1, <3>2
  <2>3. QED
    BY <2>1, <2>2
<1>6. ASSUME NEW t \in Token, IssueToken(t) \/ RevokeToken(t) PROVE Goal'
  BY <1>1, <1>2, <1>6 DEF IssueToken, RevokeToken
<1>7. ASSUME NEW t \in Token, NEW n \in Node, NEW k \in Key, NEW b \in BOOLEAN,
             RedeemToken(t, n, k, b)
      PROVE  Goal'
  BY <1>1, <1>2, <1>7 DEF RedeemToken, Redeemed
<1>8. ASSUME NEW t \in Token, NEW k \in Key, NEW b \in BOOLEAN, NEW g \in BOOLEAN,
             RefuseRedemption(t, k, b, g)
      PROVE  Goal'
  BY <1>1, <1>2, <1>8 DEF RefuseRedemption
<1>9. ASSUME NEW n \in Node, NEW s \in Session, NEW lag \in 0..Lag,
             AttachSession(n, s, lag) \/ DetachSession(n, s) \/ RecordHeartbeat(n, s, lag)
      PROVE  Goal'
  BY <1>1, <1>2, <1>3, <1>9 DEF AttachSession, DetachSession, RecordHeartbeat, Opened, Closed
<1>10. ASSUME NEW lag \in 0..Lag, SweepExpiredHeartbeats(lag) PROVE Goal'
  <2>1. SameEvents
    BY <1>10 DEF SweepExpiredHeartbeats, HeartbeatExpired, Frozen, Unfrozen, Event
  <2>2. QED
    BY <1>1, <1>10, <2>1 DEF SweepExpiredHeartbeats
<1>11. CASE RecoverAfterRestart
  <2>1. SameEvents
    BY <1>11 DEF RecoverAfterRestart, Closed, Frozen, Unfrozen, Event
  <2>2. QED
    BY <1>1, <1>11, <2>1 DEF RecoverAfterRestart
<1>12. ASSUME NEW n \in Node, QuarantineNode(n) \/ RestoreNode(n) \/ RevokeNode(n)
       PROVE  Goal'
  BY <1>1, <1>2, <1>12 DEF QuarantineNode, RestoreNode, RevokeNode
<1>13. CASE \/ \E j \in Job, st \in ActiveStatuses \cup TerminalStatuses : UpsertJob(j, st)
            \/ Tick \/ UNCHANGED vars
  BY <1>1, <1>3, <1>13 DEF UpsertJob, Tick, vars
<1> HIDE DEF FreezeMatchesAudit, NoFutureThaw
<1>14. QED
  BY <1>4, <1>5, <1>6, <1>7, <1>8, <1>9, <1>10, <1>11, <1>12, <1>13 DEF Next

-----------------------------------------------------------------------------
(* What one step can do to one node row.                                   *)

SameKey(m) == node'[m].key = node[m].key
Keeps(m) == SameKey(m) /\ node'[m].session = node[m].session /\ node'[m].revoked = node[m].revoked
Enrolls(m) == ~Known(node[m]) /\ node'[m].revoked = FALSE /\ node'[m].session = None
Attaches(m) == /\ Known(node[m]) /\ ~node[m].revoked /\ SameKey(m)
               /\ node'[m].session # None /\ node'[m].revoked = node[m].revoked
Detaches(m) == /\ SameKey(m) /\ node'[m].session = None /\ node'[m].revoked = node[m].revoked
               /\ \/ node[m].session = None
                  \/ Closed(m, node[m].session) \in audit'
                  \/ HeartbeatExpired(m, node[m].session) \in audit'
Revokes(m) == Known(node[m]) /\ SameKey(m) /\ node'[m].session = None /\ node'[m].revoked = TRUE
RowStep(m) == Keeps(m) \/ Enrolls(m) \/ Attaches(m) \/ Detaches(m) \/ Revokes(m)

\* A step leaves the identity and session of a node alone, enrolls it, gives it
\* a new session, records the end of its session, or revokes it.
LEMMA NodeRowStep ==
    ASSUME TypeOK, [Next]_vars, NEW m \in Node PROVE RowStep(m)
<1> USE DEF TypeOK, SameKey
<1>1. ASSUME node'[m] = node[m] PROVE RowStep(m)
  BY <1>1 DEF RowStep, Keeps
<1>2. ASSUME NEW t \in Token, NEW n \in Node, NEW k \in Key, NEW b \in BOOLEAN,
             RedeemToken(t, n, k, b)
      PROVE  RowStep(m)
  <2>1. n # m => node'[m] = node[m]
    BY <1>2 DEF RedeemToken
  <2>2. n = m => Enrolls(m)
    BY <1>2, EnrolledFields DEF RedeemToken, Enrolls
  <2>3. QED
    BY <1>1, <2>1, <2>2 DEF RowStep
<1>3. ASSUME NEW n \in Node, NEW s \in Session, NEW lag \in 0..Lag, AttachSession(n, s, lag)
      PROVE  RowStep(m)
  <2>1. n # m => node'[m] = node[m]
    BY <1>3 DEF AttachSession
  <2>2. n = m => Attaches(m)
    BY <1>3, AttachedFields DEF AttachSession, Attaches
  <2>3. QED
    BY <1>1, <2>1, <2>2 DEF RowStep
<1>4. ASSUME NEW n \in Node, NEW s \in Session, DetachSession(n, s)
      PROVE  RowStep(m)
  <2>1. n # m => node'[m] = node[m]
    BY <1>4 DEF DetachSession
  <2>2. n = m => Detaches(m)
    BY <1>4, DetachedFields DEF DetachSession, Append1, Detaches
  <2>3. QED
    BY <1>1, <2>1, <2>2 DEF RowStep
<1>5. ASSUME NEW n \in Node, NEW s \in Session, NEW lag \in 0..Lag, RecordHeartbeat(n, s, lag)
      PROVE  RowStep(m)
  <2>1. node[m] \in NodeRow /\ node'[m] \in {node[m], Beaten(node[m], lag)}
    BY <1>5 DEF RecordHeartbeat
  <2>2. Keeps(m)
    BY <2>1, KeptFields DEF Keeps
  <2>3. QED
    BY <2>2 DEF RowStep
<1>6. ASSUME NEW lag \in 0..Lag, SweepExpiredHeartbeats(lag) PROVE RowStep(m)
  <2>1. node'[m] = node[m] \/ Detaches(m)
    BY <1>6, DetachedFields DEF SweepExpiredHeartbeats, Detaches
  <2>2. QED
    BY <1>1, <2>1 DEF RowStep
<1>7. CASE RecoverAfterRestart
  <2>1. Detaches(m)
    BY <1>7, DetachedFields DEF RecoverAfterRestart, Detaches
  <2>2. QED
    BY <2>1 DEF RowStep
<1>8. ASSUME NEW n \in Node, QuarantineNode(n) \/ RestoreNode(n) PROVE RowStep(m)
  <2>1. node[m] \in NodeRow /\ node'[m] \in {node[m], Quarantined(node[m]), Restored(node[m])}
    BY <1>8 DEF QuarantineNode, RestoreNode
  <2>2. 0 \in 0..Lag
    BY BoundsAssumption
  <2>3. Keeps(m)
    <3>1. CASE node'[m] = node[m]
      BY <3>1 DEF Keeps
    <3>2. CASE node'[m] = Quarantined(node[m])
      BY <2>1, <2>2, <3>2, KeptFields DEF Keeps
    <3>3. CASE node'[m] = Restored(node[m])
      BY <2>1, <2>2, <3>3, KeptFields DEF Keeps
    <3>4. QED
      BY <2>1, <3>1, <3>2, <3>3
  <2>4. QED
    BY <2>3 DEF RowStep
<1>9. ASSUME NEW n \in Node, RevokeNode(n) PROVE RowStep(m)
  <2>1. n # m => node'[m] = node[m]
    BY <1>9 DEF RevokeNode
  <2>2. n = m => Revokes(m)
    <3>1. Known(node[n]) /\ node[n] \in NodeRow /\ node'[n] = Revoked(node[n])
      BY <1>9 DEF RevokeNode
    <3>2. QED
      BY <3>1 DEF Revokes, SameKey, Revoked, NodeRow
  <2>3. QED
    BY <1>1, <2>1, <2>2 DEF RowStep
<1>10. CASE Tick
  <2>1. node[m] \in NodeRow /\ node'[m] = Older(node[m]) /\ 0 \in 0..Lag
    BY <1>10, BoundsAssumption DEF Tick
  <2>2. Keeps(m)
    BY <2>1, KeptFields DEF Keeps
  <2>3. QED
    BY <2>2 DEF RowStep
<1>11. CASE \/ \E t \in Token : IssueToken(t) \/ RevokeToken(t)
            \/ \E t \in Token, k \in Key, b, g \in BOOLEAN : RefuseRedemption(t, k, b, g)
            \/ \E j \in Job, st \in ActiveStatuses \cup TerminalStatuses : UpsertJob(j, st)
            \/ FreezeDispatch
            \/ \E e \in 0..MaxEpoch : UnfreezeDispatch(e)
            \/ UNCHANGED vars
  BY <1>1, <1>11 DEF IssueToken, RevokeToken, RefuseRedemption, UpsertJob, FreezeDispatch,
                     UnfreezeDispatch, vars
<1>12. QED
  BY <1>2, <1>3, <1>4, <1>5, <1>6, <1>7, <1>8, <1>9, <1>10, <1>11 DEF Next

-----------------------------------------------------------------------------
\* The tables and the audit trail stay consistent, whatever the interleaving of
\* registry operations: the inductive invariant.
THEOREM RegistryConsistent == Spec => []RegistryInv
<1>1. Init => RegistryInv
  <2>1. Init => TypeOK
    BY NodeRowOps, TokenRowOps DEF Init, TypeOK
  <2>2. QED
    BY <2>1 DEF Init, RegistryInv, UnissuedIsUnused, EnrollmentSingleUse,
                OnlyEnrolledAct, RevokedHasNoSession, SessionIsAudited,
                EventsFollowOpening, FreezeMatchesAudit, NoFutureThaw, NoNode, NoToken, Known
<1>2. TypeOK /\ OnlyEnrolledAct /\ [Next]_vars => OnlyEnrolledAct'
  BY NodeRowStep DEF OnlyEnrolledAct, Known, RowStep, SameKey, Keeps, Enrolls, Attaches, Detaches,
                      Revokes
<1>3. TypeOK' /\ RegistryInv /\ [Next]_vars => RegistryInv'
  BY <1>2, EnrollmentPreserved, SessionsPreserved, FreezePreserved DEF RegistryInv
<1>4. QED
  BY <1>1, <1>3, TypeCorrect, PTL DEF Spec

\* One token, one node.
THEOREM SingleUse == Spec => []EnrollmentSingleUse
BY RegistryConsistent, PTL DEF RegistryInv

\* Row and audit trail agree on which session of a node is open.
THEOREM SessionsAudited == Spec => []SessionIsAudited
BY RegistryConsistent, PTL DEF RegistryInv

\* The audit trail determines the kill switch.
THEOREM FreezeAudited == Spec => []FreezeMatchesAudit
BY RegistryConsistent, PTL DEF RegistryInv

-----------------------------------------------------------------------------
(* What a step may never do.                                               *)

\* Revocation is irreversible: no transaction of the registry clears revoked_at
\* or gives a revoked node a session.
THEOREM RevocationFinal == Spec => RevocationIsFinal
<1>1. ASSUME TypeOK, OnlyEnrolledAct, RevokedHasNoSession, [Next]_vars
      PROVE  \A n \in Node : node[n].revoked => node'[n].revoked /\ node'[n].session = None
  <2>1. TAKE n \in Node
  <2>2. HAVE node[n].revoked
  <2>3. QED
    BY <1>1, <2>2, NodeRowStep
       DEF OnlyEnrolledAct, RevokedHasNoSession, RowStep, Keeps, Enrolls, Attaches, Detaches,
           Revokes
<1>2. QED
  BY <1>1, RegistryConsistent, PTL DEF RegistryInv, RevocationIsFinal, Spec

\* A session ends by its own close or expiry, by revocation or by replacement.
THEOREM SessionEndExplained == Spec => SessionEndIsExplained
<1> DEFINE Ends(n) == node[n].session # None /\ node'[n].session # node[n].session
           Explained(n) == \/ Closed(n, node[n].session) \in audit'
                           \/ HeartbeatExpired(n, node[n].session) \in audit'
                           \/ node'[n].revoked
                           \/ node'[n].session # None
<1>1. ASSUME TypeOK, OnlyEnrolledAct, RevokedHasNoSession, [Next]_vars
      PROVE  \A n \in Node : Ends(n) => Explained(n)
  <2>1. TAKE n \in Node
  <2>2. HAVE Ends(n)
  <2>3. QED
    BY <1>1, <2>2, NodeRowStep
       DEF OnlyEnrolledAct, RowStep, Keeps, Enrolls, Attaches, Detaches, Revokes
<1>2. QED
  BY <1>1, RegistryConsistent, PTL DEF RegistryInv, SessionEndIsExplained, Spec

\* A revoked or expired token is never redeemed afterwards.
THEOREM DeadTokenDead == Spec => DeadTokenStaysDead
<1> DEFINE Dead(t) ==
             token[t].issued /\ token[t].consumedBy = None /\ (token[t].revoked \/ token[t].ttl = 0)
<1>1. ASSUME TypeOK, [Next]_vars
      PROVE  \A t \in Token : Dead(t) => token'[t].consumedBy = None
  <2>1. TAKE t \in Token
  <2>2. HAVE Dead(t)
  <2> USE <1>1 DEF TypeOK
  <2>3. ASSUME NEW u \in Token, IssueToken(u) \/ RevokeToken(u)
        PROVE  token'[t].consumedBy = None
    <3>1. token[t] \in TokenRow /\ token'[t] \in {token[t], Minted, Withdrawn(token[t])}
      BY <2>3 DEF IssueToken, RevokeToken
    <3>2. QED
      BY <2>2, <3>1, TokenRowFields
  <2>4. ASSUME NEW u \in Token, NEW n \in Node, NEW k \in Key, NEW b \in BOOLEAN,
               RedeemToken(u, n, k, b)
        PROVE  token'[t].consumedBy = None
    <3>1. u # t
      BY <2>2, <2>4 DEF RedeemToken, EnrollmentFailure
    <3>2. QED
      BY <2>2, <2>4, <3>1 DEF RedeemToken
  <2>5. CASE Tick
    BY <2>2, <2>5, TokenRowFields DEF Tick
  <2>6. CASE UNCHANGED token
    BY <2>2, <2>6
  <2>7. QED
    BY <2>3, <2>4, <2>5, <2>6
       DEF Next, RefuseRedemption, AttachSession, DetachSession, RecordHeartbeat,
           SweepExpiredHeartbeats, RecoverAfterRestart, UpsertJob, QuarantineNode,
           RestoreNode, RevokeNode, FreezeDispatch, UnfreezeDispatch, vars
<1>2. QED
  BY <1>1, TypeCorrect, PTL DEF DeadTokenStaysDead, Spec

\* The freeze epoch never goes back and a new one starts only from a thawed mesh.
THEOREM EpochMonotone == Spec => FreezeEpochMonotone
<1>1. ASSUME TypeOK, [Next]_vars
      PROVE  /\ control'.epoch >= control.epoch
             /\ control'.epoch # control.epoch => ~control.frozen /\ control'.frozen
  <2>1. control \in [frozen: BOOLEAN, epoch: Nat]
    BY <1>1 DEF TypeOK
  <2>2. CASE FreezeDispatch
    BY <2>1, <2>2 DEF FreezeDispatch
  <2>3. ASSUME NEW e \in 0..MaxEpoch, UnfreezeDispatch(e)
        PROVE  control'.epoch = control.epoch
    BY <2>1, <2>3 DEF UnfreezeDispatch
  <2>4. CASE UNCHANGED control
    BY <2>1, <2>4
  <2>5. \/ FreezeDispatch
        \/ \E e \in 0..MaxEpoch : UnfreezeDispatch(e)
        \/ UNCHANGED control
    BY <1>1, Zenon
       DEF Next, IssueToken, RevokeToken, RedeemToken, RefuseRedemption, AttachSession,
           DetachSession, RecordHeartbeat, SweepExpiredHeartbeats, RecoverAfterRestart,
           UpsertJob, QuarantineNode, RestoreNode, RevokeNode, Tick, vars
  <2>6. CASE \E e \in 0..MaxEpoch : UnfreezeDispatch(e)
    BY <2>1, <2>3, <2>6
  <2>7. QED
    BY <2>2, <2>4, <2>5, <2>6
<1>2. QED
  BY <1>1, TypeCorrect, PTL DEF FreezeEpochMonotone, Spec

=============================================================================
