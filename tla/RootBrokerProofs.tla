-------------------------- MODULE RootBrokerProofs --------------------------
(***************************************************************************)
(* Proofs about RootBroker: for every set of requests and every lifetime,  *)
(* a nonce is executed once per boot, and repeated after a restart only    *)
(* while its request lives.                                                *)
(***************************************************************************)
EXTENDS RootBroker, TLAPS

Execution == [of: HostRequest, at: Nat, boot: Nat]

\* An execution happened within the lifetime of its request and in this boot or
\* an earlier one; those of this boot have their nonces burned.
Recorded ==
    \A i \in DOMAIN executed :
        LET a == executed[i]
        IN  /\ a.of.from <= a.at /\ a.at < a.of.until
            /\ a.boot <= reboots
            /\ a.boot = reboots => a.of.nonce \in used_nonces

\* The inductive invariant: that a nonce is executed once per boot needs that
\* the burned nonces cover the executions of the boot.
BrokerInv ==
    /\ minute \in Nat /\ reboots \in Nat /\ executed \in Seq(Execution)
    /\ Recorded
    /\ NonceExecutesOnce

\* A request that is executed is of an unburned nonce, so that no execution of
\* this boot can be of its nonce.
LEMMA ExecutionRecorded ==
    ASSUME BrokerInv, NEW r \in HostRequest, ExecuteRequest(r) PROVE BrokerInv'
<1>1. /\ minute \in Nat /\ reboots \in Nat /\ executed \in Seq(Execution)
      /\ UNCHANGED <<minute, reboots>> /\ used_nonces' = used_nonces \cup {r.nonce}
  BY DEF BrokerInv, ExecuteRequest
<1> DEFINE e == [of |-> r, at |-> minute, boot |-> reboots]
<1>2. e \in Execution
  BY <1>1 DEF Execution
<1>3. CASE executed' = Append(executed, e)
  <2>1. /\ executed' \in Seq(Execution) /\ Len(executed') = Len(executed) + 1
        /\ \A i \in 1..Len(executed) : executed'[i] = executed[i]
        /\ executed'[Len(executed) + 1] = e
    BY <1>1, <1>2, <1>3
  <2>2. DOMAIN executed = 1..Len(executed) /\ DOMAIN executed' = 1..(Len(executed) + 1)
    BY <1>1, <2>1
  <2>3. e.of = r /\ e.at = minute /\ e.boot = reboots
    OBVIOUS
  <2>4. r.from <= minute /\ minute < r.until /\ r.nonce \notin used_nonces
    BY DEF ExecuteRequest, InTime
  <2>5. Len(executed) \in Nat
    BY <1>1
  <2>6. Recorded'
    <3> SUFFICES ASSUME NEW i \in DOMAIN executed'
                 PROVE  LET a == executed'[i]
                        IN  /\ a.of.from <= a.at /\ a.at < a.of.until
                            /\ a.boot <= reboots'
                            /\ a.boot = reboots' => a.of.nonce \in used_nonces'
      BY DEF Recorded
    <3>1. CASE i \in 1..Len(executed)
      BY <3>1, <2>1, <2>2, <1>1 DEF BrokerInv, Recorded
    <3>2. CASE i = Len(executed) + 1
      BY <3>2, <2>1, <2>3, <2>4, <1>1
    <3>3. QED
      BY <3>1, <3>2, <2>2, <2>5
  <2>7. NonceExecutesOnce'
    <3> SUFFICES ASSUME NEW i \in DOMAIN executed', NEW j \in DOMAIN executed', i < j,
                        executed'[i].of.nonce = executed'[j].of.nonce
                 PROVE  LET a == executed'[i]
                            b == executed'[j]
                        IN  a.boot # b.boot /\ (a.of = b.of => b.at - a.at < Lifetime)
      BY DEF NonceExecutesOnce
    <3>1. CASE j \in 1..Len(executed)
      BY <3>1, <2>1, <2>2, <2>5 DEF BrokerInv, NonceExecutesOnce
    <3>2. CASE j = Len(executed) + 1
      <4>1. i \in 1..Len(executed) /\ executed'[i] = executed[i] /\ executed'[j] = e
        BY <3>2, <2>1, <2>2, <2>5
      <4>2. executed[i] \in Execution
        BY <4>1, <1>1
      <4>3. /\ executed[i].of.from <= executed[i].at
            /\ executed[i].boot = reboots => executed[i].of.nonce \in used_nonces
        BY <4>1, <2>2 DEF BrokerInv, Recorded
      <4>4. executed[i].boot # reboots
        BY <4>1, <4>3, <2>3, <2>4
      <4>5. executed[i].of = r => minute - executed[i].at < Lifetime
        <5>1. r.from \in Nat /\ r.until \in Nat /\ r.until - r.from <= Lifetime /\ Lifetime \in Nat
          BY RootBrokerAssumption
        <5>2. executed[i].at \in Nat
          BY <4>2 DEF Execution
        <5>3. QED
          BY <5>1, <5>2, <4>3, <2>4, <1>1
      <4>6. QED
        BY <4>1, <4>4, <4>5, <2>3
    <3>3. QED
      BY <3>1, <3>2, <2>2, <2>5
  <2>8. QED
    BY <1>1, <2>1, <2>6, <2>7 DEF BrokerInv
<1>4. CASE UNCHANGED executed
  BY <1>1, <1>4 DEF BrokerInv, Recorded, NonceExecutesOnce
<1>5. QED
  BY <1>3, <1>4 DEF ExecuteRequest

\* Every reachable state of the broker satisfies the inductive invariant.
THEOREM BrokerConsistent == BrokerSpec => []BrokerInv
<1>1. BrokerInit => BrokerInv
  BY DEF BrokerInit, BrokerInv, Recorded, NonceExecutesOnce
<1>2. BrokerInv /\ [BrokerNext]_brokerVars => BrokerInv'
  <2> SUFFICES ASSUME BrokerInv, [BrokerNext]_brokerVars PROVE BrokerInv'
    OBVIOUS
  <2>1. ASSUME UNCHANGED <<reboots, used_nonces, executed>>, minute' \in Nat PROVE BrokerInv'
    BY <2>1 DEF BrokerInv, Recorded, NonceExecutesOnce
  <2>2. ASSUME NEW c, ApprovalChanges(c) PROVE BrokerInv'
    BY <2>1, <2>2 DEF ApprovalChanges, BrokerInv
  <2>3. CASE MinutePasses
    BY <2>1, <2>3 DEF MinutePasses, BrokerInv
  <2>4. CASE Reboot
    <3>1. reboots \in Nat /\ reboots' = reboots + 1 /\ UNCHANGED <<minute, executed>>
      BY <2>4 DEF Reboot, BrokerInv
    <3>2. \A i \in DOMAIN executed : executed[i].boot \in Nat
      <4>1. \A i \in DOMAIN executed : executed[i] \in Execution
        BY DEF BrokerInv
      <4>2. QED
        BY <4>1 DEF Execution
    <3>3. Recorded'
      BY <3>1, <3>2 DEF BrokerInv, Recorded
    <3>4. QED
      BY <3>1, <3>3 DEF BrokerInv, NonceExecutesOnce
  <2>5. CASE UNCHANGED brokerVars
    BY <2>1, <2>5 DEF brokerVars, BrokerInv
  <2>6. QED
    BY <2>2, <2>3, <2>4, <2>5, ExecutionRecorded DEF BrokerNext
<1>3. QED
  BY <1>1, <1>2, PTL DEF BrokerSpec

\* As long as the broker runs the host executes one request of a nonce, and
\* after a restart a request is repeated only until it expires.
THEOREM NonceOnce == BrokerSpec => []NonceExecutesOnce
BY BrokerConsistent, PTL DEF BrokerInv
=============================================================================
