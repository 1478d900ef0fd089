------------------------- MODULE EffectLedgerProofs -------------------------
(***************************************************************************)
(* Proofs that the effect ledger applies a key at most once and agrees     *)
(* with the provider, for any effects, keys and payloads.                  *)
(***************************************************************************)
EXTENDS EffectLedger, TLAPS

USE EffectLedgerAssumption

EffectState == {"none", "pending", "confirmed", "uncertain", "failed", "compensated"}

EffectTypeOK ==
    /\ receipts \in [Effect -> [key: IdemKey, body: Body, state: EffectState]]
    /\ applied \in [IdemKey -> Nat]
    /\ inflight \subseteq IdemKey /\ late \subseteq IdemKey
    /\ undone \in [Effect -> Nat]

\* Reservation is what keeps a key apart: one effect has it.
KeysApart == \A e, f \in Reserved : receipts[e].key = receipts[f].key => e = f

\* A request that is under way has not been applied, belongs to an effect that was
\* reserved, and that effect is not confirmed.
InflightIsOpen ==
    \A k \in inflight :
        /\ applied[k] = 0 /\ HasKey(k) # {}
        /\ \A e \in HasKey(k) : receipts[e].state \in {"uncertain", "failed"}

AppliedIsReserved == \A k \in IdemKey : applied[k] > 0 => HasKey(k) # {}

UndoneIsSettled == \A e \in Effect : undone[e] > 0 => receipts[e].state \in {"confirmed", "compensated"}

LedgerInv ==
    /\ EffectTypeOK /\ KeysApart /\ InflightIsOpen /\ AppliedIsReserved /\ UndoneIsSettled
    /\ AppliedAtMostOnce /\ SettledIsTrue

-----------------------------------------------------------------------------

\* Before anything is reserved the ledger says nothing.
LEMMA LedgerInvInit == EffectInit => LedgerInv
<1> SUFFICES ASSUME EffectInit PROVE LedgerInv
  OBVIOUS
<1>1. Reserved = {} /\ \A k : HasKey(k) = {}
  BY DEF EffectInit, Reserved, HasKey
<1>2. EffectTypeOK
  <2>1. (CHOOSE k \in IdemKey : TRUE) \in IdemKey /\ (CHOOSE b \in Body : TRUE) \in Body
    OBVIOUS
  <2>2. QED
    BY <2>1 DEF EffectInit, EffectTypeOK, EffectState
<1>3. QED
  BY <1>1, <1>2 DEF EffectInit, LedgerInv, KeysApart, InflightIsOpen, AppliedIsReserved,
                    UndoneIsSettled, AppliedAtMostOnce, SettledIsTrue

\* A new receipt has a key that nothing was done under, and adds it to no other effect.
LEMMA ExecuteKeeps ==
    ASSUME LedgerInv, NEW e \in Effect, NEW k \in IdemKey, NEW b \in Body, Execute(e, k, b)
    PROVE  LedgerInv'
<1> USE DEF LedgerInv
<1>1. PICK o \in Outcome :
        /\ receipts' = [receipts EXCEPT ![e] = [key |-> k, body |-> b, state |-> o.state]]
        /\ applied' = IF o.did = "apply" THEN [applied EXCEPT ![k] = @ + 1] ELSE applied
        /\ inflight' = IF o.did = "later" THEN inflight \cup {k} ELSE inflight
  BY DEF Execute
<1>2. /\ HasKey(k) = {} /\ receipts[e].state = "none" /\ late' = late /\ undone' = undone
  BY DEF Execute, Reserves, Reserved
<1>3. /\ o.state \in {"confirmed", "uncertain", "pending"}
      /\ o.state = "confirmed" => o.did = "apply"
      /\ o.did = "later" => o.state = "uncertain"
  BY DEF Outcome
<1>4. EffectTypeOK'
  BY <1>1, <1>2, <1>3 DEF EffectTypeOK, EffectState
<1>5. /\ Reserved' = Reserved \cup {e}
      /\ \A f \in Effect \ {e} : receipts'[f] = receipts[f]
      /\ receipts'[e].key = k /\ receipts'[e].state = o.state
  BY <1>1, <1>3 DEF Reserved, EffectTypeOK
<1>6. HasKey(k)' = {e} /\ \A j \in IdemKey \ {k} : HasKey(j)' = HasKey(j)
  BY <1>2, <1>5 DEF HasKey, Reserved
<1>7. applied[k] = 0 /\ k \notin inflight
  BY <1>2 DEF AppliedIsReserved, InflightIsOpen, EffectTypeOK
<1>8. /\ applied'[k] = IF o.did = "apply" THEN 1 ELSE 0
      /\ \A j \in IdemKey \ {k} : applied'[j] = applied[j]
  BY <1>1, <1>7 DEF EffectTypeOK
<1>9. KeysApart'
  <2>1. \A f \in Reserved : f \in Effect \ {e} /\ receipts[f].key # k
    BY <1>2 DEF HasKey, Reserved
  <2>2. QED
    BY <2>1, <1>5 DEF KeysApart
<1>10. InflightIsOpen'
  <2> SUFFICES ASSUME NEW j \in inflight'
               PROVE  /\ applied'[j] = 0 /\ HasKey(j)' # {}
                      /\ \A f \in HasKey(j)' : receipts'[f].state \in {"uncertain", "failed"}
    BY DEF InflightIsOpen
  <2>1. CASE j = k
    BY <2>1, <1>1, <1>3, <1>5, <1>6, <1>7, <1>8
  <2>2. CASE j # k
    <3>1. j \in inflight /\ j \in IdemKey
      BY <2>2, <1>1 DEF EffectTypeOK
    <3>2. e \notin HasKey(j)
      BY <1>2 DEF HasKey, Reserved
    <3>3. QED
      BY <3>1, <3>2, <2>2, <1>5, <1>6, <1>8 DEF InflightIsOpen, HasKey, Reserved
  <2>3. QED
    BY <2>1, <2>2
<1>11. AppliedIsReserved'
  BY <1>6, <1>8 DEF AppliedIsReserved
<1>12. UndoneIsSettled'
  BY <1>2, <1>5 DEF UndoneIsSettled
<1>13. AppliedAtMostOnce'
  BY <1>8 DEF AppliedAtMostOnce
<1>14. SettledIsTrue'
  <2> SUFFICES ASSUME NEW f \in Reserved'
               PROVE  /\ receipts'[f].state \in {"confirmed", "compensated"} => applied'[receipts'[f].key] = 1
                      /\ receipts'[f].state = "failed" =>
                           applied'[receipts'[f].key] = 0 \/ receipts'[f].key \in late'
    BY DEF SettledIsTrue
  <2>1. CASE f = e
    BY <2>1, <1>3, <1>5, <1>8
  <2>2. CASE f # e
    <3>1. f \in Reserved /\ receipts'[f] = receipts[f] /\ receipts[f].key \in IdemKey \ {k}
      BY <2>2, <1>2, <1>5 DEF EffectTypeOK, Reserved, HasKey
    <3>2. QED
      BY <3>1, <1>2, <1>8 DEF SettledIsTrue
  <2>3. QED
    BY <2>1, <2>2
<1>15. QED
  BY <1>4, <1>9, <1>10, <1>11, <1>12, <1>13, <1>14

\* A request that arrives late is the first application of its key.
LEMMA ArrivesKeeps ==
    ASSUME LedgerInv, NEW k \in IdemKey, Arrives(k)
    PROVE  LedgerInv'
<1> USE DEF LedgerInv
<1>1. /\ k \in inflight /\ inflight' = inflight \ {k} /\ applied' = [applied EXCEPT ![k] = @ + 1]
      /\ late' = IF \E e \in HasKey(k) : receipts[e].state = "failed" THEN late \cup {k} ELSE late
      /\ receipts' = receipts /\ undone' = undone
  BY DEF Arrives
<1>2. /\ applied[k] = 0 /\ HasKey(k) # {}
      /\ \A e \in HasKey(k) : receipts[e].state \in {"uncertain", "failed"}
  BY <1>1 DEF InflightIsOpen
<1>3. EffectTypeOK' /\ applied'[k] = 1 /\ \A j \in IdemKey \ {k} : applied'[j] = applied[j]
  BY <1>1, <1>2 DEF EffectTypeOK
<1>4. Reserved' = Reserved /\ \A j : HasKey(j)' = HasKey(j)
  BY <1>1 DEF Reserved, HasKey
<1>5. KeysApart' /\ UndoneIsSettled'
  BY <1>1, <1>4 DEF KeysApart, UndoneIsSettled
<1>6. InflightIsOpen'
  BY <1>1, <1>3, <1>4 DEF InflightIsOpen, EffectTypeOK
<1>7. AppliedIsReserved' /\ AppliedAtMostOnce'
  BY <1>2, <1>3, <1>4 DEF AppliedIsReserved, AppliedAtMostOnce
<1>8. SettledIsTrue'
  <2> SUFFICES ASSUME NEW f \in Reserved
               PROVE  /\ receipts[f].state \in {"confirmed", "compensated"} => applied'[receipts[f].key] = 1
                      /\ receipts[f].state = "failed" =>
                           applied'[receipts[f].key] = 0 \/ receipts[f].key \in late'
    BY <1>1, <1>4 DEF SettledIsTrue
  <2>1. CASE receipts[f].key = k
    <3>1. f \in HasKey(k)
      BY <2>1 DEF HasKey
    <3>2. QED
      BY <3>1, <2>1, <1>1, <1>2
  <2>2. CASE receipts[f].key # k
    <3>1. receipts[f].key \in IdemKey \ {k}
      BY <2>2 DEF EffectTypeOK, Reserved
    <3>2. QED
      BY <3>1, <1>1, <1>3 DEF SettledIsTrue
  <2>3. QED
    BY <2>1, <2>2
<1>9. QED
  BY <1>3, <1>5, <1>6, <1>7, <1>8

\* A lookup moves an uncertain effect to what the provider says of its key.
LEMMA ReconcileKeeps ==
    ASSUME LedgerInv, NEW e \in Effect, Reconcile(e)
    PROVE  LedgerInv'
<1> USE DEF LedgerInv
<1> DEFINE k == receipts[e].key
<1>1. /\ receipts[e].state = "uncertain"
      /\ receipts' = [receipts EXCEPT ![e].state = IF applied[k] > 0 THEN "confirmed" ELSE "failed"]
      /\ applied' = applied /\ inflight' = inflight /\ late' = late /\ undone' = undone
  BY DEF Reconcile
<1>2. EffectTypeOK' /\ k \in IdemKey /\ applied[k] \in Nat
  BY <1>1 DEF EffectTypeOK, EffectState
<1>3. /\ \A f \in Effect \ {e} : receipts'[f] = receipts[f]
      /\ receipts'[e].key = k
      /\ receipts'[e].state = IF applied[k] > 0 THEN "confirmed" ELSE "failed"
  BY <1>1 DEF EffectTypeOK
<1>4. Reserved' = Reserved /\ e \in Reserved /\ \A f \in Reserved : receipts'[f].key = receipts[f].key
  BY <1>1, <1>3 DEF Reserved
<1>5. \A j : HasKey(j)' = HasKey(j)
  BY <1>4 DEF HasKey
<1>6. KeysApart'
  BY <1>4 DEF KeysApart
<1>7. InflightIsOpen'
  <2> SUFFICES ASSUME NEW j \in inflight, NEW f \in HasKey(j)
               PROVE  receipts'[f].state \in {"uncertain", "failed"}
    BY <1>1, <1>5 DEF InflightIsOpen
  <2>1. CASE f = e
    BY <2>1, <1>2, <1>3 DEF InflightIsOpen, HasKey
  <2>2. CASE f # e
    BY <2>2, <1>3 DEF InflightIsOpen, HasKey, Reserved
  <2>3. QED
    BY <2>1, <2>2
<1>8. AppliedIsReserved' /\ AppliedAtMostOnce'
  BY <1>1, <1>5 DEF AppliedIsReserved, AppliedAtMostOnce
<1>9. UndoneIsSettled'
  BY <1>1, <1>3 DEF UndoneIsSettled
<1>10. SettledIsTrue'
  <2>1. applied[k] > 0 => applied[k] = 1
    BY <1>2 DEF AppliedAtMostOnce
  <2>2. applied[k] > 0 \/ applied[k] = 0
    BY <1>2
  <2>3. \A f \in Reserved \ {e} : f \in Effect \ {e}
    BY DEF Reserved
  <2>4. QED
    BY <2>1, <2>2, <2>3, <1>1, <1>3, <1>4 DEF SettledIsTrue
<1>11. QED
  BY <1>2, <1>6, <1>7, <1>8, <1>9, <1>10

\* Compensation touches a confirmed effect, which has been applied.
LEMMA CompensateKeeps ==
    ASSUME LedgerInv, NEW e \in Effect, Compensate(e)
    PROVE  LedgerInv'
<1> USE DEF LedgerInv
<1>1. /\ receipts[e].state = "confirmed" /\ undone' = [undone EXCEPT ![e] = @ + 1]
      /\ applied' = applied /\ inflight' = inflight /\ late' = late
      /\ \/ receipts' = [receipts EXCEPT ![e].state = "compensated"]
         \/ receipts' = receipts
  BY DEF Compensate, MayCompensate
<1>2. EffectTypeOK'
  BY <1>1 DEF EffectTypeOK, EffectState
<1>3. /\ \A f \in Effect \ {e} : receipts'[f] = receipts[f] /\ undone'[f] = undone[f]
      /\ receipts'[e].key = receipts[e].key
      /\ receipts'[e].state \in {"confirmed", "compensated"}
  BY <1>1 DEF EffectTypeOK
<1>4. Reserved' = Reserved /\ e \in Reserved /\ \A f \in Reserved : receipts'[f].key = receipts[f].key
  BY <1>1, <1>3 DEF Reserved
<1>5. \A j : HasKey(j)' = HasKey(j)
  BY <1>4 DEF HasKey
<1>6. KeysApart'
  BY <1>4 DEF KeysApart
<1>7. InflightIsOpen'
  <2> SUFFICES ASSUME NEW j \in inflight, NEW f \in HasKey(j)
               PROVE  receipts'[f].state \in {"uncertain", "failed"}
    BY <1>1, <1>5 DEF InflightIsOpen
  <2>1. f # e
    BY <1>1 DEF InflightIsOpen
  <2>2. QED
    BY <2>1, <1>3 DEF InflightIsOpen, HasKey, Reserved
<1>8. AppliedIsReserved' /\ AppliedAtMostOnce'
  BY <1>1, <1>5 DEF AppliedIsReserved, AppliedAtMostOnce
<1>9. UndoneIsSettled'
  BY <1>3 DEF UndoneIsSettled
<1>10. SettledIsTrue'
  <2>1. \A f \in Reserved \ {e} : f \in Effect \ {e}
    BY DEF Reserved
  <2>2. applied[receipts[e].key] = 1
    BY <1>1, <1>4 DEF SettledIsTrue
  <2>3. QED
    BY <2>1, <2>2, <1>1, <1>3, <1>4 DEF SettledIsTrue
<1>11. QED
  BY <1>2, <1>6, <1>7, <1>8, <1>9, <1>10

-----------------------------------------------------------------------------

\* The inductive invariant: one effect to a key, a request under way not yet applied,
\* and a ledger that agrees with the provider (execute, reconcile, compensate).
THEOREM LedgerConsistent == EffectSpec => []LedgerInv
<1>1. LedgerInv /\ [EffectNext]_effectVars => LedgerInv'
  <2> SUFFICES ASSUME LedgerInv, [EffectNext]_effectVars PROVE LedgerInv'
    OBVIOUS
  <2>1. CASE UNCHANGED effectVars
    BY <2>1 DEF effectVars, LedgerInv, EffectTypeOK, KeysApart, InflightIsOpen, AppliedIsReserved,
                UndoneIsSettled, AppliedAtMostOnce, SettledIsTrue, HasKey, Reserved
  <2>2. CASE \E e \in Effect, k \in IdemKey, b \in Body : Execute(e, k, b)
    BY <2>2, ExecuteKeeps
  <2>3. CASE \E k \in IdemKey : Arrives(k)
    BY <2>3, ArrivesKeeps
  <2>4. CASE \E e \in Effect : Reconcile(e) \/ Compensate(e)
    BY <2>4, ReconcileKeeps, CompensateKeeps
  <2>5. QED
    BY <2>1, <2>2, <2>3, <2>4 DEF EffectNext
<1>2. QED
  BY <1>1, LedgerInvInit, PTL DEF EffectSpec

\* An idempotency key is applied at most once at a provider that does not deduplicate,
\* whatever is lost, retried or late (EffectLedger.reserve, EffectExecutor.execute).
THEOREM AppliedOnce == EffectSpec => []AppliedAtMostOnce
<1>1. LedgerInv => AppliedAtMostOnce
  BY DEF LedgerInv
<1>2. QED
  BY <1>1, LedgerConsistent, PTL

\* A settled effect is what the ledger says it is, save for a request that reached the
\* provider after the lookup (EffectExecutor.reconcile).
THEOREM SettledTrue == EffectSpec => []SettledIsTrue
<1>1. LedgerInv => SettledIsTrue
  BY DEF LedgerInv
<1>2. QED
  BY <1>1, LedgerConsistent, PTL

\* Only what was applied is undone (EffectExecutor.compensate).
THEOREM UndoneApplied == EffectSpec => []UndoneWasApplied
<1>1. LedgerInv => UndoneWasApplied
  <2> SUFFICES ASSUME LedgerInv, NEW e \in Effect, undone[e] > 0
               PROVE  applied[receipts[e].key] = 1
    BY DEF UndoneWasApplied
  <2>1. receipts[e].state \in {"confirmed", "compensated"}
    BY DEF LedgerInv, UndoneIsSettled
  <2>2. QED
    BY <2>1 DEF LedgerInv, SettledIsTrue, Reserved
<1>2. QED
  BY <1>1, LedgerConsistent, PTL
=============================================================================
