---------------------------- MODULE EffectLedger ----------------------------
(***************************************************************************)
(* External effects under idempotency keys (effects/ledger.py): the ledger *)
(* reserves a key before the provider is called, an answer that is lost    *)
(* leaves the effect uncertain, and only a lookup at the provider settles  *)
(* it.  The calls await nothing; what interleaves with them is a request   *)
(* that reaches the provider after its answer was given up.                *)
(***************************************************************************)
EXTENDS Naturals, FiniteSets

CONSTANTS
    Effect,       \* effect_id
    IdemKey,      \* idempotency_key
    Body,         \* payloads, told apart by their digests
    MaxUndo       \* bound on calls of the provider's compensate

ASSUME EffectLedgerAssumption == MaxUndo \in Nat /\ IdemKey # {} /\ Body # {}

VARIABLES
    receipts,     \* _by_id: effect -> key, payload, state; "none" before it is reserved
    applied,      \* key -> how often the provider has applied it (external)
    inflight,     \* keys whose request may still reach the provider (external)
    late,         \* keys whose request reached the provider after the lookup
    undone        \* effect -> how often the provider has compensated it (external)

effectVars == <<receipts, applied, inflight, late, undone>>

Reserved == {e \in Effect : receipts[e].state # "none"}
HasKey(k) == {e \in Reserved : receipts[e].key = k}

-----------------------------------------------------------------------------

\* How a call of apply may end, and what it did at the provider: the answer, a lost
\* answer (UnknownCompletion), or another error.
Outcome == [state: {"confirmed"}, did: {"apply"}]
             \cup [state: {"uncertain"}, did: {"apply", "nothing", "later"}]
             \cup [state: {"pending"}, did: {"apply", "nothing"}]

\* Mutant: a key is looked up among the effects of the same identity only.
MutReserves(e, k) == receipts[e].state = "none"

\* reserve creates a receipt: the key is new, and so is the identity.
Reserves(e, k) == HasKey(k) = {} /\ e \notin Reserved

\* execute, of an intent that is new.  One whose key is known is answered from the
\* ledger, or refused, and one that reuses an identity is refused: neither changes
\* anything.
Execute(e, k, b) ==
    /\ Reserves(e, k)
    /\ \E o \in Outcome :
         /\ receipts' = [receipts EXCEPT ![e] = [key |-> k, body |-> b, state |-> o.state]]
         /\ applied' = IF o.did = "apply" THEN [applied EXCEPT ![k] = @ + 1] ELSE applied
         /\ inflight' = IF o.did = "later" THEN inflight \cup {k} ELSE inflight
    /\ UNCHANGED <<late, undone>>

\* The request reaches the provider after all (external).
Arrives(k) ==
    /\ k \in inflight
    /\ inflight' = inflight \ {k}
    /\ applied' = [applied EXCEPT ![k] = @ + 1]
    /\ late' = IF \E e \in HasKey(k) : receipts[e].state = "failed" THEN late \cup {k} ELSE late
    /\ UNCHANGED <<receipts, undone>>

\* reconcile: the provider's lookup settles an uncertain effect.
Reconcile(e) ==
    /\ receipts[e].state = "uncertain"
    /\ receipts' = [receipts EXCEPT ![e].state =
                      IF applied[receipts[e].key] > 0 THEN "confirmed" ELSE "failed"]
    /\ UNCHANGED <<applied, inflight, late, undone>>

MayCompensate(e) == receipts[e].state = "confirmed"

\* compensate, of a compensatable effect; when the provider's call raises, it may have
\* compensated, and the effect stays confirmed.
Compensate(e) ==
    /\ MayCompensate(e) /\ undone[e] < MaxUndo
    /\ undone' = [undone EXCEPT ![e] = @ + 1]
    /\ \/ receipts' = [receipts EXCEPT ![e].state = "compensated"]
       \/ UNCHANGED receipts
    /\ UNCHANGED <<applied, inflight, late>>

-----------------------------------------------------------------------------

EffectInit ==
    /\ receipts = [e \in Effect |-> [key |-> CHOOSE k \in IdemKey : TRUE,
                                     body |-> CHOOSE b \in Body : TRUE, state |-> "none"]]
    /\ applied = [k \in IdemKey |-> 0]
    /\ inflight = {} /\ late = {}
    /\ undone = [e \in Effect |-> 0]

EffectNext ==
    \/ \E e \in Effect, k \in IdemKey, b \in Body : Execute(e, k, b)
    \/ \E k \in IdemKey : Arrives(k)
    \/ \E e \in Effect : Reconcile(e) \/ Compensate(e)

EffectSpec == EffectInit /\ [][EffectNext]_effectVars

-----------------------------------------------------------------------------
(* Properties.                                                             *)

\* An idempotency key is applied at most once, although the provider itself does not
\* deduplicate: not by another effect with the same key, not by a retry of one that
\* failed, and not when a request that was given up arrives after all.
AppliedAtMostOnce == \A k \in IdemKey : applied[k] <= 1

\* The ledger agrees with the provider once an effect is settled: confirmed and
\* compensated effects were applied, failed ones were not, unless their request
\* reached the provider after the lookup that settled them.
SettledIsTrue ==
    \A e \in Reserved :
        /\ receipts[e].state \in {"confirmed", "compensated"} => applied[receipts[e].key] = 1
        /\ receipts[e].state = "failed" => applied[receipts[e].key] = 0 \/ receipts[e].key \in late

\* Only what was applied is undone.
UndoneWasApplied == \A e \in Effect : undone[e] > 0 => applied[receipts[e].key] = 1
=============================================================================
