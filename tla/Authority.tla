------------------------------ MODULE Authority -----------------------------
(***************************************************************************)
(* The commander's authority (authority/sqlalchemy.py): credentials,       *)
(* challenges, leases, the global freeze and the admission of Discord      *)
(* interactions, with the services that drive them, the WebAuthn           *)
(* ceremonies (webauthn/service.py) and the command handler                *)
(* (discord/service.py).                                                   *)
(*                                                                         *)
(* A repository call is one transaction.  All that read or write the       *)
(* authority or freeze row lock both first (_locked_state), so each is one *)
(* step.  The steps that interleave are the awaits of the services: what a *)
(* ceremony or a handler read before its transaction may have changed.     *)
(* A transaction that raises is rolled back and changes nothing.           *)
(***************************************************************************)
EXTENDS Naturals

CONSTANTS
    Challenge,    \* challenge identifiers, one per ceremony begun
    Credential,
    Interaction,  \* Discord interaction identifiers
    Payload,      \* request bodies, told apart by their digests
    Finisher,     \* concurrent requests that finish a ceremony
    Handler,      \* concurrent requests with a Discord interaction
    None,
    MaxCount,     \* bound on signature counters
    MaxEpoch      \* bound on the authority epoch

ASSUME AuthorityAssumption ==
    /\ MaxCount \in Nat /\ MaxEpoch \in Nat \ {0}
    /\ None \notin Challenge \cup Credential \cup Interaction \cup Payload

VARIABLES
    epoch,        \* authority_state.authority_epoch
    freeze,       \* global_freeze: frozen, freeze_epoch
    latch,        \* the file of EmergencyFreezeLatch exists
    chal,         \* webauthn_challenges
    cred,         \* webauthn_credentials: credential -> sign_count, or NoCredential
    lease,        \* authority_leases, each named by its epoch (which is unique)
    admitted,     \* discord_interactions: interaction -> payload
    started,      \* <<interaction, payload, handler>> of every workflow start
    lost,         \* interactions whose handler died after the admission
    audit,        \* security_audit_events: <<event_type, authority_epoch or credential>>
    fin,          \* where each finishing request is, and what it has read
    hand          \* where each Discord request is, and what it has read

vars == <<epoch, freeze, latch, chal, cred, lease, admitted, started, lost, audit, fin, hand>>

Epoch == 1..MaxEpoch
Purposes == {"registration", "lease", "recovery"}
NoCredential == MaxCount + 1
Enrolled == {k \in Credential : cred[k] # NoCredential}

NoChallenge == [state |-> "none", purpose |-> "lease", epoch |-> 0]
NoLease == [state |-> "none", by |-> None]
NoFinish == [pc |-> "idle", challenge |-> None, credential |-> None, fresh |-> FALSE, count |-> 0]
NoHandle == [pc |-> "idle", interaction |-> None, payload |-> None, lease |-> 0]

Active == {e \in Epoch : lease[e].state = "active"}

-----------------------------------------------------------------------------
(* Ceremonies begin: the repository is read, then the challenge is stored. *)

MayBegin(purpose) ==
    CASE purpose = "registration" -> Enrolled = {}
      [] purpose = "lease" -> Enrolled # {}
      [] purpose = "recovery" -> freeze.frozen /\ Enrolled # {}

\* begin_registration, begin_authentication, begin_recovery.
Begin(c, purpose) ==
    /\ chal[c].state = "none" /\ MayBegin(purpose)
    /\ chal' = [chal EXCEPT ![c] = [state |-> "begun", purpose |-> purpose,
                                    epoch |-> IF purpose = "recovery" THEN freeze.epoch ELSE 0]]
    /\ UNCHANGED <<epoch, freeze, latch, cred, lease, admitted, started, lost, audit, fin, hand>>

\* create_challenge.
CreateChallenge(c) ==
    /\ chal[c].state = "begun"
    /\ chal' = [chal EXCEPT ![c].state = "open"]
    /\ UNCHANGED <<epoch, freeze, latch, cred, lease, admitted, started, lost, audit, fin, hand>>

-----------------------------------------------------------------------------
(* Ceremonies finish.                                                      *)

\* get_challenge, get_credential and the verification of the response, which
\* carries the authenticator's counter.  A counter below the one read, or another
\* credential's identity, is an anomaly.  Whether the challenge has expired is
\* judged by the clock that this request read, not by that of another.
Verify(f, c, k, count, fresh) ==
    /\ fin[f].pc = "idle"
    /\ chal[c].state \in {"open", "consumed"}
    /\ chal[c].purpose # "registration" => k \in Enrolled
    /\ \/ /\ chal[c].purpose # "registration" => count >= cred[k]
          /\ fin' = [fin EXCEPT ![f] = [pc |-> "verified", challenge |-> c, credential |-> k,
                                       fresh |-> fresh, count |-> count]]
       \/ /\ chal[c].purpose # "registration"
          /\ fin' = [fin EXCEPT ![f].pc = "anomaly"]
    /\ UNCHANGED <<epoch, freeze, latch, chal, cred, lease, admitted, started, lost, audit, hand>>

\* _consume_challenge_row, and the check of the purpose.
Consumable(f, purpose) ==
    /\ chal[fin[f].challenge].state = "open"
    /\ chal[fin[f].challenge].purpose = purpose
    /\ fin[f].fresh

Consumed(f) == [chal EXCEPT ![fin[f].challenge].state = "consumed"]

\* complete_registration.
CompleteRegistration(f) ==
    LET k == fin[f].credential
    IN  /\ fin[f].pc = "verified" /\ Consumable(f, "registration")
        /\ k \notin Enrolled
        /\ chal' = Consumed(f)
        /\ cred' = [cred EXCEPT ![k] = fin[f].count]
        /\ audit' = audit \cup {<<"credential-enrolled", k>>}
        /\ fin' = [fin EXCEPT ![f] = NoFinish]
        /\ UNCHANGED <<epoch, freeze, latch, lease, admitted, started, lost, hand>>

\* Mutant: the counter is not compared with the row again.
MutCountsAnyway(f) ==
    /\ fin[f].credential \in Enrolled
    /\ cred' = [cred EXCEPT ![fin[f].credential] = fin[f].count]

\* The credential is read again, locked, and its counter may not go back.
Counts(f) ==
    /\ fin[f].credential \in Enrolled
    /\ fin[f].count >= cred[fin[f].credential]
    /\ cred' = [cred EXCEPT ![fin[f].credential] = fin[f].count]

\* Every active lease is revoked.
Revoked == [e \in Epoch |-> IF e \in Active THEN [lease[e] EXCEPT !.state = "revoked"] ELSE lease[e]]

\* Mutant: the leases that are active stay so.
MutIssueKeeps(f, event) ==
    /\ epoch < MaxEpoch
    /\ epoch' = epoch + 1
    /\ lease' = [lease EXCEPT ![epoch + 1] =
                   [state |-> "active", by |-> fin[f].challenge]]
    /\ audit' = audit \cup {<<event, epoch + 1>>}

\* A new epoch and its lease replace every active one.
IssueLease(f, event) ==
    /\ epoch < MaxEpoch
    /\ epoch' = epoch + 1
    /\ lease' = [Revoked EXCEPT ![epoch + 1] =
                   [state |-> "active", by |-> fin[f].challenge]]
    /\ audit' = audit \cup {<<event, epoch + 1>>}

\* complete_authentication.
CompleteAuthentication(f) ==
    /\ fin[f].pc = "verified" /\ ~freeze.frozen /\ Consumable(f, "lease")
    /\ chal' = Consumed(f)
    /\ Counts(f)
    /\ IssueLease(f, "lease-issued")
    /\ fin' = [fin EXCEPT ![f] = NoFinish]
    /\ UNCHANGED <<freeze, latch, admitted, started, lost, hand>>

\* complete_recovery, for the freeze epoch that the challenge names.
CompleteRecovery(f) ==
    /\ fin[f].pc = "verified" /\ Consumable(f, "recovery")
    /\ freeze.frozen /\ freeze.epoch = chal[fin[f].challenge].epoch
    /\ chal' = Consumed(f)
    /\ Counts(f)
    /\ freeze' = [freeze EXCEPT !.frozen = FALSE]
    /\ IssueLease(f, "authority-recovered")
    /\ fin' = [fin EXCEPT ![f] = NoFinish]
    /\ UNCHANGED <<latch, admitted, started, lost, hand>>

\* The transaction raises, or the request dies before it.
FinishFails(f) ==
    /\ fin[f].pc # "idle"
    /\ fin' = [fin EXCEPT ![f] = NoFinish]
    /\ UNCHANGED <<epoch, freeze, latch, chal, cred, lease, admitted, started, lost, audit, hand>>

-----------------------------------------------------------------------------
(* The freeze.                                                             *)

\* repository.freeze: a repeated freeze changes nothing.
Freeze ==
    \/ freeze.frozen /\ UNCHANGED <<epoch, freeze, lease, audit>>
    \/ /\ ~freeze.frozen /\ epoch < MaxEpoch
       /\ epoch' = epoch + 1
       /\ lease' = Revoked
       /\ freeze' = [frozen |-> TRUE, epoch |-> freeze.epoch + 1]
       /\ audit' = audit \cup {<<"authority-frozen", epoch + 1>>}

\* A regressed counter, or another credential's identity, freezes the authority.
AnomalyFreezes(f) ==
    /\ fin[f].pc = "anomaly"
    /\ Freeze
    /\ fin' = [fin EXCEPT ![f] = NoFinish]
    /\ UNCHANGED <<latch, chal, cred, admitted, started, lost, hand>>

\* The operator's freeze sets the latch, then freezes the repository.
OperatorLatches(h) ==
    /\ hand[h].pc = "idle"
    /\ latch' = TRUE
    /\ hand' = [hand EXCEPT ![h].pc = "latched"]
    /\ UNCHANGED <<epoch, freeze, chal, cred, lease, admitted, started, lost, audit, fin>>

OperatorFreezes(h) ==
    /\ hand[h].pc = "latched"
    /\ Freeze
    /\ hand' = [hand EXCEPT ![h] = NoHandle]
    /\ UNCHANGED <<latch, chal, cred, admitted, started, lost, fin>>

-----------------------------------------------------------------------------
(* Discord interactions.                                                   *)

\* active_lease: an interaction arrives, for the first time or again, and finds
\* a lease.  One that has expired refuses the request, which then has no effect.
ReadLease(h, i, p) ==
    /\ hand[h].pc = "idle"
    /\ \E e \in Active :
         hand' = [hand EXCEPT ![h] = [pc |-> "leased", interaction |-> i, payload |-> p, lease |-> e]]
    /\ UNCHANGED <<epoch, freeze, latch, chal, cred, lease, admitted, started, lost, audit, fin>>

\* Mutant: a lease is honoured although a later epoch revoked it.
MutMayAdmit(h) == ~freeze.frozen

\* admit: the lease read before must still be the authority of the moment.
MayAdmit(h) ==
    /\ ~freeze.frozen
    /\ hand[h].lease \in Active /\ hand[h].lease = epoch

\* A duplicate is answered without a second start, one with another payload and
\* one without authority are denied.
Admit(h) ==
    LET i == hand[h].interaction
    IN  /\ hand[h].pc = "leased"
        /\ IF admitted[i] = None /\ MayAdmit(h)
           THEN /\ admitted' = [admitted EXCEPT ![i] = hand[h].payload]
                /\ hand' = [hand EXCEPT ![h].pc = "admitted"]
           ELSE hand' = [hand EXCEPT ![h] = NoHandle] /\ UNCHANGED admitted
        /\ UNCHANGED <<epoch, freeze, latch, chal, cred, lease, started, lost, audit, fin>>

\* start_command of the admitted command.
StartCommand(h) ==
    /\ hand[h].pc = "admitted"
    /\ started' = started \cup {<<hand[h].interaction, hand[h].payload, h>>}
    /\ hand' = [hand EXCEPT ![h] = NoHandle]
    /\ UNCHANGED <<epoch, freeze, latch, chal, cred, lease, admitted, lost, audit, fin>>

\* The request dies, its text is refused after the admission, or Temporal
\* does not start the workflow.
HandleFails(h) ==
    /\ hand[h].pc # "idle"
    /\ lost' = IF hand[h].pc = "admitted" THEN lost \cup {hand[h].interaction} ELSE lost
    /\ hand' = [hand EXCEPT ![h] = NoHandle]
    /\ UNCHANGED <<epoch, freeze, latch, chal, cred, lease, admitted, started, audit, fin>>

-----------------------------------------------------------------------------

\* initialize.
Init ==
    /\ epoch = 1
    /\ freeze = [frozen |-> FALSE, epoch |-> 1]
    /\ latch = FALSE
    /\ chal = [c \in Challenge |-> NoChallenge]
    /\ cred = [k \in Credential |-> NoCredential]
    /\ lease = [e \in Epoch |-> NoLease]
    /\ admitted = [i \in Interaction |-> None]
    /\ started = {} /\ lost = {} /\ audit = {}
    /\ fin = [f \in Finisher |-> NoFinish]
    /\ hand = [h \in Handler |-> NoHandle]

Next ==
    \/ \E c \in Challenge : (\E p \in Purposes : Begin(c, p)) \/ CreateChallenge(c)
    \/ \E f \in Finisher, c \in Challenge, k \in Credential, n \in 0..MaxCount, fresh \in BOOLEAN :
         Verify(f, c, k, n, fresh)
    \/ \E f \in Finisher :
         \/ CompleteRegistration(f) \/ CompleteAuthentication(f) \/ CompleteRecovery(f)
         \/ FinishFails(f) \/ AnomalyFreezes(f)
    \/ \E h \in Handler, i \in Interaction, p \in Payload : ReadLease(h, i, p)
    \/ \E h \in Handler :
         \/ OperatorLatches(h) \/ OperatorFreezes(h) \/ Admit(h) \/ StartCommand(h) \/ HandleFails(h)

Spec == Init /\ [][Next]_vars

-----------------------------------------------------------------------------
(* Properties.                                                             *)

\* Every row, and what every request has read, is of its type.
TypeOK ==
    /\ epoch \in Epoch /\ freeze \in [frozen: BOOLEAN, epoch: Epoch] /\ latch \in BOOLEAN
    /\ chal \in [Challenge -> [state: {"none", "begun", "open", "consumed"}, purpose: Purposes,
                               epoch: 0..MaxEpoch]]
    /\ cred \in [Credential -> 0..NoCredential]
    /\ lease \in [Epoch -> [state: {"none", "active", "revoked"}, by: Challenge \cup {None}]]
    /\ admitted \in [Interaction -> Payload \cup {None}]
    /\ started \subseteq Interaction \X Payload \X Handler /\ lost \subseteq Interaction
    /\ audit \subseteq ({"credential-enrolled"} \X Credential)
         \cup ({"lease-issued", "authority-frozen", "authority-recovered"} \X Epoch)
    /\ fin \in [Finisher -> [pc: {"idle", "verified", "anomaly"}, challenge: Challenge \cup {None},
                             credential: Credential \cup {None}, fresh: BOOLEAN, count: 0..MaxCount]]
    /\ hand \in [Handler -> [pc: {"idle", "latched", "leased", "admitted"}, lease: 0..MaxEpoch,
                             interaction: Interaction \cup {None}, payload: Payload \cup {None}]]

\* "multiple active leases violate authority state" (active_lease): at most one
\* lease is active, it carries the current epoch, and a frozen authority has none.
OneLease ==
    Active \subseteq (IF freeze.frozen THEN {} ELSE {epoch})

\* A challenge is good for one lease: two requests that finish the same ceremony
\* never both get one (_consume_challenge_row).
ChallengeSingleUse ==
    \A d, e \in Epoch : d # e /\ lease[d].by # None => lease[d].by # lease[e].by

\* A freeze is lifted only by a ceremony that was begun for it: one begun for an
\* earlier freeze, lifted since by another, never lifts a later one
\* ("freeze epoch changed before recovery").
RecoveryNamesItsFreeze ==
    [][freeze.frozen /\ ~freeze'.frozen =>
         \E c \in Challenge : /\ chal[c].state = "open" /\ chal'[c].state = "consumed"
                              /\ chal[c].purpose = "recovery" /\ chal[c].epoch = freeze.epoch]_vars

\* A credential's signature counter never goes back, although two requests may
\* both have read it before either wrote it.
CounterMonotone ==
    [][\A k \in Credential : cred[k] # NoCredential => cred'[k] # NoCredential /\ cred'[k] >= cred[k]]_vars

\* A command is admitted only in an epoch of the lease that its handler read:
\* whatever came between, an epoch that has moved on, or a freeze, admits nothing.
AdmittedByTheLeaseOfItsEpoch ==
    [][\A i \in Interaction : admitted'[i] # admitted[i] =>
         \E h \in Handler : hand[h].interaction = i /\ hand[h].lease = epoch /\ lease[epoch].state = "active"]_vars

\* The workflow of an interaction is started at most once, with the payload that
\* was admitted, however often and with whatever body Discord delivers it.
StartedOnce ==
    \A x, y \in started : x[1] = y[1] => x = y /\ admitted[x[1]] = x[2]

\* An admitted command is started, or being started, unless its handler died;
\* a duplicate that is answered "accepted" relies on it.
AdmittedIsStarted ==
    \A i \in Interaction : admitted[i] # None =>
        \/ i \in lost
        \/ \E x \in started : x[1] = i
        \/ \E h \in Handler : hand[h].pc = "admitted" /\ hand[h].interaction = i

\* A ceremony that has begun has no row yet; a recovery leaves one event where the
\* in-memory repository leaves two.
Repository == INSTANCE AuthorityRepository WITH
    chal <- [c \in Challenge |->
               [state |-> IF chal[c].state = "begun" THEN "none" ELSE chal[c].state,
                purpose |-> IF chal[c].state \in {"none", "begun"} THEN "lease" ELSE chal[c].purpose]],
    active <- IF Active = {} THEN 0 ELSE CHOOSE e \in Active : TRUE,
    audit <- audit \cup {<<"lease-issued", e>> : e \in {d \in Epoch : <<"authority-recovered", d>> \in audit}}

\* "Mirrors the SQLAlchemy repository exactly" (repository.py): whatever the ceremonies
\* and handlers had read before, what they do to the tables is a step that the
\* in-memory repository of the contract tests can make, or none.
ImplementsRepository == Repository!Spec
=============================================================================
