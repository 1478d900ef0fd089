------------------------ MODULE AuthorityRepository -------------------------
(***************************************************************************)
(* What an authority repository promises: InMemoryAuthorityRepository      *)
(* (authority/repository.py), one atomic step per method, each under the   *)
(* repository's asyncio.Lock.  A method that raises keeps what it wrote    *)
(* before it raised.  Leases are named by their epoch, which is unique.    *)
(***************************************************************************)
EXTENDS Naturals

CONSTANTS
    Challenge, Credential, Interaction, Payload, None,
    MaxCount,     \* bound on signature counters
    MaxEpoch      \* bound on the authority epoch

VARIABLES
    epoch,        \* _authority_epoch
    freeze,       \* _frozen, _freeze_epoch
    chal,         \* _challenges
    cred,         \* _credentials: credential -> sign_count, or NoCredential
    lease,        \* _leases
    active,       \* _active_lease_id, 0 for none
    admitted,     \* _interactions
    audit         \* _audit: <<event_type, authority_epoch or credential>>

vars == <<epoch, freeze, chal, cred, lease, active, admitted, audit>>

Epoch == 1..MaxEpoch
NoCredential == MaxCount + 1
Known(k) == cred[k] # NoCredential

Init ==
    /\ epoch = 1
    /\ freeze = [frozen |-> FALSE, epoch |-> 1]
    /\ chal = [c \in Challenge |-> [state |-> "none", purpose |-> "lease"]]
    /\ cred = [k \in Credential |-> NoCredential]
    /\ lease = [e \in Epoch |-> [state |-> "none", by |-> None]]
    /\ active = 0
    /\ admitted = [i \in Interaction |-> None]
    /\ audit = {}

-----------------------------------------------------------------------------

\* create_challenge: the identity and the digest are new.
CreateChallenge(c, purpose) ==
    /\ chal[c].state = "none"
    /\ chal' = [chal EXCEPT ![c] = [state |-> "open", purpose |-> purpose]]
    /\ UNCHANGED <<epoch, freeze, cred, lease, active, admitted, audit>>

Counts(k, count) ==
    /\ Known(k) /\ count >= cred[k]
    /\ cred' = [cred EXCEPT ![k] = count]

\* _revoke_active.
Revoked == IF active = 0 THEN lease ELSE [lease EXCEPT ![active].state = "revoked"]

\* _issue_lease_locked, with the events of its caller.
Issue(by, events) ==
    /\ epoch < MaxEpoch
    /\ epoch' = epoch + 1
    /\ lease' = [Revoked EXCEPT ![epoch + 1] = [state |-> "active", by |-> by]]
    /\ active' = epoch + 1
    /\ audit' = audit \cup {<<event, epoch + 1>> : event \in events}

\* consume_challenge, and every completion that raises right after it.
ConsumeOnly == UNCHANGED <<epoch, freeze, cred, lease, active, admitted, audit>>

\* complete_registration.
Registers(k, count) ==
    /\ ~Known(k)
    /\ cred' = [cred EXCEPT ![k] = count]
    /\ audit' = audit \cup {<<"credential-enrolled", k>>}
    /\ UNCHANGED <<epoch, freeze, lease, active, admitted>>

\* complete_authentication; when it is refused, the counter has already moved.
Authenticates(c, k, count) ==
    /\ Counts(k, count)
    /\ UNCHANGED <<freeze, admitted>>
    /\ \/ ~freeze.frozen /\ Issue(c, {"lease-issued"})
       \/ freeze.frozen /\ UNCHANGED <<epoch, lease, active, audit>>

\* complete_recovery, of the freeze that the caller expects.
Recovers(c, k, count) ==
    /\ chal[c].purpose = "recovery" /\ freeze.frozen
    /\ Counts(k, count)
    /\ freeze' = [freeze EXCEPT !.frozen = FALSE]
    /\ Issue(c, {"lease-issued", "authority-recovered"})
    /\ UNCHANGED admitted

\* Every method that consumes a challenge (_consume_challenge_locked) does it first.
Consume(c) ==
    /\ chal[c].state = "open"
    /\ chal' = [chal EXCEPT ![c].state = "consumed"]
    /\ \/ ConsumeOnly
       \/ \E k \in Credential, n \in 0..MaxCount :
            Registers(k, n) \/ Authenticates(c, k, n) \/ Recovers(c, k, n)

\* issue_lease.
IssueLease ==
    /\ ~freeze.frozen
    /\ Issue(None, {"lease-issued"})
    /\ UNCHANGED <<freeze, chal, cred, admitted>>

\* replace_credential.
ReplaceCredential(k, count) ==
    /\ Known(k)
    /\ cred' = [cred EXCEPT ![k] = count]
    /\ UNCHANGED <<epoch, freeze, chal, lease, active, admitted, audit>>

\* admit: a duplicate changes nothing.
Admit(i, p) ==
    /\ admitted[i] = None
    /\ ~freeze.frozen
    /\ active = epoch
    /\ admitted' = [admitted EXCEPT ![i] = p]
    /\ UNCHANGED <<epoch, freeze, chal, cred, lease, active, audit>>

\* freeze: a repeated one changes nothing.
Freeze ==
    /\ ~freeze.frozen /\ epoch < MaxEpoch
    /\ epoch' = epoch + 1
    /\ freeze' = [frozen |-> TRUE, epoch |-> freeze.epoch + 1]
    /\ lease' = Revoked
    /\ active' = 0
    /\ audit' = audit \cup {<<"authority-frozen", epoch + 1>>}
    /\ UNCHANGED <<chal, cred, admitted>>

Next ==
    \/ \E c \in Challenge, p \in {"registration", "lease", "recovery"} : CreateChallenge(c, p)
    \/ \E c \in Challenge : Consume(c)
    \/ \E k \in Credential, n \in 0..MaxCount : ReplaceCredential(k, n)
    \/ \E i \in Interaction, p \in Payload : Admit(i, p)
    \/ IssueLease \/ Freeze

Spec == Init /\ [][Next]_vars
=============================================================================
