--------------------------- MODULE AuthorityProofs --------------------------
(***************************************************************************)
(* Proofs of what the authority promises, for any number of ceremonies,    *)
(* credentials, interactions and concurrent requests and any bounds.       *)
(***************************************************************************)
EXTENDS Authority, TLAPS

USE AuthorityAssumption

-----------------------------------------------------------------------------
(* The inductive invariant: of the tables, of the requests that finish a   *)
(* ceremony, and of the requests with an interaction.                      *)

ChallengeTable ==
    [Challenge -> [state: {"none", "begun", "open", "consumed"}, purpose: Purposes, epoch: 0..MaxEpoch]]
LeaseTable == [Epoch -> [state: {"none", "active", "revoked"}, by: Challenge \cup {None}]]
Finishers ==
    [Finisher -> [pc: {"idle", "verified", "anomaly"}, challenge: Challenge \cup {None},
                  credential: Credential \cup {None}, fresh: BOOLEAN, count: 0..MaxCount]]
Handlers ==
    [Handler -> [pc: {"idle", "latched", "leased", "admitted"}, lease: 0..MaxEpoch,
                 interaction: Interaction \cup {None}, payload: Payload \cup {None}]]
Events ==
    ({"credential-enrolled"} \X Credential)
      \cup ({"lease-issued", "authority-frozen", "authority-recovered"} \X Epoch)

\* Leases are issued in the order of their epochs, each for a challenge that was
\* consumed, and no freeze is younger than the authority.
TablesInv ==
    /\ freeze.epoch <= epoch
    /\ \A e \in Epoch : e > epoch => lease[e] = NoLease
    /\ \A e \in Epoch : lease[e].by # None => chal[lease[e].by].state = "consumed"
    /\ OneLease /\ ChallengeSingleUse

FinishersInv ==
    \A f \in Finisher : fin[f].pc = "verified" =>
        /\ fin[f].challenge \in Challenge /\ fin[f].credential \in Credential
        /\ chal[fin[f].challenge].state \in {"open", "consumed"}

\* An interaction that was admitted is in the hands of one request until its command
\* is started, and is started with the payload that was admitted.
Names ==
    \A h \in Handler : hand[h].pc \in {"leased", "admitted"} =>
        hand[h].interaction \in Interaction /\ hand[h].payload \in Payload
Holds ==
    \A h \in Handler : hand[h].pc = "admitted" =>
        /\ admitted[hand[h].interaction] = hand[h].payload
        /\ \A x \in started : x[1] # hand[h].interaction
HeldByOne ==
    \A g, h \in Handler :
        hand[g].pc = "admitted" /\ hand[h].pc = "admitted" /\ hand[g].interaction = hand[h].interaction
          => g = h
StartsAsAdmitted == \A x \in started : admitted[x[1]] = x[2]

HandlersInv == Names /\ Holds /\ HeldByOne /\ StartsAsAdmitted /\ StartedOnce /\ AdmittedIsStarted

AuthorityInv == TypeOK /\ TablesInv /\ FinishersInv /\ HandlersInv

USE DEF ChallengeTable, LeaseTable, Finishers, Handlers, Events, Names, Holds, HeldByOne, StartsAsAdmitted

-----------------------------------------------------------------------------
(* The helpers.                                                            *)

\* Revoking the active leases leaves none active, and every lease with its challenge.
LEMMA RevokedLeases ==
    ASSUME TypeOK
    PROVE  /\ Revoked \in LeaseTable
           /\ \A e \in Epoch : /\ Revoked[e].by = lease[e].by /\ Revoked[e].state # "active"
                               /\ lease[e] = NoLease => Revoked[e] = NoLease
<1>1. \A e \in Epoch : lease[e] \in [state: {"none", "active", "revoked"}, by: Challenge \cup {None}]
  BY DEF TypeOK
<1>2. \A e \in Epoch : Revoked[e] = IF lease[e].state = "active"
                                    THEN [state |-> "revoked", by |-> lease[e].by] ELSE lease[e]
  BY <1>1 DEF Revoked, Active
<1>3. QED
  BY <1>1, <1>2 DEF Revoked, NoLease

\* A new lease is the only active one, under the epoch that it opens.
LEMMA IssuedLease ==
    ASSUME TypeOK, NEW f \in Finisher, fin[f].challenge \in Challenge, NEW event, IssueLease(f, event)
    PROVE  /\ epoch' \in Epoch /\ epoch' = epoch + 1
           /\ lease' \in LeaseTable
           /\ Active' = {epoch'} /\ lease'[epoch'].by = fin[f].challenge
           /\ \A e \in Epoch \ {epoch'} : /\ lease'[e].by = lease[e].by
                                          /\ lease[e] = NoLease => lease'[e] = NoLease
           /\ audit' = audit \cup {<<event, epoch'>>}
<1>1. /\ epoch < MaxEpoch /\ epoch' = epoch + 1 /\ audit' = audit \cup {<<event, epoch'>>}
      /\ lease' = [Revoked EXCEPT ![epoch + 1] = [state |-> "active", by |-> fin[f].challenge]]
  BY DEF IssueLease
<1>2. epoch' \in Epoch
  BY <1>1 DEF TypeOK, Epoch
<1>3. /\ lease' \in LeaseTable
      /\ lease'[epoch'] = [state |-> "active", by |-> fin[f].challenge]
      /\ \A e \in Epoch \ {epoch'} : lease'[e] = Revoked[e]
  BY <1>1, <1>2, RevokedLeases
<1>4. Active' = {epoch'}
  BY <1>2, <1>3, RevokedLeases DEF Active
<1>5. QED
  BY <1>1, <1>2, <1>3, <1>4, RevokedLeases

\* A freeze, new or repeated, leaves no lease active.
LEMMA Frozen ==
    ASSUME TypeOK, TablesInv, Freeze
    PROVE  /\ epoch' \in Epoch /\ epoch <= epoch' /\ freeze'.epoch <= epoch'
           /\ freeze' \in [frozen: BOOLEAN, epoch: Epoch] /\ freeze'.frozen
           /\ lease' \in LeaseTable
           /\ Active' = {}
           /\ \A e \in Epoch : lease'[e].by = lease[e].by /\ (lease[e] = NoLease => lease'[e] = NoLease)
           /\ audit' = audit \/ audit' = audit \cup {<<"authority-frozen", epoch'>>}
<1>1. CASE freeze.frozen /\ UNCHANGED <<epoch, freeze, lease, audit>>
  BY <1>1 DEF TypeOK, TablesInv, OneLease, Active, Epoch
<1>2. CASE /\ ~freeze.frozen /\ epoch < MaxEpoch
           /\ epoch' = epoch + 1 /\ lease' = Revoked
           /\ freeze' = [frozen |-> TRUE, epoch |-> freeze.epoch + 1]
           /\ audit' = audit \cup {<<"authority-frozen", epoch + 1>>}
  <2>1. epoch \in 1..MaxEpoch /\ freeze.epoch \in 1..MaxEpoch /\ freeze.epoch <= epoch
    BY DEF TypeOK, TablesInv, Epoch
  <2>2. epoch' \in Epoch /\ epoch <= epoch' /\ freeze.epoch + 1 \in Epoch /\ freeze.epoch + 1 <= epoch'
    BY <1>2, <2>1 DEF Epoch
  <2>3. Active' = {}
    BY <1>2, RevokedLeases DEF Active
  <2>4. QED
    BY <1>2, <2>2, <2>3, RevokedLeases
<1>3. QED
  BY <1>1, <1>2 DEF Freeze

\* What a step leaves alone stays as the invariant has it.
LEMMA Framed ==
    ASSUME AuthorityInv
    PROVE  /\ UNCHANGED <<epoch, freeze, chal, lease>> => TablesInv'
           /\ UNCHANGED <<chal, fin>> => FinishersInv'
           /\ UNCHANGED <<admitted, started, lost, hand>> => HandlersInv'
<1>1. UNCHANGED <<epoch, freeze, chal, lease>> => TablesInv'
  BY DEF AuthorityInv, TablesInv, OneLease, ChallengeSingleUse, Active
<1>2. UNCHANGED <<chal, fin>> => FinishersInv'
  BY DEF AuthorityInv, FinishersInv
<1>3. UNCHANGED <<admitted, started, lost, hand>> => HandlersInv'
  BY DEF AuthorityInv, HandlersInv, StartedOnce, AdmittedIsStarted
<1>4. QED
  BY <1>1, <1>2, <1>3

\* A request that is over holds nothing, and the others hold what they held.
LEMMA Released ==
    ASSUME AuthorityInv, NEW h \in Handler, hand' = [hand EXCEPT ![h] = NoHandle]
    PROVE  /\ hand' \in Handlers /\ hand'[h].pc = "idle"
           /\ \A g \in Handler \ {h} : hand'[g] = hand[g]
<1>1. hand \in Handlers
  BY DEF AuthorityInv, TypeOK
<1>2. QED
  BY <1>1 DEF NoHandle

\* A step that neither admits nor starts an interaction, and lets no request go that holds
\* one, leaves the interactions as they were.
LEMMA SameHoldings ==
    ASSUME AuthorityInv, UNCHANGED <<admitted, started, lost>>, Names',
           \A g \in Handler : hand'[g].pc = "admitted" \/ hand[g].pc = "admitted" => hand'[g] = hand[g]
    PROVE  HandlersInv'
<1>1. /\ Holds /\ HeldByOne /\ StartsAsAdmitted /\ StartedOnce /\ AdmittedIsStarted
  BY DEF AuthorityInv, HandlersInv
<1>2. Holds'
  BY <1>1
<1>3. HeldByOne'
  BY <1>1
<1>4. StartsAsAdmitted' /\ StartedOnce'
  BY <1>1 DEF StartedOnce
<1>5. AdmittedIsStarted'
  BY <1>1 DEF AdmittedIsStarted
<1>6. QED
  BY <1>2, <1>3, <1>4, <1>5 DEF HandlersInv

-----------------------------------------------------------------------------
(* Ceremonies.                                                             *)

\* Beginning a ceremony and storing its challenge: a challenge that was consumed stays so.
LEMMA BeginKeeps ==
    ASSUME AuthorityInv, NEW c \in Challenge, (\E p \in Purposes : Begin(c, p)) \/ CreateChallenge(c)
    PROVE  AuthorityInv'
<1>1. /\ chal[c].state \in {"none", "begun"}
      /\ UNCHANGED <<epoch, freeze, latch, cred, lease, admitted, started, lost, audit, fin, hand>>
  BY DEF Begin, CreateChallenge
<1>2. /\ chal' \in ChallengeTable
      /\ \A d \in Challenge \ {c} : chal'[d] = chal[d]
  <2>1. ASSUME NEW p \in Purposes, Begin(c, p)
        PROVE  chal' \in ChallengeTable /\ \A d \in Challenge \ {c} : chal'[d] = chal[d]
    <3>1. (IF p = "recovery" THEN freeze.epoch ELSE 0) \in 0..MaxEpoch
      BY DEF AuthorityInv, TypeOK, Epoch
    <3>2. QED
      BY <2>1, <3>1 DEF Begin, AuthorityInv, TypeOK
  <2>2. CASE CreateChallenge(c)
    BY <2>2 DEF CreateChallenge, AuthorityInv, TypeOK
  <2>3. QED
    BY <2>1, <2>2
<1>3. TypeOK'
  BY <1>1, <1>2 DEF AuthorityInv, TypeOK
<1>4. TablesInv'
  <2>1. \A e \in Epoch : lease[e].by # None => lease[e].by \in Challenge \ {c}
    BY <1>1 DEF AuthorityInv, TypeOK, TablesInv
  <2>2. QED
    BY <2>1, <1>1, <1>2 DEF AuthorityInv, TablesInv, OneLease, ChallengeSingleUse, Active
<1>5. FinishersInv'
  BY <1>1, <1>2 DEF AuthorityInv, FinishersInv
<1>6. HandlersInv'
  BY <1>1, Framed
<1>7. QED
  BY <1>3, <1>4, <1>5, <1>6 DEF AuthorityInv

\* A request that verifies, or fails, changes no table.
LEMMA VerifyKeeps ==
    ASSUME AuthorityInv, NEW f \in Finisher,
           \/ \E c \in Challenge, k \in Credential, n \in 0..MaxCount, fresh \in BOOLEAN :
                Verify(f, c, k, n, fresh)
           \/ FinishFails(f)
    PROVE  AuthorityInv'
<1>1. UNCHANGED <<epoch, freeze, latch, chal, cred, lease, admitted, started, lost, audit, hand>>
  BY DEF Verify, FinishFails
<1>2. TypeOK' /\ FinishersInv'
  <2>1. CASE FinishFails(f)
    BY <2>1, <1>1 DEF FinishFails, NoFinish, AuthorityInv, TypeOK, FinishersInv
  <2>2. ASSUME NEW c \in Challenge, NEW k \in Credential, NEW n \in 0..MaxCount, NEW fresh \in BOOLEAN,
               Verify(f, c, k, n, fresh)
        PROVE  TypeOK' /\ FinishersInv'
    <3>1. CASE fin' = [fin EXCEPT ![f] = [pc |-> "verified", challenge |-> c, credential |-> k,
                                          fresh |-> fresh, count |-> n]]
      BY <3>1, <2>2, <1>1 DEF Verify, AuthorityInv, TypeOK, FinishersInv
    <3>2. CASE fin' = [fin EXCEPT ![f].pc = "anomaly"]
      <4>1. fin \in Finishers
        BY DEF AuthorityInv, TypeOK
      <4>2. /\ fin' \in Finishers /\ fin'[f].pc = "anomaly"
            /\ \A g \in Finisher \ {f} : fin'[g] = fin[g]
        BY <3>2, <4>1
      <4>3. TypeOK'
        BY <4>2, <1>1 DEF AuthorityInv, TypeOK
      <4>4. FinishersInv'
        BY <4>2, <1>1 DEF AuthorityInv, FinishersInv
      <4>5. QED
        BY <4>3, <4>4
    <3>3. QED
      BY <3>1, <3>2, <2>2 DEF Verify
  <2>3. QED
    BY <2>1, <2>2
<1>3. TablesInv' /\ HandlersInv'
  BY <1>1, Framed
<1>4. QED
  BY <1>2, <1>3 DEF AuthorityInv

\* The challenge of a request that consumes it was open, so no lease was issued for it.
LEMMA ConsumeChallenge ==
    ASSUME AuthorityInv, NEW f \in Finisher, fin[f].pc = "verified", NEW p \in Purposes, Consumable(f, p),
           chal' = Consumed(f), fin' = [fin EXCEPT ![f] = NoFinish]
    PROVE  /\ fin[f].challenge \in Challenge /\ fin[f].credential \in Credential
           /\ chal' \in ChallengeTable
           /\ fin' \in Finishers
           /\ chal'[fin[f].challenge].state = "consumed"
           /\ \A c \in Challenge : chal[c].state = "consumed" => chal'[c].state = "consumed"
           /\ \A e \in Epoch : lease[e].by # fin[f].challenge
           /\ FinishersInv'
<1> DEFINE c == fin[f].challenge
<1>1. c \in Challenge /\ fin[f].credential \in Credential /\ chal[c].state = "open"
  BY DEF AuthorityInv, FinishersInv, Consumable
<1>2. /\ chal' \in ChallengeTable
      /\ chal'[c].state = "consumed" /\ \A d \in Challenge \ {c} : chal'[d] = chal[d]
  <2>1. chal \in ChallengeTable
    BY DEF AuthorityInv, TypeOK
  <2>2. chal' = [chal EXCEPT ![c].state = "consumed"]
    BY DEF Consumed
  <2>3. QED
    BY <1>1, <2>1, <2>2
<1>3. fin' \in Finishers
  BY DEF NoFinish, AuthorityInv, TypeOK
<1>4. \A e \in Epoch : lease[e].by # c
  BY <1>1 DEF AuthorityInv, TablesInv
<1>5. FinishersInv'
  <2> SUFFICES ASSUME NEW g \in Finisher, fin'[g].pc = "verified"
               PROVE  /\ fin'[g].challenge \in Challenge /\ fin'[g].credential \in Credential
                      /\ chal'[fin'[g].challenge].state \in {"open", "consumed"}
    BY DEF FinishersInv
  <2>1. g # f /\ fin'[g] = fin[g]
    BY DEF NoFinish, AuthorityInv, TypeOK
  <2>2. QED
    BY <2>1, <1>2 DEF AuthorityInv, FinishersInv
<1>6. QED
  BY <1>1, <1>2, <1>3, <1>4, <1>5

\* A counter that is written is one that was read from a response.
LEMMA Counted ==
    ASSUME TypeOK, NEW f \in Finisher, Counts(f)
    PROVE  cred' \in [Credential -> 0..NoCredential]
BY DEF Counts, TypeOK, NoCredential, Enrolled

\* A registration consumes its challenge and issues no lease.
LEMMA RegistrationKeeps ==
    ASSUME AuthorityInv, NEW f \in Finisher, CompleteRegistration(f)
    PROVE  AuthorityInv'
<1> DEFINE k == fin[f].credential
<1>1. /\ UNCHANGED <<epoch, freeze, latch, lease, admitted, started, lost, hand>>
      /\ fin[f].pc = "verified" /\ Consumable(f, "registration")
      /\ chal' = Consumed(f) /\ fin' = [fin EXCEPT ![f] = NoFinish]
      /\ cred' = [cred EXCEPT ![k] = fin[f].count]
      /\ audit' = audit \cup {<<"credential-enrolled", k>>}
  BY DEF CompleteRegistration
<1>2. "registration" \in Purposes
  BY DEF Purposes
<1>3. /\ k \in Credential
      /\ chal' \in ChallengeTable
      /\ fin' \in Finishers
      /\ \A c \in Challenge : chal[c].state = "consumed" => chal'[c].state = "consumed"
      /\ FinishersInv'
  BY <1>1, <1>2, ConsumeChallenge
<1>4. TypeOK'
  <2>1. cred' \in [Credential -> 0..NoCredential]
    <3>1. cred \in [Credential -> 0..NoCredential] /\ fin[f].count \in 0..NoCredential
      BY DEF AuthorityInv, TypeOK, NoCredential
    <3>2. QED
      BY <1>1, <3>1
  <2>2. audit' \subseteq Events
    BY <1>1, <1>3 DEF AuthorityInv, TypeOK
  <2>3. QED
    BY <2>1, <2>2, <1>1, <1>3 DEF AuthorityInv, TypeOK
<1>5. TablesInv'
  BY <1>1, <1>3 DEF AuthorityInv, TypeOK, TablesInv, OneLease, ChallengeSingleUse, Active
<1>6. HandlersInv'
  BY <1>1, Framed
<1>7. QED
  BY <1>3, <1>4, <1>5, <1>6 DEF AuthorityInv

\* A lease, issued or recovered, is for a challenge no other lease was issued for.
LEMMA LeaseKeeps ==
    ASSUME AuthorityInv, NEW f \in Finisher, CompleteAuthentication(f) \/ CompleteRecovery(f)
    PROVE  AuthorityInv'
<1> DEFINE c == fin[f].challenge
<1>1. PICK p \in Purposes, event \in {"lease-issued", "authority-recovered"} :
        /\ fin[f].pc = "verified" /\ Consumable(f, p)
        /\ chal' = Consumed(f) /\ fin' = [fin EXCEPT ![f] = NoFinish]
        /\ Counts(f) /\ IssueLease(f, event)
        /\ UNCHANGED <<latch, admitted, started, lost, hand>>
  BY DEF CompleteAuthentication, CompleteRecovery, Purposes
<1>2. freeze' \in [frozen: BOOLEAN, epoch: Epoch] /\ ~freeze'.frozen /\ freeze'.epoch = freeze.epoch
  BY DEF CompleteAuthentication, CompleteRecovery, AuthorityInv, TypeOK
<1>3. /\ c \in Challenge
      /\ chal' \in ChallengeTable /\ fin' \in Finishers
      /\ chal'[c].state = "consumed"
      /\ \A d \in Challenge : chal[d].state = "consumed" => chal'[d].state = "consumed"
      /\ \A e \in Epoch : lease[e].by # c
      /\ FinishersInv'
  BY <1>1, ConsumeChallenge
<1>4. /\ epoch' \in Epoch /\ epoch' = epoch + 1
      /\ lease' \in LeaseTable
      /\ Active' = {epoch'} /\ lease'[epoch'].by = c
      /\ \A e \in Epoch \ {epoch'} : lease'[e].by = lease[e].by /\ (lease[e] = NoLease => lease'[e] = NoLease)
      /\ audit' = audit \cup {<<event, epoch'>>}
  BY <1>1, <1>3, IssuedLease DEF AuthorityInv
<1>5. TypeOK'
  <2>1. cred' \in [Credential -> 0..NoCredential]
    BY <1>1, Counted DEF AuthorityInv
  <2>2. audit' \subseteq Events
    BY <1>4 DEF AuthorityInv, TypeOK
  <2>3. QED
    BY <2>1, <2>2, <1>1, <1>2, <1>3, <1>4 DEF AuthorityInv, TypeOK
<1>6. TablesInv'
  <2>1. freeze'.epoch <= epoch' /\ OneLease'
    BY <1>2, <1>4 DEF AuthorityInv, TypeOK, TablesInv, OneLease, Epoch
  <2>2. \A e \in Epoch : e > epoch' => lease'[e] = NoLease
    BY <1>4 DEF AuthorityInv, TypeOK, TablesInv, Epoch
  <2>3. \A e \in Epoch : lease'[e].by # None => chal'[lease'[e].by].state = "consumed"
    BY <1>3, <1>4 DEF AuthorityInv, TypeOK, TablesInv
  <2>4. ChallengeSingleUse'
    <3> SUFFICES ASSUME NEW d \in Epoch, NEW e \in Epoch, d # e, lease'[d].by # None
                 PROVE  lease'[d].by # lease'[e].by
      BY DEF ChallengeSingleUse
    <3>1. CASE d = epoch'
      BY <3>1, <1>3, <1>4
    <3>2. CASE e = epoch'
      BY <3>2, <1>3, <1>4
    <3>3. CASE d # epoch' /\ e # epoch'
      BY <3>3, <1>4 DEF AuthorityInv, TablesInv, ChallengeSingleUse
    <3>4. QED
      BY <3>1, <3>2, <3>3
  <2>5. QED
    BY <2>1, <2>2, <2>3, <2>4 DEF TablesInv
<1>7. HandlersInv'
  BY <1>1, Framed
<1>8. QED
  BY <1>3, <1>5, <1>6, <1>7 DEF AuthorityInv

-----------------------------------------------------------------------------
(* The freeze.                                                             *)

\* A freeze issues nothing and consumes nothing.
LEMMA FreezeKeepsTables ==
    ASSUME AuthorityInv, Freeze, chal' = chal
    PROVE  TablesInv'
<1>1. \A e \in Epoch : lease'[e].by = lease[e].by /\ (lease[e] = NoLease => lease'[e] = NoLease)
  BY Frozen DEF AuthorityInv
<1>2. freeze'.epoch <= epoch' /\ OneLease'
  BY Frozen DEF AuthorityInv, OneLease
<1>3. \A e \in Epoch : e > epoch' => lease'[e] = NoLease
  <2>1. epoch' \in Epoch /\ epoch <= epoch'
    BY Frozen DEF AuthorityInv
  <2>2. QED
    <3> SUFFICES ASSUME NEW e \in Epoch, e > epoch' PROVE lease'[e] = NoLease
      OBVIOUS
    <3>1. e > epoch
      BY <2>1 DEF AuthorityInv, TypeOK, Epoch
    <3>2. QED
      BY <3>1, <1>1 DEF AuthorityInv, TablesInv
<1>4. QED
  BY <1>1, <1>2, <1>3 DEF AuthorityInv, TablesInv, ChallengeSingleUse

\* The freeze of an anomaly, and the operator's.
LEMMA FreezeKeeps ==
    ASSUME AuthorityInv,
           (\E f \in Finisher : AnomalyFreezes(f)) \/ (\E h \in Handler : OperatorFreezes(h))
    PROVE  AuthorityInv'
<1>1. /\ Freeze
      /\ UNCHANGED <<latch, chal, cred, admitted, started, lost>>
  BY DEF AnomalyFreezes, OperatorFreezes
<1>2. /\ epoch' \in Epoch /\ freeze' \in [frozen: BOOLEAN, epoch: Epoch]
      /\ lease' \in LeaseTable /\ audit' \subseteq Events
  BY <1>1, Frozen DEF AuthorityInv, TypeOK
<1>3. TablesInv'
  BY <1>1, FreezeKeepsTables
<1>4. CASE \E f \in Finisher : AnomalyFreezes(f)
  <2>1. PICK f \in Finisher : fin' = [fin EXCEPT ![f] = NoFinish] /\ hand' = hand
    BY <1>4 DEF AnomalyFreezes
  <2>2. fin' \in Finishers /\ FinishersInv'
    <3>1. fin \in Finishers
      BY DEF AuthorityInv, TypeOK
    <3>2. /\ fin' \in Finishers /\ fin'[f].pc = "idle"
          /\ \A g \in Finisher \ {f} : fin'[g] = fin[g]
      BY <2>1, <3>1 DEF NoFinish
    <3>3. FinishersInv'
      BY <3>2, <1>1 DEF AuthorityInv, FinishersInv
    <3>4. QED
      BY <3>2, <3>3
  <2>3. HandlersInv'
    BY <2>1, <1>1, Framed
  <2>4. QED
    BY <2>1, <2>2, <2>3, <1>1, <1>2, <1>3 DEF AuthorityInv, TypeOK
<1>5. CASE \E h \in Handler : OperatorFreezes(h)
  <2>1. PICK h \in Handler : hand[h].pc = "latched" /\ hand' = [hand EXCEPT ![h] = NoHandle] /\ fin' = fin
    BY <1>5 DEF OperatorFreezes
  <2>2. /\ hand' \in Handlers /\ hand'[h].pc = "idle"
        /\ \A g \in Handler \ {h} : hand'[g] = hand[g]
    BY <2>1, Released
  <2>3. HandlersInv'
    <3>1. Names'
      BY <2>2 DEF AuthorityInv, HandlersInv
    <3>2. QED
      BY <2>1, <2>2, <3>1, <1>1, SameHoldings
  <2>4. FinishersInv'
    BY <2>1, <1>1, Framed
  <2>5. QED
    BY <2>1, <2>2, <2>3, <2>4, <1>1, <1>2, <1>3 DEF AuthorityInv, TypeOK
<1>6. QED
  BY <1>4, <1>5

-----------------------------------------------------------------------------
(* Discord interactions.                                                   *)

\* A request that reads its lease, or sets the latch, has admitted nothing yet.
LEMMA ArriveKeeps ==
    ASSUME AuthorityInv, NEW h \in Handler,
           (\E i \in Interaction, p \in Payload : ReadLease(h, i, p)) \/ OperatorLatches(h)
    PROVE  AuthorityInv'
<1>1. /\ UNCHANGED <<epoch, freeze, chal, cred, lease, admitted, started, lost, audit, fin>>
      /\ latch' \in BOOLEAN /\ hand[h].pc = "idle"
  BY DEF ReadLease, OperatorLatches, AuthorityInv, TypeOK
<1>2. /\ hand' \in Handlers
      /\ \A g \in Handler \ {h} : hand'[g] = hand[g]
      /\ \/ hand'[h].pc = "latched"
         \/ hand'[h].pc = "leased" /\ hand'[h].interaction \in Interaction /\ hand'[h].payload \in Payload
  <2>1. CASE OperatorLatches(h)
    <3>1. hand \in Handlers /\ hand' = [hand EXCEPT ![h].pc = "latched"]
      BY <2>1 DEF OperatorLatches, AuthorityInv, TypeOK
    <3>2. QED
      BY <3>1
  <2>2. ASSUME NEW i \in Interaction, NEW p \in Payload, ReadLease(h, i, p)
        PROVE  /\ hand' \in Handlers /\ \A g \in Handler \ {h} : hand'[g] = hand[g]
               /\ hand'[h].pc = "leased" /\ hand'[h].interaction = i /\ hand'[h].payload = p
    <3>1. PICK e \in Active :
            hand' = [hand EXCEPT ![h] = [pc |-> "leased", interaction |-> i, payload |-> p, lease |-> e]]
      BY <2>2 DEF ReadLease
    <3>2. e \in 0..MaxEpoch
      <4>1. e \in Epoch
        BY DEF Active
      <4>2. QED
        BY <4>1 DEF Epoch
    <3>3. hand \in Handlers
      BY DEF AuthorityInv, TypeOK
    <3>4. QED
      BY <3>1, <3>2, <3>3
  <2>3. QED
    BY <2>1, <2>2
<1>3. HandlersInv'
  <2>1. \A g \in Handler : hand'[g].pc = "admitted" \/ hand[g].pc = "admitted" => hand'[g] = hand[g]
    BY <1>1, <1>2
  <2>2. Names'
    BY <1>2 DEF AuthorityInv, HandlersInv
  <2>3. QED
    BY <2>1, <2>2, <1>1, SameHoldings
<1>4. TablesInv' /\ FinishersInv'
  BY <1>1, Framed
<1>5. TypeOK'
  BY <1>1, <1>2 DEF AuthorityInv, TypeOK
<1>6. QED
  BY <1>3, <1>4, <1>5 DEF AuthorityInv

\* An interaction is admitted by one request: it was not admitted before, so none has
\* started it or holds it.
LEMMA AdmitKeeps ==
    ASSUME AuthorityInv, NEW h \in Handler, Admit(h)
    PROVE  AuthorityInv'
<1> DEFINE i == hand[h].interaction
           p == hand[h].payload
<1>1. /\ UNCHANGED <<epoch, freeze, latch, chal, cred, lease, started, lost, audit, fin>>
      /\ hand[h].pc = "leased" /\ i \in Interaction /\ p \in Payload
  BY DEF Admit, AuthorityInv, HandlersInv
<1>2. TablesInv' /\ FinishersInv'
  BY <1>1, Framed
<1>3. CASE admitted[i] = None /\ MayAdmit(h)
  <2>1. admitted' = [admitted EXCEPT ![i] = p] /\ hand' = [hand EXCEPT ![h].pc = "admitted"]
    BY <1>3 DEF Admit
  <2>2. TypeOK'
    <3>1. hand \in Handlers /\ admitted \in [Interaction -> Payload \cup {None}]
      BY DEF AuthorityInv, TypeOK
    <3>2. hand' \in Handlers /\ admitted' \in [Interaction -> Payload \cup {None}]
      BY <2>1, <1>1, <3>1
    <3>3. QED
      BY <3>2, <1>1 DEF AuthorityInv, TypeOK
  <2>3. /\ admitted'[i] = p /\ \A j \in Interaction \ {i} : admitted'[j] = admitted[j]
        /\ hand'[h].pc = "admitted" /\ hand'[h].interaction = i /\ hand'[h].payload = p
        /\ \A g \in Handler \ {h} : hand'[g] = hand[g]
    BY <2>1, <1>1 DEF AuthorityInv, TypeOK
  <2>4. \A x \in started : x[1] \in Interaction \ {i}
    BY <1>3 DEF AuthorityInv, TypeOK, HandlersInv
  <2>5. \A g \in Handler : hand[g].pc = "admitted" => hand[g].interaction \in Interaction \ {i}
    <3>1. Names /\ Holds
      BY DEF AuthorityInv, HandlersInv
    <3>2. QED
      BY <3>1, <1>3
  <2>6. StartsAsAdmitted' /\ StartedOnce'
    <3>1. StartsAsAdmitted /\ StartedOnce
      BY DEF AuthorityInv, HandlersInv
    <3>2. \A x \in started' : x \in started /\ admitted'[x[1]] = admitted[x[1]]
      BY <2>3, <2>4, <1>1
    <3>3. QED
      BY <3>1, <3>2, <1>1 DEF StartedOnce
  <2>7. AdmittedIsStarted'
    <3>1. AdmittedIsStarted
      BY DEF AuthorityInv, HandlersInv
    <3>2. \A g \in Handler, j \in Interaction :
            hand[g].pc = "admitted" /\ hand[g].interaction = j =>
              hand'[g].pc = "admitted" /\ hand'[g].interaction = j
      BY <2>3
    <3>3. QED
      BY <3>1, <3>2, <2>3, <1>1 DEF AdmittedIsStarted
  <2>8. HandlersInv'
    <3>1. Names /\ Holds /\ HeldByOne
      BY DEF AuthorityInv, HandlersInv
    <3>2. Names'
      BY <3>1, <2>3, <1>1
    <3>3. Holds'
      <4> SUFFICES ASSUME NEW g \in Handler, hand'[g].pc = "admitted"
                   PROVE  /\ admitted'[hand'[g].interaction] = hand'[g].payload
                          /\ \A x \in started' : x[1] # hand'[g].interaction
        OBVIOUS
      <4>1. CASE g = h
        BY <4>1, <2>3, <2>4, <1>1
      <4>2. CASE g # h
        BY <4>2, <3>1, <2>3, <2>5, <1>1
      <4>3. QED
        BY <4>1, <4>2
    <3>4. HeldByOne'
      BY <3>1, <2>3, <2>5
    <3>5. QED
      BY <3>2, <3>3, <3>4, <2>6, <2>7 DEF HandlersInv
  <2>9. QED
    BY <2>2, <2>8, <1>2 DEF AuthorityInv
<1>4. CASE ~(admitted[i] = None /\ MayAdmit(h))
  <2>1. admitted' = admitted /\ hand' = [hand EXCEPT ![h] = NoHandle]
    BY <1>4 DEF Admit
  <2>2. /\ hand' \in Handlers /\ hand'[h].pc = "idle"
        /\ \A g \in Handler \ {h} : hand'[g] = hand[g]
    BY <2>1, Released
  <2>3. TypeOK'
    BY <2>1, <2>2, <1>1 DEF AuthorityInv, TypeOK
  <2>4. Names'
    BY <2>2 DEF AuthorityInv, HandlersInv
  <2>5. HandlersInv'
    BY <2>1, <2>2, <2>4, <1>1, SameHoldings
  <2>6. QED
    BY <2>3, <2>5, <1>2 DEF AuthorityInv
<1>5. QED
  BY <1>3, <1>4

\* The request that admitted an interaction starts its command, and holds it no more.
LEMMA StartKeeps ==
    ASSUME AuthorityInv, NEW h \in Handler, StartCommand(h)
    PROVE  AuthorityInv'
<1> DEFINE i == hand[h].interaction
           p == hand[h].payload
<1>1. /\ UNCHANGED <<epoch, freeze, latch, chal, cred, lease, admitted, lost, audit, fin>>
      /\ hand[h].pc = "admitted" /\ i \in Interaction /\ p \in Payload /\ admitted[i] = p
      /\ started' = started \cup {<<i, p, h>>} /\ hand' = [hand EXCEPT ![h] = NoHandle]
  BY DEF StartCommand, AuthorityInv, HandlersInv
<1>2. TypeOK'
  <2>1. started' \subseteq Interaction \X Payload \X Handler
    BY <1>1 DEF AuthorityInv, TypeOK
  <2>2. QED
    BY <2>1, <1>1, Released DEF AuthorityInv, TypeOK
<1>3. /\ \A g \in Handler \ {h} : hand'[g] = hand[g]
      /\ hand'[h].pc = "idle"
  BY <1>1, Released
<1>4. /\ \A x \in started : x[1] # i
      /\ \A g \in Handler \ {h} : hand[g].pc = "admitted" => hand[g].interaction # i
  BY <1>1 DEF AuthorityInv, HandlersInv
<1>5. \A x \in started' : x \in started \/ (x[1] = i /\ x[2] = p /\ x = <<i, p, h>>)
  BY <1>1
<1>6. StartedOnce' /\ \A x \in started' : admitted'[x[1]] = x[2]
  BY <1>1, <1>4, <1>5 DEF AuthorityInv, HandlersInv, StartedOnce
<1>7. AdmittedIsStarted'
  <2>1. \E x \in started' : x[1] = i
    <3>1. <<i, p, h>> \in started' /\ <<i, p, h>>[1] = i
      BY <1>1
    <3>2. QED
      BY <3>1
  <2>2. QED
    BY <2>1, <1>1, <1>3 DEF AuthorityInv, HandlersInv, AdmittedIsStarted
<1>8. Names' /\ HeldByOne'
  <2>1. \A g \in Handler : hand'[g].pc # "idle" => hand'[g] = hand[g]
    BY <1>3
  <2>2. Names'
    BY <2>1 DEF AuthorityInv, HandlersInv
  <2>3. HeldByOne'
    BY <2>1 DEF AuthorityInv, HandlersInv
  <2>4. QED
    BY <2>2, <2>3
<1>9. Holds'
  BY <1>1, <1>3, <1>4, <1>5 DEF AuthorityInv, HandlersInv
<1>10. TablesInv' /\ FinishersInv'
  BY <1>1, Framed
<1>11. QED
  BY <1>2, <1>6, <1>7, <1>8, <1>9, <1>10 DEF AuthorityInv, HandlersInv

\* A request that dies after the admission leaves its interaction lost.
LEMMA HandleFailsKeeps ==
    ASSUME AuthorityInv, NEW h \in Handler, HandleFails(h)
    PROVE  AuthorityInv'
<1> DEFINE i == hand[h].interaction
<1>1. /\ UNCHANGED <<epoch, freeze, latch, chal, cred, lease, admitted, started, audit, fin>>
      /\ lost' = (IF hand[h].pc = "admitted" THEN lost \cup {i} ELSE lost)
      /\ hand' = [hand EXCEPT ![h] = NoHandle]
  BY DEF HandleFails
<1>2. TypeOK'
  <2>1. lost' \subseteq Interaction
    <3>1. lost \subseteq Interaction /\ Names
      BY DEF AuthorityInv, TypeOK, HandlersInv
    <3>2. QED
      BY <3>1, <1>1
  <2>2. QED
    BY <2>1, <1>1, Released DEF AuthorityInv, TypeOK
<1>3. /\ \A g \in Handler \ {h} : hand'[g] = hand[g]
      /\ hand'[h].pc = "idle"
  BY <1>1, Released
<1>4. AdmittedIsStarted'
  <2>1. AdmittedIsStarted
    BY DEF AuthorityInv, HandlersInv
  <2>2. \A g \in Handler, j \in Interaction :
          hand[g].pc = "admitted" /\ hand[g].interaction = j =>
            j \in lost' \/ (hand'[g].pc = "admitted" /\ hand'[g].interaction = j)
    BY <1>1, <1>3
  <2>3. QED
    BY <2>1, <2>2, <1>1 DEF AdmittedIsStarted
<1>5. HandlersInv'
  <2>1. Names' /\ HeldByOne'
    <3>1. \A g \in Handler : hand'[g].pc # "idle" => hand'[g] = hand[g]
      BY <1>3
    <3>2. Names'
      BY <3>1 DEF AuthorityInv, HandlersInv
    <3>3. HeldByOne'
      BY <3>1 DEF AuthorityInv, HandlersInv
    <3>4. QED
      BY <3>2, <3>3
  <2>2. Holds'
    <3>1. Holds
      BY DEF AuthorityInv, HandlersInv
    <3>2. QED
      BY <3>1, <1>1, <1>3
  <2>3. StartsAsAdmitted' /\ StartedOnce'
    BY <1>1 DEF AuthorityInv, HandlersInv, StartedOnce
  <2>4. QED
    BY <2>1, <2>2, <2>3, <1>4 DEF HandlersInv
<1>6. TablesInv' /\ FinishersInv'
  BY <1>1, Framed
<1>7. QED
  BY <1>2, <1>5, <1>6 DEF AuthorityInv

-----------------------------------------------------------------------------
(* Theorems.                                                               *)

\* The tables as initialize leaves them.
LEMMA AuthorityInvInit == Init => AuthorityInv
<1> SUFFICES ASSUME Init PROVE AuthorityInv
  OBVIOUS
<1>1. TypeOK
  <2>1. 1 \in Epoch /\ 0 \in 0..MaxEpoch /\ 0 \in 0..MaxCount /\ NoCredential \in 0..NoCredential
    BY DEF Epoch, NoCredential
  <2>2. "lease" \in Purposes
    BY DEF Purposes
  <2>3. chal \in ChallengeTable /\ lease \in LeaseTable /\ cred \in [Credential -> 0..NoCredential]
    BY <2>1, <2>2 DEF Init, NoChallenge, NoLease
  <2>4. fin \in Finishers
    BY <2>1 DEF Init, NoFinish
  <2>5. hand \in Handlers
    BY <2>1 DEF Init, NoHandle
  <2>6. QED
    BY <2>1, <2>3, <2>4, <2>5 DEF Init, TypeOK
<1>2. TablesInv
  BY DEF Init, TablesInv, OneLease, ChallengeSingleUse, Active, Epoch, NoLease
<1>3. FinishersInv
  BY DEF Init, FinishersInv, NoFinish
<1>4. HandlersInv
  BY DEF Init, HandlersInv, StartedOnce, AdmittedIsStarted, NoHandle
<1>5. QED
  BY <1>1, <1>2, <1>3, <1>4 DEF AuthorityInv

\* Every step of the services keeps the invariant.
LEMMA AuthorityInvStep == AuthorityInv /\ [Next]_vars => AuthorityInv'
<1> SUFFICES ASSUME AuthorityInv, [Next]_vars PROVE AuthorityInv'
  OBVIOUS
<1>1. CASE UNCHANGED vars
  <2>1. TypeOK'
    BY <1>1 DEF vars, AuthorityInv, TypeOK
  <2>2. TablesInv' /\ FinishersInv' /\ HandlersInv'
    BY <1>1, Framed DEF vars
  <2>3. QED
    BY <2>1, <2>2 DEF AuthorityInv
<1>2. CASE \E c \in Challenge : (\E p \in Purposes : Begin(c, p)) \/ CreateChallenge(c)
  BY <1>2, BeginKeeps
<1>3. CASE \E f \in Finisher, c \in Challenge, k \in Credential, n \in 0..MaxCount, fresh \in BOOLEAN :
             Verify(f, c, k, n, fresh)
  BY <1>3, VerifyKeeps
<1>4. CASE \E f \in Finisher : FinishFails(f)
  BY <1>4, VerifyKeeps
<1>5. CASE \E f \in Finisher : CompleteRegistration(f)
  BY <1>5, RegistrationKeeps
<1>6. CASE \E f \in Finisher : CompleteAuthentication(f) \/ CompleteRecovery(f)
  BY <1>6, LeaseKeeps
<1>7. CASE (\E f \in Finisher : AnomalyFreezes(f)) \/ (\E h \in Handler : OperatorFreezes(h))
  BY <1>7, FreezeKeeps
<1>8. CASE \E h \in Handler :
             (\E i \in Interaction, p \in Payload : ReadLease(h, i, p)) \/ OperatorLatches(h)
  BY <1>8, ArriveKeeps
<1>9. CASE \E h \in Handler : Admit(h)
  BY <1>9, AdmitKeeps
<1>10. CASE \E h \in Handler : StartCommand(h)
  BY <1>10, StartKeeps
<1>11. CASE \E h \in Handler : HandleFails(h)
  BY <1>11, HandleFailsKeeps
<1>12. QED
  BY <1>1, <1>2, <1>3, <1>4, <1>5, <1>6, <1>7, <1>8, <1>9, <1>10, <1>11 DEF Next

\* The inductive invariant of the authority (authority/sqlalchemy.py with the services
\* that call it).
THEOREM AuthorityConsistent == Spec => []AuthorityInv
BY AuthorityInvInit, AuthorityInvStep, PTL DEF Spec

\* Every reachable state of the authority is of its type.
THEOREM AuthorityTyped == Spec => []TypeOK
<1>1. AuthorityInv => TypeOK
  BY DEF AuthorityInv
<1>2. QED
  BY <1>1, AuthorityConsistent, PTL

\* At most one lease is active, in the current epoch, and none while the authority is
\* frozen (active_lease, freeze, complete_authentication, complete_recovery).
THEOREM LeaseUnique == Spec => []OneLease
<1>1. AuthorityInv => OneLease
  BY DEF AuthorityInv, TablesInv
<1>2. QED
  BY <1>1, AuthorityConsistent, PTL

\* A challenge is good for one lease (_consume_challenge_row).
THEOREM ChallengeOnce == Spec => []ChallengeSingleUse
<1>1. AuthorityInv => ChallengeSingleUse
  BY DEF AuthorityInv, TablesInv
<1>2. QED
  BY <1>1, AuthorityConsistent, PTL

\* An interaction starts its command at most once, with the payload that was admitted
\* (admit, DiscordCommandService).
THEOREM CommandOnce == Spec => []StartedOnce
<1>1. AuthorityInv => StartedOnce
  BY DEF AuthorityInv, HandlersInv
<1>2. QED
  BY <1>1, AuthorityConsistent, PTL

\* An admitted command is started or being started, unless its request died.
THEOREM CommandStarted == Spec => []AdmittedIsStarted
<1>1. AuthorityInv => AdmittedIsStarted
  BY DEF AuthorityInv, HandlersInv
<1>2. QED
  BY <1>1, AuthorityConsistent, PTL

\* A signature counter never goes back (the counter is compared again under the lock).
THEOREM CounterForward == Spec => CounterMonotone
<1> DEFINE Forward == \A k \in Credential : cred[k] # NoCredential => cred'[k] # NoCredential /\ cred'[k] >= cred[k]
<1>1. ASSUME AuthorityInv, [Next]_vars PROVE Forward
  <2>1. cred \in [Credential -> 0..NoCredential] /\ NoCredential \in Nat
    BY <1>1 DEF AuthorityInv, TypeOK, NoCredential
  <2>2. CASE cred' = cred
    BY <2>1, <2>2
  <2>3. ASSUME NEW f \in Finisher, CompleteRegistration(f) PROVE Forward
    <3>1. cred' = [cred EXCEPT ![fin[f].credential] = fin[f].count] /\ fin[f].credential \notin Enrolled
      BY <2>3 DEF CompleteRegistration
    <3>2. fin[f].credential \in Credential
      BY <1>1, <2>3 DEF CompleteRegistration, AuthorityInv, FinishersInv
    <3>3. QED
      BY <2>1, <3>1, <3>2 DEF Enrolled
  <2>4. ASSUME NEW f \in Finisher, Counts(f) PROVE Forward
    <3>1. /\ cred' = [cred EXCEPT ![fin[f].credential] = fin[f].count]
          /\ fin[f].credential \in Enrolled /\ fin[f].count >= cred[fin[f].credential]
      BY <2>4 DEF Counts
    <3>2. fin[f].count \in 0..MaxCount
      BY <1>1 DEF AuthorityInv, TypeOK
    <3>3. fin[f].count # NoCredential
      BY <3>2 DEF NoCredential
    <3>4. QED
      BY <2>1, <3>1, <3>2, <3>3 DEF Enrolled
  <2>5. \/ cred' = cred
        \/ \E f \in Finisher : CompleteRegistration(f) \/ Counts(f)
    BY <1>1 DEF Next, vars, Begin, CreateChallenge, Verify, CompleteAuthentication, CompleteRecovery,
                FinishFails, AnomalyFreezes, ReadLease, OperatorLatches, OperatorFreezes, Admit,
                StartCommand, HandleFails
  <2>6. QED
    BY <2>2, <2>3, <2>4, <2>5
<1>2. QED
  BY <1>1, AuthorityConsistent, PTL DEF Spec, CounterMonotone

\* A freeze is lifted only by a ceremony begun for it (complete_recovery).
THEOREM RecoveryOfItsFreeze == Spec => RecoveryNamesItsFreeze
<1> DEFINE Named == freeze.frozen /\ ~freeze'.frozen =>
             \E c \in Challenge : /\ chal[c].state = "open" /\ chal'[c].state = "consumed"
                                  /\ chal[c].purpose = "recovery" /\ chal[c].epoch = freeze.epoch
<1>1. ASSUME AuthorityInv, [Next]_vars PROVE Named
  <2>1. ASSUME NEW f \in Finisher, CompleteRecovery(f) PROVE Named
    <3>1. /\ fin[f].pc = "verified" /\ Consumable(f, "recovery")
          /\ chal' = Consumed(f) /\ fin' = [fin EXCEPT ![f] = NoFinish]
          /\ freeze.epoch = chal[fin[f].challenge].epoch
      BY <2>1 DEF CompleteRecovery
    <3>2. fin[f].challenge \in Challenge /\ chal'[fin[f].challenge].state = "consumed"
      BY <1>1, <3>1, ConsumeChallenge DEF Purposes
    <3>3. QED
      BY <3>1, <3>2 DEF Consumable
  <2>2. CASE freeze' = freeze \/ freeze'.frozen
    BY <2>2
  <2>3. Freeze => freeze' = freeze \/ freeze'.frozen
    BY DEF Freeze
  <2>4. \/ freeze' = freeze \/ Freeze
        \/ \E f \in Finisher : CompleteRecovery(f)
    BY <1>1 DEF Next, vars, Begin, CreateChallenge, Verify, CompleteRegistration, CompleteAuthentication,
                FinishFails, AnomalyFreezes, ReadLease, OperatorLatches, OperatorFreezes, Admit,
                StartCommand, HandleFails
  <2>5. QED
    BY <2>1, <2>2, <2>3, <2>4
<1>2. QED
  BY <1>1, AuthorityConsistent, PTL DEF Spec, RecoveryNamesItsFreeze

\* A command is admitted only under the lease its request read, while that lease is the
\* authority (admit).
THEOREM AdmissionUnderLease == Spec => AdmittedByTheLeaseOfItsEpoch
<1> DEFINE Under == \A i \in Interaction : admitted'[i] # admitted[i] =>
             \E h \in Handler : hand[h].interaction = i /\ hand[h].lease = epoch /\ lease[epoch].state = "active"
<1>1. ASSUME AuthorityInv, [Next]_vars PROVE Under
  <2>1. ASSUME NEW h \in Handler, Admit(h) PROVE Under
    <3>1. CASE admitted' = admitted
      BY <3>1
    <3>2. CASE /\ MayAdmit(h)
               /\ admitted' = [admitted EXCEPT ![hand[h].interaction] = hand[h].payload]
      <4>1. \A i \in Interaction : admitted'[i] # admitted[i] => i = hand[h].interaction
        BY <3>2, <1>1 DEF AuthorityInv, TypeOK
      <4>2. hand[h].lease = epoch /\ lease[epoch].state = "active"
        BY <3>2 DEF MayAdmit, Active
      <4>3. QED
        BY <4>1, <4>2
    <3>3. QED
      BY <2>1, <3>1, <3>2 DEF Admit
  <2>2. CASE admitted' = admitted
    BY <2>2
  <2>3. admitted' = admitted \/ \E h \in Handler : Admit(h)
    BY <1>1 DEF Next, vars, Begin, CreateChallenge, Verify, CompleteRegistration, CompleteAuthentication,
                CompleteRecovery, FinishFails, AnomalyFreezes, ReadLease, OperatorLatches,
                OperatorFreezes, StartCommand, HandleFails
  <2>4. QED
    BY <2>1, <2>2, <2>3
<1>2. QED
  BY <1>1, AuthorityConsistent, PTL DEF Spec, AdmittedByTheLeaseOfItsEpoch
=============================================================================
