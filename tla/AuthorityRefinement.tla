------------------------- MODULE AuthorityRefinement ------------------------
(***************************************************************************)
(* Proof that the authority over PostgreSQL, with the services that read   *)
(* ahead of their transactions, implements the in-memory repository.       *)
(***************************************************************************)
EXTENDS AuthorityProofs

USE AuthorityAssumption DEF ChallengeTable, LeaseTable, Finishers

-----------------------------------------------------------------------------
(* The refinement mapping.                                                 *)

MappedChallenges ==
    [c \in Challenge |->
       [state |-> IF chal[c].state = "begun" THEN "none" ELSE chal[c].state,
        purpose |-> IF chal[c].state \in {"none", "begun"} THEN "lease" ELSE chal[c].purpose]]
MappedActive == IF Active = {} THEN 0 ELSE CHOOSE e \in Active : TRUE
MappedAudit ==
    audit \cup {<<"lease-issued", e>> : e \in {d \in Epoch : <<"authority-recovered", d>> \in audit}}

\* The active lease, if there is one, is that of the current epoch.
LEMMA ActiveLease ==
    ASSUME AuthorityInv
    PROVE  \/ Active = {} /\ MappedActive = 0 /\ Revoked = lease
           \/ /\ Active = {epoch} /\ MappedActive = epoch /\ ~freeze.frozen
              /\ Revoked = [lease EXCEPT ![epoch].state = "revoked"]
<1>1. Active = {} \/ (Active = {epoch} /\ ~freeze.frozen)
  BY DEF AuthorityInv, TablesInv, OneLease
<1>2. lease \in LeaseTable /\ epoch \in Epoch
  BY DEF AuthorityInv, TypeOK
<1>3. CASE Active = {}
  <2>1. Revoked = lease
    BY <1>2, <1>3 DEF Revoked
  <2>2. QED
    BY <1>3, <2>1 DEF MappedActive
<1>4. CASE Active = {epoch} /\ ~freeze.frozen
  <2>1. MappedActive = epoch
    BY <1>4 DEF MappedActive
  <2>2. Revoked = [lease EXCEPT ![epoch].state = "revoked"]
    BY <1>2, <1>4 DEF Revoked
  <2>3. QED
    BY <1>4, <2>1, <2>2
<1>5. QED
  BY <1>1, <1>3, <1>4

\* The leases and the audit trail of the mapping after a lease was issued.
LEMMA MappedIssue ==
    ASSUME AuthorityInv, NEW f \in Finisher, fin[f].challenge \in Challenge,
           NEW event \in {"lease-issued", "authority-recovered"}, IssueLease(f, event)
    PROVE  /\ epoch < MaxEpoch /\ epoch' = epoch + 1 /\ MappedActive' = epoch + 1
           /\ lease' = [(IF MappedActive = 0 THEN lease ELSE [lease EXCEPT ![MappedActive].state = "revoked"])
                          EXCEPT ![epoch + 1] = [state |-> "active", by |-> fin[f].challenge]]
           /\ MappedAudit' = MappedAudit \cup {<<x, epoch + 1>> : x \in {"lease-issued", event}}
<1>1. /\ epoch < MaxEpoch /\ epoch' = epoch + 1 /\ epoch + 1 \in Epoch /\ Active' = {epoch + 1}
      /\ audit' = audit \cup {<<event, epoch + 1>>}
      /\ lease' = [Revoked EXCEPT ![epoch + 1] = [state |-> "active", by |-> fin[f].challenge]]
  BY IssuedLease DEF IssueLease, AuthorityInv
<1>2. MappedActive' = epoch + 1
  BY <1>1 DEF MappedActive
<1>3. epoch # 0
  BY DEF AuthorityInv, TypeOK, Epoch
<1>4. lease' = [(IF MappedActive = 0 THEN lease ELSE [lease EXCEPT ![MappedActive].state = "revoked"])
                  EXCEPT ![epoch + 1] = [state |-> "active", by |-> fin[f].challenge]]
  BY <1>1, <1>3, ActiveLease
<1>5. MappedAudit' = MappedAudit \cup {<<x, epoch + 1>> : x \in {"lease-issued", event}}
  <2>1. CASE event = "lease-issued"
    BY <1>1, <2>1 DEF MappedAudit
  <2>2. CASE event = "authority-recovered"
    BY <1>1, <2>2 DEF MappedAudit
  <2>3. QED
    BY <2>1, <2>2
<1>6. QED
  BY <1>1, <1>2, <1>4, <1>5

\* A challenge that was begun has no row yet.
LEMMA MappedBegin ==
    ASSUME AuthorityInv, NEW c \in Challenge, NEW p \in Purposes, Begin(c, p)
    PROVE  MappedChallenges' = MappedChallenges
<1>1. /\ chal[c].state = "none" /\ chal \in ChallengeTable
      /\ chal' = [chal EXCEPT ![c] = [state |-> "begun", purpose |-> p,
                                      epoch |-> IF p = "recovery" THEN freeze.epoch ELSE 0]]
  BY DEF Begin, AuthorityInv, TypeOK
<1>2. /\ chal'[c].state = "begun" /\ \A d \in Challenge \ {c} : chal'[d] = chal[d]
  BY <1>1
<1>3. QED
  BY <1>1, <1>2 DEF MappedChallenges

\* create_challenge gives it one.
LEMMA MappedCreate ==
    ASSUME AuthorityInv, NEW c \in Challenge, CreateChallenge(c)
    PROVE  /\ MappedChallenges[c].state = "none" /\ chal[c].purpose \in Purposes
           /\ MappedChallenges' =
                [MappedChallenges EXCEPT ![c] = [state |-> "open", purpose |-> chal[c].purpose]]
<1>1. /\ chal[c].state = "begun" /\ chal \in ChallengeTable
      /\ chal' = [chal EXCEPT ![c].state = "open"]
  BY DEF CreateChallenge, AuthorityInv, TypeOK
<1>2. /\ chal'[c].state = "open" /\ chal'[c].purpose = chal[c].purpose /\ chal[c].purpose \in Purposes
      /\ \A d \in Challenge \ {c} : chal'[d] = chal[d]
  BY <1>1
<1>3. QED
  BY <1>1, <1>2 DEF MappedChallenges

\* Consuming a challenge is consuming its row.
LEMMA MappedConsume ==
    ASSUME AuthorityInv, NEW f \in Finisher, fin[f].challenge \in Challenge, NEW p \in Purposes,
           Consumable(f, p), chal' = Consumed(f)
    PROVE  LET c == fin[f].challenge
           IN  /\ MappedChallenges[c].state = "open" /\ MappedChallenges[c].purpose = p
               /\ MappedChallenges' = [MappedChallenges EXCEPT ![c].state = "consumed"]
<1> DEFINE c == fin[f].challenge
<1>1. chal \in ChallengeTable
  BY DEF AuthorityInv, TypeOK
<1>2. chal[c].state = "open" /\ chal[c].purpose = p /\ chal' = [chal EXCEPT ![c].state = "consumed"]
  BY DEF Consumable, Consumed
<1>3. /\ chal'[c].state = "consumed" /\ chal'[c].purpose = p
      /\ \A d \in Challenge \ {c} : chal'[d] = chal[d]
  BY <1>1, <1>2
<1>4. MappedChallenges[c].state = "open" /\ MappedChallenges[c].purpose = p
  BY <1>2 DEF MappedChallenges
<1>5. MappedChallenges' = [MappedChallenges EXCEPT ![c].state = "consumed"]
  BY <1>2, <1>3 DEF MappedChallenges
<1>6. QED
  BY <1>4, <1>5

\* Without a change of the tables the mapping does not change.
LEMMA MappedStutter ==
    ASSUME UNCHANGED <<epoch, freeze, chal, cred, lease, admitted, audit>>
    PROVE  UNCHANGED Repository!vars
BY DEF Repository!vars, Active, Epoch

-----------------------------------------------------------------------------
(* The steps.                                                              *)

\* begin_* and create_challenge.
LEMMA BeginRefines ==
    ASSUME AuthorityInv, NEW c \in Challenge, (\E p \in Purposes : Begin(c, p)) \/ CreateChallenge(c)
    PROVE  [Repository!Next]_(Repository!vars)
<1>1. /\ UNCHANGED <<epoch, freeze, cred, lease, admitted, audit>>
      /\ MappedActive' = MappedActive /\ MappedAudit' = MappedAudit
  <2>1. UNCHANGED <<epoch, freeze, cred, lease, admitted, audit>>
    BY DEF Begin, CreateChallenge
  <2>2. Active' = Active
    BY <2>1 DEF Active
  <2>3. MappedActive' = MappedActive /\ MappedAudit' = MappedAudit
    BY <2>1, <2>2 DEF MappedActive, MappedAudit
  <2>4. QED
    BY <2>1, <2>3
<1>2. CASE \E p \in Purposes : Begin(c, p)
  <2>1. MappedChallenges' = MappedChallenges
    BY <1>2, MappedBegin
  <2>2. QED
    BY <1>1, <2>1 DEF Repository!vars, MappedChallenges, MappedActive, MappedAudit
<1>3. CASE CreateChallenge(c)
  <2>1. PICK p \in {"registration", "lease", "recovery"} : p = chal[c].purpose
    BY <1>3, MappedCreate DEF Purposes
  <2>2. Repository!CreateChallenge(c, p)
    BY <1>1, <1>3, <2>1, MappedCreate
       DEF Repository!CreateChallenge, MappedChallenges, MappedActive, MappedAudit
  <2>3. Repository!Next
    BY <2>2 DEF Repository!Next
  <2>4. QED
    BY <2>3
<1>4. QED
  BY <1>2, <1>3

\* complete_registration.
LEMMA RegistrationRefines ==
    ASSUME AuthorityInv, NEW f \in Finisher, CompleteRegistration(f)
    PROVE  [Repository!Next]_(Repository!vars)
<1>1. /\ fin[f].pc = "verified" /\ Consumable(f, "registration") /\ chal' = Consumed(f)
      /\ fin[f].credential \notin Enrolled
      /\ cred' = [cred EXCEPT ![fin[f].credential] = fin[f].count]
      /\ audit' = audit \cup {<<"credential-enrolled", fin[f].credential>>}
      /\ UNCHANGED <<epoch, freeze, lease, admitted>>
  BY DEF CompleteRegistration
<1>2. PICK c \in Challenge, k \in Credential, n \in 0..MaxCount :
        c = fin[f].challenge /\ k = fin[f].credential /\ n = fin[f].count
  BY <1>1 DEF AuthorityInv, TypeOK, FinishersInv
<1>3. /\ MappedChallenges[c].state = "open"
      /\ MappedChallenges' = [MappedChallenges EXCEPT ![c].state = "consumed"]
  BY <1>1, <1>2, MappedConsume DEF Purposes
<1>4. Active' = Active
  BY <1>1 DEF Active
<1>5. MappedActive' = MappedActive
  BY <1>4 DEF MappedActive
<1>6. MappedAudit' = MappedAudit \cup {<<"credential-enrolled", k>>}
  BY <1>1, <1>2 DEF MappedAudit
<1>7. Repository!Registers(k, n)
  BY <1>1, <1>2, <1>5, <1>6
     DEF Repository!Registers, Repository!Known, Repository!NoCredential, Enrolled, NoCredential,
         MappedActive, MappedAudit
<1>8. Repository!Consume(c)
  BY <1>3, <1>7 DEF Repository!Consume, MappedChallenges
<1>9. Repository!Next
  BY <1>8 DEF Repository!Next
<1>10. QED
  BY <1>9

\* complete_authentication and complete_recovery.
LEMMA LeaseRefines ==
    ASSUME AuthorityInv, NEW f \in Finisher, CompleteAuthentication(f) \/ CompleteRecovery(f)
    PROVE  [Repository!Next]_(Repository!vars)
<1>1. fin[f].pc = "verified" /\ chal' = Consumed(f) /\ Counts(f) /\ admitted' = admitted
  BY DEF CompleteAuthentication, CompleteRecovery
<1>2. PICK c \in Challenge, k \in Credential, n \in 0..MaxCount :
        c = fin[f].challenge /\ k = fin[f].credential /\ n = fin[f].count
  BY <1>1 DEF AuthorityInv, TypeOK, FinishersInv
<1>3. Repository!Counts(k, n)
  BY <1>1, <1>2 DEF Counts, Repository!Counts, Repository!Known, Repository!NoCredential, Enrolled, NoCredential
<1>4. ASSUME NEW event \in {"lease-issued", "authority-recovered"}, IssueLease(f, event)
      PROVE  Repository!Issue(c, {"lease-issued", event})
  <2>1. /\ epoch < MaxEpoch /\ epoch' = epoch + 1 /\ MappedActive' = epoch + 1
        /\ lease' = [(IF MappedActive = 0 THEN lease ELSE [lease EXCEPT ![MappedActive].state = "revoked"])
                       EXCEPT ![epoch + 1] = [state |-> "active", by |-> c]]
        /\ MappedAudit' = MappedAudit \cup {<<x, epoch + 1>> : x \in {"lease-issued", event}}
    BY <1>2, <1>4, MappedIssue
  <2>2. QED
    BY <2>1 DEF Repository!Issue, Repository!Revoked, MappedActive, MappedAudit
<1>5. CASE CompleteAuthentication(f)
  <2>1. /\ ~freeze.frozen /\ Consumable(f, "lease") /\ IssueLease(f, "lease-issued") /\ freeze' = freeze
    BY <1>5 DEF CompleteAuthentication
  <2>2. Repository!Issue(c, {"lease-issued"})
    <3>1. {"lease-issued", "lease-issued"} = {"lease-issued"}
      OBVIOUS
    <3>2. QED
      BY <2>1, <3>1, <1>4
  <2>3. Repository!Authenticates(c, k, n)
    BY <1>1, <1>3, <2>1, <2>2 DEF Repository!Authenticates
  <2>4. /\ MappedChallenges[c].state = "open"
        /\ MappedChallenges' = [MappedChallenges EXCEPT ![c].state = "consumed"]
    BY <1>1, <1>2, <2>1, MappedConsume DEF Purposes
  <2>5. Repository!Consume(c)
    BY <2>3, <2>4 DEF Repository!Consume, MappedChallenges
  <2>6. Repository!Next
    BY <2>5 DEF Repository!Next
  <2>7. QED
    BY <2>6
<1>6. CASE CompleteRecovery(f)
  <2>1. /\ freeze.frozen /\ Consumable(f, "recovery") /\ IssueLease(f, "authority-recovered")
        /\ freeze' = [freeze EXCEPT !.frozen = FALSE]
    BY <1>6 DEF CompleteRecovery
  <2>2. Repository!Issue(c, {"lease-issued", "authority-recovered"})
    BY <2>1, <1>4
  <2>3. /\ MappedChallenges[c].state = "open" /\ MappedChallenges[c].purpose = "recovery"
        /\ MappedChallenges' = [MappedChallenges EXCEPT ![c].state = "consumed"]
    BY <1>1, <1>2, <2>1, MappedConsume DEF Purposes
  <2>4. Repository!Recovers(c, k, n)
    BY <1>1, <1>3, <2>1, <2>2, <2>3 DEF Repository!Recovers, MappedChallenges
  <2>5. Repository!Consume(c)
    BY <2>3, <2>4 DEF Repository!Consume, MappedChallenges
  <2>6. Repository!Next
    BY <2>5 DEF Repository!Next
  <2>7. QED
    BY <2>6
<1>7. QED
  BY <1>5, <1>6

\* freeze, by the operator or for an anomaly.
LEMMA FreezeRefines ==
    ASSUME AuthorityInv, Freeze, UNCHANGED <<chal, cred, admitted>>
    PROVE  [Repository!Next]_(Repository!vars)
<1>1. CASE freeze.frozen /\ UNCHANGED <<epoch, freeze, lease, audit>>
  BY <1>1, MappedStutter
<1>2. CASE /\ ~freeze.frozen /\ epoch < MaxEpoch
           /\ epoch' = epoch + 1 /\ lease' = Revoked
           /\ freeze' = [frozen |-> TRUE, epoch |-> freeze.epoch + 1]
           /\ audit' = audit \cup {<<"authority-frozen", epoch + 1>>}
  <2>1. epoch # 0
    BY DEF AuthorityInv, TypeOK, Epoch
  <2>2. lease' = IF MappedActive = 0 THEN lease ELSE [lease EXCEPT ![MappedActive].state = "revoked"]
    BY <1>2, <2>1, ActiveLease
  <2>3. Active' = {}
    BY Frozen DEF AuthorityInv
  <2>4. MappedActive' = 0
    BY <2>3 DEF MappedActive
  <2>5. MappedAudit' = MappedAudit \cup {<<"authority-frozen", epoch + 1>>}
    BY <1>2 DEF MappedAudit
  <2>6. MappedChallenges' = MappedChallenges
    BY DEF MappedChallenges
  <2>7. Repository!Freeze
    BY <1>2, <2>2, <2>4, <2>5, <2>6
       DEF Repository!Freeze, Repository!Revoked, MappedActive, MappedAudit, MappedChallenges
  <2>8. Repository!Next
    BY <2>7 DEF Repository!Next
  <2>9. QED
    BY <2>8
<1>3. QED
  BY <1>1, <1>2 DEF Freeze

\* admit.
LEMMA AdmitRefines ==
    ASSUME AuthorityInv, NEW h \in Handler, Admit(h)
    PROVE  [Repository!Next]_(Repository!vars)
<1>1. UNCHANGED <<epoch, freeze, chal, cred, lease, audit>> /\ hand[h].pc = "leased"
  BY DEF Admit
<1>2. CASE admitted' = admitted
  BY <1>1, <1>2, MappedStutter
<1>3. CASE /\ admitted[hand[h].interaction] = None /\ MayAdmit(h)
           /\ admitted' = [admitted EXCEPT ![hand[h].interaction] = hand[h].payload]
  <2>1. PICK i \in Interaction, p \in Payload : i = hand[h].interaction /\ p = hand[h].payload
    BY <1>1 DEF AuthorityInv, HandlersInv, Names
  <2>2. MappedActive = epoch /\ ~freeze.frozen
    BY <1>3, ActiveLease DEF MayAdmit
  <2>3. Active' = Active
    BY <1>1 DEF Active
  <2>4. MappedActive' = MappedActive /\ MappedAudit' = MappedAudit /\ MappedChallenges' = MappedChallenges
    BY <1>1, <2>3 DEF MappedActive, MappedAudit, MappedChallenges
  <2>5. Repository!Admit(i, p)
    BY <1>1, <1>3, <2>1, <2>2, <2>4 DEF Repository!Admit, MappedActive, MappedAudit, MappedChallenges
  <2>6. Repository!Next
    BY <2>5 DEF Repository!Next
  <2>7. QED
    BY <2>6
<1>4. QED
  BY <1>2, <1>3 DEF Admit

-----------------------------------------------------------------------------

\* "Mirrors the SQLAlchemy repository exactly": every step of the authority, with
\* whatever its services read before, is a step of the in-memory repository or changes
\* none of its tables.
THEOREM AuthorityRefinesRepository == Spec => ImplementsRepository
<1>1. Init => Repository!Init
  <2> SUFFICES ASSUME Init PROVE Repository!Init
    OBVIOUS
  <2>1. Active = {} /\ {d \in Epoch : <<"authority-recovered", d>> \in audit} = {}
    BY DEF Init, Active, NoLease
  <2>2. MappedActive = 0 /\ MappedAudit = {}
    BY <2>1 DEF MappedActive, MappedAudit, Init
  <2>3. MappedChallenges = [c \in Challenge |-> [state |-> "none", purpose |-> "lease"]]
    BY DEF MappedChallenges, Init, NoChallenge
  <2>4. QED
    BY <2>2, <2>3 DEF Init, Repository!Init, Repository!NoCredential, Repository!Epoch, NoCredential,
                      Epoch, NoLease, MappedActive, MappedAudit, MappedChallenges
<1>2. ASSUME AuthorityInv, [Next]_vars PROVE [Repository!Next]_(Repository!vars)
  <2>1. CASE UNCHANGED <<epoch, freeze, chal, cred, lease, admitted, audit>>
    BY <2>1, MappedStutter
  <2>2. CASE \E c \in Challenge : (\E p \in Purposes : Begin(c, p)) \/ CreateChallenge(c)
    BY <1>2, <2>2, BeginRefines
  <2>3. CASE \E f \in Finisher : CompleteRegistration(f)
    BY <1>2, <2>3, RegistrationRefines
  <2>4. CASE \E f \in Finisher : CompleteAuthentication(f) \/ CompleteRecovery(f)
    BY <1>2, <2>4, LeaseRefines
  <2>5. CASE Freeze /\ UNCHANGED <<chal, cred, admitted>>
    BY <1>2, <2>5, FreezeRefines
  <2>6. CASE \E h \in Handler : Admit(h)
    BY <1>2, <2>6, AdmitRefines
  <2>7. \/ UNCHANGED <<epoch, freeze, chal, cred, lease, admitted, audit>>
        \/ \E c \in Challenge : (\E p \in Purposes : Begin(c, p)) \/ CreateChallenge(c)
        \/ \E f \in Finisher : CompleteRegistration(f)
        \/ \E f \in Finisher : CompleteAuthentication(f) \/ CompleteRecovery(f)
        \/ Freeze /\ UNCHANGED <<chal, cred, admitted>>
        \/ \E h \in Handler : Admit(h)
    BY <1>2 DEF Next, vars, Verify, FinishFails, AnomalyFreezes, ReadLease, OperatorLatches,
                OperatorFreezes, StartCommand, HandleFails
  <2>8. QED
    BY <2>1, <2>2, <2>3, <2>4, <2>5, <2>6, <2>7
<1>3. QED
  BY <1>1, <1>2, AuthorityConsistent, PTL DEF Spec, ImplementsRepository, Repository!Spec
=============================================================================
