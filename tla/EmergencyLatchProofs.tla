------------------------ MODULE EmergencyLatchProofs ------------------------
(***************************************************************************)
(* Proofs that a confirmed freeze, and a confirmed clear, survive losses   *)
(* of power, for any number of calls of set and reconcile_and_clear.       *)
(***************************************************************************)
EXTENDS EmergencyLatch, TLAPS

USE EmergencyLatchAssumption

SetStates == {"idle", "found", "writing", "synced", "renamed", "returned", "raised"}
ClearStates == {"idle", "found", "nothing", "unlinked", "cleared", "raised"}

LatchTypeOK ==
    /\ named \in kept /\ kept \subseteq Setter \cup {Unlatched}
    /\ setting \in [Setter -> SetStates] /\ clearing \in [Clearer -> ClearStates]
    /\ lifted \in [Clearer -> SUBSET Setter]

\* An envelope takes the latch's name once: the ones that are there, or were taken away,
\* belong to calls that have renamed theirs.
RenamedOnce ==
    \A s \in Setter : s \in kept \/ (\E c \in Clearer : s \in lifted[c]) =>
        setting[s] \in {"renamed", "returned", "raised"}

\* What a recovery took away does not have the name again.
LiftedIsGone ==
    \A c \in Clearer :
        /\ clearing[c] = "unlinked" => named \notin lifted[c]
        /\ clearing[c] = "cleared" => kept \cap lifted[c] = {}

LatchInv == LatchTypeOK /\ RenamedOnce /\ LiftedIsGone /\ FreezeLasts

-----------------------------------------------------------------------------

\* The steps of set that leave the directory as it is.
LEMMA QuietSetKeeps ==
    ASSUME LatchInv, NEW s \in Setter, LookForLatch(s) \/ ReadLatch(s) \/ WriteEnvelope(s) \/ SetFails(s)
    PROVE  LatchInv'
<1> USE DEF LatchInv
<1>1. /\ named' = named /\ kept' = kept /\ clearing' = clearing /\ lifted' = lifted
      /\ setting' \in [Setter -> SetStates]
      /\ \A q \in Setter : setting[q] \in {"renamed", "returned", "raised"} =>
                           setting'[q] \in {"renamed", "returned", "raised"}
  BY DEF LookForLatch, ReadLatch, WriteEnvelope, SetFails, Sets, LatchTypeOK, SetStates
<1>2. LatchTypeOK' /\ RenamedOnce' /\ LiftedIsGone'
  BY <1>1 DEF LatchTypeOK, RenamedOnce, LiftedIsGone
<1>3. FreezeLasts'
  <2>1. CASE frozen' = frozen /\ early' = early
    BY <2>1, <1>1 DEF FreezeLasts, Latched
  <2>2. CASE ReadLatch(s) /\ Latched
    BY <2>2, <1>1 DEF ReadLatch, FreezeLasts, Latched
  <2>3. QED
    BY <2>1, <2>2 DEF LookForLatch, ReadLatch, WriteEnvelope, SetFails
<1>4. QED
  BY <1>2, <1>3

\* The envelope that takes the name was never there before.
LEMMA RenameKeeps ==
    ASSUME LatchInv, NEW s \in Setter, RenameEnvelope(s)
    PROVE  LatchInv'
<1> USE DEF LatchInv
<1>1. /\ setting[s] = "synced" /\ named' = s /\ kept' = kept \cup {s}
      /\ setting' = [setting EXCEPT ![s] = "renamed"]
      /\ clearing' = clearing /\ frozen' = frozen /\ early' = early /\ lifted' = lifted
  BY DEF RenameEnvelope, Sets
<1>2. \A c \in Clearer : s \notin lifted[c]
  BY <1>1 DEF RenamedOnce
<1>3. LatchTypeOK'
  BY <1>1 DEF LatchTypeOK, SetStates
<1>4. RenamedOnce'
  BY <1>1 DEF RenamedOnce, LatchTypeOK
<1>5. LiftedIsGone'
  BY <1>1, <1>2 DEF LiftedIsGone
<1>6. FreezeLasts'
  BY <1>1 DEF FreezeLasts, Latched
<1>7. QED
  BY <1>3, <1>4, <1>5, <1>6

\* The directory is synced: what it shows is all that can be left.
LEMMA SyncKeeps ==
    ASSUME LatchInv, (\E s \in Setter : SyncLatch(s)) \/ (\E c \in Clearer : SyncCleared(c))
    PROVE  LatchInv'
<1> USE DEF LatchInv
<1>1. /\ named' = named /\ kept' = {named} /\ early' = early /\ lifted' = lifted
      /\ frozen' = frozen \/ Latched
      /\ setting' \in [Setter -> SetStates] /\ clearing' \in [Clearer -> ClearStates]
  BY DEF SyncLatch, SyncCleared, Sets, Clears, LatchTypeOK, SetStates, ClearStates
<1>2. /\ \A q \in Setter : setting[q] \in {"renamed", "returned", "raised"} =>
                           setting'[q] \in {"renamed", "returned", "raised"}
      /\ \A c \in Clearer : clearing'[c] \in {"unlinked", "cleared"} =>
                            clearing[c] \in {"unlinked", "cleared"}
  BY DEF SyncLatch, SyncCleared, Sets, Clears, LatchTypeOK
<1>3. LatchTypeOK' /\ RenamedOnce'
  BY <1>1, <1>2 DEF LatchTypeOK, RenamedOnce
<1>4. LiftedIsGone'
  <2>1. \A c \in Clearer : clearing[c] \in {"unlinked", "cleared"} => named \notin lifted[c]
    BY DEF LiftedIsGone, LatchTypeOK
  <2>2. QED
    BY <2>1, <1>1, <1>2 DEF LiftedIsGone
<1>5. FreezeLasts'
  BY <1>1 DEF FreezeLasts, Latched
<1>6. QED
  BY <1>3, <1>4, <1>5

\* The steps of a recovery that leave the directory as it is.
LEMMA QuietClearKeeps ==
    ASSUME LatchInv, NEW c \in Clearer, FindLatch(c) \/ ClearFails(c)
    PROVE  LatchInv'
<1> USE DEF LatchInv
<1>1. /\ UNCHANGED <<named, kept, setting, frozen, early, lifted>>
      /\ clearing' \in [Clearer -> ClearStates]
      /\ \A d \in Clearer : clearing'[d] \in {"unlinked", "cleared"} => clearing'[d] = clearing[d]
  BY DEF FindLatch, ClearFails, Clears, LatchTypeOK, ClearStates
<1>2. LatchTypeOK' /\ RenamedOnce' /\ LiftedIsGone' /\ FreezeLasts'
  BY <1>1 DEF LatchTypeOK, RenamedOnce, LiftedIsGone, FreezeLasts, Latched
<1>3. QED
  BY <1>2

\* An unlink lifts every freeze, and remembers what it took away.
LEMMA UnlinkKeeps ==
    ASSUME LatchInv, NEW c \in Clearer, UnlinkLatch(c)
    PROVE  LatchInv'
<1> USE DEF LatchInv
<1>1. CASE ~Latched
  <2>1. /\ UNCHANGED <<named, kept, setting, frozen, early, lifted>>
        /\ clearing' = [clearing EXCEPT ![c] = "raised"]
    BY <1>1 DEF UnlinkLatch, Clears
  <2>2. QED
    BY <2>1 DEF LatchTypeOK, RenamedOnce, LiftedIsGone, FreezeLasts, Latched, ClearStates
<1>2. CASE Latched
  <2>1. /\ named' = Unlatched /\ kept' = kept \cup {Unlatched} /\ frozen' = {} /\ setting' = setting
        /\ clearing' = [clearing EXCEPT ![c] = "unlinked"]
        /\ lifted' = [lifted EXCEPT ![c] = kept \ {Unlatched}]
    BY <1>2 DEF UnlinkLatch, Clears
  <2>2. LatchTypeOK'
    BY <2>1 DEF LatchTypeOK, ClearStates
  <2>3. \A d \in Clearer : Unlatched \notin lifted'[d]
    BY <2>2 DEF LatchTypeOK
  <2>4. RenamedOnce'
    BY <2>1 DEF RenamedOnce, LatchTypeOK
  <2>5. LiftedIsGone'
    BY <2>1, <2>3 DEF LiftedIsGone, LatchTypeOK
  <2>6. FreezeLasts'
    BY <2>1 DEF FreezeLasts
  <2>7. QED
    BY <2>2, <2>4, <2>5, <2>6
<1>3. QED
  BY <1>1, <1>2

\* A loss of power leaves one of the states that may be kept.
LEMMA PowerCutKeeps ==
    ASSUME LatchInv, PowerCut
    PROVE  LatchInv'
<1> USE DEF LatchInv
<1>1. PICK d \in kept : named' = d /\ kept' = {d}
  BY DEF PowerCut
<1>2. /\ setting' = [s \in Setter |-> IF setting[s] \in {"idle", "returned"} THEN setting[s] ELSE "raised"]
      /\ clearing' = [c \in Clearer |->
                        IF clearing[c] \in {"idle", "nothing", "cleared"} THEN clearing[c] ELSE "raised"]
      /\ UNCHANGED <<frozen, early, lifted>>
  BY DEF PowerCut
<1>3. LatchTypeOK'
  BY <1>1, <1>2 DEF LatchTypeOK, SetStates, ClearStates
<1>4. RenamedOnce'
  BY <1>1, <1>2 DEF RenamedOnce
<1>5. LiftedIsGone'
  BY <1>1, <1>2 DEF LiftedIsGone
<1>6. FreezeLasts'
  BY <1>1, <1>2 DEF FreezeLasts, Latched
<1>7. QED
  BY <1>3, <1>4, <1>5, <1>6

-----------------------------------------------------------------------------

\* The inductive invariant of the latch: an envelope is renamed once, and what a
\* recovery took away is gone (set, reconcile_and_clear).
THEOREM LatchConsistent == LatchSpec => []LatchInv
<1>1. LatchInit => LatchInv
  BY DEF LatchInit, LatchInv, LatchTypeOK, RenamedOnce, LiftedIsGone, FreezeLasts, SetStates, ClearStates
<1>2. LatchInv /\ [LatchNext]_latchVars => LatchInv'
  <2> SUFFICES ASSUME LatchInv, [LatchNext]_latchVars PROVE LatchInv'
    OBVIOUS
  <2>1. CASE UNCHANGED latchVars
    BY <2>1 DEF latchVars, LatchInv, LatchTypeOK, RenamedOnce, LiftedIsGone, FreezeLasts, Latched
  <2>2. CASE \E s \in Setter : LookForLatch(s) \/ ReadLatch(s) \/ WriteEnvelope(s) \/ SetFails(s)
    BY <2>2, QuietSetKeeps
  <2>3. CASE \E s \in Setter : RenameEnvelope(s)
    BY <2>3, RenameKeeps
  <2>4. CASE (\E s \in Setter : SyncLatch(s)) \/ (\E c \in Clearer : SyncCleared(c))
    BY <2>4, SyncKeeps
  <2>5. CASE \E c \in Clearer : FindLatch(c) \/ ClearFails(c)
    BY <2>5, QuietClearKeeps
  <2>6. CASE \E c \in Clearer : UnlinkLatch(c)
    BY <2>6, UnlinkKeeps
  <2>7. CASE PowerCut
    BY <2>7, PowerCutKeeps
  <2>8. QED
    BY <2>1, <2>2, <2>3, <2>4, <2>5, <2>6, <2>7 DEF LatchNext
<1>3. QED
  BY <1>1, <1>2, PTL DEF LatchSpec

\* A freeze that set confirmed lasts until a recovery lifts it, whatever else is set,
\* cleared or lost (EmergencyFreezeLatch.set).
THEOREM FreezeIsKept == LatchSpec => []FreezeLasts
<1>1. LatchInv => FreezeLasts
  BY DEF LatchInv
<1>2. QED
  BY <1>1, LatchConsistent, PTL

\* A latch that a recovery cleared does not come back
\* (EmergencyFreezeLatch.reconcile_and_clear).
THEOREM ClearIsKept == LatchSpec => []ClearLasts
<1>1. LatchInv => ClearLasts
  BY DEF LatchInv, LiftedIsGone, ClearLasts
<1>2. QED
  BY <1>1, LatchConsistent, PTL
=============================================================================
