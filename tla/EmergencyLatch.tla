--------------------------- MODULE EmergencyLatch ---------------------------
(***************************************************************************)
(* The emergency latch (authority/latch.py): a signed file whose presence  *)
(* says that the platform is frozen.  It is written beside its name,       *)
(* synced and renamed, and it is unlinked by a recovery.  The processes    *)
(* that set and clear it share nothing but the directory.                  *)
(***************************************************************************)
EXTENDS Naturals

CONSTANTS
    Setter,       \* calls of set
    Clearer,      \* calls of reconcile_and_clear
    MaxCuts       \* bound on the losses of power

Unlatched == "nobody"

ASSUME EmergencyLatchAssumption == MaxCuts \in Nat /\ Unlatched \notin Setter

VARIABLES
    named,        \* whose envelope the latch is, or Unlatched
    kept,         \* what it may be after a loss of power
    setting,      \* where each call of set is
    clearing,     \* where each call of reconcile_and_clear is
    frozen,       \* the sets that have returned and were not lifted since
    early,        \* the sets that returned on a latch that was not yet kept
    lifted,       \* what each clear took away: the envelopes that were in place until then
    cuts

latchVars == <<named, kept, setting, clearing, frozen, early, lifted, cuts>>

Latched == named # Unlatched

Sets(s, pc) == setting' = [setting EXCEPT ![s] = pc]
Clears(c, pc) == clearing' = [clearing EXCEPT ![c] = pc]

-----------------------------------------------------------------------------
(* set.                                                                    *)

\* The latch exists, or the envelope is written.
LookForLatch(s) ==
    /\ setting[s] = "idle"
    /\ Sets(s, IF Latched THEN "found" ELSE "writing")
    /\ UNCHANGED <<named, kept, clearing, frozen, early, lifted, cuts>>

\* A latch that was found is read: it says frozen, or it is gone and set raises.
ReadLatch(s) ==
    /\ setting[s] = "found"
    /\ IF Latched
       THEN /\ Sets(s, "returned")
            /\ frozen' = frozen \cup {s}
            /\ early' = IF Unlatched \in kept THEN early \cup {s} ELSE early
       ELSE Sets(s, "raised") /\ UNCHANGED <<frozen, early>>
    /\ UNCHANGED <<named, kept, clearing, lifted, cuts>>

\* _write_envelope, up to the fsync of the temporary file.
WriteEnvelope(s) ==
    /\ setting[s] = "writing"
    /\ Sets(s, "synced")
    /\ UNCHANGED <<named, kept, clearing, frozen, early, lifted, cuts>>

RenameEnvelope(s) ==
    /\ setting[s] = "synced"
    /\ named' = s /\ kept' = kept \cup {s}
    /\ Sets(s, "renamed")
    /\ UNCHANGED <<clearing, frozen, early, lifted, cuts>>

\* Mutant: set returns when the file is renamed.
MutSyncLatch(s) ==
    /\ setting[s] = "renamed"
    /\ Sets(s, "returned")
    /\ frozen' = frozen \cup {s}
    /\ UNCHANGED <<named, kept, clearing, early, lifted, cuts>>

\* _fsync_directory, after which set returns.
SyncLatch(s) ==
    /\ setting[s] = "renamed"
    /\ kept' = {named}
    /\ Sets(s, "returned")
    /\ frozen' = IF Latched THEN frozen \cup {s} ELSE frozen
    /\ UNCHANGED <<named, clearing, early, lifted, cuts>>

\* A call of the operating system fails, or the process dies; the temporary file may be
\* left behind, and a name that was given stays.
SetFails(s) ==
    /\ setting[s] \in {"writing", "synced", "renamed"}
    /\ Sets(s, "raised")
    /\ UNCHANGED <<named, kept, clearing, frozen, early, lifted, cuts>>

-----------------------------------------------------------------------------
(* reconcile_and_clear, with a proof that verifies.                        *)

\* is_set, its look and its read: without a latch there is nothing to do.
FindLatch(c) ==
    /\ clearing[c] = "idle"
    /\ Clears(c, IF Latched THEN "found" ELSE "nothing")
    /\ UNCHANGED <<named, kept, setting, frozen, early, lifted, cuts>>

\* unlink; it raises when another call was faster.
UnlinkLatch(c) ==
    /\ clearing[c] = "found"
    /\ IF Latched
       THEN /\ named' = Unlatched /\ kept' = kept \cup {Unlatched}
            /\ Clears(c, "unlinked")
            /\ frozen' = {} /\ lifted' = [lifted EXCEPT ![c] = kept \ {Unlatched}]
       ELSE Clears(c, "raised") /\ UNCHANGED <<named, kept, frozen, lifted>>
    /\ UNCHANGED <<setting, early, cuts>>

SyncCleared(c) ==
    /\ clearing[c] = "unlinked"
    /\ kept' = {named}
    /\ Clears(c, "cleared")
    /\ UNCHANGED <<named, setting, frozen, early, lifted, cuts>>

\* The fsync fails, or the process dies.
ClearFails(c) ==
    /\ clearing[c] = "unlinked"
    /\ Clears(c, "raised")
    /\ UNCHANGED <<named, kept, setting, frozen, early, lifted, cuts>>

-----------------------------------------------------------------------------

\* A loss of power (external): every call in progress dies, and the directory is as it
\* is now, as it was last synced, or as it was between.
PowerCut ==
    /\ cuts < MaxCuts
    /\ cuts' = cuts + 1
    /\ \E d \in kept : named' = d /\ kept' = {d}
    /\ setting' = [s \in Setter |-> IF setting[s] \in {"idle", "returned"} THEN setting[s] ELSE "raised"]
    /\ clearing' = [c \in Clearer |->
                      IF clearing[c] \in {"idle", "nothing", "cleared"} THEN clearing[c] ELSE "raised"]
    /\ UNCHANGED <<frozen, early, lifted>>

LatchInit ==
    /\ named = Unlatched /\ kept = {Unlatched}
    /\ setting = [s \in Setter |-> "idle"] /\ clearing = [c \in Clearer |-> "idle"]
    /\ frozen = {} /\ early = {} /\ lifted = [c \in Clearer |-> {}] /\ cuts = 0

LatchNext ==
    \/ \E s \in Setter : LookForLatch(s) \/ ReadLatch(s) \/ WriteEnvelope(s) \/ RenameEnvelope(s)
                           \/ SyncLatch(s) \/ SetFails(s)
    \/ \E c \in Clearer : FindLatch(c) \/ UnlinkLatch(c) \/ SyncCleared(c) \/ ClearFails(c)
    \/ PowerCut

LatchSpec == LatchInit /\ [][LatchNext]_latchVars

-----------------------------------------------------------------------------
(* Properties.                                                             *)

\* A freeze that set has confirmed holds until a recovery lifts it, through crashes and
\* losses of power and whatever other calls do meanwhile, unless set confirmed it on
\* finding the latch of another call that had not synced the directory yet.
FreezeLasts == frozen \ early # {} => Latched /\ Unlatched \notin kept

\* A latch that a recovery has cleared does not come back after a crash or a loss of
\* power: a platform that is frozen again was frozen by another call of set.
ClearLasts == \A c \in Clearer : clearing[c] = "cleared" => kept \cap lifted[c] = {}
=============================================================================
