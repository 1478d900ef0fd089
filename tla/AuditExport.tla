---------------------------- MODULE AuditExport -----------------------------
(***************************************************************************)
(* The off-host copy of an audit chain: the one-shot export jobs           *)
(* (runtime/audit_export_job.py) that read the chain from the database,    *)
(* copy what is missing into the write-once bucket, sign every segment     *)
(* they wrote, and then verify everything that is stored                   *)
(* (audit_export/exporter.py, store.py, models.py, signing.py).            *)
(*                                                                         *)
(* An event's hash commits to all events before it, so the chain up to an  *)
(* event stands for its hash: a segment is its first sequence number and   *)
(* the chain up to its last event, of which it holds the tail.  Events are *)
(* told apart by the era of the database that wrote them: a database       *)
(* restored from an older backup writes other events under old numbers.    *)
(***************************************************************************)
EXTENDS Naturals, Sequences, SequencesExt

CONSTANTS
    Exporter,     \* export jobs that may run at the same time
    MaxSequence,  \* bound on the length of the chain
    Sizes,        \* the values of max_events_per_segment
    MaxEra,       \* bound on the restores of the database
    MaxFaults     \* bound on crashes, failed calls, lost retention rules and retired signers

ASSUME AuditExportAssumption ==
    /\ MaxSequence \in Nat /\ Sizes \subseteq Nat \ {0}
    /\ MaxEra \in Nat /\ MaxFaults \in Nat

VARIABLES
    max_events,   \* max_events_per_segment, one of Sizes
    log,          \* the chain in the database
    era,          \* how often the database was restored from a backup
    bucket,       \* the segments stored
    sidecar,      \* the keys signed, each with whether its signer was trusted then
    locked,       \* the bucket has its default Object Lock retention
    trusted,      \* the signer is within its pinned window
    exporting,    \* where each export job is, and what it has read
    faults

exportVars == <<max_events, log, era, bucket, sidecar, locked, trusted, exporting, faults>>

JobOver == {"idle", "authentic"}
NoExport == [pc |-> "idle", events |-> << >>, next |-> 0, wrote |-> FALSE, listed |-> {}]

\* ExportSegment.key, and the order of list_keys.
KeyOf(s) == <<s.first, Len(s.chain)>>
Before(s, t) == s.first < t.first \/ (s.first = t.first /\ Len(s.chain) < Len(t.chain))
Holds(s, q) == q \in s.first..Len(s.chain)
Latest(S, s) == s \in S /\ \A t \in S : ~Before(s, t)

-----------------------------------------------------------------------------
(* The database.                                                           *)

\* An event is appended to the chain.
AppendEvent ==
    /\ Len(log) < MaxSequence
    /\ log' = Append(log, era)
    /\ UNCHANGED <<max_events, era, bucket, sidecar, locked, trusted, exporting, faults>>

\* The database is restored from a backup that was taken at an earlier event.
RestoreDatabase ==
    /\ era < MaxEra
    /\ \E n \in 0..Len(log) : log' = SubSeq(log, 1, n)
    /\ era' = era + 1
    /\ UNCHANGED <<max_events, bucket, sidecar, locked, trusted, exporting, faults>>

-----------------------------------------------------------------------------
(* The services.                                                           *)

\* The default retention rule of the bucket is removed, or set again.
ChangeRetention ==
    /\ locked => faults < MaxFaults
    /\ locked' = ~locked
    /\ faults' = IF locked THEN faults + 1 ELSE faults
    /\ UNCHANGED <<max_events, log, era, bucket, sidecar, trusted, exporting>>

\* The signer is revoked, or expires: it was trusted until now.
RetireSigner ==
    /\ trusted /\ faults < MaxFaults
    /\ trusted' = FALSE
    /\ faults' = faults + 1
    /\ UNCHANGED <<max_events, log, era, bucket, sidecar, locked, exporting>>

-----------------------------------------------------------------------------
(* A job.                                                                  *)

\* run_once: assert_retention_configured, or the job fails, then audit_events.
StartJob(e) ==
    /\ exporting[e].pc \in JobOver /\ locked
    /\ exporting' = [exporting EXCEPT ![e] = [NoExport EXCEPT !.pc = "list", !.events = log]]
    /\ UNCHANGED <<max_events, log, era, bucket, sidecar, locked, trusted, faults>>

\* The next segment to write, or the verification when none is left.
From(e, n) == [exporting[e] EXCEPT !.pc = IF n <= Len(exporting[e].events) THEN "put" ELSE "verify", !.next = n]

\* Mutant: the job leaves one event out after the last one stored.
MutListStored(e) ==
    /\ exporting[e].pc = "list"
    /\ \/ bucket = {} /\ exporting' = [exporting EXCEPT ![e] = From(e, 1)]
       \/ \E s \in bucket :
            Latest(bucket, s) /\ exporting' = [exporting EXCEPT ![e] = From(e, Len(s.chain) + 2)]
    /\ UNCHANGED <<max_events, log, era, bucket, sidecar, locked, trusted, faults>>

\* last_exported_sequence: the end of the last key listed.
ListStored(e) ==
    /\ exporting[e].pc = "list"
    /\ \/ bucket = {} /\ exporting' = [exporting EXCEPT ![e] = From(e, 1)]
       \/ \E s \in bucket :
            Latest(bucket, s) /\ exporting' = [exporting EXCEPT ![e] = From(e, Len(s.chain) + 1)]
    /\ UNCHANGED <<max_events, log, era, bucket, sidecar, locked, trusted, faults>>

\* build_segments: at most max_events events from the next one on.
Segment(e) ==
    LET first == exporting[e].next
        rest  == Len(exporting[e].events)
        last  == IF first + max_events <= rest THEN first + max_events - 1 ELSE rest
    IN  [first |-> first, chain |-> SubSeq(exporting[e].events, 1, last)]

Taken(s) == \E t \in bucket : KeyOf(t) = KeyOf(s)
Stored(s, sealed) == [first |-> s.first, chain |-> s.chain, sealed |-> sealed]
NextSegment(e) == From(e, Len(Segment(e).chain) + 1)

\* Mutant: only the last segment of a run is signed.
MutPutSignLast(e) ==
    /\ exporting[e].pc = "put" /\ ~Taken(Segment(e))
    /\ bucket' = bucket \cup {Stored(Segment(e), locked)}
    /\ exporting' = [exporting EXCEPT ![e] = IF ~locked THEN NoExport
                                 ELSE IF NextSegment(e).pc = "put" THEN NextSegment(e)
                                 ELSE [exporting[e] EXCEPT !.pc = "sign"]]
    /\ UNCHANGED <<max_events, log, era, sidecar, locked, trusted, faults>>

\* put_once of a key that is free.  What was stored without retention is not
\* attested: the read-back raises.
PutSegment(e) ==
    /\ exporting[e].pc = "put" /\ ~Taken(Segment(e))
    /\ bucket' = bucket \cup {Stored(Segment(e), locked)}
    /\ exporting' = [exporting EXCEPT ![e] = IF locked THEN [exporting[e] EXCEPT !.pc = "sign"] ELSE NoExport]
    /\ UNCHANGED <<max_events, log, era, sidecar, locked, trusted, faults>>

\* ObjectAlreadyExists: the stored bytes must be those of the local chain.
SegmentExists(e) ==
    /\ exporting[e].pc = "put"
    /\ \E t \in bucket :
         /\ KeyOf(t) = KeyOf(Segment(e))
         /\ exporting' = [exporting EXCEPT ![e] = IF t.chain = Segment(e).chain THEN NextSegment(e)
                                      ELSE NoExport]
    /\ UNCHANGED <<max_events, log, era, bucket, sidecar, locked, trusted, faults>>

\* The call for a segment or for its identity fails, but the segment has landed.
PutFails(e) ==
    /\ exporting[e].pc = "put" /\ ~Taken(Segment(e)) /\ faults < MaxFaults
    /\ bucket' = bucket \cup {Stored(Segment(e), locked)}
    /\ exporting' = [exporting EXCEPT ![e] = NoExport]
    /\ faults' = faults + 1
    /\ UNCHANGED <<max_events, log, era, sidecar, locked, trusted>>

\* _attest: KMS signs the attestation of the segment just sealed, and the sidecar
\* is put.  A sidecar stored without retention raises as well, but it is stored.
AttestSegment(e) ==
    /\ exporting[e].pc = "sign"
    /\ sidecar' = sidecar \cup {<<KeyOf(Segment(e)), trusted>>}
    /\ exporting' = [exporting EXCEPT ![e] = IF locked THEN [NextSegment(e) EXCEPT !.wrote = TRUE] ELSE NoExport]
    /\ UNCHANGED <<max_events, log, era, bucket, locked, trusted, faults>>

\* collect_evidence lists the segments, then reads each with its sidecar.
ListEvidence(e) ==
    /\ exporting[e].pc = "verify"
    /\ exporting' = [exporting EXCEPT ![e].pc = "evidence", ![e].listed = bucket]
    /\ UNCHANGED <<max_events, log, era, bucket, sidecar, locked, trusted, faults>>

Signed(s) == \E t \in BOOLEAN : <<KeyOf(s), t>> \in sidecar

\* verify_signed_segment: the segment starts after the one before it, with its hash.
Follows(s, t) == s.first = Len(t.chain) + 1 /\ SubSeq(s.chain, 1, s.first - 1) = t.chain

\* Mutant: any segment may be the first.
MutLinked(S) ==
    \A s \in S :
        LET earlier == {t \in S : Before(t, s)}
        IN  s.first = 1 \/ \A t \in earlier : Latest(earlier, t) => Follows(s, t)

\* verify_exported_chain, and verify: the segments in the order of their keys.
Linked(S) ==
    \A s \in S :
        LET earlier == {t \in S : Before(t, s)}
        IN  IF earlier = {} THEN s.first = 1
            ELSE \A t \in earlier : Latest(earlier, t) => Follows(s, t)

\* verify: the same without the signatures.
Intact(S) == Linked(S)

\* restore: the events of every segment, by their numbers.
Restored(S) == UNION {{<<q, s>> : q \in {n \in 1..Len(s.chain) : Holds(s, n)}} : s \in S}

Authentic(S) == Linked(S) /\ \A s \in S : <<KeyOf(s), TRUE>> \in sidecar

\* verify_authenticity: a segment without a sidecar raises, and so does a problem.
VerifyAuthenticity(e) ==
    /\ exporting[e].pc = "evidence"
    /\ exporting' = [exporting EXCEPT ![e] = IF Authentic(exporting[e].listed)
                                 THEN [NoExport EXCEPT !.pc = "authentic"] ELSE NoExport]
    /\ UNCHANGED <<max_events, log, era, bucket, sidecar, locked, trusted, faults>>

\* The process dies, or a call to S3, KMS or the database fails.
JobDies(e) ==
    /\ exporting[e].pc \notin JobOver /\ faults < MaxFaults
    /\ exporting' = [exporting EXCEPT ![e] = NoExport]
    /\ faults' = faults + 1
    /\ UNCHANGED <<max_events, log, era, bucket, sidecar, locked, trusted>>

-----------------------------------------------------------------------------

ExportInit ==
    /\ max_events \in Sizes
    /\ log = << >> /\ era = 0
    /\ bucket = {} /\ sidecar = {}
    /\ locked = TRUE /\ trusted = TRUE
    /\ exporting = [e \in Exporter |-> NoExport]
    /\ faults = 0

JobStep(e) ==
    \/ StartJob(e) \/ ListStored(e) \/ PutSegment(e) \/ SegmentExists(e) \/ AttestSegment(e)
    \/ ListEvidence(e) \/ VerifyAuthenticity(e)

ExportNext ==
    \/ AppendEvent \/ RestoreDatabase \/ ChangeRetention \/ RetireSigner
    \/ \E e \in Exporter : JobStep(e) \/ PutFails(e) \/ JobDies(e)

\* A timer starts the jobs, and some job goes on; another one may hang for good.
ExportFairness == WF_exportVars(\E e \in Exporter : JobStep(e))

ExportSpec == ExportInit /\ [][ExportNext]_exportVars /\ ExportFairness

-----------------------------------------------------------------------------
(* Properties.                                                             *)

\* A segment without its signature, which no later job can sign and which every
\* later verification raises on (collect_evidence), is one whose writer is about to
\* sign it, or something failed.  And no signature attests a segment that was stored
\* without retention, although the rule may be lost after the job asked for it: put_once
\* refuses "to attest that an unsealed object is sealed".
SignedUnlessInterrupted ==
    /\ faults = 0 =>
         \A s \in bucket :
             Signed(s) \/ \E e \in Exporter : exporting[e].pc = "sign" /\ KeyOf(Segment(e)) = KeyOf(s)
    /\ \A x \in sidecar : \E s \in bucket : KeyOf(s) = x[1] /\ s.sealed

\* What verify finds intact is one chain without a gap, a duplicate or a fork, signed
\* or not: restore returns each event of its longest segment's chain once, although
\* racing jobs and jobs over a restored database store overlapping segments.
IntactIsOneChain ==
    Intact(bucket) /\ bucket # {} =>
        \E t \in bucket :
            /\ \A s \in bucket : IsPrefix(s.chain, t.chain)
            /\ \A q \in 1..Len(t.chain) :
                 \E s \in bucket : {x \in Restored(bucket) : x[1] = q} = {<<q, s>>}

\* An event that stays in the chain is stored at last, if the bucket keeps its
\* retention rule: neither a crash nor a race nor a forked copy stops the export.
EveryEventExported ==
    \A q \in 1..MaxSequence :
        <>[](locked /\ Len(log) >= q) => <>(\E s \in bucket : Holds(s, q))
=============================================================================
