--------------------------- MODULE OffhostBackup ----------------------------
(***************************************************************************)
(* One Temporal backup on its way off the host and back: the upload        *)
(* command (runtime/temporal_offhost_backup.py), which may die anywhere,   *)
(* be run again days later or twice at once, and the verification and      *)
(* extraction of what was downloaded (backup/temporal.py).                 *)
(*                                                                         *)
(* The archive of a backup directory is deterministic, so its bytes are    *)
(* the same in every attempt; the sidecar's bytes are its signing time and *)
(* the archive's retention.  Time is counted in days.                      *)
(***************************************************************************)
EXTENDS Integers

CONSTANTS
    Uploader, Restorer,
    Policy,       \* days of default retention that the bucket may be given
    MaxDay        \* bound on the clock

ASSUME OffhostBackupAssumption == Policy \subseteq Nat \ {0} /\ MaxDay \in Nat

VARIABLES
    today,
    policy,       \* the bucket's default retention, in days
    repoliced,    \* the policy was changed
    archive,      \* retain_until of the stored archive, or NoDay
    signature,    \* the stored sidecar: signed_at, the retention it attests, its own
    pending,      \* the receipt in the temporary file, or NoReceipt
    receipt,      \* the receipt in offhost-receipts, or NoReceipt
    upload,       \* where each upload is, and what it has read
    restore,      \* where each restore is
    output        \* the restore output directory

backupVars == <<today, policy, repoliced, archive, signature, pending, receipt, upload, restore, output>>

NoDay == MaxDay + 1000
NoSignature == [signed_at |-> NoDay, attests |-> NoDay, retain |-> NoDay]
NoReceipt == [retain |-> NoDay, signature |-> NoDay]
NoUpload == [pc |-> "idle", days |-> 0, retain |-> 0, signature |-> 0]

-----------------------------------------------------------------------------

NextDay ==
    /\ today < MaxDay
    /\ today' = today + 1
    /\ UNCHANGED <<policy, repoliced, archive, signature, pending, receipt, upload, restore, output>>

\* The bucket is given another default retention.
ChangePolicy ==
    /\ ~repoliced /\ repoliced' = TRUE
    /\ policy' \in Policy \ {policy}
    /\ UNCHANGED <<today, archive, signature, pending, receipt, upload, restore, output>>

-----------------------------------------------------------------------------
(* upload.                                                                 *)

\* assert_retention_configured, then create_archive.
StartUpload(u) ==
    /\ upload[u].pc \in {"idle", "mismatch"}
    /\ upload' = [upload EXCEPT ![u] = [NoUpload EXCEPT !.pc = "archive", !.days = policy]]
    /\ UNCHANGED <<today, policy, repoliced, archive, signature, pending, receipt, restore, output>>

\* Mutant: an archive that is there already is described as if it had just been put.
MutPutArchive(u) ==
    /\ upload[u].pc = "archive"
    /\ archive' = IF archive = NoDay THEN today + policy ELSE archive
    /\ upload' = [upload EXCEPT ![u] = [upload[u] EXCEPT !.pc = "sign", !.retain = today + policy]]
    /\ UNCHANGED <<today, policy, repoliced, signature, pending, receipt, restore, output>>

\* "stored backup retention is shorter than the verified policy": the policy would by
\* now retain a new archive for more than a day longer.
TooShort(u, retain) == retain < today + upload[u].days - 1

\* _put_file_once: an archive stored by an earlier attempt is taken as it is, if its
\* retention is long enough.
PutArchive(u) ==
    LET retain == IF archive = NoDay THEN today + policy ELSE archive
    IN  /\ upload[u].pc = "archive"
        /\ archive' = retain
        /\ upload' = [upload EXCEPT ![u] =
                        IF TooShort(u, retain) THEN NoUpload
                        ELSE [upload[u] EXCEPT !.pc = "sign", !.retain = retain]]
        /\ UNCHANGED <<today, policy, repoliced, signature, pending, receipt, restore, output>>

\* signed_at: derived from the retention of the stored archive.
SignedAt(u) == upload[u].retain - upload[u].days

\* sign_backup and _put_bytes_once: a sidecar stored by an earlier attempt must have
\* the same bytes; it must be retained for as long as the archive.
PutSidecar(u) ==
    LET mine == [signed_at |-> SignedAt(u), attests |-> upload[u].retain, retain |-> today + policy]
        stored == IF signature = NoSignature THEN mine ELSE signature
    IN  /\ upload[u].pc = "sign"
        /\ signature' = stored
        /\ upload' = [upload EXCEPT ![u] =
                        IF stored.signed_at # mine.signed_at \/ stored.attests # mine.attests
                        THEN [NoUpload EXCEPT !.pc = "mismatch"]
                        ELSE IF stored.retain < upload[u].retain
                        THEN NoUpload
                        ELSE [upload[u] EXCEPT !.pc = "receipt", !.signature = stored.retain]]
        /\ UNCHANGED <<today, policy, repoliced, archive, pending, receipt, restore, output>>

\* save_receipt writes a temporary file of a fixed name,
WriteReceipt(u) ==
    /\ upload[u].pc = "receipt"
    /\ pending' = [retain |-> upload[u].retain, signature |-> upload[u].signature]
    /\ upload' = [upload EXCEPT ![u].pc = "replace"]
    /\ UNCHANGED <<today, policy, repoliced, archive, signature, receipt, restore, output>>

\* and moves it into place; the replace fails when another upload
\* has moved it already.
ReplaceReceipt(u) ==
    /\ upload[u].pc = "replace"
    /\ receipt' = IF pending = NoReceipt THEN receipt ELSE pending
    /\ pending' = NoReceipt
    /\ upload' = [upload EXCEPT ![u] = NoUpload]
    /\ UNCHANGED <<today, policy, repoliced, archive, signature, restore, output>>

\* The process dies, or a call fails.
UploadDies(u) ==
    /\ upload[u].pc \notin {"idle", "mismatch"}
    /\ upload' = [upload EXCEPT ![u] = NoUpload]
    /\ UNCHANGED <<today, policy, repoliced, archive, signature, pending, receipt, restore, output>>

-----------------------------------------------------------------------------
(* verify_and_extract, of the objects that the receipt names.              *)

\* The receipt is compared with the attestation, the attestation with the archive,
\* and the signing time with the window of the pinned signer, which began on day 0.
Verifies(r) ==
    /\ archive = r.retain /\ signature.attests = r.retain
    /\ signature.signed_at >= 0

\* The material is verified, and the output directory does not exist.
VerifyDownload(v) ==
    /\ restore[v] = "idle"
    /\ receipt # NoReceipt /\ Verifies(receipt)
    /\ output.state = "none"
    /\ restore' = [restore EXCEPT ![v] = "verified"]
    /\ UNCHANGED <<today, policy, repoliced, archive, signature, pending, receipt, upload, output>>

\* Mutant: a directory that another restore has made is taken over.
MutMakeDirectory(v) ==
    /\ restore[v] = "verified"
    /\ restore' = [restore EXCEPT ![v] = "extracting"]
    /\ output' = IF output.state = "none" THEN [state |-> "partial", by |-> v] ELSE output
    /\ UNCHANGED <<today, policy, repoliced, archive, signature, pending, receipt, upload>>

\* mkdir, which another restore may have done since.
MakeDirectory(v) ==
    /\ restore[v] = "verified"
    /\ \/ /\ output.state = "none"
          /\ output' = [state |-> "partial", by |-> v]
          /\ restore' = [restore EXCEPT ![v] = "extracting"]
       \/ /\ output.state # "none"
          /\ restore' = [restore EXCEPT ![v] = "idle"]
          /\ UNCHANGED output
    /\ UNCHANGED <<today, policy, repoliced, archive, signature, pending, receipt, upload>>

\* The members are extracted and their checksums verified.
FinishExtraction(v) ==
    /\ restore[v] = "extracting"
    /\ output' = [output EXCEPT !.state = "complete"]
    /\ restore' = [restore EXCEPT ![v] = "done"]
    /\ UNCHANGED <<today, policy, repoliced, archive, signature, pending, receipt, upload>>

\* The extraction raises and removes the directory,
ExtractionFails(v) ==
    /\ restore[v] = "extracting"
    /\ output' = [output EXCEPT !.state = "none"]
    /\ restore' = [restore EXCEPT ![v] = "idle"]
    /\ UNCHANGED <<today, policy, repoliced, archive, signature, pending, receipt, upload>>

\* or the process dies and leaves it as it is.
ExtractionDies(v) ==
    /\ restore[v] = "extracting"
    /\ restore' = [restore EXCEPT ![v] = "idle"]
    /\ UNCHANGED <<today, policy, repoliced, archive, signature, pending, receipt, upload, output>>

-----------------------------------------------------------------------------

BackupInit ==
    /\ today = 0 /\ policy \in Policy /\ repoliced = FALSE
    /\ archive = NoDay /\ signature = NoSignature
    /\ pending = NoReceipt /\ receipt = NoReceipt
    /\ upload = [u \in Uploader |-> NoUpload]
    /\ restore = [v \in Restorer |-> "idle"]
    /\ output = [state |-> "none", by |-> CHOOSE v \in Restorer : TRUE]

BackupNext ==
    \/ NextDay \/ ChangePolicy
    \/ \E u \in Uploader : \/ StartUpload(u) \/ PutArchive(u) \/ PutSidecar(u)
                           \/ WriteReceipt(u) \/ ReplaceReceipt(u) \/ UploadDies(u)
    \/ \E v \in Restorer : \/ VerifyDownload(v) \/ MakeDirectory(v) \/ FinishExtraction(v)
                           \/ ExtractionFails(v) \/ ExtractionDies(v)

BackupSpec == BackupInit /\ [][BackupNext]_backupVars

-----------------------------------------------------------------------------
(* Properties.                                                             *)

\* A receipt that was saved can be restored from: the archive and the sidecar that it
\* names are stored and verify against it and against each other, whichever of two
\* uploads wrote which of the three.  Only a policy changed during an upload can move
\* the derived signing time to before the signer was trusted.  Nor does the archive
\* outlive its signature, although the policy may be lowered between the two writes.
ReceiptRestores ==
    \A r \in {receipt, pending} \ {NoReceipt} :
        /\ archive = r.retain /\ signature.attests = r.retain
        /\ ~repoliced => Verifies(r)
        /\ r = receipt => signature.retain >= archive

\* A restore that was reported stays: no other restore into the same directory, not
\* one that fails and cleans up either, removes or replaces what it extracted.
RestoreStands ==
    \A v \in Restorer : restore[v] = "done" => output = [state |-> "complete", by |-> v]
=============================================================================
