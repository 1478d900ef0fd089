-------------------------- MODULE FileCapabilities --------------------------
(***************************************************************************)
(* The file capabilities of a node (node_agent/file_write.py, file_read.py):*)
(* jobs that write, read and list below a granted root while other jobs    *)
(* and the host's own programs change the same tree, the agent dies, and   *)
(* the machine loses power.  The path of every job is root/directory/file: *)
(* the directory is the granted one or a link that leads out of the root,  *)
(* and both hold an entry under the file's name.                           *)
(***************************************************************************)
EXTENDS Naturals, FiniteSets

CONSTANTS
    Writer, Reader,
    MaxChanges,   \* bound on the changes of the host's own programs
    MaxLosses     \* bound on deaths of the agent and losses of power

ASSUME FileCapabilitiesAssumption == MaxChanges \in Nat /\ MaxLosses \in Nat

VARIABLES
    directory,    \* what the directory's name is in the root
    entry,        \* what the file's name is, in the directory and where the link leads
    settled,      \* the entry that a loss of power leaves
    partial,      \* the writers whose temporary file exists
    mode,         \* of each writer: create or overwrite
    allow,        \* allow_overwrite of the grant
    writer,       \* where each write is, and in which directory
    reader,       \* where each read or listing is, and what it returned
    standing,     \* the writer whose success nothing has replaced yet
    changes, losses

request == <<mode, allow>>
host == <<directory, changes, losses>>

fileVars == <<entry, settled, partial, writer, reader, request, host, standing>>

Place == {"inside", "outside"}
Absent == [kind |-> "none"]
File(who, synced) == [kind |-> "file", of |-> who, synced |-> synced, whole |-> TRUE]
Host == "host"
Nobody == "nobody"

Goes(w, pc) == writer' = [writer EXCEPT ![w].pc = pc]

-----------------------------------------------------------------------------
(* Writing.                                                                *)

\* A request may be refused for its parameters, its size or its digest (execute, and
\* write_within_scope up to resolve).
RefuseWrite(w) ==
    /\ writer[w].pc = "idle" /\ Goes(w, "rejected")
    /\ UNCHANGED <<entry, settled, partial, reader, request, host, standing>>

\* Mutant: the walk follows a link.
MutWalk(d) == CASE d = "dir" -> "inside" [] d = "link" -> "outside" [] OTHER -> "nowhere"

\* The directory that a walk opens without following a link.
Walk(d) == IF d = "dir" THEN "inside" ELSE "nowhere"

\* _open_parent_directory
OpenParent(w) ==
    /\ writer[w].pc = "idle"
    /\ writer' = [writer EXCEPT ![w] =
                    IF Walk(directory) = "nowhere" THEN [pc |-> "rejected", dir |-> "nowhere"]
                    ELSE [pc |-> "opened", dir |-> Walk(directory)]]
    /\ UNCHANGED <<entry, settled, partial, reader, request, host, standing>>

\* The refusals of write_within_scope after _existing_kind.
MayWrite(e, m) == e.kind = "none" \/ (e.kind = "file" /\ m = "overwrite" /\ allow)

\* _existing_kind, and the refusals that depend on it.
Inspect(w) ==
    /\ writer[w].pc = "opened"
    /\ Goes(w, IF MayWrite(entry[writer[w].dir], mode[w]) THEN "inspected" ELSE "rejected")
    /\ UNCHANGED <<entry, settled, partial, reader, request, host, standing>>

\* _atomic_write creates the temporary file and writes it.
WriteTemporary(w) ==
    /\ writer[w].pc = "inspected" /\ Goes(w, "written")
    /\ partial' = partial \cup {w}
    /\ UNCHANGED <<entry, settled, reader, request, host, standing>>

\* fsync of the temporary file.
SyncTemporary(w) ==
    /\ writer[w].pc = "written" /\ Goes(w, "synced")
    /\ UNCHANGED <<entry, settled, partial, reader, request, host, standing>>

\* Creating, writing, syncing or renaming it fails, and it is removed,
WriteFails(w) ==
    /\ writer[w].pc \in {"inspected", "written", "synced"} /\ Goes(w, "failed")
    /\ partial' = partial \ {w}
    /\ UNCHANGED <<entry, settled, reader, request, host, standing>>

\* unless that fails too, which is passed over.
RemovalFails(w) ==
    /\ writer[w].pc \in {"written", "synced"} /\ Goes(w, "failed and left")
    /\ UNCHANGED <<entry, settled, partial, reader, request, host, standing>>

\* Mutant: the file is renamed before it was synced.
MutMayRename(pc) == pc \in {"written", "synced"}

\* When the rename comes.
MayRename(pc) == pc = "synced"

\* os.replace
Rename(w) ==
    LET d == writer[w].dir IN
    /\ MayRename(writer[w].pc) /\ Goes(w, "renamed")
    /\ entry' = [entry EXCEPT ![d] = File(w, writer[w].pc = "synced")]
    /\ partial' = partial \ {w}
    /\ standing' = Nobody
    /\ UNCHANGED <<settled, reader, request, host>>

\* fsync of the directory, and success is reported.
SyncDirectory(w) ==
    LET d == writer[w].dir IN
    /\ writer[w].pc = "renamed" /\ Goes(w, "succeeded")
    /\ settled' = [settled EXCEPT ![d] = entry[d]]
    /\ standing' = IF d = "inside" /\ entry[d].kind = "file" /\ entry[d].of = w THEN w ELSE standing
    /\ UNCHANGED <<entry, partial, reader, request, host>>

\* That fsync fails: the write is reported as failed, and the file is there.
SyncDirectoryFails(w) ==
    /\ writer[w].pc = "renamed" /\ Goes(w, "failed")
    /\ UNCHANGED <<entry, settled, partial, reader, request, host, standing>>

-----------------------------------------------------------------------------
(* Reading and listing.                                                    *)

\* read_within_scope and list_within_scope open the directory.
OpenDirectory(r) ==
    /\ reader[r].pc = "idle"
    /\ reader' = [reader EXCEPT ![r] =
                    IF Walk(directory) = "nowhere" THEN [pc |-> "rejected", from |-> "nowhere"]
                    ELSE [pc |-> "opened", from |-> Walk(directory)]]
    /\ UNCHANGED <<entry, settled, partial, writer, request, host, standing>>

\* The file is opened without following a link, refused unless it is a regular one,
\* and read through the handle, which a rename does not redirect.
Read(r) ==
    /\ reader[r].pc = "opened"
    /\ reader' = [reader EXCEPT ![r].pc =
                    IF entry[reader[r].from].kind = "file" THEN "read" ELSE "rejected"]
    /\ UNCHANGED <<entry, settled, partial, writer, request, host, standing>>

\* scandir of the directory; a link is named and not followed.
List(r) ==
    /\ reader[r].pc = "opened"
    /\ reader' = [reader EXCEPT ![r].pc = "listed"]
    /\ UNCHANGED <<entry, settled, partial, writer, request, host, standing>>

-----------------------------------------------------------------------------
(* The machine.                                                            *)

\* A program of the host removes the directory's name, or puts a link or the directory there.
HostMovesDirectory(d) ==
    /\ changes < MaxChanges /\ changes' = changes + 1
    /\ d # directory /\ directory' = d
    /\ UNCHANGED <<entry, settled, partial, writer, reader, request, losses, standing>>

\* A program of the host changes what the file's name is, and sees to it that it lasts.
HostChangesFile(e) ==
    /\ changes < MaxChanges /\ changes' = changes + 1
    /\ e # entry["inside"]
    /\ entry' = [entry EXCEPT !["inside"] = e]
    /\ settled' = [settled EXCEPT !["inside"] = e]
    /\ standing' = Nobody
    /\ UNCHANGED <<partial, writer, reader, request, directory, losses>>

\* How the execute of each provider answers, or does not.
WriterDone == {"rejected", "failed", "failed and left", "succeeded", "dead"}
ReaderDone == {"rejected", "read", "listed", "dead"}

\* The agent is killed: its jobs end where they are.
Killed(j) == [j EXCEPT !.pc = IF @ \in WriterDone \cup ReaderDone THEN @ ELSE "dead"]

AgentDies ==
    /\ losses < MaxLosses /\ losses' = losses + 1
    /\ writer' = [w \in Writer |-> Killed(writer[w])]
    /\ reader' = [r \in Reader |-> Killed(reader[r])]
    /\ UNCHANGED <<entry, settled, partial, request, directory, changes, standing>>

\* What a file is after a loss of power: its bytes last only if they were synced.
Survives(e) == IF e.kind = "file" THEN [e EXCEPT !.whole = @ /\ e.synced, !.synced = TRUE] ELSE e

\* A loss of power kills the agent too; a rename that was not synced may be undone.
PowerLoss(d) ==
    /\ losses < MaxLosses /\ losses' = losses + 1
    /\ writer' = [w \in Writer |-> Killed(writer[w])]
    /\ reader' = [r \in Reader |-> Killed(reader[r])]
    /\ \E kept \in {entry[d], settled[d]} :
         /\ entry' = [entry EXCEPT ![d] = Survives(kept)]
         /\ settled' = [settled EXCEPT ![d] = Survives(kept)]
    /\ UNCHANGED <<partial, request, directory, changes, standing>>

-----------------------------------------------------------------------------

HostEntry == {Absent, [kind |-> "link"], [kind |-> "other"], File(Host, TRUE)}

FileInit ==
    /\ directory = "dir"
    /\ \E e \in {Absent, File(Host, TRUE)} :
         /\ entry = [inside |-> e, outside |-> File(Host, TRUE)]
         /\ settled = entry
    /\ partial = {} /\ standing = Nobody
    /\ mode \in [Writer -> {"create", "overwrite"}] /\ allow \in BOOLEAN
    /\ writer = [w \in Writer |-> [pc |-> "idle", dir |-> "nowhere"]]
    /\ reader = [r \in Reader |-> [pc |-> "idle", from |-> "nowhere"]]
    /\ changes = 0 /\ losses = 0

FileNext ==
    \/ \E w \in Writer :
         \/ RefuseWrite(w) \/ OpenParent(w) \/ Inspect(w)
         \/ WriteTemporary(w) \/ SyncTemporary(w) \/ WriteFails(w) \/ RemovalFails(w)
         \/ Rename(w) \/ SyncDirectory(w) \/ SyncDirectoryFails(w)
    \/ \E r \in Reader : OpenDirectory(r) \/ Read(r) \/ List(r)
    \/ \E d \in {"dir", "link", "none"} : HostMovesDirectory(d)
    \/ \E e \in HostEntry : HostChangesFile(e)
    \/ AgentDies
    \/ PowerLoss("inside")

FileSpec == FileInit /\ [][FileNext]_fileVars

-----------------------------------------------------------------------------
(* Properties.                                                             *)

\* No job reaches what a link leads to, whenever the host puts the link there: nothing
\* outside is replaced, and nothing there is read or listed (_open_within_posix and
\* _open_parent_directory walk handle by handle and follow nothing).
StaysInside ==
    /\ entry["outside"] = File(Host, TRUE)
    /\ \A r \in Reader : reader[r].from # "outside"

\* A write happens as a whole and, once reported, for good (_atomic_write): the file's
\* name is never a file with part of its bytes, and a write that succeeded stands until
\* someone replaces the file, over every death of the agent and every loss of power.
WritesAreAtomic ==
    /\ \A d \in Place : entry[d].kind = "file" => entry[d].whole
    /\ standing # Nobody => entry["inside"].kind = "file" /\ entry["inside"].of = standing
=============================================================================
