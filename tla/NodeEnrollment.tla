--------------------------- MODULE NodeEnrollment ---------------------------
(***************************************************************************)
(* The node's side of enrollment (node_agent/__main__.py, enroll.py,       *)
(* config.py): the enroll command redeems a single-use token for an        *)
(* identity and saves it in the configuration, and the run command serves  *)
(* with the identity it finds there.  The configuration is written to one  *)
(* temporary name that all commands share, and nothing of it is synced.    *)
(***************************************************************************)
EXTENDS Naturals

CONSTANTS
    Enroller,     \* runs of the enroll command, each with a key of its own
    Token,        \* enrollment tokens
    MaxRetries,   \* bound on the reconnections that are counted
    MaxOutages    \* bound on deaths of a command and losses of power

ASSUME NodeEnrollmentAssumption == MaxRetries \in Nat /\ MaxOutages \in Nat

VARIABLES
    unused,       \* tokens that can still be redeemed (external)
    registered,   \* the enrollers whose keys the registry holds (external)
    enroller,     \* where each enroll command is, its --force and the file it has open
    content,      \* file -> the enroller whose configuration it holds, or Torn
    temporary,    \* the file that the temporary name names, or NoFile
    config,       \* the file that is the configuration, or NoFile
    flushed,      \* the files whose content a loss of power keeps
    onDisk,       \* what the configuration may be after one
    overlapped,   \* the enrollers that were saving at the same time as another
    struck,       \* power was lost
    agent,        \* the run command: whose identity it serves, and its backoff
    outages

enrollVars == <<unused, registered, enroller, content, temporary, config, flushed, onDisk,
                overlapped, struck, agent, outages>>
registry == <<unused, registered>>
files == <<content, temporary, config, flushed, onDisk>>
witness == <<overlapped, struck>>

NoFile == "no file"
Torn == "torn"
MinBackoff == 2    \* MIN_BACKOFF_SECONDS
MaxBackoff == 60   \* MAX_BACKOFF_SECONDS

Saving(e) == enroller[e].pc \in {"opened", "written"}
Active(e) == enroller[e].pc \in {"checked", "answered", "opened", "written"}
Proceeds(e, pc) == enroller' = [enroller EXCEPT ![e].pc = pc]

-----------------------------------------------------------------------------
(* The enroll command.                                                     *)

MayEnroll(force) == config = NoFile \/ force

\* command_enroll, up to the request.
BeginEnroll(e, force) ==
    /\ enroller[e].pc = "idle"
    /\ enroller' = [enroller EXCEPT ![e].pc = IF MayEnroll(force) THEN "checked" ELSE "refused",
                                    ![e].force = force]
    /\ UNCHANGED <<registry, files, witness, agent, outages>>

\* The control plane refuses the token: EnrollmentError.
Refused(e) == Proceeds(e, "failed")

\* enroll: the control plane redeems the token and its answer arrives; or the answer is
\* lost, late or incomplete; or the token is refused, or the request never arrives.
RequestEnrollment(e, t) ==
    /\ enroller[e].pc = "checked"
    /\ \/ /\ t \in unused
          /\ unused' = unused \ {t} /\ registered' = registered \cup {e}
          /\ Proceeds(e, "answered") \/ Proceeds(e, "failed")
       \/ Refused(e) /\ UNCHANGED registry
    /\ UNCHANGED <<files, witness, agent, outages>>

\* Mutant: the configuration is written in place.
MutOpenTemporary(e) ==
    /\ enroller[e].pc = "answered"
    /\ LET f == IF config = NoFile THEN e ELSE config
       IN  /\ config' = f
           /\ content' = [content EXCEPT ![f] = Torn]
           /\ enroller' = [enroller EXCEPT ![e].pc = "opened", ![e].file = f]
    /\ UNCHANGED <<registry, temporary, flushed, onDisk, witness, agent, outages>>

\* save_config: the temporary file is created, or the one that is there is truncated.
OpenTemporary(e) ==
    /\ enroller[e].pc = "answered"
    /\ LET f == IF temporary = NoFile THEN e ELSE temporary
       IN  /\ temporary' = f
           /\ content' = [content EXCEPT ![f] = Torn]
           /\ flushed' = flushed \ {f}
           /\ enroller' = [enroller EXCEPT ![e].pc = "opened", ![e].file = f]
    /\ overlapped' = overlapped \cup
         (LET others == {d \in Enroller \ {e} : Saving(d)} IN IF others = {} THEN {} ELSE others \cup {e})
    /\ UNCHANGED <<registry, config, onDisk, struck, agent, outages>>

\* The text is written from the start of the file that is open.  Over the text of
\* another command it may leave a tail of that text.
WriteConfig(e) ==
    /\ enroller[e].pc = "opened"
    /\ LET f == enroller[e].file
       IN  \E c \in IF content[f] = Torn THEN {e} ELSE {e, Torn} : content' = [content EXCEPT ![f] = c]
    /\ flushed' = flushed \ {enroller[e].file}
    /\ Proceeds(e, "written")
    /\ UNCHANGED <<registry, temporary, config, onDisk, witness, agent, outages>>

\* The temporary file, whoever wrote it, becomes the configuration; it is an error that
\* there is none.
ReplaceConfig(e) ==
    /\ enroller[e].pc = "written"
    /\ IF temporary = NoFile
       THEN Proceeds(e, "failed") /\ UNCHANGED files
       ELSE /\ config' = temporary /\ temporary' = NoFile
            /\ onDisk' = onDisk \cup {temporary}
            /\ Proceeds(e, "saved")
            /\ UNCHANGED <<content, flushed>>
    /\ UNCHANGED <<registry, witness, agent, outages>>

\* The command is interrupted, or a call of the operating system fails.
EnrollerDies(e) ==
    /\ Active(e) /\ outages < MaxOutages
    /\ outages' = outages + 1
    /\ Proceeds(e, "failed")
    /\ UNCHANGED <<registry, files, witness, agent>>

-----------------------------------------------------------------------------
(* The run command.                                                        *)

Smaller(m, n) == IF m <= n THEN m ELSE n

\* command_run: load_config, which fails on a configuration it cannot read.
StartAgent ==
    /\ agent.pc = "stopped"
    /\ config # NoFile /\ content[config] # Torn
    /\ agent' = [pc |-> "dialing", of |-> content[config], backoff |-> MinBackoff, tries |-> 0]
    /\ UNCHANGED <<registry, enroller, files, witness, outages>>

\* The channel opens, whatever the handshake on it will say.
OpenChannel ==
    /\ agent.pc = "dialing"
    /\ agent' = [agent EXCEPT !.pc = "connected", !.backoff = MinBackoff, !.tries = 0]
    /\ UNCHANGED <<registry, enroller, files, witness, outages>>

\* The channel does not open, or the session on it ends.
AwaitReconnect ==
    /\ agent.pc \in {"dialing", "connected"}
    /\ agent' = [agent EXCEPT !.pc = "sleeping"]
    /\ UNCHANGED <<registry, enroller, files, witness, outages>>

NextBackoff(b) == Smaller(b * 2, MaxBackoff)

Redial ==
    /\ agent.pc = "sleeping" /\ agent.tries < MaxRetries
    /\ agent' = [agent EXCEPT !.pc = "dialing", !.backoff = NextBackoff(@), !.tries = @ + 1]
    /\ UNCHANGED <<registry, enroller, files, witness, outages>>

\* The command is interrupted, or was started with --once and its session is over.
StopAgent ==
    /\ agent.pc # "stopped"
    /\ agent' = [agent EXCEPT !.pc = "stopped"]
    /\ UNCHANGED <<registry, enroller, files, witness, outages>>

-----------------------------------------------------------------------------
(* The host (external).                                                    *)

FlushDisk ==
    /\ flushed' = Enroller /\ onDisk' = {config}
    /\ UNCHANGED <<registry, enroller, content, temporary, config, witness, agent, outages>>

\* Power is lost: the commands die, the name may be an earlier one, and what was not
\* flushed may be torn.
PowerLost ==
    /\ outages < MaxOutages
    /\ outages' = outages + 1 /\ struck' = TRUE
    /\ enroller' = [e \in Enroller |-> IF Active(e) THEN [enroller[e] EXCEPT !.pc = "failed"]
                                       ELSE enroller[e]]
    /\ agent' = [agent EXCEPT !.pc = "stopped"]
    /\ \E c \in onDisk : config' = c /\ onDisk' = {c}
    /\ \E torn \in SUBSET (Enroller \ flushed) :
         content' = [f \in Enroller |-> IF f \in torn THEN Torn ELSE content[f]]
    /\ flushed' = Enroller
    /\ temporary' \in {temporary, NoFile}
    /\ UNCHANGED <<registry, overlapped>>

-----------------------------------------------------------------------------

EnrollInit ==
    /\ unused = Token /\ registered = {}
    /\ enroller = [e \in Enroller |-> [pc |-> "idle", force |-> FALSE, file |-> NoFile]]
    /\ content = [e \in Enroller |-> Torn] /\ temporary = NoFile /\ config = NoFile
    /\ flushed = Enroller /\ onDisk = {NoFile}
    /\ overlapped = {} /\ struck = FALSE
    /\ agent = [pc |-> "stopped", of |-> NoFile, backoff |-> MinBackoff, tries |-> 0]
    /\ outages = 0

EnrollNext ==
    \/ \E e \in Enroller :
         \/ \E force \in BOOLEAN : BeginEnroll(e, force)
         \/ \E t \in Token : RequestEnrollment(e, t)
         \/ OpenTemporary(e) \/ WriteConfig(e) \/ ReplaceConfig(e) \/ EnrollerDies(e)
    \/ StartAgent \/ OpenChannel \/ AwaitReconnect \/ Redial \/ StopAgent
    \/ FlushDisk \/ PowerLost

EnrollSpec == EnrollInit /\ [][EnrollNext]_enrollVars

-----------------------------------------------------------------------------
(* Properties.                                                             *)

\* The agent can serve with the configuration it finds.  It is readable, whenever a
\* command dies over it, unless two commands were saving at the same time or power was
\* lost; and the registry holds the key of its identity, although the key was made
\* before the request, the answer may be lost and commands overwrite each other's files.
ConfigIsUsable ==
    /\ config # NoFile => IF content[config] = Torn THEN overlapped # {} \/ struck
                          ELSE content[config] \in registered
    /\ agent.pc # "stopped" => agent.of \in registered
=============================================================================
