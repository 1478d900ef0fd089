----------------------------- MODULE RootBroker -----------------------------
(***************************************************************************)
(* The typed root broker (broker/root.py): it executes on the host what    *)
(* the orchestrator has signed, once and within the request's lifetime.    *)
(* The nonces it has seen are in memory only.                              *)
(***************************************************************************)
EXTENDS Naturals, Sequences

CONSTANTS
    HostRequest,  \* signed requests, records: nonce, operation, argv, digest, from, until
    AllowedServices,
    Lifetime,     \* the longest lifetime of a request
    MaxMinute,    \* bound on the clock
    MaxReboots,   \* bound on restarts of the broker
    MaxExecutions \* bound on the operations executed

ASSUME RootBrokerAssumption ==
    /\ Lifetime \in Nat /\ MaxMinute \in Nat /\ MaxReboots \in Nat /\ MaxExecutions \in Nat
    /\ \A r \in HostRequest : /\ r.from \in Nat /\ r.until \in Nat
                              /\ r.from < r.until /\ r.until - r.from <= Lifetime

VARIABLES
    minute,       \* the clock
    reboots,
    used_nonces,  \* _used_nonces
    approved,     \* the literal commands whose approval verifies now (external)
    executed      \* the host operations executed: request, when and in which boot (external)

brokerVars == <<minute, reboots, used_nonces, approved, executed>>

InTime(r) == r.from <= minute /\ minute < r.until

-----------------------------------------------------------------------------

\* _validate_operation, of a request whose schema is right: a service on the list may be
\* restarted, and a literal command runs when its digest is its own and is approved.
Admissible(r) ==
    \/ r.operation = "service.restart" /\ r.argv \in AllowedServices
    \/ r.operation = "root.command.literal" /\ r.digest = r.argv /\ r.argv \in approved

\* Mutant: a nonce is burned when the executor has succeeded.
MutExecuteRequest(r) ==
    /\ InTime(r) /\ r.nonce \notin used_nonces /\ Admissible(r)
    /\ \E acted, succeeded \in BOOLEAN :
         /\ succeeded => acted
         /\ used_nonces' = IF succeeded THEN used_nonces \cup {r.nonce} ELSE used_nonces
         /\ executed' = IF acted THEN Append(executed, [of |-> r, at |-> minute, boot |-> reboots])
                        ELSE executed
    /\ Len(executed) < MaxExecutions
    /\ UNCHANGED <<minute, reboots, approved>>

\* execute, of a request whose peer and signature are right: the nonce is burned before
\* the executor is called.  An executor that raises may have acted.
ExecuteRequest(r) ==
    /\ InTime(r) /\ r.nonce \notin used_nonces /\ Admissible(r)
    /\ Len(executed) < MaxExecutions
    /\ used_nonces' = used_nonces \cup {r.nonce}
    /\ \/ executed' = Append(executed, [of |-> r, at |-> minute, boot |-> reboots])
       \/ UNCHANGED executed
    /\ UNCHANGED <<minute, reboots, approved>>

\* The operator approves a literal command, or the approval lapses (external).
ApprovalChanges(c) ==
    /\ approved' = IF c \in approved THEN approved \ {c} ELSE approved \cup {c}
    /\ UNCHANGED <<minute, reboots, used_nonces, executed>>

MinutePasses ==
    /\ minute < MaxMinute
    /\ minute' = minute + 1
    /\ UNCHANGED <<reboots, used_nonces, approved, executed>>

\* The broker restarts, and forgets the nonces.
Reboot ==
    /\ reboots < MaxReboots
    /\ reboots' = reboots + 1
    /\ used_nonces' = {}
    /\ UNCHANGED <<minute, approved, executed>>

-----------------------------------------------------------------------------

BrokerInit ==
    /\ minute = 0 /\ reboots = 0
    /\ used_nonces = {} /\ approved = {} /\ executed = << >>

BrokerNext ==
    \/ \E r \in HostRequest : ExecuteRequest(r) \/ ApprovalChanges(r.argv)
    \/ MinutePasses \/ Reboot

BrokerSpec == BrokerInit /\ [][BrokerNext]_brokerVars

-----------------------------------------------------------------------------
(* Properties.                                                             *)

\* The host executes at most one request of a nonce as long as the broker runs, also
\* when the executor failed after it had acted; a broker that restarted may repeat a
\* request, but only until it expires.
NonceExecutesOnce ==
    \A i, j \in DOMAIN executed :
        LET a == executed[i]
            b == executed[j]
        IN  i < j /\ a.of.nonce = b.of.nonce =>
                a.boot # b.boot /\ (a.of = b.of => b.at - a.at < Lifetime)
=============================================================================
