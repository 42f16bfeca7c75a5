--------------------------- MODULE BridgeSession ---------------------------
(***************************************************************************)
(* The authorization state of one Bridge (runtime/bridge-session.ts) and   *)
(* the calls that pass through it (runtime/bridge-http.ts).                *)
(*                                                                         *)
(* A request is resolved to an authorization session, waits (body, SDK     *)
(* dispatch), is checked against the permission mode, and then holds a     *)
(* lease: a write lease, checked once more when the patch service enters   *)
(* its commit critical section, or a command lease, whose AbortController  *)
(* is the only way to reach a command that outlives its request.  Mode     *)
(* changes, revocations, client disconnects and close() come from other    *)
(* callbacks and fall between any two of those steps.                      *)
(***************************************************************************)
EXTENDS Integers, FiniteSets

CONSTANTS
    Calls,         \* concurrent tool calls
    Credentials,   \* credential ids of access tokens
    Identities,    \* (subject, device, resource, endpoint generation) of a token
    Unbound,       \* no session yet: not an identity
    Subject,       \* the subject of an identity
    Device,        \* the device of an identity
    MaxModeRevision, MaxSessionRevision  \* bounds on the two kinds of revision

ASSUME CallsAssumption == IsFiniteSet(Calls)
ASSUME UnboundAssumption == Unbound \notin Identities \cup Credentials
ASSUME BoundsAssumption == MaxModeRevision \in Nat /\ MaxSessionRevision \in Nat

VARIABLES
    authMode,                \* "oauth": every call has a session; "capability": none has
    permissionMode, accessScope, modeRevision,
    identity,                \* sessionsByCredential: the identity a session is bound to
    revision,                \* a session's revision
    revoked,                 \* credentials whose session has revokedAt
    revokedCredentials, revokedSubjects, revokedDevices,
    pc, caller,              \* the calls: where each one is, and its credential
    lease,                   \* the write lease of a call: [session, mode] revisions
    activeCriticalSections,
    activeCommands,          \* calls whose command lease is in the table
    aborted,                 \* command leases whose AbortController fired
    attached,                \* command leases that follow their request's signal
    dropped,                 \* calls whose request signal fired
    closing,                 \* close(): where it stands
    closedAt,                \* history: modeRevision when close() had set read_only
    stale                    \* history: calls whose authorization changed while they
                             \* held a write lease and were not yet committing

policy == <<permissionMode, accessScope, modeRevision>>
sessions == <<identity, revision, revoked>>
tombstones == <<revokedCredentials, revokedSubjects, revokedDevices>>
calls == <<pc, caller, lease, dropped>>
commands == <<activeCommands, aborted, attached>>
closeState == <<closing, closedAt>>
vars == <<authMode, policy, sessions, tombstones, calls, activeCriticalSections,
          commands, closeState, stale>>

Known == {c \in Credentials : identity[c] # Unbound}

(***************************************************************************)
(* A call is in exactly one of these places.  "received": authenticated,   *)
(* not yet checked.  "leased": holds a write lease.  "critical": between   *)
(* enterWriteCriticalSection and its release.  "command": holds a command  *)
(* lease, its request still open.  "detached": the command outlived the    *)
(* request.                                                                *)
(***************************************************************************)
Places == {"idle", "received", "leased", "critical", "command", "detached"}
NoLease == [session |-> 0, mode |-> 0]

Init ==
    /\ authMode \in {"oauth", "capability"}
    /\ permissionMode \in {"read_only", "auto"}
    /\ accessScope \in {"workspace", "computer"}
    /\ modeRevision = 1
    /\ identity = [c \in Credentials |-> Unbound]
    /\ revision = [c \in Credentials |-> 1]
    /\ revoked = {}
    /\ revokedCredentials = {} /\ revokedSubjects = {} /\ revokedDevices = {}
    /\ pc = [k \in Calls |-> "idle"]
    /\ caller = [k \in Calls |-> Unbound]
    /\ lease = [k \in Calls |-> NoLease]
    /\ activeCriticalSections = 0
    /\ activeCommands = {} /\ aborted = {} /\ attached = {} /\ dropped = {}
    /\ closing = "open" /\ closedAt = 0
    /\ stale = {}

-----------------------------------------------------------------------------
(* Helpers of BridgeSessionManager. *)

\* The session of a call is active (assertSessionActive); without OAuth there
\* is no session to check.
SessionActive(k) == authMode = "oauth" => caller[k] \notin revoked

\* The revision of a call's session; 0 stands for undefined.
SessionRevision(k) == IF authMode = "oauth" THEN revision[caller[k]] ELSE 0

\* A call's session is one of C.
OwnedBy(k, C) == authMode = "oauth" /\ caller[k] \in C

\* abortCommands: fire the controllers of the leases in S.
Abort(S) == aborted' = aborted \cup (activeCommands \cap S)

\* Bookkeeping: the write leases in S no longer stand for an authorization.
Outdate(S) == stale' = stale \cup {k \in S : pc[k] = "leased"}

\* The sessions of C get revokedAt and a new revision.
MarkRevoked(C) ==
    /\ \A c \in C : revision[c] < MaxSessionRevision
    /\ revoked' = revoked \cup C
    /\ revision' = [c \in Credentials |-> IF c \in C THEN revision[c] + 1 ELSE revision[c]]

\* revokeSession for every session of C.
RevokeSessions(C) ==
    /\ MarkRevoked(C)
    /\ Abort({k \in Calls : OwnedBy(k, C)})
    /\ Outdate({k \in Calls : OwnedBy(k, C)})

\* revokeWhere skips the sessions that are revoked already.
RevokeWhere(C) == RevokeSessions(C \ revoked)

\* The code of setPermissionMode, without the early return.
PutPermissionMode(m) ==
    /\ modeRevision < MaxModeRevision
    /\ permissionMode' = m
    /\ modeRevision' = modeRevision + 1
    /\ accessScope' = accessScope

\* The bug "narrowing the scope invalidates leases but stops no command".
SetAccessScope_NoAbort(s) ==
    /\ s # accessScope
    /\ modeRevision < MaxModeRevision
    /\ accessScope' = s
    /\ modeRevision' = modeRevision + 1
    /\ permissionMode' = permissionMode
    /\ Outdate(Calls)
    /\ UNCHANGED <<authMode, sessions, tombstones, calls, activeCriticalSections,
                   commands, closeState>>

-----------------------------------------------------------------------------
(* Local controls: each one is one synchronous callback. *)

SetPermissionMode(m) ==
    /\ m # permissionMode
    /\ PutPermissionMode(m)
    /\ Abort(IF m = "read_only" THEN Calls ELSE {})
    /\ Outdate(Calls)
    /\ UNCHANGED <<authMode, sessions, tombstones, calls, activeCriticalSections,
                   activeCommands, attached, closeState>>

SetAccessScope(s) ==
    /\ s # accessScope
    /\ modeRevision < MaxModeRevision
    /\ accessScope' = s
    /\ modeRevision' = modeRevision + 1
    /\ permissionMode' = permissionMode
    /\ Abort(IF s = "workspace" THEN Calls ELSE {})
    /\ Outdate(Calls)
    /\ UNCHANGED <<authMode, sessions, tombstones, calls, activeCriticalSections,
                   activeCommands, attached, closeState>>

RevokeSubject(s) ==
    /\ revokedSubjects' = revokedSubjects \cup {s}
    /\ RevokeWhere({c \in Known : Subject[identity[c]] = s})
    /\ UNCHANGED <<authMode, policy, identity, revokedCredentials, revokedDevices, calls,
                   activeCriticalSections, activeCommands, attached, closeState>>

RevokeDevice(d) ==
    /\ revokedDevices' = revokedDevices \cup {d}
    /\ RevokeWhere({c \in Known : Device[identity[c]] = d})
    /\ UNCHANGED <<authMode, policy, identity, revokedCredentials, revokedSubjects, calls,
                   activeCriticalSections, activeCommands, attached, closeState>>

\* revokeAll aborts every lease first, the ones without a session included.
RevokeAll ==
    /\ MarkRevoked(Known \ revoked)
    /\ Abort(Calls)
    /\ Outdate({k \in Calls : OwnedBy(k, Known \ revoked)})
    /\ UNCHANGED <<authMode, policy, identity, tombstones, calls, activeCriticalSections,
                   activeCommands, attached, closeState>>

-----------------------------------------------------------------------------
(* A request: resolve() in the HTTP handler. *)

\* The bug "a revoked device only loses the sessions it has".
Refused_NoDevice(c, i) ==
    \/ c \in revokedCredentials
    \/ Subject[i] \in revokedSubjects

Refused(c, i) ==
    \/ c \in revokedCredentials
    \/ Subject[i] \in revokedSubjects
    \/ Device[i] \in revokedDevices

\* A token of an active session, or the first one of its credential, for which
\* resolve() creates the session.
Accepted(c, i) ==
    /\ authMode = "oauth"
    /\ ~Refused(c, i)
    /\ identity[c] \in {i, Unbound}
    /\ c \notin revoked

Resolve(k, c, i) ==
    /\ pc[k] = "idle"
    /\ Accepted(c, i)
    /\ identity' = [identity EXCEPT ![c] = i]
    /\ pc' = [pc EXCEPT ![k] = "received"]
    /\ caller' = [caller EXCEPT ![k] = c]
    /\ UNCHANGED <<authMode, policy, revision, revoked, tombstones, lease, dropped,
                   activeCriticalSections, commands, closeState, stale>>

\* A request on the capability address alone: there is no session.
Receive(k) ==
    /\ authMode = "capability"
    /\ pc[k] = "idle"
    /\ pc' = [pc EXCEPT ![k] = "received"]
    /\ UNCHANGED <<authMode, policy, sessions, tombstones, caller, lease, dropped,
                   activeCriticalSections, commands, closeState, stale>>

\* DELETE on the session address: resolve(), then revokeCredential().
RevokeCredential(c, i) ==
    /\ Accepted(c, i)
    /\ identity' = [identity EXCEPT ![c] = i]
    /\ revokedCredentials' = revokedCredentials \cup {c}
    /\ RevokeSessions({c})
    /\ UNCHANGED <<authMode, policy, revokedSubjects, revokedDevices, calls,
                   activeCriticalSections, activeCommands, attached, closeState>>

\* assertIdentity: a token of the same credential that names another subject,
\* device, resource or generation revokes the session and is refused.
ResolveMismatch(c, i) ==
    /\ authMode = "oauth"
    /\ ~Refused(c, i)
    /\ c \in Known /\ identity[c] # i
    /\ RevokeSessions({c})
    /\ UNCHANGED <<authMode, policy, identity, tombstones, calls, activeCriticalSections,
                   activeCommands, attached, closeState>>

-----------------------------------------------------------------------------
(* The tool handler. *)

\* assertToolPermission.
Permitted(k) ==
    /\ SessionActive(k)
    /\ permissionMode = "auto"

End(k) ==
    /\ pc' = [pc EXCEPT ![k] = "idle"]
    /\ caller' = [caller EXCEPT ![k] = Unbound]
    /\ lease' = [lease EXCEPT ![k] = NoLease]
    /\ dropped' = dropped \ {k}
    /\ stale' = stale \ {k}

\* The call ends without taking effect: permission denied, an argument or a
\* version refused, the request aborted before commit.
Refuse(k) ==
    /\ pc[k] \in {"received", "leased"}
    /\ End(k)
    /\ UNCHANGED <<authMode, policy, sessions, tombstones,
                   activeCriticalSections, commands, closeState>>

BeginWrite(k) ==
    /\ pc[k] = "received"
    /\ Permitted(k)
    /\ lease' = [lease EXCEPT ![k] = [session |-> SessionRevision(k), mode |-> modeRevision]]
    /\ pc' = [pc EXCEPT ![k] = "leased"]
    /\ UNCHANGED <<authMode, policy, sessions, tombstones, caller, dropped,
                   activeCriticalSections, commands, closeState, stale>>

\* The bug "the mode is compared, not its revision": a mode that was switched
\* off and on again between lease and commit goes unnoticed.
LeaseStands_ModeOnly(k) ==
    /\ permissionMode = "auto"
    /\ lease[k].session = SessionRevision(k)
    /\ SessionActive(k)

\* assertWriteLease.
LeaseStands(k) ==
    /\ permissionMode = "auto" /\ lease[k].mode = modeRevision
    /\ lease[k].session = SessionRevision(k)
    /\ SessionActive(k)

\* enterWriteCriticalSection: the check and the increment are one step.
Enter(k) ==
    /\ pc[k] = "leased"
    /\ LeaseStands(k)
    /\ activeCriticalSections' = activeCriticalSections + 1
    /\ pc' = [pc EXCEPT ![k] = "critical"]
    /\ UNCHANGED <<authMode, policy, sessions, tombstones, caller, lease, dropped,
                   commands, closeState, stale>>

\* The bug "waiters are woken by every release, not by the last one".
Release_WakesAlways(k) ==
    /\ pc[k] = "critical"
    /\ activeCriticalSections' = activeCriticalSections - 1
    /\ End(k)
    /\ closing' = IF closing = "draining" THEN "drained" ELSE closing
    /\ UNCHANGED <<authMode, policy, sessions, tombstones,
                   commands, closedAt>>

\* The release closure of enterWriteCriticalSection, called once in applyPatch's
\* finally: the last one out resolves the drain waiters.
Release(k) ==
    /\ pc[k] = "critical"
    /\ activeCriticalSections' = activeCriticalSections - 1
    /\ End(k)
    /\ closing' = IF closing = "draining" /\ activeCriticalSections' = 0
                  THEN "drained" ELSE closing
    /\ UNCHANGED <<authMode, policy, sessions, tombstones,
                   commands, closedAt>>

BeginCommand(k) ==
    /\ pc[k] = "received"
    /\ Permitted(k) /\ accessScope = "computer"
    /\ activeCommands' = activeCommands \cup {k}
    /\ IF k \in dropped
       THEN aborted' = aborted \cup {k} /\ attached' = attached
       ELSE attached' = attached \cup {k} /\ aborted' = aborted
    /\ pc' = [pc EXCEPT ![k] = "command"]
    /\ UNCHANGED <<authMode, policy, sessions, tombstones, caller, lease, dropped,
                   activeCriticalSections, closeState, stale>>

\* The client goes away while its request is open.
DropRequest(k) ==
    /\ pc[k] \in {"received", "leased", "critical", "command"}
    /\ k \notin dropped
    /\ dropped' = dropped \cup {k}
    /\ Abort({k} \cap attached)
    /\ UNCHANGED <<authMode, policy, sessions, tombstones, pc, caller, lease,
                   activeCriticalSections, activeCommands, attached, closeState, stale>>

\* The bug "run_command finishes its lease in a finally", as send_command_input does.
DetachRequest_Finishes(k) ==
    /\ pc[k] = "command"
    /\ activeCommands' = activeCommands \ {k}
    /\ attached' = attached \ {k}
    /\ aborted' = aborted \ {k}
    /\ pc' = [pc EXCEPT ![k] = "detached"]
    /\ UNCHANGED <<authMode, policy, sessions, tombstones, caller, lease, dropped,
                   activeCriticalSections, closeState, stale>>

\* run_command returns "running": the lease stays in the table, off its request.
DetachRequest(k) ==
    /\ pc[k] = "command"
    /\ attached' = attached \ {k}
    /\ pc' = [pc EXCEPT ![k] = "detached"]
    /\ UNCHANGED <<authMode, policy, sessions, tombstones, caller, lease, dropped,
                   activeCriticalSections, activeCommands, aborted, closeState, stale>>

\* The command completed, or run_command threw: finish().
Finish(k) ==
    /\ pc[k] \in {"command", "detached"}
    /\ activeCommands' = activeCommands \ {k}
    /\ aborted' = aborted \ {k}
    /\ attached' = attached \ {k}
    /\ End(k)
    /\ UNCHANGED <<authMode, policy, sessions, tombstones,
                   activeCriticalSections, closeState>>

-----------------------------------------------------------------------------
(* close(): read-only, revoke everything, wait for the commits. *)

Close ==
    /\ closing = "open"
    /\ IF permissionMode = "read_only" THEN UNCHANGED policy ELSE PutPermissionMode("read_only")
    /\ MarkRevoked(Known \ revoked)
    /\ Abort(Calls)
    /\ Outdate(Calls)
    /\ closing' = IF activeCriticalSections = 0 THEN "drained" ELSE "draining"
    /\ closedAt' = modeRevision'
    /\ UNCHANGED <<authMode, identity, tombstones, calls, activeCriticalSections,
                   activeCommands, attached>>

\* The five-second timer of waitForCriticalSections.
DrainTimeout ==
    /\ closing = "draining"
    /\ closing' = "timed_out"
    /\ UNCHANGED <<authMode, policy, sessions, tombstones, calls, activeCriticalSections,
                   commands, closedAt, stale>>

-----------------------------------------------------------------------------
Control ==
    \/ \E m \in {"read_only", "auto"} : SetPermissionMode(m)
    \/ \E s \in {"workspace", "computer"} : SetAccessScope(s)
    \/ \E i \in Identities : RevokeSubject(Subject[i]) \/ RevokeDevice(Device[i])
    \/ RevokeAll \/ Close \/ DrainTimeout

Request(k) ==
    \/ \E c \in Credentials, i \in Identities : Resolve(k, c, i)
    \/ Receive(k) \/ Refuse(k) \/ BeginWrite(k) \/ Enter(k) \/ Release(k)
    \/ BeginCommand(k) \/ DropRequest(k) \/ DetachRequest(k) \/ Finish(k)

Next ==
    \/ Control
    \/ \E c \in Credentials, i \in Identities : RevokeCredential(c, i) \/ ResolveMismatch(c, i)
    \/ \E k \in Calls : Request(k)

Spec == Init /\ [][Next]_vars

-----------------------------------------------------------------------------
PolicyOK ==
    /\ authMode \in {"oauth", "capability"}
    /\ permissionMode \in {"read_only", "auto"}
    /\ accessScope \in {"workspace", "computer"}
    /\ modeRevision \in Nat

SessionsOK ==
    /\ identity \in [Credentials -> Identities \cup {Unbound}]
    /\ revision \in [Credentials -> Nat]
    /\ revoked \subseteq Credentials

CallsOK ==
    /\ pc \in [Calls -> Places]
    /\ caller \in [Calls -> Credentials \cup {Unbound}]
    /\ \A k \in Calls : authMode = "oauth" /\ pc[k] # "idle" => caller[k] \in Known
    /\ lease \in [Calls -> [session : Nat, mode : Nat]]
    /\ dropped \subseteq Calls
    /\ stale \subseteq Calls

CommandsOK ==
    /\ activeCommands = {k \in Calls : pc[k] \in {"command", "detached"}}
    /\ aborted \subseteq activeCommands
    /\ attached \subseteq activeCommands

CloseOK ==
    /\ activeCriticalSections \in Nat
    /\ closing \in {"open", "draining", "drained", "timed_out"}
    /\ closedAt \in Nat

\* Every variable has its type; an authenticated call belongs to a session that
\* exists, and the command table holds exactly the commands under way.
TypeOK == PolicyOK /\ SessionsOK /\ CallsOK /\ CommandsOK /\ CloseOK

\* enterWriteCriticalSection, "a mutation either enters before revocation ... or is
\* rejected afterwards": a write whose mode was changed, or whose session was
\* revoked, between its lease and its commit never commits, also when the mode
\* has been switched back meanwhile.
NoCommitAfterWithdrawal == \A k \in stale : pc[k] # "critical"

\* close() reports the commits as drained only when none of those that were
\* under way, or had their lease, when it began is inside or can still get in;
\* a write that commits then was leased after someone set the mode to auto again.
DrainedMeansQuiet ==
    closing = "drained" =>
        \A k \in Calls : pc[k] = "critical" => lease[k].mode > closedAt

\* Every command under way, detached from its request or not, has been told to
\* stop once nothing permits it any more: its session revoked, the mode read_only,
\* the scope narrowed to the workspace.
WithdrawnCommandsAborted ==
    \A k \in Calls :
        pc[k] \in {"command", "detached"}
        /\ (~SessionActive(k) \/ permissionMode # "auto" \/ accessScope # "computer")
            => k \in aborted

\* No session stays, or becomes, active for a credential, subject or device that
\* was revoked, in whatever order revocations, first requests and requests with a
\* changed identity arrive.
RevokedStaysOut ==
    \A c \in Known :
        \/ c \in revokedCredentials
        \/ Subject[identity[c]] \in revokedSubjects
        \/ Device[identity[c]] \in revokedDevices
        => c \in revoked
=============================================================================
