------------------------ MODULE BridgeSessionProofs ------------------------
(***************************************************************************)
(* What BridgeSession.tla promises, for any finite set of calls and any    *)
(* credentials, identities and bounds.                                     *)
(*                                                                         *)
(* The invariants the model checker sees are not inductive one by one: the *)
(* counter has to be tied to the calls it counts (CriticalCount), and a    *)
(* lease to the mode revision that was current when it was issued          *)
(* (LeasesAreOfTheMode).  Each lemma below shows one conjunct to be kept   *)
(* by every step, from the conjuncts before it.                            *)
(***************************************************************************)
EXTENDS BridgeSession, FiniteSetTheorems, TLAPS

USE DEF vars, policy, sessions, tombstones, calls, commands, closeState

Critical == {k \in Calls : pc[k] = "critical"}

\* The count equals the number of calls between enterWriteCriticalSection and
\* its release.
CriticalCount == activeCriticalSections = Cardinality(Critical)

LEMMA CriticalFinite == IsFiniteSet(Critical)
  BY CallsAssumption, FS_Subset DEF Critical

-----------------------------------------------------------------------------
(* Type correctness. *)

LEMMA InitTypeOK == Init => TypeOK /\ CriticalCount
<1> SUFFICES ASSUME Init PROVE TypeOK /\ CriticalCount
  OBVIOUS
<1>1. Critical = {}
  BY DEF Init, Critical
<1>2. CriticalCount
  BY <1>1, FS_EmptySet DEF Init, CriticalCount
<1>3. PolicyOK /\ SessionsOK /\ CommandsOK /\ CloseOK
  BY DEF Init, PolicyOK, SessionsOK, CommandsOK, CloseOK
<1>4. CallsOK
  BY DEF Init, CallsOK, Places, NoLease, Known
<1> QED BY <1>2, <1>3, <1>4 DEF TypeOK

\* What the control steps have in common: no call moves, only sessions that exist
\* are revoked, only command leases in the table are aborted.
ControlStep ==
    /\ UNCHANGED <<authMode, calls, activeCriticalSections, activeCommands, attached>>
    /\ aborted' \subseteq aborted \cup activeCommands
    /\ stale' \subseteq stale \cup Calls
    /\ Known \subseteq Known'
    /\ SessionsOK'
    /\ PolicyOK'
    /\ closing' \in {"open", "draining", "drained", "timed_out"} /\ closedAt' \in Nat

LEMMA ControlKeepsType ==
  ASSUME TypeOK, CriticalCount, ControlStep PROVE TypeOK' /\ CriticalCount'
<1>1. CallsOK'
  BY DEF TypeOK, CallsOK, ControlStep
<1>2. CommandsOK'
  BY DEF TypeOK, CommandsOK, ControlStep
<1>3. CloseOK'
  BY DEF TypeOK, CloseOK, ControlStep
<1>4. Critical' = Critical
  BY DEF ControlStep, Critical
<1>5. CriticalCount'
  BY <1>4 DEF ControlStep, CriticalCount
<1> QED BY <1>1, <1>2, <1>3, <1>5 DEF TypeOK, ControlStep

\* Marking sessions as revoked keeps the session table well formed.
LEMMA MarkRevokedKeepsType ==
  ASSUME SessionsOK, NEW C \in SUBSET Credentials, MarkRevoked(C),
         identity' \in [Credentials -> Identities \cup {Unbound}]
  PROVE  SessionsOK'
  BY DEF SessionsOK, MarkRevoked

LEMMA ControlIsControlStep ==
  ASSUME TypeOK,
         Control \/ \E c \in Credentials, i \in Identities :
                       RevokeCredential(c, i) \/ ResolveMismatch(c, i)
  PROVE  ControlStep
<1>0. /\ PolicyOK /\ SessionsOK /\ UNCHANGED <<authMode, permissionMode, accessScope, modeRevision>> => PolicyOK'
      /\ UNCHANGED <<identity, revision, revoked>> => SessionsOK'
      /\ UNCHANGED identity => Known' = Known
  BY DEF TypeOK, PolicyOK, SessionsOK, Known
<1>1. ASSUME NEW m \in {"read_only", "auto"}, SetPermissionMode(m) PROVE ControlStep
  <2>1. PolicyOK'
    BY <1>1 DEF SetPermissionMode, PutPermissionMode, TypeOK, PolicyOK
  <2> QED BY <1>0, <1>1, <2>1 DEF SetPermissionMode, Abort, Outdate, ControlStep, TypeOK, CloseOK
<1>2. ASSUME NEW s \in {"workspace", "computer"}, SetAccessScope(s) PROVE ControlStep
  <2>1. PolicyOK'
    BY <1>2 DEF SetAccessScope, TypeOK, PolicyOK
  <2> QED BY <1>0, <1>2, <2>1 DEF SetAccessScope, Abort, Outdate, ControlStep, TypeOK, CloseOK
<1>3. ASSUME NEW C \in SUBSET Credentials, RevokeSessions(C),
             UNCHANGED <<authMode, policy, calls, activeCriticalSections, activeCommands,
                         attached, closeState>>,
             identity' \in [Credentials -> Identities \cup {Unbound}], Known \subseteq Known'
      PROVE  ControlStep
  <2>1. SessionsOK'
    BY <1>3, MarkRevokedKeepsType DEF RevokeSessions, TypeOK
  <2> QED BY <1>0, <1>3, <2>1 DEF RevokeSessions, Abort, Outdate, ControlStep, TypeOK, CloseOK
<1>4. ASSUME NEW i \in Identities, RevokeSubject(Subject[i]) PROVE ControlStep
  <2>1. ({c \in Known : Subject[identity[c]] = Subject[i]} \ revoked) \in SUBSET Credentials
    BY DEF Known
  <2> QED BY <1>0, <1>3, <1>4, <2>1 DEF RevokeSubject, RevokeWhere, TypeOK, SessionsOK
<1>5. ASSUME NEW i \in Identities, RevokeDevice(Device[i]) PROVE ControlStep
  <2>1. ({c \in Known : Device[identity[c]] = Device[i]} \ revoked) \in SUBSET Credentials
    BY DEF Known
  <2> QED BY <1>0, <1>3, <1>5, <2>1 DEF RevokeDevice, RevokeWhere, TypeOK, SessionsOK
<1>6. ASSUME NEW c \in Credentials, NEW i \in Identities, ResolveMismatch(c, i)
      PROVE  ControlStep
  BY <1>0, <1>3, <1>6 DEF ResolveMismatch, TypeOK, SessionsOK
<1>7. ASSUME NEW c \in Credentials, NEW i \in Identities, RevokeCredential(c, i)
      PROVE  ControlStep
  <2>1. identity' \in [Credentials -> Identities \cup {Unbound}] /\ Known \subseteq Known'
    BY <1>7, UnboundAssumption DEF RevokeCredential, TypeOK, SessionsOK, Known
  <2> QED BY <1>3, <1>7, <2>1 DEF RevokeCredential
<1>8. ASSUME MarkRevoked(Known \ revoked), UNCHANGED identity PROVE SessionsOK'
  <2>1. (Known \ revoked) \in SUBSET Credentials
    BY DEF Known
  <2> QED BY <1>8, <2>1, MarkRevokedKeepsType DEF TypeOK, SessionsOK
<1>9. CASE RevokeAll
  BY <1>0, <1>8, <1>9 DEF RevokeAll, Abort, Outdate, ControlStep, TypeOK, CloseOK
<1>10. CASE Close
  <2>1. PolicyOK'
    BY <1>0, <1>10 DEF Close, PutPermissionMode, TypeOK, PolicyOK
  <2>2. closing' \in {"open", "draining", "drained", "timed_out"} /\ closedAt' \in Nat
    BY <1>10, <2>1 DEF Close, PolicyOK
  <2> QED BY <1>0, <1>8, <1>10, <2>1, <2>2 DEF Close, Abort, Outdate, ControlStep
<1>11. CASE DrainTimeout
  BY <1>0, <1>11 DEF DrainTimeout, ControlStep, TypeOK, CloseOK
<1> QED BY <1>1, <1>2, <1>4, <1>5, <1>6, <1>7, <1>9, <1>10, <1>11 DEF Control

\* What the steps of a call leave alone.
LEMMA RequestFrame ==
  ASSUME TypeOK, NEW k \in Calls, Request(k)
  PROVE  /\ UNCHANGED <<authMode, policy, revision, revoked, tombstones, closedAt>>
         /\ PolicyOK'
         /\ \A j \in Calls \ {k} : pc'[j] = pc[j] /\ caller'[j] = caller[j] /\ lease'[j] = lease[j]
<1>1. UNCHANGED <<authMode, policy, revision, revoked, tombstones, closedAt>>
  BY DEF Request, Resolve, Receive, Refuse, BeginWrite, Enter, Release, BeginCommand,
         DropRequest, DetachRequest, Finish
<1>2. PolicyOK'
  BY <1>1 DEF TypeOK, PolicyOK
<1>3. \A j \in Calls \ {k} : pc'[j] = pc[j] /\ caller'[j] = caller[j] /\ lease'[j] = lease[j]
  BY DEF TypeOK, CallsOK, End, Request, Resolve, Receive, Refuse, BeginWrite, Enter, Release,
         BeginCommand, DropRequest, DetachRequest, Finish
<1> QED BY <1>1, <1>2, <1>3

LEMMA RequestKeepsType ==
  ASSUME TypeOK, CriticalCount, NEW k \in Calls, Request(k)
  PROVE  TypeOK' /\ CriticalCount'
<1> DEFINE Settled == SessionsOK' /\ CallsOK' /\ CommandsOK' /\ CloseOK'
<1> SUFFICES Settled /\ CriticalCount'
  BY RequestFrame DEF TypeOK
<1>0. /\ UNCHANGED <<identity, revision, revoked>> => SessionsOK'
      /\ UNCHANGED identity => Known' = Known
      /\ UNCHANGED <<activeCriticalSections, closeState>> => CloseOK'
      /\ UNCHANGED commands /\ (\A j \in Calls : pc'[j] \in {"command", "detached"} <=> pc[j] \in {"command", "detached"})
            => CommandsOK'
  BY DEF TypeOK, SessionsOK, CommandsOK, CloseOK, Known
<1>1. ASSUME (pc[k] = "critical") <=> (pc'[k] = "critical"), UNCHANGED activeCriticalSections
      PROVE  CriticalCount'
  <2>1. Critical' = Critical
    BY <1>1, RequestFrame DEF Critical
  <2> QED BY <1>1, <2>1 DEF CriticalCount
<1>2. ASSUME NEW c \in Credentials, NEW i \in Identities, Resolve(k, c, i)
      PROVE  Settled /\ CriticalCount'
  <2>1. SessionsOK' /\ Known' = Known \cup {c}
    BY <1>2, UnboundAssumption DEF Resolve, TypeOK, SessionsOK, Known
  <2>2. CallsOK'
    BY <1>2, <2>1 DEF Resolve, TypeOK, CallsOK, Places
  <2> QED BY <1>0, <1>1, <1>2, <2>1, <2>2 DEF Resolve, TypeOK, CallsOK
<1>3. CASE Receive(k)
  <2>1. CallsOK'
    BY <1>0, <1>3 DEF Receive, TypeOK, CallsOK, Places
  <2> QED BY <1>0, <1>1, <1>3, <2>1 DEF Receive, TypeOK, CallsOK
<1>4. CASE Refuse(k)
  <2>1. CallsOK'
    BY <1>0, <1>4 DEF Refuse, End, NoLease, TypeOK, CallsOK, Places
  <2> QED BY <1>0, <1>1, <1>4, <2>1 DEF Refuse, End, TypeOK, CallsOK
<1>5. CASE BeginWrite(k)
  <2>1. SessionRevision(k) \in Nat
    BY <1>5 DEF BeginWrite, SessionRevision, TypeOK, SessionsOK, CallsOK, Known
  <2>2. CallsOK'
    BY <1>0, <1>5, <2>1 DEF BeginWrite, TypeOK, PolicyOK, CallsOK, Places
  <2> QED BY <1>0, <1>1, <1>5, <2>2 DEF BeginWrite, TypeOK, CallsOK
<1>6. CASE Enter(k)
  <2>1. CallsOK'
    BY <1>0, <1>6 DEF Enter, TypeOK, CallsOK, Places
  <2>2. CloseOK'
    BY <1>6 DEF Enter, TypeOK, CloseOK
  <2>3. Critical' = Critical \cup {k} /\ k \notin Critical
    BY <1>6 DEF Enter, Critical, TypeOK, CallsOK
  <2>4. CriticalCount'
    BY <1>6, <2>3, CriticalFinite, FS_AddElement DEF Enter, CriticalCount
  <2> QED BY <1>0, <1>6, <2>1, <2>2, <2>4 DEF Enter, TypeOK, CallsOK
<1>7. CASE Release(k)
  <2>1. CallsOK'
    BY <1>0, <1>7 DEF Release, End, NoLease, TypeOK, CallsOK, Places
  <2>2. Critical' = Critical \ {k} /\ k \in Critical
    BY <1>7 DEF Release, End, Critical, TypeOK, CallsOK
  <2>3. CriticalCount'
    BY <1>7, <2>2, CriticalFinite, FS_RemoveElement DEF Release, CriticalCount
  <2>4. activeCriticalSections' \in Nat
    BY <2>2, <2>3, CriticalFinite, FS_RemoveElement, FS_CardinalityType DEF CriticalCount
  <2>5. CloseOK'
    BY <1>7, <2>4 DEF Release, TypeOK, CloseOK
  <2> QED BY <1>0, <1>7, <2>1, <2>3, <2>5 DEF Release, End, TypeOK, CallsOK
<1>8. CASE BeginCommand(k)
  <2>1. CallsOK'
    BY <1>0, <1>8 DEF BeginCommand, TypeOK, CallsOK, Places
  <2>2. CommandsOK'
    BY <1>8 DEF BeginCommand, TypeOK, CallsOK, CommandsOK
  <2> QED BY <1>0, <1>1, <1>8, <2>1, <2>2 DEF BeginCommand, TypeOK, CallsOK
<1>9. CASE DropRequest(k)
  <2>1. CallsOK'
    BY <1>0, <1>9 DEF DropRequest, TypeOK, CallsOK
  <2>2. CommandsOK'
    BY <1>9 DEF DropRequest, Abort, TypeOK, CommandsOK
  <2> QED BY <1>0, <1>1, <1>9, <2>1, <2>2 DEF DropRequest
<1>10. CASE DetachRequest(k)
  <2>1. CallsOK'
    BY <1>0, <1>10 DEF DetachRequest, TypeOK, CallsOK, Places
  <2>2. CommandsOK'
    BY <1>10 DEF DetachRequest, TypeOK, CallsOK, CommandsOK
  <2> QED BY <1>0, <1>1, <1>10, <2>1, <2>2 DEF DetachRequest, TypeOK, CallsOK
<1>11. CASE Finish(k)
  <2>1. CallsOK'
    BY <1>0, <1>11 DEF Finish, End, NoLease, TypeOK, CallsOK, Places
  <2>2. CommandsOK'
    BY <1>11 DEF Finish, End, TypeOK, CallsOK, CommandsOK
  <2> QED BY <1>0, <1>1, <1>11, <2>1, <2>2 DEF Finish, End, TypeOK, CallsOK
<1> QED BY <1>2, <1>3, <1>4, <1>5, <1>6, <1>7, <1>8, <1>9, <1>10, <1>11 DEF Request

LEMMA TypeStep == TypeOK /\ CriticalCount /\ [Next]_vars => TypeOK' /\ CriticalCount'
<1> SUFFICES ASSUME TypeOK, CriticalCount, [Next]_vars PROVE TypeOK' /\ CriticalCount'
  OBVIOUS
<1>1. CASE UNCHANGED vars
  <2>1. PolicyOK' /\ SessionsOK' /\ CommandsOK' /\ CloseOK'
    BY <1>1 DEF TypeOK, PolicyOK, SessionsOK, CommandsOK, CloseOK
  <2>2. CallsOK'
    BY <1>1 DEF TypeOK, CallsOK, Known
  <2>3. CriticalCount'
    BY <1>1 DEF CriticalCount, Critical
  <2> QED BY <2>1, <2>2, <2>3 DEF TypeOK
<1>2. CASE Next
  BY <1>2, ControlIsControlStep, ControlKeepsType, RequestKeepsType DEF Next
<1> QED BY <1>1, <1>2

\* Every variable of the authorization state keeps its type, the count of commits
\* under way is never off by one, and the command table holds exactly the commands
\* that are under way.
THEOREM SessionTypeOK == Spec => [](TypeOK /\ CriticalCount)
  BY InitTypeOK, TypeStep, PTL DEF Spec

-----------------------------------------------------------------------------
(* No commit after a withdrawal. *)

\* A write lease carries the mode revision it was issued at, and a lease of the
\* current revision was issued in auto mode, which still stands.
LeasesAreOfTheMode ==
    \A k \in Calls : pc[k] \in {"leased", "critical"} =>
        /\ lease[k].mode <= modeRevision
        /\ lease[k].mode = modeRevision => permissionMode = "auto"

\* What stands behind NoCommitAfterWithdrawal: a withdrawn lease is outdated for
\* good, by its mode revision or by its session.
StaleLeasesAreDead ==
    \A k \in stale :
        /\ pc[k] = "leased"
        /\ lease[k].mode < modeRevision \/ ~SessionActive(k)

\* The mode changes only together with its revision.
LEMMA PolicyMoves ==
  ASSUME TypeOK, [Next]_vars
  PROVE  UNCHANGED policy \/ modeRevision' = modeRevision + 1
<1>1. CASE UNCHANGED vars
  BY <1>1
<1>2. CASE \E k \in Calls : Request(k)
  BY <1>2, RequestFrame
<1>3. CASE Control \/ \E c \in Credentials, i \in Identities :
                        RevokeCredential(c, i) \/ ResolveMismatch(c, i)
  BY <1>3 DEF Control, SetPermissionMode, PutPermissionMode, SetAccessScope, RevokeSubject,
              RevokeDevice, RevokeAll, Close, DrainTimeout, RevokeCredential, ResolveMismatch
<1> QED BY <1>1, <1>2, <1>3 DEF Next

\* A lease in use is an old one, untouched, or was issued by this very step.
LEMMA LeaseOrigin ==
  ASSUME TypeOK, [Next]_vars, NEW j \in Calls, pc'[j] \in {"leased", "critical"}
  PROVE  \/ pc[j] \in {"leased", "critical"} /\ lease'[j] = lease[j]
         \/ UNCHANGED policy /\ permissionMode = "auto" /\ lease'[j].mode = modeRevision
<1>1. CASE UNCHANGED calls
  BY <1>1
<1>2. ASSUME NEW k \in Calls, Request(k)
      PROVE  \/ pc[j] \in {"leased", "critical"} /\ lease'[j] = lease[j]
             \/ UNCHANGED policy /\ permissionMode = "auto" /\ lease'[j].mode = modeRevision
  <2>1. CASE j # k
    BY <1>2, <2>1, RequestFrame
  <2>2. CASE j = k /\ BeginWrite(k)
    BY <2>2 DEF BeginWrite, Permitted, TypeOK, CallsOK
  <2>3. CASE j = k /\ ~BeginWrite(k)
    BY <1>2, <2>3 DEF TypeOK, CallsOK, End, Request, Resolve, Receive, Refuse, Enter, Release,
                      BeginCommand, DropRequest, DetachRequest, Finish
  <2> QED BY <2>1, <2>2, <2>3
<1>3. ASSUME Control \/ \E c \in Credentials, i \in Identities :
                          RevokeCredential(c, i) \/ ResolveMismatch(c, i)
      PROVE  UNCHANGED calls
  BY <1>3, ControlIsControlStep DEF ControlStep
<1> QED BY <1>1, <1>2, <1>3 DEF Next

LEMMA LeaseStep ==
  ASSUME TypeOK, LeasesAreOfTheMode, [Next]_vars PROVE LeasesAreOfTheMode'
<1> SUFFICES ASSUME NEW j \in Calls, pc'[j] \in {"leased", "critical"}
             PROVE  /\ lease'[j].mode <= modeRevision'
                    /\ lease'[j].mode = modeRevision' => permissionMode' = "auto"
  BY DEF LeasesAreOfTheMode
<1>1. modeRevision \in Nat /\ lease[j].mode \in Nat
  BY DEF TypeOK, PolicyOK, CallsOK
<1> QED BY <1>1, PolicyMoves, LeaseOrigin DEF LeasesAreOfTheMode

\* A control step leaves no lease behind that is withdrawn and still stands.
LEMMA ControlOutdates ==
  ASSUME TypeOK, LeasesAreOfTheMode, NEW k \in stale' \ stale,
         Control \/ \E c \in Credentials, i \in Identities :
                       RevokeCredential(c, i) \/ ResolveMismatch(c, i)
  PROVE  /\ k \in Calls /\ pc[k] = "leased"
         /\ lease[k].mode < modeRevision' \/ (authMode = "oauth" /\ caller[k] \in revoked')
<1>0. ASSUME k \in Calls, pc[k] = "leased"
      PROVE  lease[k].mode \in Nat /\ lease[k].mode <= modeRevision /\ modeRevision \in Nat
  BY <1>0 DEF LeasesAreOfTheMode, TypeOK, CallsOK, PolicyOK
<1>1. ASSUME NEW m \in {"read_only", "auto"}, SetPermissionMode(m)
      PROVE  k \in Calls /\ pc[k] = "leased" /\ lease[k].mode < modeRevision'
  BY <1>0, <1>1 DEF SetPermissionMode, PutPermissionMode, Outdate
<1>2. ASSUME NEW s \in {"workspace", "computer"}, SetAccessScope(s)
      PROVE  k \in Calls /\ pc[k] = "leased" /\ lease[k].mode < modeRevision'
  BY <1>0, <1>2 DEF SetAccessScope, Outdate
<1>3. ASSUME NEW C, RevokeSessions(C)
      PROVE  k \in Calls /\ pc[k] = "leased" /\ authMode = "oauth" /\ caller[k] \in revoked'
  BY <1>3 DEF RevokeSessions, MarkRevoked, Outdate, OwnedBy
<1>4. CASE RevokeAll
  BY <1>4 DEF RevokeAll, MarkRevoked, Outdate, OwnedBy
<1>5. CASE Close
  <2>1. k \in Calls /\ pc[k] = "leased"
    BY <1>5 DEF Close, Outdate
  <2>2. CASE permissionMode = "read_only"
    <3>1. lease[k].mode # modeRevision /\ modeRevision' = modeRevision
      BY <1>5, <2>1, <2>2 DEF Close, LeasesAreOfTheMode
    <3> QED BY <1>0, <2>1, <3>1
  <2>3. CASE permissionMode # "read_only"
    BY <1>0, <1>5, <2>1, <2>3 DEF Close, PutPermissionMode
  <2> QED BY <2>2, <2>3
<1>6. CASE DrainTimeout
  BY <1>6 DEF DrainTimeout
<1> QED BY <1>1, <1>2, <1>3, <1>4, <1>5, <1>6
        DEF Control, RevokeSubject, RevokeDevice, RevokeWhere, RevokeCredential, ResolveMismatch

LEMMA RevokedGrows ==
  ASSUME TypeOK, [Next]_vars PROVE revoked \subseteq revoked' /\ authMode' = authMode
<1>1. CASE UNCHANGED vars
  BY <1>1
<1>2. CASE \E k \in Calls : Request(k)
  BY <1>2, RequestFrame
<1>3. CASE Control \/ \E c \in Credentials, i \in Identities :
                        RevokeCredential(c, i) \/ ResolveMismatch(c, i)
  BY <1>3 DEF Control, SetPermissionMode, SetAccessScope, RevokeSubject, RevokeDevice, RevokeWhere,
              RevokeSessions, MarkRevoked, RevokeAll, Close, DrainTimeout, RevokeCredential,
              ResolveMismatch
<1> QED BY <1>1, <1>2, <1>3 DEF Next

LEMMA StaleStep ==
  ASSUME TypeOK, LeasesAreOfTheMode, StaleLeasesAreDead, [Next]_vars PROVE StaleLeasesAreDead'
<1> SUFFICES ASSUME NEW k \in stale'
             PROVE  /\ pc'[k] = "leased"
                    /\ \/ lease'[k].mode < modeRevision'
                       \/ authMode' = "oauth" /\ caller'[k] \in revoked'
  BY DEF StaleLeasesAreDead, SessionActive
<1>0. ASSUME k \in stale, k \in Calls
      PROVE  lease[k].mode < modeRevision' \/ (authMode' = "oauth" /\ caller[k] \in revoked')
  <2>1. lease[k].mode \in Nat /\ modeRevision \in Nat
    BY <1>0 DEF TypeOK, CallsOK, PolicyOK
  <2> QED BY <1>0, <2>1, PolicyMoves, RevokedGrows DEF StaleLeasesAreDead, SessionActive
<1>1. CASE UNCHANGED vars
  BY <1>1 DEF StaleLeasesAreDead, SessionActive
<1>2. ASSUME Control \/ \E c \in Credentials, i \in Identities :
                          RevokeCredential(c, i) \/ ResolveMismatch(c, i)
      PROVE  /\ pc'[k] = "leased"
             /\ \/ lease'[k].mode < modeRevision'
                \/ authMode' = "oauth" /\ caller'[k] \in revoked'
  <2>1. UNCHANGED <<authMode, pc, lease, caller>>
    BY <1>2, ControlIsControlStep DEF ControlStep
  <2>2. CASE k \in stale
    BY <1>0, <2>1, <2>2 DEF StaleLeasesAreDead, TypeOK, CallsOK
  <2>3. CASE k \notin stale
    BY <1>2, <2>1, <2>3, ControlOutdates
  <2> QED BY <2>2, <2>3
<1>3. ASSUME NEW j \in Calls, Request(j)
      PROVE  /\ pc'[k] = "leased"
             /\ \/ lease'[k].mode < modeRevision'
                \/ authMode' = "oauth" /\ caller'[k] \in revoked'
  <2>1. k \in stale
    BY <1>3 DEF Request, End, Resolve, Receive, Refuse, BeginWrite, Enter, Release,
                BeginCommand, DropRequest, DetachRequest, Finish
  <2>2. k \in Calls /\ pc[k] = "leased"
    BY <2>1 DEF StaleLeasesAreDead, TypeOK, CallsOK
  <2>3. CASE k # j
    BY <1>0, <1>3, <2>1, <2>2, <2>3, RequestFrame
  <2>4. CASE k = j
    <3>1. ~LeaseStands(k)
      BY <2>1, <2>2 DEF StaleLeasesAreDead, LeaseStands, TypeOK, CallsOK, PolicyOK
    <3>2. DropRequest(k)
      BY <1>3, <2>2, <2>4, <3>1 DEF Request, End, Resolve, Receive, Refuse, BeginWrite, Enter,
                   Release, BeginCommand, DetachRequest, Finish
    <3> QED BY <1>0, <2>1, <2>2, <3>2 DEF DropRequest
  <2> QED BY <2>3, <2>4
<1> QED BY <1>1, <1>2, <1>3 DEF Next

\* enterWriteCriticalSection: no write enters its commit after the mode was changed,
\* or its session revoked, since it obtained its lease.
THEOREM CommitsAreAuthorized == Spec => []NoCommitAfterWithdrawal
<1> DEFINE Inv == TypeOK /\ CriticalCount /\ LeasesAreOfTheMode /\ StaleLeasesAreDead
<1>1. Init => Inv
  <2>1. Init => LeasesAreOfTheMode /\ StaleLeasesAreDead
    BY DEF Init, LeasesAreOfTheMode, StaleLeasesAreDead
  <2> QED BY <2>1, InitTypeOK
<1>2. Inv /\ [Next]_vars => Inv'
  BY TypeStep, LeaseStep, StaleStep
<1>3. Inv => NoCommitAfterWithdrawal
  BY DEF StaleLeasesAreDead, NoCommitAfterWithdrawal
<1> QED BY <1>1, <1>2, <1>3, PTL DEF Spec

-----------------------------------------------------------------------------
(* The drain at close. *)

\* After close() has set read_only, the mode it left stays until a new revision
\* replaces it.
ClosedMode ==
    closing # "open" =>
        /\ closedAt <= modeRevision
        /\ closedAt = modeRevision => permissionMode = "read_only"

LEMMA ClosedModeStep ==
  ASSUME TypeOK, ClosedMode, [Next]_vars PROVE ClosedMode'
<1>0. modeRevision \in Nat /\ closedAt \in Nat
  BY DEF TypeOK, PolicyOK, CloseOK
<1>1. CASE Close
  BY <1>0, <1>1 DEF Close, PutPermissionMode, ClosedMode
<1>2. ASSUME closedAt' = closedAt, closing = "open" => closing' = "open"
      PROVE  ClosedMode'
  BY <1>0, <1>2, PolicyMoves DEF ClosedMode
<1>3. ASSUME NEW k \in Calls, Request(k)
      PROVE  closedAt' = closedAt /\ (closing = "open" => closing' = "open")
  BY <1>3, RequestFrame DEF Request, Resolve, Receive, Refuse, BeginWrite, Enter, Release,
         BeginCommand, DropRequest, DetachRequest, Finish
<1>4. CASE UNCHANGED closeState
  BY <1>2, <1>4
<1>5. CASE DrainTimeout
  BY <1>2, <1>5 DEF DrainTimeout
<1>6. UNCHANGED vars => UNCHANGED closeState
  OBVIOUS
<1>7. ASSUME Control \/ \E c \in Credentials, i \in Identities :
                          RevokeCredential(c, i) \/ ResolveMismatch(c, i)
      PROVE  UNCHANGED closeState \/ Close \/ DrainTimeout
  BY <1>7 DEF Control, SetPermissionMode, SetAccessScope, RevokeSubject, RevokeDevice,
              RevokeAll, RevokeCredential, ResolveMismatch
<1> QED BY <1>1, <1>2, <1>3, <1>4, <1>5, <1>6, <1>7 DEF Next

\* An empty count means that no call is inside.
LEMMA CountZero ==
  ASSUME CriticalCount, activeCriticalSections = 0, NEW k \in Calls PROVE pc[k] # "critical"
<1>1. Critical = {}
  BY CriticalFinite, FS_EmptySet DEF CriticalCount
<1> QED BY <1>1 DEF Critical

LEMMA QuietStep ==
  ASSUME TypeOK, CriticalCount, CriticalCount', ClosedMode, DrainedMeansQuiet, [Next]_vars
  PROVE  DrainedMeansQuiet'
<1> SUFFICES ASSUME closing' = "drained", NEW k \in Calls, pc'[k] = "critical"
             PROVE  lease'[k].mode > closedAt'
  BY DEF DrainedMeansQuiet
<1>1. CASE closing = "drained" /\ UNCHANGED closeState /\ pc[k] = "critical" /\ lease'[k] = lease[k]
  BY <1>1 DEF DrainedMeansQuiet
<1>2. ASSUME NEW j \in Calls, Request(j) PROVE lease'[k].mode > closedAt'
  <2>1. CASE Enter(j) /\ k = j
    <3>1. lease[k].mode = modeRevision /\ permissionMode = "auto" /\ lease'[k] = lease[k]
      BY <2>1 DEF Enter, LeaseStands
    <3>2. closing = "drained" /\ closedAt' = closedAt
      BY <2>1 DEF Enter
    <3>3. modeRevision \in Nat /\ closedAt \in Nat
      BY DEF TypeOK, PolicyOK, CloseOK
    <3> QED BY <3>1, <3>2, <3>3 DEF ClosedMode
  <2>2. CASE Release(j)
    <3>1. k # j /\ pc[k] = "critical" /\ lease'[k] = lease[k] /\ closedAt' = closedAt
      BY <1>2, <2>2, RequestFrame DEF Release, End, TypeOK, CallsOK
    <3>2. activeCriticalSections' # 0
      <4>1. k \in Critical'
        BY DEF Critical
      <4>2. IsFiniteSet(Critical')
        BY CallsAssumption, FS_Subset DEF Critical
      <4> QED BY <4>1, <4>2, FS_EmptySet DEF CriticalCount
    <3>3. closing = "drained"
      BY <2>2, <3>2 DEF Release
    <3> QED BY <3>1, <3>3 DEF DrainedMeansQuiet
  <2>3. CASE ~Release(j) /\ ~(Enter(j) /\ k = j)
    <3>1. UNCHANGED closeState
      BY <1>2, <2>3 DEF Request, Resolve, Receive, Refuse, BeginWrite, Enter,
           BeginCommand, DropRequest, DetachRequest, Finish
    <3>2. pc[k] = "critical" /\ lease'[k] = lease[k]
      <4>1. CASE k # j
        BY <1>2, <4>1, RequestFrame
      <4>2. CASE k = j
        BY <1>2, <2>3, <4>2 DEF TypeOK, CallsOK, End, Request, Resolve, Receive, Refuse, BeginWrite,
             BeginCommand, DropRequest, DetachRequest, Finish
      <4> QED BY <4>1, <4>2
    <3> QED BY <1>1, <3>1, <3>2
  <2> QED BY <2>1, <2>2, <2>3
<1>3. CASE UNCHANGED vars
  BY <1>1, <1>3
<1>4. ASSUME Control \/ \E c \in Credentials, i \in Identities :
                          RevokeCredential(c, i) \/ ResolveMismatch(c, i)
      PROVE  lease'[k].mode > closedAt'
  <2>1. UNCHANGED <<pc, lease>>
    BY <1>4, ControlIsControlStep DEF ControlStep
  <2>2. CASE Close
    <3>1. activeCriticalSections = 0
      BY <2>2 DEF Close
    <3> QED BY <2>1, <3>1, CountZero
  <2>3. CASE ~Close
    <3>1. UNCHANGED closeState
      BY <1>4, <2>3 DEF Control, SetPermissionMode, SetAccessScope, RevokeSubject, RevokeDevice,
           RevokeAll, RevokeCredential, ResolveMismatch, DrainTimeout
    <3> QED BY <1>1, <2>1, <3>1
  <2> QED BY <2>2, <2>3
<1> QED BY <1>2, <1>3, <1>4 DEF Next

\* waitForCriticalSections: when close() is told that the commits have drained, no
\* write it had to wait for is inside or can still get in.
THEOREM DrainIsSound == Spec => []DrainedMeansQuiet
<1> DEFINE Inv == TypeOK /\ CriticalCount /\ ClosedMode /\ DrainedMeansQuiet
<1>1. Init => Inv
  <2>1. Init => ClosedMode /\ DrainedMeansQuiet
    BY DEF Init, ClosedMode, DrainedMeansQuiet
  <2> QED BY <2>1, InitTypeOK
<1>2. Inv /\ [Next]_vars => Inv'
  BY TypeStep, ClosedModeStep, QuietStep
<1>3. Inv => DrainedMeansQuiet
  OBVIOUS
<1> QED BY <1>1, <1>2, <1>3, PTL DEF Spec

-----------------------------------------------------------------------------
(* Commands and principals. *)

\* Once a command lease was aborted it stays so until it is finished.
LEMMA CommandStep ==
  ASSUME TypeOK, WithdrawnCommandsAborted, [Next]_vars PROVE WithdrawnCommandsAborted'
<1> SUFFICES ASSUME NEW k \in Calls, pc'[k] \in {"command", "detached"},
                    \/ authMode' = "oauth" /\ caller'[k] \in revoked'
                    \/ permissionMode' # "auto" \/ accessScope' # "computer"
             PROVE  k \in aborted'
  BY DEF WithdrawnCommandsAborted, SessionActive
<1>0. ASSUME pc[k] \in {"command", "detached"}, caller'[k] = caller[k], UNCHANGED <<authMode, policy, revoked>>,
             k \in aborted => k \in aborted'
      PROVE  k \in aborted'
  BY <1>0 DEF WithdrawnCommandsAborted, SessionActive
<1>1. CASE UNCHANGED vars
  BY <1>0, <1>1
<1>2. ASSUME NEW j \in Calls, Request(j) PROVE k \in aborted'
  <2>1. CASE k # j
    <3>1. k \in aborted => k \in aborted'
      BY <1>2, <2>1 DEF Abort, Request, Resolve, Receive, Refuse, BeginWrite, Enter, Release,
           BeginCommand, DropRequest, DetachRequest, Finish
    <3> QED BY <1>0, <1>2, <2>1, <3>1, RequestFrame
  <2>2. CASE k = j /\ BeginCommand(j)
    BY <2>2 DEF BeginCommand, Permitted, SessionActive
  <2>3. CASE k = j /\ ~BeginCommand(j)
    <3>1. DropRequest(j) \/ DetachRequest(j)
      BY <1>2, <2>3 DEF TypeOK, CallsOK, End, Request, Resolve, Receive, Refuse, BeginWrite, Enter,
           Release, Finish
    <3> QED BY <1>0, <2>3, <3>1 DEF DropRequest, DetachRequest, Abort
  <2> QED BY <2>1, <2>2, <2>3
<1>3. ASSUME Control \/ \E c \in Credentials, i \in Identities :
                          RevokeCredential(c, i) \/ ResolveMismatch(c, i)
      PROVE  k \in aborted'
  <2>0. /\ UNCHANGED <<authMode, pc, caller, activeCommands>>
        /\ k \in activeCommands
    BY <1>3, ControlIsControlStep DEF ControlStep, TypeOK, CommandsOK
  <2>1. ASSUME NEW m \in {"read_only", "auto"}, SetPermissionMode(m) PROVE k \in aborted'
    BY <2>0, <2>1 DEF SetPermissionMode, PutPermissionMode, Abort, WithdrawnCommandsAborted,
                     SessionActive, TypeOK, PolicyOK
  <2>2. ASSUME NEW s \in {"workspace", "computer"}, SetAccessScope(s) PROVE k \in aborted'
    BY <2>0, <2>2 DEF SetAccessScope, Abort, WithdrawnCommandsAborted, SessionActive, TypeOK, PolicyOK
  <2>3. ASSUME NEW C, RevokeSessions(C), UNCHANGED policy PROVE k \in aborted'
    BY <2>0, <2>3 DEF RevokeSessions, MarkRevoked, Abort, OwnedBy, WithdrawnCommandsAborted,
                     SessionActive
  <2>4. CASE RevokeAll \/ Close
    BY <2>0, <2>4 DEF RevokeAll, Close, Abort
  <2>5. CASE DrainTimeout
    BY <1>0, <2>0, <2>5 DEF DrainTimeout
  <2> QED BY <1>3, <2>1, <2>2, <2>3, <2>4, <2>5
          DEF Control, RevokeSubject, RevokeDevice, RevokeWhere, RevokeCredential, ResolveMismatch
<1> QED BY <1>1, <1>2, <1>3 DEF Next

\* abortCommands: a command whose authorization is gone has been told to stop, also
\* when it has outlived its request.
THEOREM CommandsFollowAuthorization == Spec => []WithdrawnCommandsAborted
<1> DEFINE Inv == TypeOK /\ CriticalCount /\ WithdrawnCommandsAborted
<1>1. Init => Inv
  <2>1. Init => WithdrawnCommandsAborted
    BY DEF Init, WithdrawnCommandsAborted
  <2> QED BY <2>1, InitTypeOK
<1>2. Inv /\ [Next]_vars => Inv'
  BY TypeStep, CommandStep
<1>3. Inv => WithdrawnCommandsAborted
  OBVIOUS
<1> QED BY <1>1, <1>2, <1>3, PTL DEF Spec

LEMMA PrincipalStep ==
  ASSUME TypeOK, RevokedStaysOut, [Next]_vars PROVE RevokedStaysOut'
<1> SUFFICES ASSUME NEW c \in Known',
                    \/ c \in revokedCredentials'
                    \/ Subject[identity'[c]] \in revokedSubjects'
                    \/ Device[identity'[c]] \in revokedDevices'
             PROVE  c \in revoked'
  BY DEF RevokedStaysOut
<1>0. ASSUME identity'[c] = identity[c], UNCHANGED tombstones PROVE c \in revoked'
  BY <1>0, RevokedGrows DEF RevokedStaysOut, Known
<1>1. CASE UNCHANGED vars
  BY <1>0, <1>1
<1>2. ASSUME NEW d \in Credentials, NEW i \in Identities, Accepted(d, i),
             identity' = [identity EXCEPT ![d] = i], UNCHANGED tombstones
      PROVE  c \in revoked'
  <2>1. CASE c # d
    BY <1>0, <1>2, <2>1 DEF Known, TypeOK, SessionsOK
  <2>2. CASE c = d
    BY <1>2, <2>2 DEF Accepted, Refused, Known, TypeOK, SessionsOK
  <2> QED BY <2>1, <2>2
<1>3. ASSUME NEW k \in Calls, Request(k) PROVE c \in revoked'
  <2>1. ASSUME NEW d \in Credentials, NEW i \in Identities, Resolve(k, d, i) PROVE c \in revoked'
    BY <1>2, <2>1 DEF Resolve
  <2>2. CASE UNCHANGED identity
    BY <1>0, <1>3, <2>2, RequestFrame
  <2> QED BY <1>3, <2>1, <2>2 DEF Request, Receive, Refuse, BeginWrite, Enter, Release,
             BeginCommand, DropRequest, DetachRequest, Finish
<1>4. ASSUME NEW d \in Credentials, NEW i \in Identities, RevokeCredential(d, i) PROVE c \in revoked'
  <2>1. CASE c = d
    BY <1>4, <2>1 DEF RevokeCredential, RevokeSessions, MarkRevoked
  <2>2. CASE c # d
    <3>1. identity'[c] = identity[c] /\ c \in Known
      BY <1>4, <2>2 DEF RevokeCredential, Known, TypeOK, SessionsOK
    <3> QED BY <1>4, <2>2, <3>1, RevokedGrows DEF RevokeCredential, RevokedStaysOut
  <2> QED BY <2>1, <2>2
<1>5. ASSUME NEW i \in Identities, RevokeSubject(Subject[i]) PROVE c \in revoked'
  <2>1. c \in Known /\ identity'[c] = identity[c]
    BY <1>5 DEF RevokeSubject, Known
  <2> QED BY <1>5, <2>1 DEF RevokeSubject, RevokeWhere, RevokeSessions, MarkRevoked, RevokedStaysOut
<1>6. ASSUME NEW i \in Identities, RevokeDevice(Device[i]) PROVE c \in revoked'
  <2>1. c \in Known /\ identity'[c] = identity[c]
    BY <1>6 DEF RevokeDevice, Known
  <2> QED BY <1>6, <2>1 DEF RevokeDevice, RevokeWhere, RevokeSessions, MarkRevoked, RevokedStaysOut
<1>7. CASE UNCHANGED <<identity, tombstones>>
  BY <1>0, <1>7
<1> QED BY <1>1, <1>3, <1>4, <1>5, <1>6, <1>7
        DEF Next, Control, SetPermissionMode, SetAccessScope, RevokeAll, Close, DrainTimeout, ResolveMismatch

\* resolve(): a revoked credential, subject or device has no active session, whatever
\* the order of revocations and requests.
THEOREM RevocationIsPermanent == Spec => []RevokedStaysOut
<1> DEFINE Inv == TypeOK /\ CriticalCount /\ RevokedStaysOut
<1>1. Init => Inv
  <2>1. Init => RevokedStaysOut
    BY DEF Init, RevokedStaysOut, Known
  <2> QED BY <2>1, InitTypeOK
<1>2. Inv /\ [Next]_vars => Inv'
  BY TypeStep, PrincipalStep
<1>3. Inv => RevokedStaysOut
  OBVIOUS
<1> QED BY <1>1, <1>2, <1>3, PTL DEF Spec
=============================================================================
