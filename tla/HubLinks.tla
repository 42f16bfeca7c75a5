------------------------------ MODULE HubLinks ------------------------------
(***************************************************************************)
(* The MCP Hub (hub/manager.mjs): temporary links, each in front of one    *)
(* worker, created and revoked by the admin listener, by the web service   *)
(* and by the agents of a task, expired by a timer, and all taken down by  *)
(* close().  `links' and `starting' together may not exceed maxActive.     *)
(*                                                                         *)
(* This module is the Hub under an environment that may call create,       *)
(* revoke, configure and close at any time; HubTasks composes it with the  *)
(* callers in this repository.                                             *)
(***************************************************************************)
EXTENDS Integers, FiniteSets

CONSTANTS
    MaxLinks,      \* bound: links ever created, numbered in the order of creation
    Limits         \* values of maxActive a configuration may ask for

ASSUME MaxLinksAssumption == MaxLinks \in Nat
ASSUME LimitsAssumption == Limits \subseteq Nat \ {0}

VARIABLES
    phase,         \* where the worker of a link is
    created,       \* links created so far
    starting, maxActive,
    lasting,       \* links with ttl 0: expiresAt is null
    expired,       \* links in the table whose expiresAt has passed
    hub            \* close(): where it stands

linkVars == <<phase, created, starting, maxActive, lasting, expired, hub>>

Links == 1..MaxLinks

(***************************************************************************)
(* "starting": createInner awaits the worker.  "failing": it awaits the    *)
(* close of a worker that came up while the Hub was stopping.  "live": in  *)
(* `links' and `routes'.  "stopping": out of both, worker.close() pending. *)
(* "leaked": worker.close() rejected, so the worker may still be there.    *)
(***************************************************************************)
Phases == {"unused", "starting", "failing", "failed", "live", "stopping", "gone"}

(***************************************************************************)
(* close(): "closing" (flag set, timer cleared, admin listener closing),   *)
(* "creates" (both listeners closed), "deletes" (every link revoked).      *)
(***************************************************************************)
HubStates == {"open", "closing", "creates", "deletes", "closed"}

links == {l \in Links : phase[l] = "live"}
Creating == {l \in Links : phase[l] \in {"starting", "failing"}}
Deleting == {l \in Links : phase[l] = "stopping"}

InUse == Cardinality(links) + starting
(* A bug to catch: creates under way are not counted against the limit. *)
CreateRefused_IgnoresPending == hub # "open" \/ Cardinality(links) >= maxActive

CreateRefused == hub # "open" \/ InUse >= maxActive

(* The gateway forwards a request to a link's worker. *)
Routable(l) == l \in links /\ l \notin expired /\ hub \in {"open", "closing"}

LinkInit ==
    /\ phase = [l \in Links |-> "unused"]
    /\ created = 0
    /\ starting = 0
    /\ maxActive \in Limits
    /\ lasting = {}
    /\ expired = {}
    /\ hub = "open"

----------------------------------------------------------------------------
(* createInner *)

NextLink == created + 1

Create(forever) ==
    /\ ~CreateRefused
    /\ created < MaxLinks
    /\ created' = NextLink
    /\ phase' = [phase EXCEPT ![NextLink] = "starting"]
    /\ starting' = starting + 1
    /\ lasting' = IF forever THEN lasting \cup {NextLink} ELSE lasting
    /\ UNCHANGED <<maxActive, expired, hub>>

(* The worker is up; the closing flag is read again after the await. *)
WorkerReady(l) ==
    /\ phase[l] = "starting"
    /\ IF hub = "open"
       THEN phase' = [phase EXCEPT ![l] = "live"] /\ starting' = starting - 1
       ELSE phase' = [phase EXCEPT ![l] = "failing"] /\ UNCHANGED starting
    /\ UNCHANGED <<created, maxActive, lasting, expired, hub>>

(* A bug to catch: the slot of a create that fails is not given back. *)
CreateFails_KeepsSlot(l) ==
    /\ l \in Creating
    /\ phase' = [phase EXCEPT ![l] = "failed"]
    /\ UNCHANGED <<created, starting, maxActive, lasting, expired, hub>>

(* No workspace, no port, no browser: or the close of a late worker is over. *)
CreateFails(l) ==
    /\ l \in Creating
    /\ phase' = [phase EXCEPT ![l] = "failed"]
    /\ starting' = starting - 1
    /\ UNCHANGED <<created, maxActive, lasting, expired, hub>>

----------------------------------------------------------------------------
(* revoke, and the timer that revokes what has expired *)

RevokeAll(L) ==
    /\ phase' = [l \in Links |-> IF l \in L THEN "stopping" ELSE phase[l]]
    /\ expired' = expired \ L

Revoke(l) ==
    /\ l \in links
    /\ RevokeAll({l})
    /\ UNCHANGED <<created, starting, maxActive, lasting, hub>>

WorkerClosed(l) ==
    /\ phase[l] = "stopping"
    /\ phase' = [phase EXCEPT ![l] = "gone"]
    /\ UNCHANGED <<created, starting, maxActive, lasting, expired, hub>>

Expire(l) ==
    /\ l \in links \ (lasting \cup expired)
    /\ expired' = expired \cup {l}
    /\ UNCHANGED <<phase, created, starting, maxActive, lasting, hub>>

(* A bug to catch: the sweep passes over the oldest link. *)
Sweep_SkipsOldest ==
    /\ hub = "open"
    /\ expired # {}
    /\ RevokeAll(expired \ {1})
    /\ UNCHANGED <<created, starting, maxActive, lasting, hub>>

Sweep ==
    /\ hub = "open"
    /\ expired # {}
    /\ RevokeAll(expired)
    /\ UNCHANGED <<created, starting, maxActive, lasting, hub>>

----------------------------------------------------------------------------
(* configure *)

Configure(limit) ==
    /\ limit >= InUse
    /\ maxActive' = limit
    /\ UNCHANGED <<phase, created, starting, lasting, expired, hub>>

----------------------------------------------------------------------------
(* close *)

CloseHub ==
    /\ hub = "open"
    /\ hub' = "closing"
    /\ UNCHANGED <<phase, created, starting, maxActive, lasting, expired>>

ListenersClosed ==
    /\ hub = "closing"
    /\ hub' = "creates"
    /\ UNCHANGED <<phase, created, starting, maxActive, lasting, expired>>

(* A bug to catch: close() revokes without waiting for creates under way. *)
CreatesSettled_NotAwaited ==
    /\ hub = "creates"
    /\ RevokeAll(links)
    /\ hub' = "deletes"
    /\ UNCHANGED <<created, starting, maxActive, lasting>>

(* A bug to catch: close() waits for the links to go before it revokes them. *)
CreatesSettled_WaitsForLinks ==
    /\ hub = "creates"
    /\ Creating = {} /\ links = {}
    /\ hub' = "deletes"
    /\ UNCHANGED <<phase, created, starting, maxActive, lasting, expired>>

CreatesSettled ==
    /\ hub = "creates"
    /\ Creating = {}
    /\ RevokeAll(links)
    /\ hub' = "deletes"
    /\ UNCHANGED <<created, starting, maxActive, lasting>>

DeletesSettled ==
    /\ hub = "deletes"
    /\ Deleting = {}
    /\ hub' = "closed"
    /\ UNCHANGED <<phase, created, starting, maxActive, lasting, expired>>

LinkNext ==
    \/ \E forever \in BOOLEAN : Create(forever)
    \/ \E l \in Links :
          WorkerReady(l) \/ CreateFails(l) \/ Revoke(l) \/ WorkerClosed(l) \/ Expire(l)
    \/ Sweep
    \/ \E limit \in Limits : Configure(limit)
    \/ CloseHub \/ ListenersClosed \/ CreatesSettled \/ DeletesSettled

LinkSpec == LinkInit /\ [][LinkNext]_linkVars

----------------------------------------------------------------------------
LinkTypeOK ==
    /\ phase \in [Links -> Phases]
    /\ created \in 0..MaxLinks
    /\ starting \in Nat
    /\ maxActive \in Limits
    /\ lasting \subseteq Links
    /\ expired \subseteq links
    /\ hub \in HubStates

(***************************************************************************)
(* The slot a create reserves before its first await comes back on every   *)
(* way out of createInner, exactly once: `starting' is the number of       *)
(* creates under way.  A slot lost on an error path would take the Hub's   *)
(* capacity away for good; one given back twice would lift the limit.      *)
(***************************************************************************)
SlotsAreReturned == starting = Cardinality(Creating)

(***************************************************************************)
(* Links in the table and creates under way never exceed maxActive, with   *)
(* creates that overlap, revocations and sweeps in between, and a          *)
(* configure() that lowers the limit while creates are pending.            *)
(***************************************************************************)
LimitHeld == InUse =< maxActive

(***************************************************************************)
(* When close() resolves, no worker is starting, serving or stopping:      *)
(* a create that was past the closing check has been undone, and the       *)
(* revocations of others have been waited for.                             *)
(***************************************************************************)
ClosedIsQuiet ==
    hub = "closed" => \A l \in Links : phase[l] \in {"unused", "failed", "gone"}
=============================================================================
