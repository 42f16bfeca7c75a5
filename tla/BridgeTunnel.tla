---------------------------- MODULE BridgeTunnel ----------------------------
(***************************************************************************)
(* BridgeTunnelManager (bridge-tunnel.ts) in the Bridge process that owns  *)
(* it (bridge-http.ts): start() spawns the helper that publishes the       *)
(* Bridge and waits until its origin answers, again and again up to        *)
(* maxAttempts; stop(), health() and the helpers' own exits meet it at     *)
(* each of its awaits.                                                     *)
(*                                                                         *)
(* There is one start() at a time (publicTunnelPromise) and one Bridge     *)
(* process: "gone" is its end before the extension has heard of it.  A     *)
(* helper whose exit was reported is "unused" and its name is used again,  *)
(* as is the name of a helper left behind once there is another Bridge.    *)
(***************************************************************************)
EXTENDS Naturals, Sequences, FiniteSets

CONSTANTS
    Helpers,       \* names for helper processes: the bound of those there are at a time
    MaxAttempts,   \* options.maxAttempts
    None           \* undefined

ASSUME MaxAttemptsAssumption == MaxAttempts \in Nat \ {0}
ASSUME NoHelperAssumption == None \notin Helpers /\ None # "live"

VARIABLES
    bridge,        \* the process: "none", "booting", "up", then the stages of its stop
    helper,        \* "unused", "alive", "killed" or, left running by its Bridge, "orphan" if
                   \* that one closed and "stray" if it died
    late,          \* history: the helpers there are that were spawned after stop() had begun
    start,         \* the await start() is at
    attempt,       \* its attempt
    failure,       \* why the attempt failed: "cancelled" or "failed"
    fresh,         \* the helper startAttempt has spawned and not yet returned
    child,         \* this.child
    controller,    \* this.controller: once it is None, what start() holds is aborted
    watched,       \* helpers whose monitor has the current generation, which also
                   \* tells what `closing` does: stop() changes both
    status,        \* currentStatus.state
    probe          \* health() awaits its check

tunnelVars == <<helper, late, start, attempt, failure, fresh, child, controller, watched,
                status, probe>>

\* "overtaken" is "public_ready" written by a check whose helper was lost while it ran.
States == {"stopped", "local_ready", "starting", "connecting", "public_ready", "overtaken",
           "degraded", "stopping", "error"}

ThreadIdle ==
    /\ start' = "no" /\ attempt' = 0 /\ failure' = "none" /\ fresh' = None

\* The end of the process takes the manager along.
TunnelGone ==
    /\ ThreadIdle
    /\ child' = None /\ controller' = None /\ watched' = {} /\ probe' = FALSE
    /\ status' = "stopped"
    /\ UNCHANGED late

TunnelInit ==
    /\ bridge = "none" /\ helper = [h \in Helpers |-> "unused"] /\ late = {}
    /\ start = "no" /\ attempt = 0 /\ failure = "none" /\ fresh = None
    /\ child = None /\ controller = None /\ watched = {} /\ probe = FALSE
    /\ status = "stopped"

\* What becomes of the helpers that run when their Bridge ends without killing them:
\* nothing.  They run on, and are not followed any further.
LeaveHelpers(as) == helper' = [h \in Helpers |-> IF helper[h] = "alive" THEN as ELSE helper[h]]

\* Their names are free for the helpers of the next Bridge.
ForgetHelpers ==
    /\ helper' = [h \in Helpers |-> IF helper[h] \in {"orphan", "stray"} THEN "unused"
                                                                       ELSE helper[h]]
    /\ late' = {}
    /\ UNCHANGED <<start, attempt, failure, fresh, child, controller, watched, status, probe>>

Stopped == bridge \in {"untunnelling", "closing"}    \* stop() has begun

\* taskkill, which kills at once; the exit is reported later.
Alive(h) == h \in Helpers /\ helper[h] = "alive"
Killed(H) == [h \in Helpers |-> IF h \in H /\ helper[h] = "alive" THEN "killed" ELSE helper[h]]

-----------------------------------------------------------------------------
(* start(), from one await to the next. *)

\* spawnHelper.
Spawn(n) ==
    LET h == CHOOSE i \in Helpers : helper[i] = "unused" IN
        /\ \E i \in Helpers : helper[i] = "unused"
        /\ helper' = [helper EXCEPT ![h] = "alive"]
        /\ late' = IF Stopped THEN late \cup {h} ELSE late
        /\ fresh' = h
        /\ start' = "spawning" /\ attempt' = n /\ failure' = "none"
        /\ status' = IF n = 1 THEN "starting" ELSE "connecting"

NewOperation ==
    /\ Spawn(1)
    /\ controller' = "live"
    /\ watched' = {}                        \* ++this.generation

\* The head of start(), when there is a helper to stop first.
BeginClearing ==
    /\ start' = "clearing"
    /\ helper' = Killed({child}) /\ child' = None
    /\ UNCHANGED <<late, attempt, failure, fresh, controller, watched, status>>

ConnectPublicTunnel ==
    IF start # "no" THEN UNCHANGED tunnelVars
    ELSE /\ IF Alive(child)
            THEN BeginClearing
            ELSE NewOperation /\ child' = None
         /\ UNCHANGED probe

Cleared ==
    /\ start = "clearing"
    /\ NewOperation
    /\ UNCHANGED <<bridge, child, probe>>

\* After stopChildOnly in the catch: give up, or sleep before the next attempt.  The
\* controller stop() has taken away is read again for the sleep, and throws.
AfterCatch(why, c) ==
    /\ failure' = "none" /\ fresh' = None
    /\ IF why = "failed" /\ attempt < MaxAttempts
       THEN /\ status' = "connecting"
            /\ IF c = None THEN start' = "no" /\ attempt' = 0
                           ELSE start' = "backoff" /\ UNCHANGED attempt
       ELSE /\ start' = "no" /\ attempt' = 0
            /\ status' = IF why = "failed" THEN "error" ELSE status

\* The attempt fails: the helper it has is killed and waited for.
Fail(h) ==
    IF Alive(h)
    THEN /\ helper' = Killed({h})
         /\ start' = "killing" /\ failure' = "failed" /\ fresh' = None
         /\ UNCHANGED <<attempt, status>>
    ELSE AfterCatch("failed", controller) /\ UNCHANGED helper

\* No origin in time, or the helper cannot run.
SpawnFails ==
    /\ start = "spawning"
    /\ Fail(fresh)
    /\ UNCHANGED <<bridge, late, child, controller, watched, probe>>

\* An origin: the helper is the child and is monitored.
SpawnReady ==
    /\ start = "spawning" /\ Alive(fresh)
    /\ child' = fresh /\ fresh' = None
    /\ watched' = watched \cup {fresh}
    /\ start' = "probing" /\ status' = "connecting"
    /\ UNCHANGED <<bridge, helper, late, attempt, failure, controller, probe>>

Ready == IF child = None THEN "overtaken" ELSE "public_ready"

\* waitUntilHealthy: a check that fails is repeated after a sleep, at the same place.
ProbingSucceeds ==
    /\ start = "probing"
    /\ status' = Ready
    /\ ThreadIdle
    /\ UNCHANGED <<bridge, helper, late, child, controller, watched, probe>>

\* The deadline, or the helper is not there any more.
ProbingFails ==
    /\ start = "probing"
    /\ Fail(child)
    /\ child' = None
    /\ UNCHANGED <<bridge, late, controller, watched, probe>>

\* terminateProcessTree returns: the helper is gone, or two seconds are.
KillWaitEnds ==
    /\ start = "killing"
    /\ AfterCatch(failure, controller)
    /\ UNCHANGED <<bridge, helper, late, child, controller, watched, probe>>

BackoffEnds ==
    /\ start = "backoff"
    /\ Spawn(attempt + 1)
    /\ UNCHANGED <<bridge, child, controller, watched, probe>>

StartThread ==
    \/ Cleared \/ SpawnFails \/ SpawnReady \/ ProbingSucceeds \/ ProbingFails
    \/ KillWaitEnds \/ BackoffEnds

-----------------------------------------------------------------------------
(* stop() and health(). *)

\* The abort reaches start() at once: a helper being spawned is killed, a wait is left.
Aborted ==
    CASE start = "spawning" /\ Alive(fresh) ->
             start' = "killing" /\ failure' = "cancelled" /\ fresh' = None /\ UNCHANGED attempt
      [] start \in {"probing", "backoff"} -> ThreadIdle
      [] OTHER -> UNCHANGED <<start, attempt, failure, fresh>>

\* Up to the wait for the child.
\* The bug "stop() does not abort what start() is at".
TunnelStop_NoAbort ==
    /\ UNCHANGED <<start, attempt, failure, fresh>>
    /\ helper' = Killed({child})
    /\ child' = None /\ controller' = None /\ watched' = {}
    /\ bridge' = IF Alive(child) THEN "untunnelling" ELSE "closing"
    /\ status' = IF Alive(child) THEN "stopping" ELSE "stopped"
    /\ UNCHANGED <<late, probe>>

TunnelStop ==
    /\ Aborted
    /\ helper' = Killed({child, fresh})
    /\ child' = None /\ controller' = None /\ watched' = {}
    /\ bridge' = IF Alive(child) THEN "untunnelling" ELSE "closing"
    /\ status' = IF Alive(child) THEN "stopping" ELSE "stopped"
    /\ UNCHANGED <<late, probe>>

TunnelStopped ==
    /\ bridge = "untunnelling"
    /\ bridge' = "closing" /\ status' = "stopped"
    /\ UNCHANGED <<helper, late, start, attempt, failure, fresh, child, controller, watched,
                   probe>>

\* health() up to its check; without a helper there is nothing to check.
CheckHealth ==
    /\ IF child = None
       THEN status' = "degraded" /\ UNCHANGED probe
       ELSE probe' = TRUE /\ UNCHANGED status
    /\ UNCHANGED <<helper, late, start, attempt, failure, fresh, child, controller, watched>>

Checked ==
    /\ probe /\ probe' = FALSE
    /\ status' \in {Ready, "degraded"}
    /\ UNCHANGED <<bridge, helper, late, start, attempt, failure, fresh, child, controller,
                   watched>>

-----------------------------------------------------------------------------
(* The exit of a helper, its own or killed, and what monitorChild and      *)
(* startAttempt make of it.                                                *)

\* The bug "an exit is not looked at once its operation is over".
HelperExits_Quiet(h) ==
    /\ helper[h] \in {"alive", "killed"}
    /\ helper' = [helper EXCEPT ![h] = "unused"]
    /\ child' = IF h = child THEN None ELSE child
    /\ watched' = watched \ {h} /\ late' = late \ {h}
    /\ IF h = fresh THEN AfterCatch("failed", controller)
       ELSE /\ status' = IF h \in watched /\ start # "no" THEN "degraded" ELSE status
            /\ UNCHANGED <<start, attempt, failure, fresh>>
    /\ UNCHANGED <<bridge, controller, probe>>

HelperExits(h) ==
    /\ helper[h] \in {"alive", "killed"}
    /\ helper' = [helper EXCEPT ![h] = "unused"]
    /\ child' = IF h = child THEN None ELSE child
    /\ watched' = watched \ {h} /\ late' = late \ {h}
    /\ IF h = fresh THEN AfterCatch("failed", controller)
       ELSE /\ status' = IF h \in watched THEN "degraded" ELSE status
            /\ UNCHANGED <<start, attempt, failure, fresh>>
    /\ UNCHANGED <<bridge, controller, probe>>

-----------------------------------------------------------------------------
\* Every variable has its type; a helper is being started only in a start that spawns.
TunnelTypeOK ==
    /\ bridge \in {"none", "booting", "up", "draining", "untunnelling", "closing", "gone"}
    /\ helper \in [Helpers -> {"unused", "alive", "killed", "orphan", "stray"}]
    /\ late \subseteq Helpers
    /\ start \in {"no", "clearing", "spawning", "probing", "killing", "backoff"}
    /\ attempt \in 0..MaxAttempts /\ (start \in {"no", "clearing"} <=> attempt = 0)
    /\ failure \in {"none", "cancelled", "failed"} /\ (start = "killing" <=> failure # "none")
    /\ fresh \in Helpers \cup {None} /\ (start = "spawning" <=> fresh # None)
    /\ child \in Helpers \cup {None}
    /\ controller \in {None, "live"}
    /\ watched \subseteq Helpers
    /\ status \in States /\ probe \in BOOLEAN

\* The manager never loses sight of a helper: one that runs is the child or is being
\* started, whatever was retried, stopped, killed or timed out; and a Bridge that closes
\* leaves none running that was there when stop() was called or was on its way then.  The
\* one it may leave is spawned after that, by a start() still at its first await or a retry
\* that is read while the tunnel stops: nothing in either looks whether the Bridge closes.
HelpersAreTracked ==
    \A h \in Helpers :
        /\ helper[h] = "alive" => h \in {child, fresh}
        /\ helper[h] = "orphan" => h \in late

\* The origin is called public only while there is a helper to serve it: its exit at any
\* moment withdraws it.  The one exception is the check that is under way at that moment
\* ("overtaken").  While start() waits for a helper it has killed, it will withdraw it next.
ReadyIsTrue == status = "public_ready" => child # None \/ start \in {"clearing", "killing"}
=============================================================================
