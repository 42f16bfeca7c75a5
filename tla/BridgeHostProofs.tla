-------------------------- MODULE BridgeHostProofs --------------------------
(***************************************************************************)
(* What the Bridge's tunnel manager promises of its helpers and its IDE    *)
(* broker of the editor's requests, under every order in which the         *)
(* extension, the panel, timers, crashes and exits reach them, for any     *)
(* number of attempts, helpers and requests and pipes of any length; and   *)
(* that everything stays in its type on the way.                           *)
(*                                                                         *)
(* HelpersAreTracked and ReadyIsTrue are facts about start(), which may be *)
(* at any of its awaits when stop() or an exit changes what it holds.      *)
(* The invariant says what start() can still rely on at each of them.      *)
(* NoForgottenWork is a fact about the order of lines in the two pipes.    *)
(***************************************************************************)
EXTENDS BridgeHost, FiniteSetTheorems, SequenceTheorems, TLAPS

USE DEF tunnelVars, hostVars, pipeVars, vars

HelperStates == {"unused", "alive", "killed", "orphan", "stray"}
USE DEF HelperStates

(* The child is alive and monitored; the helper being started is alive. *)
Held ==
    /\ child # None => Alive(child) /\ child \in watched
    /\ fresh # None => Alive(fresh)

(* start() has no child while it makes room for one, and is aborted nowhere *)
(* but in the two waits for a helper to end.                                *)
AtItsAwait ==
    /\ start \in {"clearing", "spawning", "killing", "backoff"} => child = None
    /\ start \in {"spawning", "probing", "backoff"} => controller # None
    /\ start = "backoff" => attempt < MaxAttempts
    /\ failure = "cancelled" => status # "public_ready"

(* Before the Bridge is up and after it has stopped its tunnel: stop() *)
(* left no helper running, and there may be others since.              *)
AtItsStage ==
    /\ bridge \in {"none", "booting", "gone"} => child = None /\ start = "no"
    /\ Stopped => \A h \in Helpers : helper[h] = "alive" => h \in late

TunnelInv ==
    /\ TunnelTypeOK /\ HelpersAreTracked /\ ReadyIsTrue
    /\ Held /\ AtItsAwait /\ AtItsStage

----------------------------------------------------------------------------
(* start() *)

LEMMA SpawnUses ==
  ASSUME NEW n, Spawn(n)
  PROVE  \E h \in Helpers :
            /\ helper[h] = "unused" /\ helper' = [helper EXCEPT ![h] = "alive"] /\ fresh' = h
            /\ late' = IF Stopped THEN late \cup {h} ELSE late
            /\ start' = "spawning" /\ attempt' = n /\ failure' = "none"
            /\ status' = IF n = 1 THEN "starting" ELSE "connecting"
BY DEF Spawn

LEMMA NewOperationKeeps ==
  ASSUME TunnelInv, start \in {"no", "clearing"}, ~Alive(child), NewOperation, child' = None,
         probe' = probe,
         \/ bridge' = bridge /\ bridge \notin {"none", "booting", "gone"}
         \/ bridge' = "up"
  PROVE  TunnelInv'
<1>1. PICK h \in Helpers :
        /\ helper[h] = "unused" /\ helper' = [helper EXCEPT ![h] = "alive"] /\ fresh' = h
        /\ late' = IF Stopped THEN late \cup {h} ELSE late
        /\ start' = "spawning" /\ attempt' = 1 /\ failure' = "none" /\ status' = "starting"
        /\ controller' = "live" /\ watched' = {}
  <2>1. Spawn(1) /\ controller' = "live" /\ watched' = {}
    BY DEF NewOperation
  <2> QED BY <2>1, SpawnUses
<1>2. child = None /\ fresh = None
  BY DEF TunnelInv, Held, TunnelTypeOK
<1>3. TunnelTypeOK'
  BY <1>1, MaxAttemptsAssumption, NoHelperAssumption DEF TunnelInv, TunnelTypeOK, States
<1>4. HelpersAreTracked'
  BY <1>1, <1>2, NoHelperAssumption DEF TunnelInv, HelpersAreTracked, TunnelTypeOK
<1>5. ReadyIsTrue' /\ AtItsAwait'
  BY <1>1, <1>2, NoHelperAssumption DEF ReadyIsTrue, AtItsAwait
<1>7. AtItsStage'
  BY <1>1 DEF TunnelInv, TunnelTypeOK, AtItsStage, Stopped
<1>6. Held'
  BY <1>1, <1>2 DEF TunnelInv, TunnelTypeOK, Held, Alive
<1> QED BY <1>3, <1>4, <1>5, <1>6, <1>7 DEF TunnelInv

LEMMA ConnectKeeps ==
  ASSUME TunnelInv, ConnectPublicTunnel, UNCHANGED bridge,
         bridge \notin {"none", "booting", "gone"}
  PROVE  TunnelInv'
<1>1. CASE start # "no"
  BY <1>1 DEF ConnectPublicTunnel, TunnelInv, TunnelTypeOK, HelpersAreTracked, ReadyIsTrue,
              Held, Alive, AtItsAwait, AtItsStage, Stopped
<1>2. CASE start = "no" /\ Alive(child)
  <2>1. BeginClearing /\ UNCHANGED <<probe, bridge>>
    BY <1>2 DEF ConnectPublicTunnel
  <2>2. child \in Helpers /\ fresh = None
    BY <1>2 DEF Alive, TunnelInv, TunnelTypeOK
  <2>3. helper' \in [Helpers -> HelperStates]
        /\ \A h \in Helpers : /\ helper'[h] = "alive" => helper[h] = "alive" /\ h # child
                              /\ helper'[h] = "orphan" => helper[h] = "orphan"
    BY <2>1 DEF BeginClearing, Killed, TunnelInv, TunnelTypeOK
  <2>4. TunnelTypeOK'
    BY <1>2, <2>1, <2>3 DEF BeginClearing, TunnelInv, TunnelTypeOK
  <2>5. HelpersAreTracked'
    BY <2>1, <2>2, <2>3 DEF BeginClearing, TunnelInv, HelpersAreTracked
  <2>6. ReadyIsTrue' /\ Held' /\ AtItsAwait'
    BY <1>2, <2>1, <2>2
    DEF BeginClearing, TunnelInv, ReadyIsTrue, Held, Alive, AtItsAwait
  <2>7. AtItsStage'
    BY <2>1, <2>3 DEF BeginClearing, TunnelInv, AtItsStage, Stopped
  <2> QED BY <2>4, <2>5, <2>6, <2>7 DEF TunnelInv
<1>3. CASE start = "no" /\ ~Alive(child)
  <2>1. NewOperation /\ child' = None /\ UNCHANGED <<probe, bridge>>
    BY <1>3 DEF ConnectPublicTunnel
  <2> QED BY <1>3, <2>1, NewOperationKeeps
<1> QED BY <1>1, <1>2, <1>3

(* After the catch nothing is being started. *)
LEMMA AfterCatchKeeps ==
  ASSUME TunnelInv, NEW why \in {"failed", "cancelled"}, AfterCatch(why, controller),
         start \in {"spawning", "probing", "killing"},
         why = "cancelled" => status # "public_ready",
         helper' \in [Helpers -> HelperStates],
         \A h \in Helpers : /\ helper'[h] = "alive" => helper[h] = "alive" /\ h # fresh
                            /\ helper'[h] = "orphan" => helper[h] = "orphan",
         child' = None, \A h \in Helpers : helper'[h] = "alive" => h # child,
         watched' \subseteq watched, late' \subseteq late,
         \A h \in late : helper'[h] \in {"alive", "orphan"} => h \in late',
         UNCHANGED <<bridge, controller, probe>>
  PROVE  TunnelInv'
<1>1. /\ failure' = "none" /\ fresh' = None /\ attempt \in 1..MaxAttempts
      /\ \/ start' = "backoff" /\ attempt' = attempt /\ controller # None /\ attempt < MaxAttempts
         \/ start' = "no" /\ attempt' = 0
      /\ status' \in States /\ status' # "public_ready"
  BY MaxAttemptsAssumption DEF AfterCatch, TunnelInv, TunnelTypeOK, States
<1>2. TunnelTypeOK'
  BY <1>1, MaxAttemptsAssumption DEF TunnelInv, TunnelTypeOK
<1>3. HelpersAreTracked'
  BY <1>1 DEF TunnelInv, HelpersAreTracked
<1>4. ReadyIsTrue' /\ Held' /\ AtItsAwait' /\ AtItsStage'
  BY <1>1 DEF TunnelInv, ReadyIsTrue, Held, AtItsAwait, AtItsStage, Stopped
<1> QED BY <1>2, <1>3, <1>4 DEF TunnelInv

(* What it holds is killed, or is not there any more. *)
LEMMA FailKeeps ==
  ASSUME TunnelInv,
         \/ start = "spawning" /\ Fail(fresh) /\ UNCHANGED child
         \/ start = "probing" /\ Fail(child) /\ child' = None,
         UNCHANGED <<bridge, late, controller, watched, probe>>
  PROVE  TunnelInv'
<1>1. PICK h \in Helpers \cup {None} :
        /\ Fail(h) /\ child' = None
        /\ \/ start = "spawning" /\ h = fresh /\ child = None
           \/ start = "probing" /\ h = child /\ fresh = None
  BY DEF TunnelInv, TunnelTypeOK, AtItsAwait
<1>2. CASE Alive(h)
  <2>1. /\ helper' = Killed({h}) /\ start' = "killing" /\ failure' = "failed" /\ fresh' = None
        /\ UNCHANGED <<attempt, status>>
    BY <1>1, <1>2 DEF Fail
  <2>2. helper' \in [Helpers -> HelperStates]
        /\ \A i \in Helpers : /\ helper'[i] = "alive" => helper[i] = "alive" /\ i # h
                              /\ helper'[i] = "orphan" => helper[i] = "orphan"
    BY <2>1 DEF Killed, TunnelInv, TunnelTypeOK
  <2>3. TunnelTypeOK'
    BY <1>1, <2>1, <2>2 DEF TunnelInv, TunnelTypeOK
  <2>4. HelpersAreTracked'
    BY <1>1, <2>1, <2>2, NoHelperAssumption DEF TunnelInv, HelpersAreTracked
  <2>5. ReadyIsTrue' /\ Held' /\ AtItsAwait' /\ AtItsStage'
    BY <1>1, <2>1, <2>2 DEF TunnelInv, ReadyIsTrue, Held, AtItsAwait, AtItsStage, Stopped
  <2> QED BY <2>3, <2>4, <2>5 DEF TunnelInv
<1>3. CASE ~Alive(h)
  <2>1. AfterCatch("failed", controller) /\ UNCHANGED helper
    BY <1>1, <1>3 DEF Fail
  <2>2. h = None
    BY <1>1, <1>3 DEF TunnelInv, Held
  <2>3. \A i \in Helpers : helper'[i] = "alive" => i # fresh /\ i # child
    BY <1>1, <2>2, NoHelperAssumption
  <2>4. helper' \in [Helpers -> HelperStates]
    BY <2>1 DEF TunnelInv, TunnelTypeOK
  <2> QED BY <1>1, <2>1, <2>3, <2>4, AfterCatchKeeps
<1> QED BY <1>2, <1>3

LEMMA StartThreadKeeps ==
  ASSUME TunnelInv, StartThread
  PROVE  TunnelInv'
<1>1. CASE Cleared
  <2>1. /\ start = "clearing" /\ NewOperation /\ UNCHANGED <<bridge, child, probe>>
    BY <1>1 DEF Cleared
  <2>2. child = None /\ ~Alive(child) /\ bridge \notin {"none", "booting", "gone"}
    BY <2>1, NoHelperAssumption DEF TunnelInv, AtItsAwait, AtItsStage, Alive
  <2> QED BY <2>1, <2>2, NewOperationKeeps
<1>2. CASE SpawnFails \/ ProbingFails
  BY <1>2, FailKeeps DEF SpawnFails, ProbingFails
<1>3. CASE SpawnReady
  BY <1>3, NoHelperAssumption
  DEF SpawnReady, TunnelInv, TunnelTypeOK, States, HelpersAreTracked, ReadyIsTrue, Held, Alive,
      AtItsAwait, AtItsStage, Stopped
<1>4. CASE ProbingSucceeds
  BY <1>4, NoHelperAssumption, MaxAttemptsAssumption
  DEF ProbingSucceeds, ThreadIdle, Ready, TunnelInv, TunnelTypeOK, States, HelpersAreTracked,
      ReadyIsTrue, Held, Alive, AtItsAwait, AtItsStage, Stopped
<1>5. CASE KillWaitEnds
  <2>1. /\ start = "killing" /\ AfterCatch(failure, controller)
        /\ UNCHANGED <<bridge, helper, late, child, controller, watched, probe>>
    BY <1>5 DEF KillWaitEnds
  <2>2. /\ child = None /\ fresh = None /\ failure \in {"failed", "cancelled"}
        /\ failure = "cancelled" => status # "public_ready"
        /\ helper' \in [Helpers -> HelperStates]
    BY <2>1 DEF TunnelInv, TunnelTypeOK, AtItsAwait
  <2> QED BY <2>1, <2>2, NoHelperAssumption, AfterCatchKeeps
<1>6. CASE BackoffEnds
  <2>1. PICK h \in Helpers :
          /\ helper[h] = "unused" /\ helper' = [helper EXCEPT ![h] = "alive"] /\ fresh' = h
          /\ late' = IF Stopped THEN late \cup {h} ELSE late
          /\ start' = "spawning" /\ attempt' = attempt + 1 /\ failure' = "none"
          /\ status' \in {"starting", "connecting"}
    BY <1>6, SpawnUses DEF BackoffEnds
  <2>2. start = "backoff" /\ UNCHANGED <<bridge, child, controller, watched, probe>>
    BY <1>6 DEF BackoffEnds
  <2>3. attempt' \in 0..MaxAttempts /\ attempt' # 0
    BY <2>1, <2>2, MaxAttemptsAssumption DEF TunnelInv, TunnelTypeOK, AtItsAwait
  <2>4. child = None /\ fresh = None /\ controller # None
    BY <2>2 DEF TunnelInv, TunnelTypeOK, AtItsAwait
  <2>5. TunnelTypeOK'
    BY <2>1, <2>2, <2>3, NoHelperAssumption DEF TunnelInv, TunnelTypeOK, States
  <2>6. HelpersAreTracked'
    BY <2>1, <2>2, <2>4, NoHelperAssumption DEF TunnelInv, TunnelTypeOK, HelpersAreTracked
  <2>7. ReadyIsTrue' /\ AtItsAwait'
    BY <2>1, <2>2, <2>4 DEF TunnelInv, ReadyIsTrue, AtItsAwait
  <2>9. AtItsStage'
    BY <2>1, <2>2 DEF TunnelInv, TunnelTypeOK, AtItsStage, Stopped
  <2>8. Held'
    BY <2>1, <2>2, <2>4 DEF TunnelInv, TunnelTypeOK, Held, Alive
  <2> QED BY <2>5, <2>6, <2>7, <2>8, <2>9 DEF TunnelInv
<1> QED BY <1>1, <1>2, <1>3, <1>4, <1>5, <1>6 DEF StartThread

----------------------------------------------------------------------------
(* stop(), health() and the exits. *)

LEMMA TunnelStopKeeps ==
  ASSUME TunnelInv, bridge = "draining", TunnelStop
  PROVE  TunnelInv'
<1>1. /\ helper' = Killed({child, fresh})
      /\ child' = None /\ controller' = None /\ watched' = {}
      /\ probe' = probe /\ late' = late
      /\ status' \in {"stopping", "stopped"} /\ bridge' \in {"untunnelling", "closing"}
  BY DEF TunnelStop
<1>2. helper' \in [Helpers -> HelperStates]
      /\ \A h \in Helpers : /\ helper'[h] # "alive"
                            /\ helper'[h] = "orphan" => helper[h] = "orphan"
  BY <1>1 DEF Killed, TunnelInv, TunnelTypeOK, HelpersAreTracked
<1>3. /\ fresh' = None
      /\ \/ start' = "killing" /\ failure' = "cancelled" /\ attempt' = attempt /\ attempt # 0
         \/ start' = "no" /\ failure' = "none" /\ attempt' = 0
         \/ start \in {"no", "clearing", "killing"} /\ UNCHANGED <<start, failure, attempt>>
  <2>1. CASE start = "spawning"
    <3>1. Alive(fresh) /\ attempt # 0
      BY <2>1 DEF TunnelInv, TunnelTypeOK, Held
    <3> QED BY <2>1, <3>1 DEF TunnelStop, Aborted
  <2>2. CASE start \in {"probing", "backoff"}
    BY <2>2 DEF TunnelStop, Aborted, ThreadIdle
  <2>3. CASE start \in {"no", "clearing", "killing"}
    BY <2>3 DEF TunnelStop, Aborted, TunnelInv, TunnelTypeOK
  <2> QED BY <2>1, <2>2, <2>3 DEF TunnelInv, TunnelTypeOK
<1>4. TunnelTypeOK'
  BY <1>1, <1>2, <1>3, MaxAttemptsAssumption DEF TunnelInv, TunnelTypeOK, States
<1>5. HelpersAreTracked' /\ ReadyIsTrue' /\ Held'
  BY <1>1, <1>2, <1>3 DEF TunnelInv, HelpersAreTracked, ReadyIsTrue, Held
<1>6. AtItsAwait' /\ AtItsStage'
  BY <1>1, <1>2, <1>3 DEF AtItsAwait, AtItsStage
<1> QED BY <1>4, <1>5, <1>6 DEF TunnelInv

LEMMA StatusKeeps ==
  ASSUME TunnelInv,
         UNCHANGED <<helper, late, start, attempt, failure, fresh, child, controller, watched>>,
         status' \in States, status' = "public_ready" => child # None, probe' \in BOOLEAN,
         bridge' = bridge \/ (bridge = "untunnelling" /\ bridge' = "closing")
  PROVE  TunnelInv'
<1>1. TunnelTypeOK'
  BY DEF TunnelInv, TunnelTypeOK
<1>2. HelpersAreTracked' /\ ReadyIsTrue' /\ Held'
  BY DEF TunnelInv, HelpersAreTracked, ReadyIsTrue, Held, Alive
<1>3. AtItsAwait' /\ AtItsStage'
  BY DEF TunnelInv, TunnelTypeOK, AtItsAwait, AtItsStage, Stopped
<1> QED BY <1>1, <1>2, <1>3 DEF TunnelInv

LEMMA BridgeMoveKeeps ==
  ASSUME TunnelInv, UNCHANGED tunnelVars,
         \/ bridge' = bridge
         \/ bridge \in {"none", "gone"} /\ bridge' \in {"none", "booting"}
         \/ bridge = "up" /\ bridge' = "draining"
  PROVE  TunnelInv'
<1>1. TunnelTypeOK'
  BY DEF TunnelInv, TunnelTypeOK
<1>2. HelpersAreTracked' /\ ReadyIsTrue' /\ Held' /\ AtItsAwait' /\ AtItsStage'
  BY DEF TunnelInv, HelpersAreTracked, ReadyIsTrue, Held, Alive, AtItsAwait, AtItsStage,
         Stopped
<1> QED BY <1>1, <1>2 DEF TunnelInv

LEMMA GoneKeeps ==
  ASSUME TunnelInv, TunnelGone, bridge' = "gone",
         helper' \in [Helpers -> HelperStates],
         \A h \in Helpers : /\ helper'[h] # "alive"
                            /\ helper'[h] = "orphan" => h \in late
  PROVE  TunnelInv'
<1>0. probe' \in BOOLEAN
  BY Zenon DEF TunnelGone
<1>1. TunnelTypeOK'
  BY <1>0, MaxAttemptsAssumption DEF TunnelInv, TunnelGone, ThreadIdle, TunnelTypeOK, States
<1>2. HelpersAreTracked' /\ ReadyIsTrue' /\ Held' /\ AtItsAwait' /\ AtItsStage'
  BY DEF TunnelGone, ThreadIdle, HelpersAreTracked, ReadyIsTrue, Held, AtItsAwait, AtItsStage
<1> QED BY <1>1, <1>2 DEF TunnelInv

(* Another Bridge: nothing runs, and what ran on is forgotten. *)
LEMMA LaunchTunnelKeeps ==
  ASSUME TunnelInv, bridge = "none", bridge' = "booting", ForgetHelpers
  PROVE  TunnelInv'
<1>1. /\ UNCHANGED <<start, attempt, failure, fresh, child, controller, watched, status, probe>>
      /\ late' = {} /\ helper' \in [Helpers -> HelperStates]
      /\ \A h \in Helpers : /\ helper'[h] # "orphan"
                            /\ helper'[h] = "alive" <=> helper[h] = "alive"
  BY DEF ForgetHelpers, TunnelInv, TunnelTypeOK
<1>2. TunnelTypeOK'
  BY <1>1 DEF TunnelInv, TunnelTypeOK
<1>3. HelpersAreTracked' /\ ReadyIsTrue' /\ Held'
  BY <1>1 DEF TunnelInv, TunnelTypeOK, HelpersAreTracked, ReadyIsTrue, Held, Alive
<1>4. AtItsAwait' /\ AtItsStage'
  BY <1>1 DEF TunnelInv, AtItsAwait, AtItsStage, Stopped
<1> QED BY <1>2, <1>3, <1>4 DEF TunnelInv

LEMMA HelperExitsKeeps ==
  ASSUME TunnelInv, NEW h \in Helpers, HelperExits(h)
  PROVE  TunnelInv'
<1>1. /\ helper' \in [Helpers -> HelperStates]
      /\ \A i \in Helpers : helper'[i] \in {"alive", "orphan"} => helper'[i] = helper[i] /\ i # h
  BY DEF HelperExits, TunnelInv, TunnelTypeOK
<1>2. /\ child' = IF h = child THEN None ELSE child
      /\ watched' = watched \ {h} /\ late' = late \ {h}
      /\ UNCHANGED <<bridge, controller, probe>>
  BY DEF HelperExits
<1>3. CASE h = fresh
  <2>1. start = "spawning" /\ child = None /\ child' = None
    BY <1>2, <1>3, NoHelperAssumption DEF TunnelInv, TunnelTypeOK, AtItsAwait
  <2>2. AfterCatch("failed", controller)
    BY <1>3 DEF HelperExits
  <2>3. \A i \in Helpers : i # child
    BY <2>1, NoHelperAssumption
  <2> QED BY <1>1, <1>2, <1>3, <2>1, <2>2, <2>3, AfterCatchKeeps
<1>4. CASE h # fresh
  <2>1. /\ status' = IF h \in watched THEN "degraded" ELSE status
        /\ UNCHANGED <<start, attempt, failure, fresh>>
    BY <1>4 DEF HelperExits
  <2>2. h \notin watched => h # child
    BY NoHelperAssumption DEF TunnelInv, Held
  <2>3. TunnelTypeOK'
    BY <1>1, <1>2, <2>1 DEF TunnelInv, TunnelTypeOK, States
  <2>4. HelpersAreTracked'
    BY <1>1, <1>2, <2>1 DEF TunnelInv, HelpersAreTracked
  <2>5. ReadyIsTrue' /\ AtItsAwait' /\ AtItsStage'
    BY <1>1, <1>2, <2>1, <2>2 DEF TunnelInv, ReadyIsTrue, AtItsAwait, AtItsStage, Stopped
  <2>6. \A i \in Helpers : helper[i] = "alive" /\ i # h => helper'[i] = "alive"
    BY DEF HelperExits, TunnelInv, TunnelTypeOK
  <2>7. Held'
    BY <1>2, <1>4, <2>1, <2>6 DEF TunnelInv, Held, Alive
  <2> QED BY <2>3, <2>4, <2>5, <2>7 DEF TunnelInv
<1> QED BY <1>3, <1>4

----------------------------------------------------------------------------
(* The Bridge and its extension.  A process is launched where there is none, *)
(* and one that is there is asked to stop.                                    *)

HostInv ==
    /\ TunnelInv
    /\ starting \in {"preparing", "resolving"} => bridge = "none"
    /\ stopping # "no" => bridge # "none"

LEMMA InitKeeps == Init => HostInv
<1> SUFFICES ASSUME Init PROVE HostInv
  OBVIOUS
<1>0. probe \in BOOLEAN
  BY Zenon DEF Init, TunnelInit
<1>1. TunnelTypeOK
  BY <1>0, MaxAttemptsAssumption DEF Init, TunnelInit, TunnelTypeOK, States
<1> QED BY <1>1 DEF Init, TunnelInit, HostInv, TunnelInv, HelpersAreTracked, ReadyIsTrue, Held,
                    AtItsAwait, AtItsStage, Stopped

LEMMA ReadLineKeeps ==
  ASSUME TunnelInv, ReadLine
  PROVE  TunnelInv'
<1> DEFINE line == Head(stdin)
<1>1. CASE line[1] = "stop"
  BY <1>1, BridgeMoveKeeps DEF ReadLine
<1>2. CASE line[1] = "check"
  <2>1. CheckHealth /\ UNCHANGED bridge
    BY <1>2 DEF ReadLine
  <2>2. UNCHANGED <<helper, late, start, attempt, failure, fresh, child, controller, watched>>
    BY <2>1 DEF CheckHealth
  <2>3. probe' \in BOOLEAN
    BY <2>1, Zenon DEF CheckHealth, TunnelInv, TunnelTypeOK
  <2>4. status' = "degraded" \/ (status' = status /\ child # None)
    BY <2>1, Zenon DEF CheckHealth
  <2>5. status' \in States /\ (status' = "public_ready" => child # None)
    BY <2>4 DEF TunnelInv, TunnelTypeOK, States
  <2>6. bridge' = bridge \/ (bridge = "untunnelling" /\ bridge' = "closing")
    BY <2>1
  <2> QED BY <2>2, <2>3, <2>5, <2>6, StatusKeeps
<1>3. CASE line[1] = "retry"
  <2>1. ConnectPublicTunnel /\ UNCHANGED bridge /\ bridge \notin {"none", "booting", "gone"}
    BY <1>3 DEF ReadLine
  <2> QED BY <2>1, ConnectKeeps
<1>4. CASE line[1] \notin {"stop", "check", "retry"}
  BY <1>4, BridgeMoveKeeps DEF ReadLine
<1> QED BY <1>1, <1>2, <1>3, <1>4

LEMMA EndsKeep ==
  ASSUME TunnelInv, TreeKilled \/ Crash \/ Exit
  PROVE  TunnelInv'
<1>1. CASE TreeKilled
  <2>1. TunnelGone /\ bridge' = "gone" /\ helper' = Killed(Helpers)
    BY <1>1 DEF TreeKilled
  <2>2. /\ helper' \in [Helpers -> HelperStates]
        /\ \A h \in Helpers : helper'[h] # "alive" /\ (helper'[h] = "orphan" => h \in late)
    BY <2>1 DEF Killed, TunnelInv, TunnelTypeOK, HelpersAreTracked
  <2> QED BY <2>1, <2>2, GoneKeeps
<1>2. CASE Crash
  <2>1. TunnelGone /\ bridge' = "gone" /\ LeaveHelpers("stray")
    BY <1>2 DEF Crash
  <2>2. /\ helper' \in [Helpers -> HelperStates]
        /\ \A h \in Helpers : helper'[h] # "alive" /\ (helper'[h] = "orphan" => h \in late)
    BY <2>1 DEF LeaveHelpers, TunnelInv, TunnelTypeOK, HelpersAreTracked
  <2> QED BY <2>1, <2>2, GoneKeeps
<1>3. CASE Exit
  <2>1. TunnelGone /\ bridge' = "gone" /\ LeaveHelpers("orphan") /\ bridge = "closing"
    BY <1>3 DEF Exit
  <2>2. \A h \in Helpers : helper[h] \in {"alive", "orphan"} => h \in late
    BY <2>1 DEF TunnelInv, AtItsStage, Stopped, HelpersAreTracked
  <2>3. /\ helper' \in [Helpers -> HelperStates]
        /\ \A h \in Helpers : helper'[h] # "alive" /\ (helper'[h] = "orphan" => h \in late)
    BY <2>1, <2>2 DEF LeaveHelpers, TunnelInv, TunnelTypeOK
  <2> QED BY <2>1, <2>3, GoneKeeps
<1> QED BY <1>1, <1>2, <1>3

LEMMA StepKeeps == HostInv /\ [Next]_vars => HostInv'
<1> SUFFICES ASSUME HostInv, [Next]_vars PROVE HostInv'
  OBVIOUS
<1>0. TunnelInv
  BY DEF HostInv
<1>1. CASE StartBridge \/ Prepare \/ StopActiveBridge \/ OnLine \/ AskHealth \/ AskRetry
           \/ StartTimeout \/ StopTimeout \/ UNCHANGED vars
  <2>1. UNCHANGED <<bridge, tunnelVars>>
    BY <1>1 DEF StartBridge, Prepare, StopActiveBridge, OnLine, AskHealth, AskRetry,
                StartTimeout, StopTimeout
  <2>2. /\ starting' \in {"preparing", "resolving"} => bridge = "none"
        /\ stopping' # "no" => bridge # "none"
    BY <1>1 DEF HostInv, StartBridge, Prepare, StopActiveBridge, OnLine, AskHealth, AskRetry,
                StartTimeout, StopTimeout
  <2> QED BY <1>0, <2>1, <2>2, BridgeMoveKeeps DEF HostInv
<1>2. CASE \E r \in Requests : AdapterAnswers(r) \/ IdeRequest(r) \/ IdeGivesUp(r)
  <2>1. UNCHANGED <<bridge, tunnelVars, starting, stopping>>
    BY <1>2 DEF AdapterAnswers, IdeRequest, IdeGivesUp
  <2> QED BY <1>0, <2>1, BridgeMoveKeeps DEF HostInv
<1>3. CASE Launch \/ BridgeExit
  <2>1. /\ \/ UNCHANGED tunnelVars /\ (bridge' = bridge \/ (bridge = "gone" /\ bridge' = "none"))
           \/ ForgetHelpers /\ bridge = "none" /\ bridge' = "booting"
        /\ starting' \in {"preparing", "resolving"} => bridge' = "none"
        /\ stopping' # "no" => bridge' # "none"
    BY <1>3 DEF HostInv, Launch, BridgeExit
  <2>2. TunnelInv'
    BY <1>0, <2>1, BridgeMoveKeeps, LaunchTunnelKeeps
  <2> QED BY <2>1, <2>2 DEF HostInv
<1>4. CASE TreeKilled \/ Crash \/ Exit
  <2>1. starting' \notin {"preparing", "resolving"} /\ bridge' = "gone"
    BY <1>4 DEF HostInv, TreeKilled, Crash, Exit
  <2> QED BY <1>0, <1>4, <2>1, EndsKeep DEF HostInv
<1>5. CASE Boot
  <2>1. /\ NewOperation /\ bridge = "booting" /\ bridge' = "up"
        /\ child' = child /\ probe' = probe /\ UNCHANGED <<starting, stopping>>
    BY <1>5 DEF Boot
  <2>2. start = "no" /\ child = None /\ ~Alive(child)
    BY <1>0, <2>1, NoHelperAssumption DEF TunnelInv, AtItsStage, Alive
  <2> QED BY <1>0, <2>1, <2>2, NewOperationKeeps DEF HostInv
<1>6. CASE ReadLine
  <2>1. UNCHANGED <<starting, stopping>> /\ TunnelInv' /\ bridge # "none" /\ bridge' # "none"
    BY <1>0, <1>6, ReadLineKeeps DEF ReadLine
  <2> QED BY <2>1 DEF HostInv
<1>7. CASE TunnelThread
  <2>1. StartThread /\ UNCHANGED <<starting, stopping>> /\ bridge' = bridge
    BY <1>7 DEF TunnelThread, StartThread, Cleared, SpawnFails, SpawnReady, ProbingSucceeds,
                ProbingFails, KillWaitEnds, BackoffEnds
  <2> QED BY <1>0, <2>1, StartThreadKeeps DEF HostInv
<1>8. CASE ProbeEnds \/ TunnelIsStopped
  <2>1. UNCHANGED <<helper, late, start, attempt, failure, fresh, child, controller, watched,
                    starting, stopping>>
    BY <1>8 DEF ProbeEnds, Checked, TunnelIsStopped, TunnelStopped
  <2>2. probe' \in BOOLEAN
    BY <1>0, <1>8, Zenon DEF ProbeEnds, Checked, TunnelIsStopped, TunnelStopped, TunnelInv,
                             TunnelTypeOK
  <2>3. status' \in {Ready, "degraded", "stopped"}
    BY <1>8 DEF ProbeEnds, Checked, TunnelIsStopped, TunnelStopped
  <2>4. status' \in States /\ (status' = "public_ready" => child # None)
    BY <2>3 DEF Ready, States
  <2>5. bridge' = bridge \/ (bridge = "untunnelling" /\ bridge' = "closing")
    BY <1>8 DEF ProbeEnds, Checked, TunnelIsStopped, TunnelStopped
  <2> QED BY <1>0, <2>1, <2>2, <2>4, <2>5, StatusKeeps DEF HostInv
<1>9. CASE Drained
  <2>1. bridge = "draining" /\ TunnelStop /\ UNCHANGED <<starting, stopping>> /\ bridge' # "none"
    BY <1>9 DEF Drained, TunnelStop
  <2> QED BY <1>0, <2>1, TunnelStopKeeps DEF HostInv
<1>10. CASE \E h \in Helpers : HelperExit(h)
  <2>1. PICK h \in Helpers : HelperExits(h) /\ UNCHANGED <<starting, stopping>> /\ bridge' = bridge
    BY <1>10 DEF HelperExit, HelperExits
  <2> QED BY <1>0, <2>1, HelperExitsKeeps DEF HostInv
<1> QED BY <1>1, <1>2, <1>3, <1>4, <1>5, <1>6, <1>7, <1>8, <1>9, <1>10
        DEF Next, ExtensionSteps, ClientReads, Timers, IdeTimers

LEMMA Invariance == Spec => []HostInv
<1> QED BY InitKeeps, StepKeeps, PTL DEF Spec

\* Whatever meets start() at its awaits, a retry, stop(), a timeout or an exit, no helper
\* runs that the manager has lost, and the only ones that outlive a Bridge that closed were
\* spawned after its stop() had begun (bridge-tunnel.ts).
THEOREM NoHelperIsLost == Spec => []HelpersAreTracked
<1>1. HostInv => HelpersAreTracked
  BY DEF HostInv, TunnelInv
<1> QED BY <1>1, Invariance, PTL

\* The tunnel is never called public while nothing serves its origin, unless a check that
\* was overtaken says so (monitorChild, waitUntilHealthy and health in bridge-tunnel.ts).
THEOREM PublicMeansServed == Spec => []ReadyIsTrue
<1>1. HostInv => ReadyIsTrue
  BY DEF HostInv, TunnelInv
<1> QED BY <1>1, Invariance, PTL

----------------------------------------------------------------------------
(* The switches of the extension. *)

SwitchesOK ==
    /\ starting \in {"no", "preparing", "resolving", "waiting", "killing"}
    /\ cancelled \in BOOLEAN /\ (cancelled => starting # "no")
    /\ stopping \in {"no", "asked", "killing"}
    /\ ready \in BOOLEAN /\ checking \in BOOLEAN

LEMMA SwitchesInit == Init => SwitchesOK
BY Zenon DEF Init, SwitchesOK

LEMMA SwitchesStay ==
  ASSUME SwitchesOK, UNCHANGED <<starting, cancelled, stopping, ready, checking>>
  PROVE  SwitchesOK'
BY Zenon DEF SwitchesOK

LEMMA StartSwitches ==
  ASSUME SwitchesOK, StartBridge \/ Prepare \/ Launch \/ StartTimeout
  PROVE  SwitchesOK'
<1>1. UNCHANGED <<stopping, ready, checking>>
  BY DEF StartBridge, Prepare, Launch, StartTimeout
<1>2. starting' \in {"no", "preparing", "resolving", "waiting", "killing"}
  BY DEF StartBridge, Prepare, Launch, StartTimeout, SwitchesOK
<1>3. cancelled' \in BOOLEAN
  BY Zenon DEF StartBridge, Prepare, Launch, StartTimeout, SwitchesOK
<1>4. cancelled' => starting' # "no"
  BY Zenon DEF StartBridge, Prepare, Launch, StartTimeout, SwitchesOK
<1> QED BY Zenon, <1>1, <1>2, <1>3, <1>4 DEF SwitchesOK

LEMMA StopSwitches ==
  ASSUME SwitchesOK, StopActiveBridge \/ StopTimeout \/ BridgeExit
  PROVE  SwitchesOK'
<1>1. starting' \in {starting, "no"}
  BY DEF StopActiveBridge, StopTimeout, BridgeExit
<1>2. stopping' \in {stopping, "no", "asked", "killing"}
  BY DEF StopActiveBridge, StopTimeout, BridgeExit
<1>3. ready' \in BOOLEAN /\ checking' \in BOOLEAN
  BY Zenon DEF StopActiveBridge, StopTimeout, BridgeExit, SwitchesOK
<1>4. cancelled' \in BOOLEAN
  BY Zenon DEF StopActiveBridge, StopTimeout, BridgeExit, SwitchesOK
<1>5. cancelled' => starting' # "no"
  BY Zenon DEF StopActiveBridge, StopTimeout, BridgeExit, SwitchesOK
<1>6. starting' \in {"no", "preparing", "resolving", "waiting", "killing"}
      /\ stopping' \in {"no", "asked", "killing"}
  BY <1>1, <1>2 DEF SwitchesOK
<1> QED BY Zenon, <1>3, <1>4, <1>5, <1>6 DEF SwitchesOK

LEMMA LineSwitches ==
  ASSUME SwitchesOK, OnLine \/ AskHealth
  PROVE  SwitchesOK'
<1>1. stopping' = stopping
  BY DEF OnLine, AskHealth
<1>2. \/ starting' = starting /\ cancelled' = cancelled
      \/ starting' = "no" /\ cancelled' = FALSE
  BY Zenon DEF OnLine, AskHealth
<1>3. ready' \in BOOLEAN /\ checking' \in BOOLEAN
  BY Zenon DEF OnLine, AskHealth, SwitchesOK
<1>4. cancelled' \in BOOLEAN
  BY Zenon, <1>2 DEF SwitchesOK
<1>6. cancelled' => starting' # "no"
  BY Zenon, <1>2 DEF SwitchesOK
<1>5. starting' \in {"no", "preparing", "resolving", "waiting", "killing"}
  BY <1>2 DEF SwitchesOK
<1> QED BY Zenon, <1>1, <1>3, <1>4, <1>5, <1>6 DEF SwitchesOK

LEMMA SwitchesKeep == SwitchesOK /\ [Next]_vars => SwitchesOK'
<1> SUFFICES ASSUME SwitchesOK, [Next]_vars PROVE SwitchesOK'
  OBVIOUS
<1>1. CASE StartBridge \/ ExtensionSteps \/ StartTimeout
  BY <1>1, StartSwitches DEF ExtensionSteps
<1>2. CASE StopActiveBridge \/ StopTimeout \/ BridgeExit
  BY <1>2, StopSwitches
<1>3. CASE OnLine \/ AskHealth
  BY <1>3, LineSwitches
<1>4. CASE AskRetry \/ (\E r \in Requests : AdapterAnswers(r) \/ IdeRequest(r)) \/ IdeTimers
           \/ Boot \/ Crash \/ TreeKilled \/ ReadLine \/ UNCHANGED vars
  <2>1. UNCHANGED <<starting, cancelled, stopping, ready, checking>>
    BY Zenon, <1>4 DEF AskRetry, AdapterAnswers, IdeRequest, IdeTimers, IdeGivesUp, Boot, Crash, TreeKilled,
                       ReadLine
  <2> QED BY <2>1, SwitchesStay
<1>5. CASE TunnelThread \/ ProbeEnds \/ Drained \/ TunnelIsStopped \/ Exit
           \/ (\E h \in Helpers : HelperExit(h))
  <2>1. UNCHANGED <<starting, cancelled, stopping, ready, checking>>
    BY Zenon, <1>5 DEF TunnelThread, ProbeEnds, Drained, TunnelIsStopped, Exit, HelperExit
  <2> QED BY <2>1, SwitchesStay
<1> QED BY <1>1, <1>2, <1>3, <1>4, <1>5 DEF Next, ClientReads, Timers

----------------------------------------------------------------------------
(* The pipes.  What ends a request also writes its notice behind it, and an *)
(* answer is on its way only once the editor is done.                       *)

Lines == {<<"ready">>, <<"health">>} \cup ({"request", "cancel"} \X Requests)
Controls == {<<"stop">>, <<"check">>, <<"retry">>} \cup ({"answer"} \X Requests)

Says(pipe, line) == \E k \in 1..Len(pipe) : pipe[k] = line
Followed(r, i) == \E j \in 1..Len(stdout) : j > i /\ stdout[j] = <<"cancel", r>>

RequestInv(r) ==
    /\ \A i \in 1..Len(stdout) : stdout[i] = <<"request", r>> =>
          /\ r \in pending \/ Followed(r, i) \/ bridge = "gone"
          /\ r \notin controllers
          /\ \A j \in 1..Len(stdout) : stdout[j] = <<"request", r>> => i = j
          /\ ~Says(stdin, <<"answer", r>>)
    /\ Says(stdin, <<"answer", r>>) => r \notin controllers
    /\ r \in controllers => r \in pending \/ Followed(r, 0) \/ bridge = "gone"

AtItsEnds ==
    /\ bridge = "none" => controllers = {} /\ stdout = <<>>
    /\ bridge \in {"none", "gone"} => stdin = <<>>
    /\ bridge # "up" => pending = {}

PipeTypes ==
    /\ controllers \subseteq Requests
    /\ pending \subseteq Requests /\ IsFiniteSet(pending)
    /\ stdin \in Seq(Controls) /\ stdout \in Seq(Lines)

PipeInv == PipeTypes /\ AtItsEnds /\ \A r \in Requests : RequestInv(r)

LEMMA SetToSeqLists ==
  ASSUME NEW S, IsFiniteSet(S)
  PROVE  /\ SetToSeq(S) \in Seq(S)
         /\ \A x \in S : Says(SetToSeq(S), x)
<1> DEFINE n == Cardinality(S)
<1>1. n \in Nat /\ ExistsBijection(1..n, S)
  BY FS_CardinalityType
<1>2. PICK g \in Bijection(1..n, S) : TRUE
  BY <1>1 DEF ExistsBijection
<1>3. g \in [1..n -> S] /\ IsInjective(g)
  BY <1>2 DEF Bijection, Injection, IsInjective
<1>4. SetToSeq(S) \in [1..n -> S] /\ IsInjective(SetToSeq(S))
  BY <1>3 DEF SetToSeq
<1>5. SetToSeq(S) \in Injection(1..n, S)
  BY <1>4 DEF Injection
<1>6. Cardinality(1..n) = n
  BY <1>1, FS_Interval
<1>7. SetToSeq(S) \in Surjection(1..n, S)
  BY <1>5, <1>6, FS_Injection
<1>8. SetToSeq(S) \in Seq(S) /\ Len(SetToSeq(S)) = n
  BY <1>1, <1>4
<1> QED BY <1>7, <1>8 DEF Surjection, Says

LEMMA Notices ==
  ASSUME NEW P, IsFiniteSet(P)
  PROVE  LET notices == SetToSeq({<<"cancel", r>> : r \in P}) IN
            /\ notices \in Seq({"cancel"} \X P)
            /\ \A r \in P : Says(notices, <<"cancel", r>>)
<1> DEFINE S == {<<"cancel", r>> : r \in P}
           f == [r \in P |-> <<"cancel", r>>]
<1>1. f \in Surjection(P, S)
  BY DEF Surjection
<1>2. IsFiniteSet(S)
  BY <1>1, FS_Surjection
<1>3. S = {"cancel"} \X P
  OBVIOUS
<1>4. SetToSeq(S) \in Seq(S) /\ \A x \in S : Says(SetToSeq(S), x)
  BY <1>2, SetToSeqLists
<1> QED BY <1>3, <1>4

LEMMA QuietKeeps ==
  ASSUME NEW r \in Requests, RequestInv(r),
         Len(stdout) \in Nat, Len(stdout') \in Nat, Len(stdout') >= Len(stdout),
         \A i \in 1..Len(stdout) : stdout'[i] = stdout[i],
         \A i \in Len(stdout)+1..Len(stdout') : stdout'[i] # <<"request", r>>,
         \/ r \in pending => r \in pending'
         \/ \E j \in Len(stdout)+1..Len(stdout') : stdout'[j] = <<"cancel", r>>
         \/ Says(stdin, <<"answer", r>>)
         \/ bridge' = "gone",
         \/ Says(stdin', <<"answer", r>>) => Says(stdin, <<"answer", r>>)
         \/ r \notin controllers' /\ r \in controllers,
         r \in controllers' => r \in controllers,
         bridge = "gone" => bridge' = "gone"
  PROVE  RequestInv(r)'
<1>1. \A i \in 0..Len(stdout) : Followed(r, i) => Followed(r, i)'
  BY DEF Followed
<1>2. (\E j \in Len(stdout)+1..Len(stdout') : stdout'[j] = <<"cancel", r>>)
          => \A i \in 0..Len(stdout) : Followed(r, i)'
  BY DEF Followed
<1>3. ASSUME NEW i \in 1..Len(stdout'), stdout'[i] = <<"request", r>>
      PROVE  i \in 1..Len(stdout) /\ stdout[i] = <<"request", r>>
  BY <1>3
<1>4. ASSUME NEW i \in 1..Len(stdout'), stdout'[i] = <<"request", r>>
      PROVE  /\ r \in pending' \/ Followed(r, i)' \/ bridge' = "gone"
             /\ r \notin controllers'
             /\ \A j \in 1..Len(stdout') : stdout'[j] = <<"request", r>> => i = j
             /\ ~Says(stdin', <<"answer", r>>)
  <2>1. i \in 1..Len(stdout) /\ stdout[i] = <<"request", r>>
    BY <1>3, <1>4
  <2>2. /\ r \in pending \/ Followed(r, i) \/ bridge = "gone"
        /\ r \notin controllers
        /\ \A j \in 1..Len(stdout) : stdout[j] = <<"request", r>> => i = j
        /\ ~Says(stdin, <<"answer", r>>)
    BY <2>1 DEF RequestInv
  <2>3. r \in pending' \/ Followed(r, i)' \/ bridge' = "gone"
    BY <1>1, <1>2, <2>1, <2>2
  <2>4. \A j \in 1..Len(stdout') : stdout'[j] = <<"request", r>> => i = j
    BY <1>3, <2>2
  <2> QED BY <2>2, <2>3, <2>4
<1>5. Says(stdin', <<"answer", r>>) => r \notin controllers'
  BY DEF RequestInv
<1>6. r \in controllers' => r \in pending' \/ Followed(r, 0)' \/ bridge' = "gone"
  BY <1>1, <1>2 DEF RequestInv
<1> QED BY <1>4, <1>5, <1>6 DEF RequestInv

LEMMA SaysAppend ==
  ASSUME NEW S, NEW pipe \in Seq(S), NEW line \in S, NEW x
  PROVE  /\ Append(pipe, line) \in Seq(S) /\ Len(Append(pipe, line)) = Len(pipe) + 1
         /\ Says(Append(pipe, line), x) <=> Says(pipe, x) \/ x = line
<1>1. /\ Len(pipe) \in Nat
      /\ Len(Append(pipe, line)) = Len(pipe) + 1
      /\ \A i \in 1..Len(pipe) : Append(pipe, line)[i] = pipe[i]
      /\ Append(pipe, line)[Len(pipe) + 1] = line
  BY AppendProperties
<1> QED BY <1>1 DEF Says

LEMMA SaysTail ==
  ASSUME NEW S, NEW pipe \in Seq(S), pipe # <<>>, NEW x
  PROVE  /\ Tail(pipe) \in Seq(S) /\ Head(pipe) \in S
         /\ Says(pipe, x) <=> Head(pipe) = x \/ Says(Tail(pipe), x)
<1>1. /\ Len(pipe) \in Nat \ {0} /\ Head(pipe) \in S
      /\ Head(pipe) = pipe[1]
      /\ Tail(pipe) \in Seq(S) /\ Len(Tail(pipe)) = Len(pipe) - 1
      /\ \A i \in 1..Len(Tail(pipe)) : Tail(pipe)[i] = pipe[i+1]
  BY HeadTailProperties, EmptySeq
<1>2. \A i \in 1..Len(pipe) : i = 1 \/ (i-1 \in 1..Len(Tail(pipe)) /\ pipe[i] = Tail(pipe)[i-1])
  BY <1>1
<1> QED BY <1>1, <1>2 DEF Says

\* A step that writes nothing, and one whose line is not about a request.
LEMMA StillKeeps ==
  ASSUME PipeInv, UNCHANGED <<controllers, stdout, pending>>,
         \/ stdin' = stdin
         \/ \E m \in {<<"stop">>, <<"check">>, <<"retry">>} :
                stdin' = Append(stdin, m) /\ bridge \notin {"none", "gone"},
         \/ bridge' = bridge
         \/ bridge \notin {"none", "gone", "up"} /\ bridge' \notin {"none", "gone"}
  PROVE  PipeInv'
<1>1. stdin \in Seq(Controls) /\ stdout \in Seq(Lines) /\ Len(stdout) \in Nat
  BY LenProperties DEF PipeInv, PipeTypes
<1>2. /\ stdin' \in Seq(Controls)
      /\ \A r \in Requests : Says(stdin', <<"answer", r>>) => Says(stdin, <<"answer", r>>)
  <2>1. CASE stdin' = stdin
    BY <1>1, <2>1
  <2>2. CASE stdin' # stdin
    <3>1. PICK m \in {<<"stop">>, <<"check">>, <<"retry">>} : stdin' = Append(stdin, m)
      BY <2>2
    <3>2. m \in Controls /\ \A r \in Requests : <<"answer", r>> # m
      BY DEF Controls
    <3> QED BY <1>1, <3>1, <3>2, SaysAppend
  <2> QED BY <2>1, <2>2
<1>3. ASSUME NEW r \in Requests
      PROVE  RequestInv(r)'
  <2>1. RequestInv(r)
    BY DEF PipeInv
  <2>2. \A i \in Len(stdout)+1..Len(stdout') : stdout'[i] # <<"request", r>>
    BY <1>1
  <2>3. Says(stdin', <<"answer", r>>) => Says(stdin, <<"answer", r>>)
    BY <1>2
  <2> QED BY <1>1, <2>1, <2>2, <2>3, QuietKeeps
<1>4. PipeTypes' /\ AtItsEnds'
  BY <1>2 DEF PipeInv, PipeTypes, AtItsEnds
<1> QED BY <1>3, <1>4 DEF PipeInv

LEMMA WrittenKeeps ==
  ASSUME PipeInv, UNCHANGED <<controllers, stdin, pending>>,
         \E m \in {<<"ready">>, <<"health">>} : stdout' = Append(stdout, m),
         bridge \notin {"none", "gone"}, bridge' \notin {"none", "gone"},
         bridge' = bridge \/ bridge = "booting"
  PROVE  PipeInv'
<1>1. stdin \in Seq(Controls) /\ stdout \in Seq(Lines) /\ Len(stdout) \in Nat
  BY LenProperties DEF PipeInv, PipeTypes
<1>2. PICK m \in {<<"ready">>, <<"health">>} : stdout' = Append(stdout, m)
  OBVIOUS
<1>3. m \in Lines /\ \A r \in Requests : m # <<"request", r>>
  BY DEF Lines
<1>4. /\ stdout' \in Seq(Lines) /\ Len(stdout') = Len(stdout) + 1
      /\ \A i \in 1..Len(stdout) : stdout'[i] = stdout[i]
      /\ stdout'[Len(stdout) + 1] = m
  BY <1>1, <1>2, <1>3, AppendProperties
<1>5. ASSUME NEW r \in Requests
      PROVE  RequestInv(r)'
  <2>1. RequestInv(r)
    BY DEF PipeInv
  <2>2. \A i \in Len(stdout)+1..Len(stdout') : stdout'[i] # <<"request", r>>
    BY <1>1, <1>3, <1>4
  <2>3. Says(stdin', <<"answer", r>>) => Says(stdin, <<"answer", r>>)
    OBVIOUS
  <2> QED BY <1>1, <1>4, <2>1, <2>2, <2>3, QuietKeeps
<1>6. PipeTypes' /\ AtItsEnds'
  BY <1>4 DEF PipeInv, PipeTypes, AtItsEnds
<1> QED BY <1>5, <1>6 DEF PipeInv

\* An IDE request: its name is in neither pipe.
LEMMA IdeRequestKeeps ==
  ASSUME PipeInv, NEW q \in Requests, IdeRequest(q)
  PROVE  PipeInv'
<1>1. stdin \in Seq(Controls) /\ stdout \in Seq(Lines) /\ Len(stdout) \in Nat /\ Len(stdin) \in Nat
  BY LenProperties DEF PipeInv, PipeTypes
<1>2. /\ bridge = "up" /\ q \notin pending /\ q \notin controllers
      /\ pending' = pending \cup {q} /\ stdout' = Append(stdout, <<"request", q>>)
      /\ UNCHANGED <<bridge, controllers, stdin>>
  BY DEF IdeRequest, Write
<1>3. DOMAIN stdin = 1..Len(stdin) /\ DOMAIN stdout = 1..Len(stdout)
  BY <1>1
<1>4. ~Says(stdin, <<"answer", q>>) /\ ~Says(stdout, <<"request", q>>)
  BY <1>3 DEF IdeRequest, Mentions, Range, Says
<1>5. <<"request", q>> \in Lines
  BY DEF Lines
<1>6. /\ stdout' \in Seq(Lines) /\ Len(stdout') = Len(stdout) + 1
      /\ \A i \in 1..Len(stdout) : stdout'[i] = stdout[i]
      /\ stdout'[Len(stdout) + 1] = <<"request", q>>
  BY <1>1, <1>2, <1>5, AppendProperties
<1>7. ASSUME NEW r \in Requests, r # q
      PROVE  RequestInv(r)'
  <2>1. RequestInv(r)
    BY DEF PipeInv
  <2>2. \A i \in Len(stdout)+1..Len(stdout') : stdout'[i] # <<"request", r>>
    BY <1>1, <1>6, <1>7
  <2>3. Says(stdin', <<"answer", r>>) => Says(stdin, <<"answer", r>>)
    BY <1>2
  <2>4. Len(stdout') \in Nat /\ Len(stdout') >= Len(stdout)
    BY <1>1, <1>6
  <2>5. (r \in pending => r \in pending') /\ (r \in controllers' => r \in controllers)
        /\ bridge' = bridge
    BY <1>2
  <2> QED BY <1>1, <1>6, <2>1, <2>2, <2>3, <2>4, <2>5, QuietKeeps
<1>8. RequestInv(q)'
  <2>1. \A i \in 1..Len(stdout') : stdout'[i] = <<"request", q>> => i = Len(stdout) + 1
    BY <1>1, <1>4, <1>6 DEF Says
  <2> QED BY <1>2, <1>4, <2>1 DEF RequestInv
<1>9. IsFiniteSet(pending')
  BY <1>2, FS_AddElement DEF PipeInv, PipeTypes
<1>10. PipeTypes' /\ AtItsEnds'
  BY <1>2, <1>6, <1>9 DEF PipeInv, PipeTypes, AtItsEnds
<1> QED BY <1>7, <1>8, <1>10 DEF PipeInv

LEMMA IdeGivesUpKeeps ==
  ASSUME PipeInv, NEW q \in Requests, IdeGivesUp(q)
  PROVE  PipeInv'
<1>1. stdin \in Seq(Controls) /\ stdout \in Seq(Lines) /\ Len(stdout) \in Nat
  BY LenProperties DEF PipeInv, PipeTypes
<1>2. /\ pending' = pending \ {q} /\ stdout' = Append(stdout, <<"cancel", q>>) /\ q \in pending
      /\ UNCHANGED <<bridge, controllers, stdin>>
  BY DEF IdeGivesUp, Write
<1>3. <<"cancel", q>> \in Lines
  BY DEF Lines
<1>4. /\ stdout' \in Seq(Lines) /\ Len(stdout') = Len(stdout) + 1
      /\ \A i \in 1..Len(stdout) : stdout'[i] = stdout[i]
      /\ stdout'[Len(stdout) + 1] = <<"cancel", q>>
  BY <1>1, <1>2, <1>3, AppendProperties
<1>5. ASSUME NEW r \in Requests
      PROVE  RequestInv(r)'
  <2>1. RequestInv(r)
    BY DEF PipeInv
  <2>2. \A i \in Len(stdout)+1..Len(stdout') : stdout'[i] # <<"request", r>>
    BY <1>1, <1>4
  <2>3. Says(stdin', <<"answer", r>>) => Says(stdin, <<"answer", r>>)
    BY <1>2
  <2>4. \/ r \in pending => r \in pending'
        \/ \E j \in Len(stdout)+1..Len(stdout') : stdout'[j] = <<"cancel", r>>
    BY <1>1, <1>2, <1>4
  <2>5. Len(stdout') \in Nat /\ Len(stdout') >= Len(stdout)
    BY <1>1, <1>4
  <2>6. r \in controllers' => r \in controllers
    BY <1>2
  <2>7. bridge' = bridge
    BY <1>2
  <2>8. \A i \in 1..Len(stdout) : stdout'[i] = stdout[i]
    BY <1>4
  <2> QED BY <1>1, <2>1, <2>2, <2>3, <2>4, <2>5, <2>6, <2>7, <2>8, QuietKeeps
<1>6. IsFiniteSet(pending')
  BY <1>2, FS_RemoveElement DEF PipeInv, PipeTypes
<1>7. PipeTypes' /\ AtItsEnds'
  BY <1>2, <1>4, <1>6 DEF PipeInv, PipeTypes, AtItsEnds
<1> QED BY <1>5, <1>7 DEF PipeInv

LEMMA AdapterAnswersKeeps ==
  ASSUME PipeInv, NEW q \in Requests, AdapterAnswers(q)
  PROVE  PipeInv'
<1>1. stdin \in Seq(Controls) /\ stdout \in Seq(Lines) /\ Len(stdout) \in Nat
  BY LenProperties DEF PipeInv, PipeTypes
<1>2. /\ q \in controllers /\ controllers' = controllers \ {q}
      /\ IF bridge = "gone" THEN stdin' = stdin ELSE stdin' = Append(stdin, <<"answer", q>>)
      /\ UNCHANGED <<bridge, stdout, pending>>
  BY DEF AdapterAnswers, Tell
<1>3. <<"answer", q>> \in Controls
  BY DEF Controls
<1>4. /\ stdin' \in Seq(Controls)
      /\ \A r \in Requests : Says(stdin', <<"answer", r>>) => Says(stdin, <<"answer", r>>) \/ r = q
  <2>1. CASE bridge = "gone"
    BY <1>1, <1>2, <2>1
  <2>2. CASE bridge # "gone"
    <3>1. stdin' = Append(stdin, <<"answer", q>>)
      BY <1>2, <2>2
    <3>2. \A x : Says(stdin', x) => Says(stdin, x) \/ x = <<"answer", q>>
      BY <1>1, <1>3, <3>1, SaysAppend
    <3>3. stdin' \in Seq(Controls)
      BY <1>1, <1>3, <3>1
    <3> QED BY <3>2, <3>3
  <2> QED BY <2>1, <2>2
<1>5. ASSUME NEW r \in Requests
      PROVE  RequestInv(r)'
  <2>1. RequestInv(r)
    BY DEF PipeInv
  <2>2. \A i \in Len(stdout)+1..Len(stdout') : stdout'[i] # <<"request", r>>
    BY <1>1, <1>2
  <2>3. \/ Says(stdin', <<"answer", r>>) => Says(stdin, <<"answer", r>>)
        \/ r \notin controllers' /\ r \in controllers
    BY <1>2, <1>4
  <2> QED BY <1>1, <1>2, <2>1, <2>2, <2>3, QuietKeeps
<1>6. PipeTypes' /\ AtItsEnds'
  BY <1>2, <1>4 DEF PipeInv, PipeTypes, AtItsEnds
<1> QED BY <1>5, <1>6 DEF PipeInv

\* A line of the Bridge reaches the extension.
LEMMA OnLineKeeps ==
  ASSUME PipeInv, OnLine
  PROVE  PipeInv'
<1> DEFINE line == Head(stdout)
<1>1. /\ stdin \in Seq(Controls) /\ stdout \in Seq(Lines) /\ stdout # <<>> /\ stdout' = Tail(stdout)
      /\ UNCHANGED <<bridge, stdin, pending>>
  BY DEF PipeInv, PipeTypes, OnLine
<1>2. /\ line \in Lines /\ line = stdout[1] /\ Len(stdout) \in Nat \ {0}
      /\ stdout' \in Seq(Lines) /\ Len(stdout') = Len(stdout) - 1
      /\ \A i \in 1..Len(stdout') : stdout'[i] = stdout[i+1]
  BY <1>1, HeadTailProperties, EmptySeq
<1>3. /\ \A r \in Requests : line = <<"request", r>> => controllers' = controllers \cup {r}
      /\ \A r \in Requests : line = <<"cancel", r>> => controllers' = controllers \ {r}
      /\ line \in {<<"ready">>, <<"health">>} => controllers' = controllers
  <2>1. CASE line[1] = "ready"
    BY <1>2, <2>1 DEF OnLine
  <2>2. CASE line[1] = "health"
    BY <1>2, <2>2 DEF OnLine
  <2>3. CASE line[1] \notin {"ready", "health"}
    <3>1. controllers' = IF line[1] = "request" THEN controllers \cup {line[2]}
                                                ELSE controllers \ {line[2]}
      BY <2>3 DEF OnLine
    <3> QED BY <2>3, <3>1
  <2> QED BY <2>1, <2>2, <2>3
<1>4. ASSUME NEW r \in Requests
      PROVE  /\ line = <<"request", r>> => r \in controllers'
             /\ line = <<"cancel", r>> => r \notin controllers'
             /\ line \notin {<<"request", r>>, <<"cancel", r>>} =>
                    (r \in controllers' <=> r \in controllers)
  BY <1>2, <1>3 DEF Lines
<1>5. controllers' \subseteq Requests
  BY <1>2, <1>3 DEF Lines, PipeInv, PipeTypes
<1>6. ASSUME NEW r \in Requests
      PROVE  RequestInv(r)'
  <2>0. RequestInv(r)
    BY DEF PipeInv
  <2>1. \A i \in 0..Len(stdout') : Followed(r, i+1) => Followed(r, i)'
    <3>1. ASSUME NEW i \in 0..Len(stdout'), NEW j \in 1..Len(stdout), j > i + 1,
                 stdout[j] = <<"cancel", r>>
          PROVE  j-1 \in 1..Len(stdout') /\ j-1 > i /\ stdout'[j-1] = <<"cancel", r>>
      BY <1>2, <3>1
    <3> QED BY <3>1 DEF Followed
  <2>2. ASSUME NEW i \in 1..Len(stdout'), stdout'[i] = <<"request", r>>
        PROVE  /\ r \in pending' \/ Followed(r, i)' \/ bridge' = "gone"
               /\ r \notin controllers'
               /\ \A j \in 1..Len(stdout') : stdout'[j] = <<"request", r>> => i = j
               /\ ~Says(stdin', <<"answer", r>>)
    <3>1. i+1 \in 1..Len(stdout) /\ stdout[i+1] = <<"request", r>>
      BY <1>2, <2>2
    <3>2. /\ r \in pending \/ Followed(r, i+1) \/ bridge = "gone"
          /\ r \notin controllers
          /\ \A j \in 1..Len(stdout) : stdout[j] = <<"request", r>> => i+1 = j
          /\ ~Says(stdin, <<"answer", r>>)
      BY <2>0, <3>1 DEF RequestInv
    <3>3. line # <<"request", r>>
      BY <1>2, <3>1, <3>2
    <3>4. r \notin controllers'
      BY <1>4, <3>2, <3>3
    <3>5. ASSUME NEW j \in 1..Len(stdout'), stdout'[j] = <<"request", r>>
          PROVE  i = j
      <4>1. j+1 \in 1..Len(stdout) /\ stdout[j+1] = <<"request", r>>
        BY <1>2, <3>5
      <4> QED BY <3>2, <4>1
    <3> QED BY <1>1, <2>1, <3>2, <3>4, <3>5
  <2>3. Says(stdin', <<"answer", r>>) => r \notin controllers'
    <3>1. line = <<"request", r>> => ~Says(stdin, <<"answer", r>>)
      <4>1. 1 \in 1..Len(stdout) /\ line = stdout[1]
        BY <1>2
      <4> QED BY <2>0, <4>1 DEF RequestInv
    <3> QED BY <1>1, <1>4, <2>0, <3>1 DEF RequestInv
  <2>4. r \in controllers' => r \in pending' \/ Followed(r, 0)' \/ bridge' = "gone"
    <3>1. CASE line = <<"request", r>>
      <4>1. 1 \in 1..Len(stdout) /\ stdout[1] = <<"request", r>>
        BY <1>2, <3>1
      <4>2. r \in pending \/ Followed(r, 1) \/ bridge = "gone"
        BY <2>0, <4>1 DEF RequestInv
      <4> QED BY <1>1, <1>2, <2>1, <4>2
    <3>2. CASE line # <<"request", r>> /\ line # <<"cancel", r>>
      <4>1. Followed(r, 0) => Followed(r, 1)
        BY <1>2, <3>2 DEF Followed
      <4> QED BY <1>1, <1>2, <1>4, <2>0, <2>1, <3>2, <4>1 DEF RequestInv
    <3> QED BY <1>4, <3>1, <3>2
  <2> QED BY <2>2, <2>3, <2>4 DEF RequestInv
<1>7. PipeTypes' /\ AtItsEnds'
  BY <1>1, <1>2, <1>5 DEF PipeInv, PipeTypes, AtItsEnds
<1> QED BY <1>6, <1>7 DEF PipeInv

\* The pipes are those of a new process, or nobody is left at one of their ends.
LEMMA LaunchKeeps ==
  ASSUME HostInv, PipeInv, Launch
  PROVE  PipeInv'
<1>1. bridge = "none" /\ UNCHANGED <<controllers, pending>>
  BY DEF HostInv, Launch
<1>2. controllers = {} /\ stdin = <<>> /\ stdout = <<>> /\ pending = {}
  BY <1>1 DEF PipeInv, AtItsEnds
<1>3. bridge' \in {"none", "booting"} /\ stdin' = <<>> /\ stdout' = <<>>
  BY <1>1, <1>2 DEF Launch
<1>4. \A r \in Requests : RequestInv(r)'
  BY <1>1, <1>2, <1>3 DEF RequestInv, Says
<1>5. PipeTypes' /\ AtItsEnds'
  BY <1>1, <1>2, <1>3 DEF PipeInv, PipeTypes, AtItsEnds
<1> QED BY <1>4, <1>5 DEF PipeInv

LEMMA BridgeExitKeeps ==
  ASSUME PipeInv, BridgeExit
  PROVE  PipeInv'
<1>1. bridge = "gone" /\ bridge' = "none" /\ controllers' = {} /\ stdout' = <<>>
      /\ UNCHANGED <<stdin, pending>>
  BY DEF BridgeExit
<1>2. stdin = <<>> /\ pending = {}
  BY <1>1 DEF PipeInv, AtItsEnds
<1>3. \A r \in Requests : RequestInv(r)'
  BY <1>1, <1>2 DEF RequestInv, Says
<1>4. PipeTypes' /\ AtItsEnds'
  BY <1>1, <1>2 DEF PipeInv, PipeTypes, AtItsEnds
<1> QED BY <1>3, <1>4 DEF PipeInv

LEMMA ProcessEndKeeps ==
  ASSUME PipeInv, TreeKilled \/ Crash \/ Exit
  PROVE  PipeInv'
<1>1. bridge' = "gone" /\ stdin' = <<>> /\ stdout' = stdout /\ controllers' = controllers
  BY DEF TreeKilled, Crash, Exit
<1>2. pending' = {}
  BY DEF TreeKilled, Crash, Exit, PipeInv, AtItsEnds
<1>3. ASSUME NEW r \in Requests
      PROVE  RequestInv(r)'
  <2>1. RequestInv(r) /\ ~Says(stdin', <<"answer", r>>)
    BY <1>1 DEF PipeInv, Says
  <2> QED BY <1>1, <2>1 DEF RequestInv
<1>4. IsFiniteSet(pending') /\ stdin' \in Seq(Controls)
  BY <1>1, <1>2, FS_EmptySet
<1>5. PipeTypes' /\ AtItsEnds'
  BY <1>1, <1>2, <1>4 DEF PipeInv, PipeTypes, AtItsEnds
<1> QED BY <1>3, <1>5 DEF PipeInv

\* What the Bridge reads: a stop ends all requests and tells the editor of each, an answer
\* ends one.
LEMMA StopReadKeeps ==
  ASSUME PipeInv, stdin' \in Seq(Controls), UNCHANGED controllers,
         \A r \in Requests : Says(stdin', <<"answer", r>>) => Says(stdin, <<"answer", r>>),
         bridge = "up", bridge' = "draining", CloseBroker
  PROVE  PipeInv'
<1> DEFINE notices == SetToSeq({<<"cancel", r>> : r \in pending})
<1>1. /\ stdout \in Seq(Lines) /\ Len(stdout) \in Nat /\ pending' = {} /\ stdout' = stdout \o notices
      /\ pending \subseteq Requests
  BY LenProperties DEF PipeInv, PipeTypes, CloseBroker
<1>2. notices \in Seq({"cancel"} \X pending) /\ \A r \in pending : Says(notices, <<"cancel", r>>)
  BY Notices DEF PipeInv, PipeTypes
<1>3. {"cancel"} \X pending \subseteq Lines
  BY <1>1 DEF Lines
<1>4. notices \in Seq(Lines) /\ Len(notices) \in Nat
  BY <1>2, <1>3, SeqMonotonic, LenProperties
<1> HIDE DEF notices
<1>5. /\ stdout' \in Seq(Lines) /\ Len(stdout') = Len(stdout) + Len(notices)
      /\ \A i \in 1..Len(stdout) + Len(notices) :
            stdout'[i] = IF i <= Len(stdout) THEN stdout[i] ELSE notices[i - Len(stdout)]
  BY <1>1, <1>4, ConcatProperties
<1>6. ASSUME NEW r \in Requests
      PROVE  RequestInv(r)'
  <2>1. RequestInv(r)
    BY DEF PipeInv
  <2>2. ASSUME NEW i \in Len(stdout)+1..Len(stdout')
        PROVE  stdout'[i] # <<"request", r>>
    <3>1. i - Len(stdout) \in 1..Len(notices) /\ stdout'[i] = notices[i - Len(stdout)]
      BY <1>1, <1>4, <1>5
    <3>2. notices[i - Len(stdout)] \in {"cancel"} \X pending
      BY <1>2, <3>1, ElementOfSeq
    <3> QED BY <3>1, <3>2
  <2>3. ASSUME r \in pending
        PROVE  \E j \in Len(stdout)+1..Len(stdout') : stdout'[j] = <<"cancel", r>>
    <3>1. PICK k \in 1..Len(notices) : notices[k] = <<"cancel", r>>
      BY <1>2, <2>3 DEF Says
    <3>2. Len(stdout) + k \in Len(stdout)+1..Len(stdout') /\ stdout'[Len(stdout) + k] = notices[k]
      BY <1>1, <1>4, <1>5
    <3> QED BY <3>1, <3>2
  <2>4. /\ Len(stdout') \in Nat /\ Len(stdout') >= Len(stdout)
        /\ \A i \in 1..Len(stdout) : stdout'[i] = stdout[i]
    BY <1>1, <1>4, <1>5
  <2>5. r \in controllers' => r \in controllers
    OBVIOUS
  <2> QED BY <1>1, <2>1, <2>2, <2>3, <2>4, <2>5, QuietKeeps
<1>7. PipeTypes' /\ AtItsEnds'
  BY <1>1, <1>5, FS_EmptySet DEF PipeInv, PipeTypes, AtItsEnds
<1> QED BY <1>6, <1>7 DEF PipeInv

LEMMA ReadLinePipes ==
  ASSUME PipeInv, ReadLine
  PROVE  PipeInv'
<1> DEFINE line == Head(stdin)
<1>1. /\ stdin \in Seq(Controls) /\ stdout \in Seq(Lines) /\ Len(stdout) \in Nat
      /\ bridge \in {"up", "draining", "untunnelling", "closing"}
      /\ stdin # <<>> /\ stdin' = Tail(stdin) /\ controllers' = controllers
  BY LenProperties DEF PipeInv, PipeTypes, ReadLine
<1>2. /\ line \in Controls /\ stdin' \in Seq(Controls)
      /\ \A x : Says(stdin, x) <=> line = x \/ Says(stdin', x)
  BY <1>1, SaysTail
<1>3. \A r \in Requests : Says(stdin', <<"answer", r>>) => Says(stdin, <<"answer", r>>)
  BY <1>2
<1>4. ASSUME stdout' \in Seq(Lines), Len(stdout') >= Len(stdout), bridge' = bridge,
             \A i \in 1..Len(stdout) : stdout'[i] = stdout[i],
             \A r \in Requests : \A i \in Len(stdout)+1..Len(stdout') : stdout'[i] # <<"request", r>>,
             pending' \subseteq pending, IsFiniteSet(pending'),
             \A r \in pending : r \notin pending' => line = <<"answer", r>>
      PROVE  PipeInv'
  <2>1. ASSUME NEW r \in Requests
        PROVE  RequestInv(r)'
    <3>1. RequestInv(r) /\ Len(stdout') \in Nat
      BY <1>4, LenProperties DEF PipeInv
    <3>2. (r \in pending => r \in pending') \/ Says(stdin, <<"answer", r>>)
      BY <1>2, <1>4
    <3>3. /\ \A i \in Len(stdout)+1..Len(stdout') : stdout'[i] # <<"request", r>>
          /\ r \in controllers' => r \in controllers
          /\ Says(stdin', <<"answer", r>>) => Says(stdin, <<"answer", r>>)
      BY <1>1, <1>3, <1>4
    <3> QED BY <1>1, <1>4, <3>1, <3>2, <3>3, QuietKeeps
  <2>2. PipeTypes' /\ AtItsEnds'
    BY <1>1, <1>2, <1>4 DEF PipeInv, PipeTypes, AtItsEnds
  <2> QED BY <2>1, <2>2 DEF PipeInv
<1>5. CASE UNCHANGED <<bridge, stdout>> /\ pending' \subseteq pending
           /\ \A r \in pending : r \notin pending' => line = <<"answer", r>>
  <2>1. IsFiniteSet(pending')
    BY <1>5, FS_Subset DEF PipeInv, PipeTypes
  <2>2. \A r \in Requests : \A i \in Len(stdout)+1..Len(stdout') : stdout'[i] # <<"request", r>>
    BY <1>1, <1>5
  <2> QED BY <1>1, <1>4, <1>5, <2>1, <2>2
<1>6. CASE line[1] = "stop"
  <2>1. CASE bridge = "up"
    <3>1. bridge' = "draining" /\ CloseBroker
      BY <1>6, <2>1 DEF ReadLine
    <3> QED BY <1>1, <1>2, <1>3, <2>1, <3>1, StopReadKeeps
  <2>2. CASE bridge # "up"
    BY <1>5, <1>6, <2>2 DEF ReadLine
  <2> QED BY <2>1, <2>2
<1>7. CASE line[1] = "check"
  <2>1. UNCHANGED <<bridge, pending>> /\ (stdout' = stdout \/ stdout' = Append(stdout, <<"health">>))
    BY <1>7 DEF ReadLine, Write
  <2>2. CASE stdout' = stdout
    BY <1>5, <2>1, <2>2
  <2>3. CASE stdout' = Append(stdout, <<"health">>)
    <3>1. <<"health">> \in Lines /\ \A r \in Requests : <<"health">> # <<"request", r>>
      BY DEF Lines
    <3>2. /\ stdout' \in Seq(Lines) /\ Len(stdout') = Len(stdout) + 1
          /\ \A i \in 1..Len(stdout) : stdout'[i] = stdout[i]
          /\ stdout'[Len(stdout) + 1] = <<"health">>
      BY <1>1, <2>3, <3>1, AppendProperties
    <3>3. \A r \in Requests : \A i \in Len(stdout)+1..Len(stdout') : stdout'[i] # <<"request", r>>
      BY <1>1, <3>1, <3>2
    <3>4. IsFiniteSet(pending')
      BY <2>1 DEF PipeInv, PipeTypes
    <3> QED BY <1>1, <1>4, <2>1, <3>2, <3>3, <3>4
  <2> QED BY <2>1, <2>2, <2>3
<1>8. CASE line[1] = "retry"
  BY <1>5, <1>8 DEF ReadLine
<1>9. CASE line[1] \notin {"stop", "check", "retry"}
  <2>1. PICK r \in Requests : line = <<"answer", r>>
    BY <1>2, <1>9 DEF Controls
  <2>2. pending' = pending \ {r} /\ UNCHANGED <<bridge, stdout>>
    BY <1>9, <2>1 DEF ReadLine
  <2> QED BY <1>5, <2>1, <2>2
<1> QED BY <1>6, <1>7, <1>8, <1>9

LEMMA PipesInit == Init => PipeInv
<1> SUFFICES ASSUME Init PROVE PipeInv
  OBVIOUS
<1>1. stdin = <<>> /\ stdout = <<>> /\ controllers = {} /\ pending = {} /\ bridge = "none"
  BY DEF Init, TunnelInit
<1> QED BY <1>1, FS_EmptySet DEF PipeInv, PipeTypes, AtItsEnds, RequestInv, Says

\* A check is under way only in a process that is there.
ProbeInv == bridge \in {"none", "booting", "gone"} => ~probe

LEMMA ProbeKeeps == HostInv /\ ProbeInv /\ [Next]_vars => ProbeInv'
<1> SUFFICES ASSUME HostInv, ProbeInv, [Next]_vars, bridge' \in {"none", "booting", "gone"}
             PROVE  ~probe'
  BY DEF ProbeInv
<1>1. CASE UNCHANGED <<bridge, probe>>
  BY <1>1, Zenon DEF ProbeInv
<1>2. CASE StartBridge \/ Prepare \/ StopActiveBridge \/ OnLine \/ AskHealth \/ AskRetry
           \/ StartTimeout \/ StopTimeout \/ UNCHANGED vars
  BY <1>1, <1>2 DEF StartBridge, Prepare, StopActiveBridge, OnLine, AskHealth, AskRetry,
                    StartTimeout, StopTimeout
<1>3. CASE Launch \/ BridgeExit
  <2>1. bridge \in {"none", "gone"} /\ probe' = probe
    BY <1>3, Zenon DEF Launch, ForgetHelpers, BridgeExit, HostInv
  <2> QED BY <2>1, Zenon DEF ProbeInv
<1>4. CASE TreeKilled \/ Crash \/ Exit \/ ProbeEnds
  <2>1. probe' = FALSE
    BY Zenon, <1>4 DEF TreeKilled, Crash, Exit, TunnelGone, ProbeEnds,
                       Checked
  <2> QED BY <2>1, Zenon
<1>5. CASE (\E r \in Requests : AdapterAnswers(r) \/ IdeRequest(r)) \/ IdeTimers
  BY <1>1, <1>5 DEF AdapterAnswers, IdeRequest, IdeTimers, IdeGivesUp
<1>6. CASE Boot \/ ReadLine \/ Drained \/ TunnelIsStopped
  <2>1. bridge' \notin {"none", "booting", "gone"}
    BY <1>6 DEF Boot, ReadLine, Drained, TunnelStop, TunnelIsStopped, TunnelStopped
  <2> QED BY <2>1
<1>7. CASE TunnelThread \/ (\E h \in Helpers : HelperExit(h))
  <2>1. UNCHANGED <<bridge, probe>>
    BY <1>7 DEF TunnelThread, StartThread, Cleared, SpawnFails, SpawnReady, ProbingSucceeds,
                ProbingFails, KillWaitEnds, BackoffEnds, HelperExit, HelperExits
  <2> QED BY <1>1, <2>1
<1> QED BY <1>2, <1>3, <1>4, <1>5, <1>6, <1>7 DEF Next, ExtensionSteps, ClientReads, Timers

LEMMA PipesKeep == HostInv /\ ProbeInv /\ PipeInv /\ [Next]_vars => PipeInv'
<1> SUFFICES ASSUME HostInv, ProbeInv, PipeInv, [Next]_vars PROVE PipeInv'
  OBVIOUS
<1>1. CASE StartBridge \/ Prepare \/ StartTimeout \/ StopTimeout \/ UNCHANGED vars
  BY <1>1, StillKeeps DEF StartBridge, Prepare, StartTimeout, StopTimeout
<1>2. CASE StopActiveBridge \/ AskHealth \/ AskRetry
  <2>1. UNCHANGED <<bridge, controllers, stdout, pending>>
    BY <1>2 DEF StopActiveBridge, AskHealth, AskRetry
  <2>2. \/ stdin' = stdin
        \/ \E m \in {<<"stop">>, <<"check">>, <<"retry">>} :
               stdin' = Append(stdin, m) /\ bridge \notin {"none", "gone"}
    BY <1>2 DEF StopActiveBridge, AskHealth, AskRetry, Tell
  <2> QED BY <2>1, <2>2, StillKeeps
<1>3. CASE TunnelThread \/ Drained \/ TunnelIsStopped \/ (\E h \in Helpers : HelperExit(h))
  <2>1. UNCHANGED <<controllers, stdin, stdout, pending>>
    BY <1>3 DEF TunnelThread, Drained, TunnelIsStopped, HelperExit
  <2>2. \/ bridge' = bridge
        \/ bridge \notin {"none", "gone", "up"} /\ bridge' \notin {"none", "gone"}
    BY <1>3 DEF TunnelThread, StartThread, Cleared, SpawnFails, SpawnReady, ProbingSucceeds,
                ProbingFails, KillWaitEnds, BackoffEnds, Drained, TunnelStop, TunnelIsStopped,
                TunnelStopped, HelperExit, HelperExits
  <2> QED BY <2>1, <2>2, StillKeeps
<1>4. CASE Boot
  BY <1>4, WrittenKeeps DEF Boot, Write
<1>5. CASE ProbeEnds
  <2>1. probe /\ bridge' = bridge /\ stdout' = Append(stdout, <<"health">>)
        /\ UNCHANGED <<controllers, stdin, pending>>
    BY <1>5 DEF ProbeEnds, Checked, Write
  <2>2. bridge \notin {"none", "gone"}
    BY <2>1 DEF ProbeInv
  <2> QED BY <2>1, <2>2, WrittenKeeps
<1>6. CASE Launch \/ BridgeExit
  BY <1>6, LaunchKeeps, BridgeExitKeeps
<1>7. CASE TreeKilled \/ Crash \/ Exit
  BY <1>7, ProcessEndKeeps
<1>8. CASE ReadLine
  BY <1>8, ReadLinePipes
<1>9. CASE OnLine
  BY <1>9, OnLineKeeps
<1>10. CASE (\E r \in Requests : AdapterAnswers(r) \/ IdeRequest(r)) \/ IdeTimers
  BY <1>10, AdapterAnswersKeeps, IdeRequestKeeps, IdeGivesUpKeeps DEF IdeTimers
<1> QED BY <1>1, <1>2, <1>3, <1>4, <1>5, <1>6, <1>7, <1>8, <1>9, <1>10
        DEF Next, ExtensionSteps, ClientReads, Timers

LEMMA ClientInvariance == Spec => [](SwitchesOK /\ ProbeInv /\ PipeInv)
<1>1. Init => ProbeInv
  BY Zenon DEF Init, TunnelInit, ProbeInv
<1>2. Init => SwitchesOK /\ ProbeInv /\ PipeInv
  BY <1>1, SwitchesInit, PipesInit
<1>3. HostInv /\ SwitchesOK /\ ProbeInv /\ PipeInv /\ [Next]_vars
          => (SwitchesOK /\ ProbeInv /\ PipeInv)'
  BY SwitchesKeep, ProbeKeeps, PipesKeep
<1> QED BY <1>2, <1>3, Invariance, PTL DEF Spec

\* Every variable has its type; what a Bridge that is gone held is gone with it
\* (BridgeClient's exit handlers, BridgeIdeBroker and BridgeTunnelManager).
THEOREM TypeCorrect == Spec => []TypeOK
<1>1. HostInv /\ SwitchesOK /\ PipeInv => TypeOK
  <2> SUFFICES ASSUME HostInv, SwitchesOK, PipeInv PROVE TypeOK
    OBVIOUS
  <2>1. /\ bridge \in {"none", "gone"} => stdin = <<>> /\ pending = {} /\ start = "no"
        /\ controllers \subseteq Requests /\ pending \subseteq Requests
        /\ TunnelTypeOK /\ (stopping # "no" => bridge # "none")
    BY DEF HostInv, TunnelInv, AtItsStage, PipeInv, PipeTypes, AtItsEnds
  <2> QED BY <2>1, Zenon DEF SwitchesOK, TypeOK
<1> QED BY <1>1, Invariance, ClientInvariance, PTL

\* Whichever of the timer, the caller, a stop, an answer or an exit ends an IDE request, and
\* in whatever order that meets the lines that are still unread, the editor has been told to
\* leave off or will read it (BridgeIdeBroker in bridge-ide.ts, ideControllers in
\* bridgeClient.ts).
THEOREM NoWorkIsForgotten == Spec => []NoForgottenWork
<1>1. PipeInv => NoForgottenWork
  <2> SUFFICES ASSUME PipeInv, NEW r \in controllers, r \notin pending, bridge # "gone"
               PROVE  <<"cancel", r>> \in Range(stdout)
    BY DEF NoForgottenWork
  <2>1. Followed(r, 0) /\ stdout \in Seq(Lines)
    BY DEF PipeInv, PipeTypes, RequestInv
  <2>2. DOMAIN stdout = 1..Len(stdout)
    BY <2>1, LenProperties
  <2> QED BY <2>1, <2>2 DEF Followed, Range
<1> QED BY <1>1, ClientInvariance, PTL
=============================================================================
