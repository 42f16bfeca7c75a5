----------------------------- MODULE BridgeHost -----------------------------
(***************************************************************************)
(* The extension and its Bridge: startBridge and stopActiveBridge          *)
(* (extension.ts) drive BridgeClient (bridgeClient.ts), which spawns the   *)
(* Bridge process (serveBridgeFromArgv) and talks to it through two pipes. *)
(* The tunnel of that process is BridgeTunnel; its IDE requests            *)
(* (bridge-ide.ts) travel back to the extension, which may take its time   *)
(* or never answer.                                                        *)
(*                                                                         *)
(* BridgeClient.child is there from the spawn until the exit is reported,  *)
(* that is, while bridge # "none".  The platform is Windows, where a       *)
(* forced stop has taskkill kill the process tree.  The tree is gone       *)
(* within the 2.5 seconds forceKillTree waits for it.                      *)
(***************************************************************************)
EXTENDS BridgeTunnel, SequencesExt

CONSTANTS
    Requests,      \* IDE requests there are at a time
    MaxPipe        \* bound: messages unread when the panel or an IDE request sends one more

VARIABLES
    starting,      \* startBridge: "preparing" can be cancelled; "resolving" no longer;
                   \* "waiting" for bridge.ready; "killing" after the start timeout
    cancelled,     \* bridgeStartCancelled
    stopping,      \* BridgeClient.stopPromise, and with it bridgeStopPending
    ready,         \* bridgeReady is set
    checking,      \* mcpHealthStartedAt is set
    controllers,   \* ideControllers: requests the adapter works on
    stdin, stdout, \* the pipes
    pending        \* BridgeIdeBroker.pending

hostVars == <<starting, cancelled, stopping, ready, checking, controllers, stdin>>
pipeVars == <<stdin, stdout>>
vars == <<bridge, tunnelVars, hostVars, stdout, pending>>

Init ==
    /\ TunnelInit
    /\ starting = "no" /\ cancelled = FALSE /\ stopping = "no"
    /\ ready = FALSE /\ checking = FALSE /\ controllers = {}
    /\ stdin = <<>> /\ stdout = <<>> /\ pending = {}

Tell(message) == stdin' = Append(stdin, message)     \* sendControl
Write(message) == stdout' = Append(stdout, message)

-----------------------------------------------------------------------------
(* startBridge and BridgeClient.start. *)

\* The guards leave BridgeClient.start no child to stop first.
StartBridge ==
    /\ starting = "no" /\ stopping = "no" /\ bridge = "none"
    /\ starting' = "preparing" /\ cancelled' = FALSE
    /\ UNCHANGED <<bridge, tunnelVars, stopping, ready, checking, controllers, pipeVars,
                   pending>>

\* The bug "the cancellation of one start is seen by the next".
Prepare_KeepsCancelled ==
    /\ starting = "preparing"
    /\ \/ starting' = "no"
       \/ ~cancelled /\ starting' = "resolving"
    /\ UNCHANGED <<bridge, tunnelVars, cancelled, stopping, ready, checking, controllers,
                   pipeVars, pending>>

\* Workspace, authorization, settings and dependency, each followed by the test for a
\* cancellation; any of them may throw.
Prepare ==
    /\ starting = "preparing"
    /\ \/ starting' = "no"
       \/ ~cancelled /\ starting' = "resolving"
    /\ cancelled' = (cancelled /\ starting' # "no")
    /\ UNCHANGED <<bridge, tunnelVars, stopping, ready, checking, controllers,
                   pipeVars, pending>>

\* The settings of the tunnel are resolved and the process is spawned.  A stop asked for
\* meanwhile is not looked at again.
Launch ==
    /\ starting = "resolving"
    /\ \/ /\ starting' = "no" /\ cancelled' = FALSE
          /\ UNCHANGED <<bridge, tunnelVars, pipeVars>>
       \/ /\ starting' = "waiting" /\ bridge' = "booting"
          /\ stdin' = <<>> /\ stdout' = <<>>
          /\ ForgetHelpers
          /\ UNCHANGED cancelled
    /\ UNCHANGED <<stopping, ready, checking, controllers, pending>>

\* No bridge.ready in time: finishReject closes the reader and has the tree killed.
StartTimeout ==
    /\ starting = "waiting"
    /\ starting' = "killing"
    /\ UNCHANGED <<bridge, tunnelVars, cancelled, stopping, ready, checking, controllers,
                   pipeVars, pending>>

\* forceKillTree has come to its end, whichever of the two waited for it.
TreeKilled ==
    /\ starting = "killing" \/ stopping = "killing"
    /\ bridge \notin {"none", "gone"} /\ bridge' = "gone"
    /\ helper' = Killed(Helpers)
    /\ TunnelGone
    /\ stdin' = <<>> /\ pending' = {}
    /\ UNCHANGED <<starting, cancelled, stopping, ready, checking, controllers, stdout>>

-----------------------------------------------------------------------------
(* stopActiveBridge, from the user, the watchdog, a logout or a rotation.  *)

StopActiveBridge ==
    /\ cancelled' = (cancelled \/ starting # "no")
    /\ IF stopping # "no" THEN UNCHANGED <<ready, checking, stopping, stdin>>
       ELSE /\ ready' = FALSE /\ checking' = FALSE
            /\ IF bridge = "none" THEN UNCHANGED <<stopping, stdin>>
               ELSE /\ stopping' = "asked"
                    /\ IF bridge = "gone" THEN UNCHANGED stdin ELSE Tell(<<"stop">>)
    /\ UNCHANGED <<bridge, tunnelVars, starting, controllers, stdout, pending>>

\* The bug "a stop that is not answered is waited for".
StopTimeout_Waits ==
    /\ stopping = "asked" /\ bridge \in {"none", "gone"}
    /\ stopping' = "killing"
    /\ UNCHANGED <<bridge, tunnelVars, starting, cancelled, ready, checking, controllers,
                   pipeVars, pending>>

StopTimeout ==
    /\ stopping = "asked"
    /\ stopping' = "killing"
    /\ UNCHANGED <<bridge, tunnelVars, starting, cancelled, ready, checking, controllers,
                   pipeVars, pending>>

\* The exit is reported, to start(), to stop() and to the requests of both directions.
BridgeExit ==
    /\ bridge = "gone" /\ bridge' = "none"
    /\ stopping' = "no"
    /\ IF starting \in {"waiting", "killing"}
       THEN starting' = "no" /\ cancelled' = FALSE
       ELSE UNCHANGED <<starting, cancelled>>
    /\ controllers' = {} /\ stdout' = <<>>
    /\ UNCHANGED <<tunnelVars, ready, checking, stdin, pending>>

-----------------------------------------------------------------------------
(* The panel's two requests about the tunnel, and the lines of the Bridge. *)

AskHealth ==
    /\ bridge # "none" /\ ~checking
    /\ Len(stdin) < MaxPipe
    /\ checking' = TRUE
    /\ IF bridge = "gone" THEN UNCHANGED stdin ELSE Tell(<<"check">>)
    /\ UNCHANGED <<bridge, tunnelVars, starting, cancelled, stopping, ready,
                   controllers, stdout, pending>>

AskRetry ==
    /\ bridge \notin {"none", "gone"} /\ ready
    /\ Len(stdin) < MaxPipe
    /\ Tell(<<"retry">>)
    /\ UNCHANGED <<bridge, tunnelVars, starting, cancelled, stopping, ready, checking,
                   controllers, stdout, pending>>

\* A line of the Bridge.  bridge.ready makes it the running one, even if it was asked to
\* stop meanwhile.
OnLine ==
    /\ starting # "killing"
    /\ stdout # <<>> /\ stdout' = Tail(stdout)
    /\ LET line == Head(stdout) IN
       CASE line[1] = "ready" ->
              /\ IF starting = "waiting"
                 THEN starting' = "no" /\ cancelled' = FALSE /\ ready' = TRUE
                 ELSE UNCHANGED <<starting, cancelled, ready>>
              /\ UNCHANGED <<checking, controllers>>
         [] line[1] = "health" ->
              checking' = FALSE /\ UNCHANGED <<starting, cancelled, ready, controllers>>
         [] OTHER ->
              /\ controllers' = IF line[1] = "request" THEN controllers \cup {line[2]}
                                                       ELSE controllers \ {line[2]}
              /\ UNCHANGED <<starting, cancelled, ready, checking>>
    /\ UNCHANGED <<bridge, tunnelVars, stopping, stdin, pending>>

\* The adapter is done, with a result or an error.  It may never be.
AdapterAnswers(r) ==
    /\ r \in controllers /\ controllers' = controllers \ {r}
    /\ IF bridge = "gone" THEN UNCHANGED stdin ELSE Tell(<<"answer", r>>)
    /\ UNCHANGED <<bridge, tunnelVars, starting, cancelled, stopping, ready, checking,
                   stdout, pending>>

-----------------------------------------------------------------------------
(* The Bridge process. *)

Boot ==
    /\ bridge = "booting" /\ bridge' = "up"
    /\ Write(<<"ready">>)
    /\ NewOperation
    /\ UNCHANGED <<child, probe, hostVars, pending>>

\* The process ends without having been asked to.
Crash ==
    /\ bridge \in {"booting", "up"} /\ bridge' = "gone"
    /\ LeaveHelpers("stray") /\ TunnelGone
    /\ stdin' = <<>> /\ pending' = {}
    /\ UNCHANGED <<starting, cancelled, stopping, ready, checking, controllers, stdout>>

\* stop(): the broker closes; the sessions, commands and connections are waited for.
CloseBroker ==
    /\ pending' = {}
    /\ stdout' = stdout \o SetToSeq({<<"cancel", r>> : r \in pending})

\* A line of stdin.
ReadLine ==
    /\ bridge \in {"up", "draining", "untunnelling", "closing"}
    /\ stdin # <<>> /\ stdin' = Tail(stdin)
    /\ LET line == Head(stdin) IN
       CASE line[1] = "stop" ->
              /\ IF bridge = "up" THEN bridge' = "draining" /\ CloseBroker
                                  ELSE UNCHANGED <<bridge, pending, stdout>>
              /\ UNCHANGED tunnelVars
         [] line[1] = "check" ->
              /\ CheckHealth
              /\ IF child = None THEN Write(<<"health">>) ELSE UNCHANGED stdout
              /\ UNCHANGED <<bridge, pending>>
         [] line[1] = "retry" -> ConnectPublicTunnel /\ UNCHANGED <<bridge, pending, stdout>>
         [] OTHER ->
              pending' = pending \ {line[2]} /\ UNCHANGED <<bridge, stdout, tunnelVars>>
    /\ UNCHANGED <<starting, cancelled, stopping, ready, checking, controllers>>

TunnelThread == StartThread /\ UNCHANGED <<hostVars, stdout, pending>>

ProbeEnds == Checked /\ Write(<<"health">>) /\ UNCHANGED <<hostVars, pending>>

HelperExit(h) == HelperExits(h) /\ UNCHANGED <<hostVars, stdout, pending>>

Drained ==
    /\ bridge = "draining"
    /\ TunnelStop
    /\ UNCHANGED <<hostVars, stdout, pending>>

TunnelIsStopped == TunnelStopped /\ UNCHANGED <<hostVars, stdout, pending>>

\* process.exit(0), once the connections are closed.
Exit ==
    /\ bridge = "closing" /\ bridge' = "gone"
    /\ LeaveHelpers("orphan") /\ TunnelGone
    /\ stdin' = <<>>
    /\ UNCHANGED <<starting, cancelled, stopping, ready, checking, controllers,
                   stdout, pending>>

-----------------------------------------------------------------------------
(* BridgeIdeBroker.  A request's id is its own: the name is free once no   *)
(* trace of it is left.                                                    *)

Mentions(pipe, r) ==
    Range(pipe) \cap {<<"request", r>>, <<"cancel", r>>, <<"answer", r>>} # {}

IdeRequest(r) ==
    /\ bridge = "up"
    /\ r \notin pending \cup controllers /\ Len(stdout) < MaxPipe
    /\ ~Mentions(stdin, r) /\ ~Mentions(stdout, r)
    /\ pending' = pending \cup {r}
    /\ Write(<<"request", r>>)
    /\ UNCHANGED <<bridge, tunnelVars, hostVars>>

\* The timer, or the caller's signal.
\* The bug "a timeout is only told to the caller".
IdeGivesUp_Silent(r) ==
    /\ r \in pending /\ pending' = pending \ {r}
    /\ UNCHANGED <<bridge, tunnelVars, hostVars, stdout>>

IdeGivesUp(r) ==
    /\ r \in pending /\ pending' = pending \ {r}
    /\ Write(<<"cancel", r>>)
    /\ UNCHANGED <<bridge, tunnelVars, hostVars>>

-----------------------------------------------------------------------------
IdeTimers == \E r \in Requests : IdeGivesUp(r)
ExtensionSteps == Prepare \/ Launch
ClientReads == OnLine \/ BridgeExit
Timers == StartTimeout \/ StopTimeout
KilledExit == \E h \in Helpers : helper[h] = "killed" /\ HelperExit(h)

Next ==
    \/ StartBridge \/ ExtensionSteps \/ StopActiveBridge \/ ClientReads \/ Timers
    \/ TreeKilled \/ AskHealth \/ AskRetry
    \/ \E r \in Requests : AdapterAnswers(r) \/ IdeRequest(r)
    \/ IdeTimers
    \/ Boot \/ Crash \/ ReadLine \/ TunnelThread \/ ProbeEnds
    \/ Drained \/ TunnelIsStopped \/ Exit
    \/ \E h \in Helpers : HelperExit(h)

Spec == Init /\ [][Next]_vars

\* Timers fire, taskkill kills, lines are read, and checks and the extension's own
\* requests have timeouts.  The Bridge may never be ready and never be done with closing.
FairSpec ==
    /\ Spec
    /\ WF_vars(ExtensionSteps) /\ WF_vars(ClientReads) /\ WF_vars(Timers)
    /\ WF_vars(TreeKilled) /\ WF_vars(ReadLine) /\ WF_vars(ProbeEnds) /\ WF_vars(IdeTimers)
    /\ WF_vars(KilledExit)

-----------------------------------------------------------------------------
\* Every variable has its type; a Bridge that is gone holds neither requests nor a start.
TypeOK ==
    /\ TunnelTypeOK
    /\ starting \in {"no", "preparing", "resolving", "waiting", "killing"}
    /\ cancelled \in BOOLEAN /\ (cancelled => starting # "no")
    /\ stopping \in {"no", "asked", "killing"} /\ (stopping # "no" => bridge # "none")
    /\ ready \in BOOLEAN /\ checking \in BOOLEAN
    /\ controllers \subseteq Requests /\ pending \subseteq Requests
    /\ bridge \in {"none", "gone"} => stdin = <<>> /\ pending = {} /\ start = "no"

\* The editor never works on behind the back of a request that is over: whichever of the
\* timer, the caller, a stop or the end of the Bridge ended it, the adapter has been told
\* or its notice is on the way.
NoForgottenWork ==
    \A r \in controllers :
        r \in pending \/ <<"cancel", r>> \in Range(stdout) \/ bridge = "gone"

CheckUnderWay == probe \/ <<"check">> \in Range(stdin) \/ <<"health">> \in Range(stdout)

\* A start ends, a stop ends with the process gone, a health check of the panel is
\* answered unless the Bridge ends, and so is an IDE request: although the Bridge may
\* hang in each of its stages and the editor may never answer.
HostSettles ==
    /\ []<>(starting = "no") /\ []<>(stopping = "no")
    /\ CheckUnderWay ~> ~checking \/ bridge = "gone"
    /\ \A r \in Requests : []<>(r \notin pending)
=============================================================================
