------------------------------ MODULE HubTasks ------------------------------
(***************************************************************************)
(* The callers of the Hub in one process: the web service (hub/            *)
(* web-server.mjs), which takes one operation at a time under `busy', the  *)
(* agents of a chat (hub/orchestrator.mjs), generators nested in each      *)
(* other that the chat handler pulls and abandons, the admin listener,     *)
(* which `busy' does not hold back, and the shutdown of hub/web.mjs.       *)
(*                                                                         *)
(* What an agent says and what a tool returns is not modelled; that it     *)
(* answers, asks for a tool, asks for a subagent or fails is.              *)
(***************************************************************************)
EXTENDS HubLinks, Sequences

CONSTANTS MaxAgents, MaxDepth, MaxRounds, MaxActions   \* the settings of a task

ASSUME TaskAssumption ==
    /\ MaxAgents \in Nat /\ MaxDepth \in Nat
    /\ MaxRounds \in Nat \ {0} /\ MaxActions \in Nat \ {0}

VARIABLES
    web,           \* the operation that holds `busy', or "idle"
    subject,       \* its link, or the limit it is saving
    connectionLink,      \* the link ChatGPT is connected to; 0: none
    setting,       \* maxActive of the saved settings
    webState,      \* close() of hub/web.mjs: where it stands
    chat,          \* the agents of the chat, the innermost last
    aborted,       \* the chat's AbortController fired
    actions, spawned,    \* the chat's budget
    executed,      \* history: actions the chat's agents carried out
    agentLinks, connectLinks,  \* history: links created for agents, for connections
    pageLost       \* history: links of agents whose closeAgent threw

budget == <<actions, spawned, executed>>
chatVars == <<chat, aborted, budget>>
origins == <<agentLinks, connectLinks, pageLost>>
webVars == <<web, subject, connectionLink, setting, webState, chatVars, origins>>
taskVars == <<linkVars, webVars>>

Settled(l) == phase[l] \notin {"starting", "failing"}
Closed(l) == phase[l] # "stopping"

(* The process goes on: a shutdown that fails takes it down at once. *)
Running == webState # "failed" /\ hub # "closed"

TaskInit ==
    /\ LinkInit
    /\ web = "idle" /\ subject = 0
    /\ connectionLink = 0
    /\ setting = maxActive
    /\ webState = "open"
    /\ chat = <<>> /\ aborted = FALSE
    /\ actions = 0 /\ spawned = 0 /\ executed = 0
    /\ agentLinks = {} /\ connectLinks = {} /\ pageLost = {}

Free == web = "idle" /\ webState = "open"
Become(op, s) == web' = op /\ subject' = s
Idle == Become("idle", 0)

----------------------------------------------------------------------------
(* Settings: configure, save, and the rollback that may itself be refused *)

SaveSettings(limit) ==
    /\ Free
    /\ Configure(limit)
    /\ Become("saving", limit)
    /\ UNCHANGED <<connectionLink, setting, webState, chatVars, origins>>

Saved ==
    /\ web = "saving"
    /\ setting' = subject
    /\ Idle
    /\ UNCHANGED <<linkVars, connectionLink, webState, chatVars, origins>>

(* A bug to catch: the lowered limit stays when it could not be saved. *)
SaveFails_NoRollback ==
    /\ web = "saving"
    /\ Idle
    /\ UNCHANGED <<linkVars, connectionLink, setting, webState, chatVars, origins>>

SaveFails ==
    /\ web = "saving"
    /\ \/ Configure(setting)
       \/ setting < InUse /\ UNCHANGED linkVars
    /\ Idle
    /\ UNCHANGED <<connectionLink, setting, webState, chatVars, origins>>

----------------------------------------------------------------------------
(* Links from the web page *)

WebCreate ==
    /\ Free
    /\ Create(FALSE)
    /\ Become("creating", NextLink)
    /\ UNCHANGED <<connectionLink, setting, webState, chatVars, origins>>

WebRevoke(l) ==
    /\ Free
    /\ Revoke(l)
    /\ Become("revoking", l)
    /\ UNCHANGED <<connectionLink, setting, webState, chatVars, origins>>

WebLinkDone ==
    /\ \/ web = "creating" /\ Settled(subject)
       \/ web = "revoking" /\ Closed(subject)
    /\ Idle
    /\ UNCHANGED <<linkVars, connectionLink, setting, webState, chatVars, origins>>

----------------------------------------------------------------------------
(* /api/connect *)

Connect ==
    /\ Free
    /\ Create(TRUE)
    /\ Become("connectCreate", NextLink)
    /\ connectLinks' = connectLinks \cup {NextLink}
    /\ UNCHANGED <<connectionLink, setting, webState, chatVars, agentLinks, pageLost>>

ConnectCreated ==
    /\ web = "connectCreate"
    /\ Settled(subject)
    /\ IF phase[subject] = "failed" THEN Idle ELSE Become("connecting", subject)
    /\ UNCHANGED <<linkVars, connectionLink, setting, webState, chatVars, origins>>

(* A bug to catch: a connection that failed keeps its new link. *)
Undo_KeepsLink == Idle /\ UNCHANGED linkVars

(* hub.revoke: the link is out of the table when the call returns; a link  *)
(* that is out of it already is not waited for.                            *)
Undo ==
    IF subject \in links THEN Revoke(subject) /\ Become("undoing", subject)
                         ELSE Idle /\ UNCHANGED linkVars

Connected ==
    /\ web = "connecting"
    /\ IF connectionLink \in links
       THEN Revoke(connectionLink) /\ Become("swapping", subject) /\ UNCHANGED connectionLink
       ELSE connectionLink' = subject /\ Idle /\ UNCHANGED linkVars
    /\ UNCHANGED <<setting, webState, chatVars, origins>>

ConnectFails ==
    /\ web = "connecting"
    /\ Undo
    /\ UNCHANGED <<connectionLink, setting, webState, chatVars, origins>>

(* The old link's worker is closed, or its close rejected: then the new    *)
(* link goes as well, and connectionLink keeps naming the old one.         *)
Swapped ==
    /\ web = "swapping"
    /\ Closed(connectionLink)
    /\ \/ connectionLink' = subject /\ Idle /\ UNCHANGED linkVars
       \/ Undo /\ UNCHANGED connectionLink
    /\ UNCHANGED <<setting, webState, chatVars, origins>>

Undone ==
    /\ web = "undoing"
    /\ Closed(subject)
    /\ Idle
    /\ UNCHANGED <<linkVars, connectionLink, setting, webState, chatVars, origins>>

----------------------------------------------------------------------------
(***************************************************************************)
(* A chat is a stack of agents.  An agent is at "create" (hub.create       *)
(* pending, its try not entered), "connect", "reply" (the model answers),  *)
(* "action" (a tool works), "child" (the agent above it on the stack       *)
(* works), "close" (closeAgent pending) or "revoke" (hub.revoke pending).  *)
(* `done': it gave its answer.                                             *)
(***************************************************************************)
Agent(l) == [link |-> l, at |-> "create", round |-> 0, done |-> FALSE]
Top == chat[Len(chat)]
At(place) == chat # <<>> /\ Top.at = place
Goto(place) == chat' = [chat EXCEPT ![Len(chat)].at = place]

(* The action's result is fed back: unless the task was cancelled (the     *)
(* handler stops pulling), a next round begins, if there is one.           *)
NextRound(agent) ==
    IF ~aborted /\ agent.round + 1 < MaxRounds
    THEN [agent EXCEPT !.at = "reply", !.round = @ + 1]
    ELSE [agent EXCEPT !.at = "close"]

(* The top agent's generator ends; an error reaches the parent's finally.  *)
Leave(ok) ==
    IF Len(chat) = 1
    THEN /\ chat' = <<>> /\ aborted' = FALSE
         /\ actions' = 0 /\ spawned' = 0 /\ executed' = 0
         /\ Idle
    ELSE /\ chat' = [i \in 1..(Len(chat) - 1) |->
                       IF i < Len(chat) - 1 THEN chat[i]
                       ELSE IF ok THEN NextRound(chat[i])
                       ELSE [chat[i] EXCEPT !.at = "close"]]
         /\ UNCHANGED <<aborted, budget, web, subject>>

NewAgent(agents) ==
    /\ Create(FALSE)
    /\ chat' = Append(agents, Agent(NextLink))
    /\ agentLinks' = agentLinks \cup {NextLink}
    /\ UNCHANGED <<connectLinks, pageLost>>

ChatBegins ==
    /\ Free
    /\ NewAgent(<<>>)
    /\ Become("chat", 0)
    /\ UNCHANGED <<connectionLink, setting, webState, aborted, budget>>

(* The client closes its response before the task is over. *)
Cancel ==
    /\ web = "chat" /\ ~aborted
    /\ aborted' = TRUE
    /\ UNCHANGED <<linkVars, web, subject, connectionLink, setting, webState, chat, budget, origins>>

(* A bug to catch: the cancelled chat is left before the agent's try. *)
AgentCreated_LeavesAtOnce ==
    /\ At("create") /\ Settled(Top.link)
    /\ IF phase[Top.link] = "failed" \/ aborted
       THEN Leave(FALSE)
       ELSE Goto("connect") /\ UNCHANGED <<web, subject, aborted, budget>>
    /\ UNCHANGED <<linkVars, connectionLink, setting, webState, origins>>

(* agent.started is yielded: a cancelled handler returns the generator.    *)
(* A create that failed leaves no try, so no finally either.               *)
AgentCreated ==
    /\ At("create") /\ Settled(Top.link)
    /\ IF phase[Top.link] = "failed"
       THEN Leave(FALSE)
       ELSE /\ Goto(IF aborted THEN "close" ELSE "connect")
            /\ UNCHANGED <<web, subject, aborted, budget>>
    /\ UNCHANGED <<linkVars, connectionLink, setting, webState, origins>>

agentRest == <<web, subject, connectionLink, setting, webState, aborted, origins>>

AgentConnected ==
    /\ At("connect")
    /\ \/ Routable(Top.link) /\ Goto(IF aborted THEN "close" ELSE "reply")
       \/ Goto("close")
    /\ UNCHANGED <<linkVars, budget, agentRest>>

(* A plain answer ends the agent. *)
AgentAnswers ==
    /\ At("reply") /\ ~aborted
    /\ chat' = [chat EXCEPT ![Len(chat)].at = "close", ![Len(chat)].done = TRUE]
    /\ UNCHANGED <<linkVars, budget, agentRest>>

(* A bug to catch: the stream does not listen to the abort signal. *)
ReplyFails_Deaf ==
    /\ At("reply") /\ ~aborted
    /\ Goto("close")
    /\ UNCHANGED <<linkVars, budget, agentRest>>

(* The stream fails, is aborted, or its text is no valid action. *)
ReplyFails ==
    /\ At("reply")
    /\ Goto("close")
    /\ UNCHANGED <<linkVars, budget, agentRest>>

(* A bug to catch: every agent counts its own actions. *)
Asks_OwnBudget ==
    /\ At("reply") /\ ~aborted
    /\ actions' = Top.round + 1

(* An action is counted before anything else is decided about it. *)
Asks ==
    /\ At("reply") /\ ~aborted
    /\ actions' = actions + 1

OverBudget ==
    /\ Asks
    /\ actions' > MaxActions
    /\ Goto("close")
    /\ UNCHANGED <<linkVars, spawned, executed, agentRest>>

Acts == Asks /\ actions' =< MaxActions

ToolCall ==
    /\ Acts
    /\ Goto("action")
    /\ executed' = executed + 1
    /\ UNCHANGED <<linkVars, spawned, agentRest>>

ToolReturns ==
    /\ At("action")
    /\ \/ Routable(Top.link) /\ chat' = [chat EXCEPT ![Len(chat)] = NextRound(@)]
       \/ Goto("close")
    /\ UNCHANGED <<linkVars, budget, agentRest>>

MaySpawn == Len(chat) - 1 < MaxDepth /\ spawned < MaxAgents

SpawnAgent ==
    /\ Acts
    /\ MaySpawn
    /\ NewAgent([chat EXCEPT ![Len(chat)].at = "child"])
    /\ spawned' = spawned + 1
    /\ executed' = executed + 1
    /\ UNCHANGED <<web, subject, connectionLink, setting, webState, aborted>>

(* Depth or count reached, or the Hub has no link to give: the parent ends. *)
SpawnFails ==
    /\ Acts
    /\ \/ ~MaySpawn /\ UNCHANGED spawned
       \/ MaySpawn /\ CreateRefused /\ spawned' = spawned + 1
    /\ Goto("close")
    /\ UNCHANGED <<linkVars, executed, agentRest>>

(* finally: closeAgent, then revoke.  When closing the page throws, the    *)
(* revoke is not reached and the link is left to its ttl.                  *)
AgentPageClosed ==
    /\ At("close")
    /\ IF Top.link \in links
       THEN Revoke(Top.link) /\ Goto("revoke") /\ UNCHANGED <<web, subject, aborted, budget>>
       ELSE Leave(Top.done) /\ UNCHANGED linkVars
    /\ UNCHANGED <<connectionLink, setting, webState, origins>>

AgentPageLost ==
    /\ At("close")
    /\ pageLost' = pageLost \cup {Top.link}
    /\ Leave(FALSE)
    /\ UNCHANGED <<linkVars, connectionLink, setting, webState, agentLinks, connectLinks>>

AgentRevoked ==
    /\ At("revoke") /\ Closed(Top.link)
    /\ \E closed \in BOOLEAN : Leave(Top.done /\ closed)
    /\ UNCHANGED <<linkVars, connectionLink, setting, webState, origins>>

AgentStep ==
    \/ AgentCreated \/ AgentConnected \/ AgentAnswers \/ ReplyFails \/ OverBudget
    \/ ToolCall \/ ToolReturns \/ SpawnAgent \/ SpawnFails
    \/ AgentPageClosed \/ AgentPageLost \/ AgentRevoked

----------------------------------------------------------------------------
(* Shutdown: the web service, then the Hub *)

WebClose ==
    /\ webState = "open"
    /\ webState' = "closing"
    /\ aborted' = (chat # <<>>)
    /\ UNCHANGED <<linkVars, web, subject, connectionLink, setting, chat, budget, origins>>

(* The listener is closed; requests in progress are not waited for. *)
WebListenerClosed ==
    /\ webState = "closing"
    /\ IF connectionLink \in links
       THEN Revoke(connectionLink) /\ webState' = "revoking"
       ELSE UNCHANGED linkVars /\ webState' = "closed"
    /\ UNCHANGED <<web, subject, connectionLink, setting, chatVars, origins>>

WebClosed ==
    /\ webState = "revoking"
    /\ Closed(connectionLink)
    /\ webState' \in {"closed", "failed"}
    /\ UNCHANGED <<linkVars, web, subject, connectionLink, setting, chatVars, origins>>

(* The adapter's browser closes, or does not and the shutdown fails. *)
AdapterClosed ==
    /\ webState = "closed" /\ hub = "open"
    /\ \/ CloseHub /\ UNCHANGED webState
       \/ webState' = "failed" /\ UNCHANGED linkVars
    /\ UNCHANGED <<web, subject, connectionLink, setting, chatVars, origins>>

(* The process has exited. *)
Exited == ~Running /\ UNCHANGED taskVars

----------------------------------------------------------------------------
WebStep ==
    \/ \E limit \in Limits : SaveSettings(limit)
    \/ Saved \/ SaveFails
    \/ WebCreate
    \/ \E l \in Links : WebRevoke(l)
    \/ WebLinkDone
    \/ Connect \/ ConnectCreated \/ Connected \/ ConnectFails \/ Swapped \/ Undone
    \/ ChatBegins \/ Cancel
    \/ WebClose \/ WebListenerClosed \/ WebClosed \/ AdapterClosed

(***************************************************************************)
(* What happens inside the Hub, and its other users: the Hub a web service *)
(* is given may have an administrator or be called by the program that     *)
(* embeds both.  Their links have a ttl that may or may not run out; only  *)
(* a connection's link is told to last.                                    *)
(***************************************************************************)
HubStep ==
    /\ \/ Create(FALSE)
       \/ hub = "open" /\ \E l \in Links : Revoke(l)
       \/ \E l \in Links :
             WorkerReady(l) \/ CreateFails(l) \/ WorkerClosed(l) \/ Expire(l)
       \/ Sweep \/ ListenersClosed \/ CreatesSettled \/ DeletesSettled
    /\ UNCHANGED webVars

TaskNext == (Running /\ (WebStep \/ AgentStep \/ HubStep)) \/ Exited

(***************************************************************************)
(* Fairness.  Promises that the code awaits settle: workers start or fail  *)
(* and close, files are saved, listeners close, connections, tools and     *)
(* pages answer (each has a timeout, or the Hub destroys its request).     *)
(* The timer fires.  Nothing makes a model answer: only the abort signal   *)
(* ends a reply.  Nobody has to call, revoke, cancel or shut down.         *)
(***************************************************************************)
Awaited ==
    \/ Saved \/ SaveFails \/ WebLinkDone
    \/ ConnectCreated \/ Connected \/ ConnectFails \/ Swapped \/ Undone
    \/ WebListenerClosed \/ WebClosed \/ AdapterClosed

AgentAwaited ==
    \/ AgentCreated \/ AgentConnected \/ ToolReturns \/ (aborted /\ ReplyFails)
    \/ AgentPageClosed \/ AgentPageLost \/ AgentRevoked

Scheduling ==
    /\ WF_taskVars(Running /\ Awaited)
    /\ WF_taskVars(Running /\ AgentAwaited)
    /\ \A l \in Links :
          WF_taskVars(Running /\ (WorkerReady(l) \/ CreateFails(l) \/ WorkerClosed(l))
                              /\ UNCHANGED webVars)
    /\ WF_taskVars(Running /\ (Sweep \/ ListenersClosed \/ CreatesSettled \/ DeletesSettled)
                            /\ UNCHANGED webVars)

TaskSafety == TaskInit /\ [][TaskNext]_taskVars
TaskSpec == TaskSafety /\ Scheduling

----------------------------------------------------------------------------
(***************************************************************************)
(* Every variable has its type: only the top agent of a chat is not        *)
(* waiting for a child, and each has created its link.  The budget is the  *)
(* task's, not the agent's: all agents of a chat, nested or one after the  *)
(* other, carry out at most MaxActions actions, spawn at most MaxAgents    *)
(* children and nest at most MaxDepth deep.                                *)
(***************************************************************************)
TaskTypeOK ==
    /\ LinkTypeOK
    /\ web \in {"idle", "saving", "creating", "revoking", "connectCreate", "connecting",
                "swapping", "undoing", "chat"}
    /\ subject \in Links \cup Limits \cup {0}
    /\ connectionLink \in connectLinks \cup {0}
    /\ setting \in Limits
    /\ webState \in {"open", "closing", "revoking", "closed", "failed"}
    /\ \A i \in DOMAIN chat :
          /\ chat[i].link \in agentLinks
          /\ chat[i].round \in 0..(MaxRounds - 1)
          /\ (chat[i].at = "child") = (i < Len(chat))
    /\ (chat # <<>>) = (web = "chat")
    /\ executed \in 0..MaxActions /\ spawned \in 0..MaxAgents /\ Len(chat) =< MaxDepth + 1

(***************************************************************************)
(* When a chat is over, however it ended (answered, failed at any depth,   *)
(* cancelled while a link was being created, cut off by shutdown), none of *)
(* its agents' links serves any more, but those whose page did not close.  *)
(***************************************************************************)
TasksRevokeTheirLinks ==
    \A l \in agentLinks \ pageLost :
        phase[l] \in {"starting", "failing", "live"} => \E i \in DOMAIN chat : chat[i].link = l

(***************************************************************************)
(* A connection link never expires, so one the web service has lost track  *)
(* of serves until shutdown: outside /api/connect the only one in the      *)
(* table is connectionLink, whether connecting, swapping the old link out  *)
(* or undoing failed, and whoever else revoked one meanwhile.              *)
(***************************************************************************)
ConnectionsAreTracked ==
    web \notin {"connectCreate", "connecting", "swapping"}
        => connectLinks \cap links \subseteq {connectionLink}

(***************************************************************************)
(* A settings change that cannot be saved does not leave the Hub below the *)
(* limit the settings still promise, also when links came and went while   *)
(* the file was being written and the rollback was refused.                *)
(***************************************************************************)
LimitCoversSetting == web # "saving" => maxActive >= setting

(***************************************************************************)
(* A cancelled chat ends: every generator on its stack is unwound.         *)
(***************************************************************************)
CancelledTasksEnd == aborted ~> (chat = <<>> \/ ~Running)

(***************************************************************************)
(* A link past its ttl leaves the table, by the timer or by shutdown.      *)
(***************************************************************************)
ExpiredLinksGo == \A l \in Links : l \in expired ~> (l \notin links \/ ~Running)

(***************************************************************************)
(* Shutdown comes to its end whatever was in progress when it began.       *)
(***************************************************************************)
ShutdownEnds == webState = "closing" ~> ~Running
=============================================================================
