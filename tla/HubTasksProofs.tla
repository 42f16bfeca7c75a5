--------------------------- MODULE HubTasksProofs ---------------------------
(***************************************************************************)
(* The callers of HubTasks.tla use the Hub as HubLinks.tla lets its        *)
(* environment use it, so what HubLinksProofs shows of the Hub holds in    *)
(* the composition; and the agents of a chat give their links back.        *)
(***************************************************************************)
EXTENDS HubTasks, HubLinksProofs, SequenceTheorems

USE DEF taskVars, webVars, chatVars, budget, origins, agentRest

----------------------------------------------------------------------------
(* Every step of the composition is a step of the Hub or leaves it alone.  *)

(* The limit that is saved, and the one a rollback returns to, are limits. *)
SettingInv == setting \in Limits /\ (web = "saving" => subject \in Limits)

LEMMA InitSetting == TaskInit => SettingInv
  BY DEF TaskInit, LinkInit, SettingInv

LEMMA NextSetting == SettingInv /\ [TaskNext]_taskVars => SettingInv'
<1> SUFFICES ASSUME SettingInv, [TaskNext]_taskVars PROVE SettingInv'
  OBVIOUS
<1> USE DEF SettingInv, Become, Idle
<1>1. CASE \E limit \in Limits : SaveSettings(limit)
  BY <1>1 DEF SaveSettings
<1>2. CASE Saved \/ SaveFails
  BY <1>2 DEF Saved, SaveFails
<1>3. CASE WebCreate \/ (\E l \in Links : WebRevoke(l)) \/ WebLinkDone
  BY <1>3 DEF WebCreate, WebRevoke, WebLinkDone
<1>4. CASE Connect \/ ConnectCreated \/ Connected \/ ConnectFails \/ Swapped \/ Undone
  BY <1>4 DEF Connect, ConnectCreated, Connected, ConnectFails, Swapped, Undone, Undo
<1>5. CASE ChatBegins \/ Cancel
  BY <1>5 DEF ChatBegins, Cancel
<1>6. CASE WebClose \/ WebListenerClosed \/ WebClosed \/ AdapterClosed
  BY <1>6 DEF WebClose, WebListenerClosed, WebClosed, AdapterClosed
<1>7. CASE AgentStep
  BY <1>7 DEF AgentStep, AgentCreated, AgentConnected, AgentAnswers, ReplyFails, OverBudget,
     ToolCall, ToolReturns, SpawnAgent, SpawnFails, AgentPageClosed, AgentPageLost,
     AgentRevoked, Leave
<1>8. CASE HubStep
  BY <1>8 DEF HubStep
<1>9. CASE UNCHANGED taskVars
  BY <1>9
<1> QED BY <1>1, <1>2, <1>3, <1>4, <1>5, <1>6, <1>7, <1>8, <1>9 DEF TaskNext, WebStep, Exited

LEMMA StepsOfTheHub ==
  ASSUME SettingInv, [TaskNext]_taskVars PROVE [LinkNext]_linkVars
<1> USE DEF LinkNext
<1>1. CASE \E limit \in Limits : SaveSettings(limit)
  BY <1>1 DEF SaveSettings
<1>2. CASE Saved \/ SaveFails
  BY <1>2 DEF Saved, SaveFails, SettingInv
<1>3. CASE WebCreate \/ (\E l \in Links : WebRevoke(l)) \/ WebLinkDone
  BY <1>3 DEF WebCreate, WebRevoke, WebLinkDone
<1>4. CASE Connect \/ ConnectCreated \/ Connected \/ ConnectFails \/ Swapped \/ Undone
  <2>1. \A l : l \in links => l \in Links
    BY DEF links
  <2> QED BY <1>4, <2>1 DEF Connect, ConnectCreated, Connected, ConnectFails, Swapped, Undone, Undo
<1>5. CASE ChatBegins \/ Cancel
  BY <1>5 DEF ChatBegins, NewAgent, Cancel
<1>6. CASE WebClose \/ WebListenerClosed \/ WebClosed \/ AdapterClosed
  BY <1>6 DEF WebClose, WebListenerClosed, WebClosed, AdapterClosed, links
<1>7. CASE AgentStep
  <2>1. CASE SpawnAgent
    BY <2>1 DEF SpawnAgent, NewAgent
  <2>2. CASE AgentPageClosed
    BY <2>2 DEF AgentPageClosed, links
  <2>3. CASE AgentStep /\ ~SpawnAgent /\ ~AgentPageClosed
    BY <2>3 DEF AgentStep, AgentCreated, AgentConnected, AgentAnswers, ReplyFails, OverBudget,
       ToolCall, ToolReturns, SpawnFails, AgentPageLost, AgentRevoked
  <2> QED BY <1>7, <2>1, <2>2, <2>3
<1>8. CASE HubStep
  BY <1>8 DEF HubStep
<1>9. CASE UNCHANGED taskVars
  BY <1>9
<1> QED BY <1>1, <1>2, <1>3, <1>4, <1>5, <1>6, <1>7, <1>8, <1>9 DEF TaskNext, WebStep, Exited

(* The web service, the agents of its chats and its shutdown, with the     *)
(* admin listener beside them, are a legal environment of the Hub          *)
(* (hub/web-server.mjs, hub/orchestrator.mjs over hub/manager.mjs).        *)
THEOREM TasksUseTheHub == TaskSafety => LinkSpec
<1>1. TaskInit => LinkInit
  BY DEF TaskInit
<1>2. SettingInv /\ [TaskNext]_taskVars => [LinkNext]_linkVars
  BY StepsOfTheHub
<1> QED BY <1>1, <1>2, InitSetting, NextSetting, PTL DEF TaskSafety, LinkSpec

----------------------------------------------------------------------------
(***************************************************************************)
(* Agents give their links back.  A link can be left behind only by an     *)
(* agent that leaves the stack while its link is starting or live.  That   *)
(* it does not rests on where each agent is: past "create" its link is     *)
(* settled, past its revoke it is out of the table, and it never comes     *)
(* back into the table.                                                    *)
(***************************************************************************)
Past == {"failed", "live", "stopping", "gone"}
Over == {"failed", "stopping", "gone"}
Alive(l) == phase[l] \in {"starting", "failing", "live"}

Places == {"create", "connect", "reply", "action", "child", "close", "revoke"}
AgentRecords == [link : Links, at : Places, round : Int, done : BOOLEAN]

Sound(agent, ph) ==
    /\ ph[agent.link] # "unused"
    /\ agent.at # "create" => ph[agent.link] \in Past
    /\ agent.at = "revoke" => ph[agent.link] \in Over

AgentsInv ==
    /\ \A l \in agentLinks : l \in Links /\ phase[l] # "unused"
    /\ chat \in Seq(AgentRecords)
    /\ \A i \in 1..Len(chat) : Sound(chat[i], phase)
    /\ \A i \in 1..Len(chat) : i < Len(chat) => chat[i].at = "child"
    /\ TasksRevokeTheirLinks

(* How a link moves in one step of the Hub: only forward. *)
MovesOn(l) ==
    /\ phase[l] \in Past => phase'[l] \in Past
    /\ phase[l] \in Over => phase'[l] \in Over
    /\ phase[l] # "unused" => phase'[l] # "unused"
    /\ Alive(l)' => Alive(l) \/ phase[l] = "unused"

LEMMA LinksMoveOn ==
  ASSUME LinkInv, [LinkNext]_linkVars, NEW l \in Links
  PROVE  MovesOn(l)
<1>0. phase \in [Links -> Phases] /\ created \in Nat /\ expired \subseteq links
  BY DEF LinkInv, LinkTypeOK
<1>1. CASE \E forever \in BOOLEAN : Create(forever)
  <2>1. phase[NextLink] = "unused" \/ NextLink \notin Links
    BY <1>0 DEF LinkInv, Fresh, NextLink
  <2> QED BY <1>0, <1>1, <2>1 DEF Create, MovesOn, Past, Over, Alive, Phases
<1>2. CASE \E m \in Links : WorkerReady(m) \/ CreateFails(m) \/ WorkerClosed(m)
  <2>1. PICK m \in Links : WorkerReady(m) \/ CreateFails(m) \/ WorkerClosed(m)
    BY <1>2
  <2>2. \/ phase[m] = "starting" /\ phase'[m] \in {"live", "failing", "failed"}
        \/ phase[m] = "failing" /\ phase'[m] = "failed"
        \/ phase[m] = "stopping" /\ phase'[m] = "gone"
    BY <1>0, <2>1 DEF WorkerReady, CreateFails, WorkerClosed, Creating
  <2>3. l # m => phase'[l] = phase[l]
    BY <1>0, <2>1 DEF WorkerReady, CreateFails, WorkerClosed
  <2> QED BY <2>2, <2>3 DEF MovesOn, Past, Over, Alive
<1>3. CASE (\E m \in Links : Revoke(m)) \/ Sweep \/ CreatesSettled
  <2>1. PICK L \in SUBSET links : RevokeAll(L)
    BY <1>0, <1>3 DEF Revoke, Sweep, CreatesSettled
  <2> QED BY <1>0, <2>1 DEF RevokeAll, links, MovesOn, Past, Over, Alive
<1>4. CASE phase' = phase
  BY <1>4 DEF MovesOn, Alive
<1>5. \/ \E forever \in BOOLEAN : Create(forever)
      \/ \E m \in Links : WorkerReady(m) \/ CreateFails(m) \/ WorkerClosed(m)
      \/ (\E m \in Links : Revoke(m)) \/ Sweep \/ CreatesSettled
      \/ phase' = phase
  BY DEF LinkNext, Expire, Configure, CloseHub, ListenersClosed, DeletesSettled, linkVars
<1> QED BY <1>1, <1>2, <1>3, <1>4, <1>5

(* An agent that stays where it is stays sound. *)
LEMMA AgentsStay ==
  ASSUME LinkInv, [LinkNext]_linkVars, NEW agent \in AgentRecords, Sound(agent, phase)
  PROVE  Sound(agent, phase')
<1>1. agent.link \in Links
  BY DEF AgentRecords
<1> QED BY <1>1, LinksMoveOn DEF Sound, MovesOn

(* Steps that leave the chat alone. *)
LEMMA ChatUnchanged ==
  ASSUME LinkInv, AgentsInv, [LinkNext]_linkVars, UNCHANGED <<chat, agentLinks, pageLost>>
  PROVE  AgentsInv'
<1> USE DEF AgentsInv
<1>1. \A l \in agentLinks' : l \in Links /\ phase'[l] # "unused"
  BY LinksMoveOn DEF MovesOn
<1>2. \A i \in 1..Len(chat) : chat[i] \in AgentRecords
  OBVIOUS
<1>3. \A i \in 1..Len(chat') : Sound(chat[i], phase')
  BY <1>2, AgentsStay
<1>4. TasksRevokeTheirLinks'
  BY LinksMoveOn DEF TasksRevokeTheirLinks, Alive, MovesOn
<1> QED BY <1>1, <1>3, <1>4

(* The agent on top goes somewhere else. *)
LEMMA TopMoves ==
  ASSUME LinkInv, AgentsInv, [LinkNext]_linkVars, chat # <<>>,
         NEW agent \in AgentRecords, agent.link = Top.link, Sound(agent, phase'),
         chat' = [chat EXCEPT ![Len(chat)] = agent],
         UNCHANGED <<agentLinks, pageLost>>
  PROVE  AgentsInv'
<1> DEFINE n == Len(chat)
<1>1. /\ chat \in Seq(AgentRecords) /\ n \in Nat /\ n \in 1..n
      /\ \A i \in 1..n : chat[i] \in AgentRecords /\ Sound(chat[i], phase)
      /\ \A i \in 1..n : i < n => chat[i].at = "child"
  BY EmptySeq, ElementOfSeq DEF AgentsInv
<1>2. /\ chat' \in Seq(AgentRecords) /\ Len(chat') = n
      /\ \A i \in 1..n : chat'[i] = IF i = n THEN agent ELSE chat[i]
  BY <1>1, ExceptSeq
<1> HIDE DEF n
<1>3. \A i \in 1..n : chat'[i].link = chat[i].link
  BY <1>2 DEF Top, n
<1>4. \A l \in agentLinks' : l \in Links /\ phase'[l] # "unused"
  BY LinksMoveOn DEF MovesOn, AgentsInv
<1>5. \A i \in 1..n : Sound(chat'[i], phase')
  <2> SUFFICES ASSUME NEW i \in 1..n, i # n PROVE Sound(chat[i], phase')
    BY <1>2
  <2> QED BY <1>1, AgentsStay
<1>6. \A i \in 1..n : i < n => chat'[i].at = "child"
  BY <1>1, <1>2
<1>7. TasksRevokeTheirLinks'
  <2> SUFFICES ASSUME NEW l \in agentLinks \ pageLost, Alive(l)'
               PROVE  \E i \in 1..n : chat'[i].link = l
    BY <1>2 DEF TasksRevokeTheirLinks, Alive
  <2>1. l \in Links /\ phase[l] # "unused"
    BY DEF AgentsInv
  <2>2. Alive(l)
    BY <2>1, LinksMoveOn DEF MovesOn
  <2>3. PICK i \in 1..n : chat[i].link = l
    BY <1>1, <2>2, LenProperties DEF TasksRevokeTheirLinks, Alive, AgentsInv, n
  <2> QED BY <1>3, <2>3
<1> QED BY <1>2, <1>4, <1>5, <1>6, <1>7 DEF AgentsInv

(* A new agent on top of the others. *)
LEMMA AgentPushed ==
  ASSUME LinkInv, AgentsInv, [LinkNext]_linkVars,
         NEW agents \in Seq(AgentRecords), Len(agents) = Len(chat),
         \A i \in 1..Len(chat) : /\ agents[i].link = chat[i].link /\ agents[i].at = "child"
                                 /\ chat[i].at # "create",
         NewAgent(agents)
  PROVE  AgentsInv'
<1> DEFINE n == Len(chat)
<1>1. /\ chat \in Seq(AgentRecords) /\ n \in Nat
      /\ \A i \in 1..n : Sound(chat[i], phase) /\ agents[i] \in AgentRecords
                         /\ chat[i] \in AgentRecords
  BY ElementOfSeq, LenProperties DEF AgentsInv
<1>2. NextLink \in Links /\ phase'[NextLink] = "starting"
  <2>1. created \in Nat /\ created < MaxLinks /\ phase \in [Links -> Phases]
    BY DEF NewAgent, Create, LinkInv, LinkTypeOK
  <2>2. NextLink \in Links
    BY <2>1, MaxLinksAssumption DEF NextLink, Links
  <2> QED BY <2>1, <2>2 DEF NewAgent, Create
<1>3. Agent(NextLink) \in AgentRecords
  BY <1>2 DEF Agent, AgentRecords, Places
<1>4. /\ chat' \in Seq(AgentRecords) /\ Len(chat') = n + 1
      /\ \A i \in 1..n : chat'[i] = agents[i]
      /\ chat'[n + 1] = Agent(NextLink)
  BY <1>1, <1>3 DEF NewAgent
<1> HIDE DEF n
<1>5. \A l \in agentLinks' : l \in Links /\ phase'[l] # "unused"
  BY <1>2, LinksMoveOn DEF MovesOn, AgentsInv, NewAgent
<1>6. \A i \in 1..(n + 1) : Sound(chat'[i], phase')
  <2>1. Sound(chat'[n + 1], phase')
    BY <1>2, <1>4 DEF Sound, Agent
  <2>2. ASSUME NEW i \in 1..n PROVE Sound(chat'[i], phase')
    <3>1. chat[i].link \in Links /\ Sound(chat[i], phase) /\ chat[i].at # "create"
      BY <1>1 DEF AgentRecords, n
    <3>2. phase'[chat[i].link] \in Past /\ phase'[chat[i].link] # "unused"
      BY <3>1, LinksMoveOn DEF MovesOn, Sound
    <3> QED BY <1>4, <3>2 DEF Sound, n
  <2> QED BY <1>1, <2>1, <2>2
<1>7. \A i \in 1..(n + 1) : i < n + 1 => chat'[i].at = "child"
  <2> SUFFICES ASSUME NEW i \in 1..(n + 1), i < n + 1 PROVE chat'[i].at = "child"
    OBVIOUS
  <2>1. i \in 1..n
    BY <1>1
  <2> QED BY <1>4, <2>1 DEF n
<1>8. TasksRevokeTheirLinks'
  <2> SUFFICES ASSUME NEW l \in agentLinks' \ pageLost', Alive(l)'
               PROVE  \E i \in 1..(n + 1) : chat'[i].link = l
    BY <1>4, LenProperties DEF TasksRevokeTheirLinks, Alive
  <2>1. CASE l = NextLink
    BY <1>1, <1>4, <2>1 DEF Agent
  <2>2. CASE l # NextLink
    <3>1. l \in agentLinks \ pageLost /\ l \in Links /\ phase[l] # "unused"
      BY <2>2 DEF NewAgent, AgentsInv
    <3>2. Alive(l)
      BY <3>1, LinksMoveOn DEF MovesOn
    <3>3. PICK i \in 1..n : chat[i].link = l
      BY <1>1, <3>1, <3>2, LenProperties DEF TasksRevokeTheirLinks, Alive, AgentsInv, n
    <3> QED BY <1>1, <1>4, <3>3 DEF n
  <2> QED BY <2>1, <2>2
<1> QED BY <1>4, <1>5, <1>6, <1>7, <1>8 DEF AgentsInv

(* What an agent becomes when a result, or an error, comes back to it. *)
LEMMA NextRoundIsAgent ==
  ASSUME NEW before \in AgentRecords,
         NEW agent \in {NextRound(before), [before EXCEPT !.at = "close"]}
  PROVE  /\ agent \in AgentRecords /\ agent.link = before.link
         /\ agent.at \in {"reply", "close"}
<1>1. CASE agent = [before EXCEPT !.at = "close"]
  BY <1>1 DEF AgentRecords, Places
<1>2. CASE agent = [before EXCEPT !.at = "reply", !.round = @ + 1]
  <2>1. before.round + 1 \in Int /\ "reply" \in Places
    BY DEF AgentRecords, Places
  <2>2. agent = [link |-> before.link, at |-> "reply", round |-> before.round + 1,
                 done |-> before.done]
    BY <1>2 DEF AgentRecords
  <2> QED BY <2>1, <2>2 DEF AgentRecords
<1> QED BY <1>1, <1>2 DEF NextRound

(* The agent on top leaves: its link must be out of the table by then, or  *)
(* its page be the one that did not close.                                 *)
LEMMA AgentLeaves ==
  ASSUME LinkInv, AgentsInv, [LinkNext]_linkVars, chat # <<>>,
         NEW ok \in BOOLEAN, Leave(ok),
         agentLinks' = agentLinks, pageLost \subseteq pageLost',
         phase'[Top.link] \notin {"starting", "failing", "live"} \/ Top.link \in pageLost'
  PROVE  AgentsInv'
<1> DEFINE n == Len(chat)
<1>1. /\ chat \in Seq(AgentRecords) /\ n \in Nat /\ n \in 1..n
      /\ \A i \in 1..n : chat[i] \in AgentRecords /\ Sound(chat[i], phase)
      /\ \A i \in 1..n : i < n => chat[i].at = "child"
  BY EmptySeq, ElementOfSeq DEF AgentsInv
<1>2. \A i \in 1..n : i < n =>
         \A agent \in {NextRound(chat[i]), [chat[i] EXCEPT !.at = "close"]} :
            /\ agent \in AgentRecords /\ agent.link = chat[i].link
            /\ agent.at \in {"reply", "close"}
  BY <1>1, NextRoundIsAgent
<1>3. /\ chat' \in Seq(AgentRecords) /\ Len(chat') = n - 1
      /\ \A i \in 1..(n - 1) :
            /\ chat'[i].link = chat[i].link
            /\ i < n - 1 => chat'[i] = chat[i]
            /\ i = n - 1 => chat'[i].at \in {"reply", "close"}
  <2>1. CASE n = 1
    BY <2>1, EmptySeq DEF Leave
  <2>2. CASE n # 1
    <3> DEFINE f(i) == IF i < n - 1 THEN chat[i]
                       ELSE IF ok THEN NextRound(chat[i]) ELSE [chat[i] EXCEPT !.at = "close"]
    <3>1. n - 1 \in Nat /\ \A i \in 1..(n - 1) : i \in 1..n /\ i < n
      BY <1>1
    <3>2. chat' = [i \in 1..(n - 1) |-> f(i)]
      BY <2>2 DEF Leave
    <3>3. \A i \in 1..(n - 1) : f(i) \in AgentRecords /\ f(i).link = chat[i].link
      BY <1>1, <1>2, <3>1
    <3>4. \A i \in 1..(n - 1) : i = n - 1 => f(i).at \in {"reply", "close"}
      <4> SUFFICES ASSUME NEW i \in 1..(n - 1), i = n - 1 PROVE f(i).at \in {"reply", "close"}
        OBVIOUS
      <4>1. f(i) \in {NextRound(chat[i]), [chat[i] EXCEPT !.at = "close"]}
        BY <1>1
      <4> HIDE DEF f
      <4> QED BY <1>2, <3>1, <4>1
    <3>5. chat' \in [1..(n - 1) -> AgentRecords]
      BY <3>2, <3>3
    <3>6. chat' \in Seq(AgentRecords) /\ Len(chat') = n - 1
      BY <3>1, <3>5
    <3>7. \A i \in 1..(n - 1) : chat'[i] = f(i)
      BY <3>2
    <3> QED BY <3>3, <3>4, <3>6, <3>7
  <2> QED BY <2>1, <2>2
<1> HIDE DEF n
<1>4. \A l \in agentLinks' : l \in Links /\ phase'[l] # "unused"
  BY LinksMoveOn DEF MovesOn, AgentsInv
<1>5. \A i \in 1..(n - 1) : Sound(chat'[i], phase')
  <2> SUFFICES ASSUME NEW i \in 1..(n - 1) PROVE Sound(chat'[i], phase')
    OBVIOUS
  <2>1. i \in 1..n /\ i < n
    BY <1>1
  <2>2. chat[i].at = "child" /\ Sound(chat[i], phase) /\ chat[i].link \in Links
    BY <1>1, <2>1 DEF AgentRecords
  <2>3. phase'[chat[i].link] \in Past /\ phase'[chat[i].link] # "unused"
    BY <2>2, LinksMoveOn DEF MovesOn, Sound
  <2>4. chat'[i].link = chat[i].link /\ chat'[i].at # "revoke"
    <3>1. CASE i < n - 1
      BY <1>3, <2>2, <3>1
    <3>2. CASE i = n - 1
      BY <1>3, <3>2
    <3> QED BY <1>1, <3>1, <3>2
  <2> QED BY <2>3, <2>4 DEF Sound
<1>6. \A i \in 1..(n - 1) : i < n - 1 => chat'[i].at = "child"
  BY <1>1, <1>3
<1>7. TasksRevokeTheirLinks'
  <2> SUFFICES ASSUME NEW l \in agentLinks' \ pageLost', Alive(l)'
               PROVE  \E i \in 1..(n - 1) : chat'[i].link = l
    BY <1>3, LenProperties DEF TasksRevokeTheirLinks, Alive
  <2>1. l \in agentLinks \ pageLost /\ l \in Links /\ phase[l] # "unused"
    BY DEF AgentsInv
  <2>2. Alive(l)
    BY <2>1, LinksMoveOn DEF MovesOn
  <2>3. PICK i \in 1..n : chat[i].link = l
    BY <1>1, <2>1, <2>2, LenProperties DEF TasksRevokeTheirLinks, Alive, AgentsInv, n
  <2>4. l # Top.link
    BY DEF Alive
  <2>5. i \in 1..(n - 1)
    BY <1>1, <2>3, <2>4 DEF Top, n
  <2> QED BY <1>3, <2>3, <2>5
<1> QED BY <1>3, <1>4, <1>5, <1>6, <1>7 DEF AgentsInv

LEMMA TopIsSound ==
  ASSUME AgentsInv, chat # <<>>
  PROVE  /\ Len(chat) \in 1..Len(chat) /\ Top \in AgentRecords /\ Top.link \in Links
         /\ phase[Top.link] # "unused"
         /\ Top.at # "create" => phase[Top.link] \in Past
         /\ Top.at = "revoke" => phase[Top.link] \in Over
<1>1. Len(chat) \in 1..Len(chat)
  BY EmptySeq DEF AgentsInv
<1>2. Top \in AgentRecords /\ Sound(Top, phase)
  BY <1>1, ElementOfSeq DEF AgentsInv, Top
<1> QED BY <1>1, <1>2 DEF AgentRecords, Sound

LEMMA TopGoesTo ==
  ASSUME LinkInv, AgentsInv, [LinkNext]_linkVars, chat # <<>>,
         NEW place \in Places \ {"create"}, NEW done \in BOOLEAN,
         \/ Goto(place)
         \/ chat' = [chat EXCEPT ![Len(chat)].at = place, ![Len(chat)].done = done],
         phase[Top.link] \in Past,
         place = "revoke" => phase'[Top.link] \in Over,
         UNCHANGED <<agentLinks, pageLost>>
  PROVE  AgentsInv'
<1>1. /\ Len(chat) \in 1..Len(chat) /\ Top \in AgentRecords /\ Top.link \in Links
      /\ phase[Top.link] # "unused" /\ chat \in Seq(AgentRecords)
  BY TopIsSound DEF AgentsInv
<1>2. PICK agent \in {[Top EXCEPT !.at = place], [Top EXCEPT !.at = place, !.done = done]} :
         chat' = [chat EXCEPT ![Len(chat)] = agent]
  <2>1. CASE Goto(place)
    BY <1>1, <2>1 DEF Goto, Top
  <2>2. CASE chat' = [chat EXCEPT ![Len(chat)].at = place, ![Len(chat)].done = done]
    BY <1>1, <2>2 DEF Top
  <2> QED BY <2>1, <2>2
<1>3. agent \in AgentRecords /\ agent.link = Top.link /\ agent.at = place
  <2>1. CASE agent = [Top EXCEPT !.at = place]
    BY <1>1, <2>1 DEF AgentRecords
  <2>2. CASE agent = [Top EXCEPT !.at = place, !.done = done]
    <3>1. agent = [link |-> Top.link, at |-> place, round |-> Top.round, done |-> done]
      BY <1>1, <2>2 DEF AgentRecords
    <3> QED BY <1>1, <3>1 DEF AgentRecords
  <2> QED BY <2>1, <2>2
<1>4. phase'[Top.link] \in Past /\ phase'[Top.link] # "unused"
  BY <1>1, LinksMoveOn DEF MovesOn
<1>5. Sound(agent, phase')
  BY <1>3, <1>4 DEF Sound
<1> QED BY <1>2, <1>3, <1>5, TopMoves

(* A chat holds `busy' from its first agent to its last. *)
ChatHeld == chat # <<>> => web = "chat"

LEMMA NextChatHeld == ChatHeld /\ [TaskNext]_taskVars => ChatHeld'
<1> SUFFICES ASSUME ChatHeld, [TaskNext]_taskVars PROVE ChatHeld'
  OBVIOUS
<1> USE DEF ChatHeld, Become, Idle, Free
<1>1. CASE \E limit \in Limits : SaveSettings(limit)
  BY <1>1 DEF SaveSettings
<1>2. CASE Saved \/ SaveFails
  BY <1>2 DEF Saved, SaveFails
<1>3. CASE WebCreate \/ (\E l \in Links : WebRevoke(l)) \/ WebLinkDone
  BY <1>3 DEF WebCreate, WebRevoke, WebLinkDone
<1>4. CASE Connect \/ ConnectCreated \/ Connected \/ ConnectFails \/ Swapped \/ Undone
  BY <1>4 DEF Connect, ConnectCreated, Connected, ConnectFails, Swapped, Undone, Undo
<1>5. CASE ChatBegins \/ Cancel
  BY <1>5 DEF ChatBegins, Cancel
<1>6. CASE WebClose \/ WebListenerClosed \/ WebClosed \/ AdapterClosed
  BY <1>6 DEF WebClose, WebListenerClosed, WebClosed, AdapterClosed
<1>7. CASE AgentStep
  BY <1>7 DEF AgentStep, AgentCreated, AgentConnected, AgentAnswers, ReplyFails, Asks, Acts,
     OverBudget, ToolCall, ToolReturns, SpawnAgent, SpawnFails, AgentPageClosed, AgentPageLost,
     AgentRevoked, At, Leave
<1>8. CASE HubStep
  BY <1>8 DEF HubStep
<1>9. CASE UNCHANGED taskVars
  BY <1>9
<1> QED BY <1>1, <1>2, <1>3, <1>4, <1>5, <1>6, <1>7, <1>8, <1>9 DEF TaskNext, WebStep, Exited

----------------------------------------------------------------------------
(* The steps of an agent, from where it is. *)

LEMMA CreatedKeeps ==
  ASSUME LinkInv, AgentsInv, [LinkNext]_linkVars, AgentCreated PROVE AgentsInv'
<1>1. /\ chat # <<>> /\ Top.at = "create" /\ Settled(Top.link)
      /\ UNCHANGED linkVars /\ UNCHANGED origins
  BY DEF AgentCreated, At
<1>2. phase' = phase /\ Top.link \in Links /\ phase[Top.link] # "unused"
  BY <1>1, TopIsSound DEF linkVars
<1>3. phase[Top.link] \in Past
  BY <1>1, <1>2 DEF Settled, Past, LinkInv, LinkTypeOK, Phases
<1>4. CASE phase[Top.link] = "failed"
  <2>1. Leave(FALSE) /\ phase'[Top.link] \notin {"starting", "failing", "live"}
    BY <1>2, <1>4 DEF AgentCreated
  <2> QED BY <1>1, <2>1, AgentLeaves
<1>5. CASE phase[Top.link] # "failed"
  <2>1. Goto("close") \/ Goto("connect")
    BY <1>5 DEF AgentCreated
  <2>2. "close" \in Places \ {"create"} /\ "connect" \in Places \ {"create"}
    BY DEF Places
  <2> QED BY <1>1, <1>3, <2>1, <2>2, TopGoesTo
<1> QED BY <1>4, <1>5

(* Steps that move the top agent and leave every link where it is. *)
LEMMA MovesKeep ==
  ASSUME LinkInv, AgentsInv, [LinkNext]_linkVars,
         AgentConnected \/ AgentAnswers \/ ReplyFails \/ OverBudget \/ ToolCall \/ SpawnFails
  PROVE  AgentsInv'
<1>1. /\ chat # <<>> /\ Top.at \in {"connect", "reply"}
      /\ UNCHANGED origins
  BY DEF AgentConnected, AgentAnswers, ReplyFails, OverBudget, ToolCall, SpawnFails,
         Acts, Asks, At
<1>2. phase[Top.link] \in Past
  BY <1>1, TopIsSound
<1>3. /\ "close" \in Places \ {"create"} /\ "reply" \in Places \ {"create"}
      /\ "action" \in Places \ {"create"}
  BY DEF Places
<1>4. \/ Goto("close") \/ Goto("reply") \/ Goto("action")
      \/ chat' = [chat EXCEPT ![Len(chat)].at = "close", ![Len(chat)].done = TRUE]
  BY DEF AgentConnected, AgentAnswers, ReplyFails, OverBudget, ToolCall, SpawnFails
<1> QED BY <1>1, <1>2, <1>3, <1>4, TopGoesTo

LEMMA ReturnsKeep ==
  ASSUME LinkInv, AgentsInv, [LinkNext]_linkVars, ToolReturns PROVE AgentsInv'
<1>1. chat # <<>> /\ Top.at = "action" /\ UNCHANGED origins
  BY DEF ToolReturns, At
<1>2. /\ Len(chat) \in 1..Len(chat) /\ Top \in AgentRecords /\ Top.link \in Links
      /\ phase[Top.link] \in Past /\ chat \in Seq(AgentRecords)
  BY <1>1, TopIsSound DEF AgentsInv
<1>3. phase'[Top.link] \in Past
  BY <1>2, LinksMoveOn DEF MovesOn
<1>4. CASE Goto("close")
  <2>1. "close" \in Places \ {"create"}
    BY DEF Places
  <2> QED BY <1>1, <1>2, <1>4, <2>1, TopGoesTo
<1>5. CASE chat' = [chat EXCEPT ![Len(chat)] = NextRound(@)]
  <2>1. chat' = [chat EXCEPT ![Len(chat)] = NextRound(Top)]
    BY <1>2, <1>5 DEF Top
  <2>2. NextRound(Top) \in AgentRecords /\ NextRound(Top).link = Top.link
        /\ NextRound(Top).at \in {"reply", "close"}
    BY <1>2, NextRoundIsAgent
  <2>3. Sound(NextRound(Top), phase')
    BY <1>3, <2>2 DEF Sound, Past
  <2> QED BY <1>1, <2>1, <2>2, <2>3, TopMoves
<1> QED BY <1>4, <1>5 DEF ToolReturns

LEMMA SpawnKeeps ==
  ASSUME LinkInv, AgentsInv, [LinkNext]_linkVars, SpawnAgent PROVE AgentsInv'
<1> DEFINE agents == [chat EXCEPT ![Len(chat)].at = "child"]
<1>1. chat # <<>> /\ Top.at = "reply" /\ NewAgent(agents)
  BY DEF SpawnAgent, Acts, Asks, At
<1>2. /\ Len(chat) \in 1..Len(chat) /\ Top \in AgentRecords /\ chat \in Seq(AgentRecords)
      /\ \A i \in 1..Len(chat) : i < Len(chat) => chat[i].at = "child"
  BY <1>1, TopIsSound DEF AgentsInv
<1>3. [Top EXCEPT !.at = "child"] \in AgentRecords
  BY <1>2 DEF AgentRecords, Places
<1>4. agents = [chat EXCEPT ![Len(chat)] = [Top EXCEPT !.at = "child"]]
  BY <1>2 DEF Top
<1>5. /\ agents \in Seq(AgentRecords) /\ Len(agents) = Len(chat)
      /\ \A i \in 1..Len(chat) :
            agents[i] = IF i = Len(chat) THEN [Top EXCEPT !.at = "child"] ELSE chat[i]
  BY <1>2, <1>3, <1>4, ExceptSeq
<1> HIDE DEF agents
<1>6. \A i \in 1..Len(chat) : /\ agents[i].link = chat[i].link /\ agents[i].at = "child"
                              /\ chat[i].at # "create"
  <2> SUFFICES ASSUME NEW i \in 1..Len(chat)
               PROVE  /\ agents[i].link = chat[i].link /\ agents[i].at = "child"
                      /\ chat[i].at # "create"
    OBVIOUS
  <2>1. CASE i = Len(chat)
    BY <1>1, <1>2, <1>5, <2>1 DEF Top, AgentRecords
  <2>2. CASE i # Len(chat)
    <3>1. i < Len(chat)
      BY <1>2, <2>2
    <3> QED BY <1>2, <1>5, <2>2, <3>1
  <2> QED BY <2>1, <2>2
<1> QED BY <1>1, <1>5, <1>6, AgentPushed

LEMMA BeginKeeps ==
  ASSUME LinkInv, AgentsInv, ChatHeld, [LinkNext]_linkVars, ChatBegins PROVE AgentsInv'
<1>1. chat = <<>> /\ NewAgent(<<>>)
  BY DEF ChatBegins, Free, ChatHeld
<1>2. <<>> \in Seq(AgentRecords) /\ Len(<<>>) = 0
  BY EmptySeq
<1>3. \A i \in 1..Len(chat) : i \in {}
  BY <1>1, <1>2
<1> QED BY <1>1, <1>2, <1>3, AgentPushed

LEMMA PageClosedKeeps ==
  ASSUME LinkInv, AgentsInv, [LinkNext]_linkVars, AgentPageClosed PROVE AgentsInv'
<1>1. chat # <<>> /\ Top.at = "close" /\ UNCHANGED origins
  BY DEF AgentPageClosed, At
<1>2. Top \in AgentRecords /\ Top.link \in Links /\ phase[Top.link] \in Past
  BY <1>1, TopIsSound
<1>3. CASE Top.link \in links
  <2>1. Revoke(Top.link) /\ Goto("revoke")
    BY <1>3 DEF AgentPageClosed
  <2>2. phase'[Top.link] = "stopping"
    BY <1>2, <2>1 DEF Revoke, RevokeAll
  <2>3. "revoke" \in Places \ {"create"} /\ phase'[Top.link] \in Over
    BY <2>2 DEF Places, Over
  <2> QED BY <1>1, <1>2, <2>1, <2>3, TopGoesTo
<1>4. CASE Top.link \notin links
  <2>1. Leave(Top.done) /\ UNCHANGED linkVars /\ Top.done \in BOOLEAN
    BY <1>2, <1>4 DEF AgentPageClosed, AgentRecords
  <2>2. phase'[Top.link] \notin {"starting", "failing", "live"}
    BY <1>2, <1>4, <2>1 DEF links, Past, linkVars
  <2> QED BY <1>1, <2>1, <2>2, AgentLeaves
<1> QED BY <1>3, <1>4

LEMMA PageLostKeeps ==
  ASSUME LinkInv, AgentsInv, [LinkNext]_linkVars, AgentPageLost PROVE AgentsInv'
<1>1. /\ chat # <<>> /\ Leave(FALSE) /\ agentLinks' = agentLinks
      /\ pageLost \subseteq pageLost' /\ Top.link \in pageLost'
  BY DEF AgentPageLost, At
<1> QED BY <1>1, AgentLeaves

LEMMA RevokedKeeps ==
  ASSUME LinkInv, AgentsInv, [LinkNext]_linkVars, AgentRevoked PROVE AgentsInv'
<1>1. chat # <<>> /\ Top.at = "revoke" /\ UNCHANGED linkVars /\ UNCHANGED origins
  BY DEF AgentRevoked, At
<1>2. Top \in AgentRecords /\ phase[Top.link] \in Over
  BY <1>1, TopIsSound
<1>3. phase'[Top.link] \notin {"starting", "failing", "live"}
  BY <1>1, <1>2 DEF Over, linkVars
<1>4. PICK closed \in BOOLEAN : Leave(Top.done /\ closed)
  BY DEF AgentRevoked
<1>5. (Top.done /\ closed) \in BOOLEAN
  OBVIOUS
<1> QED BY <1>1, <1>3, <1>4, <1>5, AgentLeaves

----------------------------------------------------------------------------
LEMMA NextAgentsInv ==
  ASSUME LinkInv, SettingInv, ChatHeld, AgentsInv, [TaskNext]_taskVars PROVE AgentsInv'
<1>0. [LinkNext]_linkVars
  BY StepsOfTheHub
<1>1. CASE UNCHANGED <<chat, agentLinks, pageLost>>
  BY <1>0, <1>1, ChatUnchanged
<1>2. CASE AgentStep
  BY <1>0, <1>2, CreatedKeeps, MovesKeep, ReturnsKeep, SpawnKeeps, PageClosedKeeps,
     PageLostKeeps, RevokedKeeps DEF AgentStep
<1>3. CASE ChatBegins
  BY <1>0, <1>3, BeginKeeps
<1>4. CASE WebStep /\ ~ChatBegins
  <2>1. UNCHANGED <<chat, agentLinks, pageLost>>
    BY <1>4 DEF WebStep, SaveSettings, Saved, SaveFails, WebCreate, WebRevoke, WebLinkDone,
       Connect, ConnectCreated, Connected, ConnectFails, Swapped, Undone, Cancel,
       WebClose, WebListenerClosed, WebClosed, AdapterClosed
  <2> QED BY <1>1, <2>1
<1>5. CASE HubStep \/ UNCHANGED taskVars
  <2>1. UNCHANGED <<chat, agentLinks, pageLost>>
    BY <1>5 DEF HubStep
  <2> QED BY <1>1, <2>1
<1> QED BY <1>2, <1>3, <1>4, <1>5 DEF TaskNext, Exited

LEMMA InitAgents == TaskInit => ChatHeld /\ AgentsInv
<1> SUFFICES ASSUME TaskInit PROVE ChatHeld /\ AgentsInv
  OBVIOUS
<1>1. chat = <<>> /\ agentLinks = {}
  BY DEF TaskInit
<1>2. chat \in Seq(AgentRecords) /\ Len(chat) = 0
  BY <1>1, EmptySeq
<1>3. \A i \in 1..Len(chat) : FALSE
  BY <1>2
<1> QED BY <1>1, <1>2, <1>3 DEF ChatHeld, AgentsInv, TasksRevokeTheirLinks

(* What the Hub promises of its limit holds for the web service and its    *)
(* agents: overlapping creates, revocations and settings changes together  *)
(* never exceed maxActive.                                                 *)
THEOREM TasksHoldTheLimit == TaskSafety => []LimitHeld
  BY TasksUseTheHub, LimitIsHeld, PTL

(* The agents of a chat give back every link they created, by whatever     *)
(* path and at whatever depth their generators end, unless closing their   *)
(* page throws first (hub/orchestrator.mjs, the finally of agent).         *)
THEOREM LinksAreGivenBack == TaskSafety => []TasksRevokeTheirLinks
<1>1. LinkInv /\ SettingInv /\ ChatHeld /\ AgentsInv /\ [TaskNext]_taskVars => AgentsInv'
  BY NextAgentsInv
<1>2. AgentsInv => TasksRevokeTheirLinks
  BY DEF AgentsInv
<1> QED BY <1>1, <1>2, TasksUseTheHub, LinkInvHolds, InitSetting, NextSetting,
           NextChatHeld, InitAgents, PTL DEF TaskSafety

----------------------------------------------------------------------------
(***************************************************************************)
(* The limit and the saved setting.  While a setting is saved, maxActive   *)
(* is the new one.  A rollback that is refused is refused because links    *)
(* and creates in use exceed the old setting, and those never exceed       *)
(* maxActive.                                                              *)
(***************************************************************************)
CoverInv == (web = "saving" => maxActive = subject) /\ LimitCoversSetting

LEMMA InUseIsNat == LinkInv => InUse \in Nat
  BY LinksFinite DEF LinkInv, LinkTypeOK, InUse

(* An agent works only while its chat holds `busy'. *)
LEMMA AgentHoldsWeb ==
  ASSUME ChatHeld, AgentStep PROVE web = "chat" /\ web' \in {"chat", "idle"}
<1>1. chat # <<>> /\ web = "chat"
  BY DEF ChatHeld, AgentStep, AgentCreated, AgentConnected, AgentAnswers, ReplyFails, OverBudget,
     ToolCall, ToolReturns, SpawnAgent, SpawnFails, AgentPageClosed, AgentPageLost,
     AgentRevoked, At, Asks, Acts
<1>2. \A ok : Leave(ok) => web' \in {web, "idle"}
  BY DEF Leave, Idle, Become
<1>3. CASE AgentCreated \/ AgentPageClosed
  BY <1>1, <1>2, <1>3 DEF AgentCreated, AgentPageClosed
<1>4. CASE AgentPageLost \/ AgentRevoked
  BY <1>1, <1>2, <1>4 DEF AgentPageLost, AgentRevoked
<1>5. CASE \/ AgentConnected \/ AgentAnswers \/ ReplyFails \/ OverBudget \/ ToolCall
           \/ ToolReturns \/ SpawnAgent \/ SpawnFails
  BY <1>1, <1>5 DEF AgentConnected, AgentAnswers, ReplyFails, OverBudget, ToolCall,
                    ToolReturns, SpawnAgent, SpawnFails, agentRest
<1> QED BY <1>3, <1>4, <1>5 DEF AgentStep

LEMMA CoverStays ==
  ASSUME CoverInv, UNCHANGED <<maxActive, setting>>,
         UNCHANGED <<web, subject>> \/ (web # "saving" /\ web' # "saving")
  PROVE  CoverInv'
BY DEF CoverInv, LimitCoversSetting

LEMMA NextCover ==
  ASSUME LinkInv, SettingInv, ChatHeld, CoverInv, [TaskNext]_taskVars PROVE CoverInv'
<1> USE DEF Become, Idle, Free
<1>1. CASE \E limit \in Limits : SaveSettings(limit)
  BY <1>1 DEF SaveSettings, Configure, CoverInv, LimitCoversSetting
<1>2. CASE Saved
  <2>1. web = "saving" /\ subject \in Nat /\ maxActive' = subject /\ setting' = subject
    BY <1>2, LimitsAssumption DEF Saved, CoverInv, SettingInv, linkVars
  <2> QED BY <1>2, <2>1 DEF Saved, CoverInv, LimitCoversSetting
<1>3. CASE SaveFails
  <2>1. CASE Configure(setting)
    BY <1>3, <2>1, LimitsAssumption DEF SaveFails, Configure, CoverInv, LimitCoversSetting,
                                        SettingInv
  <2>2. CASE setting < InUse /\ UNCHANGED linkVars
    <3>1. InUse =< maxActive /\ InUse \in Nat /\ maxActive \in Nat /\ setting \in Nat
      BY InUseIsNat, LimitsAssumption DEF LinkInv, LinkTypeOK, SettingInv, Counts, LimitHeld
    <3>2. maxActive' >= setting'
      BY <1>3, <2>2, <3>1 DEF SaveFails, linkVars
    <3> QED BY <1>3, <3>2 DEF SaveFails, CoverInv, LimitCoversSetting
  <2> QED BY <1>3, <2>1, <2>2 DEF SaveFails
<1>4. CASE WebCreate \/ (\E l \in Links : WebRevoke(l)) \/ WebLinkDone
  BY <1>4, CoverStays DEF WebCreate, WebRevoke, WebLinkDone, Create, Revoke, linkVars
<1>5. CASE Connect \/ ConnectCreated \/ Connected \/ ConnectFails \/ Swapped \/ Undone
  BY <1>5, CoverStays DEF Connect, ConnectCreated, Connected, ConnectFails, Swapped, Undone, Undo,
                          Create, Revoke, linkVars
<1>6. CASE ChatBegins \/ Cancel
  BY <1>6, CoverStays DEF ChatBegins, NewAgent, Create, Cancel, linkVars
<1>7. CASE WebClose \/ WebListenerClosed \/ WebClosed \/ AdapterClosed
  BY <1>7, CoverStays DEF WebClose, WebListenerClosed, WebClosed, AdapterClosed, Revoke, CloseHub,
                          linkVars
<1>8. CASE AgentStep
  <2>1. UNCHANGED <<maxActive, setting>>
    BY <1>8 DEF AgentStep, AgentCreated, AgentConnected, AgentAnswers, ReplyFails, OverBudget,
       ToolCall, ToolReturns, SpawnAgent, SpawnFails, AgentPageClosed, AgentPageLost,
       AgentRevoked, NewAgent, Create, Revoke, linkVars
  <2>2. web = "chat" /\ web' \in {"chat", "idle"}
    BY <1>8, AgentHoldsWeb
  <2> QED BY <2>1, <2>2, CoverStays
<1>9. CASE HubStep \/ UNCHANGED taskVars
  BY <1>9, CoverStays DEF HubStep, Create, Revoke, WorkerReady, CreateFails, WorkerClosed, Expire,
                          Sweep, ListenersClosed, CreatesSettled, DeletesSettled, linkVars
<1> QED BY <1>1, <1>2, <1>3, <1>4, <1>5, <1>6, <1>7, <1>8, <1>9 DEF TaskNext, WebStep, Exited

(* A settings change that could not be saved never leaves the Hub below    *)
(* the limit its settings promise (hub/web-server.mjs, /api/settings).     *)
THEOREM RollbackIsCovered == TaskSafety => []LimitCoversSetting
<1>1. TaskInit => CoverInv
  BY LimitsAssumption DEF TaskInit, LinkInit, CoverInv, LimitCoversSetting
<1>2. LinkInv /\ SettingInv /\ ChatHeld /\ CoverInv /\ [TaskNext]_taskVars => CoverInv'
  BY NextCover
<1>3. CoverInv => LimitCoversSetting
  BY DEF CoverInv
<1> QED BY <1>1, <1>2, <1>3, TasksUseTheHub, LinkInvHolds, InitSetting, NextSetting,
           NextChatHeld, InitAgents, PTL DEF TaskSafety

----------------------------------------------------------------------------
(***************************************************************************)
(* The connection's link.  While /api/connect is under way there are two   *)
(* links that may serve, the new one and connectionLink; before the old    *)
(* one is swapped out it has been revoked, and whichever of the two the    *)
(* operation drops is out of the table when it does.                       *)
(***************************************************************************)
Connecting == {"connectCreate", "connecting", "swapping"}

ConnInv ==
    /\ \A l \in connectLinks : l \in Links /\ phase[l] # "unused"
    /\ connectionLink # 0 => connectionLink \in connectLinks /\ phase[connectionLink] \in Past
    /\ web \in Connecting => subject \in connectLinks
    /\ web \in {"connecting", "swapping"} => phase[subject] \in Past
    /\ web = "swapping" => connectionLink # 0 /\ phase[connectionLink] \in Over
    /\ \A l \in connectLinks : Alive(l) => l = connectionLink \/ (web \in Connecting /\ l = subject)

(* What is known of links only becomes more. *)
LEMMA ConnStays ==
  ASSUME LinkInv, ConnInv, [LinkNext]_linkVars, UNCHANGED <<connectLinks, connectionLink>>,
         UNCHANGED <<web, subject>> \/ (web \notin Connecting /\ web' \notin Connecting)
  PROVE  ConnInv'
<1>1. \A l \in connectLinks : MovesOn(l)
  BY LinksMoveOn DEF ConnInv
<1>2. \A l \in connectLinks : Alive(l)' => Alive(l)
  BY <1>1 DEF MovesOn, ConnInv
<1>3. \A l \in connectLinks' : l \in Links /\ phase'[l] # "unused"
  BY <1>1 DEF MovesOn, ConnInv
<1>4. connectionLink' # 0 => connectionLink' \in connectLinks' /\ phase'[connectionLink'] \in Past
  BY <1>1 DEF MovesOn, ConnInv
<1>5. /\ web' \in Connecting => subject' \in connectLinks' /\ web' = web /\ subject' = subject
      /\ web' \in {"connecting", "swapping"} => phase'[subject'] \in Past
      /\ web' = "swapping" => connectionLink' # 0 /\ phase'[connectionLink'] \in Over
  BY <1>1 DEF MovesOn, ConnInv, Connecting
<1>6. \A l \in connectLinks' :
         Alive(l)' => l = connectionLink' \/ (web' \in Connecting /\ l = subject')
  BY <1>2 DEF ConnInv
<1> QED BY <1>3, <1>4, <1>5, <1>6 DEF ConnInv

LEMMA ConnectKeeps ==
  ASSUME LinkInv, ConnInv, [LinkNext]_linkVars, Connect PROVE ConnInv'
<1>1. /\ web = "idle" /\ web' = "connectCreate" /\ subject' = NextLink
      /\ connectLinks' = connectLinks \cup {NextLink} /\ connectionLink' = connectionLink
      /\ Create(TRUE)
  BY DEF Connect, Free, Become
<1>2. NextLink \in Links /\ phase'[NextLink] = "starting"
  <2>1. created \in Nat /\ created < MaxLinks /\ phase \in [Links -> Phases]
    BY <1>1 DEF Create, LinkInv, LinkTypeOK
  <2>2. NextLink \in Links
    BY <2>1, MaxLinksAssumption DEF NextLink, Links
  <2> QED BY <1>1, <2>1, <2>2 DEF Create
<1>3. \A l \in connectLinks : MovesOn(l) /\ phase'[l] # "unused" /\ l \in Links
  BY LinksMoveOn DEF ConnInv, MovesOn
<1>4. \A l \in connectLinks' : l \in Links /\ phase'[l] # "unused"
  BY <1>1, <1>2, <1>3
<1>5. connectionLink' # 0 => connectionLink' \in connectLinks' /\ phase'[connectionLink'] \in Past
  BY <1>1, <1>3 DEF ConnInv, MovesOn
<1>6. \A l \in connectLinks' : Alive(l)' => l = connectionLink' \/ l = subject'
  BY <1>1, <1>3 DEF ConnInv, MovesOn, Connecting
<1> QED BY <1>1, <1>4, <1>5, <1>6 DEF ConnInv, Connecting

(* The operation goes on with the new link, or drops one that is out of the table. *)
LEMMA ConnMoves ==
  ASSUME LinkInv, ConnInv, [LinkNext]_linkVars, web \in Connecting, UNCHANGED connectLinks,
         phase[subject] \in Past,
         \/ web' = "connecting" /\ UNCHANGED <<subject, connectionLink>>
         \/ /\ web' = "swapping" /\ UNCHANGED <<subject, connectionLink>>
            /\ connectionLink # 0 /\ phase'[connectionLink] \in Over
         \/ web' \notin Connecting /\ connectionLink' = connectionLink /\ phase'[subject] \in Over
         \/ /\ web' \notin Connecting /\ connectionLink' = subject
            /\ connectionLink # 0 => phase'[connectionLink] \in Over
  PROVE  ConnInv'
<1>1. \A l \in connectLinks : MovesOn(l) /\ phase'[l] # "unused" /\ l \in Links
  BY LinksMoveOn DEF ConnInv, MovesOn
<1>2. subject \in connectLinks /\ phase'[subject] \in Past
  BY <1>1 DEF ConnInv, MovesOn
<1>3. connectionLink # 0 => connectionLink \in connectLinks /\ phase'[connectionLink] \in Past
  BY <1>1 DEF ConnInv, MovesOn
<1>4. \A l \in connectLinks : Alive(l)' => l = connectionLink \/ l = subject
  BY <1>1 DEF ConnInv, MovesOn
<1>5. \A l \in connectLinks : phase'[l] \in Over => ~Alive(l)'
  BY DEF Over, Alive
<1>6. \A l \in connectLinks : l # 0
  BY <1>1 DEF Links
<1> QED BY <1>1, <1>2, <1>3, <1>4, <1>5, <1>6 DEF ConnInv, Connecting

LEMMA OutOfTable ==
  ASSUME NEW l \in Links, phase[l] \in Past, Revoke(l) \/ (l \notin links /\ UNCHANGED linkVars)
  PROVE  phase'[l] \in Over
<1>1. CASE Revoke(l)
  BY <1>1 DEF Revoke, RevokeAll, Over
<1>2. CASE l \notin links /\ UNCHANGED linkVars
  BY <1>2 DEF links, Past, Over, linkVars
<1> QED BY <1>1, <1>2

LEMMA ConnectStepsKeep ==
  ASSUME LinkInv, ConnInv, [LinkNext]_linkVars,
         ConnectCreated \/ Connected \/ ConnectFails \/ Swapped
  PROVE  ConnInv'
<1> USE DEF Become, Idle
<1>0. /\ web \in Connecting /\ UNCHANGED connectLinks
      /\ subject \in connectLinks /\ subject \in Links /\ phase[subject] # "unused"
      /\ connectionLink # 0 => connectionLink \in Links /\ phase[connectionLink] \in Past
      /\ phase \in [Links -> Phases]
  BY DEF ConnectCreated, Connected, ConnectFails, Swapped, Connecting, ConnInv, LinkInv, LinkTypeOK
<1>1. phase[subject] \in Past
  <2>1. CASE ConnectCreated
    BY <1>0, <2>1 DEF ConnectCreated, Settled, Past, Phases
  <2>2. CASE Connected \/ ConnectFails \/ Swapped
    BY <2>2 DEF Connected, ConnectFails, Swapped, ConnInv
  <2> QED BY <2>1, <2>2
<1>2. Undo => web' \notin Connecting /\ phase'[subject] \in Over
  BY <1>0, <1>1, OutOfTable DEF Undo, Connecting
<1>3. CASE ConnectCreated
  <2>1. CASE phase[subject] = "failed"
    BY <1>0, <1>1, <1>3, <2>1, ConnMoves DEF ConnectCreated, Connecting, Over, linkVars
  <2>2. CASE phase[subject] # "failed"
    BY <1>0, <1>1, <1>3, <2>2, ConnMoves DEF ConnectCreated
  <2> QED BY <2>1, <2>2
<1>4. CASE Connected
  <2>1. CASE connectionLink \in links
    <3>1. /\ web' = "swapping" /\ UNCHANGED <<subject, connectionLink>>
          /\ connectionLink \in Links /\ Revoke(connectionLink) /\ phase[connectionLink] \in Past
      BY <1>4, <2>1 DEF Connected, links, Past
    <3>2. connectionLink # 0 /\ phase'[connectionLink] \in Over
      BY <3>1, OutOfTable DEF Links
    <3> QED BY <1>0, <1>1, <3>1, <3>2, ConnMoves
  <2>2. CASE connectionLink \notin links
    <3>1. web' = "idle" /\ connectionLink' = subject /\ UNCHANGED linkVars
      BY <1>4, <2>2 DEF Connected
    <3>2. connectionLink # 0 => phase'[connectionLink] \in Over
      BY <1>0, <2>2, <3>1, OutOfTable
    <3>3. web' \notin Connecting
      BY <3>1 DEF Connecting
    <3> QED BY <1>0, <1>1, <3>1, <3>2, <3>3, ConnMoves
  <2> QED BY <2>1, <2>2
<1>5. CASE ConnectFails
  BY <1>0, <1>1, <1>2, <1>5, ConnMoves DEF ConnectFails
<1>6. CASE Swapped
  <2>1. CASE Undo /\ UNCHANGED connectionLink
    BY <1>0, <1>1, <1>2, <2>1, ConnMoves
  <2>2. CASE connectionLink' = subject /\ Idle /\ UNCHANGED linkVars
    <3>1. web' \notin Connecting /\ phase'[connectionLink] \in Over
      BY <1>6, <2>2 DEF Swapped, ConnInv, Connecting, linkVars
    <3> QED BY <1>0, <1>1, <2>2, <3>1, ConnMoves
  <2> QED BY <1>6, <2>1, <2>2 DEF Swapped
<1> QED BY <1>3, <1>4, <1>5, <1>6

LEMMA NextConn ==
  ASSUME LinkInv, SettingInv, ChatHeld, ConnInv, [TaskNext]_taskVars PROVE ConnInv'
<1> USE DEF Become, Idle, Free
<1>0. [LinkNext]_linkVars
  BY StepsOfTheHub
<1>1. CASE Connect
  BY <1>0, <1>1, ConnectKeeps
<1>2. CASE ConnectCreated \/ Connected \/ ConnectFails \/ Swapped
  BY <1>0, <1>2, ConnectStepsKeep
<1>3. CASE AgentStep
  <2>1. UNCHANGED <<connectLinks, connectionLink>>
    BY <1>3 DEF AgentStep, AgentCreated, AgentConnected, AgentAnswers, ReplyFails, OverBudget,
       ToolCall, ToolReturns, SpawnAgent, SpawnFails, AgentPageClosed, AgentPageLost,
       AgentRevoked, NewAgent
  <2>2. web \notin Connecting /\ web' \notin Connecting
    BY <1>3, AgentHoldsWeb DEF Connecting
  <2> QED BY <1>0, <2>1, <2>2, ConnStays
<1>4. CASE \/ (\E limit \in Limits : SaveSettings(limit)) \/ Saved \/ SaveFails
           \/ WebCreate \/ (\E l \in Links : WebRevoke(l)) \/ WebLinkDone
           \/ Undone \/ ChatBegins
  <2>1. UNCHANGED <<connectLinks, connectionLink>>
    BY <1>4 DEF SaveSettings, Saved, SaveFails, WebCreate, WebRevoke, WebLinkDone, Undone,
                ChatBegins, NewAgent
  <2>2. web \notin Connecting /\ web' \notin Connecting
    BY <1>4 DEF SaveSettings, Saved, SaveFails, WebCreate, WebRevoke, WebLinkDone, Undone,
                ChatBegins, Connecting
  <2> QED BY <1>0, <2>1, <2>2, ConnStays
<1>5. CASE Cancel \/ WebClose \/ WebListenerClosed \/ WebClosed \/ AdapterClosed \/ HubStep
           \/ UNCHANGED taskVars
  <2>1. UNCHANGED <<connectLinks, connectionLink, web, subject>>
    BY <1>5 DEF Cancel, WebClose, WebListenerClosed, WebClosed, AdapterClosed, HubStep
  <2> QED BY <1>0, <2>1, ConnStays
<1> QED BY <1>1, <1>2, <1>3, <1>4, <1>5 DEF TaskNext, WebStep, Exited

(* The web service never loses sight of a link that does not expire: when  *)
(* no /api/connect is under way only connectionLink is in the table,       *)
(* however the last ones failed and whoever else revoked one of their      *)
(* links meanwhile (hub/web-server.mjs).                                   *)
THEOREM ConnectionIsTracked == TaskSafety => []ConnectionsAreTracked
<1>1. TaskInit => ConnInv
  BY DEF TaskInit, ConnInv, Connecting
<1>2. LinkInv /\ SettingInv /\ ChatHeld /\ ConnInv /\ [TaskNext]_taskVars => ConnInv'
  BY NextConn
<1>3. ConnInv => ConnectionsAreTracked
  BY DEF ConnInv, ConnectionsAreTracked, Connecting, links, Alive
<1> QED BY <1>1, <1>2, <1>3, TasksUseTheHub, LinkInvHolds, InitSetting, NextSetting,
           NextChatHeld, InitAgents, PTL DEF TaskSafety

----------------------------------------------------------------------------
(***************************************************************************)
(* The types, and the budget of a task.  The agents of a chat take their   *)
(* actions from one count, so what was carried out never exceeds what was  *)
(* asked for, and a child is pushed only where the depth allows it.        *)
(***************************************************************************)
AgentTyped(agent, ls) == agent.link \in ls /\ agent.round \in 0..(MaxRounds - 1)

ChatTyped ==
    /\ \A i \in 1..Len(chat) : AgentTyped(chat[i], agentLinks)
    /\ chat # <<>> => Top.at # "child"

LEMMA TopTyped ==
  ASSUME AgentsInv, ChatTyped, chat # <<>>,
         NEW agent \in AgentRecords, AgentTyped(agent, agentLinks),
         agent.at # "child", chat' = [chat EXCEPT ![Len(chat)] = agent],
         agentLinks' = agentLinks
  PROVE  ChatTyped' /\ Len(chat') = Len(chat) /\ chat' # <<>>
<1>1. /\ chat \in Seq(AgentRecords) /\ Len(chat) \in Nat /\ Len(chat) \in 1..Len(chat)
  BY EmptySeq DEF AgentsInv
<1>2. /\ chat' \in Seq(AgentRecords) /\ Len(chat') = Len(chat)
      /\ \A i \in 1..Len(chat) : chat'[i] = IF i = Len(chat) THEN agent ELSE chat[i]
  BY <1>1, ExceptSeq
<1>3. ASSUME NEW i \in 1..Len(chat')
      PROVE  AgentTyped(chat'[i], agentLinks')
  <2>1. chat'[i] \in {agent, chat[i]} /\ AgentTyped(chat[i], agentLinks)
    BY <1>2 DEF ChatTyped
  <2> QED BY <2>1
<1>4. Top'.at # "child"
  BY <1>1, <1>2 DEF Top
<1>5. chat' # <<>>
  BY <1>1, <1>2, EmptySeq
<1> QED BY <1>2, <1>3, <1>4, <1>5 DEF ChatTyped

LEMMA TopTypedAt ==
  ASSUME AgentsInv, ChatTyped, chat # <<>>, NEW place \in Places \ {"child"},
         NEW done \in BOOLEAN,
         \/ Goto(place)
         \/ chat' = [chat EXCEPT ![Len(chat)].at = place, ![Len(chat)].done = done],
         agentLinks' = agentLinks
  PROVE  ChatTyped' /\ Len(chat') = Len(chat) /\ chat' # <<>>
<1>1. /\ Len(chat) \in 1..Len(chat) /\ Top \in AgentRecords /\ chat \in Seq(AgentRecords)
      /\ AgentTyped(Top, agentLinks)
  BY TopIsSound DEF AgentsInv, ChatTyped, Top
<1>2. PICK agent \in {[Top EXCEPT !.at = place], [Top EXCEPT !.at = place, !.done = done]} :
         chat' = [chat EXCEPT ![Len(chat)] = agent]
  <2>1. CASE Goto(place)
    BY <1>1, <2>1 DEF Goto, Top
  <2>2. CASE chat' = [chat EXCEPT ![Len(chat)].at = place, ![Len(chat)].done = done]
    BY <1>1, <2>2 DEF Top
  <2> QED BY <2>1, <2>2
<1>3. /\ agent \in AgentRecords /\ agent.link = Top.link /\ agent.at = place
      /\ agent.round = Top.round
  <2>1. CASE agent = [Top EXCEPT !.at = place]
    BY <1>1, <2>1 DEF AgentRecords
  <2>2. CASE agent = [Top EXCEPT !.at = place, !.done = done]
    <3>1. agent = [link |-> Top.link, at |-> place, round |-> Top.round, done |-> done]
      BY <1>1, <2>2 DEF AgentRecords
    <3> QED BY <1>1, <3>1 DEF AgentRecords
  <2> QED BY <2>1, <2>2
<1> QED BY <1>1, <1>2, <1>3, TopTyped DEF AgentTyped

LEMMA PushTyped ==
  ASSUME AgentsInv, ChatTyped, NEW agents \in Seq(AgentRecords), Len(agents) = Len(chat),
         \A i \in 1..Len(chat) : agents[i].link = chat[i].link /\ agents[i].round = chat[i].round,
         NextLink \in Links, NewAgent(agents)
  PROVE  ChatTyped' /\ Len(chat') = Len(chat) + 1 /\ chat' # <<>>
<1> DEFINE n == Len(chat)
<1>1. chat \in Seq(AgentRecords) /\ n \in Nat
  BY LenProperties DEF AgentsInv
<1>2. Agent(NextLink) \in AgentRecords
  BY DEF Agent, AgentRecords, Places
<1>3. /\ chat' \in Seq(AgentRecords) /\ Len(chat') = n + 1
      /\ \A i \in 1..n : chat'[i] = agents[i]
      /\ chat'[n + 1] = Agent(NextLink)
  BY <1>1, <1>2 DEF NewAgent
<1>4. ASSUME NEW i \in 1..(n + 1)
      PROVE  AgentTyped(chat'[i], agentLinks')
  <2>1. CASE i = n + 1
    BY <1>3, <2>1, TaskAssumption DEF Agent, AgentTyped, NewAgent
  <2>2. CASE i # n + 1
    <3>1. i \in 1..n /\ AgentTyped(chat[i], agentLinks)
      BY <1>1, <2>2 DEF ChatTyped
    <3> QED BY <1>3, <3>1 DEF AgentTyped, NewAgent
  <2> QED BY <2>1, <2>2
<1>5. Top'.at # "child"
  BY <1>3 DEF Top, Agent
<1>6. chat' # <<>>
  BY <1>1, <1>3, EmptySeq
<1> QED BY <1>3, <1>4, <1>5, <1>6 DEF ChatTyped

LEMMA NextRoundTyped ==
  ASSUME NEW before \in AgentRecords, AgentTyped(before, agentLinks),
         NEW agent \in {NextRound(before), [before EXCEPT !.at = "close"]}
  PROVE  /\ agent \in AgentRecords /\ AgentTyped(agent, agentLinks) /\ agent.at # "child"
<1>1. agent \in AgentRecords /\ agent.link = before.link /\ agent.at \in {"reply", "close"}
  BY NextRoundIsAgent
<1>2. agent.round = before.round
      \/ (before.round + 1 < MaxRounds /\ agent.round = before.round + 1)
  BY DEF NextRound, AgentRecords
<1>3. agent.round \in 0..(MaxRounds - 1)
  BY <1>2, TaskAssumption DEF AgentTyped
<1> QED BY <1>1, <1>3 DEF AgentTyped

LEMMA LeaveTyped ==
  ASSUME AgentsInv, ChatTyped, chat # <<>>, NEW ok \in BOOLEAN, Leave(ok),
         agentLinks' = agentLinks
  PROVE  ChatTyped' /\ Len(chat') = Len(chat) - 1 /\ (chat' = <<>> <=> Len(chat) = 1)
<1> DEFINE n == Len(chat)
<1>1. /\ chat \in Seq(AgentRecords) /\ n \in Nat /\ n \in 1..n
      /\ \A i \in 1..n : chat[i] \in AgentRecords /\ AgentTyped(chat[i], agentLinks)
  BY EmptySeq, ElementOfSeq DEF AgentsInv, ChatTyped
<1>2. \A i \in 1..n : \A agent \in {NextRound(chat[i]), [chat[i] EXCEPT !.at = "close"]} :
          agent \in AgentRecords /\ AgentTyped(agent, agentLinks) /\ agent.at # "child"
  BY <1>1, NextRoundTyped
<1>3. CASE n = 1
  <2>1. chat' = <<>> /\ Len(chat') = 0
    BY <1>3, EmptySeq DEF Leave
  <2> QED BY <1>3, <2>1 DEF ChatTyped
<1>4. CASE n # 1
  <2> DEFINE f(i) == IF i < n - 1 THEN chat[i]
                     ELSE IF ok THEN NextRound(chat[i]) ELSE [chat[i] EXCEPT !.at = "close"]
  <2>1. n - 1 \in Nat /\ n - 1 \in 1..(n - 1) /\ n - 1 \in 1..n /\ 1..(n - 1) \subseteq 1..n
    <3>1. n \in Nat /\ n >= 2
      BY <1>1, <1>4
    <3> HIDE DEF n
    <3> QED BY <3>1
  <2>2. chat' = [i \in 1..(n - 1) |-> f(i)]
    BY <1>4 DEF Leave
  <2>3. \A i \in 1..(n - 1) : f(i) \in {chat[i], NextRound(chat[i]), [chat[i] EXCEPT !.at = "close"]}
    OBVIOUS
  <2>4. f(n - 1) \in {NextRound(chat[n - 1]), [chat[n - 1] EXCEPT !.at = "close"]}
    BY <2>1
  <2> HIDE DEF f
  <2>5. \A i \in 1..(n - 1) : f(i) \in AgentRecords /\ AgentTyped(f(i), agentLinks)
    BY <1>1, <1>2, <2>1, <2>3
  <2>6. f(n - 1).at # "child"
    BY <1>2, <2>1, <2>4
  <2>7. chat' \in [1..(n - 1) -> AgentRecords]
    BY <2>2, <2>5
  <2>8. chat' \in Seq(AgentRecords) /\ Len(chat') = n - 1
    BY <2>1, <2>7
  <2>9. chat' # <<>>
    BY <2>1, <2>8, EmptySeq
  <2>10. \A i \in 1..(n - 1) : chat'[i] = f(i)
    BY <2>2
  <2>11. \A i \in 1..(n - 1) : AgentTyped(chat'[i], agentLinks')
    BY <2>5, <2>10 DEF AgentTyped
  <2>12. Top'.at # "child"
    BY <2>1, <2>6, <2>8, <2>10 DEF Top
  <2> QED BY <1>4, <2>8, <2>9, <2>11, <2>12 DEF ChatTyped
<1> QED BY <1>3, <1>4

Stays == AgentConnected \/ AgentAnswers \/ ReplyFails \/ OverBudget \/ ToolCall \/ SpawnFails
         \/ ToolReturns

(* An agent ends its round, leaves the stack or works on: what that does to *)
(* the chat and to `busy'.                                                  *)
ChatStays == ChatTyped' /\ Len(chat') = Len(chat) /\ chat' # <<>> /\ web' = web /\ subject' = subject
ChatLeaves ==
    /\ ChatTyped' /\ Len(chat') = Len(chat) - 1
    /\ IF chat' = <<>> THEN web' = "idle" /\ subject' = 0 ELSE web' = web /\ subject' = subject
    /\ \/ UNCHANGED budget
       \/ actions' = 0 /\ spawned' = 0 /\ executed' = 0

LEMMA StaysTyped ==
  ASSUME AgentsInv, ChatTyped, Stays
  PROVE  ChatStays
<1>1. /\ chat # <<>> /\ agentLinks' = agentLinks /\ web' = web /\ subject' = subject
  BY DEF Stays, AgentConnected, AgentAnswers, ReplyFails, OverBudget, ToolCall, SpawnFails,
         ToolReturns, Acts, Asks, At
<1>2. /\ "close" \in Places \ {"child"} /\ "reply" \in Places \ {"child"}
      /\ "action" \in Places \ {"child"}
  BY DEF Places
<1>3. CASE \/ Goto("close") \/ Goto("reply") \/ Goto("action")
           \/ chat' = [chat EXCEPT ![Len(chat)].at = "close", ![Len(chat)].done = TRUE]
  BY <1>1, <1>2, <1>3, TopTypedAt DEF ChatStays
<1>4. CASE chat' = [chat EXCEPT ![Len(chat)] = NextRound(@)]
  <2>1. Len(chat) \in 1..Len(chat) /\ Top \in AgentRecords /\ chat \in Seq(AgentRecords)
    BY <1>1, TopIsSound DEF AgentsInv
  <2>2. chat' = [chat EXCEPT ![Len(chat)] = NextRound(Top)] /\ AgentTyped(Top, agentLinks)
    BY <1>4, <2>1 DEF Top, ChatTyped
  <2>3. NextRound(Top) \in AgentRecords /\ AgentTyped(NextRound(Top), agentLinks)
        /\ NextRound(Top).at # "child"
    BY <2>1, <2>2, NextRoundTyped
  <2> QED BY <1>1, <2>2, <2>3, TopTyped DEF ChatStays
<1> QED BY <1>3, <1>4 DEF Stays, AgentConnected, AgentAnswers, ReplyFails, OverBudget, ToolCall,
                          SpawnFails, ToolReturns

LEMMA LeavesTyped ==
  ASSUME AgentsInv, ChatTyped, chat # <<>>, NEW ok \in BOOLEAN, Leave(ok), agentLinks' = agentLinks
  PROVE  ChatLeaves
<1>1. ChatTyped' /\ Len(chat') = Len(chat) - 1 /\ (chat' = <<>> <=> Len(chat) = 1)
  BY LeaveTyped
<1>2. CASE Len(chat) = 1
  BY <1>1, <1>2 DEF Leave, Idle, Become, ChatLeaves
<1>3. CASE Len(chat) # 1
  BY <1>1, <1>3 DEF Leave, ChatLeaves
<1> QED BY <1>2, <1>3

LEMMA EndsTyped ==
  ASSUME LinkInv, AgentsInv, ChatTyped,
         AgentCreated \/ AgentPageClosed \/ AgentPageLost \/ AgentRevoked
  PROVE  ChatLeaves \/ (ChatStays /\ UNCHANGED budget)
<1>1. chat # <<>> /\ agentLinks' = agentLinks
  BY DEF AgentCreated, AgentPageClosed, AgentPageLost, AgentRevoked, At
<1>2. "close" \in Places \ {"child"} /\ "connect" \in Places \ {"child"}
      /\ "revoke" \in Places \ {"child"}
  BY DEF Places
<1>3. Top \in AgentRecords /\ Top.done \in BOOLEAN
  BY <1>1, TopIsSound DEF AgentRecords
<1>4. CASE \E ok \in BOOLEAN : Leave(ok)
  BY <1>1, <1>4, LeavesTyped
<1>5. CASE /\ Goto("close") \/ Goto("connect") \/ Goto("revoke")
           /\ UNCHANGED <<web, subject, budget>>
  BY <1>1, <1>2, <1>5, TopTypedAt DEF ChatStays
<1>6. \/ \E ok \in BOOLEAN : Leave(ok)
      \/ /\ Goto("close") \/ Goto("connect") \/ Goto("revoke")
         /\ UNCHANGED <<web, subject, budget>>
  <2>1. CASE AgentCreated
    BY <2>1 DEF AgentCreated
  <2>2. CASE AgentPageClosed
    BY <1>3, <2>2 DEF AgentPageClosed
  <2>3. CASE AgentPageLost
    BY <2>3 DEF AgentPageLost
  <2>4. CASE AgentRevoked
    <3>1. PICK closed \in BOOLEAN : Leave(Top.done /\ closed)
      BY <2>4 DEF AgentRevoked
    <3>2. (Top.done /\ closed) \in BOOLEAN
      OBVIOUS
    <3> QED BY <3>1, <3>2
  <2> QED BY <2>1, <2>2, <2>3, <2>4
<1> QED BY <1>4, <1>5, <1>6

BudgetInv ==
    /\ actions \in Nat /\ executed \in Nat /\ executed =< actions /\ executed =< MaxActions
    /\ spawned \in 0..MaxAgents /\ Len(chat) =< MaxDepth + 1

WebTyped ==
    /\ web \in {"idle", "saving", "creating", "revoking", "connectCreate", "connecting",
                "swapping", "undoing", "chat"}
    /\ subject \in Links \cup Limits \cup {0}
    /\ webState \in {"open", "closing", "revoking", "closed", "failed"}
    /\ (chat # <<>>) = (web = "chat")

TaskInv == ChatTyped /\ BudgetInv /\ WebTyped

LEMMA AgentStepTyped ==
  ASSUME LinkInv, AgentsInv, ChatHeld, TaskInv, AgentStep
  PROVE  TaskInv'
<1>1. ChatTyped /\ BudgetInv /\ WebTyped /\ Len(chat) \in Nat /\ web = "chat" /\ chat # <<>>
  BY AgentHoldsWeb, LenProperties DEF TaskInv, WebTyped, AgentsInv
<1>2. webState' = webState
  BY DEF AgentStep, AgentCreated, AgentConnected, AgentAnswers, ReplyFails, OverBudget,
         ToolCall, ToolReturns, SpawnAgent, SpawnFails, AgentPageClosed, AgentPageLost, AgentRevoked
<1>3. CASE Stays
  <2>1. ChatStays
    BY <1>1, <1>3, StaysTyped
  <2>2. BudgetInv'
    BY <1>1, <1>3, <2>1, TaskAssumption
    DEF Stays, AgentConnected, AgentAnswers, ReplyFails, OverBudget, ToolCall, SpawnFails,
        ToolReturns, Acts, Asks, MaySpawn, BudgetInv, ChatStays
  <2> QED BY <1>1, <1>2, <2>1, <2>2 DEF ChatStays, TaskInv, WebTyped
<1>4. CASE SpawnAgent
  <2> DEFINE agents == [chat EXCEPT ![Len(chat)].at = "child"]
  <2>1. /\ NewAgent(agents) /\ MaySpawn /\ spawned' = spawned + 1 /\ executed' = executed + 1
        /\ actions' = actions + 1 /\ actions' =< MaxActions
        /\ UNCHANGED <<web, subject>>
    BY <1>4 DEF SpawnAgent, Acts, Asks
  <2>2. /\ Len(chat) \in 1..Len(chat) /\ Top \in AgentRecords /\ chat \in Seq(AgentRecords)
    BY <1>1, TopIsSound DEF AgentsInv
  <2>3. [Top EXCEPT !.at = "child"] \in AgentRecords
    BY <2>2 DEF AgentRecords, Places
  <2>4. agents = [chat EXCEPT ![Len(chat)] = [Top EXCEPT !.at = "child"]]
    BY <2>2 DEF Top
  <2>5. /\ agents \in Seq(AgentRecords) /\ Len(agents) = Len(chat)
        /\ \A i \in 1..Len(chat) :
              agents[i] = IF i = Len(chat) THEN [Top EXCEPT !.at = "child"] ELSE chat[i]
    BY <2>2, <2>3, <2>4, ExceptSeq
  <2> HIDE DEF agents
  <2>6. \A i \in 1..Len(chat) : agents[i].link = chat[i].link /\ agents[i].round = chat[i].round
    BY <2>2, <2>5 DEF Top, AgentRecords
  <2>7. NextLink \in Links
    BY <2>1, MaxLinksAssumption DEF NewAgent, Create, LinkInv, LinkTypeOK, NextLink, Links
  <2>8. ChatTyped' /\ Len(chat') = Len(chat) + 1 /\ chat' # <<>>
    BY <1>1, <2>1, <2>5, <2>6, <2>7, PushTyped
  <2>9. BudgetInv'
    BY <1>1, <2>1, <2>8, TaskAssumption DEF MaySpawn, BudgetInv
  <2> QED BY <1>1, <1>2, <2>1, <2>8, <2>9 DEF TaskInv, WebTyped
<1>5. CASE AgentCreated \/ AgentPageClosed \/ AgentPageLost \/ AgentRevoked
  <2>1. ChatLeaves \/ (ChatStays /\ UNCHANGED budget)
    BY <1>1, <1>5, EndsTyped
  <2>2. ChatTyped' /\ BudgetInv'
    BY <1>1, <2>1, TaskAssumption DEF ChatLeaves, ChatStays, BudgetInv
  <2>3. WebTyped'
    BY <1>1, <1>2, <2>1 DEF ChatLeaves, ChatStays, WebTyped
  <2> QED BY <2>2, <2>3 DEF TaskInv
<1> QED BY <1>3, <1>4, <1>5 DEF AgentStep, Stays

LEMMA ChatBeginsTyped ==
  ASSUME LinkInv, AgentsInv, TaskInv, ChatBegins
  PROVE  TaskInv'
<1>1. /\ chat = <<>> /\ NewAgent(<<>>) /\ web' = "chat" /\ subject' = 0
      /\ UNCHANGED <<webState, budget>>
  BY DEF ChatBegins, Free, Become, TaskInv, WebTyped
<1>2. <<>> \in Seq(AgentRecords) /\ Len(chat) = 0
  BY <1>1, EmptySeq
<1>3. NextLink \in Links
  BY <1>1, MaxLinksAssumption DEF NewAgent, Create, LinkInv, LinkTypeOK, NextLink, Links
<1>4. ChatTyped' /\ Len(chat') = Len(chat) + 1 /\ chat' # <<>>
  BY <1>1, <1>2, <1>3, PushTyped DEF TaskInv
<1>5. BudgetInv'
  BY <1>1, <1>2, <1>4, TaskAssumption DEF TaskInv, BudgetInv
<1> QED BY <1>1, <1>4, <1>5 DEF TaskInv, WebTyped

LEMMA NextTyped ==
  ASSUME LinkInv, AgentsInv, ChatHeld, TaskInv, [TaskNext]_taskVars
  PROVE  TaskInv'
<1>1. ASSUME UNCHANGED <<chat, budget, agentLinks>>,
             \/ UNCHANGED web
             \/ web # "chat" /\ web' \in {"idle", "saving", "creating", "revoking",
                                          "connectCreate", "connecting", "swapping", "undoing"},
             subject' \in {subject, 0} \cup Links \cup Limits,
             webState' \in {"open", "closing", "revoking", "closed", "failed"}
      PROVE  TaskInv'
  <2>1. WebTyped'
    BY <1>1 DEF TaskInv, WebTyped
  <2>2. ChatTyped' /\ BudgetInv'
    BY <1>1 DEF TaskInv, ChatTyped, BudgetInv, Top
  <2> QED BY <2>1, <2>2 DEF TaskInv
<1>2. webState \in {"open", "closing", "revoking", "closed", "failed"}
  BY DEF TaskInv, WebTyped
<1>3. CASE \/ (\E limit \in Limits : SaveSettings(limit)) \/ Saved \/ SaveFails
           \/ (\E l \in Links : WebRevoke(l)) \/ WebLinkDone
  BY <1>1, <1>2, <1>3 DEF SaveSettings, Saved, SaveFails, WebRevoke, WebLinkDone, Free, Become, Idle
<1>4. CASE WebCreate \/ Connect
  <2>1. NextLink \in Links
    BY <1>4, MaxLinksAssumption
    DEF WebCreate, Connect, Create, LinkInv, LinkTypeOK, NextLink, Links
  <2> QED BY <1>1, <1>2, <1>4, <2>1 DEF WebCreate, Connect, Free, Become
<1>5. CASE ConnectCreated \/ Connected \/ ConnectFails \/ Swapped \/ Undone
  BY <1>1, <1>2, <1>5 DEF ConnectCreated, Connected, ConnectFails, Swapped, Undone, Undo, Become, Idle
<1>6. CASE Cancel \/ WebClose \/ WebListenerClosed \/ WebClosed \/ AdapterClosed \/ HubStep
           \/ UNCHANGED taskVars
  BY <1>1, <1>2, <1>6 DEF Cancel, WebClose, WebListenerClosed, WebClosed, AdapterClosed, HubStep
<1>7. CASE ChatBegins
  BY <1>7, ChatBeginsTyped
<1>8. CASE AgentStep
  BY <1>8, AgentStepTyped
<1> QED BY <1>3, <1>4, <1>5, <1>6, <1>7, <1>8 DEF TaskNext, WebStep, Exited

(* The state of the web service and of its chats stays in its types; only  *)
(* the top agent of a chat is not waiting for a child, and however deep    *)
(* its agents nest, all together keep to the budget of the task            *)
(* (hub/orchestrator.mjs, run and agent).                                  *)
THEOREM TasksAreTyped == TaskSafety => []TaskTypeOK
<1>1. TaskInit => TaskInv /\ ConnInv
  <2> SUFFICES ASSUME TaskInit PROVE TaskInv /\ ConnInv
    OBVIOUS
  <2>1. chat = <<>> /\ Len(chat) = 0
    BY EmptySeq DEF TaskInit
  <2>2. ConnInv
    BY DEF TaskInit, ConnInv, Connecting
  <2> QED BY <2>1, <2>2, TaskAssumption DEF TaskInit, TaskInv, ChatTyped, BudgetInv, WebTyped
<1>2. LinkInv /\ SettingInv /\ ChatHeld /\ ConnInv /\ [TaskNext]_taskVars => ConnInv'
  BY NextConn
<1>3. LinkInv /\ SettingInv /\ ChatHeld /\ AgentsInv /\ [TaskNext]_taskVars => AgentsInv'
  BY NextAgentsInv
<1>4. LinkInv /\ AgentsInv /\ ChatHeld /\ TaskInv /\ [TaskNext]_taskVars => TaskInv'
  BY NextTyped
<1>5. LinkInv /\ SettingInv /\ AgentsInv /\ ConnInv /\ TaskInv => TaskTypeOK
  <2> SUFFICES ASSUME LinkInv, SettingInv, AgentsInv, ConnInv, TaskInv PROVE TaskTypeOK
    OBVIOUS
  <2>1. LinkTypeOK /\ setting \in Limits /\ connectionLink \in connectLinks \cup {0}
    BY DEF LinkInv, SettingInv, ConnInv
  <2>2. chat \in Seq(AgentRecords) /\ DOMAIN chat = 1..Len(chat) /\ Len(chat) \in Nat
    BY LenProperties DEF AgentsInv
  <2>3. ASSUME NEW i \in DOMAIN chat
        PROVE  /\ chat[i].link \in agentLinks
               /\ chat[i].round \in 0..(MaxRounds - 1)
               /\ (chat[i].at = "child") = (i < Len(chat))
    <3>1. i \in 1..Len(chat) /\ AgentTyped(chat[i], agentLinks)
      BY <2>2, <2>3 DEF TaskInv, ChatTyped
    <3>2. CASE i < Len(chat)
      BY <3>1, <3>2 DEF AgentsInv, AgentTyped
    <3>3. CASE i = Len(chat)
      <4>1. chat # <<>>
        BY <2>2, <3>1, EmptySeq
      <4> QED BY <3>1, <3>3, <4>1 DEF TaskInv, ChatTyped, AgentTyped, Top
    <3> QED BY <2>2, <3>1, <3>2, <3>3
  <2> QED BY <2>1, <2>3, TaskAssumption DEF TaskTypeOK, TaskInv, BudgetInv, WebTyped
<1> QED BY <1>1, <1>2, <1>3, <1>4, <1>5, TasksUseTheHub, LinkInvHolds, InitSetting, NextSetting,
           NextChatHeld, InitAgents, PTL DEF TaskSafety
=============================================================================
