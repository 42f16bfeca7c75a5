------------------------- MODULE AgentRuntimeProofs -------------------------
(***************************************************************************)
(* What AgentRuntime.tla promises of approvals and of cancels, for any     *)
(* number of prompts and turns and any batches.                            *)
(*                                                                         *)
(* EffectsAreApproved is not inductive: a decision acts on the run only    *)
(* after it has crossed a pipe, and the question crossed one before that.  *)
(* The invariant adds what is known of a run at each of its places         *)
(* (RunOK), and that every approval in a pipe or in the view has been      *)
(* asked for, so that a later question cannot be answered by it (Past).    *)
(***************************************************************************)
EXTENDS AgentRuntime, TLAPS

USE DEF gatewayVars, runVars, stdioVars, clientVars, vars

Away == {"idle", "sent", "lost", "ended"}
Over == {"lost", "ended"}
Inner == Stations \ (Away \cup {"approval"})
Asking == {"issuing", "requesting", "approval", "decided"}

\* The user has allowed the call, if it needs that.
Allowed(r, i) == NonIdempotent(r, i) => <<r, turn[r], i>> \in allowed

(* What is known of a run at its place. *)
RunOK(r) ==
    /\ pc[r] \in Away \cup {"starting"} => turn[r] = 0
    /\ pc[r] = "model" => turn[r] < MaxTurns
    /\ pc[r] \in Asking => /\ calls[r] \in Batches /\ turn[r] >= 1 /\ at[r] >= 1
                           /\ \A i \in Batch(r) : i < at[r] => Allowed(r, i)
    /\ pc[r] \in {"requesting", "approval", "decided"} => at[r] \in Batch(r)
    /\ pc[r] = "decided" => approvals[r][at[r]] = "DENIED" \/ Allowed(r, at[r])
    /\ pc[r] \in {"requested", "executing", "completed"} =>
          at[r] \in Batch(r) /\ \A i \in Batch(r) : Allowed(r, i)
    /\ pc[r] # "parallel" => running[r] \subseteq IF pc[r] = "executing" THEN {at[r]} ELSE {}
    /\ \A i \in effects[r] : Allowed(r, i)

(* The approval has been asked for: its run will not ask for it again. *)
Past(a) ==
    \/ pc[a[1]] \in Over
    \/ a[2] < turn[a[1]]
    \/ /\ a[2] = turn[a[1]]
       /\ \/ pc[a[1]] \notin Asking
          \/ a[3] < at[a[1]]
          \/ a[3] = at[a[1]] /\ pc[a[1]] \in {"approval", "decided"}

OrderOK(m) ==
    /\ m.type = "run.start" => pc[m.request] = "sent"
    /\ m.type = "approval.decide" =>
          /\ Past(m.approval)
          /\ m.decision = "ALLOW" /\ m.approval \in pendingApprovals => m.approval \in allowed

ReportOK(m) ==
    /\ m.type = "approval.needed" => Past(m.approval)
    /\ m.type = "run.completed" => pc[m.request] = "ended"

StartsOnce ==
    \A j, k \in DOMAIN stdin :
        /\ stdin[j].type = "run.start" /\ stdin[k].type = "run.start"
        /\ stdin[j].request = stdin[k].request
        => j = k

PipesOK ==
    /\ \A k \in DOMAIN stdin : OrderOK(stdin[k])
    /\ StartsOnce
    /\ \A k \in DOMAIN stdout : ReportOK(stdout[k])
    /\ waiter # None => Past(waiter)

(* Every run under way has a client that waits for it and a living process. *)
Listened == \A r \in Runs : pc[r] \notin {"idle", "lost", "ended"} => r \in pending /\ child = "up"

LocalTypes ==
    /\ GatewayTypeOK /\ pc \in [Runs -> Stations]
    /\ turn \in [Runs -> 0..MaxTurns] /\ at \in [Runs -> 0..(MaxCalls + 1)]
    /\ approvals \in [Runs -> [Places -> {"none", "PENDING", "APPROVED", "DENIED"}]]
    /\ allowed \subseteq Approval

AgentInv == TypeOK /\ Listened /\ PipesOK /\ \A r \in Runs : RunOK(r)

(* Only the run r moves. *)
Only(r) ==
    \A s \in Runs \ {r} :
        /\ pc'[s] = pc[s] /\ turn'[s] = turn[s] /\ at'[s] = at[s] /\ approvals'[s] = approvals[s]
        /\ calls'[s] = calls[s] /\ caps'[s] = caps[s]
        /\ running'[s] = running[s] /\ effects'[s] = effects[s]

OthersAllowed(r) == \A a \in Approval : a[1] # r => (a \in allowed' <=> a \in allowed)

LocalGood(r) ==
    /\ LocalTypes' /\ RunOK(r)' /\ Only(r) /\ OthersAllowed(r)
    /\ \A a \in Approval : a[1] = r /\ Past(a) => Past(a)'

----------------------------------------------------------------------------
(* Steps of one run *)

LEMMA OthersKeep ==
  ASSUME AgentInv, NEW r \in Runs, LocalGood(r)
  PROVE  /\ \A s \in Runs : RunOK(s)'
         /\ \A a \in Approval : Past(a) => Past(a)'
<1>1. ASSUME NEW s \in Runs, s # r
      PROVE  RunOK(s)'
  <2>1. /\ pc'[s] = pc[s] /\ turn'[s] = turn[s] /\ at'[s] = at[s]
        /\ approvals'[s] = approvals[s] /\ calls'[s] = calls[s]
        /\ running'[s] = running[s] /\ effects'[s] = effects[s]
    BY <1>1 DEF LocalGood, Only
  <2>2. RunOK(s) /\ turn[s] \in 0..MaxTurns
    BY DEF AgentInv, TypeOK
  <2>3. effects[s] \subseteq Batch(s)
    BY DEF AgentInv, TypeOK, GatewayTypeOK
  <2>4. ASSUME NEW i \in Batch(s), Allowed(s, i)
        PROVE  Allowed(s, i)'
    <3>1. NonIdempotent(s, i)' <=> NonIdempotent(s, i)
      BY <2>1 DEF NonIdempotent
    <3>2. CASE NonIdempotent(s, i)
      <4>1. <<s, turn[s], i>> \in allowed
        BY <2>4, <3>2 DEF Allowed
      <4>2. <<s, turn[s], i>> \in Approval
        BY <4>1 DEF AgentInv, TypeOK
      <4>3. <<s, turn[s], i>> \in allowed'
        BY <1>1, <4>1, <4>2 DEF LocalGood, OthersAllowed
      <4> QED BY <2>1, <4>3 DEF Allowed
    <3> QED BY <3>1, <3>2 DEF Allowed
  <2>5. Batch(s)' = Batch(s)
    BY <2>1 DEF Batch
  <2> QED BY <2>1, <2>2, <2>3, <2>4, <2>5 DEF RunOK
<1>2. ASSUME NEW a \in Approval, Past(a), a[1] # r
      PROVE  Past(a)'
  <2>1. a[1] \in Runs
    BY DEF Approval
  <2> QED BY <1>2, <2>1 DEF Past, LocalGood, Only
<1> QED BY <1>1, <1>2 DEF LocalGood

(* A step of run() or of a tool: pipes, client and view are left alone. *)
LEMMA InnerKeeps ==
  ASSUME AgentInv, NEW r \in Runs, LocalGood(r),
         pc[r] \in Inner, pc'[r] \in Inner,
         allowed' \subseteq allowed,
         UNCHANGED <<aborted, stdioVars, stdout, clientVars>>
  PROVE  AgentInv'
<1>1. /\ \A s \in Runs : RunOK(s)'
      /\ \A a \in Approval : Past(a) => Past(a)'
  BY OthersKeep
<1>2. \A s \in Runs \ {r} : pc'[s] = pc[s] /\ turn'[s] = turn[s] /\ at'[s] = at[s]
  BY DEF LocalGood, Only
<1>3. TypeOK'
  <2>1. active' = {s \in Runs : pc'[s] \notin Away}
    BY <1>2 DEF AgentInv, TypeOK, Inner, Away
  <2>2. pendingApprovals' = {<<s, turn'[s], at'[s]>> : s \in {u \in Runs : pc'[u] = "approval"}}
    <3>1. {u \in Runs : pc'[u] = "approval"} = {u \in Runs : pc[u] = "approval"}
      BY <1>2 DEF Inner
    <3>2. r \notin {u \in Runs : pc[u] = "approval"}
      BY DEF Inner
    <3>3. pendingApprovals = {<<s, turn[s], at[s]>> : s \in {u \in Runs : pc[u] = "approval"}}
      BY DEF AgentInv, TypeOK
    <3> QED BY <1>2, <3>1, <3>2, <3>3
  <2> QED BY <2>1, <2>2 DEF AgentInv, TypeOK, LocalGood, LocalTypes, Away
<1>4. Listened'
  BY <1>2 DEF AgentInv, Listened, Inner, Away
<1>5. ASSUME NEW a \in pendingApprovals, a \in allowed PROVE a \in allowed'
  <2>1. PICK s \in Runs : pc[s] = "approval" /\ a = <<s, turn[s], at[s]>>
    BY DEF AgentInv, TypeOK
  <2> QED BY <1>5, <2>1 DEF LocalGood, OthersAllowed, AgentInv, TypeOK, Inner
<1>6. PipesOK'
  <2>1. ASSUME NEW m \in Orders, OrderOK(m) PROVE OrderOK(m)'
    <3>1. CASE m.type = "approval.decide"
      <4>1. m.approval \in Approval /\ m.type # "run.start"
        BY <3>1 DEF Orders
      <4> QED BY <1>1, <1>5, <2>1, <3>1, <4>1 DEF OrderOK
    <3>2. CASE m.type = "run.start"
      <4>1. m.request \in Runs
        BY <3>2 DEF Orders
      <4> QED BY <1>2, <2>1, <3>2, <4>1 DEF OrderOK, Inner, Away
    <3> QED BY <3>1, <3>2 DEF OrderOK
  <2>2. ASSUME NEW m \in Reports, ReportOK(m) PROVE ReportOK(m)'
    <3>1. CASE m.type = "approval.needed"
      <4>1. m.approval \in Approval /\ m.type # "run.completed"
        BY <3>1 DEF Reports
      <4> QED BY <1>1, <2>2, <3>1, <4>1 DEF ReportOK
    <3>2. CASE m.type = "run.completed"
      <4>1. m.request \in Runs
        BY <3>2 DEF Reports
      <4> QED BY <1>2, <2>2, <3>2, <4>1 DEF ReportOK, Inner, Away
    <3> QED BY <3>1, <3>2 DEF ReportOK
  <2>3. stdin \in Seq(Orders) /\ stdout \in Seq(Reports)
    BY DEF AgentInv, TypeOK
  <2>4. (\A k \in DOMAIN stdin : OrderOK(stdin[k]))'
    BY <2>1, <2>3 DEF AgentInv, PipesOK
  <2>5. (\A k \in DOMAIN stdout : ReportOK(stdout[k]))'
    BY <2>2, <2>3 DEF AgentInv, PipesOK
  <2>6. StartsOnce'
    BY DEF AgentInv, PipesOK, StartsOnce
  <2>7. (waiter # None => Past(waiter))'
    BY <1>1 DEF AgentInv, PipesOK, TypeOK
  <2> QED BY <2>4, <2>5, <2>6, <2>7 DEF PipesOK
<1> QED BY <1>1, <1>3, <1>4, <1>6 DEF AgentInv

----------------------------------------------------------------------------
(* run() and executeToolBatch, step by step *)

(* Within a batch what has been asked for stays asked for. *)
LEMMA PastStays ==
  ASSUME AgentInv, NEW r \in Runs, turn'[r] = turn[r], pc[r] \notin Over, at'[r] \in Nat,
         \/ pc'[r] \notin Asking
         \/ /\ pc[r] \in Asking
            /\ \/ at'[r] > at[r]
               \/ at'[r] = at[r] /\ pc[r] \in {"issuing", "requesting"}
               \/ at'[r] = at[r] /\ pc'[r] \in {"approval", "decided"}
  PROVE  \A a \in Approval : a[1] = r /\ Past(a) => Past(a)'
<1> TAKE a \in Approval
<1>1. turn[r] \in Nat /\ at[r] \in Nat /\ a[2] \in Nat /\ a[3] \in Nat
  BY MaxTurnsAssumption, MaxCallsAssumption DEF AgentInv, TypeOK, Approval, Places
<1>2. CASE pc'[r] \notin Asking
  BY <1>2 DEF Past
<1>3. CASE pc'[r] \in Asking /\ at'[r] > at[r]
  BY <1>1, <1>3 DEF Past, Asking
<1>4. CASE pc'[r] \in Asking /\ at'[r] = at[r]
  BY <1>1, <1>4 DEF Past, Asking
<1> QED BY <1>2, <1>3, <1>4

LEMMA SameBatch ==
  ASSUME NEW r \in Runs, calls'[r] = calls[r], turn'[r] = turn[r], UNCHANGED allowed
  PROVE  /\ Batch(r)' = Batch(r)
         /\ \A i \in Batch(r) : Allowed(r, i)' <=> Allowed(r, i)
BY DEF Batch, Allowed, NonIdempotent

LEMMA BatchPlaces ==
  ASSUME AgentInv, NEW r \in Runs
  PROVE  /\ Batch(r) \subseteq Places /\ Places \subseteq 0..(MaxCalls + 1)
         /\ calls[r] \in Batches => \E n \in 1..MaxCalls : Batch(r) = 1..n
<1>1. calls[r] \in Batches \cup {<<>>}
  BY DEF AgentInv, TypeOK, GatewayTypeOK
<1>2. CASE calls[r] \in Batches
  <2>1. PICK n \in 1..MaxCalls : Batch(r) = 1..n
    BY <1>2, BatchesAssumption DEF Batch
  <2> QED BY <2>1, MaxCallsAssumption DEF Places
<1>3. CASE calls[r] = <<>> /\ calls[r] \notin Batches
  <2>1. Batch(r) = {}
    BY <1>3 DEF Batch
  <2> QED BY <1>3, <2>1, MaxCallsAssumption DEF Places
<1> QED BY <1>1, <1>2, <1>3

(* The run goes to another place of the same batch. *)
LEMMA WithinBatch ==
  ASSUME AgentInv, NEW r \in Runs, NEW place \in Stations, pc[r] \notin Over,
         NEW i \in 0..(MaxCalls + 1), Goto(r, place), Loop(r, i),
         UNCHANGED <<turn, calls, allowed>>,
         approvals' \in [Runs -> [Places -> {"none", "PENDING", "APPROVED", "DENIED"}]],
         caps' \in [Runs -> SUBSET Places], running' \in [Runs -> SUBSET Places],
         effects' \in [Runs -> SUBSET Places],
         caps'[r] \cup running'[r] \cup effects'[r] \subseteq Batch(r),
         \A s \in Runs \ {r} : /\ approvals'[s] = approvals[s] /\ caps'[s] = caps[s]
                               /\ running'[s] = running[s] /\ effects'[s] = effects[s],
         RunOK(r)',
         \/ place \notin Asking
         \/ /\ pc[r] \in Asking
            /\ \/ i > at[r]
               \/ i = at[r] /\ pc[r] \in {"issuing", "requesting"}
               \/ i = at[r] /\ place \in {"approval", "decided"}
  PROVE  LocalGood(r) /\ pc'[r] = place
<1> USE DEF AgentInv, TypeOK
<1>1. pc' = [pc EXCEPT ![r] = place] /\ at' = [at EXCEPT ![r] = i]
  BY DEF Goto, Loop
<1>2. pc'[r] = place /\ at'[r] = i /\ turn'[r] = turn[r]
  BY <1>1
<1>3. \A a \in Approval : a[1] = r /\ Past(a) => Past(a)'
  <2>1. i \in Nat
    BY MaxCallsAssumption
  <2> HIDE DEF AgentInv
  <2> QED BY <1>2, <2>1, PastStays
<1>4. Only(r)
  BY <1>1 DEF Only
<1>5. GatewayTypeOK'
  <2>1. \A s \in Runs : caps'[s] \cup effects'[s] \cup running'[s] \subseteq Batch(s)'
    BY <1>4 DEF Only, GatewayTypeOK, Batch
  <2> QED BY <2>1 DEF GatewayTypeOK
<1>6. LocalTypes'
  BY <1>1, <1>5 DEF LocalTypes
<1> QED BY <1>2, <1>3, <1>4, <1>6 DEF LocalGood, OthersAllowed


(* The gateway only takes a capability back, or does nothing. *)
LEMMA FinishGood ==
  ASSUME AgentInv, NEW r \in Runs, pc[r] \in Inner \cup {"approval"}, running[r] = {},
         Finish(r), UNCHANGED allowed,
         UNCHANGED gatewayVars \/ \E i \in Places : Revoke(r, i)
  PROVE  LocalGood(r) /\ pc'[r] \in Inner
<1> USE DEF Finish, Revoke
<1>1. /\ calls' = calls /\ running' = running /\ effects' = effects
      /\ caps' \in [Runs -> SUBSET Places] /\ caps'[r] \subseteq caps[r]
      /\ \A s \in Runs \ {r} : caps'[s] = caps[s]
  BY DEF AgentInv, TypeOK, GatewayTypeOK
<1>2. \A i \in effects[r] : Allowed(r, i)'
  BY <1>1, SameBatch DEF AgentInv, RunOK, TypeOK, GatewayTypeOK
<1>3. pc'[r] = "finishing"
  BY DEF Goto, AgentInv, TypeOK
<1>4. RunOK(r)'
  BY <1>1, <1>2, <1>3 DEF RunOK, Away, Asking
<1>5. /\ Goto(r, "finishing") /\ Loop(r, at[r]) /\ at[r] \in 0..(MaxCalls + 1)
      /\ UNCHANGED <<approvals, turn, calls, allowed>>
      /\ approvals' \in [Runs -> [Places -> {"none", "PENDING", "APPROVED", "DENIED"}]]
      /\ caps'[r] \cup running'[r] \cup effects'[r] \subseteq Batch(r)
      /\ running' \in [Runs -> SUBSET Places] /\ effects' \in [Runs -> SUBSET Places]
  BY <1>1 DEF AgentInv, TypeOK, GatewayTypeOK, Loop
<1>6. "finishing" \in Stations \cap Inner /\ "finishing" \notin Asking /\ pc[r] \notin Over
  BY DEF Stations, Inner, Away, Asking, Over
<1>7. \A s \in Runs \ {r} : /\ approvals'[s] = approvals[s] /\ caps'[s] = caps[s]
                            /\ running'[s] = running[s] /\ effects'[s] = effects[s]
  BY <1>1, <1>5
<1> QED BY <1>1, <1>4, <1>5, <1>6, <1>7, WithinBatch

LEMMA NextTurnGood ==
  ASSUME AgentInv, NEW r \in Runs, pc[r] \in Inner, running[r] = {},
         NextTurn(r), UNCHANGED allowed, UNCHANGED gatewayVars
  PROVE  LocalGood(r) /\ pc'[r] \in Inner
<1>1. CASE Finish(r)
  BY <1>1, FinishGood
<1>2. CASE turn[r] < MaxTurns /\ Goto(r, "model") /\ UNCHANGED <<turn, at, approvals>>
  <2>1. \A i \in effects[r] : Allowed(r, i)'
    BY <1>2, SameBatch DEF AgentInv, RunOK, TypeOK, GatewayTypeOK
  <2>2. pc'[r] = "model"
    BY <1>2 DEF Goto, AgentInv, TypeOK
  <2>3. RunOK(r)'
    BY <1>2, <2>1, <2>2 DEF RunOK, Away, Asking
  <2>4. /\ at[r] \in 0..(MaxCalls + 1) /\ Loop(r, at[r])
        /\ approvals' \in [Runs -> [Places -> {"none", "PENDING", "APPROVED", "DENIED"}]]
        /\ caps'[r] \cup running'[r] \cup effects'[r] \subseteq Batch(r)
        /\ caps' \in [Runs -> SUBSET Places]
        /\ running' \in [Runs -> SUBSET Places] /\ effects' \in [Runs -> SUBSET Places]
    BY <1>2 DEF AgentInv, TypeOK, GatewayTypeOK, Loop
  <2>5. "model" \in Stations \cap Inner /\ "model" \notin Asking /\ pc[r] \notin Over
    BY DEF Stations, Inner, Away, Asking, Over
  <2>6. \A s \in Runs \ {r} : /\ approvals'[s] = approvals[s] /\ caps'[s] = caps[s]
                              /\ running'[s] = running[s] /\ effects'[s] = effects[s]
    BY <1>2
  <2>7. UNCHANGED <<turn, calls, allowed>>
    BY <1>2
  <2> QED BY <1>2, <2>3, <2>4, <2>5, <2>6, <2>7, WithinBatch
<1> QED BY <1>1, <1>2 DEF NextTurn

LEMMA StartedGood ==
  ASSUME AgentInv, NEW r \in Runs, Started(r), UNCHANGED allowed
  PROVE  LocalGood(r) /\ pc'[r] \in Inner
<1>1. pc[r] \in Inner /\ running[r] = {}
  BY DEF Started, Inner, Away, Stations, AgentInv, RunOK
<1> QED BY <1>1, FinishGood, NextTurnGood DEF Started

(* A new batch: nothing of it has been issued, and nothing of the last one runs. *)
LEMMA ModelActsGood ==
  ASSUME AgentInv, NEW r \in Runs, ModelActs(r)
  PROVE  LocalGood(r) /\ pc'[r] \in Inner /\ allowed' \subseteq allowed
<1>0. pc[r] = "model" /\ pc[r] \in Inner /\ RunOK(r)
  BY DEF ModelActs, Inner, Away, Stations, AgentInv
<1>1. /\ pc[r] = "model" /\ pc[r] \in Inner /\ running[r] = {} /\ turn[r] < MaxTurns
      /\ turn[r] \in Nat
  <2>1. turn[r] \in Nat
    BY MaxTurnsAssumption DEF AgentInv, TypeOK
  <2> QED BY <1>0, <2>1 DEF RunOK
<1>2. CASE Finish(r) /\ UNCHANGED <<gatewayVars, allowed>>
  BY <1>1, <1>2, FinishGood
<1>3. CASE /\ \E batch \in Batches : NewBatch(r, batch)
           /\ Forget({r})
           /\ Goto(r, "issuing") /\ Loop(r, 1)
           /\ turn' = [turn EXCEPT ![r] = @ + 1]
           /\ approvals' = [approvals EXCEPT ![r] = NoApprovals]
  <2>1. PICK batch \in Batches : NewBatch(r, batch)
    BY <1>3
  <2>2. /\ pc'[r] = "issuing" /\ at'[r] = 1 /\ turn'[r] = turn[r] + 1 /\ calls'[r] = batch
        /\ running'[r] = {} /\ caps'[r] = {} /\ effects'[r] = {}
    BY <1>1, <1>3, <2>1 DEF Goto, Loop, NewBatch, AgentInv, TypeOK, GatewayTypeOK
  <2>3. RunOK(r)'
    <3>1. \A i \in Batch(r)' : i \in Nat /\ ~(i < 1)
      <4>1. PICK n \in 1..MaxCalls : DOMAIN batch = 1..n
        BY BatchesAssumption
      <4> QED BY <2>2, <4>1 DEF Batch
    <3> QED BY <1>1, <2>2, <3>1 DEF RunOK, Away, Asking
  <2>4. Only(r)
    BY <1>3, <2>1 DEF Only, Goto, Loop, NewBatch, AgentInv, TypeOK, GatewayTypeOK
  <2>5. GatewayTypeOK'
    <3>1. /\ calls' \in [Runs -> Batches \cup {<<>>}]
          /\ caps' \in [Runs -> SUBSET Places] /\ effects' \in [Runs -> SUBSET Places]
          /\ running' \in [Runs -> SUBSET Places]
      BY <2>1 DEF NewBatch, AgentInv, TypeOK, GatewayTypeOK
    <3>2. \A s \in Runs : caps'[s] \cup effects'[s] \cup running'[s] \subseteq Batch(s)'
      BY <2>2, <2>4 DEF Only, AgentInv, TypeOK, GatewayTypeOK, Batch
    <3> QED BY <3>1, <3>2 DEF GatewayTypeOK
  <2>6. LocalTypes'
    <3>1. NoApprovals \in [Places -> {"none", "PENDING", "APPROVED", "DENIED"}]
      BY DEF NoApprovals
    <3>2. approvals' \in [Runs -> [Places -> {"none", "PENDING", "APPROVED", "DENIED"}]]
      BY <1>3, <3>1 DEF AgentInv, TypeOK
    <3>3. turn' \in [Runs -> 0..MaxTurns] /\ at' \in [Runs -> 0..(MaxCalls + 1)]
      BY <1>1, <1>3, MaxTurnsAssumption, MaxCallsAssumption DEF Loop, AgentInv, TypeOK
    <3>4. pc' \in [Runs -> Stations] /\ allowed' \subseteq Approval
      BY <1>3 DEF Goto, Stations, Forget, AgentInv, TypeOK
    <3> QED BY <2>5, <3>2, <3>3, <3>4 DEF LocalTypes
  <2>7. OthersAllowed(r) /\ allowed' \subseteq allowed
    BY <1>3 DEF OthersAllowed, Forget
  <2>8. \A a \in Approval : a[1] = r /\ Past(a) => Past(a)'
    <3> TAKE a \in Approval
    <3>1. a[2] \in Nat
      BY MaxTurnsAssumption DEF Approval
    <3> QED BY <1>1, <2>2, <3>1 DEF Past, Over
  <2>9. pc'[r] \in Inner
    BY <2>2 DEF Inner, Stations, Away
  <2> QED BY <2>3, <2>4, <2>6, <2>7, <2>8, <2>9 DEF LocalGood
<1> QED BY <1>2, <1>3 DEF ModelActs

(* Issued calls go to the user one by one; those before `at' are allowed. *)
LEMMA IssueNextGood ==
  ASSUME AgentInv, NEW r \in Runs, IssueNext(r), UNCHANGED allowed
  PROVE  LocalGood(r) /\ pc'[r] \in Inner
<1>0. /\ pc[r] = "issuing" /\ at[r] \in Batch(r) /\ RunOK(r) /\ pc[r] \in Inner /\ pc[r] \notin Over
      /\ running[r] = {}
  BY DEF IssueNext, AgentInv, RunOK, Inner, Stations, Away, Over
<1>1. at[r] \in Places /\ at[r] \in Nat
  BY <1>0, BatchPlaces, MaxCallsAssumption DEF Places
<1>2. CASE ~Supported(calls[r][at[r]])
  BY <1>0, <1>2, FinishGood DEF IssueNext
<1>3. CASE Supported(calls[r][at[r]])
  <2>1. /\ UNCHANGED <<turn, calls, allowed>> /\ running' = running /\ effects' = effects
        /\ caps' = [caps EXCEPT ![r] = @ \cup {at[r]}]
    BY <1>3 DEF IssueNext, Issue
  <2>2. /\ caps' \in [Runs -> SUBSET Places] /\ running' \in [Runs -> SUBSET Places]
        /\ effects' \in [Runs -> SUBSET Places]
        /\ caps'[r] \cup running'[r] \cup effects'[r] \subseteq Batch(r)
        /\ \A s \in Runs \ {r} : caps'[s] = caps[s] /\ running'[s] = running[s] /\ effects'[s] = effects[s]
    BY <1>0, <1>1, <2>1 DEF AgentInv, TypeOK, GatewayTypeOK
  <2>3. Batch(r)' = Batch(r) /\ \A i \in Batch(r) : Allowed(r, i)' <=> Allowed(r, i)
    BY <2>1, SameBatch
  <2>4. effects[r] \subseteq Batch(r)
    BY DEF AgentInv, TypeOK, GatewayTypeOK
  <2>5. CASE NonIdempotent(r, at[r])
    <3>1. /\ Goto(r, "requesting") /\ UNCHANGED at
          /\ approvals' = [approvals EXCEPT ![r][at[r]] = "PENDING"]
      BY <1>3, <2>5 DEF IssueNext
    <3>2. /\ approvals' \in [Runs -> [Places -> {"none", "PENDING", "APPROVED", "DENIED"}]]
          /\ \A s \in Runs \ {r} : approvals'[s] = approvals[s]
      BY <1>1, <3>1 DEF AgentInv, TypeOK
    <3>3. Loop(r, at[r]) /\ at[r] \in 0..(MaxCalls + 1) /\ pc'[r] = "requesting"
      BY <3>1 DEF Loop, Goto, AgentInv, TypeOK
    <3>4. RunOK(r)'
      BY <1>0, <2>1, <2>3, <2>4, <3>1, <3>3 DEF RunOK, Away, Asking
    <3>5. "requesting" \in Stations \cap Inner /\ {pc[r], "requesting"} \subseteq Asking
      BY <1>0 DEF Stations, Inner, Away, Asking
    <3> QED BY <1>0, <2>1, <2>2, <3>1, <3>2, <3>3, <3>4, <3>5, WithinBatch
  <2>6. CASE ~NonIdempotent(r, at[r])
    <3>1. Loop(r, at[r] + 1) /\ UNCHANGED <<pc, approvals>>
      BY <1>3, <2>6 DEF IssueNext
    <3>2. Goto(r, "issuing") /\ at[r] + 1 \in 0..(MaxCalls + 1) /\ at'[r] = at[r] + 1
      BY <1>0, <1>1, <3>1, MaxCallsAssumption DEF Loop, Goto, Places, AgentInv, TypeOK
    <3>3. /\ approvals' \in [Runs -> [Places -> {"none", "PENDING", "APPROVED", "DENIED"}]]
          /\ \A s \in Runs \ {r} : approvals'[s] = approvals[s]
      BY <3>1 DEF AgentInv, TypeOK
    <3>4. \A i \in Batch(r) : i < at[r] + 1 => Allowed(r, i)
      <4> TAKE i \in Batch(r)
      <4>1. i \in Nat
        BY BatchPlaces, MaxCallsAssumption DEF Places
      <4>2. Allowed(r, at[r])
        BY <2>6 DEF Allowed
      <4>3. i < at[r] => Allowed(r, i)
        BY <1>0 DEF RunOK, Asking
      <4> QED BY <1>1, <4>1, <4>2, <4>3
    <3>5. RunOK(r)'
      BY <1>0, <1>1, <2>1, <2>3, <2>4, <3>1, <3>2, <3>4 DEF RunOK, Away, Asking
    <3>6. "issuing" \in Stations \cap Inner /\ pc[r] \in Asking /\ at[r] + 1 > at[r]
      BY <1>0, <1>1 DEF Stations, Inner, Away, Asking
    <3> QED BY <1>0, <2>1, <2>2, <3>1, <3>2, <3>3, <3>5, <3>6, WithinBatch
  <2> QED BY <2>5, <2>6
<1> QED BY <1>2, <1>3

LEMMA DecidedGood ==
  ASSUME AgentInv, NEW r \in Runs, Decided(r), UNCHANGED allowed
  PROVE  LocalGood(r) /\ pc'[r] \in Inner
<1>0. /\ pc[r] = "decided" /\ at[r] \in Batch(r) /\ RunOK(r) /\ pc[r] \in Inner /\ pc[r] \notin Over
      /\ running[r] = {}
  BY DEF Decided, AgentInv, RunOK, Inner, Stations, Away, Over
<1>1. at[r] \in Places /\ at[r] \in Nat
  BY <1>0, BatchPlaces, MaxCallsAssumption DEF Places
<1>2. CASE approvals[r][at[r]] = "DENIED"
  BY <1>0, <1>1, <1>2, FinishGood DEF Decided
<1>3. CASE approvals[r][at[r]] # "DENIED"
  <2>1. /\ Goto(r, "issuing") /\ Loop(r, at[r] + 1) /\ UNCHANGED <<turn, approvals, gatewayVars>>
    BY <1>3 DEF Decided
  <2>2. pc'[r] = "issuing" /\ at[r] + 1 \in 0..(MaxCalls + 1) /\ at'[r] = at[r] + 1
    BY <1>1, <2>1, MaxCallsAssumption DEF Loop, Goto, Places, AgentInv, TypeOK
  <2>3. \A i \in Batch(r) : i < at[r] + 1 => Allowed(r, i)
    <3> TAKE i \in Batch(r)
    <3>1. i \in Nat
      BY BatchPlaces, MaxCallsAssumption DEF Places
    <3>2. Allowed(r, at[r]) /\ (i < at[r] => Allowed(r, i))
      BY <1>0, <1>3 DEF RunOK, Asking
    <3> QED BY <1>1, <3>1, <3>2
  <2>4. effects[r] \subseteq Batch(r) /\ Batch(r)' = Batch(r)
        /\ \A i \in Batch(r) : Allowed(r, i)' <=> Allowed(r, i)
    BY <2>1, SameBatch DEF AgentInv, TypeOK, GatewayTypeOK
  <2>5. RunOK(r)'
    BY <1>0, <1>1, <2>1, <2>2, <2>3, <2>4 DEF RunOK, Away, Asking
  <2>6. "issuing" \in Stations \cap Inner /\ pc[r] \in Asking /\ at[r] + 1 > at[r]
    BY <1>0, <1>1 DEF Stations, Inner, Away, Asking
  <2>7. /\ approvals' \in [Runs -> [Places -> {"none", "PENDING", "APPROVED", "DENIED"}]]
        /\ caps'[r] \cup running'[r] \cup effects'[r] \subseteq Batch(r)
        /\ caps' \in [Runs -> SUBSET Places]
        /\ running' \in [Runs -> SUBSET Places] /\ effects' \in [Runs -> SUBSET Places]
        /\ \A s \in Runs \ {r} : /\ approvals'[s] = approvals[s] /\ caps'[s] = caps[s]
                                 /\ running'[s] = running[s] /\ effects'[s] = effects[s]
        /\ UNCHANGED <<turn, calls, allowed>>
    BY <2>1 DEF AgentInv, TypeOK, GatewayTypeOK
  <2> QED BY <1>0, <2>1, <2>2, <2>5, <2>6, <2>7, WithinBatch
<1> QED BY <1>2, <1>3

(* execute() of the calls C: what it lets through is allowed if the batch is. *)
LEMMA ExecuteGood ==
  ASSUME AgentInv, NEW r \in Runs, NEW place \in {"parallel", "executing"}, NEW C \in SUBSET Batch(r),
         pc[r] \in Inner, place = "executing" => C = {at[r]},
         \A i \in C : Allowed(r, i),
         place = "executing" => \A i \in Batch(r) : Allowed(r, i),
         Execute(r, C), Goto(r, place), UNCHANGED <<turn, at, approvals, allowed>>
  PROVE  LocalGood(r) /\ pc'[r] \in Inner
<1>1. PICK ok \in SUBSET (C \cap caps[r]) : effects' = [effects EXCEPT ![r] = @ \cup ok]
  BY DEF Execute
<1>2. running' = [running EXCEPT ![r] = C] /\ UNCHANGED <<calls, caps>>
  BY DEF Execute
<1>3. Batch(r) \subseteq Places
  BY BatchPlaces
<1>4. /\ approvals' \in [Runs -> [Places -> {"none", "PENDING", "APPROVED", "DENIED"}]]
      /\ caps' \in [Runs -> SUBSET Places]
      /\ running' \in [Runs -> SUBSET Places] /\ effects' \in [Runs -> SUBSET Places]
      /\ running'[r] = C /\ effects'[r] = effects[r] \cup ok
      /\ \A s \in Runs \ {r} : /\ approvals'[s] = approvals[s] /\ caps'[s] = caps[s]
                               /\ running'[s] = running[s] /\ effects'[s] = effects[s]
  BY <1>1, <1>2, <1>3 DEF AgentInv, TypeOK, GatewayTypeOK
<1>5. caps'[r] \cup running'[r] \cup effects'[r] \subseteq Batch(r)
  BY <1>2, <1>4 DEF AgentInv, TypeOK, GatewayTypeOK
<1>6. effects[r] \subseteq Batch(r) /\ Batch(r)' = Batch(r)
      /\ \A i \in Batch(r) : Allowed(r, i)' <=> Allowed(r, i)
  BY <1>2, SameBatch DEF AgentInv, TypeOK, GatewayTypeOK
<1>7. pc'[r] = place /\ RunOK(r)
  BY DEF Goto, AgentInv, TypeOK
<1>8. \A i \in effects'[r] : Allowed(r, i)'
  BY <1>4, <1>5, <1>6, <1>7 DEF RunOK
<1>9. RunOK(r)'
  BY <1>2, <1>4, <1>6, <1>7, <1>8 DEF RunOK, Away, Asking
<1>10. place \in Stations \cap Inner /\ place \notin Asking /\ pc[r] \notin Over
  BY DEF Stations, Inner, Away, Asking, Over
<1>11. Loop(r, at[r]) /\ at[r] \in 0..(MaxCalls + 1) /\ UNCHANGED <<turn, calls, allowed>>
  BY <1>2 DEF Loop, AgentInv, TypeOK
<1> QED BY <1>4, <1>5, <1>7, <1>9, <1>10, <1>11, WithinBatch

(* A step that leaves the gateway alone and goes to a place outside the asking. *)
LEMMA QuietGood ==
  ASSUME AgentInv, NEW r \in Runs, NEW place \in {"requested", "reporting", "completed"},
         NEW i \in 0..(MaxCalls + 1), pc[r] \in Inner, Goto(r, place), Loop(r, i),
         place # "reporting" => i \in Batch(r) /\ \A j \in Batch(r) : Allowed(r, j),
         calls' = calls, caps' = caps, effects' = effects, running'[r] = {},
         running' \in [Runs -> SUBSET Places], \A s \in Runs \ {r} : running'[s] = running[s],
         UNCHANGED <<turn, approvals, allowed>>
  PROVE  LocalGood(r) /\ pc'[r] \in Inner
<1>1. pc'[r] = place /\ at'[r] = i /\ RunOK(r)
  BY DEF Goto, Loop, AgentInv, TypeOK
<1>2. effects[r] \subseteq Batch(r) /\ Batch(r)' = Batch(r)
      /\ \A j \in Batch(r) : Allowed(r, j)' <=> Allowed(r, j)
  BY SameBatch DEF AgentInv, TypeOK, GatewayTypeOK
<1>3. RunOK(r)'
  BY <1>1, <1>2 DEF RunOK, Away, Asking
<1>4. place \in Stations \cap Inner /\ place \notin Asking /\ pc[r] \notin Over
  BY DEF Stations, Inner, Away, Asking, Over
<1>5. /\ approvals' \in [Runs -> [Places -> {"none", "PENDING", "APPROVED", "DENIED"}]]
      /\ caps' \in [Runs -> SUBSET Places] /\ effects' \in [Runs -> SUBSET Places]
      /\ caps'[r] \cup running'[r] \cup effects'[r] \subseteq Batch(r)
      /\ \A s \in Runs \ {r} : /\ approvals'[s] = approvals[s] /\ caps'[s] = caps[s]
                               /\ running'[s] = running[s] /\ effects'[s] = effects[s]
      /\ UNCHANGED <<turn, calls, allowed>>
  BY DEF AgentInv, TypeOK, GatewayTypeOK
<1> QED BY <1>1, <1>3, <1>4, <1>5, WithinBatch

LEMMA StartBatchGood ==
  ASSUME AgentInv, NEW r \in Runs, StartBatch(r), UNCHANGED allowed
  PROVE  LocalGood(r) /\ pc'[r] \in Inner
<1>0. /\ pc[r] = "issuing" /\ at[r] \notin Batch(r) /\ RunOK(r) /\ pc[r] \in Inner
      /\ running[r] = {} /\ calls[r] \in Batches /\ at[r] >= 1
  BY DEF StartBatch, AgentInv, RunOK, Inner, Stations, Away, Asking
<1>1. PICK n \in 1..MaxCalls : Batch(r) = 1..n
  BY <1>0, BatchPlaces
<1>2. at[r] \in Nat
  BY MaxCallsAssumption DEF AgentInv, TypeOK
<1>3. \A i \in Batch(r) : Allowed(r, i)
  BY <1>0, <1>1, <1>2 DEF RunOK, Asking
<1>4. CASE Parallel(r)
  <2>1. Execute(r, Batch(r)) /\ Goto(r, "parallel") /\ UNCHANGED <<turn, at, approvals>>
    BY <1>4 DEF StartBatch
  <2>2. Batch(r) \in SUBSET Batch(r)
    OBVIOUS
  <2> QED BY <1>0, <1>3, <2>1, <2>2, ExecuteGood
<1>5. CASE ~Parallel(r)
  <2>1. Goto(r, "requested") /\ Loop(r, 1) /\ UNCHANGED <<gatewayVars, turn, approvals>>
    BY <1>5 DEF StartBatch
  <2>2. 1 \in Batch(r) /\ 1 \in 0..(MaxCalls + 1)
    BY <1>1, MaxCallsAssumption
  <2>3. running' \in [Runs -> SUBSET Places] /\ running'[r] = {}
        /\ \A s \in Runs \ {r} : running'[s] = running[s]
    BY <1>0, <2>1 DEF AgentInv, TypeOK, GatewayTypeOK
  <2> QED BY <1>0, <1>3, <2>1, <2>2, <2>3, QuietGood
<1> QED BY <1>4, <1>5

LEMMA ReturnsGood ==
  ASSUME AgentInv, NEW r \in Runs, BatchReturns(r) \/ Reported(r), UNCHANGED allowed
  PROVE  LocalGood(r) /\ pc'[r] \in Inner
<1>0. pc[r] \in Inner /\ running[r] = {}
  BY DEF BatchReturns, Reported, AgentInv, RunOK, Inner, Stations, Away
<1>1. CASE Finish(r) /\ UNCHANGED gatewayVars
  BY <1>0, <1>1, FinishGood
<1>2. CASE NextTurn(r) /\ UNCHANGED gatewayVars
  BY <1>0, <1>2, NextTurnGood
<1>3. CASE Goto(r, "reporting") /\ UNCHANGED <<turn, at, approvals, gatewayVars>>
  <2>1. Loop(r, at[r]) /\ at[r] \in 0..(MaxCalls + 1)
    BY <1>3 DEF Loop, AgentInv, TypeOK
  <2>2. running' \in [Runs -> SUBSET Places] /\ running'[r] = {}
        /\ \A s \in Runs \ {r} : running'[s] = running[s]
    BY <1>0, <1>3 DEF AgentInv, TypeOK, GatewayTypeOK
  <2> QED BY <1>0, <1>3, <2>1, <2>2, QuietGood
<1> QED BY <1>1, <1>2, <1>3 DEF BatchReturns, Reported

LEMMA ToolRequestedGood ==
  ASSUME AgentInv, NEW r \in Runs, ToolRequested(r), UNCHANGED allowed
  PROVE  LocalGood(r) /\ pc'[r] \in Inner
<1>0. /\ pc[r] \in Inner /\ running[r] = {} /\ at[r] \in Batch(r)
      /\ \A i \in Batch(r) : Allowed(r, i)
  BY DEF ToolRequested, AgentInv, RunOK, Inner, Stations, Away
<1>1. CASE r \in aborted
  BY <1>0, <1>1, BatchPlaces, FinishGood DEF ToolRequested
<1>2. CASE r \notin aborted
  <2>1. {at[r]} \in SUBSET Batch(r) /\ \A i \in {at[r]} : Allowed(r, i)
    BY <1>0
  <2> QED BY <1>0, <1>2, <2>1, ExecuteGood DEF ToolRequested
<1> QED BY <1>1, <1>2

LEMMA ToolReturnsGood ==
  ASSUME AgentInv, NEW r \in Runs, ToolReturns(r), UNCHANGED allowed
  PROVE  LocalGood(r) /\ pc'[r] \in Inner
<1>0. /\ pc[r] \in Inner /\ at[r] \in Batch(r) /\ running[r] \subseteq {at[r]}
      /\ \A i \in Batch(r) : Allowed(r, i)
  BY DEF ToolReturns, AgentInv, RunOK, Inner, Stations, Away
<1>1. /\ Goto(r, "completed") /\ UNCHANGED <<turn, at, approvals, calls, caps, effects>>
      /\ running' = [running EXCEPT ![r] = @ \ {at[r]}]
  BY DEF ToolReturns, ToolEnds
<1>2. running' \in [Runs -> SUBSET Places] /\ running'[r] = {}
      /\ \A s \in Runs \ {r} : running'[s] = running[s]
  BY <1>0, <1>1 DEF AgentInv, TypeOK, GatewayTypeOK
<1>3. Loop(r, at[r]) /\ at[r] \in 0..(MaxCalls + 1)
  BY <1>1 DEF Loop, AgentInv, TypeOK
<1> QED BY <1>0, <1>1, <1>2, <1>3, QuietGood

LEMMA ToolCompletedGood ==
  ASSUME AgentInv, NEW r \in Runs, ToolCompleted(r), UNCHANGED allowed
  PROVE  LocalGood(r) /\ pc'[r] \in Inner
<1>0. /\ pc[r] \in Inner /\ running[r] = {} /\ at[r] \in Batch(r)
      /\ \A i \in Batch(r) : Allowed(r, i)
  BY DEF ToolCompleted, AgentInv, RunOK, Inner, Stations, Away
<1>1. CASE Revoke(r, at[r]) /\ Finish(r)
  BY <1>0, <1>1, BatchPlaces, FinishGood
<1>2. CASE NextTurn(r) /\ UNCHANGED gatewayVars
  BY <1>0, <1>2, NextTurnGood
<1>3. CASE /\ at[r] + 1 \in Batch(r) /\ Goto(r, "requested") /\ Loop(r, at[r] + 1)
           /\ UNCHANGED <<turn, approvals, gatewayVars>>
  <2>1. at[r] + 1 \in 0..(MaxCalls + 1)
    BY <1>3, BatchPlaces
  <2>2. running' \in [Runs -> SUBSET Places] /\ running'[r] = {}
        /\ \A s \in Runs \ {r} : running'[s] = running[s]
    BY <1>0, <1>3 DEF AgentInv, TypeOK, GatewayTypeOK
  <2> QED BY <1>0, <1>3, <2>1, <2>2, QuietGood
<1> QED BY <1>1, <1>2, <1>3 DEF ToolCompleted

LEMMA ToolGood ==
  ASSUME AgentInv, NEW r \in Runs, NEW i \in Places, Tool(r, i)
  PROVE  LocalGood(r) /\ pc[r] \in Inner /\ pc'[r] \in Inner
<1>1. /\ pc[r] = "parallel" /\ UNCHANGED <<runVars, allowed, calls, caps, effects>>
      /\ running' = [running EXCEPT ![r] = @ \ {i}]
  BY DEF Tool, ToolEnds
<1>2. /\ running' \in [Runs -> SUBSET Places] /\ running'[r] \subseteq running[r]
      /\ \A s \in Runs \ {r} : running'[s] = running[s]
  BY <1>1 DEF AgentInv, TypeOK, GatewayTypeOK
<1>3. effects[r] \subseteq Batch(r) /\ Batch(r)' = Batch(r)
      /\ \A j \in Batch(r) : Allowed(r, j)' <=> Allowed(r, j)
  BY <1>1, SameBatch DEF AgentInv, TypeOK, GatewayTypeOK
<1>4. RunOK(r)'
  BY <1>1, <1>3 DEF AgentInv, RunOK, Away, Asking
<1>5. /\ Goto(r, "parallel") /\ Loop(r, at[r]) /\ at[r] \in 0..(MaxCalls + 1)
      /\ UNCHANGED <<turn, calls, allowed>>
      /\ approvals' \in [Runs -> [Places -> {"none", "PENDING", "APPROVED", "DENIED"}]]
      /\ caps' \in [Runs -> SUBSET Places] /\ effects' \in [Runs -> SUBSET Places]
      /\ caps'[r] \cup running'[r] \cup effects'[r] \subseteq Batch(r)
      /\ \A s \in Runs \ {r} : /\ approvals'[s] = approvals[s] /\ caps'[s] = caps[s]
                               /\ running'[s] = running[s] /\ effects'[s] = effects[s]
  BY <1>1, <1>2 DEF Goto, Loop, AgentInv, TypeOK, GatewayTypeOK
<1>6. "parallel" \in Stations \cap Inner /\ "parallel" \notin Asking /\ pc[r] \notin Over
  BY <1>1 DEF Stations, Inner, Away, Asking, Over
<1> QED BY <1>1, <1>2, <1>4, <1>5, <1>6, WithinBatch

LEMMA RunKeeps ==
  ASSUME AgentInv, NEW r \in Runs, Run(r) \/ \E i \in Places : Tool(r, i)
  PROVE  AgentInv'
<1>1. CASE Run(r)
  <2>1. pc[r] # "model" => UNCHANGED allowed
    BY <1>1 DEF Run
  <2>2. pc[r] \in Inner
    BY <1>1 DEF Run, Started, ModelActs, IssueNext, Decided, StartBatch, BatchReturns, Reported,
                ToolRequested, ToolReturns, ToolCompleted, Inner, Stations, Away
  <2>3. LocalGood(r) /\ pc'[r] \in Inner /\ allowed' \subseteq allowed
    <3>1. CASE ModelActs(r)
      BY <3>1, ModelActsGood
    <3>2. CASE ~ModelActs(r)
      <4>1. pc[r] # "model"
        BY <1>1, <3>2 DEF Run, Started, IssueNext, Decided, StartBatch, BatchReturns, Reported,
                          ToolRequested, ToolReturns, ToolCompleted
      <4> QED BY <1>1, <2>1, <3>2, <4>1, StartedGood, IssueNextGood, DecidedGood, StartBatchGood,
                 ReturnsGood, ToolRequestedGood, ToolReturnsGood, ToolCompletedGood DEF Run
    <3> QED BY <3>1, <3>2
  <2>4. UNCHANGED <<aborted, stdioVars, stdout, clientVars>>
    BY <1>1 DEF Run
  <2> QED BY <2>2, <2>3, <2>4, InnerKeeps
<1>2. CASE \E i \in Places : Tool(r, i)
  <2>1. PICK i \in Places : Tool(r, i)
    BY <1>2
  <2>2. UNCHANGED <<aborted, stdioVars, stdout, clientVars, allowed>>
    BY <2>1 DEF Tool
  <2> QED BY <2>1, <2>2, ToolGood, InnerKeeps
<1> QED BY <1>1, <1>2

----------------------------------------------------------------------------
(* Pipes *)

(* What is true of every line of a pipe stays true when one is taken or added. *)
LEMMA AppendLine ==
  ASSUME NEW S, NEW s \in Seq(S), NEW m \in S
  PROVE  /\ Append(s, m) \in Seq(S)
         /\ \A k \in DOMAIN Append(s, m) :
               \/ k \in DOMAIN s /\ Append(s, m)[k] = s[k]
               \/ k = Len(s) + 1 /\ Append(s, m)[k] = m
OBVIOUS

LEMMA TailLine ==
  ASSUME NEW S, NEW s \in Seq(S), s # <<>>
  PROVE  /\ Tail(s) \in Seq(S) /\ Head(s) \in S /\ 1 \in DOMAIN s /\ Head(s) = s[1]
         /\ \A k \in DOMAIN Tail(s) : k + 1 \in DOMAIN s /\ k + 1 # 1 /\ Tail(s)[k] = s[k + 1]
OBVIOUS

(* Lines stay what they were if runs and approvals only move on. *)
Onward ==
    /\ \A a \in Approval : Past(a) => Past(a)'
    /\ \A a \in Approval : Past(a) /\ a \in pendingApprovals' =>
                           a \in pendingApprovals /\ (a \in allowed => a \in allowed')

LEMMA LinesStay ==
  ASSUME AgentInv, Onward
  PROVE  /\ \A m \in Orders : OrderOK(m) /\ (m.type = "run.start" => pc'[m.request] = "sent")
                              => OrderOK(m)'
         /\ \A m \in Reports : ReportOK(m) /\ (m.type = "run.completed" => pc'[m.request] = "ended")
                               => ReportOK(m)'
<1>1. ASSUME NEW m \in Orders, OrderOK(m), m.type = "run.start" => pc'[m.request] = "sent"
      PROVE  OrderOK(m)'
  <2>1. m.type = "approval.decide" => m.approval \in Approval
    BY DEF Orders
  <2> QED BY <1>1, <2>1 DEF OrderOK, Onward
<1>2. ASSUME NEW m \in Reports, ReportOK(m), m.type = "run.completed" => pc'[m.request] = "ended"
      PROVE  ReportOK(m)'
  <2>1. m.type = "approval.needed" => m.approval \in Approval
    BY DEF Reports
  <2> QED BY <1>2, <2>1 DEF ReportOK, Onward
<1> QED BY <1>1, <1>2

(* The lines that were in the pipe, if no run of theirs has been started or ended. *)
LEMMA OrdersStay ==
  ASSUME AgentInv, Onward, \A s \in Runs : pc[s] = "sent" => pc'[s] = "sent"
  PROVE  \A m \in Orders : (\E k \in DOMAIN stdin : m = stdin[k]) => OrderOK(m)'
<1> SUFFICES ASSUME NEW m \in Orders, NEW k \in DOMAIN stdin, m = stdin[k]
             PROVE  OrderOK(m)'
  OBVIOUS
<1>1. OrderOK(m)
  BY DEF AgentInv, PipesOK
<1>2. m.type = "run.start" => m.request \in Runs
  BY DEF Orders
<1> QED BY <1>1, <1>2, LinesStay DEF OrderOK

LEMMA ReportsStay ==
  ASSUME AgentInv, Onward, \A s \in Runs : pc[s] = "ended" => pc'[s] = "ended"
  PROVE  \A m \in Reports : (\E k \in DOMAIN stdout : m = stdout[k]) => ReportOK(m)'
<1> SUFFICES ASSUME NEW m \in Reports, NEW k \in DOMAIN stdout, m = stdout[k]
             PROVE  ReportOK(m)'
  OBVIOUS
<1>1. ReportOK(m)
  BY DEF AgentInv, PipesOK
<1>2. m.type = "run.completed" => m.request \in Runs
  BY DEF Reports
<1> QED BY <1>1, <1>2, LinesStay DEF ReportOK

(* The first order has been read, which may have started its run. *)
LEMMA OrdersRead ==
  ASSUME AgentInv, Onward, stdin # <<>>, stdin' = Tail(stdin), NEW r \in Runs,
         \A s \in Runs \ {r} : pc'[s] = pc[s],
         \/ pc[r] # "sent" \/ pc'[r] = pc[r]
         \/ Head(stdin).type = "run.start" /\ Head(stdin).request = r
  PROVE  /\ stdin' \in Seq(Orders) /\ StartsOnce'
         /\ (\A k \in DOMAIN stdin : OrderOK(stdin[k]))'
<1>1. stdin \in Seq(Orders)
  BY DEF AgentInv, TypeOK
<1>2. /\ Tail(stdin) \in Seq(Orders) /\ 1 \in DOMAIN stdin /\ Head(stdin) = stdin[1]
      /\ \A k \in DOMAIN Tail(stdin) : /\ k + 1 \in DOMAIN stdin /\ k + 1 # 1
                                       /\ Tail(stdin)[k] = stdin[k + 1]
  BY <1>1, TailLine
<1>3. StartsOnce'
  <2>1. ASSUME NEW j \in DOMAIN Tail(stdin), NEW k \in DOMAIN Tail(stdin), j + 1 = k + 1
        PROVE  j = k
    BY <1>1, <2>1
  <2> QED BY <1>2, <2>1 DEF StartsOnce, AgentInv, PipesOK
<1>4. ASSUME NEW k \in DOMAIN Tail(stdin), NEW m \in Orders, m = Tail(stdin)[k]
      PROVE  OrderOK(m)'
  <2>1. k + 1 \in DOMAIN stdin /\ k + 1 # 1 /\ m = stdin[k + 1]
    BY <1>2, <1>4
  <2>2. OrderOK(m)
    BY <2>1 DEF AgentInv, PipesOK
  <2>3. m.type = "run.start" => m.request \in Runs /\ pc[m.request] = "sent"
    BY <2>2 DEF Orders, OrderOK
  <2>4. m.type = "run.start" => pc'[m.request] = "sent"
    BY <1>2, <2>1, <2>3 DEF StartsOnce, AgentInv, PipesOK
  <2> QED BY <2>2, <2>4, LinesStay
<1>5. (\A k \in DOMAIN stdin : OrderOK(stdin[k]))'
  BY <1>2, <1>4
<1> QED BY <1>2, <1>3, <1>5

(* A line is added behind the others. *)
LEMMA ReportSaid ==
  ASSUME AgentInv, Onward, \A s \in Runs : pc[s] = "ended" => pc'[s] = "ended",
         NEW m \in Reports, Say(m), ReportOK(m)'
  PROVE  stdout' \in Seq(Reports) /\ (\A k \in DOMAIN stdout : ReportOK(stdout[k]))'
<1>1. stdout \in Seq(Reports) /\ stdout' = Append(stdout, m)
  BY DEF AgentInv, TypeOK, Say
<1>2. /\ Append(stdout, m) \in Seq(Reports)
      /\ \A k \in DOMAIN Append(stdout, m) :
            \/ k \in DOMAIN stdout /\ Append(stdout, m)[k] = stdout[k]
            \/ Append(stdout, m)[k] = m
  BY <1>1, AppendLine
<1>3. ASSUME NEW k \in DOMAIN Append(stdout, m), NEW line \in Reports, line = Append(stdout, m)[k]
      PROVE  ReportOK(line)'
  BY <1>2, <1>3, ReportsStay
<1>4. \A k \in DOMAIN Append(stdout, m) : Append(stdout, m)[k] \in Reports
  BY <1>2
<1> QED BY <1>1, <1>2, <1>3, <1>4

----------------------------------------------------------------------------
(* serveStdio *)

(* Nothing is pending that the run r may forget, unless r itself waits. *)
LEMMA PendingKeeps ==
  ASSUME AgentInv, NEW r \in Runs, LocalGood(r), pc[r] # "approval",
         \A a \in Approval : Past(a) /\ a \in pendingApprovals' => a \in pendingApprovals
  PROVE  Onward
<1>1. ASSUME NEW a \in pendingApprovals, a \in allowed PROVE a \in allowed'
  <2>1. PICK s \in Runs : pc[s] = "approval" /\ a = <<s, turn[s], at[s]>>
    BY DEF AgentInv, TypeOK
  <2> QED BY <1>1, <2>1 DEF LocalGood, OthersAllowed, AgentInv, TypeOK
<1> QED BY <1>1, OthersKeep DEF Onward

LEMMA AskKeeps ==
  ASSUME AgentInv, NEW r \in Runs, Ask(r)
  PROVE  AgentInv'
<1> DEFINE id == <<r, turn[r], at[r]>>
           m == [type |-> "approval.needed", request |-> currentRequest, approval |-> id]
<1>0. /\ pc[r] = "requesting" /\ RunOK(r) /\ at[r] \in Batch(r) /\ at[r] \in Places
      /\ turn[r] \in 1..MaxTurns
  <2>1. pc[r] = "requesting" /\ RunOK(r) /\ turn[r] \in 0..MaxTurns
    BY DEF Ask, AgentInv, TypeOK
  <2>2. at[r] \in Batch(r) /\ turn[r] >= 1
    BY <2>1 DEF RunOK, Asking
  <2> QED BY <2>1, <2>2, BatchPlaces, MaxTurnsAssumption
<1>1. /\ Goto(r, "approval") /\ UNCHANGED <<gatewayVars, turn, at, approvals, aborted, active>>
      /\ UNCHANGED <<currentRequest, clientVars, allowed>>
      /\ pendingApprovals' = pendingApprovals \cup {id} /\ Say(m)
  BY DEF Ask
<1>2. pc'[r] = "approval" /\ \A s \in Runs \ {r} : pc'[s] = pc[s]
  BY <1>1 DEF Goto, AgentInv, TypeOK
<1>3. LocalGood(r)
  <2>1. effects[r] \subseteq Batch(r) /\ Batch(r)' = Batch(r)
        /\ \A i \in Batch(r) : Allowed(r, i)' <=> Allowed(r, i)
    BY <1>1, SameBatch DEF AgentInv, TypeOK, GatewayTypeOK
  <2>2. RunOK(r)'
    BY <1>0, <1>1, <1>2, <2>1 DEF RunOK, Away, Asking
  <2>3. /\ Loop(r, at[r]) /\ at[r] \in 0..(MaxCalls + 1)
        /\ approvals' \in [Runs -> [Places -> {"none", "PENDING", "APPROVED", "DENIED"}]]
        /\ caps'[r] \cup running'[r] \cup effects'[r] \subseteq Batch(r)
        /\ caps' \in [Runs -> SUBSET Places]
        /\ running' \in [Runs -> SUBSET Places] /\ effects' \in [Runs -> SUBSET Places]
        /\ \A s \in Runs \ {r} : /\ approvals'[s] = approvals[s] /\ caps'[s] = caps[s]
                                 /\ running'[s] = running[s] /\ effects'[s] = effects[s]
        /\ UNCHANGED <<turn, calls, allowed>>
    BY <1>1 DEF Loop, AgentInv, TypeOK, GatewayTypeOK
  <2>4. "approval" \in Stations /\ pc[r] \in Asking /\ pc[r] \notin Over
    BY <1>0 DEF Stations, Asking, Over
  <2> QED BY <1>1, <2>2, <2>3, <2>4, WithinBatch
<1>4. id \in Approval /\ ~Past(id)
  <2>1. at[r] \in Nat /\ turn[r] \in Nat
    BY <1>0, MaxCallsAssumption, MaxTurnsAssumption DEF Places
  <2> QED BY <1>0, <2>1 DEF Approval, Past, Over, Asking
<1>5. Onward
  <2>1. \A a \in Approval : Past(a) /\ a \in pendingApprovals' => a \in pendingApprovals
    BY <1>1, <1>4
  <2> QED BY <1>0, <1>3, <2>1, PendingKeeps
<1>6. Past(id)'
  BY <1>1, <1>2 DEF Past, Asking
<1>7. m \in Reports
  BY <1>4 DEF Reports, AgentInv, TypeOK
<1>8. stdout' \in Seq(Reports) /\ (\A k \in DOMAIN stdout : ReportOK(stdout[k]))'
  <2>1. \A s \in Runs : pc[s] = "ended" => pc'[s] = "ended"
    BY <1>0, <1>2
  <2>2. ASSUME NEW line \in Reports, line = m PROVE ReportOK(line)'
    BY <1>6, <2>2, <1>1 DEF ReportOK
  <2> QED BY <1>1, <1>5, <1>7, <2>1, <2>2, ReportSaid
<1>9. (\A k \in DOMAIN stdin : OrderOK(stdin[k]))' /\ StartsOnce'
  <2>1. \A s \in Runs : pc[s] = "sent" => pc'[s] = "sent"
    BY <1>0, <1>2
  <2>2. \A m_1 \in Orders : (\E k \in DOMAIN stdin : m_1 = stdin[k]) => OrderOK(m_1)'
    BY <1>5, <2>1, OrdersStay
  <2> QED BY <1>1, <2>2 DEF AgentInv, TypeOK, PipesOK, StartsOnce
<1>10. (waiter # None => Past(waiter))'
  BY <1>1, <1>5 DEF Onward, AgentInv, TypeOK, PipesOK
<1>11. Listened'
  BY <1>0, <1>1, <1>2 DEF AgentInv, Listened
<1>12. TypeOK'
  <2>1. active' = {s \in Runs : pc'[s] \notin Away}
    BY <1>0, <1>1, <1>2 DEF AgentInv, TypeOK, Away
  <2>2. pendingApprovals' = {<<s, turn'[s], at'[s]>> : s \in {u \in Runs : pc'[u] = "approval"}}
    <3>1. {u \in Runs : pc'[u] = "approval"} = {u \in Runs : pc[u] = "approval"} \cup {r}
      BY <1>2
    <3>2. pendingApprovals = {<<s, turn[s], at[s]>> : s \in {u \in Runs : pc[u] = "approval"}}
      BY DEF AgentInv, TypeOK
    <3> QED BY <1>1, <3>1, <3>2
  <2> QED BY <1>1, <1>3, <1>8, <2>1, <2>2 DEF AgentInv, TypeOK, LocalGood, LocalTypes, Away
<1> QED BY <1>3, <1>8, <1>9, <1>10, <1>11, <1>12, OthersKeep DEF AgentInv, PipesOK

(* Whatever place the run had come to, its locals are gone. *)
LEMMA EndRunKeeps ==
  ASSUME AgentInv, NEW r \in Runs, pc[r] \in Inner, EndRun(r)
  PROVE  AgentInv'
<1> DEFINE m == [type |-> "run.completed", request |-> r]
<1>1. /\ Goto(r, "ended") /\ active' = active \ {r} /\ Say(m) /\ Return({r})
      /\ currentRequest' = (IF currentRequest = r THEN None ELSE currentRequest)
      /\ UNCHANGED <<pendingApprovals, clientVars>>
  BY DEF EndRun
<1>2. pc'[r] = "ended" /\ pc' \in [Runs -> Stations] /\ \A s \in Runs \ {r} : pc'[s] = pc[s]
  BY <1>1 DEF Goto, Stations, AgentInv, TypeOK
<1>3. /\ turn'[r] = 0 /\ at'[r] = 0 /\ calls'[r] = <<>> /\ caps'[r] = {}
      /\ running'[r] = {} /\ effects'[r] = {}
      /\ OthersAllowed(r) /\ Only(r)
  BY <1>1, <1>2 DEF Return, Drop, Forget, Only, OthersAllowed, AgentInv, TypeOK, GatewayTypeOK
<1>4. RunOK(r)'
  BY <1>2, <1>3 DEF RunOK, Away, Asking
<1>5. LocalTypes'
  <2>1. /\ turn' \in [Runs -> 0..MaxTurns] /\ at' \in [Runs -> 0..(MaxCalls + 1)]
        /\ allowed' \subseteq Approval
    BY <1>1, MaxTurnsAssumption, MaxCallsAssumption DEF Return, Forget, AgentInv, TypeOK
  <2>2. approvals' \in [Runs -> [Places -> {"none", "PENDING", "APPROVED", "DENIED"}]]
    BY <1>1 DEF Return, NoApprovals, AgentInv, TypeOK
  <2>3. /\ calls' \in [Runs -> Batches \cup {<<>>}] /\ caps' \in [Runs -> SUBSET Places]
        /\ running' \in [Runs -> SUBSET Places] /\ effects' \in [Runs -> SUBSET Places]
    BY <1>1 DEF Return, Drop, AgentInv, TypeOK, GatewayTypeOK
  <2>4. \A s \in Runs : caps'[s] \cup effects'[s] \cup running'[s] \subseteq Batch(s)'
    BY <1>3 DEF Only, AgentInv, TypeOK, GatewayTypeOK, Batch
  <2> QED BY <1>2, <2>1, <2>2, <2>3, <2>4 DEF LocalTypes, GatewayTypeOK
<1>6. LocalGood(r)
  BY <1>2, <1>3, <1>4, <1>5 DEF LocalGood, Past, Over
<1>7. pc[r] \notin {"approval", "sent", "ended"} \cup Away
  BY DEF Inner, Away
<1>8. Onward
  BY <1>1, <1>6, <1>7, PendingKeeps
<1>9. stdout' \in Seq(Reports) /\ (\A k \in DOMAIN stdout : ReportOK(stdout[k]))'
  <2>1. m \in Reports /\ ReportOK(m)'
    BY <1>2 DEF Reports, ReportOK
  <2>2. \A s \in Runs : pc[s] = "ended" => pc'[s] = "ended"
    BY <1>2
  <2> HIDE DEF m
  <2> QED BY <1>1, <1>8, <2>1, <2>2, ReportSaid
<1>10. (\A k \in DOMAIN stdin : OrderOK(stdin[k]))' /\ StartsOnce'
  <2>1. \A s \in Runs : pc[s] = "sent" => pc'[s] = "sent"
    BY <1>2, <1>7
  <2>2. \A line \in Orders : (\E k \in DOMAIN stdin : line = stdin[k]) => OrderOK(line)'
    BY <1>8, <2>1, OrdersStay
  <2> QED BY <1>1, <2>2 DEF AgentInv, TypeOK, PipesOK, StartsOnce
<1>11. (waiter # None => Past(waiter))'
  BY <1>1, <1>8 DEF Onward, AgentInv, TypeOK, PipesOK
<1>12. Listened'
  BY <1>1, <1>2 DEF AgentInv, Listened
<1>13. TypeOK'
  <2>1. active' = {s \in Runs : pc'[s] \notin Away}
    BY <1>1, <1>2 DEF AgentInv, TypeOK, Away
  <2>2. pendingApprovals' = {<<s, turn'[s], at'[s]>> : s \in {u \in Runs : pc'[u] = "approval"}}
    <3>1. {u \in Runs : pc'[u] = "approval"} = {u \in Runs : pc[u] = "approval"}
      BY <1>2, <1>7
    <3>2. \A s \in Runs \ {r} : turn'[s] = turn[s] /\ at'[s] = at[s]
      BY <1>3 DEF Only
    <3>3. pendingApprovals = {<<s, turn[s], at[s]>> : s \in {u \in Runs : pc[u] = "approval"}}
      BY DEF AgentInv, TypeOK
    <3> QED BY <1>1, <1>7, <3>1, <3>2, <3>3
  <2>3. aborted' \subseteq Runs /\ currentRequest' \in active' \cup {None}
    BY <1>1 DEF Return, AgentInv, TypeOK
  <2> QED BY <1>1, <1>5, <1>9, <1>10, <2>1, <2>2, <2>3
      DEF AgentInv, TypeOK, LocalTypes, Away
<1> QED BY <1>6, <1>9, <1>10, <1>11, <1>12, <1>13, OthersKeep DEF AgentInv, PipesOK

(* What serveStdio reads changes at most one run, and none that has ended. *)
LEMMA ReadDone ==
  ASSUME AgentInv, Onward, \A s \in Runs : RunOK(s)', LocalTypes',
         stdin # <<>>, stdin' = Tail(stdin), NEW r \in Runs,
         pc[r] # "ended", \A s \in Runs \ {r} : pc'[s] = pc[s],
         \/ pc[r] # "sent" \/ pc'[r] = pc[r]
         \/ Head(stdin).type = "run.start" /\ Head(stdin).request = r,
         pc[r] \in {"idle", "lost"} => pc'[r] = pc[r],
         active' = {s \in Runs : pc'[s] \notin Away},
         pendingApprovals' = {<<s, turn'[s], at'[s]>> : s \in {u \in Runs : pc'[u] = "approval"}},
         currentRequest' \in active' \cup {None}, aborted' \subseteq Runs,
         UNCHANGED <<child, stdout, pending, current, waiter>>
  PROVE  AgentInv'
<1>1. /\ stdin' \in Seq(Orders) /\ StartsOnce'
      /\ (\A k \in DOMAIN stdin : OrderOK(stdin[k]))'
  BY OrdersRead
<1>2. (\A k \in DOMAIN stdout : ReportOK(stdout[k]))'
  <2>1. \A s \in Runs : pc[s] = "ended" => pc'[s] = "ended"
    OBVIOUS
  <2>2. \A line \in Reports : (\E k \in DOMAIN stdout : line = stdout[k]) => ReportOK(line)'
    BY <2>1, ReportsStay
  <2> QED BY <2>2 DEF AgentInv, TypeOK
<1>3. (waiter # None => Past(waiter))'
  BY DEF Onward, AgentInv, TypeOK, PipesOK
<1>4. Listened'
  BY DEF AgentInv, Listened
<1>5. TypeOK'
  BY <1>1 DEF AgentInv, TypeOK, LocalTypes, Away
<1> QED BY <1>1, <1>2, <1>3, <1>4, <1>5 DEF AgentInv, PipesOK

LEMMA ReadStartKeeps ==
  ASSUME AgentInv, NEW r \in Runs, pc[r] = "sent", ReadStart(r),
         stdin # <<>>, Head(stdin).type = "run.start", Head(stdin).request = r,
         stdin' = Tail(stdin), UNCHANGED <<child, stdout, pending, current, waiter, allowed>>
  PROVE  AgentInv'
<1>1. /\ Goto(r, "starting") /\ active' = active \cup {r} /\ currentRequest' = r
      /\ UNCHANGED <<gatewayVars, turn, at, approvals, aborted, pendingApprovals>>
  BY DEF ReadStart
<1>2. pc'[r] = "starting" /\ pc' \in [Runs -> Stations] /\ \A s \in Runs \ {r} : pc'[s] = pc[s]
  BY <1>1 DEF Goto, Stations, AgentInv, TypeOK
<1>3. LocalGood(r)
  <2>1. RunOK(r) /\ turn[r] = 0
    BY DEF AgentInv, RunOK, Away
  <2>2. effects[r] \subseteq Batch(r) /\ Batch(r)' = Batch(r)
        /\ \A i \in Batch(r) : Allowed(r, i)' <=> Allowed(r, i)
    BY <1>1, SameBatch DEF AgentInv, TypeOK, GatewayTypeOK
  <2>3. RunOK(r)'
    BY <1>1, <1>2, <2>1, <2>2 DEF RunOK, Away, Asking
  <2>4. LocalTypes'
    BY <1>1, <1>2 DEF LocalTypes, AgentInv, TypeOK, GatewayTypeOK, Batch
  <2>5. Only(r) /\ OthersAllowed(r)
    BY <1>1, <1>2 DEF Only, OthersAllowed
  <2>6. \A a \in Approval : a[1] = r => ~Past(a)
    <3> TAKE a \in Approval
    <3>1. a[2] \in Nat /\ a[2] >= 1
      BY MaxTurnsAssumption DEF Approval
    <3> QED BY <2>1, <3>1 DEF Past, Over
  <2> QED BY <2>3, <2>4, <2>5, <2>6 DEF LocalGood
<1>4. Onward
  BY <1>1, <1>3, PendingKeeps
<1>5. (\A s \in Runs : RunOK(s)') /\ LocalTypes'
  BY <1>3, OthersKeep DEF LocalGood
<1>6. active' = {s \in Runs : pc'[s] \notin Away}
  BY <1>1, <1>2 DEF AgentInv, TypeOK, Away
<1>7. pendingApprovals' = {<<s, turn'[s], at'[s]>> : s \in {u \in Runs : pc'[u] = "approval"}}
  <2>1. {u \in Runs : pc'[u] = "approval"} = {u \in Runs : pc[u] = "approval"}
    BY <1>2
  <2> QED BY <1>1, <2>1 DEF AgentInv, TypeOK
<1>8. currentRequest' \in active' \cup {None} /\ aborted' \subseteq Runs
  BY <1>1 DEF AgentInv, TypeOK
<1> QED BY <1>2, <1>4, <1>5, <1>6, <1>7, <1>8, ReadDone

(* A line that at most aborts a run: a cancel, or a decision that comes too late. *)
LEMMA ReadOtherKeeps ==
  ASSUME AgentInv, NEW r \in Runs, stdin # <<>>, stdin' = Tail(stdin),
         UNCHANGED <<gatewayVars, pc, turn, at, approvals, stdioVars>>, aborted' \subseteq Runs,
         UNCHANGED <<child, stdout, pending, current, waiter, allowed>>
  PROVE  AgentInv'
<1>1. UNCHANGED <<gatewayVars, pc, turn, at, approvals, stdioVars>> /\ aborted' \subseteq Runs
  OBVIOUS
<1>2. \A a \in Approval : Past(a) => Past(a)'
  BY <1>1 DEF Past
<1>3. Onward
  BY <1>1, <1>2 DEF Onward
<1>4. LocalTypes'
  BY <1>1 DEF LocalTypes, AgentInv, TypeOK, GatewayTypeOK, Batch
<1>5. \A s \in Runs : RunOK(s)'
  BY <1>1 DEF AgentInv, RunOK, Allowed, NonIdempotent, Batch
<1>6. /\ stdin' \in Seq(Orders) /\ StartsOnce'
      /\ (\A k \in DOMAIN stdin : OrderOK(stdin[k]))'
  BY <1>1, <1>3, OrdersRead
<1>7. (\A k \in DOMAIN stdout : ReportOK(stdout[k]))'
  <2>1. \A line \in Reports : (\E k \in DOMAIN stdout : line = stdout[k]) => ReportOK(line)'
    BY <1>1, <1>3, ReportsStay
  <2> QED BY <2>1 DEF AgentInv, TypeOK
<1>8. (waiter # None => Past(waiter))' /\ Listened'
  BY <1>1, <1>3 DEF Onward, AgentInv, TypeOK, PipesOK, Listened
<1>9. TypeOK'
  BY <1>1, <1>4, <1>6 DEF AgentInv, TypeOK, LocalTypes
<1> QED BY <1>5, <1>6, <1>7, <1>8, <1>9 DEF AgentInv, PipesOK

(* A decision for an approval that is waited for was made for this very call. *)
LEMMA ReadDecisionKeeps ==
  ASSUME AgentInv, NEW a \in Approval, NEW decision \in Decisions, ReadDecision(a, decision),
         decision = "ALLOW" /\ a \in pendingApprovals => a \in allowed, a \in pendingApprovals,
         stdin # <<>>, stdin' = Tail(stdin),
         UNCHANGED <<child, stdout, pending, current, waiter, allowed>>
  PROVE  AgentInv'
<1>1. PICK r \in Runs : pc[r] = "approval" /\ a = <<r, turn[r], at[r]>>
  BY DEF AgentInv, TypeOK
<1>2. /\ pendingApprovals' = pendingApprovals \ {a} /\ UNCHANGED <<aborted, active, currentRequest>>
      /\ \/ Revoke(r, at[r]) /\ Finish(r)
         \/ /\ Goto(r, "decided")
            /\ approvals' = [approvals EXCEPT ![r][at[r]] =
                                IF decision = "ALLOW" THEN "APPROVED" ELSE "DENIED"]
            /\ UNCHANGED <<turn, at, gatewayVars>>
  <2>1. \E b \in pendingApprovals :
          /\ b = a /\ pendingApprovals' = pendingApprovals \ {b}
          /\ IF b[1] \in aborted
             THEN Revoke(b[1], at[b[1]]) /\ Finish(b[1])
             ELSE /\ Goto(b[1], "decided")
                  /\ approvals' = [approvals EXCEPT ![b[1]][at[b[1]]] =
                                      IF decision = "ALLOW" THEN "APPROVED" ELSE "DENIED"]
                  /\ UNCHANGED <<turn, at, gatewayVars>>
          /\ UNCHANGED <<aborted, active, currentRequest>>
    BY DEF ReadDecision, Resolves
  <2>2. a[1] = r
    BY <1>1
  <2> QED BY <2>1, <2>2
<1>3. /\ at[r] \in Batch(r) /\ at[r] \in Places /\ RunOK(r) /\ running[r] = {}
      /\ pc[r] \in Inner \cup {"approval"}
  <2>1. RunOK(r) /\ at[r] \in Batch(r) /\ running[r] = {}
    BY <1>1 DEF AgentInv, RunOK
  <2> QED BY <1>1, <2>1, BatchPlaces
<1>4. LocalGood(r) /\ pc'[r] \in Inner
  <2>1. CASE Revoke(r, at[r]) /\ Finish(r)
    BY <1>3, <2>1, FinishGood
  <2>2. CASE /\ Goto(r, "decided")
             /\ approvals' = [approvals EXCEPT ![r][at[r]] =
                                 IF decision = "ALLOW" THEN "APPROVED" ELSE "DENIED"]
             /\ UNCHANGED <<turn, at, gatewayVars>>
    <3>1. pc'[r] = "decided" /\ pc'[r] \in Inner
      BY <2>2 DEF Goto, AgentInv, TypeOK, Inner, Stations, Away
    <3>2. /\ approvals'[r][at[r]] = IF decision = "ALLOW" THEN "APPROVED" ELSE "DENIED"
          /\ approvals' \in [Runs -> [Places -> {"none", "PENDING", "APPROVED", "DENIED"}]]
          /\ \A s \in Runs \ {r} : approvals'[s] = approvals[s]
      BY <1>3, <2>2 DEF AgentInv, TypeOK
    <3>3. effects[r] \subseteq Batch(r) /\ Batch(r)' = Batch(r)
          /\ \A i \in Batch(r) : Allowed(r, i)' <=> Allowed(r, i)
      BY <2>2, SameBatch DEF AgentInv, TypeOK, GatewayTypeOK
    <3>4. approvals'[r][at[r]] = "DENIED" \/ Allowed(r, at[r])
      BY <1>1, <3>2 DEF Decisions, Allowed
    <3>5. RunOK(r)'
      BY <1>1, <1>3, <2>2, <3>1, <3>3, <3>4 DEF RunOK, Away, Asking
    <3>6. /\ Loop(r, at[r]) /\ at[r] \in 0..(MaxCalls + 1) /\ UNCHANGED <<turn, calls, allowed>>
          /\ caps'[r] \cup running'[r] \cup effects'[r] \subseteq Batch(r)
          /\ caps' \in [Runs -> SUBSET Places]
          /\ running' \in [Runs -> SUBSET Places] /\ effects' \in [Runs -> SUBSET Places]
          /\ \A s \in Runs \ {r} : /\ caps'[s] = caps[s]
                                   /\ running'[s] = running[s] /\ effects'[s] = effects[s]
      BY <2>2 DEF Loop, AgentInv, TypeOK, GatewayTypeOK
    <3>7. "decided" \in Stations /\ pc[r] \in Asking /\ pc[r] \notin Over
      BY <1>1 DEF Stations, Asking, Over
    <3> QED BY <2>2, <3>1, <3>2, <3>5, <3>6, <3>7, WithinBatch
  <2> QED BY <1>2, <2>1, <2>2
<1>5. /\ \A s \in Runs \ {r} : pc'[s] = pc[s] /\ turn'[s] = turn[s] /\ at'[s] = at[s]
      /\ pc'[r] \notin Away \cup {"approval"}
  BY <1>4 DEF LocalGood, Only, Inner
<1>6. Onward
  BY <1>2, <1>4, OthersKeep DEF Onward
<1>7. (\A s \in Runs : RunOK(s)') /\ LocalTypes'
  BY <1>4, OthersKeep DEF LocalGood
<1>8. active' = {s \in Runs : pc'[s] \notin Away}
  BY <1>1, <1>2, <1>5 DEF AgentInv, TypeOK, Away
<1>9. pendingApprovals' = {<<s, turn'[s], at'[s]>> : s \in {u \in Runs : pc'[u] = "approval"}}
  <2>1. {u \in Runs : pc'[u] = "approval"} = {u \in Runs : pc[u] = "approval"} \ {r}
    BY <1>5
  <2>2. pendingApprovals = {<<s, turn[s], at[s]>> : s \in {u \in Runs : pc[u] = "approval"}}
    BY DEF AgentInv, TypeOK
  <2> QED BY <1>1, <1>2, <1>5, <2>1, <2>2
<1>10. currentRequest' \in active' \cup {None} /\ aborted' \subseteq Runs
  BY <1>2 DEF AgentInv, TypeOK
<1> QED BY <1>1, <1>5, <1>6, <1>7, <1>8, <1>9, <1>10, ReadDone

LEMMA ReadLineKeeps ==
  ASSUME AgentInv, ReadLine
  PROVE  AgentInv'
<1> DEFINE m == Head(stdin)
<1>0. /\ stdin # <<>> /\ stdin' = Tail(stdin)
      /\ UNCHANGED <<child, stdout, pending, current, waiter, allowed>>
  BY DEF ReadLine
<1>1. m \in Orders /\ OrderOK(m)
  <2>1. stdin \in Seq(Orders)
    BY DEF AgentInv, TypeOK
  <2>2. m \in Orders /\ 1 \in DOMAIN stdin /\ m = stdin[1]
    BY <1>0, <2>1, TailLine
  <2> QED BY <2>2 DEF AgentInv, PipesOK
<1>2. CASE m.type = "run.start" /\ ReadStart(m.request)
  <2>1. m.request \in Runs /\ pc[m.request] = "sent"
    BY <1>1, <1>2 DEF Orders, OrderOK
  <2> QED BY <1>0, <1>2, <2>1, ReadStartKeeps
<1>3. CASE m.type = "run.cancel" /\ ReadCancel(m.request)
  <2>1. m.request \in Runs
    BY <1>1, <1>3 DEF Orders
  <2>2. /\ UNCHANGED <<gatewayVars, pc, turn, at, approvals, stdioVars>>
        /\ aborted' \subseteq Runs
    BY <1>3, <2>1 DEF ReadCancel, AgentInv, TypeOK
  <2> QED BY <1>0, <2>1, <2>2, ReadOtherKeeps
<1>4. CASE m.type = "approval.decide" /\ ReadDecision(m.approval, m.decision)
  <2>1. m.approval \in Approval /\ m.decision \in Decisions
    BY <1>1, <1>4 DEF Orders
  <2>2. CASE m.approval \in pendingApprovals
    BY <1>0, <1>1, <1>4, <2>1, <2>2, ReadDecisionKeeps DEF OrderOK
  <2>3. CASE m.approval \notin pendingApprovals
    <3>1. UNCHANGED <<gatewayVars, runVars, stdioVars>>
      BY <1>4, <2>3 DEF ReadDecision, Resolves
    <3>2. PICK r : r \in Runs
      BY <2>1 DEF Approval
    <3>3. aborted' \subseteq Runs
      BY <3>1 DEF AgentInv, TypeOK
    <3> QED BY <1>0, <3>1, <3>2, <3>3, ReadOtherKeeps
  <2> QED BY <2>2, <2>3
<1> QED BY <1>2, <1>3, <1>4 DEF ReadLine

----------------------------------------------------------------------------
(* The client and the process *)

LEMMA WriteKeeps ==
  ASSUME AgentInv, NEW m \in Orders, Write(m), OrderOK(m)',
         \A line \in Orders : (\E k \in DOMAIN stdin : line = stdin[k]) => OrderOK(line)',
         m.type = "run.start" =>
            \A k \in DOMAIN stdin : ~(stdin[k].type = "run.start" /\ stdin[k].request = m.request)
  PROVE  /\ stdin' \in Seq(Orders) /\ StartsOnce'
         /\ (\A k \in DOMAIN stdin : OrderOK(stdin[k]))'
<1>1. stdin \in Seq(Orders)
  BY DEF AgentInv, TypeOK
<1>2. CASE stdin' = Append(stdin, m)
  <2>1. /\ Append(stdin, m) \in Seq(Orders)
        /\ \A k \in DOMAIN Append(stdin, m) :
              \/ k \in DOMAIN stdin /\ Append(stdin, m)[k] = stdin[k]
              \/ k = Len(stdin) + 1 /\ Append(stdin, m)[k] = m
    BY <1>1, AppendLine
  <2>2. ASSUME NEW k \in DOMAIN Append(stdin, m), NEW line \in Orders, line = Append(stdin, m)[k]
        PROVE  OrderOK(line)'
    BY <2>1, <2>2
  <2>3. \A k \in DOMAIN Append(stdin, m) : Append(stdin, m)[k] \in Orders
    BY <2>1
  <2>4. StartsOnce'
    BY <1>2, <2>1 DEF StartsOnce, AgentInv, PipesOK
  <2> QED BY <1>2, <2>1, <2>2, <2>3, <2>4
<1>3. CASE stdin' = <<m>>
  <2>1. \A k \in DOMAIN <<m>> : k = 1 /\ <<m>>[k] = m
    OBVIOUS
  <2>2. ASSUME NEW k \in DOMAIN <<m>>, NEW line \in Orders, line = <<m>>[k]
        PROVE  OrderOK(line)'
    BY <2>1, <2>2
  <2>3. StartsOnce'
    BY <1>3, <2>1 DEF StartsOnce
  <2>4. <<m>> \in Seq(Orders) /\ \A k \in DOMAIN <<m>> : <<m>>[k] \in Orders
    BY <2>1
  <2> QED BY <1>3, <2>2, <2>3, <2>4
<1>4. CASE stdin' = <<>>
  BY <1>4 DEF StartsOnce
<1>5. CASE stdin' = stdin
  <2>1. StartsOnce'
    BY <1>5 DEF StartsOnce, AgentInv, PipesOK
  <2> QED BY <1>1, <1>5, <2>1
<1> QED BY <1>2, <1>3, <1>4, <1>5 DEF Write

(* The runs are left alone; what the user has allowed may grow. *)
LEMMA RunsStay ==
  ASSUME AgentInv, UNCHANGED <<gatewayVars, runVars, stdioVars>>,
         allowed \subseteq allowed', allowed' \subseteq Approval
  PROVE  /\ Onward /\ LocalTypes' /\ \A s \in Runs : RunOK(s)'
         /\ \A line \in Orders : (\E k \in DOMAIN stdin : line = stdin[k]) => OrderOK(line)'
         /\ \A line \in Reports : (\E k \in DOMAIN stdout : line = stdout[k]) => ReportOK(line)'
<1>1. \A a \in Approval : Past(a) => Past(a)'
  BY DEF Past
<1>2. Onward
  BY <1>1 DEF Onward
<1>3. LocalTypes'
  BY DEF LocalTypes, AgentInv, TypeOK, GatewayTypeOK, Batch
<1>4. \A s \in Runs : RunOK(s)'
  BY DEF AgentInv, RunOK, Allowed, NonIdempotent, Batch
<1> QED BY <1>2, <1>3, <1>4, OrdersStay, ReportsStay

LEMMA PromptKeeps ==
  ASSUME AgentInv, NEW r \in Runs, Prompt(r)
  PROVE  AgentInv'
<1> DEFINE m == [type |-> "run.start", request |-> r]
           place == IF child' = "up" THEN "sent" ELSE "lost"
<1>1. /\ pc[r] = "idle" /\ pending' = pending \cup {r} /\ current' = r /\ Write(m) /\ Goto(r, place)
      /\ UNCHANGED <<gatewayVars, turn, at, approvals, aborted, stdioVars, stdout, waiter, allowed>>
  BY DEF Prompt
<1>2. /\ pc'[r] = place /\ place \in {"sent", "lost"} /\ pc' \in [Runs -> Stations]
      /\ \A s \in Runs \ {r} : pc'[s] = pc[s]
  BY <1>1 DEF Goto, Stations, AgentInv, TypeOK
<1> HIDE DEF place
<1>3. LocalGood(r)
  <2>1. RunOK(r) /\ turn[r] = 0
    BY <1>1 DEF AgentInv, RunOK, Away
  <2>2. effects[r] \subseteq Batch(r) /\ Batch(r)' = Batch(r)
        /\ \A i \in Batch(r) : Allowed(r, i)' <=> Allowed(r, i)
    BY <1>1, SameBatch DEF AgentInv, TypeOK, GatewayTypeOK
  <2>3. RunOK(r)'
    BY <1>1, <1>2, <2>1, <2>2 DEF RunOK, Away, Asking
  <2>4. LocalTypes'
    BY <1>1, <1>2 DEF LocalTypes, AgentInv, TypeOK, GatewayTypeOK, Batch
  <2>5. Only(r) /\ OthersAllowed(r)
    BY <1>1, <1>2 DEF Only, OthersAllowed
  <2>6. \A a \in Approval : a[1] = r => ~Past(a)
    <3> TAKE a \in Approval
    <3>1. a[2] \in Nat /\ a[2] >= 1
      BY MaxTurnsAssumption DEF Approval
    <3> QED BY <1>1, <2>1, <3>1 DEF Past, Over
  <2> QED BY <2>3, <2>4, <2>5, <2>6 DEF LocalGood
<1>4. Onward
  BY <1>1, <1>3, PendingKeeps
<1>5. /\ \A line \in Orders : (\E k \in DOMAIN stdin : line = stdin[k]) => OrderOK(line)'
      /\ \A line \in Reports : (\E k \in DOMAIN stdout : line = stdout[k]) => ReportOK(line)'
  <2>1. \A s \in Runs : (pc[s] = "sent" => pc'[s] = "sent") /\ (pc[s] = "ended" => pc'[s] = "ended")
    BY <1>1, <1>2
  <2> QED BY <1>4, <2>1, OrdersStay, ReportsStay
<1>6. \A k \in DOMAIN stdin : ~(stdin[k].type = "run.start" /\ stdin[k].request = r)
  BY <1>1 DEF AgentInv, PipesOK, OrderOK
<1>7. /\ stdin' \in Seq(Orders) /\ StartsOnce'
      /\ (\A k \in DOMAIN stdin : OrderOK(stdin[k]))'
  <2>1. m \in Orders /\ m.type = "run.start" /\ m.request = r
    BY DEF Orders
  <2>2. CASE child' = "up"
    <3>1. OrderOK(m)'
      BY <1>2, <2>1, <2>2 DEF OrderOK, place
    <3> HIDE DEF m
    <3> QED BY <1>1, <1>5, <1>6, <2>1, <3>1, WriteKeeps
  <2>3. CASE child' # "up"
    <3>1. stdin' = <<>> \/ stdin' = stdin
      BY <1>1, <2>3 DEF Write
    <3>2. stdin' \in Seq(Orders) /\ StartsOnce'
      <4>1. CASE stdin' = <<>>
        BY <4>1 DEF StartsOnce
      <4>2. CASE stdin' = stdin
        BY <4>2 DEF AgentInv, TypeOK, PipesOK, StartsOnce
      <4> QED BY <3>1, <4>1, <4>2
    <3>3. (\A k \in DOMAIN stdin : OrderOK(stdin[k]))'
      BY <1>5, <3>1 DEF AgentInv, TypeOK
    <3> QED BY <3>2, <3>3
  <2> QED BY <2>2, <2>3
<1>8. (\A k \in DOMAIN stdout : ReportOK(stdout[k]))'
  BY <1>1, <1>5 DEF AgentInv, TypeOK
<1>9. (waiter # None => Past(waiter))'
  BY <1>1, <1>4 DEF Onward, AgentInv, TypeOK, PipesOK
<1>10. Listened'
  <2>1. child = "up" => child' = "up"
    BY <1>1 DEF Write
  <2>2. pc'[r] = "sent" => child' = "up"
    BY <1>2 DEF place
  <2> QED BY <1>1, <1>2, <2>1, <2>2 DEF AgentInv, Listened
<1>11. TypeOK'
  <2>1. active' = {s \in Runs : pc'[s] \notin Away}
    BY <1>1, <1>2 DEF AgentInv, TypeOK, Away
  <2>2. pendingApprovals' = {<<s, turn'[s], at'[s]>> : s \in {u \in Runs : pc'[u] = "approval"}}
    <3>1. {u \in Runs : pc'[u] = "approval"} = {u \in Runs : pc[u] = "approval"}
      BY <1>1, <1>2
    <3> QED BY <1>1, <3>1 DEF AgentInv, TypeOK
  <2>3. LocalTypes'
    BY <1>3 DEF LocalGood
  <2> QED BY <1>1, <1>7, <2>1, <2>2, <2>3 DEF AgentInv, TypeOK, LocalTypes, Away
<1> QED BY <1>3, <1>7, <1>8, <1>9, <1>10, <1>11, OthersKeep DEF AgentInv, PipesOK

LEMMA CancelKeeps ==
  ASSUME AgentInv, NEW r \in Runs, Cancel(r)
  PROVE  AgentInv'
<1> DEFINE m == [type |-> "run.cancel", request |-> r]
<1>1. /\ Write(m)
      /\ UNCHANGED <<gatewayVars, runVars, stdioVars, stdout, pending, current, waiter, allowed>>
  BY DEF Cancel
<1>2. /\ Onward /\ LocalTypes' /\ \A s \in Runs : RunOK(s)'
      /\ \A line \in Orders : (\E k \in DOMAIN stdin : line = stdin[k]) => OrderOK(line)'
      /\ \A line \in Reports : (\E k \in DOMAIN stdout : line = stdout[k]) => ReportOK(line)'
  <2>1. allowed \subseteq allowed' /\ allowed' \subseteq Approval
    BY <1>1 DEF AgentInv, TypeOK
  <2> QED BY <1>1, <2>1, RunsStay
<1>3. /\ stdin' \in Seq(Orders) /\ StartsOnce'
      /\ (\A k \in DOMAIN stdin : OrderOK(stdin[k]))'
  <2>1. m \in Orders /\ m.type # "run.start" /\ OrderOK(m)'
    BY DEF Orders, OrderOK
  <2> HIDE DEF m
  <2> QED BY <1>1, <1>2, <2>1, WriteKeeps
<1>4. /\ (\A k \in DOMAIN stdout : ReportOK(stdout[k]))'
      /\ (waiter # None => Past(waiter))'
  BY <1>1, <1>2 DEF Onward, AgentInv, TypeOK, PipesOK
<1>5. Listened'
  BY <1>1 DEF Write, AgentInv, Listened
<1>6. TypeOK'
  BY <1>1, <1>2, <1>3 DEF AgentInv, TypeOK, LocalTypes
<1> QED BY <1>2, <1>3, <1>4, <1>5, <1>6 DEF AgentInv, PipesOK

(* What the user allows is recorded for the very approval that was shown. *)
LEMMA AnswerKeeps ==
  ASSUME AgentInv, NEW decision \in Decisions, Answer(decision)
  PROVE  AgentInv'
<1> DEFINE m == [type |-> "approval.decide", approval |-> waiter, decision |-> decision]
<1>1. /\ waiter \in Approval /\ waiter' = None /\ Past(waiter) /\ Write(m)
      /\ UNCHANGED <<gatewayVars, runVars, stdioVars, stdout, pending, current>>
  BY DEF Answer, AgentInv, TypeOK, PipesOK
<1>2. /\ allowed \subseteq allowed' /\ allowed' \subseteq Approval
      /\ decision = "ALLOW" /\ waiter[1] \in active => waiter \in allowed'
  BY <1>1 DEF Answer, AgentInv, TypeOK
<1>3. /\ Onward /\ LocalTypes' /\ \A s \in Runs : RunOK(s)'
      /\ \A line \in Orders : (\E k \in DOMAIN stdin : line = stdin[k]) => OrderOK(line)'
      /\ \A line \in Reports : (\E k \in DOMAIN stdout : line = stdout[k]) => ReportOK(line)'
  BY <1>1, <1>2, RunsStay
<1>4. /\ stdin' \in Seq(Orders) /\ StartsOnce'
      /\ (\A k \in DOMAIN stdin : OrderOK(stdin[k]))'
  <2>1. PICK line \in Orders : line = m
    BY <1>1 DEF Orders
  <2>2. line.type = "approval.decide" /\ line.approval = waiter /\ line.decision = decision
    BY <2>1
  <2>3. waiter \in pendingApprovals => waiter[1] \in active
    BY DEF AgentInv, TypeOK
  <2>4. ASSUME NEW a \in Approval, a = waiter
        PROVE  Past(a)' /\ (decision = "ALLOW" /\ a \in pendingApprovals' => a \in allowed')
    BY <1>1, <1>2, <1>3, <2>3, <2>4 DEF Onward
  <2>5. OrderOK(line)'
    BY <1>1, <2>2, <2>4 DEF OrderOK
  <2>6. Write(line)
    BY <1>1, <2>1
  <2> QED BY <1>3, <2>2, <2>5, <2>6, WriteKeeps
<1>5. (\A k \in DOMAIN stdout : ReportOK(stdout[k]))'
  BY <1>1, <1>3 DEF AgentInv, TypeOK
<1>6. Listened'
  BY <1>1 DEF Write, AgentInv, Listened
<1>7. TypeOK'
  BY <1>1, <1>3, <1>4 DEF AgentInv, TypeOK, LocalTypes
<1> QED BY <1>1, <1>3, <1>4, <1>5, <1>6, <1>7 DEF AgentInv, PipesOK

LEMMA OnLineKeeps ==
  ASSUME AgentInv, OnLine
  PROVE  AgentInv'
<1> DEFINE m == Head(stdout)
<1>1. /\ stdout # <<>> /\ stdout' = Tail(stdout)
      /\ UNCHANGED <<gatewayVars, runVars, stdioVars, child, stdin, allowed>>
  BY DEF OnLine
<1>2. /\ stdout \in Seq(Reports) /\ Tail(stdout) \in Seq(Reports) /\ m \in Reports /\ ReportOK(m)
      /\ \A k \in DOMAIN Tail(stdout) : k + 1 \in DOMAIN stdout /\ Tail(stdout)[k] = stdout[k + 1]
  <2>1. stdout \in Seq(Reports)
    BY DEF AgentInv, TypeOK
  <2>2. /\ Tail(stdout) \in Seq(Reports) /\ m \in Reports /\ 1 \in DOMAIN stdout /\ m = stdout[1]
        /\ \A k \in DOMAIN Tail(stdout) : k + 1 \in DOMAIN stdout /\ Tail(stdout)[k] = stdout[k + 1]
    BY <1>1, <2>1, TailLine
  <2> QED BY <2>1, <2>2 DEF AgentInv, PipesOK
<1>3. /\ Onward /\ LocalTypes' /\ \A s \in Runs : RunOK(s)'
      /\ \A line \in Orders : (\E k \in DOMAIN stdin : line = stdin[k]) => OrderOK(line)'
      /\ \A line \in Reports : (\E k \in DOMAIN stdout : line = stdout[k]) => ReportOK(line)'
  <2>1. allowed \subseteq allowed' /\ allowed' \subseteq Approval
    BY <1>1 DEF AgentInv, TypeOK
  <2> QED BY <1>1, <2>1, RunsStay
<1>4. (\A k \in DOMAIN stdout : ReportOK(stdout[k]))'
  <2>1. ASSUME NEW k \in DOMAIN Tail(stdout), NEW line \in Reports, line = Tail(stdout)[k]
        PROVE  ReportOK(line)'
    BY <1>2, <1>3, <2>1
  <2>2. \A k \in DOMAIN Tail(stdout) : Tail(stdout)[k] \in Reports
    BY <1>2
  <2> QED BY <1>1, <2>1, <2>2
<1>5. (\A k \in DOMAIN stdin : OrderOK(stdin[k]))' /\ StartsOnce'
  BY <1>1, <1>3 DEF AgentInv, TypeOK, PipesOK, StartsOnce
<1>6. /\ waiter' \in Approval \cup {None} /\ (waiter # None => Past(waiter))'
      /\ Listened' /\ pending' \subseteq Runs /\ current' \in Runs \cup {None}
  <2>1. CASE m.type = "approval.needed" /\ Show(m)
    <3>1. m.approval \in Approval /\ Past(m.approval)
      BY <1>2, <2>1 DEF Reports, ReportOK
    <3>2. /\ waiter' = IF m.request \in pending THEN m.approval ELSE waiter
          /\ UNCHANGED <<pending, current>>
      BY <2>1 DEF Show
    <3>3. waiter' \in Approval \cup {None} /\ (waiter' # None => waiter' \in Approval /\ Past(waiter'))
      BY <3>1, <3>2 DEF AgentInv, TypeOK, PipesOK
    <3>4. ASSUME NEW a \in Approval, a = waiter', Past(a) PROVE Past(a)'
      BY <1>3, <3>4 DEF Onward
    <3>5. Listened' /\ pending' \subseteq Runs /\ current' \in Runs \cup {None}
      BY <1>1, <3>2 DEF AgentInv, TypeOK, Listened
    <3> QED BY <3>3, <3>4, <3>5
  <2>2. CASE m.type = "run.completed" /\ Settle({m.request} \cap pending) /\ UNCHANGED waiter
    <3>1. m.request \in Runs /\ pc[m.request] = "ended"
      BY <1>2, <2>2 DEF Reports, ReportOK
    <3>2. Listened' /\ pending' \subseteq Runs /\ current' \in Runs \cup {None}
      BY <1>1, <2>2, <3>1 DEF Settle, AgentInv, TypeOK, Listened
    <3>3. waiter' \in Approval \cup {None} /\ (waiter # None => Past(waiter))'
      BY <1>3, <2>2 DEF Onward, AgentInv, TypeOK, PipesOK
    <3> QED BY <3>2, <3>3
  <2> QED BY <2>1, <2>2 DEF OnLine
<1>7. TypeOK'
  BY <1>1, <1>2, <1>3, <1>6 DEF AgentInv, TypeOK, LocalTypes
<1> QED BY <1>3, <1>4, <1>5, <1>6, <1>7 DEF AgentInv, PipesOK

(* With the process go its runs, its pipe and all it was waiting for. *)
LEMMA ChildDiesKeeps ==
  ASSUME AgentInv, ChildDies
  PROVE  AgentInv'
<1>1. /\ child' = "dead" /\ stdin' = <<>> /\ Return(Runs)
      /\ pc' = [r \in Runs |-> IF pc[r] \in {"idle", "ended", "lost"} THEN pc[r] ELSE "lost"]
      /\ active' = {} /\ currentRequest' = None /\ pendingApprovals' = {}
      /\ UNCHANGED <<stdout, pending, current, waiter>>
  BY DEF ChildDies
<1>2. \A r \in Runs : pc'[r] = IF pc[r] \in {"idle", "ended", "lost"} THEN pc[r] ELSE "lost"
  BY <1>1
<1>3. \A r \in Runs : /\ turn'[r] = 0 /\ at'[r] = 0 /\ calls'[r] = <<>> /\ caps'[r] = {}
                      /\ running'[r] = {} /\ effects'[r] = {}
  BY <1>1 DEF Return, Drop
<1>4. \A r \in Runs : RunOK(r)'
  BY <1>2, <1>3 DEF RunOK, Away, Asking
<1>5. ASSUME NEW a \in Approval, Past(a)
      PROVE  Past(a)'
  <2>1. a[1] \in Runs /\ a[2] \in Nat /\ a[2] >= 1
    BY MaxTurnsAssumption DEF Approval
  <2>2. pc[a[1]] = "idle" => turn[a[1]] = 0
    BY <2>1 DEF AgentInv, RunOK, Away
  <2>3. pc[a[1]] # "idle"
    BY <1>5, <2>1, <2>2 DEF Past, Over
  <2> QED BY <1>2, <2>1, <2>3 DEF Past, Over
<1>6. Onward
  BY <1>1, <1>5 DEF Onward
<1>7. (\A k \in DOMAIN stdout : ReportOK(stdout[k]))'
  <2>1. \A line \in Reports : (\E k \in DOMAIN stdout : line = stdout[k]) => ReportOK(line)'
    BY <1>2, <1>6, ReportsStay
  <2> QED BY <1>1, <2>1 DEF AgentInv, TypeOK
<1>8. /\ (\A k \in DOMAIN stdin : OrderOK(stdin[k]))' /\ StartsOnce'
      /\ (waiter # None => Past(waiter))'
  BY <1>1, <1>6 DEF StartsOnce, Onward, AgentInv, TypeOK, PipesOK
<1>9. Listened'
  BY <1>2 DEF Listened
<1>10. TypeOK'
  <2>1. GatewayTypeOK'
    BY <1>1, <1>3 DEF Return, Drop, GatewayTypeOK
  <2>2. /\ pc' \in [Runs -> Stations]
        /\ {r \in Runs : pc'[r] \notin {"idle", "sent", "lost", "ended"}} = {}
        /\ {r \in Runs : pc'[r] = "approval"} = {}
    BY <1>1 DEF Stations
  <2>3. /\ turn' \in [Runs -> 0..MaxTurns] /\ at' \in [Runs -> 0..(MaxCalls + 1)]
        /\ aborted' \subseteq Runs /\ allowed' \subseteq Approval
    BY <1>1, MaxTurnsAssumption, MaxCallsAssumption DEF Return, Forget, AgentInv, TypeOK
  <2>4. approvals' \in [Runs -> [Places -> {"none", "PENDING", "APPROVED", "DENIED"}]]
    BY <1>1 DEF Return, NoApprovals
  <2>5. stdin' \in Seq(Orders)
    BY <1>1
  <2> QED BY <1>1, <2>1, <2>2, <2>3, <2>4, <2>5 DEF AgentInv, TypeOK
<1> QED BY <1>4, <1>7, <1>8, <1>9, <1>10 DEF AgentInv, PipesOK

(* The client settles everything once it knows that there is no process. *)
LEMMA GoneKeeps ==
  ASSUME AgentInv, ChildExit \/ SpawnError
  PROVE  AgentInv'
<1>1. /\ child # "up" /\ Settle(pending)
      /\ UNCHANGED <<gatewayVars, runVars, stdioVars, stdin, stdout, waiter, allowed>>
  BY DEF ChildExit, SpawnError
<1>2. /\ Onward /\ LocalTypes' /\ \A s \in Runs : RunOK(s)'
      /\ \A line \in Orders : (\E k \in DOMAIN stdin : line = stdin[k]) => OrderOK(line)'
      /\ \A line \in Reports : (\E k \in DOMAIN stdout : line = stdout[k]) => ReportOK(line)'
  <2>1. allowed \subseteq allowed' /\ allowed' \subseteq Approval
    BY <1>1 DEF AgentInv, TypeOK
  <2> QED BY <1>1, <2>1, RunsStay
<1>3. /\ (\A k \in DOMAIN stdin : OrderOK(stdin[k]))' /\ StartsOnce'
      /\ (\A k \in DOMAIN stdout : ReportOK(stdout[k]))'
      /\ (waiter # None => Past(waiter))'
  BY <1>1, <1>2 DEF Onward, AgentInv, TypeOK, PipesOK, StartsOnce
<1>4. Listened'
  BY <1>1 DEF AgentInv, Listened
<1>5. TypeOK'
  BY <1>1, <1>2 DEF Settle, AgentInv, TypeOK, LocalTypes
<1> QED BY <1>2, <1>3, <1>4, <1>5 DEF AgentInv, PipesOK

----------------------------------------------------------------------------
(* The specification *)

LEMMA AgentInit == Init => AgentInv
<1> SUFFICES ASSUME Init PROVE AgentInv
  OBVIOUS
<1> USE DEF Init, GatewayInit
<1>1. GatewayTypeOK
  BY DEF GatewayTypeOK
<1>2. pc \in [Runs -> Stations] /\ approvals \in [Runs -> [Places -> {"none", "PENDING", "APPROVED", "DENIED"}]]
  BY DEF Stations, NoApprovals
<1>3. turn \in [Runs -> 0..MaxTurns] /\ at \in [Runs -> 0..(MaxCalls + 1)]
  BY MaxTurnsAssumption, MaxCallsAssumption
<1>4. TypeOK
  BY <1>1, <1>2, <1>3 DEF TypeOK
<1>5. Listened /\ PipesOK
  BY DEF Listened, PipesOK, StartsOnce
<1>6. \A r \in Runs : RunOK(r)
  BY DEF RunOK, Asking
<1> QED BY <1>4, <1>5, <1>6 DEF AgentInv

LEMMA AgentStep == AgentInv /\ [Next]_vars => AgentInv'
<1> SUFFICES ASSUME AgentInv, [Next]_vars PROVE AgentInv'
  OBVIOUS
<1>1. ASSUME NEW r \in Runs,
             Prompt(r) \/ Cancel(r) \/ Run(r) \/ Ask(r) \/ \E i \in Places : Tool(r, i)
      PROVE  AgentInv'
  BY <1>1, PromptKeeps, CancelKeeps, RunKeeps, AskKeeps
<1>2. ASSUME NEW r \in Runs, Finished(r) \/ RunFails(r)
      PROVE  AgentInv'
  <2>1. pc[r] \in Inner /\ EndRun(r)
    BY <1>2 DEF Finished, RunFails, Inner, Stations, Away
  <2> QED BY <2>1, EndRunKeeps
<1>3. ASSUME NEW decision \in Decisions, Answer(decision) PROVE AgentInv'
  BY <1>3, AnswerKeeps
<1>4. CASE ReadLine \/ OnLine
  BY <1>4, ReadLineKeeps, OnLineKeeps
<1>5. CASE ChildDies \/ ChildExit \/ SpawnError
  BY <1>5, ChildDiesKeeps, GoneKeeps
<1>6. CASE UNCHANGED vars
  <2>1. /\ Onward /\ \A s \in Runs : RunOK(s)'
        /\ \A line \in Orders : (\E k \in DOMAIN stdin : line = stdin[k]) => OrderOK(line)'
        /\ \A line \in Reports : (\E k \in DOMAIN stdout : line = stdout[k]) => ReportOK(line)'
    <3>1. allowed \subseteq allowed' /\ allowed' \subseteq Approval
      BY <1>6 DEF AgentInv, TypeOK
    <3> QED BY <1>6, <3>1, RunsStay
  <2>2. PipesOK' /\ Listened'
    BY <1>6, <2>1 DEF Onward, AgentInv, TypeOK, PipesOK, StartsOnce, Listened
  <2>3. TypeOK'
    BY <1>6 DEF AgentInv, TypeOK, GatewayTypeOK, Batch
  <2> QED BY <2>1, <2>2, <2>3 DEF AgentInv
<1> QED BY <1>1, <1>2, <1>3, <1>4, <1>5, <1>6 DEF Next

LEMMA AgentHolds == Spec => []AgentInv
BY AgentInit, AgentStep, PTL DEF Spec

\* The state of the agent, of its pipes and of its client keeps its type; in particular
\* serveStdio's active runs and pending approvals are exactly those of the runs' places.
THEOREM AgentTyped == Spec => []TypeOK
<1>1. AgentInv => TypeOK
  BY DEF AgentInv
<1> QED BY <1>1, AgentHolds, PTL

\* executeToolBatch and the approval's way through the pipes: a call that may change
\* something takes effect only after the user was shown this call and allowed it.
THEOREM ApprovedEffects == Spec => []EffectsAreApproved
<1>1. AgentInv => EffectsAreApproved
  BY DEF AgentInv, RunOK, Allowed, EffectsAreApproved
<1> QED BY <1>1, AgentHolds, PTL

\* RuntimeClient.pending: the client waits for every run that is under way in the process.
THEOREM HeardRuns == Spec => []RunsAreHeard
<1>1. AgentInv => RunsAreHeard
  BY DEF AgentInv, TypeOK, Listened, RunsAreHeard
<1> QED BY <1>1, AgentHolds, PTL

\* execute() behind an abort: once the controller of a run is aborted, none of its calls
\* that may change something is let through.
THEOREM AbortedRunsAreQuiet == Spec => NoEffectAfterCancel
<1> DEFINE Quiet == \A r \in aborted : \A i \in effects'[r] \ effects[r] : ~NonIdempotent(r, i)
<1>1. ASSUME AgentInv, [Next]_vars PROVE Quiet
  <2> SUFFICES ASSUME NEW r \in aborted, NEW i \in effects'[r], i \notin effects[r]
               PROVE  ~NonIdempotent(r, i)
    OBVIOUS
  <2>0. r \in Runs
    BY <1>1 DEF AgentInv, TypeOK
  <2>1. ASSUME NEW s \in Runs, Run(s) PROVE ~NonIdempotent(r, i)
    <3>1. CASE s = r /\ StartBatch(r) /\ Parallel(r)
      <4>1. effects'[r] \subseteq effects[r] \cup Batch(r)
        BY <1>1, <2>0, <3>1 DEF StartBatch, Execute, AgentInv, TypeOK, GatewayTypeOK
      <4> QED BY <3>1, <4>1 DEF Parallel
    <3>2. CASE ~(s = r /\ StartBatch(r) /\ Parallel(r))
      <4>1. \/ effects' = effects
            \/ \E batch \in Batches : NewBatch(s, batch)
            \/ s # r /\ \E C \in SUBSET Places : Execute(s, C)
            \/ s # r /\ StartBatch(s) /\ Execute(s, Batch(s))
            \/ s # r /\ ToolRequested(s) /\ Execute(s, {at[s]})
        BY <2>1, <3>2 DEF Run, Started, ModelActs, IssueNext, Decided, StartBatch, BatchReturns,
           Reported, ToolRequested, ToolReturns, ToolCompleted, Issue, Revoke, ToolEnds
      <4>2. effects'[r] = effects[r] \/ effects'[r] = {}
        BY <1>1, <2>0, <4>1 DEF NewBatch, Execute, AgentInv, TypeOK, GatewayTypeOK
      <4> QED BY <4>2
    <3> QED BY <3>1, <3>2
  <2>2. ASSUME UNCHANGED effects PROVE ~NonIdempotent(r, i)
    BY <2>2
  <2>3. ASSUME NEW R \in SUBSET Runs, Drop(R) PROVE ~NonIdempotent(r, i)
    BY <2>0, <2>3 DEF Drop
  <2>4. ASSUME NEW s \in Runs,
               \/ Prompt(s) \/ Cancel(s) \/ Ask(s) \/ Finished(s) \/ RunFails(s)
               \/ \E p \in Places : Tool(s, p)
        PROVE  ~NonIdempotent(r, i)
    <3>1. UNCHANGED effects \/ Drop({s})
      BY <2>4 DEF Prompt, Cancel, Ask, Finished, RunFails, EndRun, Return, Tool, ToolEnds
    <3> QED BY <2>2, <2>3, <3>1
  <2>5. CASE ReadLine
    <3>1. UNCHANGED effects
      BY <2>5 DEF ReadLine, ReadStart, ReadCancel, ReadDecision, Revoke
    <3> QED BY <2>2, <3>1
  <2>6. CASE OnLine \/ ChildExit \/ SpawnError \/ UNCHANGED vars
             \/ \E decision \in Decisions : Answer(decision)
    <3>1. UNCHANGED effects
      BY <2>6 DEF OnLine, ChildExit, SpawnError, Answer
    <3> QED BY <2>2, <3>1
  <2>7. CASE ChildDies
    BY <2>3, <2>7 DEF ChildDies, Return
  <2> QED BY <1>1, <2>1, <2>4, <2>5, <2>6, <2>7 DEF Next
<1>2. AgentInv /\ [Next]_vars => [Quiet]_vars
  BY <1>1
<1> QED BY <1>2, AgentHolds, PTL DEF Spec, NoEffectAfterCancel
=============================================================================
