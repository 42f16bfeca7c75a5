---------------------------- MODULE AgentRuntime ----------------------------
(***************************************************************************)
(* The agent: prompts of the editor (extension.ts, runPrompt) go through   *)
(* RuntimeClient to a child process, whose stdio loop (serveStdio) starts  *)
(* AgentRuntime.run for each.  Calls that change something wait for the    *)
(* user, whose decision travels back through the same two pipes.           *)
(*                                                                         *)
(* Every await of run() is a place of its own, except that a stretch of    *)
(* awaits with no check between them is one: writing the log and asking    *)
(* the model, for example, is the place "model".                           *)
(***************************************************************************)
EXTENDS ToolGateway

CONSTANTS
    MaxTurns,      \* MAX_TURNS
    None           \* undefined or null

ASSUME MaxTurnsAssumption == MaxTurns \in Nat \ {0}
ASSUME NoneAssumption == None \notin Runs

VARIABLES
    pc,            \* where run() is, and what became of it
    turn,          \* batches begun
    at,            \* the call of the batch its loop has come to
    approvals,     \* ApprovalManager: status of the approvals of the batch
    aborted,       \* runs whose AbortController is aborted
    active, currentRequest, pendingApprovals,    \* serveStdio
    child,         \* the process: "dead" until its exit is reported, "failing"
                   \* and "failed" when it could not be spawned
    stdin, stdout, \* the pipes
    pending,       \* RuntimeClient.pending
    current,       \* extension.ts: currentRequestId
    waiter,        \* AgentViewProvider.approvalWaiter
    allowed        \* history: approvals the user was shown and allowed, of the batches
                   \* under way

runVars == <<pc, turn, at, approvals, aborted>>
stdioVars == <<active, currentRequest, pendingApprovals>>
clientVars == <<child, stdin, pending, current, waiter>>
vars == <<gatewayVars, runVars, stdioVars, stdout, clientVars, allowed>>

\* Where run() can be before, between, and behind its awaits.
Stations ==
    {"idle", "sent", "lost", "ended", "starting", "model", "issuing", "requesting", "approval",
     "decided", "parallel", "reporting", "requested", "executing", "completed", "finishing"}

Approval == Runs \X (1..MaxTurns) \X Places      \* an approvalId
Decisions == {"ALLOW", "DENY"}

\* The lines of the two pipes.
Orders ==
    [type : {"run.start", "run.cancel"}, request : Runs]
    \cup [type : {"approval.decide"}, approval : Approval, decision : Decisions]
Reports ==
    [type : {"approval.needed"}, request : Runs \cup {None}, approval : Approval]
    \cup [type : {"run.completed"}, request : Runs]

NoApprovals == [i \in Places |-> "none"]

Init ==
    /\ GatewayInit
    /\ pc = [r \in Runs |-> "idle"] /\ turn = [r \in Runs |-> 0]
    /\ at = [r \in Runs |-> 0]
    /\ approvals = [r \in Runs |-> NoApprovals]
    /\ aborted = {} /\ active = {} /\ currentRequest = None /\ pendingApprovals = {}
    /\ child = "none" /\ stdin = <<>> /\ stdout = <<>>
    /\ pending = {}
    /\ current = None /\ waiter = None /\ allowed = {}

-----------------------------------------------------------------------------
(* AgentRuntime.run, between two awaits. *)

Goto(r, place) == pc' = [pc EXCEPT ![r] = place]

Loop(r, i) == at' = [at EXCEPT ![r] = i]

\* The last event is being written: run.completed or run.cancelled.  COMPLETED, FAILED
\* and CANCELLED are told to the user, and nothing else depends on them.
Finish(r) == Goto(r, "finishing") /\ UNCHANGED <<turn, at, approvals>>

\* What was allowed for a batch is history once the batch is.
Forget(R) == allowed' = {a \in allowed : a[1] \notin R}

\* The head of the loop: an abort, the last turn, or the model is asked.
NextTurn(r) ==
    \/ turn[r] < MaxTurns /\ r \in aborted /\ Finish(r)
    \/ turn[r] = MaxTurns /\ Finish(r)
    \/ /\ turn[r] < MaxTurns /\ r \notin aborted
       /\ Goto(r, "model")
       /\ UNCHANGED <<turn, at, approvals>>

Started(r) ==
    /\ pc[r] = "starting"
    /\ \/ r \in aborted /\ Finish(r)
       \/ r \notin aborted /\ NextTurn(r)
    /\ UNCHANGED gatewayVars

\* The model's action is logged.  The run ends with an abort, a text or no calls at all.
ModelActs(r) ==
    /\ pc[r] = "model"
    /\ \/ Finish(r) /\ UNCHANGED <<gatewayVars, allowed>>
       \/ r \notin aborted
             /\ \E batch \in Batches : NewBatch(r, batch)
             /\ Forget({r})
             /\ Goto(r, "issuing") /\ Loop(r, 1)
             /\ turn' = [turn EXCEPT ![r] = @ + 1]
             /\ approvals' = [approvals EXCEPT ![r] = NoApprovals]

-----------------------------------------------------------------------------
(* executeToolBatch: issue and approve, call by call. *)

NonIdempotent(r, i) == Effect(calls[r][i]) = "NON_IDEMPOTENT"

IssueNext(r) ==
    /\ pc[r] = "issuing" /\ at[r] \in Batch(r)
    /\ IF Supported(calls[r][at[r]])
       THEN /\ Issue(r, at[r])
            /\ IF NonIdempotent(r, at[r])
               THEN /\ Goto(r, "requesting")
                    /\ approvals' = [approvals EXCEPT ![r][at[r]] = "PENDING"]
                    /\ UNCHANGED at
               ELSE Loop(r, at[r] + 1) /\ UNCHANGED <<pc, approvals>>
            /\ UNCHANGED turn
       ELSE Finish(r) /\ UNCHANGED gatewayVars

\* The decision is logged.
Decided(r) ==
    /\ pc[r] = "decided"
    /\ IF approvals[r][at[r]] = "DENIED"
       THEN Revoke(r, at[r]) /\ Finish(r)
       ELSE /\ Goto(r, "issuing") /\ Loop(r, at[r] + 1)
            /\ UNCHANGED <<turn, approvals, gatewayVars>>

\* The bug "calls run together whatever they do".
Parallel_Always(r) == Len(calls[r]) > 1

\* Everything is prepared.  Several calls run together only if none needs an approval.
Parallel(r) == Len(calls[r]) > 1 /\ \A i \in Batch(r) : ~NonIdempotent(r, i)

\* Together: tool.requested for each, and no look at the signal before execute().
StartBatch(r) ==
    /\ pc[r] = "issuing" /\ at[r] \notin Batch(r)
    /\ IF Parallel(r)
       THEN Execute(r, Batch(r)) /\ Goto(r, "parallel") /\ UNCHANGED at
       ELSE Goto(r, "requested") /\ Loop(r, 1) /\ UNCHANGED gatewayVars
    /\ UNCHANGED <<turn, approvals>>

BatchReturns(r) ==
    /\ pc[r] = "parallel" /\ running[r] = {}
    /\ \/ r \in aborted /\ Finish(r)
       \/ r \notin aborted /\ Goto(r, "reporting") /\ UNCHANGED <<turn, at, approvals>>
    /\ UNCHANGED gatewayVars

Reported(r) == pc[r] = "reporting" /\ NextTurn(r) /\ UNCHANGED gatewayVars

\* One after the other: tool.requested is logged, and the signal is looked at.
ToolRequested(r) ==
    /\ pc[r] = "requested"
    /\ IF r \in aborted
       THEN Revoke(r, at[r]) /\ Finish(r)
       ELSE /\ Execute(r, {at[r]}) /\ Goto(r, "executing")
            /\ UNCHANGED <<turn, at, approvals>>

ToolReturns(r) ==
    /\ pc[r] = "executing" /\ ToolEnds(r, at[r])
    /\ Goto(r, "completed")
    /\ UNCHANGED <<turn, at, approvals>>

ToolCompleted(r) ==
    /\ pc[r] = "completed"
    /\ \/ r \in aborted /\ Revoke(r, at[r]) /\ Finish(r)
       \/ /\ r \notin aborted /\ at[r] + 1 \in Batch(r)
          /\ Goto(r, "requested") /\ Loop(r, at[r] + 1)
          /\ UNCHANGED <<turn, approvals, gatewayVars>>
       \/ /\ r \notin aborted /\ at[r] + 1 \notin Batch(r)
          /\ NextTurn(r) /\ UNCHANGED gatewayVars

Run(r) ==
    /\ \/ Started(r) \/ ModelActs(r) \/ IssueNext(r) \/ Decided(r) \/ StartBatch(r)
       \/ BatchReturns(r) \/ Reported(r) \/ ToolRequested(r) \/ ToolReturns(r)
       \/ ToolCompleted(r)
    /\ pc[r] # "model" => UNCHANGED allowed
    /\ UNCHANGED <<aborted, stdioVars, stdout, clientVars>>

Tool(r, i) ==
    /\ pc[r] = "parallel" /\ ToolEnds(r, i)
    /\ UNCHANGED <<runVars, stdioVars, stdout, clientVars, allowed>>

-----------------------------------------------------------------------------
(* serveStdio. *)

Say(m) == stdout' = Append(stdout, m)

\* approval.requested is logged; the question is labelled with the request that was
\* started last, or with "unknown" once that one is over.
Ask(r) ==
    /\ pc[r] = "requesting"
    /\ Goto(r, "approval")
    /\ pendingApprovals' = pendingApprovals \cup {<<r, turn[r], at[r]>>}
    /\ Say([type |-> "approval.needed", request |-> currentRequest,
              approval |-> <<r, turn[r], at[r]>>])
    /\ UNCHANGED <<gatewayVars, turn, at, approvals, aborted, active,
                   currentRequest, clientVars, allowed>>

\* The locals of the runs R are garbage.
Return(R) ==
    /\ Drop(R)
    /\ turn' = [r \in Runs |-> IF r \in R THEN 0 ELSE turn[r]]
    /\ at' = [r \in Runs |-> IF r \in R THEN 0 ELSE at[r]]
    /\ approvals' = [r \in Runs |-> IF r \in R THEN NoApprovals ELSE approvals[r]]
    /\ aborted' = aborted \ R
    /\ Forget(R)

\* The bug "the request that was started last stays the current one for ever".
EndRun_KeepsCurrent(r) ==
    /\ Goto(r, "ended")
    /\ active' = active \ {r}
    /\ UNCHANGED currentRequest
    /\ Say([type |-> "run.completed", request |-> r])
    /\ Return({r})
    /\ UNCHANGED <<pendingApprovals, clientVars>>

\* The run is over.
EndRun(r) ==
    /\ Goto(r, "ended")
    /\ active' = active \ {r}
    /\ currentRequest' = IF currentRequest = r THEN None ELSE currentRequest
    /\ Say([type |-> "run.completed", request |-> r])
    /\ Return({r})
    /\ UNCHANGED <<pendingApprovals, clientVars>>

Finished(r) == pc[r] = "finishing" /\ EndRun(r)

\* The log cannot be written, or execute() throws where it spawns.  What else was
\* started together then goes on unheard: those calls need no approval, and are followed
\* no further.
RunFails(r) ==
    /\ pc[r] \in {"starting", "model", "issuing", "requesting", "decided", "requested",
                  "executing", "parallel", "completed", "reporting", "finishing"}
    /\ EndRun(r)

\* run.start.
ReadStart(r) ==
    /\ Goto(r, "starting")
    /\ active' = active \cup {r} /\ currentRequest' = r
    /\ UNCHANGED <<gatewayVars, turn, at, approvals, aborted, pendingApprovals>>

\* run.cancel: the controller, and nothing else.
ReadCancel(r) ==
    /\ aborted' = IF r \in active THEN aborted \cup {r} ELSE aborted
    /\ UNCHANGED <<gatewayVars, pc, turn, at, approvals, stdioVars>>

\* The bug "the decision goes to whatever approval its run waits for".
Resolves_Any(a) == pendingApprovals # {} /\ a \in Approval

Resolves(a) == a \in pendingApprovals

\* approval.decide: run() goes on behind `await this.onApproval(pending)'.
ReadDecision(a, decision) ==
    IF ~Resolves(a)
    THEN UNCHANGED <<gatewayVars, runVars, stdioVars>>
    ELSE \E b \in pendingApprovals :
            LET r == b[1] IN
            /\ a \in pendingApprovals => b = a
            /\ pendingApprovals' = pendingApprovals \ {b}
            /\ IF r \in aborted
               THEN Revoke(r, at[r]) /\ Finish(r)
               ELSE /\ Goto(r, "decided")
                    /\ approvals' = [approvals EXCEPT ![r][at[r]] =
                                        IF decision = "ALLOW" THEN "APPROVED" ELSE "DENIED"]
                    /\ UNCHANGED <<turn, at, gatewayVars>>
            /\ UNCHANGED <<aborted, active, currentRequest>>

ReadLine ==
    /\ child = "up" /\ stdin # <<>>
    /\ LET m == Head(stdin)
       IN  \/ m.type = "run.start" /\ ReadStart(m.request)
           \/ m.type = "run.cancel" /\ ReadCancel(m.request)
           \/ m.type = "approval.decide" /\ ReadDecision(m.approval, m.decision)
    /\ stdin' = Tail(stdin)
    /\ UNCHANGED <<child, stdout, pending, current, waiter, allowed>>

-----------------------------------------------------------------------------
(* RuntimeClient and the agent's view. *)

\* write(): ensureProcess spawns a process when there is none.  What is written to one
\* that is dead or never came up is lost.
Write(m) ==
    \/ child = "none" /\ child' \in {"up", "failing"}
         /\ stdin' = IF child' = "up" THEN <<m>> ELSE <<>>
    \/ child = "up" /\ stdin' = Append(stdin, m) /\ UNCHANGED child
    \/ child \in {"dead", "failing", "failed"} /\ UNCHANGED <<child, stdin>>

\* runPrompt.  A second prompt may come while the first one runs.
Prompt(r) ==
    /\ pc[r] = "idle"
    /\ pending' = pending \cup {r} /\ current' = r
    /\ Write([type |-> "run.start", request |-> r])
    /\ Goto(r, IF child' = "up" THEN "sent" ELSE "lost")
    /\ UNCHANGED <<gatewayVars, turn, at, approvals, aborted, stdioVars, stdout,
                   waiter, allowed>>

\* mooncode.cancelAgent; bounded to once per run.
Cancel(r) ==
    /\ current = r /\ r \notin aborted
    /\ ~\E k \in DOMAIN stdin : stdin[k].type = "run.cancel"
    /\ Write([type |-> "run.cancel", request |-> r])
    /\ UNCHANGED <<gatewayVars, runVars, stdioVars, stdout, pending, current,
                   waiter, allowed>>

\* The promises of the requests R settle; each runPrompt forgets the current request.
Settle(R) ==
    /\ pending' = pending \ R
    /\ current' = IF R = {} THEN current ELSE None

\* The bug "a question settles the request, as a result does".
Show_Settles(m) ==
    /\ waiter' = IF m.request \in pending THEN m.approval ELSE waiter
    /\ Settle({m.request} \cap pending)

\* A question takes the place of the one the view was showing.  One for a request
\* that is not pending is ignored.
Show(m) ==
    /\ waiter' = IF m.request \in pending THEN m.approval ELSE waiter
    /\ UNCHANGED <<pending, current>>

OnLine ==
    /\ stdout # <<>>
    /\ LET m == Head(stdout)
       IN  \/ m.type = "approval.needed" /\ Show(m)
           \/ /\ m.type = "run.completed"
              /\ Settle({m.request} \cap pending) /\ UNCHANGED waiter
    /\ stdout' = Tail(stdout)
    /\ UNCHANGED <<gatewayVars, runVars, stdioVars, child, stdin, allowed>>

\* The user answers the question that is shown.
Answer(decision) ==
    /\ waiter # None
    /\ waiter' = None
    /\ allowed' = IF decision = "ALLOW" /\ waiter[1] \in active
                THEN allowed \cup {waiter} ELSE allowed
    /\ Write([type |-> "approval.decide", approval |-> waiter, decision |-> decision])
    /\ UNCHANGED <<gatewayVars, runVars, stdioVars, stdout, pending, current>>

\* The process dies, and what it was doing with it.
ChildDies ==
    /\ child = "up" /\ child' = "dead"
    /\ stdin' = <<>>
    /\ pc' = [r \in Runs |-> IF pc[r] \in {"idle", "ended", "lost"} THEN pc[r] ELSE "lost"]
    /\ Return(Runs)
    /\ active' = {} /\ currentRequest' = None /\ pendingApprovals' = {}
    /\ UNCHANGED <<stdout, pending, current, waiter>>

\* The bug "a dead process is replaced and its requests are forgotten".
ChildExit_KeepsPending ==
    /\ child = "dead" /\ child' = "none"
    /\ UNCHANGED <<gatewayVars, runVars, stdioVars, stdin, stdout, waiter, allowed>>
    /\ UNCHANGED <<pending, current>>

\* Its exit is reported; lines it has printed may still come.
ChildExit ==
    /\ child = "dead" /\ child' = "none"
    /\ Settle(pending)
    /\ UNCHANGED <<gatewayVars, runVars, stdioVars, stdin, stdout, waiter, allowed>>

\* It could not be spawned: the pending requests are rejected, and the client keeps
\* the process it does not have.
SpawnError ==
    /\ child = "failing" /\ child' = "failed"
    /\ Settle(pending)
    /\ UNCHANGED <<gatewayVars, runVars, stdioVars, stdin, stdout, waiter, allowed>>

-----------------------------------------------------------------------------
Next ==
    \/ \E r \in Runs :
          \/ Prompt(r) \/ Cancel(r) \/ Run(r) \/ Ask(r) \/ Finished(r) \/ RunFails(r)
          \/ \E i \in Places : Tool(r, i)
    \/ \E decision \in Decisions : Answer(decision)
    \/ ReadLine \/ OnLine \/ ChildDies \/ ChildExit \/ SpawnError

\* Files, the model and the tools answer (the recipes have a wall time), the pipes are
\* read and exits are reported.  Nobody makes the user answer.  A run is one thread but
\* for the tools of a batch, so that one condition does for all its steps.
Progress(r) == Run(r) \/ Ask(r) \/ Finished(r) \/ \E i \in Places : Tool(r, i)

Fairness ==
    /\ \A r \in Runs : WF_vars(Progress(r))
    /\ WF_vars(ReadLine) /\ WF_vars(OnLine) /\ WF_vars(ChildExit \/ SpawnError)

Spec == Init /\ [][Next]_vars
FairSpec == Spec /\ Fairness

-----------------------------------------------------------------------------
\* Every variable has its type; the loop of serveStdio knows exactly the runs that are
\* under way, and the approvals it holds are those its runs wait for.
TypeOK ==
    /\ GatewayTypeOK
    /\ pc \in [Runs -> Stations]
    /\ turn \in [Runs -> 0..MaxTurns] /\ at \in [Runs -> 0..(MaxCalls + 1)]
    /\ approvals \in [Runs -> [Places -> {"none", "PENDING", "APPROVED", "DENIED"}]]
    /\ active = {r \in Runs : pc[r] \notin {"idle", "sent", "lost", "ended"}}
    /\ currentRequest \in active \cup {None} /\ aborted \subseteq Runs
    /\ pendingApprovals = {<<r, turn[r], at[r]>> : r \in {s \in Runs : pc[s] = "approval"}}
    /\ stdin \in Seq(Orders) /\ stdout \in Seq(Reports)
    /\ pending \subseteq Runs /\ current \in Runs \cup {None}
    /\ waiter \in Approval \cup {None} /\ allowed \subseteq Approval

\* A call that may change something takes effect only if the user was shown this very
\* call and allowed it: whatever the label of the question, the order of runs and
\* answers, and the processes that died meanwhile.
EffectsAreApproved ==
    \A r \in Runs : \A i \in effects[r] :
        NonIdempotent(r, i) => <<r, turn[r], i>> \in allowed

\* Once the runtime has heard of a cancel, no such call starts any more, wherever the
\* run stood.
NoEffectAfterCancel ==
    [][\A r \in aborted : \A i \in effects'[r] \ effects[r] : ~NonIdempotent(r, i)]_vars

\* The client listens to every run that is under way, so that its questions and its
\* result are heard.
RunsAreHeard == active \subseteq pending

\* Every request settles, also when the process dies: unless the run waits for the
\* user, or the process had not come up when it was sent.
Waits(r) == pc[r] = "approval"
Unheard(r) == child = "failed" /\ pc[r] = "lost"
RequestsSettle == \A r \in Runs : r \in pending ~> (r \notin pending \/ Waits(r) \/ Unheard(r))
=============================================================================
