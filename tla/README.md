# MoonCode: a TLA+ model of the Bridge, its tunnel and tools, the agent, and the Hub

MoonCode lets a model (ChatGPT, an MCP client, an editor) work on a local
workspace. A *Bridge* (`runtime/bridge-http.ts`) serves MCP tools over HTTP:
reading, patching files, running commands in persistent terminals, editor
queries; a *tunnel* makes it reachable. An editor extension (`extension/`) starts
and stops the Bridge, answers its editor queries and shows what it does. A separate
*agent* (`runtime/index.ts`) runs a model loop over a capability-checked tool
gateway and asks the user before it changes anything. A *Hub* (`hub/`) hands out
temporary Bridge links and lets agents of its own use them.

Everything is one Node process per Bridge, agent, Hub or editor: no preemption, but
every `await`, timer, abort listener, pipe and child-process event is a point where
another callback runs. The models take the code apart at exactly these points.

## 1. Inventory

| Component | State | Operations | Module |
|---|---|---|---|
| Patch transactions `tool-gateway/workspace-patch.ts` | files; `.mooncode/patch-transactions/<id>` with `journal.json`, `staged/`, `backup/`; process-wide `pathLocks`, `rootRecoveryPromises`, `blockedRecoveryRoots` | `applyPatch`, `replaceFile`, `recoverPendingTransactions` | `WorkspacePatch`, `AtomicPatch` |
| Authorization sessions `runtime/bridge-session.ts` | mode, scope and their revision; sessions per credential; revocation tombstones; `activeCriticalSections`; command leases | `resolve`, `beginWrite`, `enterWriteCriticalSection`, `beginCommand`, `revoke*`, `set*`, `waitForCriticalSections` | `BridgeSession` |
| Command manager `tool-gateway/command-manager.ts` | terminals with their parser state; commands with status, abort listener, output ring, retention | `run`, `cancel`, `close`, `getOutput`, `waitForActivity`; data and exit events | `CommandManager`, `CommandOutput` |
| PTY sessions `tool-gateway/pty-session.ts` | output ring, input sequence, three timers | `start`, `write`, `read`, `kill` | `PtySession` |
| Bridge process `runtime/bridge-http.ts` | control lines, tunnel promise, shutdown | control line handler, `serveBridgeFromArgv`, `close`; the request handler is in the modules of what it calls | `BridgeHost` |
| Tunnel manager `runtime/bridge-tunnel.ts` | status, controller, child, generation | `start`, `health`, `stop`; helper exits | `BridgeTunnel` |
| IDE broker `runtime/bridge-ide.ts` and the editor's Bridge client `extension/bridgeClient.ts`, `extension.ts` | pending requests; child, start and stop promises, timers | `request`, `handleResponse`, `close`; `startBridge`, `stopActiveBridge`, health, retry; lines and exit | `BridgeHost` |
| Agent `runtime/index.ts`, its client `extension/runtimeClient.ts`, approval view | run state, approvals, abort controllers, serving loop; pending prompts, waiter | `run`, `executeToolBatch`, `serveStdio`; `start`, `send`, `cancel`, `answer`; lines and exit | `AgentRuntime` |
| Tool gateway `tool-gateway/index.ts` | capabilities | issue, revoke, expire, `execute` | `ToolGateway` |
| Panel `extension/bridgeUiState.ts` | runs, calls, patches with diffs, commands, reviews, under four limits | one operation per event, review marks | `BridgeUiState` |
| Hub links `hub/manager.mjs` | `links`, `routes`, `starting`, `maxActive`, `creates`, `deletes`, `closing` | `create`, `revoke`, the expiry timer, `configure`, `close` | `HubLinks` |
| Hub tasks `hub/orchestrator.mjs`, `web-server.mjs`, `web.mjs` | `busy`, `connectionLink`, abort controllers; an agent's generator, the task's budget | settings, links, connect, chat; the steps of an agent; shutdown | `HubTasks` |

`PROJECT.json` lists these and the remaining parts, which stay out (section 5).

How they interact. A request is authenticated and resolved to a session
(`BridgeSession!Resolve`); a write takes a lease and gives `applyPatch` the
callback `enterWriteCriticalSection`, called once under the path locks
(`WorkspacePatch!Revalidate` may be refused by it, `BridgeSession!Enter` is its
other half); `run_command` takes a command lease whose `AbortSignal` is the one
`CommandManager.run` listens to (`BridgeSession!Abort` raises it,
`CommandManager!Signal` is its arrival). `close()` sets read-only, revokes,
drains the commits, closes the commands, then the tunnel. The extension and the Bridge
process talk in lines through two pipes (`BridgeHost`), and so do the extension and the
agent (`AgentRuntime`, which takes `ToolGateway` whole). The Hub starts one Bridge or
browser per link; its web service and the agents of a chat create, use and revoke links
(`HubTasks` takes `HubLinks` whole and adds its callers).

What is hard: authorization that changes between a check and its use; a journal
that has to be right after a crash anywhere; locks over several files; commands
that outlive their request; helpers, shells and agents that die late; cancellation
racing completion; approvals and lines that cross in two pipes; rings that drop what
somebody still reads; shutdown under all of that. The `hazards` of `PROJECT.json` give
each one with its line and the property that watches it.

What makes each component correct:

* patch transactions: all or nothing, on exactly the versions the caller read; no
  file content is lost; nothing is written past the transaction of a call that died; every
  call is answered;
* sessions: no commit after authorization is withdrawn; commands lose their
  licence with it; revocation is permanent; a drain is a drain;
* commands: never more shells than slots, none leaked; aborts land; readers get exact
  pages, no newer output is missed by a waiter, and a loss is marked;
* PTY sessions: output is complete or marked; an input reaches the process once; sessions end;
* tunnel and Bridge process: no helper is lost, or left behind that was there when the
  tunnel was stopped; "public" is served; starts, stops, checks and editor requests settle;
* agent: no change without the user's consent to that very call; a cancelled run changes
  nothing more; every prompt settles;
* panel: counts match what is kept, limits hold, a review is of what the patch does now;
* Hub: never more links than the limit, no slot lost; every link is revoked by who
  created it, by its ttl or by shutdown; a cancelled chat and a shutdown come to an end.

## 2. Modules

### AtomicPatch: what a caller is promised

Three variables: the files, what each call intends (plan and expected
versions), and each call's decision. `Commit` applies a whole plan in one step,
only if every touched file has the expected version; `Refuse` and `RefuseAll`
(a crash) change nothing. `After` gives each file what the last operation that touches it
leaves there. It is the specification the detailed module implements.

### WorkspacePatch: how it is done

One action per stretch of `applyPatch`, `rollback`, `cleanupTransaction` and
`recoverPendingTransactions` between two awaits another actor can get between.

| TLA+ | code |
|---|---|
| `files`, `dirs`, `journal`, `staged`, `backup` | the disk; survives `Crash` |
| `mem`, `idx`, `txn`, `pc` | the journal object and loop index of a call or a recovery; lost in `Crash` |
| `lockq` | `pathLocks`: the promise chain of a path is a queue |
| `blocked`, `promise`, `serving` | `blockedRecoveryRoots`, `rootRecoveryPromises`, a started bridge |
| `Request`, `Snapshot` | tool handler; `replaceFile` |
| `EnsureRecovered`, `AwaitRecovery` | `ensureRecovered` |
| `Preflight`, `AcquireLock`, `Revalidate` | the two `buildPlan`s around `acquirePathLocks` |
| `Stage`, `Prepare`, `BeginCommit`, `BackupSource`, `LogBackup`, `Place`, `LogPlace` | the transaction, one rename and one journal write at a time |
| `StartRollback` ... `GiveUp` | `rollback`, shared by calls and recoveries |
| `RemoveJournal`, `RemoveBackups`, `RemoveDirectory`, `CleanupFails` | the recursive `rm`, whose order is unknown |
| `ListTransactions` ... `Settle` | recovery at bridge start (`Starters`) and on first use (`Lazy`) |

A content stands for its bytes and its hash. `writeJournal` writes a synced copy and renames
it, so it is one atomic step that may fail. A file operation that could succeed fails, or an
abort is heard, at most `MaxFailures` times in all; one that cannot succeed (a rename of
nothing) always fails. Any check may also refuse a call for a reason outside the model (a
dirty editor buffer, the lease), so refusal is always enabled there.

*The refinement.* `Logical` is the workspace with every undecided transaction
undone: what a backup holds if there is one, nothing where an add or a move
has placed a new file, otherwise the file. A transaction is decided when its
journal or a backup disappears after the last operation (`Decide`).
`CallsAreAtomic == Promise!Spec` then says: with these definitions every step is
a commit of one whole plan, a refusal, or nothing.

### BridgeSession: authorization against time

| TLA+ | code |
|---|---|
| `permissionMode`, `accessScope`, `modeRevision` | `permissionModeValue`, `accessScopeValue`, `modeRevision` |
| `identity`, `revision`, `revoked` | `sessionsByCredential`: binding, `revision`, `revokedAt` |
| `revokedCredentials`, `revokedSubjects`, `revokedDevices` | the three tombstone maps |
| `lease`, `activeCriticalSections` | `BridgeWriteLease`, the counter |
| `activeCommands`, `aborted`, `attached` | the lease table, fired controllers, `detachParent` |
| `pc`, `caller`, `dropped` | where a tool call of `bridge-http.ts` is, its credential, its request signal |
| `closing` | `close()` and its drain waiter |
| `closedAt`, `stale` | history variables the properties need |

Each local control (`SetPermissionMode`, `SetAccessScope`, `RevokeSubject`,
`RevokeDevice`, `RevokeAll`, `Close`) is one synchronous callback; each request goes
`Resolve` / `Receive`, `BeginWrite`, `Enter`, `Release` or `BeginCommand`,
`DetachRequest`, `Finish`, and anything may fall in between. `authMode` is chosen at
the start: with OAuth every call has a session, with a capability address none has.

### CommandManager: commands in terminals

`Call`, `Acquire`, `ResolveCwd`, `Return` are `run` between its awaits;
`Launch` is the synchronous block that creates the command, attaches the abort
listener and types the payload. `HandleData` with its cases and `HandleExit` are the
events of a terminal; `Cancel`, `Signal`, `Close` the ways to end one. The shell
behind the PTY is external: it executes what was typed in order, prints a begin and
an end marker (or a garbled end), may die, and its exit arrives after its output.
`Platform` selects the wrapper's form of the end marker.

### CommandOutput: what a command prints

The same manager seen from one command's bytes. A stream is a sequence of code points of
one or two bytes, then the end marker and its header; `Data(n)` is `handleTerminalData`
on a chunk of any length, which may cut the marker or a code point's neighbours anywhere
(`MarkerPrefixSuffixLength` is what it holds back). `AppendOutput` keeps the ring in whole
code points; `Snapshot` answers a read from an offset; `WaitForActivity` and `WaitEnds` are
the two halves of `waitForActivity`; `Retire` is retention, first to the tombstone
that remembers the id, then to nothing. The reader reads on from the `next_offset` it was
given last, as late as it likes.

### PtySession: an interactive session

| TLA+ | code |
|---|---|
| `ptyRing`, `ringStart`, `ptyNext`, `truncated` | `ring`, `baseOffset`, `nextOffset`, `truncated` |
| `AppendChunk` | `appendChunk`: the first chunk is cut to fit, later ones push old bytes out |
| `Write` with `asked`, `inputSeq` | `write` and a writer that sends the same sequence number until it hears |
| `Kill`, `ForceKill`, `WallTimer`, `PtyExit` | `kill` by tool, wall or idle timer; the forced kill after it; the exit event |

The bytes that the first chunk loses are not counted in the offsets; `truncated` says that
something is missing, and `LossIsTold` says exactly what an unmarked session guarantees.

### BridgeTunnel and BridgeHost: the life of a Bridge process

`BridgeTunnel` is the tunnel manager. `start` is the await `start()` is at:

| `start` | await |
|---|---|
| `clearing` | the previous helper is being stopped |
| `spawning` | `startAttempt` waits for the helper's origin (`fresh` is the helper) |
| `probing` | the origin is checked |
| `killing` | the failed helper is being stopped, `failure` says why |
| `backoff` | the delay before the next attempt |

`controller` is `None` once `stop()` or a new operation has cleared it: what `start()` holds
is then aborted (`Aborted`). A helper that its Bridge leaves running is an `"orphan"` if
that one closed and a `"stray"` if it died; `late` are the helpers spawned after `stop()`
had begun. `watched` are the helpers whose monitor still has the current generation, so that
a late exit (`HelperExits`) is told from a current one. `CheckHealth` and `Checked` are the
two halves of `health()`.

`BridgeHost` adds the process around it and the extension at the other end of its two pipes:

| TLA+ | code |
|---|---|
| `StartBridge`, `Prepare`, `Launch`, `StartTimeout` | `startBridge` and `BridgeClient.start`; the panel's cancel counts until the spawn |
| `StopActiveBridge`, `StopTimeout` | `stopActiveBridge` and `BridgeClient.stop`: a stop line, then the process tree is killed |
| `TreeKilled` | `forceKillTree` has come to its end; until then the process goes on, and the lines of one that is being stopped are read |
| `OnLine`, `BridgeExit` | lines and exit of the child, in this order or the other |
| `Boot`, `ReadLine`, `Drained`, `TunnelIsStopped`, `Exit`, `Crash` | `serveBridgeFromArgv`: ready, control lines, the stages of its shutdown, any of which may hang; a crash |
| `IdeRequest`, `IdeGivesUp`, `AdapterAnswers`, `CloseBroker` | `BridgeIdeBroker.request` with its timer and abort, the editor's answers |
| `AskHealth`, `AskRetry` | the panel's commands |

### ToolGateway and AgentRuntime: a prompt, from the editor and back

`ToolGateway` has the capabilities of a batch of calls (one per call, `Issue`, `Revoke`,
expiry), and `Execute`, whose checks a call must pass before it has an `effect`.
`AgentRuntime` is `run()` and everything between it and the user. `pc[r]` is the await it is
at; the calls of a batch run together only if none of them changes anything (`Parallel`),
and each change takes the way `requested`, `approval`, `decided`, `executing`.

| TLA+ | code |
|---|---|
| `ReadStart`, `ReadCancel`, `ReadDecision` | the lines `serveStdio` reads; `active`, `currentRequest`, `pendingApprovals` are its tables |
| `Started` ... `Finished`, `RunFails` | the stretches of `run()`; any of them fails when the log cannot be written or a tool cannot be spawned |
| `Ask`, `EndRun` | an approval and a result go to the client; `EndRun` forgets the run's approvals |
| `Prompt`, `Cancel`, `Answer` | `runPrompt`, the cancel command, the approval view |
| `OnLine`, `Settle`, `Show` | `RuntimeClient`'s line handler; the view holds one question at a time (`waiter`) |
| `ChildDies`, `ChildExit`, `SpawnError` | the agent dies at any time, its exit is heard later; it may not come up |

`currentRequest` labels a question with the request started last, which need not be the one
that asks; `allowed` records which very call the user was shown and allowed.

### BridgeUiState: what the panel shows

One action per event (`StartRun`, `Call`, `Result`, `CommandEnds`, `PatchResult`,
`MarkPatchReviewed`, `Logged`), each with the trimming that follows it: `Trim` evicts
entries, `TrimBodies` expires diffs, a new run drops an old one whole.
`RestoreReviewedPatches` is what a new editor session reads back.

### HubLinks and HubTasks: links and who uses them

`HubLinks` is `startHub`. `phase[l]` follows one worker: `starting` while `createInner`
awaits it, `live` while it is in `links` and `routes`, `stopping` while `worker.close()` is
pending; `failing` is a worker that came up after `closing` was set and is closed before
`createInner` throws. `Create` reserves a slot in the same synchronous stretch as the
limit check, `WorkerReady` and `CreateFails` give it back, `RevokeAll` takes links out of
the table at once. `hub` walks through the awaits of `close()`. The module does not say who
calls it: its `LinkNext` lets anybody create, revoke, configure and close.

`HubTasks` is the callers. `web` and `subject` are the operation that holds `busy` and its
link (or limit); a chat is a stack of agents, each at one await of the generator `agent`
(`create`, `connect`, `reply`, `action`, `child`, `close`, `revoke`), because the chat
handler pulls the outermost generator and a `return()` or an error unwinds them from the
innermost. `aborted` is the chat's `AbortController`; it acts where the code looks at it:
at the next event pulled, in `adapter.stream`, in a tool call. `Leave` ends the top agent
and resumes or unwinds its parent. `webState` is the shutdown of `hub/web.mjs`, whose
failure takes the process down (`Running`). `HubStep` contains creates and revocations by
others: `hub/web.mjs` itself does not publish the Hub's admin token, but `startWebService`
is given a Hub that its embedder, like the tests, also calls.

### MCOutputs: three keepers of output

`CommandOutput`, `PtySession` and `BridgeUiState` share no state. `MCOutputs` explores each
of them beside the other two in a fixed idle state, so that one run checks all three at the
cost of their sum and not of their product.

## 3. Runs

| Run | Instance | Shows |
|---|---|---|
| `patch` | three calls over two files: a move, a rewrite, an addition with a deletion; two crashes, one abort or failing operation; fair | `PreimageKept`, `CallsAreAtomic`, `DeadBlocksWrites`, `AllAnswered` |
| `patch_torn` | two calls over three files, a move with an update and a rewrite; one crash, also between a rename and its journal record | `CallsAreAtomic` is violated |
| `patch_two_bridges` | the same calls; a second bridge starts on the workspace | `CallsAreAtomic` is violated |
| `patch_cleanup` | the same calls; one failing operation, also an `rm` that stops halfway after a commit | `PreimageKept` is violated |
| `patch_unresolved` | the same calls; two failing operations | `UnresolvedBlocksWrites` is violated |
| `session` | two calls, two credentials, two identities that share a subject | `NoCommitAfterWithdrawal`, `DrainedMeansQuiet`, `WithdrawnCommandsAborted`, `RevokedStaysOut` |
| `commands` | two commands, one slot, two terminal identities; fair | `TerminalsAreSound`, `HeardAbortsLand`, `CancelledCommandsEnd` |
| `commands_shared` | two commands, two slots | `OneCommandPerTerminal` is violated |
| `agent` | two prompts that overlap, batches of two reads, of two changes, and of an unknown tool; two turns; fair | `EffectsAreApproved`, `RunsAreHeard`, `NoEffectAfterCancel`, `RequestsSettle` |
| `host` | one Bridge after another, two names for helpers, two attempts, one editor request; fair | `HelpersAreTracked`, `ReadyIsTrue`, `NoForgottenWork`, `HostSettles` |
| `outputs` | all outputs of up to three symbols, a ring of three bytes, pages of two; a session with a ring of two bytes; a panel of two runs | `ReadersAreServed`, `PtyIsHonest`, `PanelIsTrue`, `SessionsEnd` |
| `hub` | two links, limits 1 and 2, agents to depth 1, two children, two actions, two rounds; fair | the seven safety properties of `HubLinks` and `HubTasks`, `CancelledTasksEnd`, `ExpiredLinksGo`, `ShutdownEnds` |

The five violations are real disagreements of code and text; `findings` quotes the lines. What
they mean for the passing runs: `patch` excludes what `patch_torn` and `patch_cleanup` show
(`TornWindows = FALSE`: no crash where `Torn` says, no `rm` that stops halfway after a commit,
see `CleanupFails`) and starts one bridge; and `commands` has one slot. Everything else is
checked without these defects.

`patch` lets one thing go wrong, at any place but those. In a recovery that is any operation of
its rollback or cleanup, since a crash is not counted. In a call it is what makes it roll back,
so that its own rollback does not fail as well. What happens then is `patch_unresolved`: if it is
the journal write at `workspace-patch.ts:473`, the call throws, the root is not blocked and the
next call writes over the half-committed transaction; if it is a later one, the root is blocked
(676), but not for calls that have passed `ensureRecovered`. `CallsAreAtomic` and `PreimageKept`
do not survive that second failure either.

*Bounds.* Two files suffice for a move and for calls whose lock orders cross (the move names
1 and 2, the addition with a deletion 2 and 1); three calls make a queue of two waiters. Two
crashes let the second one hit the recovery of the first. In `session`, two calls are a
committing and a competing one, and two credentials under one subject separate revoking a
credential, a device and a subject. `MaxModeRevision = 3` allows the mode to be switched off
and on again, and `MaxSessionRevision = 2` one revocation per session (a session is revoked
at most once except by `DELETE` or a changed identity, which only raise the revision
further). One slot and two terminals make a dying terminal compete with its successor. The
symmetry of `session` permutes calls and credentials, which the specification never tells
apart; the run checks no liveness.

Two prompts are enough for a question that is labelled with the wrong one, for an answer
that meets the other, and for a process that dies with both pending; two changes in a batch
tell consent to one call from consent to another, and a second turn tells this batch from
the last. Helpers get their names back, so that two are the old and the new one of any
number of attempts; with two attempts there is a first, a retry and a last. `MaxPipe = 1`
lets the panel ask while one line is unread, which is what lines need to cross; lines the
code itself writes are not bounded by it. A ring of three bytes drops one- and two-byte code
points from its front in every alignment, and a page of two splits a read anywhere. Four
bytes into a ring of two are a cut first chunk and one that pushes others out. Three starts
drop a run of a panel that keeps two; three entries, one review and two bytes of diffs make
each of its limits the one that bites.

Two links are a parent and a child, an old and a new connection, or one of these next to
somebody else's link; with the limits 1 and 2 a create meets a full table and a limit
is lowered under pending creates. Two actions allow a child after a child, or a child and
a tool call, and the third asks past the budget. Links are numbered in the order of their
creation, so that no symmetry is needed. A third link makes the temporal check of the graph too
long; the theorems of `HubLinksProofs` and `HubTasksProofs` hold for any number.

*Deadlock* checking is on in the Hub run, where only the exit of the process ends a
behaviour, and off in the others: calls, prompts and commands are finitely many there and
may all be over, and a panel or session with nothing more to print just rests.

*Fairness.* `WorkspacePatch!FairSpec`: every actor that can go on eventually does, since
file operations settle and a bridge that is asked for starts; requests, aborts and crashes
are never forced. `CommandManager!FairSpec`: Node delivers data and exit events and a killed
shell dies; nothing makes a user's command end on its own. `AgentRuntime!FairSpec`: files,
the model and the tools answer (recipes have a wall time), pipes are read, exits are
reported; nothing makes the user answer a question, so `RequestsSettle` excepts a run that
waits for one. `BridgeHost!FairSpec`: the extension's own steps, its timers, its reading and
the Bridge's reading go on, checks have a time limit, taskkill kills and killed processes
exit; the Bridge may hang anywhere in its start and its shutdown and the editor's adapter
may never answer, and `HostSettles` holds all the same because of the timers.
`PtySession!PtyFairness`: the timers fire and a forced kill works; the first signal may be
ignored. `HubTasks!TaskSpec`: what the code awaits settles and the expiry timer fires, but
nothing makes a model answer; a reply ends by the abort signal at the latest, which is what
`CancelledTasksEnd` rests on.

## 4. Proofs

Each proof has one step per action, and for each only the conjuncts it can disturb. The
constants are arbitrary but for the named assumptions of the modules, which the runs
evaluate: bounds are natural numbers, sets of calls are finite, a ring and a page hold at
least one byte, outputs are strings of symbols other than those of the end marker, one diff
fits the panel's limit.

`BridgeSessionProofs` proves, for every number of calls and credentials, every map
of identities to subjects and devices, and every bound on the revisions:

* `SessionTypeOK`: `TypeOK`, and `CriticalCount`: `activeCriticalSections` is
  the cardinality of the set of calls inside. It needs `CallsAssumption` (finitely
  many calls) and the facts of `FiniteSetTheorems` about adding and removing one
  element.
* `RevocationIsPermanent` needs nothing but types: each revocation marks
  every known session it names, and `Accepted` re-reads the tombstones before a
  session is created.
* `CommandsFollowAuthorization` needs types: `activeCommands` is exactly the set of
  calls in a command, so an abort of the table reaches all of them.
* `CommitsAreAuthorized` is not inductive alone. The strengthening
  `LeasesAreOfTheMode` bounds every lease by the current revisions, and
  `StaleLeasesAreDead` says that the lease of a call whose authorization was withdrawn
  can never stand again: its mode revision is in the past, or its session has a later
  revision. Revisions only grow, so a mode switched back does not revive it.
* `DrainIsSound` adds `ClosedMode`: from `close()` on, every lease that is not
  newer than `closedAt` is dead for `Enter`, and the waiter fires only when
  `CriticalCount` gives an empty set.

`CommandManagerProofs` proves `CommandTyped`, `SlotsAreSound` and `AbortsLand` for any number
of commands, terminals and slots, also with terminals shared as in `commands_shared`.
`TerminalsAreSound` counts dying terminals, so that a slot is free only when the exit of its
shell was reported; the invariant `CommandInv` says what a busy terminal carries: a command
that was launched in it and runs, or one whose end has marked the terminal. An abort that
was heard lands because `Launch` attaches the listener in the stretch that assigns the
terminal, so that whoever listens has a terminal to kill.

`BridgeHostProofs` proves `NoHelperIsLost` and `PublicMeansServed` of `BridgeHost!Spec`, for any
number of helpers, attempts and editor requests and pipes of any length. `TunnelInv` adds to
the two properties what is known at each await of `start()` (`AtItsAwait`: which of `fresh` and
`child` is set, and what an abort has done to them), at each stage of the shutdown
(`AtItsStage`), and what the names hold (`Held`). The step that needs it all is `stop()` met by
a retry that is still clearing: the controller it clears is not yet there, and the helper
spawned later runs on when the process exits. The property does not look away from it: `late`
has it, and every other helper is shown to be killed by then. `HostInv` adds that
a Bridge is there whenever a stop is under way.

It also proves `TypeCorrect` and `NoWorkIsForgotten`, for any number of requests. The latter
is a fact about the order of lines in two pipes. `PipeInv` says of each `request` line still in
`stdout` that the Bridge waits for it, or its `cancel` line follows it, or the Bridge is gone;
that there is one such line, its answer is not yet in `stdin` and the editor has not begun; and
of each request the editor works on the same with a `cancel` line anywhere. So whatever ends
a request on the Bridge's side (an answer, a timer, a stop) leaves behind it the line that
ends it in the editor, and no line overtakes another.

`AgentRuntimeProofs` proves `AgentTyped`, `ApprovedEffects`, `HeardRuns` and
`AbortedRunsAreQuiet` for any number of prompts, calls, turns and batches. `TypeOK` itself
ties the tables of `serveStdio` to the places of the runs. `PipesOK` follows a decision
through its pipe: a line that says ALLOW names an approval that the user was shown and
allowed, or one that is over (`Past`) and so resolves nothing. `RunOK` follows a call from
its approval to `Execute`; an aborted run has no capability that a check would pass.
`Listened` ties what the process has to what the client waits for, pipes included, so that
no run goes on unheard.

`HubLinksProofs` proves of `LinkSpec`, for every number of links, every set of limits and
any callers: `LinksAreTyped`, `SlotsReturned`, `LimitIsHeld`, `CloseIsQuiet`. The limit
bounds `links` and `starting` together, so a step that moves a create into the table keeps
it only because the slot it gives back was its own: `LimitHeld` is proved with
`SlotsAreReturned`, and that needs `Fresh` (the next number is unused). Every action is first
reduced to what it does to the two counted sets (`SlotTaken`, `SlotReturned`, `TableShrinks`,
`LimitChanges`), and `CountsKept` does the counting once. `Waited` records what `close()`
has already waited for.

`HubTasksProofs` shows `TasksUseTheHub`: every step of the composition is a step of
`LinkSpec` or leaves the Hub alone, so the theorems of `HubLinksProofs` hold of it
(`TasksHoldTheLimit` states one). The only invariant it needs is that a limit being saved, or
rolled back to, is a legal one. `LinksAreGivenBack` proves `TasksRevokeTheirLinks` for every
depth and budget: `AgentsInv` says of each agent on the stack what its place implies of
its link (past `create` it is settled, past its own revoke it is out of the table), and
`LinksMoveOn` that a link never comes back into the table; so an agent can leave the stack
only with its link gone, or with its page lost. `RollbackIsCovered` rests on `LimitHeld`: a
rollback is refused only when more than the old limit is in use, and that much never exceeds
the new one. `ConnectionIsTracked` uses `ConnInv`: while `/api/connect` is under way at most two
of its links can serve, the new one and `connectionLink`, and whichever it drops is out of
the table by then, also when somebody else revoked it. `TasksAreTyped` rests on the
budget: an agent that acts has taken its action before, and those above it on the stack take
from the same one, so that no unwinding lets a chat act past it.

`WorkspacePatchProofs` proves `PatchTyped` for any calls, plans, paths and contents, any number
of bridges, faults, aborts and crashes, torn windows included. `TypeOK` alone is not
inductive: `TypeInv` adds that a call at its commit has a plan (`Planned`) and that the loop
index is inside it (`Indexed`), which is what keeps every backup and every lock at a path of
the plan.

`NoWritesPastTheDead` proves `DeadBlocksWrites`, again without any assumption on faults, torn
windows or bridges. `DeadInv` says that while calls are served no directory of a dead call is
left, and that a recovery that has read the directory has each of them still to do or among
those it failed at, so that one that failed nowhere has removed them all.
The stronger statement of line 558, `UnresolvedBlocksWrites`, is false (`patch_unresolved`).

`PreimageSafe` proves `PreimageKept` for any calls,
plans and numbers of faults, aborts and crashes, under three assumptions: `OneStarter`, one
bridge on the root at a time (`patch_two_bridges` shows what a second one does);
`~TornWindows`, no crash in the windows `Torn` names, between a rename and its journal record
above all (`patch_torn`), and no `rm` after a commit that stops halfway (`patch_cleanup`); and
`RollbacksWork`, the file operations of rollbacks and cleanups do
not fail by themselves, while the commit may fail or be aborted at every step. Without the
last one a second failure loses the file (`patch_unresolved` is its first step).
The inductive invariant `PatchInv` has three parts:

* of each transaction (`TxnInv`): its operations have no path in common (`Sound`); a source
  has its expected bytes unless its backup has them (`Kept`); and once its call is
  dead, the journal names every backup (`LoggedBackups`), because a restart knows nothing else;
* of each call or recovery at work (`ActorInv`): the journal object in its memory covers the
  backups (`Remembers`), and no backup lies where its loop has not come to or has come back
  from (`Placed`), so that the end of the rollback finds none left to delete;
* of all of them: whoever has staged holds its locks (`Locked`), so that transactions on disk
  share no path (`Disjoint`); calls work only while the bridge serves (`CallsServed`), and it
  serves only when the recovery has left no directory (`RecoveryFirst`).

`WorkerStep` does once what every step of a commit, a rollback or a cleanup has in common: it
touches only its own transaction and its paths (`Footprint`), so the others keep theirs.

`PatchesAreAtomic` is the refinement: under the same three assumptions `Spec` implements
`AtomicPatch` (`CallsAreAtomic`). `PatchInv` says where the bytes of a source are; the
refinement also needs what is at the *targets*, since `Logical` takes away every file an add or
a move has placed. `LogicInv` adds it:

* of each transaction (`TxnLogic`): a new file goes where none is expected (`Shaped`); nothing
  lies at a target until its content is placed (`AllFree`, `StagedFree`), and once the call is
  dead, until the journal names the placement (`LoggedFree`); a cleanup of a commit that still
  counts as undone finds every operation performed (`AllPerformed`);
* of each actor (`ActorLogic`): the same seen from the journal object in memory (`Cleared`) and
  from the loop index, behind which a commit has performed everything and a rollback has
  removed everything (`Progress`).

From these, `LogicalIs` gives `Logical` file by file: what an undecided transaction expected of
a file it touches, the file itself otherwise. So a transaction that begins to count
(`PrepareIsUnseen`) or ends by rollback leaves `Logical` as it is, and the removal that decides
one (`CleanupIsSeenOnce`, `CommitsAtOnce`) changes it by the whole plan at once, on files that
have the expected versions because nobody else could touch them. Every other step shows nothing
(`Unseen`), except that it may refuse calls (`OnlyRefuses`), or states a plan (`AgreesOnce`).

`OutputsProofs` proves `PtyHonest`, `ReadersServed`, `PanelTrue` and `OutputsTyped` of
`MCOutputs!Spec`, for any output, chunks, rings, pages, inputs and limits, and any number of
runs, calls and diffs. What these modules do to data are folds, selections and
concatenations; the proofs go through them by induction over sets of numbers (`NatInd`, from
the well-foundedness of `<`), which turns each fold into a function of values given one
after the other (`Successive`).

* *Sessions.* `PtyInv` says that a session not marked as truncated has in its ring the bytes
  that end at `ptyNext`, each at its offset, and that the inputs applied are those asked for,
  in their order.
* *Commands.* The ring is a `Segment` of the bytes of the stream between two ends of code
  points (`Ends`), and so are pages; `CommandInv` says that what the parser has handed on
  (`Shown`) and what it keeps back are what has arrived, and that it has handed on nothing of
  the marker. The step that needs it all is `handleTerminalData`: a chunk may end inside
  the marker, and what is kept back is exactly what may still be its beginning. A waiter that
  began to listen after the last change of `nextOffset` has it in its baseline.
* *The panel.* What is left of a list are its places by rank (`At`). The counter is a sum of
  bodies (`Total`), and each of `deletePatch` and `trimBodies` is shown to take from both the
  same: for this a patch is there once per run and call (`Distinct`), so that a patch that
  comes again replaces its own body, and `Math.max(0, ...)` is never the smaller of the two.
  Trimming takes the oldest places that are not busy, so more than the limit stays only if
  all of them are busy. `ReviewsOK` follows a mark to the review that gave it, which is
  dropped with its run and replaced when the user takes it back.

Only model-checked: what a failing operation in the rollback or the cleanup of a recovery does
(`patch`; the theorems on patches but `PatchTyped` and `NoWritesPastTheDead` assume
`RollbacksWork`), and all liveness properties, which
the prover does not cover (fairness, ENABLED).

## 5. Not modelled

* A foreign process that changes a workspace file between the last version check
  and the rename: no lock of the code can exclude it.
* The patch grammar, diffs, path resolution, workspace reading and search; OAuth scopes,
  keys and token lifetimes: data and pure I/O.
* `sendInput` of commands, which writes to the terminal and keeps no state; the PTY backend
  (external, its events are in the models).
* The event store as a store: `AgentRuntime` has each write as a place where a run may
  fail. That the chains of overlapping runs interleave in one file is not checked.
* The task store: two lists replaced or extended in one synchronous step under checked
  limits; no order of events to explore.
* The panel's connection phase, rendering, settings; the cloud account, whose server's
  answers the repository does not describe.
* The Hub's proxied requests (a revoked link destroys them), account import, browser and
  desktop control, and the page or API an agent talks through.
* Models, the MCP relay, contracts, packaging scripts: no state of their own.

*Known divergences that no run shows.*

* The POSIX wrapper prints the directory where the parser of the end header
  (`command-manager.ts:424`) reads a chunk count. The runs have the Windows wrapper.
* `run.cancel` does not end a pending approval (`runtime/index.ts:437`): a cancelled run waits
  for the user.
* A retry that is still stopping the helper before (`bridge-tunnel.ts:181`) when `stop()`
  arrives, or whose line is read while the tunnel stops (`bridge-http.ts:1380` and 1038 do not
  look whether the Bridge closes), spawns a helper later; `process.exit` (1415) leaves it
  behind. The model has it as an `"orphan"` in `late`; no text of the repository promises
  otherwise.
* A check of the origin, by `start()` or by `health()` (`bridge-tunnel.ts:222`), that answers
  after the helper has exited or `stop()` has come writes `public_ready` all the same. The
  model gives this status a name of its own, `"overtaken"`; `ReadyIsTrue` and its proof say
  that this is the only way to a `public_ready` that nothing serves.
* `start()` of the client is resumed after lines of the same chunk; `extension.ts:1759` then
  overwrites what they said. `BridgeHost` ends at the client's promises.
* Between the last look at `bridgeStartCancelled` (`extension.ts:1684`) and the spawn a cancel
  is not seen; the model has that window as `resolving`.
* When `closeAgent` throws, `hub.revoke` is not reached and the agent's link stays until its
  ttl (`pageLost`); `docs/linux.md:162` does not speak of that case and the property excepts it.
