--------------------------- MODULE WorkspacePatch ---------------------------
(***************************************************************************)
(* Patch transactions on a workspace (tool-gateway/workspace-patch.ts):    *)
(* applyPatch and replaceFile calls, their path locks, the journal each    *)
(* keeps on disk, rollback, and recovery when a bridge starts.             *)
(*                                                                         *)
(* A file content stands for its bytes and for its SHA-256 version.  One   *)
(* step is what the code does between two awaits that another call, the    *)
(* recovery of another bridge or a crash of the process can get between.   *)
(***************************************************************************)
EXTENDS Integers, Sequences, FiniteSets

CONSTANTS
  Calls,         \* applyPatch / replaceFile calls
  Starters,      \* startBridgeServer calls: each runs recoverPendingTransactions
  Lazy,          \* the shared recovery a first applyPatch starts
  Paths,         \* files, as integers in the order path locks are sorted
  Content,       \* possible file contents
  NoPath,        \* the source of an operation that has none
  Missing,       \* what a path holds when there is no file
  InitFiles,     \* the workspace before the first call
  Requests,      \* [Calls -> the sequence of operations each call asks for]
  MaxFailures,   \* bound: file-system operations that fail and abort signals, together
  MaxCrashes,    \* bound: crashes of the process
  TornWindows    \* may a crash or a failing removal hit an unjournalled window?

Recoverers == Starters \cup {Lazy}
Actors == Calls \cup Recoverers

\* What a hunk of a patch asks for: an update or a deletion is of its source, a move
\* elsewhere.  A write_file asks for one "replace".
Operations ==
  [kind : {"add", "replace"}, src : {NoPath}, tgt : Paths, content : Content]
  \cup {op \in [kind : {"update", "delete", "move"}, src : Paths, tgt : Paths, content : Content] :
           op.kind # "move" => op.src = op.tgt}

ASSUME PathsAssumption == Paths \subseteq Nat /\ NoPath \notin Paths
ASSUME FilesAssumption ==
  /\ Missing \notin Content
  /\ InitFiles \in [Paths -> Content \cup {Missing}]
ASSUME ActorsAssumption == /\ Calls \cap Recoverers = {} /\ Calls # {}
                           /\ Lazy \notin Starters
ASSUME RequestsAssumption ==
  /\ Requests \in [Calls -> Seq(Operations)]
  /\ \A c \in Calls : /\ Requests[c] # <<>>
                      /\ \A i \in DOMAIN Requests[c] :
                            Requests[c][i].kind = "replace" => Len(Requests[c]) = 1
ASSUME BoundsAssumption ==
  /\ {MaxFailures, MaxCrashes} \subseteq Nat
  /\ TornWindows \in BOOLEAN

VARIABLES
  files,      \* the workspace: [Paths -> Content \cup {Missing}]
  dirs,       \* transactions that have a directory under .mooncode
  journal,    \* journal.json of each transaction
  staged,     \* operations whose new content waits in staged/
  backup,     \* what backup/ holds for each operation
  pc,         \* where each call and each recovery is
  txn,        \* the transaction an actor works on
  mem,        \* the journal object an actor holds in memory
  idx,        \* the operation an actor is at
  plan,       \* the operations of each call
  expected,   \* expected_versions of each call
  lockq,      \* pathLocks: per path, the calls that hold or wait for it
  aborted,    \* calls whose AbortSignal is raised
  outcome,    \* what each call returned
  blocked,    \* the root is in blockedRecoveryRoots
  promise,    \* rootRecoveryPromises of the root
  todo, failed, wasBlocked,   \* the locals of each recoverPendingTransactions
  serving,    \* some bridge has started in this process
  faults, aborts, crashes     \* how much of each bound is used

disk  == <<files, dirs, journal, staged, backup>>
local == <<txn, mem, idx>>
calls == <<plan, expected, aborted, outcome>>
root  == <<blocked, promise, serving>>
recov == <<todo, failed, wasBlocked>>
used  == <<faults, aborts, crashes>>
vars  == <<disk, pc, local, calls, lockq, root, recov, used>>

-----------------------------------------------------------------------------
(***************************************************************************)
(* Operations, plans and journals.                                         *)
(***************************************************************************)
OpPaths(op) == {op.src, op.tgt} \ {NoPath}
Touched(c)  == UNION {OpPaths(plan[c][i]) : i \in DOMAIN plan[c]}
HasSource(op) == op.src # NoPath

HomeTxn(a) == IF a \in Calls THEN a ELSE CHOOSE c \in Calls : TRUE
NoJournal == [phase |-> "none", backedUp |-> {}, committed |-> {}]
Op(a)     == plan[txn[a]][idx[a]]

\* buildPlan: every version as expected, nothing to add or move onto exists,
\* every source exists, and no path is touched twice.
Valid(c) ==
  /\ \A p \in Touched(c) : expected[c][p] = files[p]
  /\ \A i \in DOMAIN plan[c] :
       LET op == plan[c][i] IN
       /\ HasSource(op) => files[op.src] # Missing
       /\ op.kind \in {"add", "move"} => files[op.tgt] = Missing
       /\ \A j \in 1..(i - 1) : OpPaths(op) \cap OpPaths(plan[c][j]) = {}

\* An operation of the file system that could succeed (ok) fails: one of the
\* bounded faults.  One that cannot succeed always fails.
Fault(ok) == IF ok THEN faults + aborts < MaxFailures /\ faults' = faults + 1
                   ELSE UNCHANGED faults

Goto(a, l) == pc' = [pc EXCEPT ![a] = l]

\* Leaving applyPatch: its finally opens the gate of every path lock it holds, on which
\* the next in the queue waits.
Finish(c, result) ==
  /\ Goto(c, "done")
  /\ outcome' = [outcome EXCEPT ![c] = result]
  /\ lockq' = [p \in Paths |-> IF lockq[p] # <<>> /\ Head(lockq[p]) = c
                              THEN Tail(lockq[p]) ELSE lockq[p]]

HoldsAll(c) == \A p \in Touched(c) : lockq[p] # <<>> /\ Head(lockq[p]) = c

-----------------------------------------------------------------------------
(***************************************************************************)
(* applyPatch up to its critical section.                                  *)
(***************************************************************************)
\* The client has read the files it names and calls apply_patch, or calls
\* write_file, whose preflight read supplies the expected version.
Request(c) ==
  /\ pc[c] = "idle" /\ serving
  /\ expected' = [expected EXCEPT ![c] = files]
  /\ Goto(c, IF Requests[c][1].kind = "replace" THEN "snapshot" ELSE "ensure")
  /\ plan' = [plan EXCEPT ![c] = Requests[c]]
  /\ UNCHANGED <<disk, local, aborted, outcome, lockq, root, recov, used>>

\* replaceFile looks again and turns the call into an update or an add.
Snapshot(c) ==
  /\ pc[c] = "snapshot"
  /\ LET p == plan[c][1].tgt
         exists == files[p] # Missing
     IN plan' = [plan EXCEPT ![c][1].kind = IF exists THEN "update" ELSE "add",
                             ![c][1].src = IF exists THEN p ELSE NoPath]
  /\ Goto(c, "ensure")
  /\ UNCHANGED <<disk, local, expected, aborted, outcome, lockq, root, recov, used>>

\* The signal of the request, or of the lease of its session, is raised.
Abort(c) ==
  /\ pc[c] \notin {"idle", "done"} /\ c \notin aborted /\ faults + aborts < MaxFailures
  /\ aborted' = aborted \cup {c}
  /\ aborts' = aborts + 1
  /\ UNCHANGED <<disk, pc, local, plan, expected, outcome, lockq, root, recov,
                 faults, crashes>>

\* ensureRecovered refuses a blocked root, else awaits the one shared recovery
\* of the root, which the first call starts.
EnsureRecovered(c) ==
  /\ pc[c] = "ensure"
  /\ \/ /\ blocked \/ promise = "failed" \/ c \in aborted
        /\ Finish(c, "rejected")
        /\ UNCHANGED <<promise, wasBlocked>>
     \/ /\ ~blocked /\ promise = "none" /\ c \notin aborted
        /\ promise' = "running"
        /\ wasBlocked' = [wasBlocked EXCEPT ![Lazy] = blocked]
        /\ pc' = [pc EXCEPT ![c] = "await", ![Lazy] = "list"]
        /\ UNCHANGED <<lockq, outcome>>
     \/ /\ ~blocked /\ promise \in {"running", "ok"} /\ c \notin aborted
        /\ Goto(c, "await")
        /\ UNCHANGED <<promise, wasBlocked, lockq, outcome>>
  /\ UNCHANGED <<disk, local, plan, expected, aborted, blocked, serving,
                 todo, failed, used>>

AwaitRecovery(c) ==
  /\ pc[c] = "await"
  /\ \/ promise = "failed" /\ Finish(c, "rejected")
     \/ promise = "ok" /\ Goto(c, "preflight") /\ UNCHANGED <<lockq, outcome>>
  /\ UNCHANGED <<disk, local, plan, expected, aborted, root, recov, used>>

\* The first buildPlan and assertNotDirty.  An unsaved editor buffer refuses
\* the call just as a version conflict does.
Preflight(c) ==
  /\ pc[c] = "preflight"
  /\ \/ Finish(c, "rejected")
     \/ Valid(c) /\ c \notin aborted /\ Goto(c, "lock") /\ UNCHANGED <<lockq, outcome>>
  /\ UNCHANGED <<disk, local, plan, expected, aborted, root, recov, used>>

\* A bug to catch: paths are locked in the order of the plan, unsorted.
AcquireLock_PlanOrder(c) ==
  /\ pc[c] = "lock"
  /\ LET joined == {p \in Touched(c) : \E i \in DOMAIN lockq[p] : lockq[p][i] = c}
         open == {i \in DOMAIN plan[c] : ~(OpPaths(plan[c][i]) \subseteq joined)}
     IN /\ \A p \in joined : Head(lockq[p]) = c
        /\ \/ \E i \in open : /\ \A j \in open : i <= j
                              /\ \E p \in OpPaths(plan[c][i]) \ joined :
                                   lockq' = [lockq EXCEPT ![p] = Append(@, c)]
                              /\ UNCHANGED pc
           \/ open = {} /\ Goto(c, "revalidate") /\ UNCHANGED lockq
  /\ UNCHANGED <<disk, local, calls, root, recov, used>>

\* acquirePathLocks: join the queue of the next path in sorted order once
\* every queue already joined has come to this call.
AcquireLock(c) ==
  /\ pc[c] = "lock"
  /\ LET joined == {p \in Touched(c) : \E i \in DOMAIN lockq[p] : lockq[p][i] = c}
         rest == Touched(c) \ joined
     IN /\ \A p \in joined : Head(lockq[p]) = c
        /\ \/ /\ rest # {}
              /\ LET next == CHOOSE p \in rest : \A q \in rest : p <= q
                 IN lockq' = [lockq EXCEPT ![next] = Append(@, c)]
              /\ UNCHANGED pc
           \/ /\ rest = {}
              /\ Goto(c, "revalidate")
              /\ UNCHANGED lockq
  /\ UNCHANGED <<disk, local, calls, root, recov, used>>

\* A bug to catch: no second buildPlan under the locks.
Revalidate_Skipped(c) ==
  /\ pc[c] = "revalidate"
  /\ Goto(c, "stage")
  /\ UNCHANGED <<disk, local, calls, lockq, root, recov, used>>

\* The buildPlan under the locks, assertNotDirty, and the caller's
\* enterCommitCriticalSection, which refuses a revoked lease.
Revalidate(c) ==
  /\ pc[c] = "revalidate"
  /\ \/ Finish(c, "rejected")
     \/ Valid(c) /\ c \notin aborted /\ Goto(c, "stage") /\ UNCHANGED <<lockq, outcome>>
  /\ UNCHANGED <<disk, local, plan, expected, aborted, root, recov, used>>

-----------------------------------------------------------------------------
(***************************************************************************)
(* Staging, the journal and the commit loop.  WriteJournal replaces the    *)
(* file by a rename of a synced copy, so it is all or nothing.             *)
(***************************************************************************)
WriteJournal(a, j) == /\ txn[a] \in dirs
                      /\ journal' = [journal EXCEPT ![txn[a]] = j]

\* The transaction directory and the staged contents.
Stage(c) ==
  /\ pc[c] = "stage"
  /\ dirs' = dirs \cup {c}
  /\ \/ /\ c \notin aborted
        /\ staged' = [staged EXCEPT ![c] = {i \in DOMAIN plan[c] : plan[c][i].kind # "delete"}]
        /\ Goto(c, "prepare")
        /\ UNCHANGED faults
     \/ /\ IF c \in aborted THEN UNCHANGED faults ELSE Fault(TRUE)
        /\ Goto(c, "cleanDiscard")
        /\ UNCHANGED staged
  /\ UNCHANGED <<files, journal, backup, local, calls, lockq, root, recov,
                 aborts, crashes>>

Prepare(c) ==
  LET prepared == [phase |-> "prepared", backedUp |-> {}, committed |-> {}] IN
  /\ pc[c] = "prepare"
  /\ mem' = [mem EXCEPT ![c] = prepared]
  /\ \/ WriteJournal(c, prepared) /\ Goto(c, "begin") /\ UNCHANGED faults
     \/ Fault(c \in dirs) /\ Goto(c, "cleanDiscard") /\ UNCHANGED journal
  /\ UNCHANGED <<files, dirs, staged, backup, txn, idx, calls, lockq, root, recov,
                 aborts, crashes>>

BeginCommit(c) ==
  LET committing == [mem[c] EXCEPT !.phase = "committing"] IN
  /\ pc[c] = "begin"
  /\ mem' = [mem EXCEPT ![c] = committing]
  /\ idx' = [idx EXCEPT ![c] = 1]
  /\ \/ WriteJournal(c, committing) /\ Goto(c, "op") /\ UNCHANGED faults
     \/ Fault(c \in dirs) /\ Goto(c, "rollback") /\ UNCHANGED journal
  /\ UNCHANGED <<files, dirs, staged, backup, txn, calls, lockq, root, recov,
                 aborts, crashes>>

\* checkAbort at the head of the loop.
AbortCommit(c) ==
  /\ pc[c] = "op" /\ c \in aborted
  /\ Goto(c, "rollback")
  /\ UNCHANGED <<disk, local, calls, lockq, root, recov, used>>

\* rename(source, backup); mkdir has recreated the backup directory if need be.
BackupSource(c) ==
  /\ pc[c] = "op" /\ c \notin aborted /\ HasSource(Op(c))
  /\ \/ /\ files[Op(c).src] # Missing
        /\ backup' = [backup EXCEPT ![c][idx[c]] = files[Op(c).src]]
        /\ files' = [files EXCEPT ![Op(c).src] = Missing]
        /\ mem' = [mem EXCEPT ![c].backedUp = @ \cup {idx[c]}]
        /\ Goto(c, "logBackup")
        /\ UNCHANGED faults
     \/ /\ Fault(files[Op(c).src] # Missing)
        /\ Goto(c, "rollback")
        /\ UNCHANGED <<files, backup, mem>>
  /\ dirs' = dirs \cup {c}
  /\ UNCHANGED <<journal, staged, txn, idx, calls, lockq, root, recov,
                 aborts, crashes>>

\* A bug to catch: the loop runs one operation too far.
NextOp_PastEnd(c) == IF idx[c] <= Len(plan[c])
                     THEN Goto(c, "op") /\ idx' = [idx EXCEPT ![c] = @ + 1]
                     ELSE Goto(c, "cleanCommit") /\ UNCHANGED idx

\* The loop goes on to the next operation, or out to cleanupTransaction.
NextOp(c) == IF idx[c] < Len(plan[c])
             THEN Goto(c, "op") /\ idx' = [idx EXCEPT ![c] = @ + 1]
             ELSE Goto(c, "cleanCommit") /\ UNCHANGED idx

LogBackup(c) ==
  /\ pc[c] = "logBackup"
  /\ \/ /\ WriteJournal(c, mem[c])
        /\ IF Op(c).kind = "delete" THEN NextOp(c) ELSE Goto(c, "place") /\ UNCHANGED idx
        /\ UNCHANGED faults
     \/ Fault(c \in dirs) /\ Goto(c, "rollback") /\ UNCHANGED <<journal, idx>>
  /\ UNCHANGED <<files, dirs, staged, backup, txn, mem, calls, lockq, root, recov,
                 aborts, crashes>>

\* rename(staged, target), over whatever is at the target.
Place(c) ==
  /\ pc[c] = "place" \/ (pc[c] = "op" /\ c \notin aborted /\ ~HasSource(Op(c)))
  /\ \/ /\ idx[c] \in staged[c]
        /\ files' = [files EXCEPT ![Op(c).tgt] = Op(c).content]
        /\ staged' = [staged EXCEPT ![c] = @ \ {idx[c]}]
        /\ mem' = [mem EXCEPT ![c].committed = @ \cup {idx[c]}]
        /\ Goto(c, "logPlace")
        /\ UNCHANGED faults
     \/ /\ Fault(idx[c] \in staged[c])
        /\ Goto(c, "rollback")
        /\ UNCHANGED <<files, staged, mem>>
  /\ UNCHANGED <<dirs, journal, backup, txn, idx, calls, lockq, root, recov,
                 aborts, crashes>>

LogPlace(c) ==
  /\ pc[c] = "logPlace"
  /\ \/ WriteJournal(c, mem[c]) /\ NextOp(c) /\ UNCHANGED faults
     \/ Fault(c \in dirs) /\ Goto(c, "rollback") /\ UNCHANGED <<journal, idx>>
  /\ UNCHANGED <<files, dirs, staged, backup, txn, mem, calls, lockq, root, recov,
                 aborts, crashes>>

-----------------------------------------------------------------------------
(***************************************************************************)
(* cleanupTransaction: a recursive rm, which removes the entries of the    *)
(* directory one by one in no particular order.                            *)
(***************************************************************************)
Cleaning == {"cleanCommit", "cleanRollback", "cleanDiscard"}
NoBackups(x) == \A i \in DOMAIN backup[x] : backup[x][i] = Missing

\* A committed call can no longer be undone once its journal or a backup is gone.
Decide(a) == IF pc[a] = "cleanCommit"
             THEN outcome' = [outcome EXCEPT ![a] = "applied"]
             ELSE UNCHANGED outcome

RemoveJournal(a) ==
  /\ pc[a] \in Cleaning /\ journal[txn[a]] # NoJournal
  /\ journal' = [journal EXCEPT ![txn[a]] = NoJournal]
  /\ Decide(a)
  /\ UNCHANGED <<files, dirs, staged, backup, pc, local, plan, expected, aborted,
                 lockq, root, recov, used>>

RemoveBackups(a) ==
  /\ pc[a] \in Cleaning /\ ~NoBackups(txn[a])
  /\ backup' = [backup EXCEPT ![txn[a]] = [i \in DOMAIN @ |-> Missing]]
  /\ Decide(a)
  /\ UNCHANGED <<files, dirs, journal, staged, pc, local, plan, expected, aborted,
                 lockq, root, recov, used>>

CleanupResult == [cleanCommit |-> "applied", cleanRollback |-> "rolled_back",
                  cleanDiscard |-> "rejected"]

NextEntry(r) == /\ Goto(r, "entries")
                /\ todo' = [todo EXCEPT ![r] = @ \ {txn[r]}]

\* The empty directory goes last, staged/ with it.
RemoveDirectory(a) ==
  /\ pc[a] \in Cleaning /\ journal[txn[a]] = NoJournal /\ NoBackups(txn[a])
  /\ dirs' = dirs \ {txn[a]}
  /\ staged' = [staged EXCEPT ![txn[a]] = {}]
  /\ \/ a \in Calls /\ Finish(a, CleanupResult[pc[a]]) /\ UNCHANGED todo
     \/ a \in Recoverers /\ NextEntry(a) /\ UNCHANGED <<lockq, outcome>>
  /\ UNCHANGED <<files, journal, backup, local, plan, expected, aborted, root,
                 failed, wasBlocked, used>>

\* rm fails.  After a commit the call rolls back, from what rm has left if TornWindows
\* lets it fail halfway; in the catch block the error leaves applyPatch; a recovery
\* counts the transaction as failed.
CleanupFails(a) ==
  /\ pc[a] \in Cleaning /\ Fault(TRUE)
  /\ pc[a] = "cleanCommit" => TornWindows \/ outcome[a] # "applied"
  /\ \/ /\ pc[a] = "cleanCommit" /\ Goto(a, "rollback")
        /\ UNCHANGED <<lockq, outcome, todo, failed>>
     \/ /\ a \in Calls /\ pc[a] # "cleanCommit" /\ Finish(a, "threw")
        /\ UNCHANGED <<todo, failed>>
     \/ /\ a \in Recoverers /\ NextEntry(a)
        /\ failed' = [failed EXCEPT ![a] = @ \cup {txn[a]}]
        /\ UNCHANGED <<lockq, outcome>>
  /\ UNCHANGED <<disk, local, plan, expected, aborted, root, wasBlocked,
                 aborts, crashes>>

-----------------------------------------------------------------------------
(***************************************************************************)
(* rollback, run by a call over its own journal object or by a recovery    *)
(* over the copy it has read: from the last operation to the first, remove *)
(* what was placed, restore what was backed up, drop what was staged.      *)
(***************************************************************************)
\* The journal write that opens rollback is outside its try block.
StartRollback(a) ==
  LET rolling == [mem[a] EXCEPT !.phase = "rolling_back"] IN
  /\ pc[a] = "rollback"
  /\ mem' = [mem EXCEPT ![a] = rolling]
  /\ idx' = [idx EXCEPT ![a] = Len(plan[txn[a]])]
  /\ \/ /\ WriteJournal(a, rolling) /\ Goto(a, "undo")
        /\ UNCHANGED <<lockq, outcome, todo, failed, faults>>
     \/ /\ Fault(txn[a] \in dirs) /\ UNCHANGED journal
        /\ \/ a \in Calls /\ Finish(a, "threw") /\ UNCHANGED <<todo, failed>>
           \/ /\ a \in Recoverers /\ NextEntry(a)
              /\ failed' = [failed EXCEPT ![a] = @ \cup {txn[a]}]
              /\ UNCHANGED <<lockq, outcome>>
  /\ UNCHANGED <<files, dirs, staged, backup, txn, plan, expected, aborted,
                 root, wasBlocked, aborts, crashes>>

Undoing(a, l) == pc[a] = l /\ idx[a] > 0

\* A bug to catch: rollback removes a target only where nothing is restored over it
\* afterwards, and takes a move for such a case.
RemoveTarget_AddsOnly(a) ==
  /\ Undoing(a, "undo") /\ idx[a] \in mem[a].committed
  /\ files' = [files EXCEPT ![Op(a).tgt] = IF HasSource(Op(a)) THEN @ ELSE Missing]
  /\ mem' = [mem EXCEPT ![a].committed = @ \ {idx[a]}]
  /\ Goto(a, "logRemove")
  /\ UNCHANGED <<dirs, journal, staged, backup, txn, idx, calls, lockq, root, recov, used>>

\* rm(target, force): no error when nothing is there.
RemoveTarget(a) ==
  /\ Undoing(a, "undo") /\ idx[a] \in mem[a].committed
  /\ \/ /\ files' = [files EXCEPT ![Op(a).tgt] = Missing]
        /\ mem' = [mem EXCEPT ![a].committed = @ \ {idx[a]}]
        /\ Goto(a, "logRemove")
        /\ UNCHANGED faults
     \/ Fault(TRUE) /\ Goto(a, "giveUp") /\ UNCHANGED <<files, mem>>
  /\ UNCHANGED <<dirs, journal, staged, backup, txn, idx, calls, lockq, root, recov,
                 aborts, crashes>>

LogRemove(a) ==
  /\ pc[a] = "logRemove"
  /\ \/ WriteJournal(a, mem[a]) /\ Goto(a, "restore") /\ UNCHANGED faults
     \/ Fault(txn[a] \in dirs) /\ Goto(a, "giveUp") /\ UNCHANGED journal
  /\ UNCHANGED <<files, dirs, staged, backup, local, calls, lockq, root, recov,
                 aborts, crashes>>

\* rename(backup, source), over whatever is at the source.
RestoreSource(a) ==
  LET saved == backup[txn[a]][idx[a]] IN
  /\ \/ Undoing(a, "restore")
     \/ Undoing(a, "undo") /\ idx[a] \notin mem[a].committed
  /\ idx[a] \in mem[a].backedUp
  /\ \/ /\ saved # Missing
        /\ files' = [files EXCEPT ![Op(a).src] = saved]
        /\ backup' = [backup EXCEPT ![txn[a]][idx[a]] = Missing]
        /\ mem' = [mem EXCEPT ![a].backedUp = @ \ {idx[a]}]
        /\ Goto(a, "logRestore")
        /\ UNCHANGED faults
     \/ /\ Fault(saved # Missing)
        /\ Goto(a, "giveUp")
        /\ UNCHANGED <<files, backup, mem>>
  /\ UNCHANGED <<dirs, journal, staged, txn, idx, calls, lockq, root, recov,
                 aborts, crashes>>

\* The staged file of the operation goes, and the loop turns to the one before.
UndoPrevious(a) ==
  /\ staged' = [staged EXCEPT ![txn[a]] = @ \ {idx[a]}]
  /\ idx' = [idx EXCEPT ![a] = @ - 1]
  /\ Goto(a, "undo")

LogRestore(a) ==
  /\ pc[a] = "logRestore"
  /\ \/ WriteJournal(a, mem[a]) /\ UndoPrevious(a) /\ UNCHANGED faults
     \/ Fault(txn[a] \in dirs) /\ Goto(a, "giveUp") /\ UNCHANGED <<journal, staged, idx>>
  /\ UNCHANGED <<files, dirs, backup, txn, mem, calls, lockq, root, recov,
                 aborts, crashes>>

NothingToRestore(a) ==
  /\ \/ Undoing(a, "restore")
     \/ Undoing(a, "undo") /\ idx[a] \notin mem[a].committed
  /\ idx[a] \notin mem[a].backedUp
  /\ UndoPrevious(a)
  /\ UNCHANGED <<files, dirs, journal, backup, txn, mem, calls, lockq, root, recov, used>>

RollbackDone(a) ==
  /\ pc[a] = "undo" /\ idx[a] = 0
  /\ Goto(a, "cleanRollback")
  /\ UNCHANGED <<disk, local, calls, lockq, root, recov, used>>

\* The catch block of rollback: phase recovery_required, written if possible.
GiveUp(a) ==
  LET required == [mem[a] EXCEPT !.phase = "recovery_required"] IN
  /\ pc[a] = "giveUp"
  /\ mem' = [mem EXCEPT ![a] = required]
  /\ \/ WriteJournal(a, required) /\ UNCHANGED faults
     \/ Fault(txn[a] \in dirs) /\ UNCHANGED journal
  /\ \/ /\ a \in Calls /\ Finish(a, "recovery_required")
        /\ blocked' = TRUE
        /\ UNCHANGED <<todo, failed>>
     \/ /\ a \in Recoverers /\ NextEntry(a)
        /\ failed' = [failed EXCEPT ![a] = @ \cup {txn[a]}]
        /\ UNCHANGED <<blocked, lockq, outcome>>
  /\ UNCHANGED <<files, dirs, staged, backup, txn, idx, plan, expected, aborted,
                 promise, serving, wasBlocked, aborts, crashes>>

-----------------------------------------------------------------------------
(***************************************************************************)
(* recoverPendingTransactions, which takes no path lock.                   *)
(***************************************************************************)
\* startBridgeServer runs it before the new bridge serves anything.
StartBridge(s) ==
  /\ s \in Starters /\ pc[s] = "idle"
  /\ Goto(s, "list")
  /\ wasBlocked' = [wasBlocked EXCEPT ![s] = blocked]
  /\ UNCHANGED <<disk, local, calls, lockq, root, todo, failed, used>>

\* A bug to catch: a recovery that failed lets the bridge serve.
Settle_Anyway(r, ok, free) ==
  /\ Goto(r, "done")
  /\ blocked' = FALSE
  /\ promise' = IF r = Lazy THEN "ok" ELSE promise
  /\ serving' = (serving \/ r \in Starters)

\* What the recovery r leaves behind it: its failed transactions block the
\* root; otherwise the root is free, and a starting bridge begins to serve.
Settle(r, ok, free) ==
  /\ Goto(r, "done")
  /\ blocked' = ~ok
  /\ promise' = IF r = Lazy THEN IF ok THEN "ok" ELSE "failed"
                ELSE IF ok /\ free THEN "ok" ELSE promise
  /\ serving' = (serving \/ (ok /\ r \in Starters))

\* readdir: no directory, nothing to do.
ListTransactions(r) ==
  /\ pc[r] = "list"
  /\ \/ dirs = {} /\ Settle(r, TRUE, FALSE) /\ UNCHANGED <<todo, failed>>
     \/ /\ dirs # {} /\ Goto(r, "entries")
        /\ todo' = [todo EXCEPT ![r] = dirs]
        /\ failed' = [failed EXCEPT ![r] = {}]
        /\ UNCHANGED root
  /\ UNCHANGED <<disk, local, calls, lockq, wasBlocked, used>>

\* readdir fails: the recovery throws, and blocks nothing by itself.
ListFails(r) ==
  /\ pc[r] = "list" /\ Fault(TRUE)
  /\ Goto(r, "done")
  /\ promise' = IF r = Lazy THEN "failed" ELSE promise
  /\ UNCHANGED <<disk, local, calls, lockq, blocked, serving, recov,
                 aborts, crashes>>

\* A bug to catch: recovery clears away a transaction without rolling it back.
RecoverEntry_NoRollback(r, x) ==
  /\ pc[r] = "entries" /\ x \in todo[r]
  /\ txn' = [txn EXCEPT ![r] = x]
  /\ Goto(r, "cleanRollback")
  /\ UNCHANGED <<disk, mem, idx, calls, lockq, root, recov, used>>

\* Read the journal of the next entry and roll it back; without one it fails.
RecoverEntry(r, x) ==
  /\ pc[r] = "entries" /\ x \in todo[r]
  /\ \/ /\ journal[x] # NoJournal
        /\ txn' = [txn EXCEPT ![r] = x]
        /\ mem' = [mem EXCEPT ![r] = journal[x]]
        /\ Goto(r, "rollback")
        /\ UNCHANGED <<todo, failed>>
     \/ /\ journal[x] = NoJournal
        /\ todo' = [todo EXCEPT ![r] = @ \ {x}]
        /\ failed' = [failed EXCEPT ![r] = @ \cup {x}]
        /\ UNCHANGED <<txn, mem, pc>>
  /\ UNCHANGED <<disk, idx, calls, lockq, root, wasBlocked, used>>

RecoveryDone(r) ==
  /\ pc[r] = "entries" /\ todo[r] = {}
  /\ Settle(r, failed[r] = {}, wasBlocked[r])
  /\ UNCHANGED <<disk, local, calls, lockq, recov, used>>

-----------------------------------------------------------------------------
(***************************************************************************)
(* Crashes of the process.                                                 *)
(***************************************************************************)
\* The windows in which the disk is ahead of the journal a recovery reads: a
\* backup or a target renamed into place and not yet (or never) journalled, and
\* a commit being cleaned up that has lost its backups but not its journal.
Torn(c) == /\ journal[c] # NoJournal
           /\ \/ ~(mem[c].backedUp \subseteq journal[c].backedUp)
              \/ ~(mem[c].committed \subseteq journal[c].committed)
              \/ pc[c] = "cleanCommit" /\ outcome[c] = "applied"

Running(c) == pc[c] \notin {"idle", "done", "crashed"}

\* The process dies and another starts: memory is lost, the disk is not.
Crash ==
  /\ crashes < MaxCrashes
  /\ crashes' = crashes + 1
  /\ TornWindows \/ \A c \in Calls : ~Torn(c)
  /\ pc' = [a \in Actors |-> IF a \in Recoverers THEN "idle"
                             ELSE IF Running(a) THEN "crashed" ELSE pc[a]]
  /\ lockq' = [p \in Paths |-> <<>>]
  /\ blocked' = FALSE /\ promise' = "none" /\ serving' = FALSE
  /\ txn' = [a \in Actors |-> HomeTxn(a)]
  /\ mem' = [a \in Actors |-> NoJournal]
  /\ idx' = [a \in Actors |-> 0]
  /\ todo' = [r \in Recoverers |-> {}]
  /\ failed' = [r \in Recoverers |-> {}]
  /\ wasBlocked' = [r \in Recoverers |-> FALSE]
  /\ UNCHANGED <<disk, calls, faults, aborts>>

-----------------------------------------------------------------------------
Init ==
  /\ files = InitFiles
  /\ dirs = {}
  /\ journal = [c \in Calls |-> NoJournal]
  /\ staged = [c \in Calls |-> {}]
  /\ backup = [c \in Calls |-> [i \in DOMAIN Requests[c] |-> Missing]]
  /\ pc = [a \in Actors |-> "idle"]
  /\ txn = [a \in Actors |-> HomeTxn(a)]
  /\ mem = [a \in Actors |-> NoJournal]
  /\ idx = [a \in Actors |-> 0]
  /\ plan = [c \in Calls |-> <<>>]
  /\ expected = [c \in Calls |-> InitFiles]
  /\ lockq = [p \in Paths |-> <<>>]
  /\ aborted = {}
  /\ outcome = [c \in Calls |-> "none"]
  /\ blocked = FALSE /\ promise = "none" /\ serving = FALSE
  /\ todo = [r \in Recoverers |-> {}]
  /\ failed = [r \in Recoverers |-> {}]
  /\ wasBlocked = [r \in Recoverers |-> FALSE]
  /\ faults = 0 /\ aborts = 0 /\ crashes = 0

CallStep(c) ==
  \/ Snapshot(c) \/ EnsureRecovered(c) \/ AwaitRecovery(c) \/ Preflight(c)
  \/ AcquireLock(c) \/ Revalidate(c) \/ Stage(c) \/ Prepare(c) \/ BeginCommit(c)
  \/ AbortCommit(c) \/ BackupSource(c) \/ LogBackup(c) \/ Place(c) \/ LogPlace(c)

UndoStep(a) ==
  \/ StartRollback(a) \/ RemoveTarget(a) \/ LogRemove(a) \/ RestoreSource(a)
  \/ LogRestore(a) \/ NothingToRestore(a) \/ RollbackDone(a) \/ GiveUp(a)

CleanStep(a) ==
  RemoveJournal(a) \/ RemoveBackups(a) \/ RemoveDirectory(a) \/ CleanupFails(a)

RecoverStep(r) ==
  \/ ListTransactions(r) \/ ListFails(r) \/ RecoveryDone(r)
  \/ \E x \in Calls : RecoverEntry(r, x)

Step(a) == \/ a \in Calls /\ CallStep(a)
           \/ a \in Recoverers /\ RecoverStep(a)
           \/ UndoStep(a) \/ CleanStep(a)

Next == \/ \E a \in Actors : Step(a)
        \/ \E c \in Calls : Request(c) \/ Abort(c)
        \/ \E s \in Starters : StartBridge(s)
        \/ Crash

Spec == Init /\ [][Next]_vars

\* Every promise of the code settles and every bridge that is asked for starts:
\* an actor that can go on eventually does.
FairSpec == Spec /\ \A a \in Actors : WF_vars(Step(a))
                 /\ \A s \in Starters : WF_vars(StartBridge(s))

-----------------------------------------------------------------------------
(***************************************************************************)
(* Properties.                                                             *)
(***************************************************************************)
Phases == {"none", "prepared", "committing", "rolling_back", "recovery_required"}
Journals == [phase : Phases, backedUp : SUBSET Nat, committed : SUBSET Nat]

UndoPlaces == {"rollback", "undo", "logRemove", "restore", "logRestore", "giveUp"}
CallPlaces == {"idle", "snapshot", "ensure", "await", "preflight", "lock", "revalidate", "stage",
               "prepare", "begin", "op", "logBackup", "place", "logPlace", "done", "crashed"}
              \cup UndoPlaces \cup Cleaning
RecoveryPlaces == {"idle", "list", "entries", "done", "cleanRollback"} \cup UndoPlaces

\* Every variable stays in its set, and the commit loop at an operation of its plan.
TypeOK ==
  /\ files \in [Paths -> Content \cup {Missing}]
  /\ dirs \subseteq Calls /\ aborted \subseteq Calls
  /\ journal \in [Calls -> Journals] /\ mem \in [Actors -> Journals]
  /\ staged \in [Calls -> SUBSET Nat] /\ plan \in [Calls -> Seq(Operations)]
  /\ DOMAIN backup = Calls
  /\ \A c \in Calls : /\ backup[c] \in [DOMAIN Requests[c] -> Content \cup {Missing}]
                      /\ DOMAIN plan[c] \in {{}, DOMAIN Requests[c]}
  /\ expected \in [Calls -> [Paths -> Content \cup {Missing}]]
  /\ DOMAIN pc = Actors
  /\ \A c \in Calls : pc[c] \in CallPlaces
  /\ \A r \in Recoverers : pc[r] \in RecoveryPlaces
  /\ txn \in [Actors -> Calls] /\ idx \in [Actors -> Nat]
  /\ \A c \in Calls : pc[c] \in {"op", "logBackup", "place", "logPlace"} => idx[c] \in DOMAIN plan[c]
  /\ lockq \in [Paths -> Seq(Calls)]
  /\ outcome \in [Calls -> {"none", "applied", "rolled_back", "rejected", "threw",
                            "recovery_required"}]
  /\ promise \in {"none", "running", "ok", "failed"}
  /\ {blocked, serving} \subseteq BOOLEAN /\ wasBlocked \in [Recoverers -> BOOLEAN]
  /\ {todo, failed} \subseteq [Recoverers -> SUBSET Calls]
  /\ faults \in 0..MaxFailures /\ aborts \in 0..MaxFailures /\ crashes \in 0..MaxCrashes

\* Until a transaction is decided, the bytes of each of its source files are at
\* the source or in its backup, whatever failed and whenever the process died.
PreimageKept ==
  \A c \in dirs : journal[c] # NoJournal /\ outcome[c] # "applied" =>
    \A i \in DOMAIN plan[c] : HasSource(plan[c][i]) =>
      expected[c][plan[c][i].src] \in {files[plan[c][i].src], backup[c][i]}

\* No call changes a file past a transaction whose call died with its process, until a
\* recovery has removed it: a bridge serves only after one that failed nowhere.
DeadBlocksWrites ==
  [][\A c \in dirs : pc[c] = "crashed" =>
       \A d \in Calls : ~BackupSource(d) /\ ~Place(d)]_vars

\* No call changes a file while a transaction whose call is over still has its
\* journal on disk: "unresolved patch recovery blocks writes for this workspace".
Unresolved(c) == c \in dirs /\ journal[c] # NoJournal /\ pc[c] \in {"done", "crashed"}
UnresolvedBlocksWrites ==
  [][\A c \in Calls : Unresolved(c) =>
       \A d \in Calls : BackupSource(d) \/ Place(d) => files' = files]_vars

\* Again and again no call is under way.  Each call is made once, so every call is answered
\* unless the process dies: no two of them wait for each other's path locks, and every
\* recovery, rollback and cleanup comes to an end.
AllAnswered == []<>(\A c \in Calls : ~Running(c))

(***************************************************************************)
(* The promise to callers.  What a caller may rely on is the workspace with*)
(* every undecided transaction undone; a transaction is decided when its   *)
(* journal, or its first backup, is removed after the last operation.      *)
(***************************************************************************)
Pending(c) == c \in dirs /\ journal[c] # NoJournal /\ outcome[c] # "applied"

\* The operations a rollback would still undo, and what it would put back at p.
PendingOps == UNION {{c} \X DOMAIN plan[c] : c \in {d \in dirs : Pending(d)}}
SavedAt(p) == {backup[ci[1]][ci[2]] : ci \in {di \in PendingOps : plan[di[1]][di[2]].src = p}}
              \ {Missing}
CreatedAt(p) == \E ci \in PendingOps : LET op == plan[ci[1]][ci[2]] IN
                  op.tgt = p /\ op.kind \in {"add", "move"} /\ ci[2] \notin staged[ci[1]]

Logical == [p \in Paths |-> IF SavedAt(p) # {} THEN CHOOSE v \in SavedAt(p) : TRUE
                            ELSE IF CreatedAt(p) THEN Missing
                            ELSE files[p]]

Decision == [c \in Calls |-> IF outcome[c] = "applied" THEN "applied"
                             ELSE IF pc[c] \in {"done", "crashed"} THEN "refused" ELSE "none"]

Promise == INSTANCE AtomicPatch
             WITH store <- Logical,
                  agreed <- [c \in Calls |-> [plan |-> plan[c], expected |-> expected[c]]],
                  decision <- Decision

\* Every call takes effect at one instant, on files of exactly the versions it
\* expected, or not at all.
CallsAreAtomic == Promise!Spec
=============================================================================
