------------------------ MODULE WorkspacePatchProofs ------------------------
(***************************************************************************)
(* Proofs about WorkspacePatch.tla.  First its types, and that the loops   *)
(* of a commit and of a rollback stay within the plan; then what crashes,  *)
(* rollbacks and recoveries may not lose; last, that calls take effect at  *)
(* one instant or not at all: it implements AtomicPatch.                   *)
(***************************************************************************)
EXTENDS WorkspacePatch, TLAPS, SequenceTheorems

USE DEF disk, local, calls, root, recov, used, vars

SelfTxn == \A c \in Calls : txn[c] = c
Planned == \A c \in Calls : pc[c] # "idle" => plan[c] # <<>>
Indexed == \A a \in Actors :
  /\ pc[a] \in {"op", "logBackup", "place", "logPlace"} => idx[a] \in DOMAIN plan[txn[a]]
  /\ pc[a] \in {"undo", "logRemove", "restore", "logRestore"} => idx[a] \in 0..Len(plan[txn[a]])
  /\ pc[a] \in {"logRemove", "restore", "logRestore"} => idx[a] # 0


StoreOK == /\ files \in [Paths -> Content \cup {Missing}]
           /\ DOMAIN backup = Calls
           /\ \A c \in Calls : backup[c] \in [DOMAIN Requests[c] -> Content \cup {Missing}]
JournalsOK == journal \in [Calls -> Journals] /\ mem \in [Actors -> Journals]
DirsOK == /\ dirs \subseteq Calls /\ aborted \subseteq Calls
          /\ staged \in [Calls -> SUBSET Nat]
PlansOK == /\ plan \in [Calls -> Seq(Operations)]
           /\ \A c \in Calls : DOMAIN plan[c] \in {{}, DOMAIN Requests[c]}
           /\ expected \in [Calls -> [Paths -> Content \cup {Missing}]]
PlacesOK == /\ DOMAIN pc = Actors
            /\ \A c \in Calls : pc[c] \in CallPlaces
            /\ \A r \in Recoverers : pc[r] \in RecoveryPlaces
WorkOK == txn \in [Actors -> Calls] /\ idx \in [Actors -> Nat] /\ SelfTxn
AnswersOK == /\ lockq \in [Paths -> Seq(Calls)]
             /\ outcome \in [Calls -> {"none", "applied", "rolled_back", "rejected", "threw",
                                       "recovery_required"}]
RootOK == /\ promise \in {"none", "running", "ok", "failed"}
          /\ blocked \in BOOLEAN /\ serving \in BOOLEAN
          /\ wasBlocked \in [Recoverers -> BOOLEAN]
          /\ todo \in [Recoverers -> SUBSET Calls] /\ failed \in [Recoverers -> SUBSET Calls]
BoundsOK == faults \in 0..MaxFailures /\ aborts \in 0..MaxFailures /\ crashes \in 0..MaxCrashes

TypeInv == /\ StoreOK /\ JournalsOK /\ DirsOK /\ PlansOK /\ PlacesOK /\ WorkOK
           /\ AnswersOK /\ RootOK /\ BoundsOK /\ Planned /\ Indexed

LEMMA ActorFacts == /\ Calls \cap Recoverers = {} /\ Calls \cup Recoverers = Actors
                    /\ Lazy \in Recoverers /\ Starters \subseteq Recoverers
  BY ActorsAssumption DEF Recoverers, Actors

LEMMA TypeInvTypes == TypeInv => TypeOK
<1> SUFFICES ASSUME TypeInv PROVE TypeOK
  OBVIOUS
<1>1. \A c \in Calls : pc[c] \in {"op", "logBackup", "place", "logPlace"} => idx[c] \in DOMAIN plan[c]
  BY ActorFacts DEF TypeInv, Indexed, WorkOK, SelfTxn
<1> QED BY <1>1 DEF TypeInv, TypeOK, StoreOK, JournalsOK, DirsOK, PlansOK, PlacesOK, WorkOK, AnswersOK,
     RootOK, BoundsOK

LEMMA TypeInit == Init => TypeInv
<1> SUFFICES ASSUME Init PROVE TypeInv
  OBVIOUS
<1> USE ActorFacts DEF Init
<1>1. StoreOK /\ PlansOK
  BY FilesAssumption, RequestsAssumption DEF StoreOK, PlansOK
<1>2. JournalsOK /\ DirsOK /\ RootOK
  BY DEF JournalsOK, Journals, Phases, NoJournal, DirsOK, RootOK
<1>6. AnswersOK
  BY DEF AnswersOK
<1>3. PlacesOK /\ Planned /\ Indexed
  BY DEF PlacesOK, CallPlaces, RecoveryPlaces, Planned, Indexed
<1>4. WorkOK
  BY ActorsAssumption DEF WorkOK, SelfTxn, HomeTxn
<1>5. BoundsOK
  BY BoundsAssumption DEF BoundsOK
<1> QED BY <1>1, <1>2, <1>3, <1>4, <1>5, <1>6 DEF TypeInv

LEMMA OpTyped ==
  ASSUME TypeInv, NEW x \in Calls, NEW i \in DOMAIN plan[x]
  PROVE  /\ plan[x][i] \in Operations
         /\ plan[x][i].tgt \in Paths /\ plan[x][i].content \in Content
         /\ plan[x][i].src \in Paths \cup {NoPath}
         /\ HasSource(plan[x][i]) => plan[x][i].src \in Paths
         /\ i \in DOMAIN Requests[x] /\ i \in 1..Len(plan[x])
<1>1. plan[x][i] \in Operations
  BY DEF TypeInv, PlansOK
<1>2. i \in DOMAIN Requests[x] /\ i \in 1..Len(plan[x])
  BY DEF TypeInv, PlansOK
<1> QED BY <1>1, <1>2 DEF Operations, HasSource

LEMMA FaultTyped ==
  ASSUME TypeInv, NEW ok, Fault(ok) \/ UNCHANGED faults PROVE faults' \in 0..MaxFailures
  BY BoundsAssumption DEF TypeInv, BoundsOK, Fault

LEMMA FinishTyped ==
  ASSUME TypeInv, NEW c \in Calls,
         NEW result \in {"applied", "rolled_back", "rejected", "threw", "recovery_required"},
         Finish(c, result)
  PROVE  AnswersOK'
<1>1. ASSUME NEW q \in Seq(Calls), q # <<>> PROVE Tail(q) \in Seq(Calls)
  BY <1>1
<1>2. lockq' \in [Paths -> Seq(Calls)]
  BY <1>1 DEF TypeInv, AnswersOK, Finish
<1> QED BY <1>2 DEF TypeInv, AnswersOK, Finish

LEMMA PhaseTyped ==
  ASSUME NEW j \in Journals, NEW ph \in Phases PROVE [j EXCEPT !.phase = ph] \in Journals
  BY DEF Journals

LEMMA JournalTyped ==
  ASSUME NEW j \in Journals, NEW i \in Nat
  PROVE  /\ [j EXCEPT !.backedUp = @ \cup {i}] \in Journals
         /\ [j EXCEPT !.backedUp = @ \ {i}] \in Journals
         /\ [j EXCEPT !.committed = @ \cup {i}] \in Journals
         /\ [j EXCEPT !.committed = @ \ {i}] \in Journals
  BY DEF Journals

LEMMA RequestTyped == ASSUME TypeInv, NEW c \in Calls, Request(c) PROVE TypeInv'
<1> USE ActorFacts DEF TypeInv
<1>1. (JournalsOK /\ DirsOK /\ WorkOK /\ AnswersOK /\ RootOK /\ BoundsOK)'
  BY DEF Request, JournalsOK, DirsOK, WorkOK, AnswersOK, RootOK, BoundsOK, SelfTxn
<1>2. StoreOK'
  BY DEF Request, Goto, StoreOK, Op, PlansOK, WorkOK, SelfTxn
<1>3. PlansOK'
  BY RequestsAssumption DEF Request, StoreOK, PlansOK
<1>4. PlacesOK'
  BY DEF Request, Goto, PlacesOK, CallPlaces, RecoveryPlaces, UndoPlaces, Cleaning, Undoing
<1>5. Planned'
  BY RequestsAssumption DEF Request, Goto, Planned, PlacesOK, PlansOK
<1>6. Indexed'
  BY DEF Request, Goto, Indexed, Undoing, UndoPlaces, Cleaning, PlacesOK, WorkOK, PlansOK, SelfTxn, CallPlaces, RecoveryPlaces
<1> QED BY <1>1, <1>2, <1>3, <1>4, <1>5, <1>6

LEMMA AbortTyped == ASSUME TypeInv, NEW c \in Calls, Abort(c) PROVE TypeInv'
<1> USE ActorFacts DEF TypeInv
<1>1. (StoreOK /\ JournalsOK /\ PlansOK /\ PlacesOK /\ WorkOK /\ AnswersOK /\ RootOK /\ Planned /\ Indexed)'
  BY DEF Abort, StoreOK, JournalsOK, PlansOK, PlacesOK, WorkOK, AnswersOK, RootOK, Planned, Indexed, SelfTxn
<1>2. DirsOK'
  BY DEF Abort, DirsOK, WorkOK
<1>3. BoundsOK'
  BY BoundsAssumption DEF Abort, BoundsOK
<1> QED BY <1>1, <1>2, <1>3

LEMMA SnapshotTyped == ASSUME TypeInv, NEW c \in Calls, Snapshot(c) PROVE TypeInv'
<1> USE ActorFacts DEF TypeInv
<1>1. (JournalsOK /\ DirsOK /\ WorkOK /\ AnswersOK /\ RootOK /\ BoundsOK)'
  BY DEF Snapshot, JournalsOK, DirsOK, WorkOK, AnswersOK, RootOK, BoundsOK, SelfTxn
<1>2. StoreOK'
  BY DEF Snapshot, Goto, StoreOK, Op, PlansOK, WorkOK, SelfTxn
<1>3. PlansOK'
  <2>1. /\ plan[c] # <<>> /\ plan[c] \in Seq(Operations) /\ 1 \in DOMAIN plan[c]
        /\ DOMAIN plan[c] \in {{}, DOMAIN Requests[c]}
    BY DEF Snapshot, Planned, PlansOK
  <2> DEFINE exists == files[plan[c][1].tgt] # Missing
             op == [[plan[c][1] EXCEPT !.kind = IF exists THEN "update" ELSE "add"]
                      EXCEPT !.src = IF exists THEN plan[c][1].tgt ELSE NoPath]
             ops == [plan[c] EXCEPT ![1] = op]
  <2>2. plan[c][1] \in Operations
    BY <2>1
  <2>3. op \in Operations
    BY <2>2 DEF Operations
  <2>4. plan' = [plan EXCEPT ![c] = ops]
    BY <2>1 DEF Snapshot, PlansOK
  <2> HIDE DEF op
  <2>5. ops \in Seq(Operations) /\ DOMAIN ops = DOMAIN plan[c]
    BY <2>1, <2>3, ExceptSeq
  <2> HIDE DEF ops
  <2>6. expected' = expected
    BY DEF Snapshot
  <2> QED BY <2>1, <2>4, <2>5, <2>6 DEF PlansOK
<1>4. PlacesOK'
  BY DEF Snapshot, Goto, PlacesOK, CallPlaces, RecoveryPlaces, UndoPlaces, Cleaning, Undoing
<1>5. Planned'
  <2>1. /\ plan[c] # <<>> /\ plan[c] \in Seq(Operations) /\ 1 \in DOMAIN plan[c]
    BY DEF Snapshot, Planned, PlansOK
  <2>2. DOMAIN plan'[c] = DOMAIN plan[c]
    BY DEF Snapshot, PlansOK
  <2> QED BY <2>1, <2>2 DEF Snapshot, Goto, Planned, PlacesOK, PlansOK
<1>6. Indexed'
  BY DEF Snapshot, Goto, Indexed, Undoing, UndoPlaces, Cleaning, PlacesOK, WorkOK, PlansOK, SelfTxn, CallPlaces, RecoveryPlaces
<1> QED BY <1>1, <1>2, <1>3, <1>4, <1>5, <1>6

LEMMA EnsureRecoveredTyped == ASSUME TypeInv, NEW c \in Calls, EnsureRecovered(c) PROVE TypeInv'
<1> USE ActorFacts DEF TypeInv
<1>1. (StoreOK /\ JournalsOK /\ DirsOK /\ PlansOK /\ WorkOK /\ BoundsOK)'
  BY DEF EnsureRecovered, StoreOK, JournalsOK, DirsOK, PlansOK, WorkOK, BoundsOK, SelfTxn
<1>2. PlacesOK'
  BY DEF EnsureRecovered, Goto, Finish, PlacesOK, CallPlaces, RecoveryPlaces, UndoPlaces, Cleaning, Undoing
<1>3. AnswersOK'
  BY FinishTyped DEF EnsureRecovered, AnswersOK
<1>4. RootOK'
  BY DEF EnsureRecovered, Goto, Finish, RootOK, DirsOK
<1>5. Planned'
  BY DEF EnsureRecovered, Goto, Finish, Planned, Undoing, UndoPlaces, Cleaning, PlacesOK
<1>6. Indexed'
  BY DEF EnsureRecovered, Goto, Finish, Indexed, PlacesOK
<1> QED BY <1>1, <1>2, <1>3, <1>4, <1>5, <1>6

LEMMA AwaitRecoveryTyped == ASSUME TypeInv, NEW c \in Calls, AwaitRecovery(c) PROVE TypeInv'
<1> USE ActorFacts DEF TypeInv
<1>1. (StoreOK /\ JournalsOK /\ DirsOK /\ PlansOK /\ WorkOK /\ RootOK /\ BoundsOK)'
  BY DEF AwaitRecovery, StoreOK, JournalsOK, DirsOK, PlansOK, WorkOK, RootOK, BoundsOK, SelfTxn
<1>2. PlacesOK'
  BY DEF AwaitRecovery, Goto, Finish, PlacesOK, CallPlaces, RecoveryPlaces, UndoPlaces, Cleaning, Undoing
<1>3. AnswersOK'
  BY FinishTyped DEF AwaitRecovery, AnswersOK
<1>4. Planned'
  BY DEF AwaitRecovery, Goto, Finish, Planned, Undoing, UndoPlaces, Cleaning, PlacesOK
<1>5. Indexed'
  BY DEF AwaitRecovery, Goto, Finish, Indexed, Undoing, UndoPlaces, Cleaning, PlacesOK, WorkOK, PlansOK, SelfTxn, CallPlaces, RecoveryPlaces
<1> QED BY <1>1, <1>2, <1>3, <1>4, <1>5

LEMMA PreflightTyped == ASSUME TypeInv, NEW c \in Calls, Preflight(c) PROVE TypeInv'
<1> USE ActorFacts DEF TypeInv
<1>1. (StoreOK /\ JournalsOK /\ DirsOK /\ PlansOK /\ WorkOK /\ RootOK /\ BoundsOK)'
  BY DEF Preflight, StoreOK, JournalsOK, DirsOK, PlansOK, WorkOK, RootOK, BoundsOK, SelfTxn
<1>2. PlacesOK'
  BY DEF Preflight, Goto, Finish, PlacesOK, CallPlaces, RecoveryPlaces, UndoPlaces, Cleaning, Undoing
<1>3. AnswersOK'
  BY FinishTyped DEF Preflight, AnswersOK
<1>4. Planned'
  BY DEF Preflight, Goto, Finish, Planned, Undoing, UndoPlaces, Cleaning, PlacesOK
<1>5. Indexed'
  BY DEF Preflight, Goto, Finish, Indexed, Undoing, UndoPlaces, Cleaning, PlacesOK, WorkOK, PlansOK, SelfTxn, CallPlaces, RecoveryPlaces
<1> QED BY <1>1, <1>2, <1>3, <1>4, <1>5

LEMMA AcquireLockTyped == ASSUME TypeInv, NEW c \in Calls, AcquireLock(c) PROVE TypeInv'
<1> USE ActorFacts DEF TypeInv
<1>1. (StoreOK /\ JournalsOK /\ DirsOK /\ PlansOK /\ WorkOK /\ RootOK /\ BoundsOK)'
  BY DEF AcquireLock, StoreOK, JournalsOK, DirsOK, PlansOK, WorkOK, RootOK, BoundsOK, SelfTxn
<1>2. PlacesOK'
  BY DEF AcquireLock, Goto, PlacesOK, CallPlaces, RecoveryPlaces, UndoPlaces, Cleaning, Undoing
<1>3. AnswersOK'
  <2>1. ASSUME NEW q \in Seq(Calls) PROVE Append(q, c) \in Seq(Calls)
    BY <2>1
  <2>2. lockq' = lockq \/ \E next : lockq' = [lockq EXCEPT ![next] = Append(@, c)]
    BY DEF AcquireLock
  <2>3. outcome' = outcome
    BY DEF AcquireLock
  <2> QED BY <2>1, <2>2, <2>3 DEF AnswersOK
<1>4. Planned'
  BY DEF AcquireLock, Goto, Planned, Undoing, UndoPlaces, Cleaning, PlacesOK
<1>5. Indexed'
  BY DEF AcquireLock, Goto, Indexed, Undoing, UndoPlaces, Cleaning, PlacesOK, WorkOK, PlansOK, SelfTxn, CallPlaces, RecoveryPlaces
<1> QED BY <1>1, <1>2, <1>3, <1>4, <1>5

LEMMA RevalidateTyped == ASSUME TypeInv, NEW c \in Calls, Revalidate(c) PROVE TypeInv'
<1> USE ActorFacts DEF TypeInv
<1>1. (StoreOK /\ JournalsOK /\ DirsOK /\ PlansOK /\ WorkOK /\ RootOK /\ BoundsOK)'
  BY DEF Revalidate, StoreOK, JournalsOK, DirsOK, PlansOK, WorkOK, RootOK, BoundsOK, SelfTxn
<1>2. PlacesOK'
  BY DEF Revalidate, Goto, Finish, PlacesOK, CallPlaces, RecoveryPlaces, UndoPlaces, Cleaning, Undoing
<1>3. AnswersOK'
  BY FinishTyped DEF Revalidate, AnswersOK
<1>4. Planned'
  BY DEF Revalidate, Goto, Finish, Planned, Undoing, UndoPlaces, Cleaning, PlacesOK
<1>5. Indexed'
  BY DEF Revalidate, Goto, Finish, Indexed, Undoing, UndoPlaces, Cleaning, PlacesOK, WorkOK, PlansOK, SelfTxn, CallPlaces, RecoveryPlaces
<1> QED BY <1>1, <1>2, <1>3, <1>4, <1>5

LEMMA StageTyped == ASSUME TypeInv, NEW c \in Calls, Stage(c) PROVE TypeInv'
<1> USE ActorFacts DEF TypeInv
<1>1. (StoreOK /\ JournalsOK /\ PlansOK /\ WorkOK /\ AnswersOK /\ RootOK)'
  BY DEF Stage, StoreOK, JournalsOK, PlansOK, WorkOK, AnswersOK, RootOK, SelfTxn
<1>2. DirsOK'
  <2>1. {i \in DOMAIN plan[c] : plan[c][i].kind # "delete"} \subseteq Nat
    BY DEF PlansOK
  <2> QED BY <2>1 DEF Stage, DirsOK
<1>3. PlacesOK'
  BY DEF Stage, Goto, Fault, PlacesOK, CallPlaces, RecoveryPlaces, UndoPlaces, Cleaning, Undoing
<1>4. BoundsOK'
  BY FaultTyped DEF Stage, BoundsOK
<1>5. Planned'
  BY DEF Stage, Goto, Fault, Planned, Undoing, UndoPlaces, Cleaning, PlacesOK
<1>6. Indexed'
  BY DEF Stage, Goto, Fault, Indexed, Undoing, UndoPlaces, Cleaning, PlacesOK, WorkOK, PlansOK, SelfTxn, CallPlaces, RecoveryPlaces
<1> QED BY <1>1, <1>2, <1>3, <1>4, <1>5, <1>6

LEMMA PrepareTyped == ASSUME TypeInv, NEW c \in Calls, Prepare(c) PROVE TypeInv'
<1> USE ActorFacts DEF TypeInv
<1>1. (StoreOK /\ DirsOK /\ PlansOK /\ WorkOK /\ AnswersOK /\ RootOK)'
  BY DEF Prepare, StoreOK, DirsOK, PlansOK, WorkOK, AnswersOK, RootOK, SelfTxn
<1>2. JournalsOK'
  BY DEF Prepare, Goto, WriteJournal, Fault, JournalsOK, Journals, Phases, NoJournal, WorkOK
<1>3. PlacesOK'
  BY DEF Prepare, Goto, WriteJournal, Fault, PlacesOK, CallPlaces, RecoveryPlaces, UndoPlaces, Cleaning, Undoing
<1>4. BoundsOK'
  BY FaultTyped DEF Prepare, BoundsOK
<1>5. Planned'
  BY DEF Prepare, Goto, WriteJournal, Fault, Planned, Undoing, UndoPlaces, Cleaning, PlacesOK
<1>6. Indexed'
  BY DEF Prepare, Goto, WriteJournal, Fault, Indexed, Undoing, UndoPlaces, Cleaning, PlacesOK, WorkOK, PlansOK, SelfTxn, CallPlaces, RecoveryPlaces
<1> QED BY <1>1, <1>2, <1>3, <1>4, <1>5, <1>6

LEMMA BeginCommitTyped == ASSUME TypeInv, NEW c \in Calls, BeginCommit(c) PROVE TypeInv'
<1> USE ActorFacts DEF TypeInv
<1>1. (StoreOK /\ DirsOK /\ PlansOK /\ AnswersOK /\ RootOK)'
  BY DEF BeginCommit, StoreOK, DirsOK, PlansOK, AnswersOK, RootOK
<1>2. JournalsOK'
  <2>1. [mem[c] EXCEPT !.phase = "committing"] \in Journals
    BY PhaseTyped DEF JournalsOK, WorkOK, Phases
  <2> QED BY <2>1 DEF BeginCommit, WriteJournal, JournalsOK, WorkOK
<1>3. PlacesOK'
  BY DEF BeginCommit, Goto, WriteJournal, Fault, PlacesOK, CallPlaces, RecoveryPlaces, UndoPlaces, Cleaning, Undoing
<1>4. WorkOK'
  BY DEF BeginCommit, Goto, WriteJournal, Fault, WorkOK, SelfTxn
<1>5. BoundsOK'
  BY FaultTyped DEF BeginCommit, BoundsOK
<1>6. Planned'
  BY DEF BeginCommit, Goto, WriteJournal, Fault, Planned, Undoing, UndoPlaces, Cleaning, PlacesOK
<1>7. Indexed'
  <2>1. plan[c] # <<>> /\ txn[c] = c /\ plan[c] \in Seq(Operations)
    BY DEF BeginCommit, Planned, PlansOK, WorkOK, SelfTxn
  <2>2. 1 \in DOMAIN plan[c]
    BY <2>1
  <2> QED BY <2>1, <2>2 DEF BeginCommit, Goto, Indexed, PlacesOK, WorkOK
<1> QED BY <1>1, <1>2, <1>3, <1>4, <1>5, <1>6, <1>7

LEMMA AbortCommitTyped == ASSUME TypeInv, NEW c \in Calls, AbortCommit(c) PROVE TypeInv'
<1> USE ActorFacts DEF TypeInv
<1>1. (StoreOK /\ JournalsOK /\ DirsOK /\ PlansOK /\ WorkOK /\ AnswersOK /\ RootOK /\ BoundsOK)'
  BY DEF AbortCommit, StoreOK, JournalsOK, DirsOK, PlansOK, WorkOK, AnswersOK, RootOK, BoundsOK, SelfTxn
<1>2. PlacesOK'
  BY DEF AbortCommit, Goto, PlacesOK, CallPlaces, RecoveryPlaces, UndoPlaces, Cleaning, Undoing
<1>3. Planned'
  BY DEF AbortCommit, Goto, Planned, Undoing, UndoPlaces, Cleaning, PlacesOK
<1>4. Indexed'
  BY DEF AbortCommit, Goto, Indexed, Undoing, UndoPlaces, Cleaning, PlacesOK, WorkOK, PlansOK, SelfTxn, CallPlaces, RecoveryPlaces
<1> QED BY <1>1, <1>2, <1>3, <1>4

LEMMA BackupSourceTyped == ASSUME TypeInv, NEW c \in Calls, BackupSource(c) PROVE TypeInv'
<1> USE ActorFacts DEF TypeInv
<1>1. (PlansOK /\ WorkOK /\ AnswersOK /\ RootOK)'
  BY DEF BackupSource, PlansOK, WorkOK, AnswersOK, RootOK, SelfTxn
<1>2. StoreOK'
  <2>1. /\ idx[c] \in DOMAIN plan[c] /\ txn[c] = c
    BY DEF BackupSource, Indexed, WorkOK, SelfTxn
  <2>2. Op(c).src \in Paths /\ idx[c] \in DOMAIN Requests[c]
    BY <2>1, OpTyped DEF BackupSource, Op
  <2> QED BY <2>1, <2>2 DEF BackupSource, StoreOK
<1>3. JournalsOK'
  <2>1. [mem[c] EXCEPT !.backedUp = @ \cup {idx[c]}] \in Journals
    BY JournalTyped DEF JournalsOK, WorkOK
  <2>2. mem' = [mem EXCEPT ![c] = [mem[c] EXCEPT !.backedUp = @ \cup {idx[c]}]] \/ mem' = mem
    BY DEF BackupSource
  <2>3. journal' = journal
    BY DEF BackupSource
  <2> QED BY <2>1, <2>2, <2>3 DEF JournalsOK
<1>4. DirsOK'
  BY DEF BackupSource, Goto, Fault, DirsOK, WorkOK
<1>5. PlacesOK'
  BY DEF BackupSource, Goto, Fault, PlacesOK, CallPlaces, RecoveryPlaces, UndoPlaces, Cleaning, Undoing
<1>6. BoundsOK'
  BY FaultTyped DEF BackupSource, BoundsOK
<1>7. Planned'
  BY DEF BackupSource, Goto, Fault, Planned, Undoing, UndoPlaces, Cleaning, PlacesOK
<1>8. Indexed'
  BY DEF BackupSource, Goto, Fault, Indexed, Undoing, UndoPlaces, Cleaning, PlacesOK, WorkOK, PlansOK, SelfTxn, CallPlaces, RecoveryPlaces
<1> QED BY <1>1, <1>2, <1>3, <1>4, <1>5, <1>6, <1>7, <1>8

LEMMA LogBackupTyped == ASSUME TypeInv, NEW c \in Calls, LogBackup(c) PROVE TypeInv'
<1> USE ActorFacts DEF TypeInv
<1>1. (StoreOK /\ DirsOK /\ PlansOK /\ AnswersOK /\ RootOK)'
  BY DEF LogBackup, StoreOK, DirsOK, PlansOK, AnswersOK, RootOK
<1>2. JournalsOK'
  BY DEF LogBackup, Goto, WriteJournal, Fault, NextOp, JournalsOK, Journals, Phases, NoJournal, WorkOK
<1>3. PlacesOK'
  BY DEF LogBackup, Goto, WriteJournal, Fault, NextOp, PlacesOK, CallPlaces, RecoveryPlaces, UndoPlaces, Cleaning, Undoing
<1>4. WorkOK'
  BY DEF LogBackup, NextOp, WorkOK, SelfTxn
<1>5. BoundsOK'
  BY FaultTyped DEF LogBackup, BoundsOK
<1>6. Planned'
  BY DEF LogBackup, Goto, WriteJournal, Fault, NextOp, Planned, Undoing, UndoPlaces, Cleaning, PlacesOK
<1>7. Indexed'
  BY DEF LogBackup, Goto, WriteJournal, Fault, NextOp, Indexed, Undoing, UndoPlaces, Cleaning, PlacesOK, WorkOK, PlansOK, SelfTxn, CallPlaces, RecoveryPlaces
<1> QED BY <1>1, <1>2, <1>3, <1>4, <1>5, <1>6, <1>7

LEMMA PlaceTyped == ASSUME TypeInv, NEW c \in Calls, Place(c) PROVE TypeInv'
<1> USE ActorFacts DEF TypeInv
<1>1. (PlansOK /\ WorkOK /\ AnswersOK /\ RootOK)'
  BY DEF Place, PlansOK, WorkOK, AnswersOK, RootOK, SelfTxn
<1>2. StoreOK'
  <2>1. /\ idx[c] \in DOMAIN plan[c] /\ txn[c] = c
    BY DEF Place, Indexed, WorkOK, SelfTxn
  <2>2. Op(c).content \in Content
    BY <2>1, OpTyped DEF Op
  <2> QED BY <2>1, <2>2 DEF Place, StoreOK
<1>3. JournalsOK'
  <2>1. [mem[c] EXCEPT !.committed = @ \cup {idx[c]}] \in Journals
    BY JournalTyped DEF JournalsOK, WorkOK
  <2>2. mem' = [mem EXCEPT ![c] = [mem[c] EXCEPT !.committed = @ \cup {idx[c]}]] \/ mem' = mem
    BY DEF Place
  <2>3. journal' = journal
    BY DEF Place
  <2> QED BY <2>1, <2>2, <2>3 DEF JournalsOK
<1>4. DirsOK'
  BY DEF Place, Goto, Fault, DirsOK, WorkOK
<1>5. PlacesOK'
  BY DEF Place, Goto, Fault, PlacesOK, CallPlaces, RecoveryPlaces, UndoPlaces, Cleaning, Undoing
<1>6. BoundsOK'
  BY FaultTyped DEF Place, BoundsOK
<1>7. Planned'
  BY DEF Place, Goto, Fault, Planned, Undoing, UndoPlaces, Cleaning, PlacesOK
<1>8. Indexed'
  BY DEF Place, Goto, Fault, Indexed, Undoing, UndoPlaces, Cleaning, PlacesOK, WorkOK, PlansOK, SelfTxn, CallPlaces, RecoveryPlaces
<1> QED BY <1>1, <1>2, <1>3, <1>4, <1>5, <1>6, <1>7, <1>8

LEMMA LogPlaceTyped == ASSUME TypeInv, NEW c \in Calls, LogPlace(c) PROVE TypeInv'
<1> USE ActorFacts DEF TypeInv
<1>1. (StoreOK /\ DirsOK /\ PlansOK /\ AnswersOK /\ RootOK)'
  BY DEF LogPlace, StoreOK, DirsOK, PlansOK, AnswersOK, RootOK
<1>2. JournalsOK'
  BY DEF LogPlace, Goto, WriteJournal, Fault, NextOp, JournalsOK, Journals, Phases, NoJournal, WorkOK
<1>3. PlacesOK'
  BY DEF LogPlace, Goto, WriteJournal, Fault, NextOp, PlacesOK, CallPlaces, RecoveryPlaces, UndoPlaces, Cleaning, Undoing
<1>4. WorkOK'
  BY DEF LogPlace, Goto, WriteJournal, Fault, NextOp, WorkOK, SelfTxn
<1>5. BoundsOK'
  BY FaultTyped DEF LogPlace, BoundsOK
<1>6. Planned'
  BY DEF LogPlace, Goto, WriteJournal, Fault, NextOp, Planned, Undoing, UndoPlaces, Cleaning, PlacesOK
<1>7. Indexed'
  BY DEF LogPlace, Goto, WriteJournal, Fault, NextOp, Indexed, Undoing, UndoPlaces, Cleaning, PlacesOK, WorkOK, PlansOK, SelfTxn, CallPlaces, RecoveryPlaces
<1> QED BY <1>1, <1>2, <1>3, <1>4, <1>5, <1>6, <1>7

LEMMA StartRollbackTyped == ASSUME TypeInv, NEW a \in Actors, StartRollback(a) PROVE TypeInv'
<1> USE ActorFacts DEF TypeInv
<1>1. (StoreOK /\ DirsOK /\ PlansOK)'
  BY DEF StartRollback, StoreOK, DirsOK, PlansOK
<1>2. JournalsOK'
  <2> DEFINE rolling == [mem[a] EXCEPT !.phase = "rolling_back"]
  <2>1. rolling \in Journals /\ txn[a] \in Calls
    BY PhaseTyped DEF JournalsOK, WorkOK, Phases
  <2>2. mem' = [mem EXCEPT ![a] = rolling]
    BY DEF StartRollback
  <2>3. journal' = [journal EXCEPT ![txn[a]] = rolling] \/ journal' = journal
    BY DEF StartRollback, WriteJournal
  <2> HIDE DEF rolling
  <2> QED BY <2>1, <2>2, <2>3 DEF JournalsOK
<1>3. PlacesOK'
  BY DEF StartRollback, Goto, Finish, WriteJournal, Fault, NextEntry, PlacesOK, CallPlaces, RecoveryPlaces, UndoPlaces, Cleaning, Undoing
<1>4. WorkOK'
  BY DEF StartRollback, Goto, Finish, WriteJournal, Fault, NextEntry, WorkOK, SelfTxn
<1>5. AnswersOK'
  BY FinishTyped DEF StartRollback, AnswersOK
<1>6. RootOK'
  <2>1. todo' \in [Recoverers -> SUBSET Calls]
    BY DEF StartRollback, NextEntry, RootOK
  <2>2. failed' = failed \/ failed' = [failed EXCEPT ![a] = @ \cup {txn[a]}]
    BY DEF StartRollback
  <2>3. failed' \in [Recoverers -> SUBSET Calls]
    BY <2>2 DEF RootOK, WorkOK
  <2> QED BY <2>1, <2>3 DEF StartRollback, RootOK
<1>7. BoundsOK'
  BY FaultTyped DEF StartRollback, BoundsOK
<1>8. Planned'
  BY DEF StartRollback, Goto, Finish, WriteJournal, Fault, NextEntry, Planned, Undoing, UndoPlaces, Cleaning, PlacesOK
<1>9. Indexed'
  BY DEF StartRollback, Goto, Finish, WriteJournal, Fault, NextEntry, Indexed, Undoing, UndoPlaces, Cleaning, PlacesOK, WorkOK, PlansOK, SelfTxn, CallPlaces, RecoveryPlaces
<1> QED BY <1>1, <1>2, <1>3, <1>4, <1>5, <1>6, <1>7, <1>8, <1>9

LEMMA RemoveTargetTyped == ASSUME TypeInv, NEW a \in Actors, RemoveTarget(a) PROVE TypeInv'
<1> USE ActorFacts DEF TypeInv
<1>1. (DirsOK /\ PlansOK /\ WorkOK /\ AnswersOK /\ RootOK)'
  BY DEF RemoveTarget, DirsOK, PlansOK, WorkOK, AnswersOK, RootOK, SelfTxn
<1>2. StoreOK'
  BY DEF RemoveTarget, Goto, Fault, StoreOK, Op, PlansOK, WorkOK, SelfTxn
<1>3. JournalsOK'
  <2>1. [mem[a] EXCEPT !.committed = @ \ {idx[a]}] \in Journals
    BY JournalTyped DEF JournalsOK, WorkOK
  <2>2. mem' = [mem EXCEPT ![a] = [mem[a] EXCEPT !.committed = @ \ {idx[a]}]] \/ mem' = mem
    BY DEF RemoveTarget
  <2>3. journal' = journal
    BY DEF RemoveTarget
  <2> QED BY <2>1, <2>2, <2>3 DEF JournalsOK
<1>4. PlacesOK'
  BY DEF RemoveTarget, Goto, Fault, PlacesOK, CallPlaces, RecoveryPlaces, UndoPlaces, Cleaning, Undoing
<1>5. BoundsOK'
  BY FaultTyped DEF RemoveTarget, BoundsOK
<1>6. Planned'
  BY DEF RemoveTarget, Goto, Fault, Planned, Undoing, UndoPlaces, Cleaning, PlacesOK
<1>7. Indexed'
  BY DEF RemoveTarget, Goto, Fault, Indexed, Undoing, UndoPlaces, Cleaning, PlacesOK, WorkOK, PlansOK, SelfTxn, CallPlaces, RecoveryPlaces
<1> QED BY <1>1, <1>2, <1>3, <1>4, <1>5, <1>6, <1>7

LEMMA LogRemoveTyped == ASSUME TypeInv, NEW a \in Actors, LogRemove(a) PROVE TypeInv'
<1> USE ActorFacts DEF TypeInv
<1>1. (StoreOK /\ DirsOK /\ PlansOK /\ WorkOK /\ AnswersOK /\ RootOK)'
  BY DEF LogRemove, StoreOK, DirsOK, PlansOK, WorkOK, AnswersOK, RootOK, SelfTxn
<1>2. JournalsOK'
  BY DEF LogRemove, Goto, WriteJournal, Fault, JournalsOK, Journals, Phases, NoJournal, WorkOK
<1>3. PlacesOK'
  BY DEF LogRemove, Goto, WriteJournal, Fault, PlacesOK, CallPlaces, RecoveryPlaces, UndoPlaces, Cleaning, Undoing
<1>4. BoundsOK'
  BY FaultTyped DEF LogRemove, BoundsOK
<1>5. Planned'
  BY DEF LogRemove, Goto, WriteJournal, Fault, Planned, Undoing, UndoPlaces, Cleaning, PlacesOK
<1>6. Indexed'
  BY DEF LogRemove, Goto, WriteJournal, Fault, Indexed, Undoing, UndoPlaces, Cleaning, PlacesOK, WorkOK, PlansOK, SelfTxn, CallPlaces, RecoveryPlaces
<1> QED BY <1>1, <1>2, <1>3, <1>4, <1>5, <1>6

LEMMA RestoreSourceTyped == ASSUME TypeInv, NEW a \in Actors, RestoreSource(a) PROVE TypeInv'
<1> USE ActorFacts DEF TypeInv
<1>1. (DirsOK /\ PlansOK /\ WorkOK /\ AnswersOK /\ RootOK)'
  BY DEF RestoreSource, DirsOK, PlansOK, WorkOK, AnswersOK, RootOK, SelfTxn
<1>2. StoreOK'
  <2> DEFINE x == txn[a]
             saved == backup[x][idx[a]]
  <2>1. backup[x] \in [DOMAIN Requests[x] -> Content \cup {Missing}] /\ x \in Calls
    BY DEF StoreOK, WorkOK
  <2>2. idx[a] \in DOMAIN plan[x] /\ idx[a] \in DOMAIN Requests[x]
    <3>1. idx[a] \in 1..Len(plan[x])
      BY DEF RestoreSource, Undoing, Indexed, WorkOK, PlansOK
    <3> QED BY <3>1, OpTyped DEF WorkOK, PlansOK
  <2>3. saved \in Content \cup {Missing}
    BY <2>1, <2>2
  <2>4. \/ /\ files' = [files EXCEPT ![Op(a).src] = saved]
           /\ backup' = [backup EXCEPT ![x][idx[a]] = Missing]
        \/ files' = files /\ backup' = backup
    BY DEF RestoreSource
  <2> HIDE DEF saved, x
  <2>5. files' \in [Paths -> Content \cup {Missing}]
    BY <2>3, <2>4 DEF StoreOK
  <2> QED BY <2>1, <2>4, <2>5 DEF StoreOK
<1>3. JournalsOK'
  <2>1. [mem[a] EXCEPT !.backedUp = @ \ {idx[a]}] \in Journals
    BY JournalTyped DEF JournalsOK, WorkOK
  <2>2. mem' = [mem EXCEPT ![a] = [mem[a] EXCEPT !.backedUp = @ \ {idx[a]}]] \/ mem' = mem
    BY DEF RestoreSource
  <2>3. journal' = journal
    BY DEF RestoreSource
  <2> QED BY <2>1, <2>2, <2>3 DEF JournalsOK
<1>4. PlacesOK'
  BY DEF RestoreSource, Goto, Fault, PlacesOK, CallPlaces, RecoveryPlaces, UndoPlaces, Cleaning, Undoing
<1>5. BoundsOK'
  BY FaultTyped DEF RestoreSource, BoundsOK
<1>6. Planned'
  BY DEF RestoreSource, Goto, Fault, Planned, Undoing, UndoPlaces, Cleaning, PlacesOK
<1>7. Indexed'
  BY DEF RestoreSource, Goto, Fault, Indexed, Undoing, UndoPlaces, Cleaning, PlacesOK, WorkOK, PlansOK, SelfTxn, CallPlaces, RecoveryPlaces
<1> QED BY <1>1, <1>2, <1>3, <1>4, <1>5, <1>6, <1>7

LEMMA LogRestoreTyped == ASSUME TypeInv, NEW a \in Actors, LogRestore(a) PROVE TypeInv'
<1> USE ActorFacts DEF TypeInv
<1>1. (StoreOK /\ PlansOK /\ AnswersOK /\ RootOK)'
  BY DEF LogRestore, StoreOK, PlansOK, AnswersOK, RootOK
<1>2. JournalsOK'
  BY DEF LogRestore, Goto, WriteJournal, Fault, UndoPrevious, JournalsOK, Journals, Phases, NoJournal, WorkOK
<1>3. DirsOK'
  BY DEF LogRestore, Goto, WriteJournal, Fault, UndoPrevious, DirsOK, WorkOK
<1>4. PlacesOK'
  BY DEF LogRestore, Goto, WriteJournal, Fault, UndoPrevious, PlacesOK, CallPlaces, RecoveryPlaces, UndoPlaces, Cleaning, Undoing
<1>5. WorkOK'
  <2>1. idx[a] # 0
    BY DEF LogRestore, Undoing, Indexed, WorkOK
  <2> QED BY <2>1 DEF LogRestore, UndoPrevious, WorkOK, SelfTxn
<1>6. BoundsOK'
  BY FaultTyped DEF LogRestore, BoundsOK
<1>7. Planned'
  BY DEF LogRestore, Goto, WriteJournal, Fault, UndoPrevious, Planned, Undoing, UndoPlaces, Cleaning, PlacesOK
<1>8. Indexed'
  BY DEF LogRestore, Goto, WriteJournal, Fault, UndoPrevious, Indexed, Undoing, UndoPlaces, Cleaning, PlacesOK, WorkOK, PlansOK, SelfTxn, CallPlaces, RecoveryPlaces
<1> QED BY <1>1, <1>2, <1>3, <1>4, <1>5, <1>6, <1>7, <1>8

LEMMA NothingToRestoreTyped == ASSUME TypeInv, NEW a \in Actors, NothingToRestore(a) PROVE TypeInv'
<1> USE ActorFacts DEF TypeInv
<1>1. (StoreOK /\ JournalsOK /\ PlansOK /\ AnswersOK /\ RootOK /\ BoundsOK)'
  BY DEF NothingToRestore, StoreOK, JournalsOK, PlansOK, AnswersOK, RootOK, BoundsOK
<1>2. DirsOK'
  BY DEF NothingToRestore, UndoPrevious, Goto, DirsOK, WorkOK
<1>3. PlacesOK'
  BY DEF NothingToRestore, UndoPrevious, Goto, PlacesOK, CallPlaces, RecoveryPlaces, UndoPlaces, Cleaning, Undoing
<1>4. WorkOK'
  <2>1. idx[a] # 0
    BY DEF NothingToRestore, Undoing, Indexed, WorkOK
  <2> QED BY <2>1 DEF NothingToRestore, UndoPrevious, WorkOK, SelfTxn
<1>5. Planned'
  BY DEF NothingToRestore, UndoPrevious, Goto, Planned, Undoing, UndoPlaces, Cleaning, PlacesOK
<1>6. Indexed'
  BY DEF NothingToRestore, UndoPrevious, Goto, Indexed, Undoing, UndoPlaces, Cleaning, PlacesOK, WorkOK, PlansOK, SelfTxn, CallPlaces, RecoveryPlaces
<1> QED BY <1>1, <1>2, <1>3, <1>4, <1>5, <1>6

LEMMA RollbackDoneTyped == ASSUME TypeInv, NEW a \in Actors, RollbackDone(a) PROVE TypeInv'
<1> USE ActorFacts DEF TypeInv
<1>1. (StoreOK /\ JournalsOK /\ DirsOK /\ PlansOK /\ WorkOK /\ AnswersOK /\ RootOK /\ BoundsOK)'
  BY DEF RollbackDone, StoreOK, JournalsOK, DirsOK, PlansOK, WorkOK, AnswersOK, RootOK, BoundsOK, SelfTxn
<1>2. PlacesOK'
  BY DEF RollbackDone, Goto, PlacesOK, CallPlaces, RecoveryPlaces, UndoPlaces, Cleaning, Undoing
<1>3. Planned'
  BY DEF RollbackDone, Goto, Planned, Undoing, UndoPlaces, Cleaning, PlacesOK
<1>4. Indexed'
  BY DEF RollbackDone, Goto, Indexed, Undoing, UndoPlaces, Cleaning, PlacesOK, WorkOK, PlansOK, SelfTxn, CallPlaces, RecoveryPlaces
<1> QED BY <1>1, <1>2, <1>3, <1>4

LEMMA GiveUpTyped == ASSUME TypeInv, NEW a \in Actors, GiveUp(a) PROVE TypeInv'
<1> USE ActorFacts DEF TypeInv
<1>1. (StoreOK /\ DirsOK /\ PlansOK /\ WorkOK)'
  BY DEF GiveUp, StoreOK, DirsOK, PlansOK, WorkOK, SelfTxn
<1>2. JournalsOK'
  <2>1. [mem[a] EXCEPT !.phase = "recovery_required"] \in Journals
    BY PhaseTyped DEF JournalsOK, WorkOK, Phases
  <2> QED BY <2>1 DEF GiveUp, WriteJournal, JournalsOK, WorkOK
<1>3. PlacesOK'
  BY DEF GiveUp, Finish, Goto, WriteJournal, Fault, NextEntry, PlacesOK, CallPlaces, RecoveryPlaces, UndoPlaces, Cleaning, Undoing
<1>4. AnswersOK'
  BY FinishTyped DEF GiveUp, AnswersOK
<1>5. RootOK'
  <2>1. todo' \in [Recoverers -> SUBSET Calls]
    BY DEF GiveUp, NextEntry, RootOK
  <2>2. failed' = failed \/ failed' = [failed EXCEPT ![a] = @ \cup {txn[a]}]
    BY DEF GiveUp
  <2>3. failed' \in [Recoverers -> SUBSET Calls]
    BY <2>2 DEF RootOK, WorkOK
  <2> QED BY <2>1, <2>3 DEF GiveUp, RootOK
<1>6. BoundsOK'
  BY FaultTyped DEF GiveUp, BoundsOK
<1>7. Planned'
  BY DEF GiveUp, Finish, Goto, WriteJournal, Fault, NextEntry, Planned, Undoing, UndoPlaces, Cleaning, PlacesOK
<1>8. Indexed'
  BY DEF GiveUp, Finish, Goto, WriteJournal, Fault, NextEntry, Indexed, Undoing, UndoPlaces, Cleaning, PlacesOK, WorkOK, PlansOK, SelfTxn, CallPlaces, RecoveryPlaces
<1> QED BY <1>1, <1>2, <1>3, <1>4, <1>5, <1>6, <1>7, <1>8

LEMMA RemoveJournalTyped == ASSUME TypeInv, NEW a \in Actors, RemoveJournal(a) PROVE TypeInv'
<1> USE ActorFacts DEF TypeInv
<1>1. (StoreOK /\ DirsOK /\ PlansOK /\ PlacesOK /\ WorkOK /\ RootOK /\ BoundsOK /\ Planned /\ Indexed)'
  BY DEF RemoveJournal, StoreOK, DirsOK, PlansOK, PlacesOK, WorkOK, RootOK, BoundsOK, Planned, Indexed, SelfTxn
<1>2. JournalsOK'
  BY DEF RemoveJournal, Decide, JournalsOK, Journals, Phases, NoJournal, WorkOK
<1>3. AnswersOK'
  BY DEF RemoveJournal, Decide, AnswersOK, CleanupResult, Cleaning
<1> QED BY <1>1, <1>2, <1>3

LEMMA RemoveBackupsTyped == ASSUME TypeInv, NEW a \in Actors, RemoveBackups(a) PROVE TypeInv'
<1> USE ActorFacts DEF TypeInv
<1>1. (JournalsOK /\ DirsOK /\ PlansOK /\ PlacesOK /\ WorkOK /\ RootOK /\ BoundsOK /\ Planned /\ Indexed)'
  BY DEF RemoveBackups, JournalsOK, DirsOK, PlansOK, PlacesOK, WorkOK, RootOK, BoundsOK, Planned, Indexed, SelfTxn
<1>2. StoreOK'
  BY DEF RemoveBackups, Decide, StoreOK, Op, PlansOK, WorkOK, SelfTxn
<1>3. AnswersOK'
  BY DEF RemoveBackups, Decide, AnswersOK, CleanupResult, Cleaning
<1> QED BY <1>1, <1>2, <1>3

LEMMA RemoveDirectoryTyped == ASSUME TypeInv, NEW a \in Actors, RemoveDirectory(a) PROVE TypeInv'
<1> USE ActorFacts DEF TypeInv
<1>1. (StoreOK /\ JournalsOK /\ PlansOK /\ WorkOK /\ BoundsOK)'
  BY DEF RemoveDirectory, StoreOK, JournalsOK, PlansOK, WorkOK, BoundsOK, SelfTxn
<1>2. DirsOK'
  BY DEF RemoveDirectory, Finish, Goto, NextEntry, DirsOK, WorkOK
<1>3. PlacesOK'
  BY DEF RemoveDirectory, Finish, Goto, NextEntry, PlacesOK, CallPlaces, RecoveryPlaces, UndoPlaces, Cleaning, Undoing
<1>4. AnswersOK'
  <2>1. CASE a \in Calls /\ Finish(a, CleanupResult[pc[a]])
    <3>1. CleanupResult[pc[a]] \in {"applied", "rolled_back", "rejected"}
      BY DEF RemoveDirectory, CleanupResult, Cleaning
    <3> QED BY <2>1, <3>1, FinishTyped
  <2> QED BY <2>1 DEF RemoveDirectory, AnswersOK
<1>5. RootOK'
  BY DEF RemoveDirectory, Finish, Goto, NextEntry, RootOK, DirsOK
<1>6. Planned'
  BY DEF RemoveDirectory, Finish, Goto, NextEntry, Planned, Undoing, UndoPlaces, Cleaning, PlacesOK
<1>7. Indexed'
  BY DEF RemoveDirectory, Finish, Goto, NextEntry, Indexed, Undoing, UndoPlaces, Cleaning, PlacesOK, WorkOK, PlansOK, SelfTxn, CallPlaces, RecoveryPlaces
<1> QED BY <1>1, <1>2, <1>3, <1>4, <1>5, <1>6, <1>7

LEMMA CleanupFailsTyped == ASSUME TypeInv, NEW a \in Actors, CleanupFails(a) PROVE TypeInv'
<1> USE ActorFacts DEF TypeInv
<1>1. (StoreOK /\ JournalsOK /\ DirsOK /\ PlansOK /\ WorkOK)'
  BY DEF CleanupFails, StoreOK, JournalsOK, DirsOK, PlansOK, WorkOK, SelfTxn
<1>2. PlacesOK'
  BY DEF CleanupFails, Goto, Finish, Fault, NextEntry, PlacesOK, CallPlaces, RecoveryPlaces, UndoPlaces, Cleaning, Undoing
<1>3. AnswersOK'
  BY FinishTyped DEF CleanupFails, AnswersOK
<1>4. RootOK'
  <2>1. todo' \in [Recoverers -> SUBSET Calls]
    BY DEF CleanupFails, NextEntry, RootOK
  <2>2. failed' = failed \/ failed' = [failed EXCEPT ![a] = @ \cup {txn[a]}]
    BY DEF CleanupFails
  <2>3. failed' \in [Recoverers -> SUBSET Calls]
    BY <2>2 DEF RootOK, WorkOK
  <2> QED BY <2>1, <2>3 DEF CleanupFails, RootOK
<1>5. BoundsOK'
  BY FaultTyped DEF CleanupFails, BoundsOK
<1>6. Planned'
  BY DEF CleanupFails, Goto, Finish, Fault, NextEntry, Planned, Undoing, UndoPlaces, Cleaning, PlacesOK
<1>7. Indexed'
  BY DEF CleanupFails, Goto, Finish, Fault, NextEntry, Indexed, Undoing, UndoPlaces, Cleaning, PlacesOK, WorkOK, PlansOK, SelfTxn, CallPlaces, RecoveryPlaces
<1> QED BY <1>1, <1>2, <1>3, <1>4, <1>5, <1>6, <1>7

LEMMA StartBridgeTyped == ASSUME TypeInv, NEW r \in Recoverers, StartBridge(r) PROVE TypeInv'
<1> USE ActorFacts DEF TypeInv
<1>1. (StoreOK /\ JournalsOK /\ DirsOK /\ PlansOK /\ WorkOK /\ AnswersOK /\ BoundsOK)'
  BY DEF StartBridge, StoreOK, JournalsOK, DirsOK, PlansOK, WorkOK, AnswersOK, BoundsOK, SelfTxn
<1>2. PlacesOK'
  BY DEF StartBridge, Goto, PlacesOK, CallPlaces, RecoveryPlaces, UndoPlaces, Cleaning, Undoing
<1>3. RootOK'
  BY DEF StartBridge, Goto, RootOK, DirsOK
<1>4. Planned'
  BY DEF StartBridge, Goto, Planned, Undoing, UndoPlaces, Cleaning, PlacesOK
<1>5. Indexed'
  BY DEF StartBridge, Goto, Indexed, Undoing, UndoPlaces, Cleaning, PlacesOK, WorkOK, PlansOK, SelfTxn, CallPlaces, RecoveryPlaces
<1> QED BY <1>1, <1>2, <1>3, <1>4, <1>5

LEMMA ListTransactionsTyped == ASSUME TypeInv, NEW r \in Recoverers, ListTransactions(r) PROVE TypeInv'
<1> USE ActorFacts DEF TypeInv
<1>1. (StoreOK /\ JournalsOK /\ DirsOK /\ PlansOK /\ WorkOK /\ AnswersOK /\ BoundsOK)'
  BY DEF ListTransactions, StoreOK, JournalsOK, DirsOK, PlansOK, WorkOK, AnswersOK, BoundsOK, SelfTxn
<1>2. PlacesOK'
  BY DEF ListTransactions, Goto, Settle, PlacesOK, CallPlaces, RecoveryPlaces, UndoPlaces, Cleaning, Undoing
<1>3. RootOK'
  BY DEF ListTransactions, Goto, Settle, RootOK, DirsOK
<1>4. Planned'
  BY DEF ListTransactions, Goto, Settle, Planned, Undoing, UndoPlaces, Cleaning, PlacesOK
<1>5. Indexed'
  BY DEF ListTransactions, Goto, Settle, Indexed, Undoing, UndoPlaces, Cleaning, PlacesOK, WorkOK, PlansOK, SelfTxn, CallPlaces, RecoveryPlaces
<1> QED BY <1>1, <1>2, <1>3, <1>4, <1>5

LEMMA ListFailsTyped == ASSUME TypeInv, NEW r \in Recoverers, ListFails(r) PROVE TypeInv'
<1> USE ActorFacts DEF TypeInv
<1>1. (StoreOK /\ JournalsOK /\ DirsOK /\ PlansOK /\ WorkOK /\ AnswersOK)'
  BY DEF ListFails, StoreOK, JournalsOK, DirsOK, PlansOK, WorkOK, AnswersOK, SelfTxn
<1>2. PlacesOK'
  BY DEF ListFails, Goto, Fault, PlacesOK, CallPlaces, RecoveryPlaces, UndoPlaces, Cleaning, Undoing
<1>3. RootOK'
  BY DEF ListFails, Goto, Fault, RootOK, DirsOK
<1>4. BoundsOK'
  BY FaultTyped DEF ListFails, BoundsOK
<1>5. Planned'
  BY DEF ListFails, Goto, Fault, Planned, Undoing, UndoPlaces, Cleaning, PlacesOK
<1>6. Indexed'
  BY DEF ListFails, Goto, Fault, Indexed, Undoing, UndoPlaces, Cleaning, PlacesOK, WorkOK, PlansOK, SelfTxn, CallPlaces, RecoveryPlaces
<1> QED BY <1>1, <1>2, <1>3, <1>4, <1>5, <1>6

LEMMA RecoveryDoneTyped == ASSUME TypeInv, NEW r \in Recoverers, RecoveryDone(r) PROVE TypeInv'
<1> USE ActorFacts DEF TypeInv
<1>1. (StoreOK /\ JournalsOK /\ DirsOK /\ PlansOK /\ WorkOK /\ AnswersOK /\ BoundsOK)'
  BY DEF RecoveryDone, StoreOK, JournalsOK, DirsOK, PlansOK, WorkOK, AnswersOK, BoundsOK, SelfTxn
<1>2. PlacesOK'
  BY DEF RecoveryDone, Settle, Goto, PlacesOK, CallPlaces, RecoveryPlaces, UndoPlaces, Cleaning, Undoing
<1>3. RootOK'
  BY DEF RecoveryDone, Settle, Goto, RootOK, DirsOK
<1>4. Planned'
  BY DEF RecoveryDone, Settle, Goto, Planned, Undoing, UndoPlaces, Cleaning, PlacesOK
<1>5. Indexed'
  BY DEF RecoveryDone, Settle, Goto, Indexed, Undoing, UndoPlaces, Cleaning, PlacesOK, WorkOK, PlansOK, SelfTxn, CallPlaces, RecoveryPlaces
<1> QED BY <1>1, <1>2, <1>3, <1>4, <1>5

LEMMA RecoverEntryTyped ==
  ASSUME TypeInv, NEW r \in Recoverers, NEW x \in Calls, RecoverEntry(r, x) PROVE TypeInv'
<1> USE ActorFacts DEF TypeInv
<1>1. (StoreOK /\ DirsOK /\ PlansOK /\ AnswersOK /\ BoundsOK)'
  BY DEF RecoverEntry, StoreOK, DirsOK, PlansOK, AnswersOK, BoundsOK
<1>2. JournalsOK'
  BY DEF RecoverEntry, JournalsOK
<1>3. PlacesOK' /\ Planned'
  BY DEF RecoverEntry, Goto, PlacesOK, RecoveryPlaces, UndoPlaces, Planned
<1>6. Indexed'
  <2>1. \A a \in Actors : a # r => pc'[a] = pc[a] /\ txn'[a] = txn[a] /\ idx'[a] = idx[a]
    BY DEF RecoverEntry, Goto, PlacesOK, WorkOK
  <2>2. pc'[r] \in {"rollback", "entries"} /\ plan' = plan
    BY DEF RecoverEntry, Goto, PlacesOK
  <2> QED BY <2>1, <2>2 DEF Indexed
<1>4. WorkOK'
  BY DEF RecoverEntry, WorkOK, SelfTxn
<1>5. RootOK'
  <2>1. todo' \in [Recoverers -> SUBSET Calls] /\ failed' \in [Recoverers -> SUBSET Calls]
    BY DEF RecoverEntry, RootOK
  <2> QED BY <2>1 DEF RecoverEntry, RootOK
<1> QED BY <1>1, <1>2, <1>3, <1>4, <1>5, <1>6

LEMMA CrashTyped == ASSUME TypeInv, Crash PROVE TypeInv'
<1> USE ActorFacts DEF TypeInv
<1>1. (StoreOK /\ DirsOK /\ PlansOK)'
  BY DEF Crash, StoreOK, DirsOK, PlansOK
<1>2. JournalsOK'
  BY DEF Crash, JournalsOK, NoJournal, Journals, Phases
<1>3. PlacesOK'
  BY DEF Crash, PlacesOK, CallPlaces, RecoveryPlaces
<1>4. Planned'
  BY DEF Crash, PlacesOK, Running, Planned
<1>5. Indexed'
  BY DEF Crash, Running, PlacesOK, Indexed
<1>6. WorkOK'
  BY ActorsAssumption DEF Crash, WorkOK, SelfTxn, HomeTxn
<1>7. AnswersOK'
  BY DEF Crash, AnswersOK
<1>8. RootOK'
  BY DEF Crash, RootOK
<1>9. BoundsOK'
  BY BoundsAssumption DEF Crash, BoundsOK
<1> QED BY <1>1, <1>2, <1>3, <1>4, <1>5, <1>6, <1>7, <1>8, <1>9

LEMMA TypeStep == TypeInv /\ [Next]_vars => TypeInv'
<1> SUFFICES ASSUME TypeInv, [Next]_vars PROVE TypeInv'
  OBVIOUS
<1>1. CASE \E c \in Calls : CallStep(c)
  BY <1>1, SnapshotTyped, EnsureRecoveredTyped, AwaitRecoveryTyped, PreflightTyped,
     AcquireLockTyped, RevalidateTyped, StageTyped, PrepareTyped, BeginCommitTyped,
     AbortCommitTyped, BackupSourceTyped, LogBackupTyped, PlaceTyped, LogPlaceTyped DEF CallStep
<1>2. CASE \E a \in Actors : UndoStep(a)
  BY <1>2, StartRollbackTyped, RemoveTargetTyped, LogRemoveTyped, RestoreSourceTyped,
     LogRestoreTyped, NothingToRestoreTyped, RollbackDoneTyped, GiveUpTyped DEF UndoStep
<1>3. CASE \E a \in Actors : CleanStep(a)
  BY <1>3, RemoveJournalTyped, RemoveBackupsTyped, RemoveDirectoryTyped, CleanupFailsTyped
  DEF CleanStep
<1>4. CASE \E r \in Recoverers : RecoverStep(r)
  BY <1>4, ListTransactionsTyped, ListFailsTyped, RecoveryDoneTyped, RecoverEntryTyped
  DEF RecoverStep
<1>5. CASE \E c \in Calls : Request(c) \/ Abort(c)
  BY <1>5, RequestTyped, AbortTyped
<1>6. CASE \E s \in Starters : StartBridge(s)
  BY <1>6, StartBridgeTyped, ActorFacts
<1>7. CASE Crash
  BY <1>7, CrashTyped
<1>8. CASE UNCHANGED vars
  BY <1>8 DEF TypeInv, StoreOK, JournalsOK, DirsOK, PlansOK, PlacesOK, WorkOK, SelfTxn, AnswersOK,
     RootOK, BoundsOK, Planned, Indexed
<1> QED BY <1>1, <1>2, <1>3, <1>4, <1>5, <1>6, <1>7, <1>8 DEF Next, Step

(* Every variable of the transactions stays in its set, whatever the       *)
(* calls, the faults and the crashes: no loop of applyPatch or rollback    *)
(* (tool-gateway/workspace-patch.ts) runs past the operations of its plan. *)
THEOREM PatchTyped == Spec => []TypeOK
<1>1. Spec => []TypeInv
  BY TypeInit, TypeStep, PTL DEF Spec
<1> QED BY <1>1, TypeInvTypes, PTL
----------------------------------------------------------------------------
(***************************************************************************)
(* A transaction whose call died with its process, for any bridges,        *)
(* failing operations, aborts and crashes, torn windows included.  While   *)
(* one is on disk no bridge serves, and a recovery that has read the       *)
(* directory still has it to do or has failed at it.                       *)
(***************************************************************************)
Quiet   == {"idle", "done", "crashed"}
Unasked == {"idle", "list", "done"}

DeadInv ==
  /\ \A c \in Calls : pc[c] \in Quiet \/ serving
  /\ serving => \A c \in dirs : pc[c] # "crashed"
  /\ \A r \in Recoverers : pc[r] \notin Unasked =>
       \A c \in dirs : pc[c] = "crashed" => c \in todo[r] \cup failed[r]

\* What a step may do without touching it.
Harmless ==
  /\ serving' = serving
  /\ \A c \in Calls : /\ pc'[c] = "crashed" => pc[c] = "crashed"
                      /\ pc[c] \in Quiet => pc'[c] \in Quiet \/ serving
                      /\ c \in dirs' /\ pc[c] = "crashed" => c \in dirs
  /\ \A r \in Recoverers : pc'[r] \notin Unasked =>
       /\ pc[r] \notin Unasked
       /\ \A c \in dirs' : c \in todo[r] \cup failed[r] => c \in todo'[r] \cup failed'[r]

LEMMA HarmlessKeeps ==
  ASSUME TypeInv, TypeInv', DeadInv, Harmless PROVE DeadInv'
<1>1. dirs' \subseteq Calls
  BY DEF TypeInv, DirsOK
<1>2. \A c \in Calls : pc'[c] \in Quiet \/ serving'
  BY DEF DeadInv, Harmless
<1>3. serving' => \A c \in dirs' : pc'[c] # "crashed"
  BY <1>1 DEF DeadInv, Harmless
<1>4. \A r \in Recoverers : pc'[r] \notin Unasked =>
        \A c \in dirs' : pc'[c] = "crashed" => c \in todo'[r] \cup failed'[r]
  BY <1>1 DEF DeadInv, Harmless
<1> QED BY <1>2, <1>3, <1>4 DEF DeadInv

\* A call only moves itself and, at most, starts the shared recovery.
LEMMA CallIsHarmless ==
  ASSUME TypeInv, NEW c \in Calls, CallStep(c) \/ Request(c) \/ Abort(c) PROVE Harmless
<1>1. DOMAIN pc = Actors /\ DOMAIN todo = Recoverers /\ DOMAIN failed = Recoverers
  BY DEF TypeInv, PlacesOK, RootOK
<1> USE <1>1, ActorFacts DEF Harmless, Quiet, Unasked, Goto, Finish
<1>2. CASE Request(c) \/ Abort(c)
  BY <1>2, SMTT(30) DEF Request, Abort
<1>3. CASE Snapshot(c) \/ AwaitRecovery(c) \/ Preflight(c) \/ AcquireLock(c) \/ Revalidate(c)
  BY <1>3 DEF Snapshot, AwaitRecovery, Preflight, AcquireLock, Revalidate
<1>4. CASE EnsureRecovered(c)
  BY <1>4 DEF EnsureRecovered
<1>5. CASE Stage(c) \/ Prepare(c) \/ BeginCommit(c) \/ AbortCommit(c)
  BY <1>5 DEF Stage, Prepare, BeginCommit, AbortCommit
<1>6. CASE BackupSource(c) \/ Place(c)
  BY <1>6 DEF BackupSource, Place
<1>7. CASE LogBackup(c) \/ LogPlace(c)
  BY <1>7 DEF LogBackup, LogPlace, NextOp
<1> QED BY <1>2, <1>3, <1>4, <1>5, <1>6, <1>7 DEF CallStep

\* Whoever rolls back or cleans up: a recovery crosses a transaction off its list only when
\* it has removed it, or counts it as failed.
LEMMA UndoIsHarmless ==
  ASSUME TypeInv, NEW a \in Actors, UndoStep(a) \/ CleanStep(a) PROVE Harmless
<1>1. /\ DOMAIN pc = Actors /\ DOMAIN todo = Recoverers /\ DOMAIN failed = Recoverers
      /\ txn[a] \in Calls
  BY DEF TypeInv, PlacesOK, RootOK, WorkOK
<1> USE <1>1, ActorFacts DEF Harmless, Quiet, Unasked, Goto
<1>2. CASE StartRollback(a)
  BY <1>2 DEF StartRollback, Finish, NextEntry
<1>3. CASE RemoveTarget(a) \/ LogRemove(a) \/ RestoreSource(a) \/ NothingToRestore(a)
  BY <1>3 DEF RemoveTarget, LogRemove, RestoreSource, NothingToRestore, UndoPrevious, Undoing
<1>4. CASE LogRestore(a) \/ RollbackDone(a)
  BY <1>4 DEF LogRestore, RollbackDone, UndoPrevious
<1>5. CASE GiveUp(a)
  BY <1>5 DEF GiveUp, Finish, NextEntry
<1>6. CASE RemoveJournal(a) \/ RemoveBackups(a)
  BY <1>6 DEF RemoveJournal, RemoveBackups
<1>7. CASE RemoveDirectory(a)
  BY <1>7 DEF RemoveDirectory, Finish, NextEntry, Cleaning
<1>8. CASE CleanupFails(a)
  BY <1>8 DEF CleanupFails, Finish, NextEntry, Cleaning
<1> QED BY <1>2, <1>3, <1>4, <1>5, <1>6, <1>7, <1>8 DEF UndoStep, CleanStep

LEMMA RecoveryKeepsDead ==
  ASSUME TypeInv, TypeInv', DeadInv, NEW r \in Recoverers, RecoverStep(r) \/ StartBridge(r)
  PROVE  DeadInv'
<1>1. DOMAIN pc = Actors /\ DOMAIN todo = Recoverers /\ DOMAIN failed = Recoverers /\ dirs \subseteq Calls
  BY DEF TypeInv, PlacesOK, RootOK, DirsOK
<1> USE <1>1, ActorFacts DEF Goto, Unasked
<1>2. CASE StartBridge(r)
  <2>1. Harmless
    BY <1>2 DEF StartBridge, Harmless, Quiet
  <2> QED BY <2>1, HarmlessKeeps
<1>3. CASE ListFails(r)
  <2>1. Harmless
    BY <1>3 DEF ListFails, Harmless, Quiet
  <2> QED BY <2>1, HarmlessKeeps
<1>4. CASE \E x \in Calls : RecoverEntry(r, x)
  <2>1. Harmless
    BY <1>4 DEF RecoverEntry, Harmless, Quiet
  <2> QED BY <2>1, HarmlessKeeps
<1>5. CASE ListTransactions(r)
  <2>1. CASE dirs = {}
    BY <1>5, <2>1 DEF ListTransactions, Settle, DeadInv, Quiet
  <2>2. CASE dirs # {}
    <3>1. /\ pc' = [pc EXCEPT ![r] = "entries"] /\ todo' = [todo EXCEPT ![r] = dirs]
          /\ failed' = [failed EXCEPT ![r] = {}] /\ dirs' = dirs /\ serving' = serving
      BY <1>5, <2>2 DEF ListTransactions, Settle, root, disk
    <3> QED BY <3>1 DEF DeadInv, Quiet
  <2> QED BY <2>1, <2>2
<1>6. CASE RecoveryDone(r)
  <2>1. pc[r] = "entries" /\ todo[r] = {} /\ UNCHANGED <<dirs, todo, failed>>
    BY <1>6 DEF RecoveryDone, disk, recov
  <2>2. pc' = [pc EXCEPT ![r] = "done"]
        /\ serving' = (serving \/ (failed[r] = {} /\ r \in Starters))
    BY <1>6 DEF RecoveryDone, Settle
  <2>3. failed[r] = {} => \A c \in dirs : pc[c] # "crashed"
    BY <2>1 DEF DeadInv
  <2> QED BY <2>1, <2>2, <2>3 DEF DeadInv, Quiet
<1> QED BY <1>2, <1>3, <1>4, <1>5, <1>6 DEF RecoverStep

LEMMA CrashKeepsDead == ASSUME TypeInv, Crash PROVE DeadInv'
  BY ActorFacts DEF Crash, DeadInv, Quiet, Unasked, Running

LEMMA DeadInvariant == Spec => []DeadInv
<1>1. Init => DeadInv
  BY ActorFacts DEF Init, DeadInv, Quiet, Unasked
<1>2. TypeInv /\ TypeInv' /\ DeadInv /\ [Next]_vars => DeadInv'
  <2> SUFFICES ASSUME TypeInv, TypeInv', DeadInv, [Next]_vars PROVE DeadInv'
    OBVIOUS
  <2>1. CASE \E c \in Calls : CallStep(c) \/ Request(c) \/ Abort(c)
    BY <2>1, CallIsHarmless, HarmlessKeeps
  <2>2. CASE \E a \in Actors : UndoStep(a) \/ CleanStep(a)
    BY <2>2, UndoIsHarmless, HarmlessKeeps
  <2>3. CASE \E r \in Recoverers : RecoverStep(r) \/ StartBridge(r)
    BY <2>3, RecoveryKeepsDead
  <2>4. CASE Crash
    BY <2>4, CrashKeepsDead
  <2>5. CASE UNCHANGED vars
    BY <2>5 DEF vars, disk, root, recov, DeadInv
  <2> QED BY <2>1, <2>2, <2>3, <2>4, <2>5, ActorFacts DEF Next, Step
<1>3. Spec => []TypeInv
  BY TypeInit, TypeStep, PTL DEF Spec
<1> QED BY <1>1, <1>2, <1>3, PTL DEF Spec

(* No call touches a file while a transaction of a process that died waits *)
(* for its recovery, whatever fails: a bridge serves only after a recovery *)
(* (recoverPendingTransactions in startBridgeServer) that failed nowhere,  *)
(* and such a recovery leaves none of them behind.                         *)
THEOREM NoWritesPastTheDead == Spec => DeadBlocksWrites
<1> DEFINE Blocks == \A c \in dirs : pc[c] = "crashed" =>
                       \A d \in Calls : ~BackupSource(d) /\ ~Place(d)
<1>1. TypeInv /\ DeadInv => Blocks
  <2> SUFFICES ASSUME TypeInv, DeadInv, NEW c \in dirs, pc[c] = "crashed",
                      NEW d \in Calls, BackupSource(d) \/ Place(d)
               PROVE  FALSE
    OBVIOUS
  <2>1. pc[d] \in {"op", "place"}
    BY DEF BackupSource, Place
  <2>2. serving
    BY <2>1 DEF DeadInv, Quiet
  <2> QED BY <2>2 DEF DeadInv
<1>2. TypeInv /\ DeadInv => [Blocks]_vars
  BY <1>1
<1>3. Spec => []TypeInv
  BY TypeInit, TypeStep, PTL DEF Spec
<1> QED BY <1>2, <1>3, DeadInvariant, PTL DEF DeadBlocksWrites

----------------------------------------------------------------------------
(***************************************************************************)
(* What a transaction has taken from the workspace is never lost.          *)
(*                                                                         *)
(* This holds for one bridge on the root, for crashes outside the windows  *)
(* Torn names, and as long as the file operations of rollbacks and of      *)
(* cleanups succeed; the commit itself may fail or be aborted anywhere.    *)
(***************************************************************************)
OneStarter == \A r, s \in Starters : r = s

(* No operation of a rollback or of a cleanup fails that could succeed. *)
RollbacksWork == \A a \in Actors :
  pc[a] \in UndoPlaces \cup Cleaning /\ pc'[a] # pc[a] => UNCHANGED faults

Committing == {"begin", "op", "logBackup", "place", "logPlace"}
Working    == {"prepare"} \cup Committing \cup UndoPlaces \cup Cleaning
Holding    == {"revalidate", "stage"} \cup Working
Untouched  == {"idle", "snapshot", "ensure", "await", "preflight", "lock", "revalidate",
               "stage", "prepare", "cleanDiscard"}

----------------------------------------------------------------------------
(***************************************************************************)
(* The invariant, for one transaction.  Its paths are its own; of each of  *)
(* its sources the bytes are at the source or in the backup; and once it   *)
(* is left to a recovery, its journal says what to put back.               *)
(***************************************************************************)
Sourced(x) == {i \in DOMAIN plan[x] : HasSource(plan[x][i])}
Backups(x) == {i \in DOMAIN plan[x] : backup[x][i] # Missing}

Lawful(x) ==
  /\ journal[x] # NoJournal => x \in dirs /\ journal[x].phase # "none"
  /\ x \in dirs => pc[x] \in Working \cup {"crashed"}
  /\ pc[x] \in Committing \cup UndoPlaces => Pending(x)
  /\ pc[x] \in Untouched => Backups(x) = {} /\ NoBackups(x) /\ journal[x] = NoJournal
  /\ outcome[x] = "applied" => \/ pc[x] \in {"cleanCommit", "done"}
                               \/ pc[x] = "crashed" /\ journal[x] = NoJournal

Sound(x) ==
  /\ \A i, j \in DOMAIN plan[x] : i # j => OpPaths(plan[x][i]) \cap OpPaths(plan[x][j]) = {}
  /\ \A i \in Sourced(x) : expected[x][plan[x][i].src] # Missing

Kept(x) ==
  /\ Backups(x) \subseteq Sourced(x)
  /\ \A i \in Sourced(x) : IF i \in Backups(x)
                           THEN backup[x][i] = expected[x][plan[x][i].src]
                           ELSE files[plan[x][i].src] = expected[x][plan[x][i].src]

LoggedCommits(x) == journal[x].committed \cap Sourced(x) \subseteq Backups(x)
LoggedBackups(x) == Backups(x) \subseteq journal[x].backedUp

TxnInv(x) ==
  /\ Lawful(x)
  /\ x \in dirs \/ pc[x] \in {"stage", "prepare"} => Sound(x)
  /\ Pending(x) \/ pc[x] \in {"stage", "prepare"} => Kept(x)
  /\ Pending(x) => LoggedCommits(x)
  /\ Pending(x) /\ pc[x] = "crashed" => LoggedBackups(x)

(***************************************************************************)
(* For one actor: the journal object in its memory covers the backups, and *)
(* none lies where its loop has not come to, or has come back from.        *)
(***************************************************************************)
Remembers(a) ==
  /\ mem[a].phase # "none"
  /\ Backups(txn[a]) \subseteq mem[a].backedUp
  /\ a \in Calls => mem[a].backedUp \subseteq Backups(txn[a])
  /\ mem[a].committed \cap Sourced(txn[a]) \subseteq Backups(txn[a])
  /\ journal[txn[a]].committed \subseteq
       mem[a].committed \cup (IF pc[a] = "logRemove" THEN {idx[a]} ELSE {})

Below(x, i) == \A j \in Backups(x) : j < i

Placed(a) ==
  /\ pc[a] = "begin" => Backups(txn[a]) = {}
  /\ pc[a] \in {"op", "logRestore"} => Below(txn[a], idx[a])
  /\ pc[a] \in {"logBackup", "place", "logPlace", "undo", "logRemove", "restore"} =>
       Below(txn[a], idx[a] + 1)
  /\ pc[a] \in {"logBackup", "place"} => idx[a] \in Backups(txn[a])
  /\ pc[a] \in {"logRemove", "restore"} => idx[a] \notin mem[a].committed
  /\ pc[a] = "cleanRollback" => Backups(txn[a]) = {}

Charged(a) ==
  /\ a \in Calls => pc[a] # "giveUp"
  /\ a \in Recoverers /\ pc[a] \in UndoPlaces \cup Cleaning =>
       txn[a] \in dirs /\ pc[txn[a]] = "crashed"
  /\ a \in Recoverers /\ pc[a] \in UndoPlaces => Pending(txn[a])

ActorInv(a) ==
  /\ pc[a] \in Committing \cup UndoPlaces \cup {"cleanCommit"} /\ Pending(txn[a]) => Remembers(a)
  /\ Placed(a)
  /\ Charged(a)

(***************************************************************************)
(* For all of them: calls work only while the bridge serves, recovery only *)
(* before it does and on transactions a crash has left; who works holds    *)
(* its locks, so that transactions on disk have no path in common.         *)
(***************************************************************************)
CallsServed ==
  /\ pc[Lazy] \in {"idle", "list", "done"}
  /\ pc[Lazy] = "list" => promise = "running"
  /\ promise # "none" => serving
  /\ \A c \in Calls : /\ pc[c] \notin {"idle", "done", "crashed"} => serving
                      /\ pc[c] \in {"preflight", "lock"} \cup Holding => promise = "ok"
                      /\ c \in dirs => (serving <=> pc[c] # "crashed")
RecoveryFirst == \A s \in Starters :
  /\ serving => pc[s] = "done"
  /\ pc[s] \in {"entries"} \cup UndoPlaces \cup Cleaning => dirs \subseteq todo[s] \cup failed[s]
Locked   == \A c \in Calls : pc[c] \in Holding => HoldsAll(c)
Disjoint == \A x, y \in dirs : x # y => Touched(x) \cap Touched(y) = {}

PatchInv ==
  /\ \A x \in Calls : TxnInv(x)
  /\ \A a \in Actors : ActorInv(a)
  /\ CallsServed /\ RecoveryFirst /\ Locked /\ Disjoint

LEMMA TypeFacts ==
  ASSUME TypeInv
  PROVE  /\ Calls \cap Recoverers = {} /\ Calls \cup Recoverers = Actors
         /\ Lazy \in Recoverers /\ Starters \subseteq Recoverers /\ Recoverers = Starters \cup {Lazy}
         /\ DOMAIN pc = Actors /\ DOMAIN mem = Actors /\ DOMAIN outcome = Calls
         /\ txn \in [Actors -> Calls] /\ idx \in [Actors -> Nat] /\ \A c \in Calls : txn[c] = c
         /\ \A c \in Calls : pc[c] \in CallPlaces
         /\ \A r \in Recoverers : pc[r] \in RecoveryPlaces
         /\ journal \in [Calls -> Journals] /\ mem \in [Actors -> Journals]
         /\ \A x \in Calls : /\ DOMAIN plan[x] = 1..Len(plan[x]) /\ Len(plan[x]) \in Nat
                             /\ DOMAIN plan[x] \subseteq DOMAIN backup[x]
         /\ DOMAIN backup = Calls /\ DOMAIN plan = Calls /\ DOMAIN files = Paths
         /\ dirs \subseteq Calls
<1>1. /\ Calls \cap Recoverers = {} /\ Calls \cup Recoverers = Actors
      /\ Lazy \in Recoverers /\ Starters \subseteq Recoverers /\ Recoverers = Starters \cup {Lazy}
  BY ActorFacts DEF Recoverers
<1>2. /\ DOMAIN pc = Actors
      /\ \A c \in Calls : pc[c] \in CallPlaces
      /\ \A r \in Recoverers : pc[r] \in RecoveryPlaces
  BY DEF TypeInv, PlacesOK
<1>3. txn \in [Actors -> Calls] /\ idx \in [Actors -> Nat] /\ \A c \in Calls : txn[c] = c
  BY DEF TypeInv, WorkOK, SelfTxn
<1>4. journal \in [Calls -> Journals] /\ mem \in [Actors -> Journals]
  BY DEF TypeInv, JournalsOK
<1>5. \A x \in Calls : /\ DOMAIN plan[x] = 1..Len(plan[x]) /\ Len(plan[x]) \in Nat
                       /\ DOMAIN plan[x] \subseteq DOMAIN backup[x]
  BY DEF TypeInv, StoreOK, PlansOK
<1>6. DOMAIN backup = Calls /\ DOMAIN plan = Calls /\ DOMAIN files = Paths /\ dirs \subseteq Calls
  BY DEF TypeInv, StoreOK, PlansOK, DirsOK
<1>7. DOMAIN outcome = Calls
  BY DEF TypeInv, AnswersOK
<1>8. DOMAIN mem = Actors
  BY <1>4
<1> QED BY <1>1, <1>2, <1>3, <1>4, <1>5, <1>6, <1>7, <1>8

LEMMA OpPathsIn ==
  ASSUME TypeInv, NEW x \in Calls, NEW i \in DOMAIN plan[x]
  PROVE  /\ plan[x][i].tgt \in OpPaths(plan[x][i])
         /\ i \in Sourced(x) => plan[x][i].src \in OpPaths(plan[x][i])
         /\ OpPaths(plan[x][i]) \subseteq Touched(x) /\ OpPaths(plan[x][i]) \subseteq Paths
<1>1. /\ plan[x][i].tgt \in Paths
      /\ plan[x][i].src \in Paths \cup {NoPath}
      /\ HasSource(plan[x][i]) => plan[x][i].src \in Paths
  BY OpTyped
<1> QED BY <1>1, PathsAssumption DEF OpPaths, Touched, Sourced, HasSource

----------------------------------------------------------------------------
(***************************************************************************)
(* What a step leaves alone.                                               *)
(***************************************************************************)
SameTxn(x) == /\ UNCHANGED <<journal[x], backup[x], plan[x], expected[x], outcome[x], pc[x]>>
              /\ x \in dirs' <=> x \in dirs
SameActor(a) == UNCHANGED <<pc[a], txn[a], mem[a], idx[a]>>

LEMMA OtherTxn ==
  ASSUME TypeInv, NEW y \in Calls, TxnInv(y), SameTxn(y),
         (y \in dirs \/ pc[y] \in {"stage", "prepare"}) =>
           \A p \in Touched(y) : files'[p] = files[p]
  PROVE  TxnInv(y)'
<1>1. Lawful(y)'
  BY DEF TxnInv, Lawful, SameTxn, Pending, Backups, NoBackups
<1>2. (y \in dirs \/ pc[y] \in {"stage", "prepare"} => Sound(y))'
  BY DEF TxnInv, SameTxn, Sound, Sourced
<1>3. (Pending(y) \/ pc[y] \in {"stage", "prepare"} => Kept(y))'
  <2>1. \A i \in Sourced(y) : plan[y][i].src \in Touched(y)
    BY OpPathsIn DEF Sourced
  <2> QED BY <2>1 DEF TxnInv, SameTxn, Kept, Sourced, Backups, Pending
<1>4. (Pending(y) => LoggedCommits(y))' /\ (Pending(y) /\ pc[y] = "crashed" => LoggedBackups(y))'
  BY DEF TxnInv, SameTxn, LoggedCommits, LoggedBackups, Sourced, Backups, Pending
<1> QED BY <1>1, <1>2, <1>3, <1>4 DEF TxnInv

LEMMA OtherActor ==
  ASSUME TypeInv, NEW b \in Actors, ActorInv(b), SameActor(b),
         pc[b] \in Committing \cup UndoPlaces \cup Cleaning => SameTxn(txn[b])
  PROVE  ActorInv(b)'
<1>1. Placed(b)'
  BY DEF ActorInv, Placed, SameActor, SameTxn, Below, Backups, Committing, UndoPlaces, Cleaning
<1>2. Charged(b)'
  BY DEF ActorInv, Charged, SameActor, SameTxn, Pending
<1>3. (pc[b] \in Committing \cup UndoPlaces \cup {"cleanCommit"} /\ Pending(txn[b]) => Remembers(b))'
  BY DEF ActorInv, Remembers, SameActor, SameTxn, Pending, Backups, Sourced, Cleaning
<1> QED BY <1>1, <1>2, <1>3 DEF ActorInv

(* The working actor changes its own place and memory and the transaction  *)
(* it works on, and files only at the paths of that transaction.           *)
Footprint(a) ==
  /\ UNCHANGED <<txn, plan, expected, promise, serving>>
  /\ \A b \in Actors : b # a => UNCHANGED <<pc[b], mem[b], idx[b]>>
  /\ \A y \in Calls : y # txn[a] => UNCHANGED <<journal[y], backup[y], outcome[y]>>
  /\ \A y \in Calls : y # txn[a] => (y \in dirs' <=> y \in dirs)
  /\ \A p \in Paths : p \notin Touched(txn[a]) => UNCHANGED files[p]
  /\ dirs' \subseteq Calls

(* How a call goes on, or ends; and how a recovery goes on. *)
CallGoesOn(c) ==
  /\ UNCHANGED <<todo, failed>>
  /\ \/ pc'[c] \in Working /\ UNCHANGED lockq
     \/ pc'[c] = "done" /\ \A d \in Calls : d # c /\ HoldsAll(d) => HoldsAll(d)'
RecoveryGoesOn(s) ==
  /\ UNCHANGED lockq
  /\ pc'[s] \in {"entries"} \cup UndoPlaces \cup Cleaning
  /\ dirs' \subseteq dirs /\ dirs' \subseteq todo'[s] \cup failed'[s]

(* Whose transaction it is decides what may have a path in common with it. *)
LEMMA PathsApart ==
  ASSUME TypeInv, PatchInv, NEW a \in Actors,
         pc[a] \in {"stage"} \cup Working, a \in Calls \/ a \in Starters,
         NEW y \in Calls, y # txn[a], y \in dirs \/ pc[y] \in {"stage", "prepare"}
  PROVE  Touched(txn[a]) \cap Touched(y) = {}
<1> USE TypeFacts
<1>1. CASE a \in Calls
  <2>1. pc[y] \in Holding
    BY <1>1 DEF PatchInv, CallsServed, TxnInv, Lawful, Holding, Working, Committing, UndoPlaces, Cleaning
  <2>2. HoldsAll(a) /\ HoldsAll(y) /\ txn[a] = a
    BY <1>1, <2>1 DEF PatchInv, Locked, Holding
  <2> QED BY <2>2 DEF HoldsAll
<1>2. CASE a \in Starters
  <2>1. pc[a] \in UndoPlaces \cup Cleaning /\ a \in Recoverers
    BY <1>2 DEF RecoveryPlaces, Working, Committing, UndoPlaces, Cleaning
  <2>2. txn[a] \in dirs /\ ~serving
    BY <1>2, <2>1 DEF PatchInv, ActorInv, Charged, RecoveryFirst, UndoPlaces, Cleaning
  <2>3. y \in dirs
    BY <2>2 DEF PatchInv, CallsServed
  <2> QED BY <2>2, <2>3 DEF PatchInv, Disjoint
<1> QED BY <1>1, <1>2

(* While an actor works on a transaction, no other does. *)
LEMMA Bystanders ==
  ASSUME TypeInv, PatchInv, OneStarter, NEW a \in Actors, NEW x \in Calls, x = txn[a],
         pc[a] \in {"stage"} \cup Working, a \in Calls \/ a \in Starters,
         Footprint(a)
  PROVE  /\ \A y \in Calls : y # x =>
              /\ SameTxn(y)
              /\ y \in dirs \/ pc[y] \in {"stage", "prepare"} =>
                   \A p \in Touched(y) : files'[p] = files[p]
         /\ \A b \in Actors : b # a =>
              /\ SameActor(b)
              /\ pc[b] \in Committing \cup UndoPlaces \cup Cleaning => txn[b] # x
<1> USE TypeFacts
<1>0. /\ x \in Calls /\ a \in Calls => x = a /\ a \notin Starters
      /\ a \in Starters => a \notin Calls /\ a # Lazy /\ pc[a] \in UndoPlaces \cup Cleaning
  BY ActorsAssumption DEF RecoveryPlaces, Working, Committing, UndoPlaces, Cleaning
<1>1. /\ a \in Calls => serving
      /\ a \in Starters => ~serving
  <2>1. a \in Starters => ~serving
    BY <1>0 DEF PatchInv, RecoveryFirst, UndoPlaces, Cleaning
  <2>2. a \in Calls => serving
    BY <1>0 DEF PatchInv, CallsServed, Holding, Working, Committing, UndoPlaces, Cleaning
  <2> QED BY <2>1, <2>2
<1>2. ASSUME NEW y \in Calls, y # x
      PROVE  /\ SameTxn(y)
             /\ y \in dirs \/ pc[y] \in {"stage", "prepare"} =>
                  \A p \in Touched(y) : files'[p] = files[p]
  <2>1. SameTxn(y)
    <3>1. y # a /\ y \in Actors
      BY <1>0, <1>2
    <3> QED BY <1>2, <3>1 DEF Footprint, SameTxn
  <2>2. ASSUME y \in dirs \/ pc[y] \in {"stage", "prepare"}, NEW p \in Touched(y)
        PROVE  files'[p] = files[p]
    <3>1. p \notin Touched(x)
      BY <1>2, <2>2, PathsApart
    <3>2. p \in Paths
      BY OpPathsIn DEF Touched
    <3> QED BY <3>1, <3>2 DEF Footprint
  <2> QED BY <2>1, <2>2
<1>3. ASSUME NEW b \in Actors, b # a
      PROVE  /\ SameActor(b)
             /\ pc[b] \in Committing \cup UndoPlaces \cup Cleaning => txn[b] # x
  <2>1. SameActor(b)
    BY <1>3 DEF Footprint, SameActor
  <2>2. pc[b] \in Committing \cup UndoPlaces \cup Cleaning => txn[b] # x
    <3>1. CASE a \in Calls /\ b \in Calls
      BY <1>0, <1>3, <3>1
    <3>2. CASE a \in Calls /\ b \in Recoverers
      <4>1. pc[b] \in {"idle", "list", "done"}
        BY <1>1, <3>2 DEF PatchInv, CallsServed, RecoveryFirst
      <4> QED BY <4>1 DEF Committing, UndoPlaces, Cleaning
    <3>3. CASE a \in Starters /\ b \in Calls
      BY <1>0, <1>1, <3>3 DEF PatchInv, CallsServed, Committing, UndoPlaces, Cleaning
    <3>4. CASE a \in Starters /\ b \in Recoverers
      <4>1. b \in Starters => b = a
        BY <3>4 DEF OneStarter
      <4>2. b = Lazy
        BY <1>3, <3>4, <4>1
      <4>3. pc[b] \in {"idle", "list", "done"}
        BY <4>2 DEF PatchInv, CallsServed
      <4> QED BY <4>3 DEF Committing, UndoPlaces, Cleaning
    <3> QED BY <3>1, <3>2, <3>3, <3>4
  <2> QED BY <2>1, <2>2
<1> QED BY <1>2, <1>3

LEMMA WorkerStep ==
  ASSUME TypeInv, TypeInv', PatchInv, OneStarter, NEW a \in Actors, NEW x \in Calls, x = txn[a],
         pc[a] \in {"stage"} \cup Working, a \in Calls \/ a \in Starters,
         Footprint(a),
         a \in Calls => CallGoesOn(a), a \in Starters => RecoveryGoesOn(a),
         TxnInv(x)', ActorInv(a)'
  PROVE  PatchInv'
<1> USE TypeFacts
<1>0. /\ x \in Calls /\ a \in Calls => x = a /\ a \notin Starters
      /\ a \in Starters => a \notin Calls /\ a # Lazy /\ pc[a] \in UndoPlaces \cup Cleaning
  BY ActorsAssumption DEF RecoveryPlaces, Working, Committing, UndoPlaces, Cleaning
<1>1. /\ a \in Calls => serving /\ promise = "ok"
      /\ a \in Starters => ~serving /\ promise = "none" /\ x \in dirs /\ pc[x] = "crashed"
  <2>1. a \in Starters => ~serving /\ x \in dirs /\ pc[x] = "crashed"
    BY <1>0 DEF PatchInv, ActorInv, Charged, RecoveryFirst, UndoPlaces, Cleaning
  <2>2. a \in Calls => serving /\ promise = "ok"
    BY <1>0 DEF PatchInv, CallsServed, Holding, Working, Committing, UndoPlaces, Cleaning
  <2>3. ~serving => promise = "none"
    BY DEF PatchInv, CallsServed
  <2> QED BY <2>1, <2>2, <2>3
<1>2. \A y \in Calls : y # x => TxnInv(y)' /\ SameTxn(y)
  BY Bystanders, OtherTxn DEF PatchInv
<1>3. ASSUME NEW b \in Actors, b # a PROVE ActorInv(b)'
  <2>1. /\ SameActor(b)
        /\ pc[b] \in Committing \cup UndoPlaces \cup Cleaning => txn[b] # x
    BY <1>3, Bystanders
  <2>2. pc[b] \in Committing \cup UndoPlaces \cup Cleaning => SameTxn(txn[b])
    BY <1>2, <2>1
  <2> QED BY <2>1, <2>2, OtherActor DEF PatchInv
<1>4. CallsServed'
  <2>1. CASE a \in Calls
    <3>1. pc'[Lazy] = pc[Lazy]
      BY <2>1 DEF Footprint
    <3>2. ASSUME NEW c \in Calls
          PROVE /\ pc'[c] \notin {"idle", "done", "crashed"} => serving
                /\ pc'[c] \in {"preflight", "lock"} \cup Holding => promise = "ok"
                /\ c \in dirs' => (serving <=> pc'[c] # "crashed")
      <4>1. CASE c = a
        BY <1>1, <2>1, <4>1 DEF CallGoesOn, Working, Committing, UndoPlaces, Cleaning
      <4>2. CASE c # a
        <5>1. c # x /\ pc'[c] = pc[c] /\ (c \in dirs' <=> c \in dirs)
          BY <1>0, <2>1, <4>2 DEF Footprint
        <5> QED BY <5>1 DEF PatchInv, CallsServed
      <4> QED BY <4>1, <4>2
    <3> QED BY <3>1, <3>2 DEF Footprint, PatchInv, CallsServed
  <2>2. CASE a \in Starters
    <3>1. pc'[Lazy] = pc[Lazy] /\ \A c \in Calls : pc'[c] = pc[c]
      BY <1>0, <2>2 DEF Footprint
    <3>2. dirs' \subseteq dirs
      BY <2>2 DEF RecoveryGoesOn
    <3> QED BY <3>1, <3>2 DEF Footprint, PatchInv, CallsServed
  <2> QED BY <2>1, <2>2
<1>5. RecoveryFirst'
  <2>1. CASE a \in Calls
    BY <1>0, <1>1, <2>1 DEF Footprint, CallGoesOn, PatchInv, RecoveryFirst, UndoPlaces, Cleaning
  <2>2. CASE a \in Starters
    BY <1>1, <2>2 DEF OneStarter, Footprint, RecoveryGoesOn, RecoveryFirst
  <2> QED BY <2>1, <2>2
<1>6. Locked'
  <2>1. \A c \in Calls : HoldsAll(c) /\ lockq' = lockq => HoldsAll(c)'
    BY DEF Footprint, HoldsAll, Touched
  <2>2. CASE a \in Calls
    <3>1. HoldsAll(a)
      BY <2>2 DEF PatchInv, Locked, Holding
    <3> QED BY <2>1, <2>2, <3>1 DEF Footprint, CallGoesOn, PatchInv, Locked, Holding, Working,
               Committing, UndoPlaces, Cleaning
  <2>3. CASE a \in Starters
    BY <1>0, <2>1, <2>3 DEF Footprint, RecoveryGoesOn, PatchInv, Locked
  <2> QED BY <2>2, <2>3
<1>7. Disjoint'
  <2> SUFFICES ASSUME NEW y \in dirs', NEW z \in dirs', y # z
               PROVE  Touched(y) \cap Touched(z) = {}
    <3>1. \A y : Touched(y)' = Touched(y)
      BY DEF Footprint, Touched
    <3> QED BY <3>1 DEF Disjoint
  <2>1. y \in Calls /\ z \in Calls
    BY DEF Footprint
  <2>2. (y # x => y \in dirs) /\ (z # x => z \in dirs)
    BY <2>1 DEF Footprint
  <2>3. CASE y # x /\ z # x
    BY <2>2, <2>3 DEF PatchInv, Disjoint
  <2>4. CASE y = x
    BY <2>1, <2>2, <2>4, PathsApart
  <2>5. CASE z = x
    BY <2>1, <2>2, <2>5, PathsApart
  <2> QED BY <2>3, <2>4, <2>5
<1>8. \A y \in Calls : TxnInv(y)'
  BY <1>2
<1>9. \A b \in Actors : ActorInv(b)'
  BY <1>3
<1> QED BY <1>4, <1>5, <1>6, <1>7, <1>8, <1>9 DEF PatchInv
----------------------------------------------------------------------------
(***************************************************************************)
(* Commit and rollback, over one transaction.                              *)
(***************************************************************************)
AtWork(a, x) ==
  /\ x \in Calls /\ x \in dirs /\ Pending(x) /\ txn[a] = x
  /\ a \in Calls \/ a \in Starters
  /\ a \in Calls => x = a
  /\ a \in Starters => /\ a \notin Calls /\ a \in Recoverers
                       /\ pc[x] = "crashed" /\ LoggedBackups(x)
  /\ Sound(x) /\ Kept(x) /\ LoggedCommits(x)
  /\ journal[x] # NoJournal /\ journal[x].phase # "none" /\ outcome[x] # "applied"
  /\ Remembers(a) /\ Placed(a)
  /\ Backups(x) \subseteq DOMAIN plan[x] /\ DOMAIN plan[x] = 1..Len(plan[x])

LEMMA WorkerFacts ==
  ASSUME TypeInv, PatchInv, NEW a \in Actors, pc[a] \in Committing \cup UndoPlaces,
         NEW x, x = txn[a]
  PROVE  AtWork(a, x)
<1> USE TypeFacts
<1>1. x \in Calls /\ (a \in Calls => x = a)
  OBVIOUS
<1>2. (a \in Calls \/ a \in Starters) /\ (a \in Starters => a \notin Calls /\ a \in Recoverers)
  BY ActorsAssumption DEF PatchInv, CallsServed, Committing, UndoPlaces
<1>3. a \in Starters => pc[x] = "crashed" /\ Pending(x)
  BY <1>2 DEF PatchInv, ActorInv, Charged, RecoveryPlaces, Committing, UndoPlaces, Cleaning
<1>4. Pending(x)
  BY <1>1, <1>2, <1>3 DEF PatchInv, TxnInv, Lawful
<1>5. TxnInv(x) /\ ActorInv(a)
  BY <1>1 DEF PatchInv
<1>6. x \in dirs /\ journal[x] # NoJournal /\ outcome[x] # "applied"
  BY <1>4 DEF Pending
<1>7. Sound(x) /\ Kept(x) /\ LoggedCommits(x) /\ (a \in Starters => LoggedBackups(x))
  BY <1>3, <1>4, <1>5, <1>6 DEF TxnInv
<1>8. Remembers(a) /\ Placed(a)
  BY <1>4, <1>5 DEF ActorInv
<1>9. journal[x].phase # "none"
  BY <1>5, <1>6 DEF TxnInv, Lawful
<1> QED BY <1>1, <1>2, <1>3, <1>4, <1>6, <1>7, <1>8, <1>9 DEF Backups, AtWork

Onward == Committing \cup UndoPlaces \cup {"cleanCommit", "cleanRollback"}

(* A step that leaves the transaction undecided, and its actor at work. *)
LEMMA WorkGoesOn ==
  ASSUME TypeInv, TypeInv', PatchInv, OneStarter,
         NEW a \in Actors, NEW x \in Calls, x = txn[a], a \in Calls \/ a \in Starters,
         pc[a] \in {"prepare"} \cup Committing \cup UndoPlaces, pc'[a] \in Onward,
         a \in Calls => pc'[a] # "giveUp",
         Footprint(a), UNCHANGED <<dirs, outcome, lockq, todo, failed>>,
         x \in dirs, journal'[x] # NoJournal, journal'[x].phase # "none",
         Kept(x)', LoggedCommits(x)', a \in Starters => LoggedBackups(x)',
         Remembers(a)', Placed(a)'
  PROVE  PatchInv'
<1> USE TypeFacts
<1>1. (a \in Calls => x = a) /\ txn'[a] = x
  BY DEF Footprint
<1>2. a \in Starters => /\ a \notin Calls /\ a \in Recoverers /\ pc'[a] \in RecoveryPlaces
                       /\ pc[x] = "crashed" /\ pc'[x] = "crashed"
  <2>1. a \in Starters => a \notin Calls /\ a \in Recoverers /\ pc[a] \in UndoPlaces
    BY ActorsAssumption DEF RecoveryPlaces, Committing, UndoPlaces
  <2>2. a \in Starters => pc[x] = "crashed"
    BY <2>1 DEF PatchInv, ActorInv, Charged
  <2>3. a \in Starters => pc'[a] \in RecoveryPlaces
    BY DEF TypeInv, PlacesOK
  <2> QED BY <2>1, <2>2, <2>3 DEF Footprint
<1>3. outcome[x] # "applied"
  <2>1. CASE a \in Calls
    <3>1. Lawful(x) /\ pc[x] = pc[a]
      BY <1>1, <2>1 DEF PatchInv, TxnInv
    <3> QED BY <3>1 DEF Lawful, Committing, UndoPlaces
  <2>2. CASE a \in Starters
    <3>1. pc[a] \in UndoPlaces
      BY <1>2, <2>2 DEF Committing, UndoPlaces, RecoveryPlaces
    <3> QED BY <2>2, <3>1 DEF PatchInv, ActorInv, Charged, Pending
  <2> QED BY <2>1, <2>2
<1>4. Pending(x)'
  BY <1>3 DEF Pending
<1>5. Sound(x)'
  <2>1. Sound(x)
    BY DEF PatchInv, TxnInv
  <2> QED BY <2>1 DEF Footprint, Sound, Sourced
<1>6. Lawful(x)'
  <2>1. CASE a \in Calls
    BY <1>1, <1>3, <1>4, <2>1
    DEF Lawful, Onward, Untouched, Working, Committing, UndoPlaces, Cleaning
  <2>2. CASE a \in Starters
    BY <1>2, <1>3, <1>4, <2>2 DEF Lawful, Untouched, Committing, UndoPlaces
  <2> QED BY <2>1, <2>2
<1>7. TxnInv(x)'
  <2>1. pc'[x] = "crashed" => LoggedBackups(x)'
    BY <1>1 DEF Onward, Committing, UndoPlaces
  <2> QED BY <1>4, <1>5, <1>6, <2>1 DEF TxnInv
<1>8. Charged(a)'
  BY <1>1, <1>2, <1>4 DEF Charged
<1>9. ActorInv(a)'
  BY <1>8 DEF ActorInv
<1>10. a \in Calls => CallGoesOn(a)
  BY DEF CallGoesOn, Onward, Working, Cleaning
<1>11. a \in Starters => RecoveryGoesOn(a)
  <2>1. a \in Starters => pc'[a] \in UndoPlaces \cup Cleaning
    BY <1>2 DEF Onward, Committing, UndoPlaces, Cleaning, RecoveryPlaces
  <2>2. a \in Starters => pc[a] \in UndoPlaces
    BY <1>2 DEF Committing, UndoPlaces, RecoveryPlaces
  <2> QED BY <2>1, <2>2 DEF RecoveryGoesOn, PatchInv, RecoveryFirst
<1>12. pc[a] \in {"stage"} \cup Working
  BY DEF Working
<1> QED BY <1>7, <1>9, <1>10, <1>11, <1>12, WorkerStep

LEMMA NoFault ==
  ASSUME TypeInv, RollbacksWork, NEW a \in Actors, pc[a] \in UndoPlaces \cup Cleaning,
         pc'[a] # pc[a], NEW ok, Fault(ok)
  PROVE  ~ok
  BY DEF TypeInv, BoundsOK, RollbacksWork, Fault
LEMMA AbortCommitKeeps ==
  ASSUME TypeInv, TypeInv', PatchInv, OneStarter, NEW c \in Calls, AbortCommit(c) PROVE PatchInv'
<1> USE TypeFacts
<1>0. AtWork(c, c)
  BY WorkerFacts DEF AbortCommit, Committing
<1>1. pc[c] \in Committing /\ pc'[c] = "rollback" /\ txn[c] = c
  BY DEF AbortCommit, Goto, Committing
<1>2. Footprint(c) /\ UNCHANGED <<dirs, outcome, lockq, todo, failed>>
  BY DEF AbortCommit, Goto, Footprint
<1>3. Kept(c)' /\ LoggedCommits(c)' /\ journal'[c] # NoJournal /\ journal'[c].phase # "none"
  BY <1>0 DEF AtWork, AbortCommit, Kept, LoggedCommits, Sourced, Backups
<1>4. Remembers(c)' /\ Placed(c)'
  BY <1>0, <1>1 DEF AtWork, AbortCommit, Remembers, Placed, Sourced, Backups
<1> QED BY <1>0, <1>1, <1>2, <1>3, <1>4, WorkGoesOn DEF AtWork, Onward, UndoPlaces

LEMMA PrepareKeeps ==
  ASSUME TypeInv, TypeInv', PatchInv, OneStarter, NEW c \in Calls, Prepare(c) PROVE PatchInv'
<1> USE TypeFacts
<1>1. pc[c] = "prepare" /\ txn[c] = c /\ Footprint(c)
  BY DEF Prepare, Goto, WriteJournal, Footprint
<1>2. TxnInv(c) /\ Lawful(c) /\ Sound(c) /\ Kept(c)
  BY <1>1 DEF PatchInv, TxnInv
<1>3. Backups(c) = {} /\ NoBackups(c) /\ journal[c] = NoJournal /\ outcome[c] # "applied"
  BY <1>1, <1>2 DEF Lawful, Untouched
<1>4. CASE WriteJournal(c, [phase |-> "prepared", backedUp |-> {}, committed |-> {}]) /\ Goto(c, "begin")
  <2> DEFINE prepared == [phase |-> "prepared", backedUp |-> {}, committed |-> {}]
  <2>1. journal'[c] = prepared /\ mem'[c] = prepared /\ prepared # NoJournal /\ c \in dirs
    BY <1>4 DEF Prepare, WriteJournal, NoJournal
  <2>2. pc'[c] = "begin"
    BY <1>4 DEF Goto
  <2>3. Kept(c)' /\ LoggedCommits(c)' /\ Backups(c)' = {}
    BY <1>2, <1>3, <2>1 DEF Prepare, Kept, LoggedCommits, Sourced, Backups
  <2>4. Remembers(c)' /\ Placed(c)'
    BY <1>1, <2>1, <2>2, <2>3 DEF Prepare, Remembers, Placed
  <2>5. UNCHANGED <<dirs, outcome, lockq, todo, failed>> /\ prepared.phase # "none"
    BY DEF Prepare
  <2> HIDE DEF prepared
  <2> QED BY <1>1, <2>1, <2>2, <2>3, <2>4, <2>5, WorkGoesOn DEF Onward, Committing
<1>5. CASE Goto(c, "cleanDiscard") /\ UNCHANGED journal
  <2>1. pc'[c] = "cleanDiscard"
    BY <1>5 DEF Goto
  <2>2. TxnInv(c)'
    BY <1>2, <1>3, <1>5, <2>1 DEF Prepare, TxnInv, Lawful, Sound, Sourced, Pending, Backups,
       NoBackups, Working, Cleaning, Committing, UndoPlaces
  <2>3. ActorInv(c)'
    BY <2>1 DEF ActorInv, Placed, Charged, Committing, UndoPlaces
  <2>4. CallGoesOn(c)
    BY <2>1 DEF Prepare, CallGoesOn, Working, Cleaning
  <2> QED BY <1>1, <2>2, <2>3, <2>4, WorkerStep, ActorsAssumption DEF Working
<1> QED BY <1>4, <1>5 DEF Prepare

LEMMA StageKeeps ==
  ASSUME TypeInv, TypeInv', PatchInv, OneStarter, NEW c \in Calls, Stage(c) PROVE PatchInv'
<1> USE TypeFacts
<1>1. pc[c] = "stage" /\ txn[c] = c /\ Footprint(c)
  BY DEF Stage, Goto, Footprint
<1>2. Lawful(c) /\ Sound(c) /\ Kept(c)
  BY <1>1 DEF PatchInv, TxnInv
<1>3. Backups(c) = {} /\ NoBackups(c) /\ journal[c] = NoJournal /\ outcome[c] # "applied"
  BY <1>1, <1>2 DEF Lawful, Untouched
<1>4. pc'[c] \in {"prepare", "cleanDiscard"}
  BY DEF Stage, Goto
<1>5. Kept(c)' /\ Sound(c)'
  BY <1>2 DEF Stage, Kept, Sound, Sourced, Backups
<1>6. TxnInv(c)'
  BY <1>3, <1>4, <1>5 DEF Stage, TxnInv, Lawful, Pending, Backups, NoBackups, Working, Cleaning,
     Committing, UndoPlaces
<1>7. ActorInv(c)'
  BY <1>4 DEF ActorInv, Placed, Charged, Committing, UndoPlaces
<1>8. CallGoesOn(c)
  BY <1>4 DEF Stage, CallGoesOn, Working, Cleaning
<1> QED BY <1>1, <1>6, <1>7, <1>8, WorkerStep, ActorsAssumption

LEMMA BeginCommitKeeps ==
  ASSUME TypeInv, TypeInv', PatchInv, OneStarter, NEW c \in Calls, BeginCommit(c) PROVE PatchInv'
<1> USE TypeFacts
<1>0. AtWork(c, c)
  BY WorkerFacts DEF BeginCommit, Committing
<1> DEFINE committing == [mem[c] EXCEPT !.phase = "committing"]
<1>1. pc[c] \in Committing /\ pc[c] = "begin" /\ txn[c] = c
  BY DEF BeginCommit, Committing
<1>2. Footprint(c) /\ UNCHANGED <<dirs, outcome, lockq, todo, failed>>
  BY DEF BeginCommit, Goto, WriteJournal, Footprint
<1>3. /\ committing.phase = "committing" /\ committing # NoJournal
      /\ committing.committed = mem[c].committed /\ committing.backedUp = mem[c].backedUp
  BY DEF Journals, NoJournal
<1>4. mem'[c] = committing /\ idx'[c] = 1 /\ journal'[c] \in {committing, journal[c]}
  BY DEF BeginCommit, WriteJournal
<1>5. pc'[c] \in {"op", "rollback"}
  BY DEF BeginCommit, Goto
<1>6. Backups(c) = {} /\ Backups(c)' = {} /\ Sourced(c)' = Sourced(c)
  BY <1>0, <1>1 DEF AtWork, BeginCommit, Placed, Backups, Sourced
<1>7. Kept(c)'
  BY <1>0, <1>6 DEF AtWork, BeginCommit, Kept
<1>8. LoggedCommits(c)' /\ Remembers(c)'
  BY <1>0, <1>1, <1>3, <1>4, <1>5, <1>6 DEF AtWork, BeginCommit, LoggedCommits, Remembers
<1>9. Placed(c)'
  BY <1>5, <1>6 DEF BeginCommit, Placed, Below
<1> QED BY <1>0, <1>1, <1>2, <1>3, <1>4, <1>5, <1>7, <1>8, <1>9, WorkGoesOn
        DEF AtWork, Onward, UndoPlaces, Committing
(* What the operation an actor is at may touch, and what it may not. *)
LEMMA OpFacts ==
  ASSUME TypeInv, NEW x \in Calls, NEW i \in DOMAIN plan[x], Sound(x)
  PROVE  /\ plan[x][i].tgt \in Touched(x) /\ plan[x][i].tgt \in Paths
         /\ i \in Sourced(x) => plan[x][i].src \in Touched(x) /\ plan[x][i].src \in Paths
         /\ \A j \in Sourced(x) : j # i => plan[x][j].src # plan[x][i].tgt
         /\ i \in Sourced(x) => \A j \in Sourced(x) : j # i => plan[x][j].src # plan[x][i].src
<1>1. /\ plan[x][i].tgt \in OpPaths(plan[x][i])
      /\ i \in Sourced(x) => plan[x][i].src \in OpPaths(plan[x][i])
      /\ OpPaths(plan[x][i]) \subseteq Touched(x) /\ OpPaths(plan[x][i]) \subseteq Paths
  BY OpPathsIn
<1>2. ASSUME NEW j \in Sourced(x), j # i
      PROVE  plan[x][j].src \notin OpPaths(plan[x][i])
  <2>1. j \in DOMAIN plan[x] /\ plan[x][j].src \in OpPaths(plan[x][j])
    BY <1>2, OpPathsIn DEF Sourced
  <2>2. OpPaths(plan[x][i]) \cap OpPaths(plan[x][j]) = {}
    BY <1>2, <2>1 DEF Sound
  <2> QED BY <2>1, <2>2
<1> QED BY <1>1, <1>2

LEMMA BackupSourceKeeps ==
  ASSUME TypeInv, TypeInv', PatchInv, OneStarter, NEW c \in Calls, BackupSource(c) PROVE PatchInv'
<1> USE TypeFacts
<1> DEFINE i == idx[c]
           src == plan[c][i].src
<1>0. AtWork(c, c)
  BY WorkerFacts DEF BackupSource, Committing
<1>1. /\ pc[c] = "op" /\ i \in DOMAIN plan[c] /\ i \in Sourced(c) /\ Op(c) = plan[c][i]
      /\ i \notin Backups(c)
  <2>1. pc[c] = "op" /\ i \in DOMAIN plan[c] /\ Op(c) = plan[c][i] /\ HasSource(Op(c))
    BY DEF BackupSource, Op, TypeInv, Indexed
  <2>2. i \notin Backups(c)
    BY <1>0, <2>1 DEF AtWork, Placed, Below, Backups
  <2> QED BY <2>1, <2>2 DEF Sourced
<1>2. /\ src \in Touched(c) /\ \A j \in Sourced(c) : j # i => plan[c][j].src # src
  BY <1>0, <1>1, OpFacts DEF AtWork
<1>3. Footprint(c)
  BY <1>0, <1>1, <1>2 DEF AtWork, BackupSource, Goto, Footprint
<1>4. /\ UNCHANGED <<dirs, outcome, lockq, todo, failed, journal>> /\ c \in dirs
      /\ journal[c] # NoJournal /\ journal[c].phase # "none" /\ Sourced(c)' = Sourced(c)
  BY <1>0 DEF AtWork, BackupSource, Sourced
<1>5. CASE Goto(c, "rollback") /\ UNCHANGED <<files, backup, mem>>
  <2>1. pc'[c] = "rollback" /\ Backups(c)' = Backups(c)
    BY <1>5 DEF BackupSource, Goto, Backups
  <2>2. Kept(c)' /\ LoggedCommits(c)' /\ Remembers(c)' /\ Placed(c)'
    BY <1>0, <1>1, <1>4, <1>5, <2>1 DEF AtWork, BackupSource, Kept, LoggedCommits, Remembers, Placed
  <2> QED BY <1>0, <1>1, <1>3, <1>4, <2>1, <2>2, WorkGoesOn DEF AtWork, Onward, Committing, UndoPlaces
<1>6. CASE /\ backup' = [backup EXCEPT ![c][i] = files[src]]
           /\ files' = [files EXCEPT ![src] = Missing]
           /\ mem' = [mem EXCEPT ![c].backedUp = @ \cup {i}]
           /\ Goto(c, "logBackup")
  <2>1. pc'[c] = "logBackup" /\ txn'[c] = c /\ idx' = idx /\ plan' = plan /\ expected' = expected
    BY <1>6 DEF BackupSource, Goto
  <2>2. files[src] = expected[c][src] /\ files[src] # Missing
    BY <1>0, <1>1 DEF AtWork, Kept, Sound
  <2>3. /\ backup'[c][i] = expected[c][src]
        /\ \A j \in DOMAIN plan[c] : j # i => backup'[c][j] = backup[c][j]
    BY <1>1, <1>6, <2>2
  <2>4. Backups(c)' = Backups(c) \cup {i}
    BY <1>1, <2>1, <2>2, <2>3 DEF Backups
  <2>5. Kept(c)'
    <3>1. \A j \in Sourced(c) : j # i => files'[plan[c][j].src] = files[plan[c][j].src]
      BY <1>2, <1>6
    <3> QED BY <1>0, <1>1, <1>4, <2>1, <2>3, <2>4, <3>1 DEF AtWork, Kept, Sourced
  <2>6. /\ mem'[c].phase = mem[c].phase /\ mem'[c].committed = mem[c].committed
        /\ mem'[c].backedUp = mem[c].backedUp \cup {i}
    BY <1>6 DEF Journals
  <2>7. LoggedCommits(c)' /\ Remembers(c)'
    BY <1>0, <1>1, <1>4, <2>1, <2>4, <2>6 DEF AtWork, LoggedCommits, Remembers
  <2>8. Placed(c)'
    BY <1>0, <1>1, <1>4, <2>1, <2>4 DEF AtWork, Placed, Below, Backups
  <2> QED BY <1>0, <1>1, <1>3, <1>4, <2>1, <2>5, <2>7, <2>8, WorkGoesOn DEF AtWork, Onward, Committing
<1> QED BY <1>1, <1>5, <1>6 DEF BackupSource

LEMMA PlaceKeeps ==
  ASSUME TypeInv, TypeInv', PatchInv, OneStarter, NEW c \in Calls, Place(c) PROVE PatchInv'
<1> USE TypeFacts
<1> DEFINE i == idx[c]
           tgt == plan[c][i].tgt
<1>0. AtWork(c, c)
  BY WorkerFacts DEF Place, Committing
<1>1. /\ pc[c] \in {"place", "op"} /\ i \in DOMAIN plan[c] /\ Op(c) = plan[c][i]
      /\ i \in Sourced(c) => i \in Backups(c)
  <2>1. pc[c] \in {"place", "op"} /\ i \in DOMAIN plan[c] /\ Op(c) = plan[c][i]
    BY DEF Place, Op, TypeInv, Indexed
  <2>2. i \in Sourced(c) => i \in Backups(c)
    BY <1>0, <2>1 DEF AtWork, Place, Placed, Sourced
  <2> QED BY <2>1, <2>2
<1>2. /\ tgt \in Touched(c) /\ \A j \in Sourced(c) : j # i => plan[c][j].src # tgt
  BY <1>0, <1>1, OpFacts DEF AtWork
<1>3. Footprint(c)
  BY <1>0, <1>1, <1>2 DEF AtWork, Place, Goto, Footprint
<1>4. /\ UNCHANGED <<dirs, outcome, lockq, todo, failed, journal>> /\ c \in dirs
      /\ journal[c] # NoJournal /\ journal[c].phase # "none"
      /\ Sourced(c)' = Sourced(c) /\ Backups(c)' = Backups(c)
  BY <1>0 DEF AtWork, Place, Sourced, Backups
<1>5. CASE Goto(c, "rollback") /\ UNCHANGED <<files, mem>>
  <2>1. pc'[c] = "rollback"
    BY <1>5 DEF Goto
  <2>2. Kept(c)' /\ LoggedCommits(c)' /\ Remembers(c)' /\ Placed(c)'
    BY <1>0, <1>1, <1>4, <1>5, <2>1 DEF AtWork, Place, Kept, LoggedCommits, Remembers, Placed
  <2> QED BY <1>0, <1>1, <1>3, <1>4, <2>1, <2>2, WorkGoesOn DEF AtWork, Onward, Committing, UndoPlaces
<1>6. CASE /\ files' = [files EXCEPT ![tgt] = plan[c][i].content]
           /\ mem' = [mem EXCEPT ![c].committed = @ \cup {i}]
           /\ Goto(c, "logPlace")
  <2>1. pc'[c] = "logPlace" /\ txn'[c] = c /\ idx' = idx /\ plan' = plan /\ expected' = expected /\ backup' = backup
    BY <1>6 DEF Place, Goto
  <2>2. Kept(c)'
    <3>1. \A j \in Sourced(c) : j # i => files'[plan[c][j].src] = files[plan[c][j].src]
      BY <1>2, <1>6
    <3> QED BY <1>0, <1>1, <1>4, <2>1, <3>1 DEF AtWork, Kept
  <2>3. /\ mem'[c].phase = mem[c].phase /\ mem'[c].backedUp = mem[c].backedUp
        /\ mem'[c].committed = mem[c].committed \cup {i}
    BY <1>6 DEF Journals
  <2>4. LoggedCommits(c)' /\ Remembers(c)'
    BY <1>0, <1>1, <1>4, <2>1, <2>3 DEF AtWork, LoggedCommits, Remembers
  <2>5. Placed(c)'
    BY <1>0, <1>1, <1>4, <2>1 DEF AtWork, Placed, Below, Backups
  <2> QED BY <1>0, <1>1, <1>3, <1>4, <2>1, <2>2, <2>4, <2>5, WorkGoesOn DEF AtWork, Onward, Committing
<1> QED BY <1>1, <1>5, <1>6 DEF Place
LEMMA NextOpPlaced ==
  ASSUME TypeInv, NEW c \in Calls, NextOp(c), idx[c] \in DOMAIN plan[c], Below(c, idx[c] + 1),
         UNCHANGED <<txn, plan, backup>>
  PROVE  Placed(c)' /\ pc'[c] \in {"op", "cleanCommit"}
<1>1. CASE pc'[c] = "op" /\ idx'[c] = idx[c] + 1
  BY <1>1, TypeFacts DEF Placed, Below, Backups
<1>2. CASE pc'[c] = "cleanCommit"
  BY <1>2 DEF Placed
<1> QED BY <1>1, <1>2, TypeFacts DEF NextOp, Goto

(* The journal on disk becomes, or stays behind, the one in memory. *)
LEMMA Logging ==
  ASSUME TypeInv, NEW a \in Actors, NEW x \in Calls, AtWork(a, x),
         pc[a] # "logRemove" \/ journal'[x] = mem[a],
         journal'[x] \in {journal[x], mem[a]},
         UNCHANGED <<files, backup, txn, mem, plan, expected>>
  PROVE  /\ Kept(x)' /\ LoggedCommits(x)' /\ (a \in Starters => LoggedBackups(x)')
         /\ pc'[a] # "logRemove" => Remembers(a)'
         /\ journal'[x] # NoJournal /\ journal'[x].phase # "none"
<1>1. Sourced(x)' = Sourced(x) /\ Backups(x)' = Backups(x)
  BY DEF Sourced, Backups
<1>2. mem[a] # NoJournal
  BY DEF AtWork, Remembers, NoJournal
<1> QED BY <1>1, <1>2 DEF AtWork, Kept, LoggedCommits, LoggedBackups, Remembers

LEMMA LogBackupKeeps ==
  ASSUME TypeInv, TypeInv', PatchInv, OneStarter, NEW c \in Calls, LogBackup(c) PROVE PatchInv'
<1> USE TypeFacts
<1>0. AtWork(c, c)
  BY WorkerFacts DEF LogBackup, Committing
<1>1. /\ pc[c] = "logBackup" /\ idx[c] \in DOMAIN plan[c] /\ Below(c, idx[c] + 1)
      /\ idx[c] \in Backups(c)
  BY <1>0 DEF AtWork, Placed, LogBackup, TypeInv, Indexed
<1>2. Footprint(c) /\ UNCHANGED <<dirs, outcome, lockq, todo, failed>>
  BY DEF LogBackup, Goto, NextOp, WriteJournal, Footprint
<1>3. /\ UNCHANGED <<files, backup, txn, mem, plan, expected>>
      /\ journal'[c] \in {journal[c], mem[c]}
  BY DEF LogBackup, WriteJournal
<1>4. Placed(c)' /\ pc'[c] \in {"op", "cleanCommit", "place", "rollback"}
  <2>1. CASE NextOp(c)
    BY <1>1, <1>3, <2>1, NextOpPlaced
  <2>2. CASE Goto(c, "place") /\ UNCHANGED idx
    BY <1>1, <1>3, <2>2 DEF Goto, Placed, Below, Backups
  <2>3. CASE Goto(c, "rollback")
    BY <2>3 DEF Goto, Placed
  <2> QED BY <2>1, <2>2, <2>3 DEF LogBackup
<1> QED BY <1>0, <1>1, <1>2, <1>3, <1>4, Logging, WorkGoesOn DEF AtWork, Onward, Committing, UndoPlaces

LEMMA LogPlaceKeeps ==
  ASSUME TypeInv, TypeInv', PatchInv, OneStarter, NEW c \in Calls, LogPlace(c) PROVE PatchInv'
<1> USE TypeFacts
<1>0. AtWork(c, c)
  BY WorkerFacts DEF LogPlace, Committing
<1>1. pc[c] = "logPlace" /\ idx[c] \in DOMAIN plan[c] /\ Below(c, idx[c] + 1)
  BY <1>0 DEF AtWork, Placed, LogPlace, TypeInv, Indexed
<1>2. Footprint(c) /\ UNCHANGED <<dirs, outcome, lockq, todo, failed>>
  BY DEF LogPlace, Goto, NextOp, WriteJournal, Footprint
<1>3. /\ UNCHANGED <<files, backup, txn, mem, plan, expected>>
      /\ journal'[c] \in {journal[c], mem[c]}
  BY DEF LogPlace, WriteJournal
<1>4. Placed(c)' /\ pc'[c] \in {"op", "cleanCommit", "rollback"}
  <2>1. CASE NextOp(c)
    BY <1>1, <1>3, <2>1, NextOpPlaced
  <2>2. CASE Goto(c, "rollback")
    BY <2>2 DEF Goto, Placed
  <2> QED BY <2>1, <2>2 DEF LogPlace
<1> QED BY <1>0, <1>1, <1>2, <1>3, <1>4, Logging, WorkGoesOn DEF AtWork, Onward, Committing, UndoPlaces
LEMMA StartRollbackKeeps ==
  ASSUME TypeInv, TypeInv', PatchInv, OneStarter, RollbacksWork,
         NEW a \in Actors, StartRollback(a) PROVE PatchInv'
<1> USE TypeFacts
<1> DEFINE x == txn[a]
           rolling == [mem[a] EXCEPT !.phase = "rolling_back"]
<1>0. AtWork(a, x)
  BY WorkerFacts DEF StartRollback, UndoPlaces
<1>1. pc[a] = "rollback" /\ x \in Calls /\ x \in dirs
  BY <1>0 DEF AtWork, StartRollback
<1>2. WriteJournal(a, rolling) /\ Goto(a, "undo") /\ UNCHANGED <<lockq, outcome, todo, failed>>
  <2>1. CASE Fault(x \in dirs) /\ pc'[a] # "rollback"
    BY <1>1, <2>1, NoFault DEF UndoPlaces
  <2>2. CASE Fault(x \in dirs) /\ ((\E r : Finish(a, r)) \/ NextEntry(a))
    BY <2>1, <2>2 DEF Finish, NextEntry, Goto
  <2> QED BY <2>2 DEF StartRollback
<1>3. /\ rolling.phase = "rolling_back" /\ rolling # NoJournal
      /\ rolling.committed = mem[a].committed /\ rolling.backedUp = mem[a].backedUp
  BY DEF Journals, NoJournal
<1>4. /\ mem'[a] = rolling /\ idx'[a] = Len(plan[x]) /\ journal'[x] = rolling /\ pc'[a] = "undo"
      /\ UNCHANGED <<dirs, files, backup, txn, plan, expected>>
  BY <1>1, <1>2 DEF StartRollback, WriteJournal, Goto
<1>5. Footprint(a)
  BY <1>1, <1>2 DEF StartRollback, WriteJournal, Goto, Footprint
<1> HIDE DEF rolling
<1>6. Sourced(x)' = Sourced(x) /\ Backups(x)' = Backups(x)
  BY <1>4 DEF Sourced, Backups
<1>7. Kept(x)' /\ LoggedCommits(x)' /\ (a \in Starters => LoggedBackups(x)') /\ Remembers(a)'
  BY <1>0, <1>3, <1>4, <1>6 DEF AtWork, Kept, LoggedCommits, LoggedBackups, Remembers
<1>8. Placed(a)'
  BY <1>0, <1>1, <1>4, <1>6 DEF AtWork, Placed, Below
<1> QED BY <1>0, <1>1, <1>2, <1>3, <1>4, <1>5, <1>7, <1>8, WorkGoesOn DEF AtWork, Onward, UndoPlaces

LEMMA RemoveTargetKeeps ==
  ASSUME TypeInv, TypeInv', PatchInv, OneStarter, RollbacksWork,
         NEW a \in Actors, RemoveTarget(a) PROVE PatchInv'
<1> USE TypeFacts
<1> DEFINE x == txn[a]
           i == idx[a]
           tgt == plan[x][i].tgt
<1>0. AtWork(a, x)
  BY WorkerFacts DEF RemoveTarget, Undoing, UndoPlaces
<1>1. /\ pc[a] = "undo" /\ x \in Calls /\ i \in DOMAIN plan[x] /\ i \in mem[a].committed
      /\ Op(a) = plan[x][i] /\ (i \in Sourced(x) => i \in Backups(x)) /\ Below(x, i + 1)
  <2>1. pc[a] = "undo" /\ i \in mem[a].committed /\ i > 0 /\ x \in Calls
    BY DEF RemoveTarget, Undoing
  <2>2. i \in 1..Len(plan[x])
    BY <2>1 DEF TypeInv, Indexed
  <2> QED BY <1>0, <2>1, <2>2 DEF AtWork, Placed, Remembers, Op
<1>2. tgt \in Touched(x) /\ \A j \in Sourced(x) : j # i => plan[x][j].src # tgt
  BY <1>0, <1>1, OpFacts DEF AtWork
<1>3. /\ files' = [files EXCEPT ![tgt] = Missing]
      /\ mem' = [mem EXCEPT ![a].committed = @ \ {i}]
      /\ Goto(a, "logRemove")
  <2>1. CASE Fault(TRUE) /\ Goto(a, "giveUp")
    BY <1>1, <2>1, NoFault DEF Goto, UndoPlaces
  <2> QED BY <1>1, <2>1 DEF RemoveTarget
<1>4. Footprint(a)
  BY <1>1, <1>2, <1>3 DEF RemoveTarget, Goto, Footprint
<1>5. /\ UNCHANGED <<dirs, outcome, lockq, todo, failed, journal, backup, txn, idx, plan, expected>>
      /\ pc'[a] = "logRemove"
  BY <1>3 DEF RemoveTarget, Goto
<1>6. /\ mem'[a].phase = mem[a].phase /\ mem'[a].backedUp = mem[a].backedUp
      /\ mem'[a].committed = mem[a].committed \ {i}
  BY <1>3 DEF Journals
<1>7. Sourced(x)' = Sourced(x) /\ Backups(x)' = Backups(x)
  BY <1>5 DEF Sourced, Backups
<1>8. Kept(x)'
  <2>1. \A j \in Sourced(x) : j # i => files'[plan[x][j].src] = files[plan[x][j].src]
    BY <1>2, <1>3
  <2> QED BY <1>0, <1>1, <1>5, <1>7, <2>1 DEF AtWork, Kept
<1>9. LoggedCommits(x)' /\ (a \in Starters => LoggedBackups(x)') /\ Remembers(a)'
  BY <1>0, <1>1, <1>5, <1>6, <1>7 DEF AtWork, LoggedCommits, LoggedBackups, Remembers
<1>10. Placed(a)'
  BY <1>1, <1>5, <1>6, <1>7 DEF Placed, Below
<1> QED BY <1>0, <1>1, <1>4, <1>5, <1>8, <1>9, <1>10, WorkGoesOn DEF AtWork, Onward, UndoPlaces

LEMMA LogRemoveKeeps ==
  ASSUME TypeInv, TypeInv', PatchInv, OneStarter, RollbacksWork,
         NEW a \in Actors, LogRemove(a) PROVE PatchInv'
<1> USE TypeFacts
<1> DEFINE x == txn[a]
<1>0. AtWork(a, x)
  BY WorkerFacts DEF LogRemove, UndoPlaces
<1>1. pc[a] = "logRemove" /\ x \in Calls /\ x \in dirs
  BY <1>0 DEF AtWork, LogRemove
<1>2. WriteJournal(a, mem[a]) /\ Goto(a, "restore")
  <2>1. CASE Fault(x \in dirs) /\ Goto(a, "giveUp")
    BY <1>1, <2>1, NoFault DEF Goto, UndoPlaces
  <2> QED BY <2>1 DEF LogRemove
<1>3. Footprint(a)
  BY <1>1, <1>2 DEF LogRemove, WriteJournal, Goto, Footprint
<1>4. /\ UNCHANGED <<dirs, outcome, lockq, todo, failed, files, backup, txn, mem, idx, plan, expected>>
      /\ pc'[a] = "restore" /\ journal'[x] = mem[a]
  BY <1>1, <1>2 DEF LogRemove, WriteJournal, Goto
<1>5. Placed(a)'
  BY <1>0, <1>1, <1>4 DEF AtWork, Placed, Below, Backups
<1> QED BY <1>0, <1>1, <1>3, <1>4, <1>5, Logging, WorkGoesOn DEF AtWork, Onward, UndoPlaces
LEMMA RestoreSourceKeeps ==
  ASSUME TypeInv, TypeInv', PatchInv, OneStarter, RollbacksWork,
         NEW a \in Actors, RestoreSource(a) PROVE PatchInv'
<1> USE TypeFacts
<1> DEFINE x == txn[a]
           i == idx[a]
           src == plan[x][i].src
<1>0. AtWork(a, x)
  BY WorkerFacts DEF RestoreSource, Undoing, UndoPlaces
<1>1. /\ pc[a] \in {"undo", "restore"} /\ x \in Calls /\ i \in DOMAIN plan[x]
      /\ i \in mem[a].backedUp /\ i \notin mem[a].committed
      /\ Op(a) = plan[x][i] /\ Below(x, i + 1)
  <2>1. pc[a] \in {"undo", "restore"} /\ i \in mem[a].backedUp /\ i > 0 /\ x \in Calls
    BY DEF RestoreSource, Undoing
  <2>2. i \in 1..Len(plan[x])
    BY <2>1 DEF TypeInv, Indexed
  <2>3. i \notin mem[a].committed
    BY <1>0 DEF RestoreSource, Undoing, AtWork, Placed
  <2> QED BY <1>0, <2>1, <2>2, <2>3 DEF AtWork, Placed, Op
<1>2. UNCHANGED <<dirs, outcome, lockq, todo, failed, journal, txn, idx, plan, expected>>
  BY DEF RestoreSource
<1>3. Sourced(x)' = Sourced(x)
  BY <1>2 DEF Sourced
<1>4. CASE /\ backup[x][i] # Missing
           /\ files' = [files EXCEPT ![src] = backup[x][i]]
           /\ backup' = [backup EXCEPT ![x][i] = Missing]
           /\ mem' = [mem EXCEPT ![a].backedUp = @ \ {i}]
           /\ Goto(a, "logRestore")
  <2>1. i \in Backups(x) /\ i \in Sourced(x) /\ backup[x][i] = expected[x][src]
    BY <1>0, <1>1, <1>4 DEF AtWork, Kept, Backups
  <2>2. src \in Touched(x) /\ src \in Paths /\ \A j \in Sourced(x) : j # i => plan[x][j].src # src
    BY <1>0, <1>1, <2>1, OpFacts DEF AtWork
  <2>3. Footprint(a)
    BY <1>1, <1>4, <2>2 DEF RestoreSource, Goto, Footprint
  <2>4. /\ mem'[a].phase = mem[a].phase /\ mem'[a].committed = mem[a].committed
        /\ mem'[a].backedUp = mem[a].backedUp \ {i}
    BY <1>4 DEF Journals
  <2>5. pc'[a] = "logRestore"
    BY <1>4 DEF Goto
  <2>6. Backups(x)' = Backups(x) \ {i} /\ \A j \in Backups(x)' : backup'[x][j] = backup[x][j]
    BY <1>1, <1>2, <1>4 DEF Backups
  <2>7. Kept(x)'
    <3>1. \A j \in Sourced(x) : j # i => files'[plan[x][j].src] = files[plan[x][j].src]
      BY <1>4, <2>2
    <3>2. files'[src] = expected[x][src]
      BY <1>4, <2>1, <2>2
    <3>3. Kept(x)
      BY <1>0 DEF AtWork
    <3>4. ASSUME NEW j \in Sourced(x)
          PROVE  IF j \in Backups(x)'
                 THEN backup'[x][j] = expected[x][plan[x][j].src]
                 ELSE files'[plan[x][j].src] = expected[x][plan[x][j].src]
      <4>1. CASE j = i
        BY <2>6, <3>2, <4>1
      <4>2. CASE j # i
        BY <2>6, <3>1, <3>3, <4>2 DEF Kept
      <4> QED BY <4>1, <4>2
    <3>5. Backups(x)' \subseteq Sourced(x)
      BY <2>6, <3>3 DEF Kept
    <3> QED BY <1>2, <1>3, <3>4, <3>5 DEF Kept
  <2>8. LoggedCommits(x)' /\ (a \in Starters => LoggedBackups(x)') /\ Remembers(a)'
    BY <1>0, <1>1, <1>2, <1>3, <2>4, <2>5, <2>6 DEF AtWork, LoggedCommits, LoggedBackups, Remembers
  <2>9. Placed(a)'
    BY <1>1, <1>2, <2>5, <2>6 DEF Placed, Below, Backups
  <2> QED BY <1>0, <1>1, <1>2, <2>3, <2>5, <2>7, <2>8, <2>9, WorkGoesOn DEF AtWork, Onward, UndoPlaces
<1>5. CASE Fault(backup[x][i] # Missing) /\ Goto(a, "giveUp") /\ UNCHANGED <<files, backup, mem>>
  <2>1. pc'[a] = "giveUp" /\ backup[x][i] = Missing
    BY <1>1, <1>5, NoFault DEF Goto, UndoPlaces
  <2>2. a \notin Calls
    BY <1>0, <1>1, <2>1 DEF AtWork, Remembers, Backups
  <2>3. Footprint(a) /\ Backups(x)' = Backups(x)
    BY <1>2, <1>5 DEF RestoreSource, Goto, Footprint, Backups
  <2>4. /\ Kept(x)' /\ LoggedCommits(x)' /\ (a \in Starters => LoggedBackups(x)')
        /\ Remembers(a)' /\ Placed(a)'
    BY <1>0, <1>1, <1>2, <1>3, <1>5, <2>1, <2>3
    DEF AtWork, Kept, LoggedCommits, LoggedBackups, Remembers, Placed
  <2> QED BY <1>0, <1>1, <1>2, <2>1, <2>2, <2>3, <2>4, WorkGoesOn DEF AtWork, Onward, UndoPlaces
<1> QED BY <1>1, <1>4, <1>5 DEF RestoreSource

LEMMA LogRestoreKeeps ==
  ASSUME TypeInv, TypeInv', PatchInv, OneStarter, RollbacksWork,
         NEW a \in Actors, LogRestore(a) PROVE PatchInv'
<1> USE TypeFacts
<1> DEFINE x == txn[a]
<1>0. AtWork(a, x)
  BY WorkerFacts DEF LogRestore, UndoPlaces
<1>1. pc[a] = "logRestore" /\ x \in Calls /\ x \in dirs
  BY <1>0 DEF AtWork, LogRestore
<1>2. WriteJournal(a, mem[a]) /\ UndoPrevious(a)
  <2>1. CASE Fault(x \in dirs) /\ Goto(a, "giveUp")
    BY <1>1, <2>1, NoFault DEF Goto, UndoPlaces
  <2> QED BY <2>1 DEF LogRestore
<1>3. Footprint(a)
  BY <1>1, <1>2 DEF LogRestore, WriteJournal, UndoPrevious, Goto, Footprint
<1>4. /\ UNCHANGED <<dirs, outcome, lockq, todo, failed, files, backup, txn, mem, plan, expected>>
      /\ pc'[a] = "undo" /\ journal'[x] = mem[a] /\ idx'[a] = idx[a] - 1
  BY <1>1, <1>2 DEF LogRestore, WriteJournal, UndoPrevious, Goto
<1>5. Placed(a)'
  BY <1>0, <1>1, <1>4 DEF AtWork, Placed, Below, Backups
<1> QED BY <1>0, <1>1, <1>3, <1>4, <1>5, Logging, WorkGoesOn DEF AtWork, Onward, UndoPlaces

(* Steps of a rollback that change only where it is. *)
LEMMA OnlyMoves ==
  ASSUME TypeInv, TypeInv', PatchInv, OneStarter,
         NEW a \in Actors, NEW x, AtWork(a, x), pc[a] \in UndoPlaces \ {"logRemove"},
         pc'[a] \in {"undo", "cleanRollback"}, Placed(a)',
         pc' = [pc EXCEPT ![a] = pc'[a]],
         \A b \in Actors : b # a => idx'[b] = idx[b],
         UNCHANGED <<files, dirs, journal, backup, txn, mem, plan, expected, outcome, lockq,
                     promise, serving, todo, failed>>
  PROVE  PatchInv'
<1> USE TypeFacts
<1>1. x \in Calls /\ x = txn[a]
  BY DEF AtWork
<1>2. Footprint(a)
  BY <1>1 DEF Footprint
<1>3. /\ Kept(x)' /\ LoggedCommits(x)' /\ (a \in Starters => LoggedBackups(x)') /\ Remembers(a)'
  BY Logging DEF AtWork
<1> QED BY <1>1, <1>2, <1>3, WorkGoesOn DEF AtWork, Onward, UndoPlaces

LEMMA NothingToRestoreKeeps ==
  ASSUME TypeInv, TypeInv', PatchInv, OneStarter,
         NEW a \in Actors, NothingToRestore(a) PROVE PatchInv'
<1> USE TypeFacts
<1> DEFINE x == txn[a]
<1>0. AtWork(a, x) /\ pc[a] \in {"undo", "restore"}
  BY WorkerFacts DEF NothingToRestore, Undoing, UndoPlaces
<1>1. Below(x, idx[a])
  BY <1>0 DEF NothingToRestore, AtWork, Placed, Remembers, Below, Backups
<1>2. /\ UNCHANGED <<files, dirs, journal, backup, txn, mem, plan, expected, outcome, lockq,
                     promise, serving, todo, failed>>
      /\ pc' = [pc EXCEPT ![a] = "undo"] /\ idx' = [idx EXCEPT ![a] = @ - 1]
  BY DEF NothingToRestore, UndoPrevious, Goto
<1>3. Placed(a)'
  BY <1>1, <1>2 DEF Placed, Below, Backups
<1> QED BY <1>0, <1>2, <1>3, OnlyMoves DEF UndoPlaces

LEMMA RollbackDoneKeeps ==
  ASSUME TypeInv, TypeInv', PatchInv, OneStarter,
         NEW a \in Actors, RollbackDone(a) PROVE PatchInv'
<1> USE TypeFacts
<1> DEFINE x == txn[a]
<1>0. AtWork(a, x) /\ pc[a] = "undo" /\ idx[a] = 0
  BY WorkerFacts DEF RollbackDone, UndoPlaces
<1>1. Backups(x) = {}
  BY <1>0 DEF AtWork, Placed, Below
<1>2. /\ UNCHANGED <<files, dirs, journal, backup, txn, mem, idx, plan, expected, outcome, lockq,
                     promise, serving, todo, failed>>
      /\ pc' = [pc EXCEPT ![a] = "cleanRollback"]
  BY DEF RollbackDone, Goto
<1>3. Placed(a)'
  BY <1>1, <1>2 DEF Placed, Backups
<1> QED BY <1>0, <1>2, <1>3, OnlyMoves DEF UndoPlaces
LEMMA GiveUpKeeps ==
  ASSUME TypeInv, TypeInv', PatchInv, OneStarter, RollbacksWork,
         NEW a \in Actors, GiveUp(a) PROVE PatchInv'
<1> USE TypeFacts
<1> DEFINE x == txn[a]
           required == [mem[a] EXCEPT !.phase = "recovery_required"]
<1>0. AtWork(a, x)
  BY WorkerFacts DEF GiveUp, UndoPlaces
<1>1. /\ pc[a] = "giveUp" /\ x \in Calls /\ x \in dirs /\ a \in Starters /\ a \notin Calls
      /\ a \in Recoverers /\ x # a
  BY <1>0 DEF AtWork, GiveUp, PatchInv, ActorInv, Charged
<1>2. /\ NextEntry(a) /\ failed' = [failed EXCEPT ![a] = @ \cup {x}] /\ UNCHANGED <<lockq, outcome>>
      /\ pc'[a] = "entries"
  BY <1>1 DEF GiveUp, NextEntry, Goto
<1>3. WriteJournal(a, required)
  <2>1. CASE Fault(x \in dirs)
    BY <1>1, <1>2, <2>1, NoFault DEF UndoPlaces
  <2> QED BY <2>1 DEF GiveUp
<1>4. /\ required.phase = "recovery_required" /\ required # NoJournal
      /\ required.committed = mem[a].committed /\ required.backedUp = mem[a].backedUp
  BY DEF Journals, NoJournal
<1>5. Footprint(a)
  BY <1>1, <1>2, <1>3 DEF GiveUp, NextEntry, WriteJournal, Goto, Footprint
<1>6. /\ UNCHANGED <<dirs, files, backup, txn, plan, expected>> /\ journal'[x] = required
      /\ pc'[x] = pc[x] /\ outcome'[x] = outcome[x]
  BY <1>1, <1>2, <1>3 DEF GiveUp, NextEntry, WriteJournal, Goto
<1> HIDE DEF required
<1>7. Sourced(x)' = Sourced(x) /\ Backups(x)' = Backups(x)
  BY <1>6 DEF Sourced, Backups
<1>8. Kept(x)' /\ LoggedCommits(x)' /\ LoggedBackups(x)' /\ Sound(x)' /\ Pending(x)'
  BY <1>0, <1>1, <1>4, <1>6, <1>7
  DEF AtWork, Kept, LoggedCommits, LoggedBackups, Remembers, Sound, Pending
<1>9. Lawful(x)'
  BY <1>0, <1>1, <1>4, <1>6, <1>8 DEF AtWork, Lawful, Untouched, Committing, UndoPlaces
<1>10. TxnInv(x)'
  BY <1>8, <1>9 DEF TxnInv
<1>11. ActorInv(a)'
  BY <1>1, <1>2 DEF ActorInv, Placed, Charged, Committing, UndoPlaces, Cleaning
<1>12. RecoveryGoesOn(a)
  <2>1. dirs \subseteq todo[a] \cup failed[a]
    BY <1>1 DEF PatchInv, RecoveryFirst, UndoPlaces
  <2>2. todo'[a] = todo[a] \ {x} /\ failed'[a] = failed[a] \cup {x}
    BY <1>1, <1>2 DEF NextEntry, TypeInv, RootOK
  <2> QED BY <1>2, <1>6, <2>1, <2>2 DEF RecoveryGoesOn
<1> QED BY <1>1, <1>5, <1>6, <1>10, <1>11, <1>12, WorkerStep DEF Working, UndoPlaces

----------------------------------------------------------------------------
(***************************************************************************)
(* Cleanup.                                                                *)
(***************************************************************************)
AtCleanup(a, x) ==
  /\ x \in Calls /\ txn[a] = x /\ Lawful(x) /\ TxnInv(x) /\ Placed(a)
  /\ pc[a] \in {"cleanCommit", "cleanRollback", "cleanDiscard"}
  /\ a \in Calls \/ a \in Starters
  /\ a \in Calls => x = a /\ a \notin Starters
  /\ a \in Starters => /\ a \notin Calls /\ a \in Recoverers /\ a # x
                       /\ pc[a] = "cleanRollback" /\ x \in dirs /\ pc[x] = "crashed"
  /\ pc[a] = "cleanCommit" => a \in Calls

LEMMA CleanerFacts ==
  ASSUME TypeInv, PatchInv, NEW a \in Actors, pc[a] \in Cleaning, NEW x, x = txn[a]
  PROVE  AtCleanup(a, x)
<1> USE TypeFacts
<1>1. x \in Calls /\ (a \in Calls => x = a)
  OBVIOUS
<1>2. (a \in Calls \/ a \in Starters) /\ (a \in Starters => a \notin Calls /\ a \in Recoverers)
  BY ActorsAssumption DEF PatchInv, CallsServed, Cleaning
<1>3. a \in Starters => pc[a] = "cleanRollback"
  BY <1>2 DEF RecoveryPlaces, Cleaning, UndoPlaces
<1>4. a \in Starters => x \in dirs /\ pc[x] = "crashed"
  BY <1>2 DEF PatchInv, ActorInv, Charged
<1>5. TxnInv(x) /\ Lawful(x) /\ Placed(a)
  BY <1>1 DEF PatchInv, TxnInv, ActorInv
<1> QED BY <1>1, <1>2, <1>3, <1>4, <1>5 DEF AtCleanup, Cleaning

LEMMA CleanupFailsKeeps ==
  ASSUME TypeInv, RollbacksWork, NEW a \in Actors, CleanupFails(a) PROVE FALSE
<1>1. pc'[a] # pc[a]
  BY TypeFacts DEF CleanupFails, Goto, Finish, NextEntry, Cleaning
<1>2. pc[a] \in Cleaning /\ Fault(TRUE)
  BY DEF CleanupFails
<1> QED BY <1>1, <1>2, NoFault

(* A transaction that is being decided, or is no longer there to be undone. *)
LEMMA CleaningGoesOn ==
  ASSUME TypeInv, TypeInv', PatchInv, OneStarter,
         NEW a \in Actors, NEW x, AtCleanup(a, x), Footprint(a),
         UNCHANGED <<dirs, lockq, todo, failed, pc>>, ~Pending(x)',
         outcome'[x] = "applied" => outcome[x] = "applied" \/ pc[a] = "cleanCommit",
         Backups(x)' \subseteq Backups(x), NoBackups(x) => NoBackups(x)',
         journal'[x] \in {journal[x], NoJournal}
  PROVE  PatchInv'
<1> USE TypeFacts
<1>1. Sound(x) /\ x \in dirs => Sound(x)'
  BY DEF Footprint, Sound, Sourced
<1>2. Lawful(x)'
  BY DEF AtCleanup, Lawful, Committing, UndoPlaces
<1>3. x \in dirs \/ pc[x] \in {"stage", "prepare"} => Sound(x)
  BY DEF AtCleanup, TxnInv
<1>4. pc[x] \notin {"stage", "prepare"}
  BY DEF AtCleanup
<1>5. TxnInv(x)'
  BY <1>1, <1>2, <1>3, <1>4 DEF TxnInv
<1>6. txn'[a] = x /\ pc'[a] = pc[a]
  BY DEF AtCleanup, Footprint
<1>7. ActorInv(a)'
  <2>1. Placed(a)'
    BY <1>6 DEF AtCleanup, Placed
  <2>2. Charged(a)'
    BY <1>6 DEF AtCleanup, Charged, UndoPlaces, Cleaning
  <2>3. ~Pending(txn[a])'
    BY <1>6
  <2> QED BY <2>1, <2>2, <2>3 DEF ActorInv
<1>8. a \in Calls => CallGoesOn(a)
  BY DEF AtCleanup, CallGoesOn, Working, Cleaning
<1>9. a \in Starters => RecoveryGoesOn(a)
  BY DEF AtCleanup, RecoveryGoesOn, PatchInv, RecoveryFirst, Cleaning
<1>10. pc[a] \in {"stage"} \cup Working /\ x \in Calls /\ x = txn[a] /\ (a \in Calls \/ a \in Starters)
  BY DEF AtCleanup, Working, Cleaning
<1> QED BY <1>5, <1>7, <1>8, <1>9, <1>10, WorkerStep
LEMMA OthersKeepLocks ==
  ASSUME TypeInv, NEW c \in Calls, NEW result, Finish(c, result), UNCHANGED plan,
         NEW d \in Calls, d # c, HoldsAll(d)
  PROVE  HoldsAll(d)'
<1>1. Touched(d)' = Touched(d) /\ Touched(d) \subseteq Paths
  BY OpPathsIn DEF Touched
<1>2. \A p \in Touched(d) : lockq'[p] = lockq[p]
  BY <1>1 DEF Finish, HoldsAll
<1> QED BY <1>1, <1>2 DEF HoldsAll

LEMMA CleaningIsPlanned ==
  ASSUME TypeInv, NEW x \in Calls, pc[x] # "idle" PROVE DOMAIN backup[x] = DOMAIN plan[x]
<1>1. plan[x] # <<>> /\ plan[x] \in Seq(Operations) /\ DOMAIN plan[x] \in {{}, DOMAIN Requests[x]}
  BY DEF TypeInv, PlansOK, Planned
<1>2. 1 \in DOMAIN plan[x]
  <2>1. plan[x] # <<>> /\ plan[x] \in Seq(Operations)
    BY <1>1
  <2> QED BY <2>1
<1> QED BY <1>1, <1>2 DEF TypeInv, StoreOK

LEMMA RemoveJournalKeeps ==
  ASSUME TypeInv, TypeInv', PatchInv, OneStarter,
         NEW a \in Actors, RemoveJournal(a) PROVE PatchInv'
<1> USE TypeFacts
<1>1. PICK x : x = txn[a]
  OBVIOUS
<1>2. AtCleanup(a, x)
  BY <1>1, CleanerFacts DEF RemoveJournal
<1>3. /\ UNCHANGED <<dirs, lockq, todo, failed, pc, backup>>
      /\ journal' = [journal EXCEPT ![x] = NoJournal]
      /\ pc[a] # "cleanCommit" => outcome' = outcome
      /\ \A y \in Calls : y # x => outcome'[y] = outcome[y]
  BY <1>1, <1>2 DEF AtCleanup, RemoveJournal, Decide
<1>4. Footprint(a)
  BY <1>1, <1>3 DEF RemoveJournal, Footprint
<1>5. journal'[x] = NoJournal
  BY <1>2, <1>3 DEF AtCleanup
<1>6. /\ ~Pending(x)' /\ Backups(x)' = Backups(x) /\ (NoBackups(x) => NoBackups(x)')
  BY <1>3, <1>4, <1>5 DEF Pending, Footprint, Backups, NoBackups
<1> QED BY <1>2, <1>3, <1>4, <1>5, <1>6, CleaningGoesOn

LEMMA RemoveBackupsKeeps ==
  ASSUME TypeInv, TypeInv', PatchInv, OneStarter,
         NEW a \in Actors, RemoveBackups(a) PROVE PatchInv'
<1> USE TypeFacts
<1>1. PICK x : x = txn[a]
  OBVIOUS
<1>2. AtCleanup(a, x)
  BY <1>1, CleanerFacts DEF RemoveBackups
<1>3. /\ UNCHANGED <<dirs, lockq, todo, failed, pc, journal>>
      /\ backup' = [backup EXCEPT ![x] = [i \in DOMAIN @ |-> Missing]]
      /\ \A y \in Calls : y # x => outcome'[y] = outcome[y]
      /\ pc[a] = "cleanCommit" => outcome'[x] = "applied"
      /\ pc[a] # "cleanCommit" => outcome' = outcome
  BY <1>1, <1>2 DEF AtCleanup, RemoveBackups, Decide
<1>4. Footprint(a)
  BY <1>1, <1>3 DEF RemoveBackups, Footprint
<1>5. NoBackups(x)' /\ Backups(x)' = {}
  BY <1>2, <1>3, <1>4 DEF AtCleanup, NoBackups, Backups, Footprint
<1>6. ~Pending(x)'
  <2>1. CASE pc[a] = "cleanCommit"
    BY <1>3, <2>1 DEF Pending
  <2>2. CASE pc[a] = "cleanDiscard"
    BY <1>2, <1>3, <2>2 DEF AtCleanup, Lawful, Untouched, Pending
  <2>3. CASE pc[a] = "cleanRollback"
    <3>1. Backups(x) = {} /\ ~NoBackups(x)
      BY <1>1, <1>2, <2>3 DEF RemoveBackups, AtCleanup, Placed
    <3>2. \A j \in DOMAIN backup[x] : j \in DOMAIN plan[x]
      BY <1>2, <2>3, CleaningIsPlanned DEF AtCleanup
    <3> QED BY <3>1, <3>2 DEF NoBackups, Backups
  <2> QED BY <1>2, <2>1, <2>2, <2>3 DEF AtCleanup
<1> QED BY <1>2, <1>3, <1>4, <1>5, <1>6, CleaningGoesOn

LEMMA RemoveDirectoryKeeps ==
  ASSUME TypeInv, TypeInv', PatchInv, OneStarter,
         NEW a \in Actors, RemoveDirectory(a) PROVE PatchInv'
<1> USE TypeFacts
<1>1. PICK x : x = txn[a]
  OBVIOUS
<1>2. AtCleanup(a, x)
  BY <1>1, CleanerFacts DEF RemoveDirectory
<1>3. /\ dirs' = dirs \ {x} /\ journal[x] = NoJournal /\ NoBackups(x)
      /\ UNCHANGED <<files, journal, backup, txn, mem, idx, plan, expected, promise, serving, failed>>
  BY <1>1 DEF RemoveDirectory
<1>4. CASE a \in Calls
  <2>1. a = x /\ a \notin Starters /\ a \notin Recoverers
    BY <1>2, <1>4 DEF AtCleanup
  <2>2. /\ Finish(a, CleanupResult[pc[a]]) /\ UNCHANGED todo
    BY <2>1 DEF RemoveDirectory
  <2>3. Footprint(a) /\ pc'[a] = "done"
    BY <1>1, <1>3, <2>1, <2>2 DEF Finish, Goto, Footprint
  <2>4. CallGoesOn(a)
    <3>1. UNCHANGED plan /\ UNCHANGED <<todo, failed>>
      BY <1>3, <2>2
    <3>2. \A d \in Calls : d # a /\ HoldsAll(d) => HoldsAll(d)'
      BY <2>2, <3>1, <1>4, OthersKeepLocks
    <3> QED BY <2>3, <3>1, <3>2 DEF CallGoesOn
  <2>5. TxnInv(x)'
    BY <1>3, <2>1, <2>3 DEF TxnInv, Lawful, Pending, Working, Committing, UndoPlaces, Cleaning, Untouched
  <2>6. ActorInv(a)'
    BY <2>1, <2>3 DEF ActorInv, Placed, Charged, Committing, UndoPlaces
  <2> QED BY <1>1, <1>2, <1>4, <2>1, <2>3, <2>4, <2>5, <2>6, WorkerStep DEF AtCleanup, Working, Cleaning
<1>5. CASE a \in Starters
  <2>1. /\ a \notin Calls /\ a \in Recoverers /\ a # x /\ pc[x] = "crashed"
        /\ pc[a] = "cleanRollback"
    BY <1>2, <1>5 DEF AtCleanup
  <2>2. NextEntry(a) /\ UNCHANGED <<lockq, outcome>>
    BY <2>1 DEF RemoveDirectory
  <2>3. Footprint(a) /\ pc'[a] = "entries" /\ pc'[x] = "crashed"
    BY <1>1, <1>3, <2>1, <2>2 DEF NextEntry, Goto, Footprint
  <2>4. RecoveryGoesOn(a)
    <3>1. todo'[a] = todo[a] \ {x}
      BY <1>1, <2>1, <2>2 DEF NextEntry, TypeInv, RootOK
    <3>2. dirs \subseteq todo[a] \cup failed[a]
      BY <1>5, <2>1 DEF PatchInv, RecoveryFirst, Cleaning
    <3> QED BY <1>3, <2>2, <2>3, <3>1, <3>2 DEF RecoveryGoesOn
  <2>5. TxnInv(x)'
    BY <1>2, <1>3, <2>2, <2>3 DEF AtCleanup, TxnInv, Lawful, Pending, Committing, UndoPlaces, Untouched
  <2>6. ActorInv(a)'
    BY <2>1, <2>3 DEF ActorInv, Placed, Charged, Committing, UndoPlaces, Cleaning
  <2> QED BY <1>1, <1>2, <1>5, <2>1, <2>3, <2>4, <2>5, <2>6, WorkerStep DEF AtCleanup, Working, Cleaning
<1> QED BY <1>2, <1>4, <1>5 DEF AtCleanup
----------------------------------------------------------------------------
(***************************************************************************)
(* Calls before their commit.                                              *)
(***************************************************************************)
Early == {"idle", "snapshot", "ensure", "await", "preflight", "lock", "revalidate"}

LEMMA EarlyStep ==
  ASSUME TypeInv, TypeInv', PatchInv, NEW c \in Calls, pc[c] \in Early,
         pc'[c] \in Early \cup {"stage", "done"}, pc'[c] # "idle",
         UNCHANGED <<disk, local, serving, todo, failed>>,
         \A d \in Calls : d # c => UNCHANGED <<pc[d], plan[d], expected[d], outcome[d]>>,
         \A s \in Starters : UNCHANGED pc[s],
         outcome'[c] # "applied", serving,
         pc'[c] = "stage" => Sound(c)' /\ Kept(c)',
         pc'[c] \in {"preflight", "lock", "revalidate", "stage"} => promise = "ok",
         pc'[Lazy] \in {"idle", "list", "done"}, pc'[Lazy] = "list" => promise' = "running",
         promise = "ok" => promise' = "ok",
         \A d \in Calls : pc'[d] \in Holding => HoldsAll(d)'
  PROVE  PatchInv'
<1> USE TypeFacts
<1>1. c \notin dirs /\ NoBackups(c) /\ journal[c] = NoJournal
  BY DEF PatchInv, TxnInv, Lawful, Early, Untouched, Working, Committing, UndoPlaces, Cleaning
<1>2. Backups(c)' = {} /\ NoBackups(c)'
  <2>1. DOMAIN plan'[c] \subseteq DOMAIN backup[c]
    BY DEF TypeInv, StoreOK, PlansOK
  <2> QED BY <1>1, <2>1 DEF NoBackups, Backups
<1>3. TxnInv(c)'
  BY <1>1, <1>2 DEF TxnInv, Lawful, Pending, Early, Working, Committing, UndoPlaces, Cleaning
<1>4. ASSUME NEW y \in Calls, y # c PROVE TxnInv(y)' /\ SameTxn(y)
  <2>1. SameTxn(y)
    BY <1>4 DEF SameTxn
  <2> QED BY <2>1, OtherTxn DEF PatchInv
<1>5. ASSUME NEW b \in Actors PROVE ActorInv(b)'
  <2>1. CASE b \in Calls /\ b # c
    <3>1. SameActor(b) /\ SameTxn(txn[b])
      BY <1>4, <2>1 DEF SameActor
    <3> QED BY <3>1, OtherActor DEF PatchInv
  <2>2. CASE b \notin Calls \/ b = c
    <3>1. pc'[b] \in Early \cup {"stage", "done", "list", "idle"}
      BY <2>2, SMTT(30) DEF PatchInv, RecoveryFirst
    <3> QED BY <3>1 DEF ActorInv, Placed, Charged, Early, Committing, UndoPlaces, Cleaning
  <2> QED BY <2>1, <2>2
<1>6. CallsServed'
  <2>1. promise' # "none" => serving'
    OBVIOUS
  <2>2. ASSUME NEW d \in Calls
        PROVE /\ pc'[d] \notin {"idle", "done", "crashed"} => serving'
              /\ pc'[d] \in {"preflight", "lock"} \cup Holding => promise' = "ok"
              /\ d \in dirs' => (serving' <=> pc'[d] # "crashed")
    <3>1. CASE d = c
      BY <1>1, <3>1 DEF Early, Holding, Working, Committing, UndoPlaces, Cleaning
    <3>2. CASE d # c
      BY <3>2 DEF PatchInv, CallsServed
    <3> QED BY <3>1, <3>2
  <2> QED BY <2>1, <2>2 DEF CallsServed
<1>7. RecoveryFirst'
  BY DEF PatchInv, RecoveryFirst
<1>8. Locked'
  BY DEF Locked
<1>9. Disjoint'
  <2>1. \A y \in Calls : y # c => Touched(y)' = Touched(y)
    BY DEF Touched
  <2> QED BY <1>1, <2>1 DEF PatchInv, Disjoint
<1>10. \A y \in Calls : TxnInv(y)'
  BY <1>3, <1>4
<1> QED BY <1>5, <1>6, <1>7, <1>8, <1>9, <1>10 DEF PatchInv
LEMMA LocksKept ==
  ASSUME TypeInv, PatchInv, NEW d \in Calls, UNCHANGED <<lockq, pc[d], plan[d]>>, pc[d] \in Holding
  PROVE  HoldsAll(d)'
  BY DEF PatchInv, Locked, HoldsAll, Touched

LEMMA LocksKeptByFinish ==
  ASSUME TypeInv, PatchInv, NEW c \in Calls, NEW result, Finish(c, result), UNCHANGED plan,
         NEW d \in Calls, pc'[d] \in Holding
  PROVE  HoldsAll(d)'
<1>1. d # c
  BY TypeFacts DEF Finish, Goto, Holding, Working, Committing, UndoPlaces, Cleaning
<1>2. HoldsAll(d)
  BY <1>1 DEF PatchInv, Locked, Finish, Goto
<1> QED BY <1>1, <1>2, OthersKeepLocks

LEMMA RequestKeeps ==
  ASSUME TypeInv, TypeInv', PatchInv, NEW c \in Calls, Request(c) PROVE PatchInv'
<1> USE TypeFacts
<1>1. pc[c] = "idle" /\ pc'[c] \in {"snapshot", "ensure"} /\ serving /\ c \notin Recoverers
  BY DEF Request, Goto
<1>2. /\ UNCHANGED <<disk, local, outcome, promise, serving, todo, failed, lockq>>
      /\ \A b \in Actors : b # c => pc'[b] = pc[b]
      /\ \A d \in Calls : d # c => UNCHANGED <<plan[d], expected[d]>>
  BY DEF Request, Goto, TypeInv, PlansOK
<1>3. outcome[c] # "applied"
  BY <1>1 DEF PatchInv, TxnInv, Lawful
<1>4. \A d \in Calls : pc'[d] \in Holding => HoldsAll(d)'
  BY <1>1, <1>2, LocksKept DEF Holding, Working, Committing, UndoPlaces, Cleaning
<1>5. pc'[Lazy] = pc[Lazy] /\ \A s \in Starters : pc'[s] = pc[s]
  BY <1>1, <1>2
<1> QED BY <1>1, <1>2, <1>3, <1>4, <1>5, EarlyStep, ZenonT(60) DEF Early, PatchInv, CallsServed

LEMMA SnapshotKeeps ==
  ASSUME TypeInv, TypeInv', PatchInv, NEW c \in Calls, Snapshot(c) PROVE PatchInv'
<1> USE TypeFacts
<1>1. pc[c] = "snapshot" /\ pc'[c] = "ensure" /\ c \notin Recoverers
  BY DEF Snapshot, Goto
<1>2. /\ UNCHANGED <<disk, local, outcome, promise, serving, todo, failed, lockq, expected>>
      /\ \A b \in Actors : b # c => pc'[b] = pc[b]
      /\ \A d \in Calls : d # c => UNCHANGED plan[d]
  BY DEF Snapshot, Goto
<1>3. outcome[c] # "applied" /\ serving
  BY <1>1 DEF PatchInv, TxnInv, Lawful, CallsServed
<1>4. \A d \in Calls : pc'[d] \in Holding => HoldsAll(d)'
  BY <1>1, <1>2, LocksKept DEF Holding, Working, Committing, UndoPlaces, Cleaning
<1>5. pc'[Lazy] = pc[Lazy] /\ \A s \in Starters : pc'[s] = pc[s]
  BY <1>1, <1>2
<1> QED BY <1>1, <1>2, <1>3, <1>4, <1>5, EarlyStep, ZenonT(60) DEF Early, PatchInv, CallsServed

LEMMA AbortKeeps == ASSUME TypeInv, PatchInv, NEW c \in Calls, Abort(c) PROVE PatchInv'
<1> USE TypeFacts
<1>1. UNCHANGED <<disk, local, pc, plan, expected, outcome, promise, serving, todo, failed, lockq>>
  BY DEF Abort
<1>2. \A y \in Calls : TxnInv(y)' /\ SameTxn(y)
  BY <1>1, OtherTxn DEF SameTxn, PatchInv
<1>3. \A b \in Actors : ActorInv(b)'
  BY <1>1, <1>2, OtherActor DEF SameActor, PatchInv
<1>4. CallsServed' /\ RecoveryFirst'
  BY <1>1 DEF PatchInv, CallsServed, RecoveryFirst
<1>5. Locked'
  BY <1>1, LocksKept DEF Locked
<1>6. Disjoint'
  <2>1. \A y \in Calls : Touched(y)' = Touched(y)
    BY <1>1 DEF Touched
  <2> QED BY <1>1, <2>1 DEF PatchInv, Disjoint
<1> QED BY <1>2, <1>3, <1>4, <1>5, <1>6 DEF PatchInv

(* The awaits of ensureRecovered and of the first look at the plan. *)
LEMMA WaitingKeeps ==
  ASSUME TypeInv, TypeInv', PatchInv, NEW c \in Calls,
         EnsureRecovered(c) \/ AwaitRecovery(c) \/ Preflight(c)
  PROVE  PatchInv'
<1> USE TypeFacts
<1>1. pc[c] \in {"ensure", "await", "preflight"} /\ c \notin Recoverers /\ c # Lazy
  BY DEF EnsureRecovered, AwaitRecovery, Preflight
<1>2. outcome[c] # "applied" /\ serving
  BY <1>1 DEF PatchInv, TxnInv, Lawful, CallsServed
<1>3. UNCHANGED <<disk, local, plan, expected, serving, todo, failed>>
  BY DEF EnsureRecovered, AwaitRecovery, Preflight
<1>4. CASE Finish(c, "rejected") /\ UNCHANGED promise
  <2>1. /\ pc'[c] = "done" /\ outcome'[c] = "rejected" /\ \A b \in Actors : b # c => pc'[b] = pc[b]
        /\ \A d \in Calls : d # c => outcome'[d] = outcome[d]
    BY <1>4 DEF Finish, Goto
  <2>2. \A d \in Calls : pc'[d] \in Holding => HoldsAll(d)'
    BY <1>3, <1>4, LocksKeptByFinish
  <2>3. pc'[Lazy] = pc[Lazy] /\ \A s \in Starters : pc'[s] = pc[s]
    BY <1>1, <2>1
  <2> QED BY <1>1, <1>2, <1>3, <1>4, <2>1, <2>2, <2>3, EarlyStep, ZenonT(60)
    DEF Early, PatchInv, CallsServed
<1>5. ASSUME UNCHANGED <<lockq, outcome>>,
             \/ pc'[c] = "await"
             \/ pc'[c] \in {"preflight", "lock"} /\ promise = "ok",
             \A b \in Actors : b # c /\ b # Lazy => pc'[b] = pc[b],
             \/ pc'[Lazy] = pc[Lazy] /\ promise' = promise
             \/ pc'[Lazy] = "list" /\ promise' = "running" /\ promise = "none"
      PROVE  PatchInv'
  <2>1. \A d \in Calls : pc'[d] \in Holding => HoldsAll(d)'
    BY <1>1, <1>3, <1>5, LocksKept DEF Holding, Working, Committing, UndoPlaces, Cleaning
  <2>2. /\ \A s \in Starters : pc'[s] = pc[s]
        /\ \A d \in Calls : d # c => pc'[d] = pc[d]
    BY <1>1, <1>5, ActorsAssumption
  <2> QED BY <1>1, <1>2, <1>3, <1>5, <2>1, <2>2, EarlyStep, ZenonT(60)
    DEF Early, PatchInv, CallsServed
<1>6. CASE EnsureRecovered(c)
  <2>1. CASE promise' = "running" /\ pc' = [pc EXCEPT ![c] = "await", ![Lazy] = "list"]
             /\ promise = "none" /\ UNCHANGED <<lockq, outcome>>
    <3>1. pc'[c] = "await" /\ pc'[Lazy] = "list"
      BY <1>1, <2>1
    <3>2. \A b \in Actors : b # c /\ b # Lazy => pc'[b] = pc[b]
      BY <2>1
    <3> QED BY <1>5, <2>1, <3>1, <3>2
  <2>2. CASE Goto(c, "await") /\ UNCHANGED <<promise, lockq, outcome>>
    BY <1>1, <1>5, <2>2 DEF Goto
  <2> QED BY <1>4, <1>6, <2>1, <2>2 DEF EnsureRecovered
<1>7. CASE AwaitRecovery(c)
  <2>1. CASE promise = "ok" /\ Goto(c, "preflight") /\ UNCHANGED <<lockq, outcome, promise>>
    BY <1>1, <1>5, <2>1 DEF Goto
  <2> QED BY <1>4, <1>7, <2>1 DEF AwaitRecovery
<1>8. CASE Preflight(c)
  <2>1. promise = "ok"
    BY <1>8 DEF Preflight, PatchInv, CallsServed
  <2>2. CASE Goto(c, "lock") /\ UNCHANGED <<lockq, outcome, promise>>
    BY <1>1, <1>5, <2>1, <2>2 DEF Goto
  <2> QED BY <1>4, <1>8, <2>2 DEF Preflight
<1> QED BY <1>6, <1>7, <1>8

(* acquirePathLocks adds a call at the end of a queue: whoever was first   *)
(* stays first.                                                            *)
LEMMA AcquireLockKeeps ==
  ASSUME TypeInv, TypeInv', PatchInv, NEW c \in Calls, AcquireLock(c) PROVE PatchInv'
<1> USE TypeFacts
<1>1. pc[c] = "lock" /\ pc'[c] \in {"lock", "revalidate"} /\ c \notin Recoverers
  BY DEF AcquireLock, Goto
<1>2. /\ UNCHANGED <<disk, local, plan, expected, outcome, promise, serving, todo, failed>>
      /\ \A b \in Actors : b # c => pc'[b] = pc[b]
  BY DEF AcquireLock, Goto
<1>3. outcome[c] # "applied" /\ serving /\ promise = "ok"
  BY <1>1 DEF PatchInv, TxnInv, Lawful, CallsServed
<1>4. lockq \in [Paths -> Seq(Calls)] /\ \A y \in Calls : Touched(y)' = Touched(y) /\ Touched(y) \subseteq Paths
  <2>1. \A y \in Calls : Touched(y) \subseteq Paths
    BY OpPathsIn DEF Touched
  <2>2. \A y \in Calls : Touched(y)' = Touched(y)
    BY <1>2 DEF Touched
  <2> QED BY <2>1, <2>2 DEF TypeInv, AnswersOK
<1>5. \A p \in Paths : lockq'[p] = lockq[p] \/ lockq'[p] = Append(lockq[p], c)
  <2>1. lockq' = lockq \/ \E next : lockq' = [lockq EXCEPT ![next] = Append(@, c)]
    BY DEF AcquireLock
  <2> QED BY <1>4, <2>1
<1>6. ASSUME NEW d \in Calls, HoldsAll(d) PROVE HoldsAll(d)'
  <2> SUFFICES ASSUME NEW p \in Touched(d) PROVE lockq'[p] # <<>> /\ Head(lockq'[p]) = d
    BY <1>4 DEF HoldsAll
  <2>1. /\ p \in Paths /\ lockq[p] \in Seq(Calls) /\ lockq[p] # <<>> /\ Head(lockq[p]) = d
    BY <1>4, <1>6 DEF HoldsAll
  <2>2. CASE lockq'[p] = Append(lockq[p], c)
    <3>1. ASSUME NEW q \in Seq(Calls), q # <<>> PROVE Append(q, c) # <<>> /\ Head(Append(q, c)) = Head(q)
      <4>1. Len(q) > 0 /\ Len(Append(q, c)) = Len(q) + 1
        BY <3>1
      <4>2. Append(q, c) \in Seq(Calls) /\ Append(q, c)[1] = q[1]
        BY <4>1
      <4>3. Append(q, c) # <<>>
        BY <4>1, <4>2
      <4> QED BY <4>1, <4>2, <4>3
    <3> QED BY <2>1, <2>2, <3>1
  <2> QED BY <1>5, <2>1, <2>2
<1>7. pc'[c] = "revalidate" => HoldsAll(c)
  <2> SUFFICES ASSUME pc'[c] = "revalidate", NEW p \in Touched(c)
               PROVE  lockq[p] # <<>> /\ Head(lockq[p]) = c
    BY DEF HoldsAll
  <2> DEFINE joined == {q \in Touched(c) : \E i \in DOMAIN lockq[q] : lockq[q][i] = c}
  <2>1. Touched(c) \ joined = {} /\ \A q \in joined : Head(lockq[q]) = c
    BY <1>1 DEF AcquireLock
  <2>2. p \in joined
    BY <2>1
  <2>3. \E i \in DOMAIN lockq[p] : lockq[p][i] = c
    BY <2>2
  <2>4. lockq[p] # <<>>
    BY <1>4, <2>3
  <2> QED BY <2>1, <2>2, <2>4
<1>8. \A d \in Calls : pc'[d] \in Holding => HoldsAll(d)'
  <2> SUFFICES ASSUME NEW d \in Calls, pc'[d] \in Holding PROVE HoldsAll(d)'
    OBVIOUS
  <2>1. CASE d = c
    BY <1>1, <1>6, <1>7, <2>1 DEF Holding, Working, Committing, UndoPlaces, Cleaning
  <2>2. CASE d # c
    BY <1>2, <1>6, <2>2 DEF PatchInv, Locked
  <2> QED BY <2>1, <2>2
<1>9. pc'[Lazy] = pc[Lazy] /\ \A s \in Starters : pc'[s] = pc[s]
  BY <1>1, <1>2
<1> QED BY <1>1, <1>2, <1>3, <1>8, <1>9, EarlyStep, ZenonT(60) DEF Early, PatchInv, CallsServed

(* The second look at the plan, under the locks: from here on the sources  *)
(* hold what the call expected, and nobody else may move them.             *)
LEMMA RevalidateKeeps ==
  ASSUME TypeInv, TypeInv', PatchInv, NEW c \in Calls, Revalidate(c) PROVE PatchInv'
<1> USE TypeFacts
<1>1. pc[c] = "revalidate" /\ c \notin Recoverers
  BY DEF Revalidate
<1>2. UNCHANGED <<disk, local, plan, expected, promise, serving, todo, failed>>
  BY DEF Revalidate
<1>3. outcome[c] # "applied" /\ serving /\ promise = "ok"
  BY <1>1 DEF PatchInv, TxnInv, Lawful, CallsServed, Holding
<1>4. CASE Finish(c, "rejected")
  <2>1. /\ pc'[c] = "done" /\ outcome'[c] = "rejected" /\ \A b \in Actors : b # c => pc'[b] = pc[b]
        /\ \A d \in Calls : d # c => outcome'[d] = outcome[d]
    BY <1>4 DEF Finish, Goto
  <2>2. \A d \in Calls : pc'[d] \in Holding => HoldsAll(d)'
    BY <1>2, <1>4, LocksKeptByFinish
  <2>3. pc'[Lazy] = pc[Lazy] /\ \A s \in Starters : pc'[s] = pc[s]
    BY <1>1, <2>1
  <2> QED BY <1>1, <1>2, <1>3, <2>1, <2>2, <2>3, EarlyStep, ZenonT(60)
    DEF Early, PatchInv, CallsServed
<1>5. CASE Valid(c) /\ Goto(c, "stage") /\ UNCHANGED <<lockq, outcome>>
  <2>1. /\ pc'[c] = "stage" /\ \A b \in Actors : b # c => pc'[b] = pc[b]
        /\ pc'[Lazy] = pc[Lazy] /\ \A s \in Starters : pc'[s] = pc[s]
    BY <1>1, <1>5 DEF Goto
  <2>2. \A i \in Sourced(c) : /\ files[plan[c][i].src] = expected[c][plan[c][i].src]
                              /\ files[plan[c][i].src] # Missing
    <3> SUFFICES ASSUME NEW i \in Sourced(c)
                 PROVE  /\ files[plan[c][i].src] = expected[c][plan[c][i].src]
                        /\ files[plan[c][i].src] # Missing
      OBVIOUS
    <3>1. i \in DOMAIN plan[c] /\ HasSource(plan[c][i]) /\ plan[c][i].src \in Touched(c)
      BY OpPathsIn DEF Sourced
    <3> QED BY <1>5, <3>1 DEF Valid
  <2>3. \A i, j \in DOMAIN plan[c] : i # j => OpPaths(plan[c][i]) \cap OpPaths(plan[c][j]) = {}
    <3> SUFFICES ASSUME NEW i \in DOMAIN plan[c], NEW j \in DOMAIN plan[c], i # j
                 PROVE  OpPaths(plan[c][i]) \cap OpPaths(plan[c][j]) = {}
      OBVIOUS
    <3>1. i \in Nat /\ j \in Nat /\ i >= 1 /\ j >= 1
      OBVIOUS
    <3>2. CASE i < j
      <4>1. i \in 1..(j - 1)
        BY <3>1, <3>2
      <4>2. OpPaths(plan[c][j]) \cap OpPaths(plan[c][i]) = {}
        BY <1>5, <4>1 DEF Valid
      <4> QED BY <4>2
    <3>3. CASE j < i
      <4>1. j \in 1..(i - 1)
        BY <3>1, <3>3
      <4>2. OpPaths(plan[c][i]) \cap OpPaths(plan[c][j]) = {}
        BY <1>5, <4>1 DEF Valid
      <4> QED BY <4>2
    <3> QED BY <3>1, <3>2, <3>3
  <2>4. Backups(c) = {}
    BY <1>1 DEF PatchInv, TxnInv, Lawful, Untouched
  <2>5. Sound(c)' /\ Kept(c)'
    BY <1>2, <2>2, <2>3, <2>4 DEF Sound, Kept, Sourced, Backups
  <2>6. \A d \in Calls : pc'[d] \in Holding => HoldsAll(d)'
    <3>1. \A d \in Calls : pc'[d] \in Holding => HoldsAll(d)
      BY <1>1, <2>1 DEF PatchInv, Locked, Holding
    <3> QED BY <1>2, <1>5, <3>1 DEF HoldsAll, Touched
  <2>7. /\ \A d \in Calls : d # c => UNCHANGED <<pc[d], plan[d], expected[d], outcome[d]>>
        /\ outcome'[c] # "applied"
    BY <1>2, <1>3, <1>5, <2>1
  <2>8. /\ pc[c] \in Early /\ pc'[c] \in Early \cup {"stage", "done"} /\ pc'[c] # "idle"
        /\ pc'[Lazy] \in {"idle", "list", "done"} /\ (pc'[Lazy] = "list" => promise' = "running")
    BY <1>1, <1>2, <2>1 DEF Early, PatchInv, CallsServed
  <2>9. UNCHANGED <<disk, local, serving, todo, failed>> /\ promise' = promise
    BY <1>2
  <2> QED BY <1>3, <2>1, <2>5, <2>6, <2>7, <2>8, <2>9, EarlyStep
<1> QED BY <1>4, <1>5 DEF Revalidate
----------------------------------------------------------------------------
(***************************************************************************)
(* Recoveries between two transactions, crashes, and the rest.             *)
(***************************************************************************)
LEMMA RecovererStep ==
  ASSUME TypeInv, PatchInv, NEW r \in Recoverers,
         UNCHANGED <<disk, plan, expected, outcome, lockq>>,
         \A b \in Actors : b # r => SameActor(b),
         pc'[r] \in {"list", "entries", "done", "rollback"},
         ActorInv(r)', CallsServed', RecoveryFirst'
  PROVE  PatchInv'
<1> USE TypeFacts
<1>1. \A y \in Calls : y # r
  OBVIOUS
<1>2. \A y \in Calls : SameTxn(y)
  BY <1>1 DEF SameTxn, SameActor
<1>3. \A y \in Calls : TxnInv(y)'
  BY <1>2, OtherTxn DEF PatchInv
<1>4. \A b \in Actors : ActorInv(b)'
  <2> SUFFICES ASSUME NEW b \in Actors PROVE ActorInv(b)'
    OBVIOUS
  <2>1. CASE b # r
    BY <1>2, <2>1, OtherActor DEF PatchInv
  <2> QED BY <2>1
<1>5. Locked'
  BY <1>2, LocksKept DEF Locked, SameTxn
<1>6. Disjoint'
  <2>1. \A y \in Calls : Touched(y)' = Touched(y)
    BY DEF Touched
  <2> QED BY <2>1 DEF PatchInv, Disjoint
<1> QED BY <1>3, <1>4, <1>5, <1>6 DEF PatchInv

(* A starter that is not done finds nobody serving, and the calls over.    *)
LEMMA Alone ==
  ASSUME TypeInv, PatchInv, NEW s \in Starters, pc[s] # "done"
  PROVE  /\ ~serving /\ promise = "none" /\ pc[Lazy] # "list" /\ s \in Recoverers /\ s # Lazy
         /\ \A c \in Calls : pc[c] \in {"idle", "done", "crashed"}
         /\ \A c \in dirs : pc[c] = "crashed"
<1> USE TypeFacts
<1>1. ~serving
  BY DEF PatchInv, RecoveryFirst
<1> QED BY <1>1, ActorsAssumption DEF PatchInv, CallsServed

LEMMA StartBridgeKeeps ==
  ASSUME TypeInv, PatchInv, NEW s \in Starters, StartBridge(s) PROVE PatchInv'
<1> USE TypeFacts
<1>1. pc[s] = "idle" /\ pc'[s] = "list" /\ s \in Recoverers
  BY DEF StartBridge, Goto
<1>2. \A b \in Actors : b # s => SameActor(b)
  BY DEF StartBridge, Goto, SameActor
<1>3. ~serving /\ s # Lazy
  BY <1>1, Alone
<1>4. ActorInv(s)'
  BY <1>1 DEF ActorInv, Placed, Charged, Committing, UndoPlaces, Cleaning
<1>5. \A c \in Calls : pc'[c] = pc[c]
  BY <1>1, <1>2 DEF SameActor
<1>6. pc'[Lazy] = pc[Lazy]
  BY <1>2, <1>3 DEF SameActor
<1>7. CallsServed'
  BY <1>5, <1>6 DEF StartBridge, PatchInv, CallsServed
<1>8. RecoveryFirst'
  BY <1>1, <1>2, <1>3 DEF StartBridge, SameActor, PatchInv, RecoveryFirst, UndoPlaces, Cleaning
<1> QED BY <1>1, <1>2, <1>4, <1>7, <1>8, RecovererStep DEF StartBridge

(* The shared recovery finds no transaction: a call that has one on disk   *)
(* has waited for it before.                                               *)
LEMMA NothingForLazy ==
  ASSUME TypeInv, PatchInv, pc[Lazy] = "list"
  PROVE  /\ dirs = {} /\ promise = "running" /\ serving
         /\ \A c \in Calls : pc[c] \notin {"preflight", "lock"} \cup Holding
<1> USE TypeFacts
<1>1. promise = "running" /\ serving
  BY DEF PatchInv, CallsServed
<1>2. \A c \in Calls : pc[c] \notin {"preflight", "lock"} \cup Holding
  BY <1>1 DEF PatchInv, CallsServed
<1>3. \A c \in dirs : pc[c] \in Working
  BY <1>1 DEF PatchInv, CallsServed, TxnInv, Lawful
<1> QED BY <1>1, <1>2, <1>3 DEF Holding

LEMMA LazyKeeps ==
  ASSUME TypeInv, PatchInv, ListTransactions(Lazy) \/ ListFails(Lazy) PROVE PatchInv'
<1> USE TypeFacts
<1>1. pc[Lazy] = "list"
  BY DEF ListTransactions, ListFails
<1>2. /\ dirs = {} /\ promise = "running" /\ serving
      /\ \A c \in Calls : pc[c] \notin {"preflight", "lock"} \cup Holding
  BY <1>1, NothingForLazy
<1>3. /\ pc'[Lazy] = "done" /\ \A b \in Actors : b # Lazy => SameActor(b)
      /\ serving' /\ UNCHANGED <<disk, plan, expected, outcome, lockq>>
      /\ UNCHANGED <<todo, failed>>
  <2>1. CASE ListTransactions(Lazy)
    BY <1>2, <2>1 DEF ListTransactions, Settle, Goto, SameActor
  <2>2. CASE ListFails(Lazy)
    BY <1>2, <2>2 DEF ListFails, Goto, SameActor
  <2> QED BY <2>1, <2>2
<1>4. ActorInv(Lazy)'
  BY <1>3 DEF ActorInv, Placed, Charged, Committing, UndoPlaces, Cleaning
<1>5. \A c \in Calls : pc'[c] = pc[c]
  BY <1>3 DEF SameActor
<1>6. CallsServed'
  BY <1>2, <1>3, <1>5 DEF PatchInv, CallsServed
<1>7. RecoveryFirst'
  BY <1>2, <1>3, ActorsAssumption DEF SameActor, PatchInv, RecoveryFirst
<1> QED BY <1>3, <1>4, <1>6, <1>7, RecovererStep

(* A starter serves only when no transaction is left on disk.              *)
LEMMA StarterSettles ==
  ASSUME TypeInv, PatchInv, OneStarter, NEW s \in Starters, pc[s] # "done",
         Goto(s, "done"), serving' => dirs = {}, promise' # "none" => serving',
         UNCHANGED <<disk, local, plan, expected, outcome, lockq, todo, failed>>
  PROVE  PatchInv'
<1> USE TypeFacts
<1>1. /\ ~serving /\ promise = "none" /\ pc[Lazy] # "list" /\ s \in Recoverers /\ s # Lazy
      /\ \A c \in Calls : pc[c] \in {"idle", "done", "crashed"}
      /\ \A c \in dirs : pc[c] = "crashed"
  BY Alone
<1>2. pc'[s] = "done" /\ \A b \in Actors : b # s => SameActor(b)
  BY <1>1 DEF Goto, SameActor
<1>3. ActorInv(s)'
  BY <1>2 DEF ActorInv, Placed, Charged, Committing, UndoPlaces, Cleaning
<1>4. (\A c \in Calls : pc'[c] = pc[c]) /\ pc'[Lazy] = pc[Lazy]
  BY <1>1, <1>2 DEF SameActor
<1>6. CallsServed'
  <2>1. pc'[Lazy] \in {"idle", "list", "done"} /\ pc'[Lazy] # "list"
    BY <1>1, <1>4 DEF PatchInv, CallsServed
  <2>2. ASSUME NEW c \in Calls
        PROVE /\ pc'[c] \notin {"idle", "done", "crashed"} => serving'
              /\ pc'[c] \in {"preflight", "lock"} \cup Holding => promise' = "ok"
              /\ c \in dirs' => (serving' <=> pc'[c] # "crashed")
    BY <1>1, <1>4 DEF Holding, Working, Committing, UndoPlaces, Cleaning
  <2> QED BY <2>1, <2>2 DEF CallsServed
<1>7. RecoveryFirst'
  BY <1>2 DEF OneStarter, RecoveryFirst, UndoPlaces, Cleaning
<1> QED BY <1>1, <1>2, <1>3, <1>6, <1>7, RecovererStep

LEMMA StarterListKeeps ==
  ASSUME TypeInv, PatchInv, OneStarter, NEW s \in Starters,
         ListTransactions(s) \/ ListFails(s)
  PROVE  PatchInv'
<1> USE TypeFacts
<1>1. pc[s] = "list"
  BY DEF ListTransactions, ListFails
<1>2. /\ ~serving /\ promise = "none" /\ pc[Lazy] # "list" /\ s \in Recoverers /\ s # Lazy
      /\ \A c \in Calls : pc[c] \in {"idle", "done", "crashed"}
      /\ \A c \in dirs : pc[c] = "crashed"
  BY <1>1, Alone
<1>3. ASSUME pc'[s] \in {"entries", "done"}, \A b \in Actors : b # s => SameActor(b),
             UNCHANGED <<disk, plan, expected, outcome, lockq, promise, serving>>,
             pc'[s] = "entries" => dirs \subseteq todo'[s] \cup failed'[s]
      PROVE  PatchInv'
  <2>1. ActorInv(s)'
    BY <1>3 DEF ActorInv, Placed, Charged, Committing, UndoPlaces, Cleaning
  <2>2. (\A c \in Calls : pc'[c] = pc[c]) /\ pc'[Lazy] = pc[Lazy]
    BY <1>2, <1>3 DEF SameActor
  <2>3. CallsServed'
    BY <1>2, <1>3, <2>2 DEF PatchInv, CallsServed
  <2>4. RecoveryFirst'
    BY <1>2, <1>3 DEF OneStarter, RecoveryFirst, UndoPlaces, Cleaning
  <2> QED BY <1>2, <1>3, <2>1, <2>3, <2>4, RecovererStep
<1>4. CASE ListFails(s)
  BY <1>2, <1>3, <1>4 DEF ListFails, Goto, SameActor
<1>5. CASE ListTransactions(s)
  <2>1. CASE dirs = {} /\ Settle(s, TRUE, FALSE) /\ UNCHANGED <<todo, failed>>
    <3>1. Goto(s, "done") /\ UNCHANGED promise /\ dirs = {}
      BY <1>2, <2>1 DEF Settle
    <3> QED BY <1>1, <1>2, <1>5, <2>1, <3>1, StarterSettles DEF ListTransactions
  <2>2. CASE Goto(s, "entries") /\ todo' = [todo EXCEPT ![s] = dirs] /\ UNCHANGED root
    <3>1. todo'[s] = dirs
      BY <1>2, <2>2 DEF TypeInv, RootOK
    <3> QED BY <1>2, <1>3, <1>5, <2>2, <3>1 DEF ListTransactions, Goto, SameActor
  <2> QED BY <1>5, <2>1, <2>2 DEF ListTransactions
<1> QED BY <1>4, <1>5

LEMMA RecoveryDoneKeeps ==
  ASSUME TypeInv, PatchInv, OneStarter, NEW r \in Recoverers, RecoveryDone(r) PROVE PatchInv'
<1> USE TypeFacts
<1>1. pc[r] = "entries" /\ r \in Starters
  BY DEF RecoveryDone, PatchInv, CallsServed
<1>2. failed[r] = {} => dirs = {}
  BY <1>1 DEF RecoveryDone, PatchInv, RecoveryFirst
<1>3. r # Lazy /\ ~serving /\ promise = "none" /\ pc[r] # "done"
  BY <1>1, Alone
<1>4. /\ Goto(r, "done")
      /\ serving' => failed[r] = {}
      /\ promise' # "none" => failed[r] = {} /\ serving'
  BY <1>1, <1>3 DEF RecoveryDone, Settle
<1>5. UNCHANGED <<disk, local, plan, expected, outcome, lockq, todo, failed>>
  BY DEF RecoveryDone
<1> QED BY <1>1, <1>2, <1>3, <1>4, <1>5, StarterSettles

(* The journal on disk is all a recovery knows: it names every backup.     *)
LEMMA RecoverEntryKeeps ==
  ASSUME TypeInv, TypeInv', PatchInv, OneStarter, NEW r \in Recoverers, NEW x \in Calls,
         RecoverEntry(r, x)
  PROVE  PatchInv'
<1> USE TypeFacts
<1>1. pc[r] = "entries" /\ r \in Starters
  BY DEF RecoverEntry, PatchInv, CallsServed
<1>2. /\ ~serving /\ promise = "none" /\ r \in Recoverers /\ r # Lazy /\ r \notin Calls
      /\ \A c \in dirs : pc[c] = "crashed"
  BY <1>1, Alone
<1>3. dirs \subseteq todo[r] \cup failed[r]
  BY <1>1 DEF PatchInv, RecoveryFirst
<1>4. UNCHANGED <<disk, plan, expected, outcome, lockq, promise, serving>>
  BY DEF RecoverEntry
<1>5. ASSUME pc'[r] \in {"entries", "rollback"}, \A b \in Actors : b # r => SameActor(b),
             ActorInv(r)', dirs \subseteq todo'[r] \cup failed'[r]
      PROVE  PatchInv'
  <2>1. (\A c \in Calls : pc'[c] = pc[c]) /\ pc'[Lazy] = pc[Lazy]
    BY <1>2, <1>5 DEF SameActor
  <2>2. CallsServed'
    BY <1>2, <1>4, <2>1 DEF PatchInv, CallsServed
  <2>3. RecoveryFirst'
    BY <1>1, <1>2, <1>4, <1>5 DEF OneStarter, RecoveryFirst
  <2> QED BY <1>1, <1>4, <1>5, <2>2, <2>3, RecovererStep
<1>6. CASE journal[x] # NoJournal /\ txn' = [txn EXCEPT ![r] = x]
           /\ mem' = [mem EXCEPT ![r] = journal[x]] /\ Goto(r, "rollback") /\ UNCHANGED <<todo, failed>>
  <2>1. TxnInv(x) /\ Lawful(x) /\ x \in dirs /\ journal[x].phase # "none"
    BY <1>6 DEF PatchInv, TxnInv, Lawful
  <2>2. pc[x] = "crashed" /\ Pending(x)
    BY <1>2, <1>6, <2>1 DEF Lawful, Pending
  <2>3. LoggedCommits(x) /\ LoggedBackups(x)
    BY <2>1, <2>2 DEF TxnInv
  <2>4. txn'[r] = x /\ mem'[r] = journal[x] /\ pc'[r] = "rollback" /\ r # x
    BY <1>2, <1>6 DEF Goto
  <2>5. Remembers(r)'
    BY <1>2, <1>4, <2>1, <2>3, <2>4 DEF Remembers, LoggedCommits, LoggedBackups, Backups, Sourced
  <2>6. Placed(r)' /\ Charged(r)'
    BY <1>2, <1>4, <1>6, <2>1, <2>2, <2>4 DEF Placed, Charged, Pending, Goto
  <2>7. ActorInv(r)'
    BY <2>5, <2>6 DEF ActorInv
  <2>8. \A b \in Actors : b # r => SameActor(b)
    BY <1>6 DEF RecoverEntry, SameActor, Goto
  <2> QED BY <1>3, <1>5, <1>6, <2>4, <2>7, <2>8
<1>7. CASE todo' = [todo EXCEPT ![r] = @ \ {x}] /\ failed' = [failed EXCEPT ![r] = @ \cup {x}]
           /\ UNCHANGED <<txn, mem, pc>>
  <2>1. dirs \subseteq todo'[r] \cup failed'[r]
    BY <1>3, <1>7 DEF TypeInv, RootOK
  <2>2. \A b \in Actors : b # r => SameActor(b)
    BY <1>7 DEF RecoverEntry, SameActor
  <2>3. ActorInv(r)'
    BY <1>1, <1>2, <1>7 DEF ActorInv, Placed, Charged, Committing, UndoPlaces, Cleaning
  <2> QED BY <1>1, <1>5, <1>7, <2>1, <2>2, <2>3
<1> QED BY <1>6, <1>7 DEF RecoverEntry

(* Outside the torn windows the journal on disk covers what memory knew.   *)
LEMMA CrashKeeps ==
  ASSUME TypeInv, PatchInv, ~TornWindows, Crash PROVE PatchInv'
<1> USE TypeFacts
<1>1. /\ UNCHANGED <<disk, plan, expected, outcome>> /\ \A c \in Calls : ~Torn(c)
      /\ \A r \in Recoverers : pc'[r] = "idle"
      /\ \A c \in Calls : pc'[c] = IF Running(c) THEN "crashed" ELSE pc[c]
      /\ promise' = "none" /\ serving' = FALSE
  BY DEF Crash
<1>2. \A c \in Calls : pc'[c] \in {"idle", "done", "crashed"}
  BY <1>1 DEF Running
<1>3. ASSUME NEW x \in Calls PROVE TxnInv(x)'
  <2>1. TxnInv(x) /\ Lawful(x) /\ ActorInv(x) /\ ~Torn(x)
    BY <1>1 DEF PatchInv, TxnInv
  <2>2. Backups(x)' = Backups(x) /\ Sourced(x)' = Sourced(x) /\ Pending(x)' = Pending(x)
    BY <1>1 DEF Backups, Sourced, Pending
  <2>3. Lawful(x)'
    <3>1. (journal[x] # NoJournal => x \in dirs /\ journal[x].phase # "none")'
      BY <1>1, <2>1 DEF Lawful
    <3>2. x \in dirs => pc'[x] = "crashed"
      BY <1>1, <2>1 DEF Lawful, Running, Working, Committing, UndoPlaces, Cleaning
    <3>3. pc'[x] = "idle" => Backups(x) = {} /\ NoBackups(x) /\ journal[x] = NoJournal
      BY <1>1, <2>1 DEF Lawful, Running, Untouched
    <3>4. outcome[x] = "applied" => \/ pc'[x] = "done"
                                    \/ pc'[x] = "crashed" /\ journal[x] = NoJournal
      BY <1>1, <2>1 DEF Lawful, Running, Torn
    <3>5. pc'[x] \notin Committing \cup UndoPlaces /\ (pc'[x] \in Untouched => pc'[x] = "idle")
      BY <1>2 DEF Committing, UndoPlaces, Untouched
    <3>6. NoBackups(x)' = NoBackups(x)
      BY <1>1 DEF NoBackups
    <3> QED BY <1>1, <2>2, <3>1, <3>2, <3>3, <3>4, <3>5, <3>6 DEF Lawful
  <2>4. pc'[x] \notin {"stage", "prepare"}
    BY <1>2
  <2>5. x \in dirs' => Sound(x)'
    BY <1>1, <2>1 DEF TxnInv, Sound, Sourced
  <2>6. Pending(x)' => Kept(x)' /\ LoggedCommits(x)'
    BY <1>1, <2>1, <2>2 DEF TxnInv, Kept, LoggedCommits
  <2>7. Pending(x)' /\ pc'[x] = "crashed" => LoggedBackups(x)'
    <3> SUFFICES ASSUME Pending(x) PROVE Backups(x) \subseteq journal[x].backedUp
      BY <1>1, <2>2 DEF LoggedBackups
    <3>1. x \in dirs /\ journal[x] # NoJournal /\ pc[x] \in Working \cup {"crashed"}
      BY <2>1 DEF Pending, Lawful
    <3>2. mem[x].backedUp \subseteq journal[x].backedUp
      BY <2>1, <3>1 DEF Torn
    <3>3. CASE pc[x] \in Committing \cup UndoPlaces \cup {"cleanCommit"}
      BY <2>1, <3>2, <3>3 DEF ActorInv, Remembers
    <3>4. CASE pc[x] \in {"prepare", "cleanDiscard"}
      BY <2>1, <3>4 DEF Lawful, Untouched
    <3>5. CASE pc[x] = "cleanRollback"
      BY <2>1, <3>5 DEF ActorInv, Placed
    <3>6. CASE pc[x] = "crashed"
      BY <2>1, <3>6 DEF TxnInv, LoggedBackups
    <3> QED BY <3>1, <3>3, <3>4, <3>5, <3>6 DEF Working, Cleaning
  <2> QED BY <2>3, <2>4, <2>5, <2>6, <2>7 DEF TxnInv
<1>4. ASSUME NEW b \in Actors PROVE ActorInv(b)'
  <2>1. pc'[b] \in {"idle", "done", "crashed"}
    BY <1>1, <1>2
  <2> QED BY <2>1 DEF ActorInv, Placed, Charged, Committing, UndoPlaces, Cleaning
<1>5. CallsServed'
  <2>1. \A c \in Calls : c \in dirs' => pc'[c] = "crashed"
    BY <1>1, <1>2 DEF PatchInv, TxnInv, Lawful, Running, Working, Committing, UndoPlaces, Cleaning
  <2>2. \A c \in Calls : pc'[c] \notin {"preflight", "lock"} \cup Holding
    BY <1>2 DEF Holding, Working, Committing, UndoPlaces, Cleaning
  <2> QED BY <1>1, <1>2, <2>1, <2>2 DEF CallsServed
<1>6. RecoveryFirst'
  BY <1>1 DEF RecoveryFirst, UndoPlaces, Cleaning
<1>7. Locked'
  BY <1>2 DEF Locked, Holding, Working, Committing, UndoPlaces, Cleaning
<1>8. Disjoint'
  <2>1. \A y \in Calls : Touched(y)' = Touched(y)
    BY <1>1 DEF Touched
  <2> QED BY <1>1, <2>1 DEF PatchInv, Disjoint
<1> QED BY <1>3, <1>4, <1>5, <1>6, <1>7, <1>8 DEF PatchInv

LEMMA PatchInit == TypeInv /\ Init => PatchInv
<1> SUFFICES ASSUME TypeInv, Init PROVE PatchInv
  OBVIOUS
<1> USE TypeFacts
<1>1. /\ \A a \in Actors : pc[a] = "idle"
      /\ dirs = {} /\ promise = "none" /\ ~serving
      /\ \A x \in Calls : /\ journal[x] = NoJournal /\ outcome[x] = "none" /\ plan[x] = <<>>
                          /\ NoBackups(x)
  BY DEF Init, NoBackups
<1>2. ASSUME NEW x \in Calls PROVE TxnInv(x)
  <2>1. Backups(x) = {}
    BY <1>1 DEF Backups
  <2> QED BY <1>1, <2>1 DEF TxnInv, Lawful, Pending, Committing, UndoPlaces
<1>3. \A a \in Actors : ActorInv(a)
  BY <1>1 DEF ActorInv, Placed, Charged, Committing, UndoPlaces, Cleaning
<1>4. CallsServed /\ RecoveryFirst /\ Locked /\ Disjoint
  BY <1>1 DEF CallsServed, RecoveryFirst, Locked, Disjoint, Holding, Working, Committing,
     UndoPlaces, Cleaning
<1> QED BY <1>2, <1>3, <1>4 DEF PatchInv

LEMMA PatchStutter == TypeInv /\ PatchInv /\ UNCHANGED vars => PatchInv'
<1> SUFFICES ASSUME TypeInv, PatchInv, UNCHANGED vars PROVE PatchInv'
  OBVIOUS
<1> USE TypeFacts
<1>1. \A y \in Calls : TxnInv(y)' /\ SameTxn(y)
  BY OtherTxn DEF SameTxn, PatchInv
<1>2. \A b \in Actors : ActorInv(b)'
  BY <1>1, OtherActor DEF SameActor, PatchInv
<1>3. CallsServed' /\ RecoveryFirst'
  BY DEF PatchInv, CallsServed, RecoveryFirst
<1>4. Locked'
  BY LocksKept DEF Locked
<1>5. Disjoint'
  <2>1. \A y \in Calls : Touched(y)' = Touched(y)
    BY DEF Touched
  <2> QED BY <2>1 DEF PatchInv, Disjoint
<1> QED BY <1>1, <1>2, <1>3, <1>4, <1>5 DEF PatchInv

----------------------------------------------------------------------------
(***************************************************************************)
(* The invariant, and what follows from it.                                *)
(***************************************************************************)
LEMMA NextKeeps ==
  ASSUME ~TornWindows, OneStarter, TypeInv, TypeInv', PatchInv, RollbacksWork, Next
  PROVE  PatchInv'
<1> USE TypeFacts
<1>1. CASE \E c \in Calls : CallStep(c)
  BY <1>1, SnapshotKeeps, WaitingKeeps, AcquireLockKeeps, RevalidateKeeps, StageKeeps,
     PrepareKeeps, BeginCommitKeeps, AbortCommitKeeps, BackupSourceKeeps, LogBackupKeeps,
     PlaceKeeps, LogPlaceKeeps DEF CallStep
<1>2. CASE \E a \in Actors : UndoStep(a)
  BY <1>2, StartRollbackKeeps, RemoveTargetKeeps, LogRemoveKeeps, RestoreSourceKeeps,
     LogRestoreKeeps, NothingToRestoreKeeps, RollbackDoneKeeps, GiveUpKeeps DEF UndoStep
<1>3. CASE \E a \in Actors : CleanStep(a)
  BY <1>3, RemoveJournalKeeps, RemoveBackupsKeeps, RemoveDirectoryKeeps, CleanupFailsKeeps
  DEF CleanStep
<1>4. CASE \E r \in Recoverers : RecoverStep(r)
  <2> PICK r \in Recoverers : RecoverStep(r)
    BY <1>4
  <2>1. CASE ListTransactions(r) \/ ListFails(r)
    BY <2>1, LazyKeeps, StarterListKeeps
  <2>2. CASE RecoveryDone(r) \/ \E x \in Calls : RecoverEntry(r, x)
    BY <2>2, RecoveryDoneKeeps, RecoverEntryKeeps
  <2> QED BY <2>1, <2>2 DEF RecoverStep
<1>5. CASE \E c \in Calls : Request(c) \/ Abort(c)
  BY <1>5, RequestKeeps, AbortKeeps
<1>6. CASE \E s \in Starters : StartBridge(s)
  BY <1>6, StartBridgeKeeps
<1>7. CASE Crash
  BY <1>7, CrashKeeps
<1> QED BY <1>1, <1>2, <1>3, <1>4, <1>5, <1>6, <1>7 DEF Next, Step

LEMMA PatchInvariant ==
  ASSUME ~TornWindows, OneStarter
  PROVE  Spec /\ [][RollbacksWork]_vars => []TypeInv /\ []PatchInv
<1>1. TypeInv /\ PatchInv /\ [Next]_vars /\ [RollbacksWork]_vars /\ TypeInv' => PatchInv'
  <2>1. CASE UNCHANGED vars
    BY <2>1, PatchStutter
  <2>2. CASE Next /\ RollbacksWork
    BY <2>2, NextKeeps
  <2> QED BY <2>1, <2>2
<1>2. Spec => []TypeInv
  BY TypeInit, TypeStep, PTL DEF Spec
<1> QED BY <1>1, <1>2, TypeInit, PatchInit, PTL DEF Spec

LEMMA KeptPreimages == TypeInv /\ PatchInv => PreimageKept
<1> SUFFICES ASSUME TypeInv, PatchInv,
                    NEW c \in dirs, journal[c] # NoJournal, outcome[c] # "applied",
                    NEW i \in DOMAIN plan[c], HasSource(plan[c][i])
             PROVE  expected[c][plan[c][i].src] \in {files[plan[c][i].src], backup[c][i]}
  BY DEF PreimageKept
<1>1. c \in Calls
  BY TypeFacts
<1>2. Kept(c) /\ i \in Sourced(c)
  BY <1>1 DEF PatchInv, TxnInv, Pending, Sourced
<1> QED BY <1>2 DEF Kept

(* Of every file a patch has taken away and not yet decided about, the     *)
(* bytes are still there, at the file or in the backup directory: with one *)
(* bridge on the root, crashes outside the torn windows, and rollbacks     *)
(* whose file operations succeed.                                          *)
THEOREM PreimageSafe ==
  ASSUME ~TornWindows, OneStarter
  PROVE  Spec /\ [][RollbacksWork]_vars => []PreimageKept
<1>1. Spec /\ [][RollbacksWork]_vars => []TypeInv /\ []PatchInv
  BY PatchInvariant
<1> QED BY <1>1, KeptPreimages, PTL

----------------------------------------------------------------------------
(***************************************************************************)
(* Calls take effect at one instant or not at all (AtomicPatch).           *)
(*                                                                         *)
(* What a rollback does not restore it must find as it was: nothing lies   *)
(* where an operation that adds or moves has not placed its content, or no *)
(* longer; and what the commit loop has passed is performed.               *)
(***************************************************************************)
Creations(x) == {i \in DOMAIN plan[x] : plan[x][i].kind \in {"add", "move"}}
Free(x, i) == files[plan[x][i].tgt] = Missing
Performed(x, i) ==
  /\ plan[x][i].kind # "delete" => files[plan[x][i].tgt] = plan[x][i].content
  /\ plan[x][i].kind \in {"delete", "move"} => files[plan[x][i].src] = Missing

AllFree(x)    == \A i \in Creations(x) : Free(x, i)
StagedFree(x) == \A i \in Creations(x) : i \in staged[x] => Free(x, i)
LoggedFree(x) == \A i \in Creations(x) : i \notin journal[x].committed => Free(x, i)
AllPerformed(x) == \A i \in DOMAIN plan[x] : Performed(x, i)

Shaped(x) == \A i \in Creations(x) : /\ expected[x][plan[x][i].tgt] = Missing
                                     /\ plan[x][i].src # plan[x][i].tgt
Resolved(x) == \A i \in DOMAIN plan[x] : plan[x][i].kind # "replace"

TxnLogic(x) ==
  /\ x \in dirs \/ pc[x] \in {"stage", "prepare"} => Shaped(x)
  /\ pc[x] \in {"stage", "prepare"} => AllFree(x)
  /\ Pending(x) => StagedFree(x)
  /\ Pending(x) /\ pc[x] = "crashed" => LoggedFree(x)
  /\ pc[x] = "cleanCommit" => outcome[x] = "applied" \/ (Pending(x) /\ AllPerformed(x))
  /\ pc[x] = "snapshot" => Len(plan[x]) = 1
  /\ x \in dirs \/ pc[x] \notin {"idle", "snapshot", "crashed"} => Resolved(x)

Cleared(a) == \A i \in Creations(txn[a]) : i \notin mem[a].committed => Free(txn[a], i)

Progress(a) ==
  /\ pc[a] \in {"op", "logBackup", "place", "logPlace"} =>
       \A j \in DOMAIN plan[txn[a]] : j < idx[a] => Performed(txn[a], j)
  /\ pc[a] \in {"logBackup", "place"} =>
       HasSource(plan[txn[a]][idx[a]]) /\ files[plan[txn[a]][idx[a]].src] = Missing
  /\ pc[a] = "place" => plan[txn[a]][idx[a]].kind # "delete"
  /\ pc[a] = "logPlace" => Performed(txn[a], idx[a])
  /\ pc[a] = "undo" => \A j \in Creations(txn[a]) : j > idx[a] => Free(txn[a], j)
  /\ pc[a] \in {"logRemove", "restore", "logRestore"} =>
       \A j \in Creations(txn[a]) : j >= idx[a] => Free(txn[a], j)
  /\ pc[a] = "cleanRollback" /\ Pending(txn[a]) => AllFree(txn[a])

ActorLogic(a) ==
  /\ pc[a] \in Committing \cup UndoPlaces \cup {"cleanCommit"} /\ Pending(txn[a]) => Cleared(a)
  /\ Progress(a)

LogicInv == (\A x \in Calls : TxnLogic(x)) /\ (\A a \in Actors : ActorLogic(a))

Sane == TypeInv /\ PatchInv /\ LogicInv

(* A step that no caller sees, unless it refuses calls: what a rollback    *)
(* would leave of the workspace stays.                                     *)
Ended(c) == pc[c] \in {"done", "crashed"}
Unseen ==
  /\ UNCHANGED <<plan, expected>>
  /\ \A y \in Calls : /\ Pending(y)' <=> Pending(y)
                      /\ outcome'[y] = "applied" <=> outcome[y] = "applied"
                      /\ Ended(y) => Ended(y)'
  /\ \A p \in Paths : (\A y \in Calls : Pending(y) => p \notin Touched(y)) => files'[p] = files[p]

----------------------------------------------------------------------------
(***************************************************************************)
(* The operations of a plan.                                               *)
(***************************************************************************)
LEMMA OpShape ==
  ASSUME TypeInv, NEW x \in Calls, NEW i \in DOMAIN plan[x]
  PROVE  /\ plan[x][i].kind \in {"add", "replace", "update", "delete", "move"}
         /\ plan[x][i].kind \in {"add", "replace"} => ~HasSource(plan[x][i])
         /\ plan[x][i].kind \in {"update", "delete", "move"} => HasSource(plan[x][i])
         /\ plan[x][i].kind \in {"update", "delete"} => plan[x][i].src = plan[x][i].tgt
<1>1. plan[x][i] \in Operations
  BY OpTyped
<1> QED BY <1>1, PathsAssumption DEF Operations, HasSource

LEMMA OpsApart ==
  ASSUME TypeInv, NEW x \in Calls, Sound(x), NEW i \in DOMAIN plan[x], NEW j \in DOMAIN plan[x],
         i # j
  PROVE  /\ plan[x][j].tgt # plan[x][i].tgt /\ plan[x][j].tgt # plan[x][i].src
         /\ plan[x][j].src # plan[x][i].tgt
         /\ i \in Sourced(x) => plan[x][j].src # plan[x][i].src
<1>1. /\ plan[x][i].tgt \in Paths /\ plan[x][j].tgt \in Paths
      /\ OpPaths(plan[x][i]) \cap OpPaths(plan[x][j]) = {}
  BY OpTyped DEF Sound
<1> QED BY <1>1, PathsAssumption DEF OpPaths, Sourced, HasSource

(* What is said of the files of a transaction holds as long as they do. *)
LEMMA SameFiles ==
  ASSUME TypeInv, NEW y \in Calls, plan'[y] = plan[y], \A p \in Touched(y) : files'[p] = files[p]
  PROVE  /\ Creations(y)' = Creations(y)
         /\ \A i \in DOMAIN plan[y] : /\ Free(y, i)' <=> Free(y, i)
                                      /\ Performed(y, i)' <=> Performed(y, i)
         /\ AllFree(y)' <=> AllFree(y)
         /\ AllPerformed(y)' <=> AllPerformed(y)
<1>1. Creations(y)' = Creations(y) /\ Creations(y) \subseteq DOMAIN plan[y]
  BY DEF Creations
<1>2. ASSUME NEW i \in DOMAIN plan[y]
      PROVE (Free(y, i)' <=> Free(y, i)) /\ (Performed(y, i)' <=> Performed(y, i))
  <2>1. plan[y][i].tgt \in Touched(y)
    BY OpPathsIn
  <2>2. plan[y][i].kind \in {"delete", "move"} => plan[y][i].src \in Touched(y)
    BY OpPathsIn, OpShape DEF Sourced
  <2> QED BY <2>1, <2>2 DEF Free, Performed
<1> QED BY <1>1, <1>2 DEF AllFree, AllPerformed

----------------------------------------------------------------------------
(***************************************************************************)
(* What a step leaves alone.                                               *)
(***************************************************************************)
LEMMA OtherTxnLogic ==
  ASSUME TypeInv, NEW y \in Calls, TxnLogic(y), SameTxn(y), staged'[y] = staged[y],
         (y \in dirs \/ pc[y] \in {"stage", "prepare"}) =>
           \A p \in Touched(y) : files'[p] = files[p]
  PROVE  TxnLogic(y)'
<1>1. (Pending(y)' <=> Pending(y)) /\ (Pending(y) => y \in dirs)
  BY DEF SameTxn, Pending
<1>2. Creations(y)' = Creations(y) /\ Shaped(y)' = Shaped(y) /\ Resolved(y)' = Resolved(y)
  BY DEF SameTxn, Creations, Shaped, Resolved
<1>3. y \in dirs \/ pc[y] \in {"stage", "prepare"} =>
        /\ \A i \in Creations(y) : Free(y, i)' <=> Free(y, i)
        /\ AllFree(y)' <=> AllFree(y)
        /\ AllPerformed(y)' <=> AllPerformed(y)
  <2>1. Creations(y) \subseteq DOMAIN plan[y] /\ plan'[y] = plan[y]
    BY DEF SameTxn, Creations
  <2> QED BY <2>1, SameFiles
<1>4. pc[y] \in {"stage", "prepare"} => AllFree(y)'
  BY <1>3 DEF TxnLogic
<1>5. Pending(y) => StagedFree(y)'
  BY <1>1, <1>2, <1>3 DEF TxnLogic, StagedFree
<1>6. Pending(y) /\ pc[y] = "crashed" => LoggedFree(y)'
  BY <1>1, <1>2, <1>3 DEF TxnLogic, LoggedFree, SameTxn
<1>7. pc[y] = "cleanCommit" => outcome[y] = "applied" \/ (Pending(y) /\ AllPerformed(y)')
  <2>1. pc[y] = "cleanCommit" => outcome[y] = "applied" \/ (Pending(y) /\ AllPerformed(y))
    BY DEF TxnLogic
  <2>2. Pending(y) /\ AllPerformed(y) => AllPerformed(y)'
    BY <1>1, <1>3
  <2> QED BY <2>1, <2>2
<1> QED BY <1>1, <1>2, <1>4, <1>5, <1>6, <1>7 DEF TxnLogic, SameTxn

LEMMA OtherActorLogic ==
  ASSUME TypeInv, NEW b \in Actors, ActorLogic(b), SameActor(b),
         pc[b] \in Committing \cup UndoPlaces => txn[b] \in dirs,
         pc[b] \in Committing \cup UndoPlaces \cup Cleaning => SameTxn(txn[b]),
         pc[b] \in Committing \cup UndoPlaces \cup Cleaning /\ txn[b] \in dirs =>
           \A p \in Touched(txn[b]) : files'[p] = files[p]
  PROVE  ActorLogic(b)'
<1> USE TypeFacts
<1>0. PICK y : y = txn[b]
  OBVIOUS
<1>1. y \in Calls /\ y = txn[b] /\ txn'[b] = y /\ pc'[b] = pc[b] /\ mem'[b] = mem[b] /\ idx'[b] = idx[b]
  BY <1>0 DEF SameActor
<1>2. CASE pc[b] \notin Committing \cup UndoPlaces \cup Cleaning
  BY <1>1, <1>2 DEF ActorLogic, Progress, Committing, UndoPlaces, Cleaning
<1>3. CASE pc[b] \in Committing \cup UndoPlaces \cup Cleaning /\ y \notin dirs
  <2>1. pc[b] \in Cleaning /\ ~Pending(y) /\ ~Pending(y)'
    BY <1>1, <1>3 DEF SameTxn, Pending
  <2> QED BY <1>1, <2>1 DEF ActorLogic, Progress, Committing, UndoPlaces, Cleaning
<1>4. CASE pc[b] \in Committing \cup UndoPlaces \cup Cleaning /\ y \in dirs
  <2>1. /\ SameTxn(y) /\ plan'[y] = plan[y] /\ (Pending(y)' <=> Pending(y))
    BY <1>1, <1>4 DEF SameTxn, Pending
  <2>2. /\ Creations(y)' = Creations(y) /\ Creations(y) \subseteq DOMAIN plan[y]
        /\ \A i \in DOMAIN plan[y] : /\ Free(y, i)' <=> Free(y, i)
                                     /\ Performed(y, i)' <=> Performed(y, i)
        /\ AllFree(y)' <=> AllFree(y)
    BY <1>1, <1>4, <2>1, SameFiles DEF Creations
  <2>3. Cleared(b)' <=> Cleared(b)
    BY <1>1, <2>2 DEF Cleared
  <2>4. Progress(b)'
    <3>1. pc[b] \in {"op", "logBackup", "place", "logPlace"} => idx[b] \in DOMAIN plan[y]
      BY <1>0 DEF TypeInv, Indexed
    <3>2. pc[b] \in {"logBackup", "place"} => files'[plan[y][idx[b]].src] = Missing
      <4>1. pc[b] \in {"logBackup", "place"} => plan[y][idx[b]].src \in Touched(y)
        BY <1>1, <3>1, OpPathsIn DEF ActorLogic, Progress, Sourced
      <4> QED BY <1>1, <1>4, <4>1 DEF ActorLogic, Progress
    <3> QED BY <1>1, <2>1, <2>2, <3>1, <3>2 DEF ActorLogic, Progress
  <2> QED BY <1>1, <2>1, <2>3, <2>4 DEF ActorLogic
<1> QED BY <1>2, <1>3, <1>4

LEMMA WorkerLogic ==
  ASSUME TypeInv, PatchInv, LogicInv, OneStarter,
         NEW a \in Actors, NEW x \in Calls, x = txn[a],
         pc[a] \in {"stage"} \cup Working, a \in Calls \/ a \in Starters,
         Footprint(a), \A y \in Calls : y # x => staged'[y] = staged[y],
         TxnLogic(x)', ActorLogic(a)'
  PROVE  LogicInv'
<1> USE TypeFacts
<1>1. \A y \in Calls : y # x =>
        /\ SameTxn(y)
        /\ y \in dirs \/ pc[y] \in {"stage", "prepare"} =>
             \A p \in Touched(y) : files'[p] = files[p]
  BY Bystanders
<1>2. \A b \in Actors : b # a =>
        SameActor(b) /\ (pc[b] \in Committing \cup UndoPlaces \cup Cleaning => txn[b] # x)
  BY Bystanders
<1>3. ASSUME NEW y \in Calls PROVE TxnLogic(y)'
  <2>1. CASE y # x
    BY <1>1, <2>1, OtherTxnLogic DEF LogicInv
  <2> QED BY <2>1
<1>4. ASSUME NEW b \in Actors PROVE ActorLogic(b)'
  <2>1. CASE b # a
    <3>1. pc[b] \in Committing \cup UndoPlaces => txn[b] \in dirs
      BY WorkerFacts DEF AtWork
    <3>2. pc[b] \in Committing \cup UndoPlaces \cup Cleaning =>
            /\ SameTxn(txn[b])
            /\ txn[b] \in dirs => \A p \in Touched(txn[b]) : files'[p] = files[p]
      BY <1>1, <1>2, <2>1
    <3> QED BY <1>2, <2>1, <3>1, <3>2, OtherActorLogic DEF LogicInv
  <2> QED BY <2>1
<1> QED BY <1>3, <1>4 DEF LogicInv

----------------------------------------------------------------------------
(***************************************************************************)
(* Commit and rollback, over one transaction.                              *)
(***************************************************************************)
AtLogic(a, x) ==
  /\ Shaped(x) /\ Resolved(x) /\ StagedFree(x) /\ Cleared(a) /\ Progress(a)
  /\ pc[x] = "crashed" => LoggedFree(x)
  /\ Creations(x) \subseteq DOMAIN plan[x]
  /\ \A i, j \in DOMAIN plan[x] : i # j =>
       /\ plan[x][j].tgt # plan[x][i].tgt /\ plan[x][j].tgt # plan[x][i].src
       /\ plan[x][j].src # plan[x][i].tgt

LEMMA LogicFacts ==
  ASSUME TypeInv, PatchInv, LogicInv, NEW a \in Actors, pc[a] \in Committing \cup UndoPlaces,
         NEW x, x = txn[a]
  PROVE  AtLogic(a, x)
<1>1. AtWork(a, x)
  BY WorkerFacts
<1>2. x \in Calls /\ x \in dirs /\ Pending(x) /\ Sound(x)
  BY <1>1 DEF AtWork
<1>3. TxnLogic(x) /\ ActorLogic(a)
  BY <1>2 DEF LogicInv
<1>4. \A i, j \in DOMAIN plan[x] : i # j =>
       /\ plan[x][j].tgt # plan[x][i].tgt /\ plan[x][j].tgt # plan[x][i].src
       /\ plan[x][j].src # plan[x][i].tgt
  BY <1>2, OpsApart
<1>5. Creations(x) \subseteq DOMAIN plan[x]
  BY DEF Creations
<1>6. Shaped(x) /\ Resolved(x) /\ StagedFree(x) /\ (pc[x] = "crashed" => LoggedFree(x))
  BY <1>2, <1>3 DEF TxnLogic
<1>7. Cleared(a) /\ Progress(a)
  BY <1>2, <1>3 DEF ActorLogic
<1> QED BY <1>4, <1>5, <1>6, <1>7 DEF AtLogic

(* A step that leaves the transaction undecided. *)
LEMMA LogicGoesOn ==
  ASSUME TypeInv, PatchInv, LogicInv, OneStarter,
         NEW a \in Actors, NEW x \in Calls, AtWork(a, x), AtLogic(a, x),
         pc[a] \in Committing \cup UndoPlaces, pc'[a] \in Onward \cup {"entries"},
         Footprint(a), UNCHANGED <<dirs, outcome>>, journal'[x] # NoJournal,
         \A y \in Calls : y # x => staged'[y] = staged[y],
         StagedFree(x)', Progress(a)',
         pc'[a] \in Onward => Cleared(a)',
         a \in Starters => LoggedFree(x)',
         pc'[a] = "cleanCommit" => AllPerformed(x)'
  PROVE  LogicInv' /\ Unseen
<1> USE TypeFacts
<1>1. x = txn[a] /\ txn'[a] = x /\ plan' = plan /\ expected' = expected
  BY DEF AtWork, Footprint
<1>2. Pending(x) /\ Pending(x)' /\ x \in dirs
  BY DEF AtWork, Pending
<1>3. Shaped(x)' /\ Resolved(x)'
  BY <1>1 DEF AtLogic, Shaped, Resolved, Creations
<1>4. /\ a \in Calls => pc'[x] = pc'[a] /\ x = a
      /\ a \in Starters => pc[x] = "crashed" /\ pc'[x] = "crashed"
      /\ a \in Calls \/ a \in Starters
  <2>1. a \in Starters => x # a /\ pc[x] = "crashed" /\ x \in Actors
    BY DEF AtWork
  <2>2. a \in Calls => x = a
    BY DEF AtWork
  <2> QED BY <2>1, <2>2 DEF AtWork, Footprint
<1>5. TxnLogic(x)'
  BY <1>2, <1>3, <1>4 DEF TxnLogic, Onward, Committing, UndoPlaces
<1>6. ActorLogic(a)'
  BY <1>1 DEF ActorLogic, Onward, Committing, UndoPlaces
<1>7. LogicInv'
  <2>1. pc[a] \in {"stage"} \cup Working
    BY DEF Working
  <2> QED BY <1>1, <1>4, <1>5, <1>6, <2>1, WorkerLogic
<1>8. Unseen
  <2>1. ASSUME NEW y \in Calls PROVE Pending(y)' <=> Pending(y)
    BY <1>2 DEF Pending, Footprint, AtWork
  <2>2. ASSUME NEW y \in Calls, Ended(y) PROVE Ended(y)'
    <3>1. y # a
      BY <2>2 DEF Ended, Committing, UndoPlaces
    <3> QED BY <2>2, <3>1 DEF Ended, Footprint
  <2>3. ASSUME NEW p \in Paths, \A y \in Calls : Pending(y) => p \notin Touched(y)
        PROVE  files'[p] = files[p]
    BY <1>1, <1>2, <2>3 DEF Footprint
  <2> QED BY <1>1, <2>1, <2>2, <2>3 DEF Unseen
<1> QED BY <1>7, <1>8

LEMMA LogicStays ==
  ASSUME TypeInv, NEW a \in Actors, NEW x \in Calls, AtWork(a, x), AtLogic(a, x),
         UNCHANGED <<files, plan, txn>>, staged'[x] \subseteq staged[x],
         mem'[a].committed = mem[a].committed,
         journal'[x].committed \in {journal[x].committed, mem[a].committed}
  PROVE  /\ StagedFree(x)' /\ Cleared(a)' /\ (a \in Starters => LoggedFree(x)')
         /\ Creations(x)' = Creations(x)
         /\ \A i \in DOMAIN plan[x] : /\ Free(x, i) => Free(x, i)'
                                      /\ Performed(x, i) => Performed(x, i)'
<1>1. /\ Creations(x)' = Creations(x) /\ txn[a] = x
      /\ a \in Starters => pc[x] = "crashed"
  BY DEF AtWork, Creations
<1>2. \A i : (Free(x, i) => Free(x, i)') /\ (Performed(x, i) => Performed(x, i)')
  BY DEF Free, Performed
<1>3. StagedFree(x)'
  BY <1>1, <1>2 DEF AtLogic, StagedFree
<1>4. Cleared(a)'
  BY <1>1, <1>2 DEF AtLogic, Cleared
<1>5. a \in Starters => LoggedFree(x)'
  BY <1>1, <1>2 DEF AtLogic, LoggedFree, Cleared
<1> QED BY <1>1, <1>2, <1>3, <1>4, <1>5

LEMMA AbortCommitLogic ==
  ASSUME TypeInv, PatchInv, LogicInv, OneStarter, NEW c \in Calls, AbortCommit(c)
  PROVE  LogicInv' /\ Unseen
<1> USE TypeFacts
<1>0. AtWork(c, c) /\ AtLogic(c, c) /\ c \in Actors
  BY WorkerFacts, LogicFacts DEF AbortCommit, Committing
<1>1. pc[c] \in Committing /\ pc'[c] = "rollback" /\ c \notin Starters
  BY <1>0 DEF AtWork, AbortCommit, Goto, Committing
<1>2. Footprint(c) /\ UNCHANGED <<dirs, outcome, staged, files, plan, txn, mem, journal>>
  BY DEF AbortCommit, Goto, Footprint
<1>3. StagedFree(c)' /\ Cleared(c)' /\ journal[c] # NoJournal
  BY <1>0, <1>2, LogicStays DEF AtWork
<1>4. Progress(c)'
  BY <1>1 DEF Progress
<1> QED BY <1>0, <1>1, <1>2, <1>3, <1>4, LogicGoesOn DEF Onward, UndoPlaces

LEMMA BeginCommitLogic ==
  ASSUME TypeInv, PatchInv, LogicInv, OneStarter, NEW c \in Calls, BeginCommit(c)
  PROVE  LogicInv' /\ Unseen
<1> USE TypeFacts
<1> DEFINE committing == [mem[c] EXCEPT !.phase = "committing"]
<1>0. AtWork(c, c) /\ AtLogic(c, c) /\ c \in Actors
  BY WorkerFacts, LogicFacts DEF BeginCommit, Committing
<1>1. pc[c] \in Committing /\ pc'[c] \in {"op", "rollback"} /\ c \notin Starters
  BY <1>0 DEF AtWork, BeginCommit, Goto, Committing
<1>2. /\ committing # NoJournal /\ committing.committed = mem[c].committed
  BY DEF Journals, NoJournal
<1>3. /\ Footprint(c) /\ UNCHANGED <<dirs, outcome, staged, files, plan, txn>>
      /\ mem'[c] = committing /\ idx'[c] = 1 /\ journal'[c] \in {committing, journal[c]}
  BY DEF BeginCommit, Goto, WriteJournal, Footprint
<1>4. StagedFree(c)' /\ Cleared(c)' /\ journal'[c] # NoJournal
  BY <1>0, <1>2, <1>3, LogicStays DEF AtWork
<1>5. Progress(c)'
  <2>1. \A j \in DOMAIN plan'[txn'[c]] : ~(j < 1)
    BY <1>3
  <2> QED BY <1>1, <1>3, <2>1 DEF Progress
<1> QED BY <1>0, <1>1, <1>3, <1>4, <1>5, LogicGoesOn DEF Onward, UndoPlaces, Committing

LEMMA BackupSourceLogic ==
  ASSUME TypeInv, PatchInv, LogicInv, OneStarter, NEW c \in Calls, BackupSource(c)
  PROVE  LogicInv' /\ Unseen
<1> USE TypeFacts
<1> DEFINE i == idx[c]
           src == plan[c][i].src
<1>0. AtWork(c, c) /\ AtLogic(c, c) /\ c \in Actors /\ c \notin Starters
  BY WorkerFacts, LogicFacts, ActorsAssumption DEF BackupSource, Committing
<1>1. /\ pc[c] = "op" /\ pc[c] \in Committing /\ i \in DOMAIN plan[c] /\ Op(c) = plan[c][i]
      /\ HasSource(plan[c][i])
  BY DEF BackupSource, Op, TypeInv, Indexed, Committing
<1>2. src \in Touched(c) /\ src \in Paths
  BY <1>0, <1>1, OpFacts DEF AtWork, Sourced
<1>3. /\ UNCHANGED <<dirs, outcome, staged, plan, txn, idx, journal>>
      /\ journal[c] # NoJournal
  BY <1>0 DEF AtWork, BackupSource
<1>4. CASE Goto(c, "rollback") /\ UNCHANGED <<files, backup, mem>>
  <2>1. Footprint(c) /\ pc'[c] = "rollback"
    BY <1>0, <1>3, <1>4 DEF AtWork, BackupSource, Goto, Footprint
  <2>2. StagedFree(c)' /\ Cleared(c)'
    BY <1>0, <1>3, <1>4, LogicStays
  <2>3. Progress(c)'
    BY <2>1 DEF Progress
  <2> QED BY <1>0, <1>1, <1>3, <2>1, <2>2, <2>3, LogicGoesOn DEF Onward, UndoPlaces
<1>5. CASE /\ files' = [files EXCEPT ![src] = Missing]
           /\ mem' = [mem EXCEPT ![c].backedUp = @ \cup {i}]
           /\ Goto(c, "logBackup")
  <2>1. Footprint(c) /\ pc'[c] = "logBackup" /\ mem'[c].committed = mem[c].committed
    BY <1>0, <1>1, <1>2, <1>3, <1>5 DEF AtWork, BackupSource, Goto, Footprint, Journals
  <2>2. \A p : files[p] = Missing => files'[p] = Missing
    BY <1>5
  <2>3. Creations(c)' = Creations(c) /\ \A j : Free(c, j) => Free(c, j)'
    BY <1>3, <2>2 DEF Creations, Free
  <2>4. StagedFree(c)' /\ Cleared(c)'
    BY <1>0, <1>3, <2>1, <2>3 DEF AtLogic, StagedFree, Cleared
  <2>5. ASSUME NEW j \in DOMAIN plan[c], j < i PROVE Performed(c, j)'
    <3>1. Performed(c, j)
      BY <1>0, <1>1, <2>5 DEF AtLogic, AtWork, Progress
    <3>2. plan[c][j].tgt # src
      BY <1>0, <1>1, <2>5 DEF AtLogic
    <3>3. files'[plan[c][j].tgt] = files[plan[c][j].tgt]
      BY <1>5, <3>2
    <3> QED BY <1>3, <2>2, <3>1, <3>3 DEF Performed
  <2>6. Progress(c)'
    <3>1. files'[src] = Missing
      BY <1>2, <1>5
    <3> QED BY <1>0, <1>1, <1>3, <2>1, <2>5, <3>1 DEF Progress, AtWork
  <2> QED BY <1>0, <1>1, <1>3, <2>1, <2>4, <2>6, LogicGoesOn DEF Onward, Committing
<1> QED BY <1>1, <1>4, <1>5 DEF BackupSource

LEMMA PlaceLogic ==
  ASSUME TypeInv, PatchInv, LogicInv, OneStarter, NEW c \in Calls, Place(c)
  PROVE  LogicInv' /\ Unseen
<1> USE TypeFacts
<1> DEFINE i == idx[c]
           tgt == plan[c][i].tgt
<1>0. AtWork(c, c) /\ AtLogic(c, c) /\ c \in Actors /\ c \notin Starters
  BY WorkerFacts, LogicFacts, ActorsAssumption DEF Place, Committing
<1>1. /\ pc[c] \in {"place", "op"} /\ pc[c] \in Committing /\ i \in DOMAIN plan[c]
      /\ Op(c) = plan[c][i]
  BY DEF Place, Op, TypeInv, Indexed, Committing
<1>2. tgt \in Touched(c) /\ tgt \in Paths
  BY <1>0, <1>1, OpFacts DEF AtWork
<1>3. /\ UNCHANGED <<dirs, outcome, plan, txn, idx, journal>>
      /\ journal[c] # NoJournal
  BY <1>0 DEF AtWork, Place
<1>4. CASE Goto(c, "rollback") /\ UNCHANGED <<files, staged, mem>>
  <2>1. Footprint(c) /\ pc'[c] = "rollback"
    BY <1>0, <1>3, <1>4 DEF AtWork, Place, Goto, Footprint
  <2>2. StagedFree(c)' /\ Cleared(c)'
    BY <1>0, <1>3, <1>4, LogicStays
  <2>3. Progress(c)'
    BY <2>1 DEF Progress
  <2> QED BY <1>0, <1>1, <1>3, <1>4, <2>1, <2>2, <2>3, LogicGoesOn DEF Onward, UndoPlaces
<1>5. CASE /\ files' = [files EXCEPT ![tgt] = plan[c][i].content]
           /\ staged' = [staged EXCEPT ![c] = @ \ {i}]
           /\ mem' = [mem EXCEPT ![c].committed = @ \cup {i}]
           /\ Goto(c, "logPlace")
  <2>1. /\ Footprint(c) /\ pc'[c] = "logPlace" /\ mem'[c].committed = mem[c].committed \cup {i}
        /\ staged'[c] = staged[c] \ {i} /\ \A y \in Calls : y # c => staged'[y] = staged[y]
    BY <1>0, <1>1, <1>2, <1>3, <1>5 DEF AtWork, Place, Goto, Footprint, Journals, TypeInv, DirsOK
  <2>2. \A p : p # tgt => files'[p] = files[p]
    BY <1>5
  <2>3. /\ Creations(c)' = Creations(c)
        /\ \A j \in DOMAIN plan[c] : Free(c, j) /\ j # i => Free(c, j)'
    <3>1. ASSUME NEW j \in DOMAIN plan[c], Free(c, j), j # i PROVE Free(c, j)'
      <4>1. plan[c][j].tgt # tgt
        BY <1>0, <1>1, <3>1 DEF AtLogic
      <4> QED BY <1>3, <2>2, <3>1, <4>1 DEF Free
    <3> QED BY <1>3, <3>1 DEF Creations
  <2>4. StagedFree(c)' /\ Cleared(c)'
    BY <1>0, <1>3, <2>1, <2>3 DEF AtLogic, StagedFree, Cleared, AtWork
  <2>5. ASSUME NEW j \in DOMAIN plan[c], j < i PROVE Performed(c, j)'
    <3>1. Performed(c, j)
      BY <1>0, <1>1, <2>5 DEF AtLogic, AtWork, Progress
    <3>2. plan[c][j].tgt # tgt /\ plan[c][j].src # tgt
      <4>1. j # i
        BY <1>1, <2>5
      <4> QED BY <1>0, <1>1, <4>1 DEF AtLogic
    <3> QED BY <1>3, <2>2, <3>1, <3>2 DEF Performed
  <2>6. Performed(c, i)'
    <3>1. files'[tgt] = plan[c][i].content
      BY <1>2, <1>5
    <3>2. pc[c] = "op" => plan[c][i].kind \notin {"delete", "move"}
      BY <1>1, OpShape DEF Place
    <3>3. pc[c] = "place" => /\ plan[c][i].kind # "delete" /\ files[plan[c][i].src] = Missing
      BY <1>0 DEF AtLogic, AtWork, Progress
    <3>4. plan[c][i].kind = "move" => plan[c][i].src # tgt
      BY <1>0, <1>1 DEF AtLogic, Shaped, Creations
    <3> QED BY <1>1, <1>3, <2>2, <3>1, <3>2, <3>3, <3>4 DEF Performed
  <2>7. Progress(c)'
    BY <1>0, <1>1, <1>3, <2>1, <2>5, <2>6 DEF Progress, AtWork
  <2> QED BY <1>0, <1>1, <1>3, <2>1, <2>4, <2>7, LogicGoesOn DEF Onward, Committing
<1> QED BY <1>1, <1>4, <1>5 DEF Place

(* Once an operation is performed, so are all up to it. *)
LEMMA NextOpProgress ==
  ASSUME TypeInv, NEW c \in Calls, NextOp(c), idx[c] \in DOMAIN plan[c],
         UNCHANGED <<txn, plan>>,
         \A j \in DOMAIN plan[c] : j <= idx[c] => Performed(c, j)'
  PROVE  /\ Progress(c)' /\ pc'[c] \in {"op", "cleanCommit"}
         /\ pc'[c] = "cleanCommit" => AllPerformed(c)'
<1> USE TypeFacts
<1>1. CASE pc'[c] = "op" /\ idx'[c] = idx[c] + 1
  <2>1. \A j \in DOMAIN plan[c] : j < idx[c] + 1 => j <= idx[c]
    OBVIOUS
  <2> QED BY <1>1, <2>1 DEF Progress
<1>2. CASE pc'[c] = "cleanCommit" /\ ~(idx[c] < Len(plan[c]))
  <2>1. \A j \in DOMAIN plan[c] : j <= idx[c]
    BY <1>2
  <2> QED BY <1>2, <2>1 DEF Progress, AllPerformed
<1>3. c \in Actors /\ c \in DOMAIN idx
  OBVIOUS
<1> QED BY <1>1, <1>2, <1>3 DEF NextOp, Goto

LEMMA LogBackupLogic ==
  ASSUME TypeInv, PatchInv, LogicInv, OneStarter, NEW c \in Calls, LogBackup(c)
  PROVE  LogicInv' /\ Unseen
<1> USE TypeFacts
<1>i. PICK i : i = idx[c]
  OBVIOUS
<1>0. AtWork(c, c) /\ AtLogic(c, c) /\ c \in Actors /\ c \notin Starters
  BY WorkerFacts, LogicFacts, ActorsAssumption DEF LogBackup, Committing
<1>1. /\ pc[c] = "logBackup" /\ pc[c] \in Committing /\ i \in DOMAIN plan[c] /\ Op(c) = plan[c][i]
  BY <1>i DEF LogBackup, Op, TypeInv, Indexed, Committing
<1>2. Footprint(c) /\ UNCHANGED <<dirs, outcome, staged>>
  BY DEF LogBackup, Goto, NextOp, WriteJournal, Footprint
<1>3. /\ UNCHANGED <<files, plan, txn, mem>> /\ mem[c] # NoJournal /\ journal[c] # NoJournal
      /\ journal'[c] \in {journal[c], mem[c]}
  BY <1>0 DEF LogBackup, WriteJournal, AtWork, Remembers, NoJournal
<1>4. /\ StagedFree(c)' /\ Cleared(c)' /\ journal'[c] # NoJournal
      /\ \A j \in DOMAIN plan[c] : Performed(c, j) => Performed(c, j)'
  BY <1>0, <1>2, <1>3, LogicStays
<1>5. \A j \in DOMAIN plan[c] : j < i => Performed(c, j)'
  BY <1>i, <1>0, <1>1, <1>4 DEF AtLogic, AtWork, Progress
<1>6. HasSource(plan[c][i]) /\ files[plan[c][i].src] = Missing
  BY <1>i, <1>0, <1>1 DEF AtLogic, AtWork, Progress
<1>7. /\ Progress(c)' /\ pc'[c] \in {"op", "cleanCommit", "place", "rollback"}
      /\ pc'[c] = "cleanCommit" => AllPerformed(c)'
  <2>1. CASE plan[c][i].kind = "delete" /\ NextOp(c)
    <3>1. Performed(c, i)'
      BY <1>3, <1>6, <2>1 DEF Performed
    <3>2. \A j \in DOMAIN plan[c] : j <= i => j < i \/ j = i
      BY <1>1
    <3>3. \A j \in DOMAIN plan[c] : j <= idx[c] => Performed(c, j)'
      BY <1>i, <1>5, <3>1, <3>2
    <3> QED BY <1>i, <1>1, <1>3, <2>1, <3>3, NextOpProgress
  <2>2. CASE plan[c][i].kind # "delete" /\ Goto(c, "place") /\ UNCHANGED idx
    <3>1. pc'[c] = "place" /\ txn'[c] = c
      BY <1>3, <2>2 DEF Goto
    <3>2. idx'[c] = i
      BY <1>i, <2>2
    <3> QED BY <1>3, <1>5, <1>6, <2>2, <3>1, <3>2 DEF Progress
  <2>3. CASE Goto(c, "rollback")
    BY <2>3 DEF Goto, Progress
  <2> QED BY <1>i, <1>1, <2>1, <2>2, <2>3 DEF LogBackup
<1> QED BY <1>0, <1>1, <1>2, <1>4, <1>7, LogicGoesOn DEF Onward, Committing, UndoPlaces

LEMMA LogPlaceLogic ==
  ASSUME TypeInv, PatchInv, LogicInv, OneStarter, NEW c \in Calls, LogPlace(c)
  PROVE  LogicInv' /\ Unseen
<1> USE TypeFacts
<1> DEFINE i == idx[c]
<1>0. AtWork(c, c) /\ AtLogic(c, c) /\ c \in Actors /\ c \notin Starters
  BY WorkerFacts, LogicFacts, ActorsAssumption DEF LogPlace, Committing
<1>1. /\ pc[c] = "logPlace" /\ pc[c] \in Committing /\ i \in DOMAIN plan[c]
  BY DEF LogPlace, TypeInv, Indexed, Committing
<1>2. Footprint(c) /\ UNCHANGED <<dirs, outcome, staged>>
  BY DEF LogPlace, Goto, NextOp, WriteJournal, Footprint
<1>3. /\ UNCHANGED <<files, plan, txn, mem>> /\ mem[c] # NoJournal /\ journal[c] # NoJournal
      /\ journal'[c] \in {journal[c], mem[c]}
  BY <1>0 DEF LogPlace, WriteJournal, AtWork, Remembers, NoJournal
<1>4. /\ StagedFree(c)' /\ Cleared(c)' /\ journal'[c] # NoJournal
      /\ \A j \in DOMAIN plan[c] : Performed(c, j) => Performed(c, j)'
  BY <1>0, <1>2, <1>3, LogicStays
<1>5. \A j \in DOMAIN plan[c] : j <= i => Performed(c, j)'
  <2>1. Performed(c, i) /\ \A j \in DOMAIN plan[c] : j < i => Performed(c, j)
    BY <1>0, <1>1 DEF AtLogic, AtWork, Progress
  <2>2. \A j \in DOMAIN plan[c] : j <= i => j < i \/ j = i
    BY <1>1
  <2> QED BY <1>1, <1>4, <2>1, <2>2
<1>6. /\ Progress(c)' /\ pc'[c] \in {"op", "cleanCommit", "rollback"}
      /\ pc'[c] = "cleanCommit" => AllPerformed(c)'
  <2>1. CASE NextOp(c)
    BY <1>1, <1>3, <1>5, <2>1, NextOpProgress
  <2>2. CASE Goto(c, "rollback")
    BY <2>2 DEF Goto, Progress
  <2> QED BY <2>1, <2>2 DEF LogPlace
<1> QED BY <1>0, <1>1, <1>2, <1>4, <1>6, LogicGoesOn DEF Onward, Committing, UndoPlaces

LEMMA StartRollbackLogic ==
  ASSUME TypeInv, PatchInv, LogicInv, OneStarter, RollbacksWork,
         NEW a \in Actors, StartRollback(a) PROVE LogicInv' /\ Unseen
<1> USE TypeFacts
<1>x. PICK x : x = txn[a]
  OBVIOUS
<1> DEFINE rolling == [mem[a] EXCEPT !.phase = "rolling_back"]
<1>0. AtWork(a, x) /\ AtLogic(a, x) /\ x \in Calls /\ x \in dirs /\ pc[a] = "rollback"
      /\ pc[a] \in UndoPlaces
  BY <1>x, WorkerFacts, LogicFacts DEF StartRollback, UndoPlaces, AtWork
<1>1. WriteJournal(a, rolling) /\ Goto(a, "undo") /\ UNCHANGED <<lockq, outcome, todo, failed>>
  <2>1. CASE Fault(txn[a] \in dirs) /\ pc'[a] # "rollback"
    BY <1>x, <1>0, <2>1, NoFault
  <2>2. CASE Fault(txn[a] \in dirs) /\ ((\E r : Finish(a, r)) \/ NextEntry(a))
    BY <2>1, <2>2 DEF Finish, NextEntry, Goto
  <2> QED BY <2>2 DEF StartRollback
<1>2. rolling # NoJournal /\ rolling.committed = mem[a].committed
  BY DEF Journals, NoJournal
<1>3. /\ mem'[a] = rolling /\ idx'[a] = Len(plan[x]) /\ journal'[x] = rolling /\ pc'[a] = "undo"
      /\ UNCHANGED <<dirs, files, staged, txn, plan>>
  BY <1>x, <1>0, <1>1 DEF StartRollback, WriteJournal, Goto
<1>4. Footprint(a)
  BY <1>x, <1>0, <1>1 DEF StartRollback, WriteJournal, Goto, Footprint
<1> HIDE DEF rolling
<1>5. /\ StagedFree(x)' /\ Cleared(a)' /\ (a \in Starters => LoggedFree(x)')
      /\ Creations(x)' = Creations(x)
  BY <1>0, <1>2, <1>3, LogicStays
<1>6. Progress(a)'
  <2>1. \A j \in DOMAIN plan[x] : ~(j > Len(plan[x]))
    BY <1>0
  <2> QED BY <1>x, <1>0, <1>3, <1>5, <2>1 DEF Progress, AtLogic
<1> QED BY <1>0, <1>1, <1>2, <1>3, <1>4, <1>5, <1>6, LogicGoesOn DEF Onward, UndoPlaces

LEMMA RemoveTargetLogic ==
  ASSUME TypeInv, PatchInv, LogicInv, OneStarter, RollbacksWork,
         NEW a \in Actors, RemoveTarget(a) PROVE LogicInv' /\ Unseen
<1> USE TypeFacts
<1>x. PICK x : x = txn[a]
  OBVIOUS
<1> DEFINE i == idx[a]
           tgt == plan[x][i].tgt
<1>0. AtWork(a, x) /\ AtLogic(a, x) /\ x \in Calls /\ pc[a] = "undo" /\ pc[a] \in UndoPlaces
  BY <1>x, WorkerFacts, LogicFacts DEF RemoveTarget, Undoing, UndoPlaces, AtWork
<1>1. i \in DOMAIN plan[x] /\ Op(a) = plan[x][i]
  <2>1. i > 0 /\ i \in 0..Len(plan[x])
    BY <1>x, <1>0 DEF RemoveTarget, Undoing, TypeInv, Indexed
  <2>2. i \in 1..Len(plan[x])
    BY <1>0, <2>1
  <2> QED BY <1>x, <1>0, <2>2 DEF Op
<1>2. tgt \in Touched(x) /\ tgt \in Paths
  BY <1>0, <1>1, OpFacts DEF AtWork
<1>3. /\ files' = [files EXCEPT ![tgt] = Missing]
      /\ mem' = [mem EXCEPT ![a].committed = @ \ {i}]
      /\ Goto(a, "logRemove")
  <2>1. CASE Fault(TRUE) /\ Goto(a, "giveUp")
    BY <1>0, <2>1, NoFault DEF Goto, UndoPlaces
  <2> QED BY <1>1, <2>1 DEF RemoveTarget
<1>4. Footprint(a)
  BY <1>x, <1>1, <1>2, <1>3 DEF RemoveTarget, Goto, Footprint
<1>5. /\ UNCHANGED <<dirs, outcome, journal, staged, txn, idx, plan>>
      /\ pc'[a] = "logRemove" /\ mem'[a].committed = mem[a].committed \ {i}
  BY <1>3 DEF RemoveTarget, Goto, Journals
<1>6. /\ Creations(x)' = Creations(x) /\ \A j : Free(x, j) => Free(x, j)'
      /\ Free(x, i)'
  <2>1. \A p : files[p] = Missing => files'[p] = Missing
    BY <1>3
  <2>2. files'[tgt] = Missing
    BY <1>2, <1>3
  <2> QED BY <1>5, <2>1, <2>2 DEF Creations, Free
<1>7. StagedFree(x)' /\ Cleared(a)'
  BY <1>x, <1>0, <1>5, <1>6 DEF AtLogic, StagedFree, Cleared
<1>8. a \in Starters => LoggedFree(x)'
  BY <1>0, <1>5, <1>6 DEF AtLogic, AtWork, LoggedFree
<1>9. Progress(a)'
  <2>1. \A j \in Creations(x) : j > i => Free(x, j)
    BY <1>x, <1>0 DEF AtLogic, Progress
  <2>2. \A j \in Creations(x) : j >= i => j > i \/ j = i
    BY <1>0, <1>1 DEF AtLogic
  <2> QED BY <1>x, <1>5, <1>6, <2>1, <2>2 DEF Progress
<1> QED BY <1>0, <1>4, <1>5, <1>7, <1>8, <1>9, LogicGoesOn DEF AtWork, Onward, UndoPlaces

LEMMA LogRemoveLogic ==
  ASSUME TypeInv, PatchInv, LogicInv, OneStarter, RollbacksWork,
         NEW a \in Actors, LogRemove(a) PROVE LogicInv' /\ Unseen
<1> USE TypeFacts
<1>x. PICK x : x = txn[a]
  OBVIOUS
<1>0. AtWork(a, x) /\ AtLogic(a, x) /\ x \in Calls /\ x \in dirs /\ pc[a] = "logRemove"
      /\ pc[a] \in UndoPlaces
  BY <1>x, WorkerFacts, LogicFacts DEF LogRemove, UndoPlaces, AtWork
<1>1. WriteJournal(a, mem[a]) /\ Goto(a, "restore")
  <2>1. CASE Fault(txn[a] \in dirs) /\ Goto(a, "giveUp")
    BY <1>x, <1>0, <2>1, NoFault DEF Goto
  <2> QED BY <2>1 DEF LogRemove
<1>2. Footprint(a)
  BY <1>x, <1>0, <1>1 DEF LogRemove, WriteJournal, Goto, Footprint
<1>3. /\ UNCHANGED <<dirs, outcome, files, staged, txn, mem, idx, plan>>
      /\ pc'[a] = "restore" /\ journal'[x] = mem[a] /\ mem[a] # NoJournal
  BY <1>x, <1>0, <1>1 DEF LogRemove, WriteJournal, Goto, AtWork, Remembers, NoJournal
<1>4. /\ StagedFree(x)' /\ Cleared(a)' /\ (a \in Starters => LoggedFree(x)')
      /\ Creations(x)' = Creations(x) /\ \A j \in DOMAIN plan[x] : Free(x, j) => Free(x, j)'
  BY <1>0, <1>3, LogicStays
<1>5. Progress(a)'
  BY <1>x, <1>0, <1>3, <1>4 DEF Progress, AtLogic
<1> QED BY <1>0, <1>2, <1>3, <1>4, <1>5, LogicGoesOn DEF Onward, UndoPlaces

LEMMA RestoreSourceLogic ==
  ASSUME TypeInv, PatchInv, LogicInv, OneStarter, RollbacksWork,
         NEW a \in Actors, RestoreSource(a) PROVE LogicInv' /\ Unseen
<1> USE TypeFacts
<1>x. PICK x : x = txn[a]
  OBVIOUS
<1> DEFINE i == idx[a]
           src == plan[x][i].src
<1>0. AtWork(a, x) /\ AtLogic(a, x) /\ x \in Calls /\ pc[a] \in {"undo", "restore"}
      /\ pc[a] \in UndoPlaces
  BY <1>x, WorkerFacts, LogicFacts DEF RestoreSource, Undoing, UndoPlaces, AtWork
<1>1. i \in DOMAIN plan[x] /\ Op(a) = plan[x][i] /\ i \notin mem[a].committed
  <2>1. i > 0 /\ i \in 0..Len(plan[x])
    BY <1>x, <1>0 DEF RestoreSource, Undoing, TypeInv, Indexed
  <2>2. i \in 1..Len(plan[x])
    BY <1>0, <2>1
  <2>3. i \notin mem[a].committed
    BY <1>0 DEF RestoreSource, Undoing, AtWork, Placed
  <2> QED BY <1>x, <1>0, <2>2, <2>3 DEF Op
<1>2. /\ UNCHANGED <<dirs, outcome, journal, staged, txn, idx, plan>> /\ journal[x] # NoJournal
  BY <1>0 DEF RestoreSource, AtWork
<1>3. \A j \in Creations(x) : j >= i => Free(x, j)
  <2>1. \A j \in Creations(x) : j > i => Free(x, j)
    <3>1. \A j \in Creations(x) : j > i => j >= i
      BY <1>0, <1>1 DEF AtLogic
    <3> QED BY <1>x, <1>0, <3>1 DEF AtLogic, Progress
  <2>2. i \in Creations(x) => Free(x, i)
    BY <1>x, <1>0, <1>1 DEF AtLogic, Cleared
  <2>3. \A j \in Creations(x) : j >= i => j > i \/ j = i
    BY <1>0, <1>1 DEF AtLogic
  <2> QED BY <2>1, <2>2, <2>3
<1>4. CASE /\ backup[x][i] # Missing
           /\ files' = [files EXCEPT ![src] = backup[x][i]]
           /\ backup' = [backup EXCEPT ![x][i] = Missing]
           /\ mem' = [mem EXCEPT ![a].backedUp = @ \ {i}]
           /\ Goto(a, "logRestore")
  <2>1. src \in Touched(x)
    <3>1. i \in Sourced(x)
      BY <1>0, <1>1, <1>4 DEF AtWork, Kept, Backups
    <3> QED BY <1>0, <1>1, <3>1, OpFacts DEF AtWork
  <2>2. Footprint(a)
    BY <1>x, <1>0, <1>1, <1>4, <2>1 DEF RestoreSource, Goto, Footprint
  <2>3. mem'[a].committed = mem[a].committed /\ pc'[a] = "logRestore"
    BY <1>4 DEF Journals, Goto
  <2>4. /\ Creations(x)' = Creations(x) /\ Creations(x) \subseteq DOMAIN plan[x]
        /\ \A j \in Creations(x) : Free(x, j) => Free(x, j)'
    <3>1. ASSUME NEW j \in Creations(x), Free(x, j) PROVE Free(x, j)'
      <4>1. plan[x][j].tgt # src
        BY <1>0, <1>1, <3>1 DEF AtLogic, Shaped
      <4> QED BY <1>2, <1>4, <3>1, <4>1 DEF Free
    <3> QED BY <1>0, <1>2, <3>1 DEF Creations
  <2>5. StagedFree(x)' /\ Cleared(a)'
    BY <1>x, <1>0, <1>2, <2>3, <2>4 DEF AtLogic, StagedFree, Cleared
  <2>6. a \in Starters => LoggedFree(x)'
    BY <1>0, <1>2, <2>4 DEF AtLogic, AtWork, LoggedFree
  <2>7. Progress(a)'
    BY <1>x, <1>2, <1>3, <2>3, <2>4 DEF Progress
  <2> QED BY <1>0, <1>2, <2>2, <2>3, <2>5, <2>6, <2>7, LogicGoesOn DEF Onward, UndoPlaces
<1>5. CASE Fault(backup[x][i] # Missing) /\ Goto(a, "giveUp") /\ UNCHANGED <<files, backup, mem>>
  <2>1. Footprint(a) /\ pc'[a] = "giveUp"
    BY <1>2, <1>5 DEF RestoreSource, Goto, Footprint
  <2>2. StagedFree(x)' /\ Cleared(a)' /\ (a \in Starters => LoggedFree(x)')
    BY <1>0, <1>2, <1>5, LogicStays
  <2>3. Progress(a)'
    BY <2>1 DEF Progress
  <2> QED BY <1>0, <1>2, <2>1, <2>2, <2>3, LogicGoesOn DEF Onward, UndoPlaces
<1> QED BY <1>x, <1>1, <1>4, <1>5 DEF RestoreSource

LEMMA LogRestoreLogic ==
  ASSUME TypeInv, PatchInv, LogicInv, OneStarter, RollbacksWork,
         NEW a \in Actors, LogRestore(a) PROVE LogicInv' /\ Unseen
<1> USE TypeFacts
<1>x. PICK x : x = txn[a]
  OBVIOUS
<1>0. AtWork(a, x) /\ AtLogic(a, x) /\ x \in Calls /\ x \in dirs /\ pc[a] = "logRestore"
      /\ pc[a] \in UndoPlaces
  BY <1>x, WorkerFacts, LogicFacts DEF LogRestore, UndoPlaces, AtWork
<1>1. WriteJournal(a, mem[a]) /\ UndoPrevious(a)
  <2>1. CASE Fault(txn[a] \in dirs) /\ Goto(a, "giveUp")
    BY <1>x, <1>0, <2>1, NoFault DEF Goto
  <2> QED BY <2>1 DEF LogRestore
<1>2. Footprint(a)
  BY <1>x, <1>0, <1>1 DEF LogRestore, WriteJournal, UndoPrevious, Goto, Footprint
<1>3. /\ UNCHANGED <<dirs, outcome, files, txn, mem, plan>> /\ idx'[a] = idx[a] - 1
      /\ pc'[a] = "undo" /\ journal'[x] = mem[a] /\ mem[a] # NoJournal
  BY <1>x, <1>0, <1>1 DEF LogRestore, WriteJournal, UndoPrevious, Goto, AtWork, Remembers, NoJournal
<1>4. staged'[x] \subseteq staged[x] /\ \A y \in Calls : y # x => staged'[y] = staged[y]
  BY <1>x, <1>0, <1>1 DEF UndoPrevious, TypeInv, DirsOK
<1>5. /\ StagedFree(x)' /\ Cleared(a)' /\ (a \in Starters => LoggedFree(x)')
      /\ Creations(x)' = Creations(x) /\ \A j \in DOMAIN plan[x] : Free(x, j) => Free(x, j)'
  BY <1>0, <1>3, <1>4, LogicStays
<1>6. Progress(a)'
  <2>1. \A j \in Creations(x) : j > idx[a] - 1 => j >= idx[a]
    BY <1>0 DEF AtLogic
  <2> QED BY <1>x, <1>0, <1>3, <1>5, <2>1 DEF Progress, AtLogic
<1> QED BY <1>0, <1>2, <1>3, <1>4, <1>5, <1>6, LogicGoesOn DEF Onward, UndoPlaces

LEMMA NothingToRestoreLogic ==
  ASSUME TypeInv, PatchInv, LogicInv, OneStarter,
         NEW a \in Actors, NothingToRestore(a) PROVE LogicInv' /\ Unseen
<1> USE TypeFacts
<1>x. PICK x : x = txn[a]
  OBVIOUS
<1>0. AtWork(a, x) /\ AtLogic(a, x) /\ x \in Calls /\ pc[a] \in {"undo", "restore"}
      /\ pc[a] \in UndoPlaces /\ idx[a] \in Nat
  BY <1>x, WorkerFacts, LogicFacts DEF NothingToRestore, Undoing, UndoPlaces, AtWork
<1>1. \A j \in Creations(x) : j >= idx[a] => Free(x, j)
  <2>1. \A j \in Creations(x) : j >= idx[a] => j > idx[a] \/ j = idx[a]
    BY <1>0 DEF AtLogic
  <2>2. CASE pc[a] = "restore"
    BY <1>x, <1>0, <2>2 DEF AtLogic, Progress
  <2>3. CASE pc[a] = "undo"
    BY <1>x, <1>0, <2>1, <2>3 DEF NothingToRestore, Undoing, AtLogic, Progress, Cleared
  <2> QED BY <1>0, <2>2, <2>3
<1>2. /\ UNCHANGED <<files, dirs, journal, outcome, txn, mem, plan>> /\ pc'[a] = "undo"
      /\ idx'[a] = idx[a] - 1 /\ journal[x] # NoJournal
  BY <1>0 DEF NothingToRestore, UndoPrevious, Goto, AtWork
<1>3. staged'[x] \subseteq staged[x] /\ \A y \in Calls : y # x => staged'[y] = staged[y]
  BY <1>x, <1>0 DEF NothingToRestore, UndoPrevious, TypeInv, DirsOK
<1>4. Footprint(a)
  BY <1>x, <1>0 DEF NothingToRestore, UndoPrevious, Goto, Footprint
<1>5. /\ StagedFree(x)' /\ Cleared(a)' /\ (a \in Starters => LoggedFree(x)')
      /\ Creations(x)' = Creations(x) /\ \A j \in DOMAIN plan[x] : Free(x, j) => Free(x, j)'
  BY <1>0, <1>2, <1>3, LogicStays
<1>6. Progress(a)'
  <2>1. \A j \in Creations(x) : j > idx[a] - 1 => j >= idx[a]
    BY <1>0 DEF AtLogic
  <2> QED BY <1>x, <1>0, <1>1, <1>2, <1>5, <2>1 DEF Progress, AtLogic
<1> QED BY <1>0, <1>2, <1>3, <1>4, <1>5, <1>6, LogicGoesOn DEF Onward, UndoPlaces

LEMMA RollbackDoneLogic ==
  ASSUME TypeInv, PatchInv, LogicInv, OneStarter,
         NEW a \in Actors, RollbackDone(a) PROVE LogicInv' /\ Unseen
<1> USE TypeFacts
<1>x. PICK x : x = txn[a]
  OBVIOUS
<1>0. AtWork(a, x) /\ AtLogic(a, x) /\ x \in Calls /\ pc[a] = "undo" /\ idx[a] = 0
      /\ pc[a] \in UndoPlaces
  BY <1>x, WorkerFacts, LogicFacts DEF RollbackDone, UndoPlaces, AtWork
<1>1. \A j \in Creations(x) : Free(x, j)
  <2>1. \A j \in Creations(x) : j > 0
    BY <1>0 DEF AtLogic
  <2> QED BY <1>x, <1>0, <2>1 DEF AtLogic, Progress
<1>2. /\ UNCHANGED <<files, dirs, journal, outcome, staged, txn, mem, plan>>
      /\ pc'[a] = "cleanRollback" /\ journal[x] # NoJournal /\ Footprint(a)
  BY <1>0 DEF RollbackDone, Goto, Footprint, AtWork
<1>3. /\ StagedFree(x)' /\ Cleared(a)' /\ (a \in Starters => LoggedFree(x)')
      /\ Creations(x)' = Creations(x) /\ \A j \in DOMAIN plan[x] : Free(x, j) => Free(x, j)'
  BY <1>0, <1>2, LogicStays
<1>4. Progress(a)'
  BY <1>x, <1>0, <1>1, <1>2, <1>3 DEF Progress, AllFree, AtLogic
<1> QED BY <1>0, <1>2, <1>3, <1>4, LogicGoesOn DEF Onward, UndoPlaces

LEMMA GiveUpLogic ==
  ASSUME TypeInv, PatchInv, LogicInv, OneStarter, RollbacksWork,
         NEW a \in Actors, GiveUp(a) PROVE LogicInv' /\ Unseen
<1> USE TypeFacts
<1>x. PICK x : x = txn[a]
  OBVIOUS
<1> DEFINE required == [mem[a] EXCEPT !.phase = "recovery_required"]
<1>0. /\ AtWork(a, x) /\ AtLogic(a, x) /\ x \in Calls /\ x \in dirs /\ pc[a] = "giveUp"
      /\ pc[a] \in UndoPlaces /\ a \in Starters /\ a \notin Calls /\ a \in Recoverers
  BY <1>x, WorkerFacts, LogicFacts DEF GiveUp, UndoPlaces, AtWork, PatchInv, ActorInv, Charged
<1>1. NextEntry(a) /\ UNCHANGED <<lockq, outcome>> /\ pc'[a] = "entries"
  BY <1>0 DEF GiveUp, NextEntry, Goto
<1>2. WriteJournal(a, required)
  <2>1. CASE Fault(txn[a] \in dirs)
    BY <1>x, <1>0, <1>1, <2>1, NoFault
  <2> QED BY <2>1 DEF GiveUp
<1>3. required # NoJournal /\ required.committed = mem[a].committed
  BY DEF Journals, NoJournal
<1>4. Footprint(a)
  BY <1>x, <1>0, <1>1, <1>2 DEF GiveUp, NextEntry, WriteJournal, Goto, Footprint
<1>5. /\ UNCHANGED <<dirs, files, staged, txn, plan>> /\ journal'[x] = required
      /\ mem'[a] = required
  BY <1>x, <1>0, <1>1, <1>2 DEF GiveUp, NextEntry, WriteJournal, Goto
<1> HIDE DEF required
<1>6. StagedFree(x)' /\ LoggedFree(x)'
  BY <1>0, <1>3, <1>5, LogicStays
<1>7. Progress(a)' /\ pc'[a] \notin Onward
  BY <1>1 DEF Progress, Onward, Committing, UndoPlaces
<1> QED BY <1>0, <1>1, <1>3, <1>4, <1>5, <1>6, <1>7, LogicGoesOn

LEMMA StageLogic ==
  ASSUME TypeInv, PatchInv, LogicInv, OneStarter, NEW c \in Calls, Stage(c)
  PROVE  LogicInv' /\ Unseen
<1> USE TypeFacts
<1>1. pc[c] = "stage" /\ txn[c] = c /\ pc'[c] \in {"prepare", "cleanDiscard"}
  BY DEF Stage, Goto
<1>2. TxnInv(c) /\ Lawful(c) /\ TxnLogic(c)
  BY DEF PatchInv, TxnInv, LogicInv
<1>3. journal[c] = NoJournal
  BY <1>1, <1>2 DEF Lawful, Untouched
<1>4. /\ UNCHANGED <<files, plan, expected, journal, outcome>> /\ Footprint(c)
      /\ \A y \in Calls : y # c => staged'[y] = staged[y]
  BY <1>1 DEF Stage, Goto, Footprint, TypeInv, DirsOK
<1>5. Shaped(c) /\ AllFree(c) /\ Resolved(c)
  BY <1>1, <1>2 DEF TxnLogic
<1>6. Shaped(c)' /\ AllFree(c)' /\ Resolved(c)'
  BY <1>4, <1>5 DEF Shaped, AllFree, Resolved, Creations, Free
<1>7. ~Pending(c) /\ ~Pending(c)'
  BY <1>3, <1>4 DEF Pending
<1>8. TxnLogic(c)'
  BY <1>1, <1>6, <1>7 DEF TxnLogic
<1>9. ActorLogic(c)'
  BY <1>1 DEF ActorLogic, Progress, Committing, UndoPlaces
<1>10. LogicInv'
  BY <1>1, <1>4, <1>8, <1>9, WorkerLogic
<1>11. Unseen
  BY <1>1, <1>4, <1>7 DEF Unseen, Ended, Footprint, Pending
<1> QED BY <1>10, <1>11

LEMMA PrepareLogic ==
  ASSUME TypeInv, PatchInv, LogicInv, OneStarter, NEW c \in Calls, Prepare(c)
  PROVE  LogicInv'
<1> USE TypeFacts
<1>1. pc[c] = "prepare" /\ txn[c] = c /\ pc'[c] \in {"begin", "cleanDiscard"}
  BY DEF Prepare, Goto, WriteJournal
<1>2. TxnInv(c) /\ Lawful(c) /\ TxnLogic(c)
  BY DEF PatchInv, TxnInv, LogicInv
<1>3. journal[c] = NoJournal
  BY <1>1, <1>2 DEF Lawful, Untouched
<1>4. /\ UNCHANGED <<files, plan, expected, dirs, staged>> /\ Footprint(c)
  BY DEF Prepare, Goto, WriteJournal, Footprint
<1>5. Shaped(c) /\ AllFree(c) /\ Resolved(c)
  BY <1>1, <1>2 DEF TxnLogic
<1>6. Shaped(c)' /\ AllFree(c)' /\ Resolved(c)'
  BY <1>4, <1>5 DEF Shaped, AllFree, Resolved, Creations, Free
<1>7. StagedFree(c)' /\ LoggedFree(c)' /\ Cleared(c)'
  <2>1. txn'[c] = c
    BY <1>1, <1>4 DEF Footprint
  <2> QED BY <1>6, <2>1 DEF AllFree, StagedFree, LoggedFree, Cleared
<1>8. TxnLogic(c)'
  BY <1>1, <1>6, <1>7 DEF TxnLogic
<1>9. ActorLogic(c)'
  BY <1>1, <1>7 DEF ActorLogic, Progress, Committing, UndoPlaces
<1> QED BY <1>1, <1>4, <1>8, <1>9, WorkerLogic DEF Working

(* A transaction that is being decided, or is no longer there to be undone. *)
LEMMA CleaningLogic ==
  ASSUME TypeInv, PatchInv, LogicInv, OneStarter,
         NEW a \in Actors, NEW x, AtCleanup(a, x), Footprint(a),
         UNCHANGED <<dirs, pc, staged>>, ~Pending(x)',
         pc[a] = "cleanCommit" => outcome'[x] = "applied"
  PROVE  LogicInv'
<1> USE TypeFacts
<1>1. /\ x \in Calls /\ x = txn[a] /\ txn'[a] = x /\ plan' = plan /\ expected' = expected
      /\ pc'[a] = pc[a] /\ pc[a] \in Cleaning /\ (a \in Calls \/ a \in Starters)
      /\ a \in Calls => x = a
      /\ a \in Starters => pc[x] = "crashed"
  BY DEF AtCleanup, Footprint, Cleaning
<1>2. TxnLogic(x)
  BY <1>1 DEF LogicInv
<1>3. TxnLogic(x)'
  BY <1>1, <1>2 DEF TxnLogic, Shaped, Resolved, Creations, Cleaning
<1>4. ActorLogic(a)'
  BY <1>1 DEF ActorLogic, Progress, Cleaning
<1> QED BY <1>1, <1>3, <1>4, WorkerLogic DEF Working

LEMMA RemoveJournalLogic ==
  ASSUME TypeInv, PatchInv, LogicInv, OneStarter, NEW a \in Actors, RemoveJournal(a)
  PROVE  LogicInv'
<1> USE TypeFacts
<1>1. PICK x : x = txn[a]
  OBVIOUS
<1>2. AtCleanup(a, x)
  BY <1>1, CleanerFacts DEF RemoveJournal
<1>3. Footprint(a)
  BY <1>1, <1>2 DEF AtCleanup, RemoveJournal, Decide, Footprint
<1>4. journal'[x] = NoJournal /\ (pc[a] = "cleanCommit" => outcome'[x] = "applied")
  BY <1>1, <1>2 DEF AtCleanup, RemoveJournal, Decide
<1> QED BY <1>2, <1>3, <1>4, CleaningLogic DEF RemoveJournal, Pending

(* At the end of a rollback no backup is left to remove. *)
LEMMA NoBackupsLeft ==
  ASSUME TypeInv, PatchInv, NEW a \in Actors, RemoveBackups(a)
  PROVE  pc[a] = "cleanCommit"
<1> USE TypeFacts
<1>1. PICK x : x = txn[a]
  OBVIOUS
<1>2. AtCleanup(a, x) /\ ~NoBackups(x)
  BY <1>1, CleanerFacts DEF RemoveBackups
<1>3. CASE pc[a] = "cleanDiscard"
  BY <1>2, <1>3 DEF AtCleanup, Lawful, Untouched
<1>4. CASE pc[a] = "cleanRollback"
  <2>1. Backups(x) = {}
    BY <1>2, <1>4 DEF AtCleanup, Placed
  <2>2. \A j \in DOMAIN backup[x] : j \in DOMAIN plan[x]
    BY <1>2, <1>4, CleaningIsPlanned DEF AtCleanup
  <2> QED BY <1>2, <2>1, <2>2 DEF NoBackups, Backups
<1> QED BY <1>2, <1>3, <1>4 DEF AtCleanup

LEMMA RemoveBackupsLogic ==
  ASSUME TypeInv, PatchInv, LogicInv, OneStarter, NEW a \in Actors, RemoveBackups(a)
  PROVE  LogicInv'
<1> USE TypeFacts
<1>1. PICK x : x = txn[a]
  OBVIOUS
<1>2. AtCleanup(a, x) /\ pc[a] = "cleanCommit"
  BY <1>1, CleanerFacts, NoBackupsLeft DEF RemoveBackups
<1>3. Footprint(a)
  BY <1>1, <1>2 DEF AtCleanup, RemoveBackups, Decide, Footprint
<1>4. outcome'[x] = "applied"
  BY <1>1, <1>2 DEF AtCleanup, RemoveBackups, Decide
<1> QED BY <1>2, <1>3, <1>4, CleaningLogic DEF RemoveBackups, Pending

LEMMA RemoveDirectoryLogic ==
  ASSUME TypeInv, PatchInv, LogicInv, OneStarter, NEW a \in Actors, RemoveDirectory(a)
  PROVE  LogicInv' /\ Unseen
<1> USE TypeFacts
<1>1. PICK x : x = txn[a]
  OBVIOUS
<1>2. AtCleanup(a, x)
  BY <1>1, CleanerFacts DEF RemoveDirectory
<1>3. /\ dirs' = dirs \ {x} /\ journal[x] = NoJournal
      /\ UNCHANGED <<files, journal, backup, txn, mem, idx, plan, expected, promise, serving>>
      /\ \A y \in Calls : y # x => staged'[y] = staged[y]
  BY <1>1 DEF RemoveDirectory
<1>4. ~Pending(x) /\ ~Pending(x)'
  BY <1>3 DEF Pending
<1>5. TxnLogic(x)
  BY <1>2 DEF AtCleanup, LogicInv
<1>6. CASE a \in Calls
  <2>1. a = x /\ a \notin Recoverers
    BY <1>2, <1>6 DEF AtCleanup
  <2>2. Finish(a, CleanupResult[pc[a]])
    BY <2>1 DEF RemoveDirectory
  <2>3. Footprint(a) /\ pc'[a] = "done" /\ outcome'[a] = CleanupResult[pc[a]]
    BY <1>1, <1>3, <2>1, <2>2 DEF Finish, Goto, Footprint
  <2>4. pc[a] = "cleanCommit" => outcome[a] = "applied"
    BY <1>4, <1>5, <2>1 DEF TxnLogic
  <2>5. outcome'[a] = "applied" <=> outcome[a] = "applied"
    BY <1>2, <2>1, <2>3, <2>4 DEF AtCleanup, CleanupResult, Lawful
  <2>6. TxnLogic(x)' /\ ActorLogic(a)'
    <3>1. Resolved(x)'
      BY <1>2, <1>3, <1>5, <2>1 DEF AtCleanup, TxnLogic, Resolved
    <3>2. TxnLogic(x)'
      BY <1>3, <1>4, <2>1, <2>3, <3>1 DEF TxnLogic
    <3> QED BY <2>3, <3>2 DEF ActorLogic, Progress, Committing, UndoPlaces
  <2>7. LogicInv'
    BY <1>1, <1>2, <1>3, <1>6, <2>3, <2>6, WorkerLogic DEF AtCleanup, Working, Cleaning
  <2>8. Unseen
    BY <1>1, <1>3, <1>4, <2>1, <2>3, <2>5 DEF Unseen, Ended, Footprint, Pending
  <2> QED BY <2>7, <2>8
<1>7. CASE a \in Starters
  <2>1. /\ a \notin Calls /\ a \in Recoverers /\ a # x /\ pc[x] = "crashed"
    BY <1>2, <1>7 DEF AtCleanup
  <2>2. NextEntry(a) /\ UNCHANGED <<lockq, outcome>>
    BY <2>1 DEF RemoveDirectory
  <2>3. Footprint(a) /\ pc'[a] = "entries" /\ pc'[x] = "crashed"
    BY <1>1, <1>3, <2>1, <2>2 DEF NextEntry, Goto, Footprint
  <2>4. TxnLogic(x)' /\ ActorLogic(a)'
    BY <1>3, <1>4, <2>3 DEF TxnLogic, ActorLogic, Progress, Committing, UndoPlaces
  <2>5. LogicInv'
    BY <1>1, <1>2, <1>3, <1>7, <2>3, <2>4, WorkerLogic DEF AtCleanup, Working, Cleaning
  <2>6. \A y \in Calls : y # a
    BY <2>1
  <2>7. Unseen
    BY <1>1, <1>3, <1>4, <2>2, <2>3, <2>6 DEF Unseen, Ended, Footprint, Pending
  <2> QED BY <2>5, <2>7
<1> QED BY <1>2, <1>6, <1>7 DEF AtCleanup
----------------------------------------------------------------------------
(***************************************************************************)
(* Calls before their commit, recoveries between two transactions, crashes.*)
(***************************************************************************)
LEMMA EarlyLogic ==
  ASSUME TypeInv, PatchInv, LogicInv, NEW c \in Calls, pc[c] \in Early,
         pc'[c] \in Early \cup {"stage", "done"}, pc'[c] # "idle",
         UNCHANGED <<disk, local>>,
         \A d \in Calls : d # c => UNCHANGED <<pc[d], plan[d], expected[d], outcome[d]>>,
         \A s \in Starters : UNCHANGED pc[s],
         serving, pc'[Lazy] \in {"idle", "list", "done"},
         pc'[c] = "snapshot" => Len(plan'[c]) = 1,
         pc'[c] # "snapshot" => Resolved(c)',
         pc'[c] = "stage" => Shaped(c)' /\ AllFree(c)'
  PROVE  LogicInv'
<1> USE TypeFacts
<1>1. c \notin dirs /\ c \notin dirs'
  BY DEF PatchInv, TxnInv, Lawful, Early, Working, Committing, UndoPlaces, Cleaning
<1>2. TxnLogic(c)'
  BY <1>1 DEF TxnLogic, Pending, Early
<1>3. ASSUME NEW y \in Calls, y # c PROVE TxnLogic(y)' /\ SameTxn(y)
  <2>1. SameTxn(y)
    BY <1>3 DEF SameTxn
  <2> QED BY <2>1, OtherTxnLogic DEF LogicInv
<1>4. ASSUME NEW b \in Actors PROVE ActorLogic(b)'
  <2>1. CASE b \in Calls /\ b # c
    <3>1. SameActor(b) /\ SameTxn(txn[b])
      BY <1>3, <2>1 DEF SameActor
    <3>2. pc[b] \in Committing \cup UndoPlaces => txn[b] \in dirs
      BY WorkerFacts DEF AtWork
    <3> QED BY <3>1, <3>2, OtherActorLogic DEF LogicInv
  <2>2. CASE b \notin Calls \/ b = c
    <3>1. pc'[b] \in Early \cup {"stage", "done", "list", "idle"}
      <4>1. b \in Starters => pc'[b] = "done"
        BY DEF PatchInv, RecoveryFirst
      <4>2. b \in Starters \/ b = Lazy \/ b = c
        BY <2>2
      <4> QED BY <4>1, <4>2
    <3> QED BY <3>1 DEF ActorLogic, Progress, Early, Committing, UndoPlaces
  <2> QED BY <2>1, <2>2
<1> QED BY <1>2, <1>3, <1>4 DEF LogicInv

(* A waiting call that states nothing new is not seen.                     *)
LEMMA EarlyUnseen ==
  ASSUME TypeInv, PatchInv, NEW c \in Calls, pc[c] \in Early,
         UNCHANGED <<disk, plan, expected>>,
         \A d \in Calls : d # c => UNCHANGED <<pc[d], outcome[d]>>,
         outcome'[c] # "applied"
  PROVE  Unseen
<1>1. outcome[c] # "applied"
  BY DEF PatchInv, TxnInv, Lawful, Early
<1>2. ~Ended(c)
  BY DEF Ended, Early
<1>3. ASSUME NEW y \in Calls
      PROVE  /\ Pending(y)' <=> Pending(y)
             /\ outcome'[y] = "applied" <=> outcome[y] = "applied"
             /\ Ended(y) => Ended(y)'
  <2>1. CASE y = c
    BY <1>1, <1>2, <2>1 DEF Pending
  <2>2. CASE y # c
    BY <2>2 DEF Pending, Ended
  <2> QED BY <2>1, <2>2
<1> QED BY <1>3 DEF Unseen

LEMMA RequestLogic ==
  ASSUME TypeInv, PatchInv, LogicInv, NEW c \in Calls, Request(c) PROVE LogicInv'
<1> USE TypeFacts
<1>1. /\ pc[c] = "idle" /\ pc'[c] \in {"snapshot", "ensure"} /\ serving /\ c \notin Recoverers
      /\ pc'[c] = "snapshot" <=> Requests[c][1].kind = "replace"
  BY DEF Request, Goto
<1>2. /\ UNCHANGED <<disk, local, outcome>>
      /\ \A b \in Actors : b # c => pc'[b] = pc[b]
      /\ \A d \in Calls : d # c => UNCHANGED <<plan[d], expected[d]>>
      /\ plan'[c] = Requests[c]
  BY DEF Request, Goto, TypeInv, PlansOK
<1>3. /\ Requests[c] \in Seq(Operations) /\ Requests[c] # <<>>
      /\ \A i \in DOMAIN Requests[c] : Requests[c][i].kind = "replace" => Len(Requests[c]) = 1
  BY RequestsAssumption
<1>4. 1 \in DOMAIN Requests[c] /\ (Len(Requests[c]) = 1 => DOMAIN Requests[c] = {1})
  BY <1>3
<1>5. pc'[c] = "snapshot" => Len(plan'[c]) = 1
  BY <1>1, <1>2, <1>3, <1>4
<1>6. pc'[c] # "snapshot" => Resolved(c)'
  BY <1>1, <1>2, <1>3, <1>4 DEF Resolved
<1>7. /\ pc'[Lazy] = pc[Lazy] /\ \A s \in Starters : pc'[s] = pc[s]
      /\ pc[Lazy] \in {"idle", "list", "done"}
  BY <1>1, <1>2 DEF PatchInv, CallsServed
<1> QED BY <1>1, <1>2, <1>5, <1>6, <1>7, EarlyLogic, ZenonT(60) DEF Early

LEMMA SnapshotLogic ==
  ASSUME TypeInv, PatchInv, LogicInv, NEW c \in Calls, Snapshot(c) PROVE LogicInv'
<1> USE TypeFacts
<1>1. pc[c] = "snapshot" /\ pc'[c] = "ensure" /\ c \notin Recoverers
  BY DEF Snapshot, Goto
<1>2. /\ UNCHANGED <<disk, local, outcome, expected>>
      /\ \A b \in Actors : b # c => pc'[b] = pc[b]
      /\ \A d \in Calls : d # c => UNCHANGED plan[d]
  BY DEF Snapshot, Goto
<1>3. serving
  BY <1>1 DEF PatchInv, CallsServed
<1>4. Len(plan[c]) = 1 /\ DOMAIN plan[c] = {1} /\ plan[c][1] \in Operations
  <2>1. Len(plan[c]) = 1
    BY <1>1 DEF LogicInv, TxnLogic
  <2>2. DOMAIN plan[c] = {1}
    BY <2>1
  <2> QED BY <2>1, <2>2, OpTyped
<1>5. Resolved(c)'
  <2> DEFINE exists == files[plan[c][1].tgt] # Missing
             op == [[plan[c][1] EXCEPT !.kind = IF exists THEN "update" ELSE "add"]
                      EXCEPT !.src = IF exists THEN plan[c][1].tgt ELSE NoPath]
             ops == [plan[c] EXCEPT ![1] = op]
  <2>0. plan \in [Calls -> Seq(Operations)] /\ 1 \in DOMAIN plan[c] /\ plan[c] \in Seq(Operations)
    BY <1>4 DEF TypeInv, PlansOK
  <2>1. plan' = [plan EXCEPT ![c] = ops]
    BY ONLY <2>0, Snapshot(c), c \in Calls DEF Snapshot
  <2>2. op.kind # "replace"
    BY <1>4 DEF Operations
  <2> HIDE DEF op
  <2>3. DOMAIN ops = {1} /\ ops[1] = op
    BY <1>4
  <2> HIDE DEF ops
  <2>4. plan'[c] = ops
    BY <2>1
  <2> QED BY <2>2, <2>3, <2>4 DEF Resolved
<1>6. /\ pc'[Lazy] = pc[Lazy] /\ \A s \in Starters : pc'[s] = pc[s]
      /\ pc[Lazy] \in {"idle", "list", "done"}
  BY <1>1, <1>2 DEF PatchInv, CallsServed
<1> QED BY <1>1, <1>2, <1>3, <1>5, <1>6, EarlyLogic DEF Early

(* The plan that a waiting call has stated stays resolved.                 *)
LEMMA WaitingLogic ==
  ASSUME TypeInv, PatchInv, LogicInv, NEW c \in Calls,
         pc[c] \in Early \ {"idle", "snapshot"}, pc'[c] \in Early \cup {"stage", "done"},
         pc'[c] \notin {"idle", "snapshot"},
         UNCHANGED <<disk, local, plan, expected>>,
         \A d \in Calls : d # c => UNCHANGED <<pc[d], outcome[d]>>,
         \A s \in Starters : UNCHANGED pc[s], pc'[Lazy] \in {pc[Lazy], "list"},
         outcome'[c] \in {outcome[c], "rejected"},
         pc'[c] = "stage" => Valid(c)
  PROVE  LogicInv' /\ Unseen
<1> USE TypeFacts
<1>1. serving /\ outcome[c] # "applied" /\ pc'[Lazy] \in {"idle", "list", "done"}
  BY DEF Early, PatchInv, CallsServed, TxnInv, Lawful
<1>2. Resolved(c)'
  BY DEF Early, LogicInv, TxnLogic, Resolved
<1>3. ASSUME Valid(c) PROVE Shaped(c)' /\ AllFree(c)'
  <2>1. ASSUME NEW i \in Creations(c)
        PROVE  /\ files[plan[c][i].tgt] = Missing /\ expected[c][plan[c][i].tgt] = Missing
               /\ plan[c][i].src # plan[c][i].tgt
    <3>1. i \in DOMAIN plan[c] /\ plan[c][i].kind \in {"add", "move"}
      BY <2>1 DEF Creations
    <3>2. plan[c][i].tgt \in Touched(c) /\ plan[c][i].tgt \in Paths
      BY <3>1, OpPathsIn
    <3>3. files[plan[c][i].tgt] = Missing /\ expected[c][plan[c][i].tgt] = Missing
      BY <1>3, <3>1, <3>2 DEF Valid
    <3>4. HasSource(plan[c][i]) => files[plan[c][i].src] # Missing
      BY <1>3, <3>1 DEF Valid
    <3> QED BY <3>2, <3>3, <3>4, PathsAssumption DEF HasSource
  <2> QED BY <2>1 DEF Shaped, AllFree, Free, Creations
<1>4. LogicInv'
  BY <1>1, <1>2, <1>3, EarlyLogic
<1>5. Unseen
  BY <1>1, EarlyUnseen
<1> QED BY <1>4, <1>5

LEMMA CallsWait ==
  ASSUME TypeInv, PatchInv, LogicInv, NEW c \in Calls,
         EnsureRecovered(c) \/ AwaitRecovery(c) \/ Preflight(c) \/ AcquireLock(c) \/ Revalidate(c)
  PROVE  LogicInv' /\ Unseen
<1> USE TypeFacts
<1>1. /\ pc[c] \in {"ensure", "await", "preflight", "lock", "revalidate"}
      /\ c \notin Recoverers /\ c # Lazy /\ Lazy \notin Starters
      /\ UNCHANGED <<disk, local, plan, expected>>
  BY ActorsAssumption
  DEF EnsureRecovered, AwaitRecovery, Preflight, AcquireLock, Revalidate
<1>2. \/ Finish(c, "rejected")
      \/ /\ outcome' = outcome
         /\ \/ /\ pc'[c] \in {"await", "preflight", "lock", "revalidate", "stage"}
               /\ pc'[c] = "stage" => Valid(c)
               /\ \A b \in Actors : b # c => pc'[b] = pc[b]
            \/ pc' = [pc EXCEPT ![c] = "await", ![Lazy] = "list"]
  <2>1. ASSUME NEW place \in {"await", "preflight", "lock", "revalidate", "stage"}, Goto(c, place)
        PROVE  /\ pc'[c] = place
               /\ \A b \in Actors : b # c => pc'[b] = pc[b]
    BY <2>1 DEF Goto
  <2>2. CASE EnsureRecovered(c)
    <3>1. \/ Finish(c, "rejected")
          \/ outcome' = outcome /\ pc' = [pc EXCEPT ![c] = "await", ![Lazy] = "list"]
          \/ outcome' = outcome /\ Goto(c, "await")
      BY <2>2, Zenon DEF EnsureRecovered
    <3> QED BY <2>1, <3>1
  <2>3. CASE AwaitRecovery(c)
    <3>1. Finish(c, "rejected") \/ (outcome' = outcome /\ Goto(c, "preflight"))
      BY <2>3, Zenon DEF AwaitRecovery
    <3> QED BY <2>1, <3>1
  <2>4. CASE Preflight(c)
    <3>1. Finish(c, "rejected") \/ (outcome' = outcome /\ Goto(c, "lock"))
      BY <2>4, Zenon DEF Preflight
    <3> QED BY <2>1, <3>1
  <2>5. CASE AcquireLock(c)
    <3>1. /\ outcome' = outcome /\ pc[c] = "lock"
          /\ pc' = pc \/ Goto(c, "revalidate")
      BY <2>5, Zenon DEF AcquireLock, calls
    <3> QED BY <2>1, <3>1
  <2>6. CASE Revalidate(c)
    <3>1. Finish(c, "rejected") \/ (outcome' = outcome /\ Goto(c, "stage") /\ Valid(c))
      BY <2>6, Zenon DEF Revalidate
    <3> QED BY <2>1, <3>1
  <2> QED BY <2>2, <2>3, <2>4, <2>5, <2>6
<1>3. /\ \A d \in Calls : d # c => UNCHANGED <<pc[d], outcome[d]>>
      /\ \A s \in Starters : pc'[s] = pc[s]
      /\ pc'[Lazy] \in {pc[Lazy], "list"}
      /\ outcome'[c] \in {outcome[c], "rejected"}
      /\ pc'[c] \in {"await", "preflight", "lock", "revalidate", "stage", "done"}
      /\ pc'[c] = "stage" => Valid(c)
  <2>1. CASE Finish(c, "rejected")
    BY <1>1, <2>1 DEF Finish, Goto
  <2>2. CASE /\ outcome' = outcome
             /\ pc'[c] \in {"await", "preflight", "lock", "revalidate", "stage"}
             /\ pc'[c] = "stage" => Valid(c)
             /\ \A b \in Actors : b # c => pc'[b] = pc[b]
    <3>1. \A s \in Recoverers : s \in Actors /\ s # c
      BY <1>1
    <3>2. \A d \in Calls : d # c => UNCHANGED <<pc[d], outcome[d]>>
      BY <2>2
    <3>3. (\A s \in Starters : pc'[s] = pc[s]) /\ pc'[Lazy] = pc[Lazy]
      BY <2>2, <3>1
    <3> QED BY <2>2, <3>2, <3>3
  <2>3. CASE outcome' = outcome /\ pc' = [pc EXCEPT ![c] = "await", ![Lazy] = "list"]
    <3>1. \A s \in Recoverers : s \in Actors /\ s # c
      BY <1>1
    <3>2. pc'[c] = "await" /\ pc'[Lazy] = "list"
      BY <1>1, <2>3
    <3>3. \A b \in Actors : b # c /\ b # Lazy => pc'[b] = pc[b]
      BY <2>3
    <3>4. \A d \in Calls : d # c => UNCHANGED <<pc[d], outcome[d]>>
      BY <2>3, <3>3
    <3>5. \A s \in Starters : pc'[s] = pc[s]
      BY <1>1, <3>1, <3>3
    <3> QED BY <2>3, <3>2, <3>4, <3>5
  <2> QED BY <1>2, <2>1, <2>2, <2>3
<1>4. /\ pc[c] \in Early \ {"idle", "snapshot"} /\ pc'[c] \in Early \cup {"stage", "done"}
      /\ pc'[c] \notin {"idle", "snapshot"}
  BY <1>1, <1>3 DEF Early
<1>5. \A s \in Starters : UNCHANGED pc[s]
  BY <1>3
<1> HIDE TypeFacts
<1> QED BY <1>1, <1>3, <1>4, <1>5, WaitingLogic

LEMMA AsBefore ==
  ASSUME TypeInv, PatchInv, LogicInv, UNCHANGED <<disk, pc, local, plan, expected, outcome>>
  PROVE  LogicInv' /\ Unseen
<1> USE TypeFacts
<1>1. \A y \in Calls : TxnLogic(y)' /\ SameTxn(y)
  BY OtherTxnLogic DEF SameTxn, LogicInv
<1>2. ASSUME NEW b \in Actors PROVE ActorLogic(b)'
  <2>1. SameActor(b) /\ SameTxn(txn[b])
    BY <1>1 DEF SameActor
  <2>2. pc[b] \in Committing \cup UndoPlaces => txn[b] \in dirs
    BY WorkerFacts DEF AtWork
  <2> QED BY <2>1, <2>2, OtherActorLogic DEF LogicInv
<1>3. Unseen
  BY DEF Unseen, Pending, Ended
<1> QED BY <1>1, <1>2, <1>3 DEF LogicInv

LEMMA RecovererLogic ==
  ASSUME TypeInv, PatchInv, LogicInv, NEW r \in Recoverers,
         UNCHANGED <<disk, plan, expected, outcome>>,
         \A b \in Actors : b # r => SameActor(b), ActorLogic(r)'
  PROVE  LogicInv' /\ Unseen
<1> USE TypeFacts
<1>1. \A y \in Calls : y # r
  OBVIOUS
<1>2. \A y \in Calls : SameTxn(y)
  BY <1>1 DEF SameTxn, SameActor
<1>3. \A y \in Calls : TxnLogic(y)'
  BY <1>2, OtherTxnLogic DEF LogicInv
<1>4. ASSUME NEW b \in Actors PROVE ActorLogic(b)'
  <2>1. CASE b # r
    <3>1. pc[b] \in Committing \cup UndoPlaces => txn[b] \in dirs
      BY WorkerFacts DEF AtWork
    <3> QED BY <1>2, <2>1, <3>1, OtherActorLogic DEF LogicInv
  <2> QED BY <2>1
<1>5. Unseen
  BY <1>1 DEF Unseen, Pending, Ended, SameActor
<1> QED BY <1>3, <1>4, <1>5 DEF LogicInv

LEMMA RecoveryLogic ==
  ASSUME TypeInv, PatchInv, LogicInv, NEW r \in Recoverers,
         StartBridge(r) \/ ListTransactions(r) \/ ListFails(r) \/ RecoveryDone(r)
  PROVE  LogicInv' /\ Unseen
<1> USE TypeFacts
<1>1. /\ UNCHANGED <<disk, plan, expected, outcome, local>>
      /\ \E l \in {"list", "entries", "done"} : Goto(r, l)
  BY DEF StartBridge, ListTransactions, ListFails, RecoveryDone, Settle
<1>2. pc'[r] \in {"list", "entries", "done"} /\ \A b \in Actors : b # r => SameActor(b)
  BY <1>1 DEF Goto, SameActor
<1>3. ActorLogic(r)'
  BY <1>2 DEF ActorLogic, Progress, Committing, UndoPlaces
<1> QED BY <1>1, <1>2, <1>3, RecovererLogic

LEMMA RecoverEntryLogic ==
  ASSUME TypeInv, PatchInv, LogicInv, NEW r \in Recoverers, NEW x \in Calls, RecoverEntry(r, x)
  PROVE  LogicInv' /\ Unseen
<1> USE TypeFacts
<1>1. pc[r] = "entries" /\ r \in Starters
  BY DEF RecoverEntry, PatchInv, CallsServed
<1>2. \A c \in dirs : pc[c] = "crashed"
  BY <1>1, Alone
<1>3. UNCHANGED <<disk, plan, expected, outcome>> /\ \A b \in Actors : b # r => SameActor(b)
  BY DEF RecoverEntry, SameActor, Goto
<1>4. CASE journal[x] # NoJournal /\ txn' = [txn EXCEPT ![r] = x]
           /\ mem' = [mem EXCEPT ![r] = journal[x]] /\ Goto(r, "rollback")
  <2>1. x \in dirs /\ Lawful(x)
    BY <1>4 DEF PatchInv, TxnInv, Lawful
  <2>2. pc[x] = "crashed" /\ Pending(x)
    BY <1>2, <1>4, <2>1 DEF Lawful, Pending
  <2>3. LoggedFree(x)
    BY <2>2 DEF LogicInv, TxnLogic
  <2>4. txn'[r] = x /\ mem'[r] = journal[x] /\ pc'[r] = "rollback"
    BY <1>4 DEF Goto
  <2>5. Cleared(r)'
    BY <1>3, <2>3, <2>4 DEF Cleared, LoggedFree, Creations, Free
  <2>6. ActorLogic(r)'
    BY <2>4, <2>5 DEF ActorLogic, Progress
  <2> QED BY <1>3, <2>6, RecovererLogic
<1>5. CASE UNCHANGED pc
  <2>1. ActorLogic(r)'
    BY <1>1, <1>5 DEF ActorLogic, Progress, Committing, UndoPlaces
  <2> QED BY <1>3, <2>1, RecovererLogic
<1> QED BY <1>4, <1>5 DEF RecoverEntry

(* Outside the torn windows the journal on disk names all that was placed. *)
LEMMA CrashLogic ==
  ASSUME TypeInv, PatchInv, LogicInv, ~TornWindows, Crash PROVE LogicInv' /\ Unseen
<1> USE TypeFacts
<1>1. /\ UNCHANGED <<disk, plan, expected, outcome>> /\ \A c \in Calls : ~Torn(c)
      /\ \A r \in Recoverers : pc'[r] = "idle"
      /\ \A c \in Calls : pc'[c] = IF Running(c) THEN "crashed" ELSE pc[c]
  BY DEF Crash
<1>2. \A c \in Calls : pc'[c] \in {"idle", "done", "crashed"}
  BY <1>1 DEF Running
<1>3. ASSUME NEW x \in Calls PROVE TxnLogic(x)'
  <2>1. TxnInv(x) /\ Lawful(x) /\ TxnLogic(x) /\ ActorLogic(x) /\ ~Torn(x)
    BY <1>1 DEF PatchInv, TxnInv, LogicInv
  <2>2. Pending(x)' = Pending(x) /\ Creations(x)' = Creations(x)
    BY <1>1 DEF Pending, Creations
  <2>3. x \in dirs' => Shaped(x)' /\ Resolved(x)'
    BY <1>1, <2>1, <2>2 DEF TxnLogic, Shaped, Resolved
  <2>4. pc'[x] = "done" => Resolved(x)'
    BY <1>1, <2>1 DEF TxnLogic, Resolved, Running
  <2>5. Pending(x)' => StagedFree(x)'
    BY <1>1, <2>1, <2>2 DEF TxnLogic, StagedFree, Free
  <2>6. Pending(x) => LoggedFree(x)'
    <3> SUFFICES ASSUME Pending(x), NEW i \in Creations(x), i \notin journal[x].committed
                 PROVE  Free(x, i)
      BY <1>1, <2>2 DEF LoggedFree, Free
    <3>1. x \in dirs /\ journal[x] # NoJournal /\ pc[x] \in Working \cup {"crashed"}
      BY <2>1 DEF Pending, Lawful
    <3>2. i \notin mem[x].committed
      BY <2>1, <3>1 DEF Torn
    <3>3. CASE pc[x] \in Committing \cup UndoPlaces \cup {"cleanCommit"}
      BY <2>1, <3>2, <3>3 DEF ActorLogic, Cleared
    <3>4. CASE pc[x] \in {"prepare", "cleanDiscard"}
      BY <2>1, <3>1, <3>4 DEF Lawful, Untouched
    <3>5. CASE pc[x] = "cleanRollback"
      BY <2>1, <3>5 DEF ActorLogic, Progress, AllFree
    <3>6. CASE pc[x] = "crashed"
      BY <2>1, <3>6 DEF TxnLogic, LoggedFree
    <3> QED BY <3>1, <3>3, <3>4, <3>5, <3>6 DEF Working, Cleaning
  <2> QED BY <1>2, <2>2, <2>3, <2>4, <2>5, <2>6 DEF TxnLogic
<1>4. ASSUME NEW b \in Actors PROVE ActorLogic(b)'
  <2>1. pc'[b] \in {"idle", "done", "crashed"}
    BY <1>1, <1>2
  <2> QED BY <2>1 DEF ActorLogic, Progress, Committing, UndoPlaces
<1>5. Unseen
  BY <1>1 DEF Unseen, Pending, Ended, Running
<1> QED BY <1>3, <1>4, <1>5 DEF LogicInv

LEMMA LogicInit == TypeInv /\ Init => LogicInv
<1> SUFFICES ASSUME TypeInv, Init PROVE LogicInv
  OBVIOUS
<1>1. /\ \A a \in Actors : pc[a] = "idle"
      /\ \A c \in Calls : pc[c] = "idle" /\ c \notin dirs
  BY TypeFacts DEF Init
<1>2. \A x \in Calls : TxnLogic(x)
  BY <1>1 DEF TxnLogic, Pending
<1>3. \A a \in Actors : ActorLogic(a)
  BY <1>1 DEF ActorLogic, Progress, Committing, UndoPlaces
<1> QED BY <1>2, <1>3 DEF LogicInv
----------------------------------------------------------------------------
(***************************************************************************)
(* What a caller may rely on: the files a pending transaction touches are  *)
(* as its call expected them, whatever it has done to them so far.         *)
(***************************************************************************)
LEMMA SavedIs ==
  ASSUME TypeInv, NEW p, NEW v
  PROVE  v \in SavedAt(p) <=>
           /\ v # Missing
           /\ \E x \in Calls : Pending(x) /\ \E i \in DOMAIN plan[x] :
                plan[x][i].src = p /\ v = backup[x][i]
<1>1. \A ci : ci \in PendingOps <=>
        \E x \in Calls : Pending(x) /\ \E i \in DOMAIN plan[x] : ci = <<x, i>>
  BY DEF PendingOps, Pending, TypeInv, DirsOK
<1>2. v \in SavedAt(p) <=>
        /\ v # Missing
        /\ \E ci \in PendingOps : plan[ci[1]][ci[2]].src = p /\ v = backup[ci[1]][ci[2]]
  BY DEF SavedAt
<1>3. ASSUME NEW ci \in PendingOps, plan[ci[1]][ci[2]].src = p, v = backup[ci[1]][ci[2]]
      PROVE  \E x \in Calls : Pending(x) /\ \E i \in DOMAIN plan[x] :
               plan[x][i].src = p /\ v = backup[x][i]
  <2>1. PICK x \in Calls : Pending(x) /\ \E i \in DOMAIN plan[x] : ci = <<x, i>>
    BY <1>1, <1>3
  <2>2. PICK i \in DOMAIN plan[x] : ci = <<x, i>>
    BY <2>1
  <2>3. ci[1] = x /\ ci[2] = i
    BY <2>2
  <2> QED BY <1>3, <2>1, <2>2, <2>3
<1>4. ASSUME NEW x \in Calls, Pending(x), NEW i \in DOMAIN plan[x],
             plan[x][i].src = p, v = backup[x][i]
      PROVE  \E ci \in PendingOps : plan[ci[1]][ci[2]].src = p /\ v = backup[ci[1]][ci[2]]
  <2>1. <<x, i>> \in PendingOps
    BY <1>1, <1>4
  <2>2. <<x, i>>[1] = x /\ <<x, i>>[2] = i
    OBVIOUS
  <2> QED BY <1>4, <2>1, <2>2
<1> QED BY <1>2, <1>3, <1>4

LEMMA CreatedIs ==
  ASSUME TypeInv, NEW p
  PROVE  CreatedAt(p) <=>
           \E x \in Calls : Pending(x) /\ \E i \in DOMAIN plan[x] :
             /\ plan[x][i].tgt = p /\ plan[x][i].kind \in {"add", "move"}
             /\ i \notin staged[x]
<1>1. \A ci : ci \in PendingOps <=>
        \E x \in Calls : Pending(x) /\ \E i \in DOMAIN plan[x] : ci = <<x, i>>
  BY DEF PendingOps, Pending, TypeInv, DirsOK
<1>2. ASSUME NEW ci \in PendingOps, plan[ci[1]][ci[2]].tgt = p,
             plan[ci[1]][ci[2]].kind \in {"add", "move"}, ci[2] \notin staged[ci[1]]
      PROVE  \E x \in Calls : Pending(x) /\ \E i \in DOMAIN plan[x] :
               /\ plan[x][i].tgt = p /\ plan[x][i].kind \in {"add", "move"}
               /\ i \notin staged[x]
  <2>1. PICK x \in Calls : Pending(x) /\ \E i \in DOMAIN plan[x] : ci = <<x, i>>
    BY <1>1, <1>2
  <2>2. PICK i \in DOMAIN plan[x] : ci = <<x, i>>
    BY <2>1
  <2>3. ci[1] = x /\ ci[2] = i
    BY <2>2
  <2> QED BY <1>2, <2>1, <2>2, <2>3
<1>3. ASSUME NEW x \in Calls, Pending(x), NEW i \in DOMAIN plan[x],
             plan[x][i].tgt = p, plan[x][i].kind \in {"add", "move"}, i \notin staged[x]
      PROVE  \E ci \in PendingOps : /\ plan[ci[1]][ci[2]].tgt = p
                                     /\ plan[ci[1]][ci[2]].kind \in {"add", "move"}
                                     /\ ci[2] \notin staged[ci[1]]
  <2>1. <<x, i>> \in PendingOps
    BY <1>1, <1>3
  <2>2. <<x, i>>[1] = x /\ <<x, i>>[2] = i
    OBVIOUS
  <2> QED BY <1>3, <2>1, <2>2
<1> QED BY <1>2, <1>3 DEF CreatedAt

Relied(p) ==
  /\ \A x \in Calls : Pending(x) /\ p \in Touched(x) => Logical[p] = expected[x][p]
  /\ (\A x \in Calls : Pending(x) => p \notin Touched(x)) => Logical[p] = files[p]

LEMMA LogicalIs == Sane => \A p \in Paths : Relied(p)
<1> SUFFICES ASSUME TypeInv, PatchInv, LogicInv, NEW p \in Paths PROVE Relied(p)
  BY DEF Sane
<1> USE TypeFacts
<1>1. \A v : v \in SavedAt(p) <=>
           /\ v # Missing
           /\ \E x \in Calls : Pending(x) /\ \E i \in DOMAIN plan[x] :
                plan[x][i].src = p /\ v = backup[x][i]
  BY SavedIs
<1>2. CreatedAt(p) <=>
           \E x \in Calls : Pending(x) /\ \E i \in DOMAIN plan[x] :
             /\ plan[x][i].tgt = p /\ plan[x][i].kind \in {"add", "move"}
             /\ i \notin staged[x]
  BY CreatedIs
<1>3. /\ SavedAt(p) = {} /\ ~CreatedAt(p) => Logical[p] = files[p]
      /\ SavedAt(p) = {} /\ CreatedAt(p) => Logical[p] = Missing
      /\ \A v : SavedAt(p) = {v} => Logical[p] = v
  <2>1. ASSUME NEW v, SavedAt(p) = {v} PROVE (CHOOSE w \in SavedAt(p) : TRUE) = v
    BY <2>1
  <2> QED BY <2>1 DEF Logical
<1>4. \A x \in Calls : \A i \in DOMAIN plan[x] :
        plan[x][i].src = p \/ plan[x][i].tgt = p => p \in OpPaths(plan[x][i]) /\ p \in Touched(x)
  BY PathsAssumption DEF OpPaths, Touched
<1>5. ASSUME \A x \in Calls : Pending(x) => p \notin Touched(x) PROVE Logical[p] = files[p]
  BY <1>1, <1>2, <1>3, <1>4, <1>5
<1>6. ASSUME NEW x \in Calls, Pending(x), p \in Touched(x) PROVE Logical[p] = expected[x][p]
  <2>1. PICK i \in DOMAIN plan[x] : p \in OpPaths(plan[x][i])
    BY <1>6 DEF Touched
  <2>2. x \in dirs /\ TxnInv(x) /\ TxnLogic(x)
    BY <1>6 DEF Pending, PatchInv, LogicInv
  <2>3. Sound(x) /\ Kept(x) /\ Shaped(x) /\ Resolved(x) /\ StagedFree(x)
    BY <1>6, <2>2 DEF TxnInv, TxnLogic
  <2>4. ASSUME NEW y \in Calls, Pending(y), NEW j \in DOMAIN plan[y],
               plan[y][j].src = p \/ plan[y][j].tgt = p
        PROVE  y = x /\ j = i
    <3>1. p \in OpPaths(plan[y][j]) /\ p \in Touched(y)
      BY <1>4, <2>4
    <3>2. y = x
      BY <1>6, <2>2, <2>4, <3>1 DEF PatchInv, Disjoint, Pending
    <3> QED BY <2>1, <2>3, <3>1, <3>2 DEF Sound
  <2>5. plan[x][i].src = p \/ plan[x][i].tgt = p
    BY <2>1 DEF OpPaths
  <2>6. CASE plan[x][i].src = p
    <3>2. i \in Sourced(x)
      BY <2>6, PathsAssumption DEF Sourced, HasSource
    <3>3. ~CreatedAt(p)
      BY <1>2, <2>3, <2>4, <2>6 DEF Shaped, Creations
    <3>4. CASE i \in Backups(x)
      <4>1. backup[x][i] = expected[x][p] /\ backup[x][i] # Missing
        BY <2>3, <2>6, <3>2, <3>4 DEF Kept, Backups
      <4>2. SavedAt(p) = {backup[x][i]}
        BY <1>1, <1>6, <2>4, <2>6, <4>1
      <4> QED BY <1>3, <4>1, <4>2
    <3>5. CASE i \notin Backups(x)
      <4>1. backup[x][i] = Missing /\ files[p] = expected[x][p]
        BY <2>3, <2>6, <3>2, <3>5 DEF Kept, Backups
      <4>2. SavedAt(p) = {}
        BY <1>1, <2>4, <4>1
      <4> QED BY <1>3, <3>3, <4>1, <4>2
    <3> QED BY <3>4, <3>5
  <2>7. CASE plan[x][i].src # p
    <3>1. plan[x][i].tgt = p /\ plan[x][i].kind \in {"add", "move"}
      BY <2>3, <2>5, <2>7, OpShape DEF Resolved
    <3>2. i \in Creations(x) /\ expected[x][p] = Missing
      BY <2>3, <3>1 DEF Creations, Shaped
    <3>3. SavedAt(p) = {}
      BY <1>1, <2>4, <2>7
    <3>4. CreatedAt(p) \/ files[p] = Missing
      BY <1>2, <1>6, <2>3, <3>1, <3>2 DEF StagedFree, Free
    <3> QED BY <1>3, <3>2, <3>3, <3>4
  <2> QED BY <2>6, <2>7
<1> QED BY <1>5, <1>6 DEF Relied

LEMMA LogicalIsNext == Sane' => \A p \in Paths : Relied(p)'
<1>1. Sane' => (\A p \in Paths : Relied(p))'
  BY LogicalIs, PTL
<1> QED BY <1>1

(* A transaction that has done nothing yet, or has undone all.             *)
LEMMA AtRest ==
  ASSUME TypeInv, NEW x \in Calls, Kept(x), Backups(x) = {}, AllFree(x), Shaped(x), Resolved(x),
         NEW p \in Touched(x)
  PROVE  files[p] = expected[x][p]
<1>1. PICK i \in DOMAIN plan[x] : p \in OpPaths(plan[x][i])
  BY DEF Touched
<1>2. CASE p = plan[x][i].src
  <2>1. i \in Sourced(x)
    BY <1>1, <1>2 DEF OpPaths, Sourced, HasSource
  <2> QED BY <1>2, <2>1 DEF Kept
<1>3. CASE p # plan[x][i].src
  <2>1. p = plan[x][i].tgt /\ plan[x][i].kind \in {"add", "move"}
    BY <1>1, <1>3, OpShape DEF OpPaths, Resolved
  <2> QED BY <2>1 DEF Creations, AllFree, Free, Shaped
<1> QED BY <1>2, <1>3

(* A step that leaves the pending transactions alone.                      *)
LEMMA Calm ==
  ASSUME Sane, Sane',
         \A y \in Calls : /\ Pending(y)' <=> Pending(y)
                          /\ Pending(y) => plan'[y] = plan[y] /\ expected'[y] = expected[y],
         \A p \in Paths : (\A y \in Calls : Pending(y) => p \notin Touched(y)) => files'[p] = files[p]
  PROVE  Logical' = Logical
<1>1. ASSUME NEW p \in Paths PROVE Logical'[p] = Logical[p]
  <2>1. Relied(p) /\ Relied(p)'
    BY LogicalIs, LogicalIsNext
  <2>2. \A y \in Calls : Pending(y) => Touched(y)' = Touched(y)
    BY DEF Touched
  <2>3. CASE \E y \in Calls : Pending(y) /\ p \in Touched(y)
    BY <2>1, <2>2, <2>3 DEF Relied
  <2>4. CASE \A y \in Calls : Pending(y) => p \notin Touched(y)
    BY <2>1, <2>2, <2>4 DEF Relied
  <2> QED BY <2>3, <2>4
<1> QED BY <1>1 DEF Logical

(* A transaction begins to be pending, or ends, with nothing to undo.      *)
LEMMA ComesAndGoes ==
  ASSUME Sane, Sane', NEW x \in Calls, UNCHANGED <<plan, expected, files>>,
         \A y \in Calls : y # x => (Pending(y)' <=> Pending(y)),
         \A p \in Touched(x) : files[p] = expected[x][p]
  PROVE  Logical' = Logical
<1>1. ASSUME NEW p \in Paths PROVE Logical'[p] = Logical[p]
  <2>1. Relied(p) /\ Relied(p)'
    BY LogicalIs, LogicalIsNext
  <2>2. \A y \in Calls : Touched(y)' = Touched(y)
    BY DEF Touched
  <2>3. CASE \E y \in Calls : y # x /\ Pending(y) /\ p \in Touched(y)
    BY <2>1, <2>2, <2>3 DEF Relied
  <2>4. CASE \A y \in Calls : y # x /\ Pending(y) => p \notin Touched(y)
    <3>1. Logical[p] = files[p]
      BY <2>1, <2>4 DEF Relied
    <3>2. Logical'[p] = files[p]
      BY <2>1, <2>2, <2>4 DEF Relied
    <3> QED BY <3>1, <3>2
  <2> QED BY <2>3, <2>4
<1> QED BY <1>1 DEF Logical
----------------------------------------------------------------------------
(***************************************************************************)
(* Every step is one of the promise, or none.                              *)
(***************************************************************************)
Agreed == [c \in Calls |-> [plan |-> plan[c], expected |-> expected[c]]]

LEMMA OnlyRefuses ==
  ASSUME Logical' = Logical, UNCHANGED <<plan, expected>>,
         \A y \in Calls : /\ outcome'[y] = "applied" <=> outcome[y] = "applied"
                          /\ Ended(y) => Ended(y)'
  PROVE  Promise!Next
<1> DEFINE S == {c \in Calls : Decision[c] = "none" /\ Decision'[c] = "refused"}
<1>1. Decision' = [c \in Calls |-> IF c \in S THEN "refused" ELSE Decision[c]]
  <2>1. ASSUME NEW c \in Calls
        PROVE  Decision'[c] = IF c \in S THEN "refused" ELSE Decision[c]
    BY DEF Decision, Ended
  <2>2. Decision' = [c \in Calls |-> Decision'[c]]
    BY DEF Decision
  <2> QED BY <2>1, <2>2
<1>2. S \in SUBSET Calls /\ \A c \in S : Decision[c] = "none"
  OBVIOUS
<1>3. Agreed' = Agreed
  BY DEF Agreed
<1> HIDE DEF S
<1>4. Promise!RefuseAll(S)
  BY <1>1, <1>2, <1>3 DEF Promise!RefuseAll, Agreed
<1> QED BY <1>2, <1>4 DEF Promise!Next

LEMMA AgreesOnce ==
  ASSUME TypeInv, PatchInv, NEW c \in Calls, Request(c) \/ Snapshot(c), Logical' = Logical
  PROVE  Promise!Next
<1> USE TypeFacts
<1>1. pc[c] \in {"idle", "snapshot"} /\ pc'[c] \in {"snapshot", "ensure"} /\ c \notin Recoverers
  BY DEF Request, Snapshot, Goto
<1>2. /\ outcome' = outcome
      /\ \A d \in Calls : d # c => UNCHANGED <<pc[d], plan[d], expected[d]>>
  BY DEF Request, Snapshot, Goto, TypeInv, PlansOK
<1>3. outcome[c] # "applied"
  BY <1>1 DEF PatchInv, TxnInv, Lawful
<1>4. Decision' = Decision /\ Decision[c] = "none"
  <2>1. \A d \in Calls : Decision'[d] = Decision[d]
    BY <1>1, <1>2, <1>3 DEF Decision
  <2> QED BY <1>1, <1>3, <2>1 DEF Decision
<1>5. Agreed' = [Agreed EXCEPT ![c] = Agreed'[c]]
  <2>1. \A d \in Calls : d # c => Agreed'[d] = Agreed[d]
    BY <1>2 DEF Agreed
  <2> QED BY <2>1 DEF Agreed
<1>6. Promise!Agree(c)
  BY <1>4, <1>5 DEF Promise!Agree, Agreed
<1> QED BY <1>6 DEF Promise!Next

LEMMA PlanIsTouched == \A c \in Calls : Promise!Touched(plan[c]) = Touched(c)
  BY DEF Promise!Touched, Touched, Promise!OpPaths, OpPaths

(* The journal, or the first backup, goes: the call has taken effect.      *)
LEMMA CommitsAtOnce ==
  ASSUME Sane, Sane', NEW c \in Calls, pc[c] = "cleanCommit", Pending(c), AllPerformed(c),
         UNCHANGED <<files, plan, expected, pc, dirs>>, outcome'[c] = "applied",
         \A y \in Calls : y # c => outcome'[y] = outcome[y] /\ (Pending(y)' <=> Pending(y))
  PROVE  Promise!Next
<1> USE TypeFacts DEF Sane
<1>1. /\ ~Pending(c)' /\ c \in dirs /\ TxnInv(c) /\ TxnLogic(c)
  BY DEF Pending, PatchInv, LogicInv
<1>2. Sound(c) /\ Resolved(c) /\ Shaped(c)
  BY <1>1 DEF TxnInv, TxnLogic
<1>3. /\ Decision[c] = "none" /\ Decision' = [Decision EXCEPT ![c] = "applied"]
  <2>1. Decision[c] = "none" /\ Decision'[c] = "applied"
    BY DEF Decision, Pending
  <2>2. \A d \in Calls : d # c => Decision'[d] = Decision[d]
    BY DEF Decision
  <2>3. Decision = [d \in Calls |-> Decision[d]] /\ Decision' = [d \in Calls |-> Decision'[d]]
    BY DEF Decision
  <2> QED BY <2>1, <2>2, <2>3
<1>4. plan[c] # <<>> /\ plan[c] \in Seq(Operations)
  BY DEF TypeInv, Planned, PlansOK
<1>5. \A p \in Touched(c) : p \in Paths /\ expected[c][p] = Logical[p]
  <2>1. \A p \in Touched(c) : p \in Paths
    BY OpPathsIn DEF Touched
  <2> QED BY <2>1, LogicalIs DEF Relied
<1>6. Agreed[c] = [plan |-> plan[c], expected |-> expected[c]] /\ Agreed' = Agreed
  BY DEF Agreed
<1>7. Promise!AsExpected(Agreed[c], Logical)
  BY <1>5, <1>6, PlanIsTouched DEF Promise!AsExpected
<1>8. ASSUME NEW p \in Paths PROVE Logical'[p] = Promise!After(Logical, plan[c])[p]
  <2>1. Relied(p) /\ Relied(p)'
    BY LogicalIs, LogicalIsNext
  <2>2. \A y \in Calls : Touched(y)' = Touched(y)
    BY DEF Touched
  <2>3. CASE p \notin Touched(c)
    <3>1. Promise!After(Logical, plan[c])[p] = Logical[p]
      BY <2>3, PlanIsTouched DEF Promise!After
    <3>2. CASE \E y \in Calls : Pending(y) /\ p \in Touched(y)
      BY <2>1, <2>2, <2>3, <3>1, <3>2 DEF Relied
    <3>3. CASE \A y \in Calls : Pending(y) => p \notin Touched(y)
      BY <1>1, <2>1, <2>2, <3>1, <3>3 DEF Relied
    <3> QED BY <3>2, <3>3
  <2>4. CASE p \in Touched(c)
    <3>1. PICK i \in DOMAIN plan[c] : p \in OpPaths(plan[c][i])
      BY <2>4 DEF Touched
    <3>2. \A j \in DOMAIN plan[c] : p \in OpPaths(plan[c][j]) => j = i
      BY <1>2, <3>1 DEF Sound
    <3>3. Promise!LastOf(plan[c], p) = i
      <4>1. \A k : Promise!OpPaths(k) = OpPaths(k)
        BY DEF Promise!OpPaths, OpPaths
      <4>2. i <= i
        BY <3>1
      <4> QED BY <3>1, <3>2, <4>1, <4>2 DEF Promise!LastOf
    <3>4. Promise!After(Logical, plan[c])[p] = Promise!AfterOp(Logical, plan[c][i])[p]
      BY <2>4, <3>3, PlanIsTouched DEF Promise!After
    <3>5. Logical'[p] = files[p]
      <4>1. ASSUME NEW y \in Calls, Pending(y)' PROVE p \notin Touched(y)'
        <5>1. y # c /\ y \in dirs
          BY <1>1, <4>1 DEF Pending
        <5> QED BY <1>1, <2>2, <2>4, <5>1 DEF PatchInv, Disjoint
      <4> QED BY <2>1, <4>1 DEF Relied
    <3>6. Performed(c, i)
      BY <3>1 DEF AllPerformed
    <3>7. Promise!AfterOp(Logical, plan[c][i])[p] = files[p]
      <4>1. p = plan[c][i].tgt \/ p = plan[c][i].src
        BY <3>1 DEF OpPaths
      <4>2. plan[c][i].kind # "replace"
        BY <1>2, <3>1 DEF Resolved
      <4>3. plan[c][i].kind \in {"add"} => p # plan[c][i].src
        BY <3>1, OpShape, PathsAssumption DEF HasSource
      <4> QED BY <3>1, <3>6, <4>1, <4>2, <4>3, OpShape DEF Promise!AfterOp, Performed
    <3> QED BY <3>4, <3>5, <3>7
  <2> QED BY <2>3, <2>4
<1>9. Logical' = Promise!After(Logical, plan[c])
  BY <1>8 DEF Logical, Promise!After
<1>10. Promise!Commit(c)
  BY <1>3, <1>4, <1>6, <1>7, <1>9 DEF Promise!Commit, Agreed
<1> QED BY <1>10 DEF Promise!Next

LEMMA PrepareIsUnseen ==
  ASSUME Sane, Sane', NEW c \in Calls, Prepare(c)
  PROVE  Promise!Next
<1> USE TypeFacts DEF Sane
<1>1. pc[c] = "prepare" /\ pc'[c] \in {"begin", "cleanDiscard"}
  BY DEF Prepare, Goto, WriteJournal
<1>2. TxnInv(c) /\ Lawful(c) /\ TxnLogic(c)
  BY DEF PatchInv, TxnInv, LogicInv
<1>3. Kept(c) /\ Backups(c) = {} /\ Shaped(c) /\ AllFree(c) /\ Resolved(c)
  BY <1>1, <1>2 DEF TxnInv, TxnLogic, Lawful, Untouched
<1>4. /\ UNCHANGED <<files, plan, expected, outcome, dirs>>
      /\ \A y \in Calls : y # c => journal'[y] = journal[y] /\ pc'[y] = pc[y]
  BY DEF Prepare, Goto, WriteJournal
<1>5. Logical' = Logical
  <2>1. \A p \in Touched(c) : files[p] = expected[c][p]
    BY <1>3, AtRest
  <2>2. \A y \in Calls : y # c => (Pending(y)' <=> Pending(y))
    BY <1>4 DEF Pending
  <2> QED BY <1>4, <2>1, <2>2, ComesAndGoes
<1> QED BY <1>1, <1>4, <1>5, OnlyRefuses DEF Ended

LEMMA CleanupIsSeenOnce ==
  ASSUME Sane, Sane', NEW a \in Actors, RemoveJournal(a) \/ RemoveBackups(a)
  PROVE  Promise!Next
<1> USE TypeFacts DEF Sane
<1>1. PICK x : x = txn[a]
  OBVIOUS
<1>2. AtCleanup(a, x)
  BY <1>1, CleanerFacts DEF RemoveJournal, RemoveBackups
<1>3. /\ UNCHANGED <<files, plan, expected, pc, dirs>> /\ x \in Calls
      /\ \A y \in Calls : y # x => outcome'[y] = outcome[y] /\ journal'[y] = journal[y]
      /\ pc[a] = "cleanCommit" => outcome'[x] = "applied"
      /\ pc[a] # "cleanCommit" => outcome' = outcome
  <2>1. CASE RemoveJournal(a)
    BY <1>1, <1>2, <2>1 DEF AtCleanup, RemoveJournal, Decide
  <2>2. CASE RemoveBackups(a)
    BY <1>1, <1>2, <2>2 DEF AtCleanup, RemoveBackups, Decide
  <2> QED BY <2>1, <2>2
<1>4. \A y \in Calls : y # x => (Pending(y)' <=> Pending(y))
  BY <1>3 DEF Pending
<1>5. CASE pc[a] = "cleanCommit" /\ Pending(x)
  <2>1. a = x
    BY <1>2, <1>5 DEF AtCleanup
  <2>2. AllPerformed(x)
    BY <1>3, <1>5, <2>1 DEF LogicInv, TxnLogic, Pending
  <2> QED BY <1>3, <1>4, <1>5, <2>1, <2>2, CommitsAtOnce
<1>6. CASE pc[a] = "cleanCommit" /\ ~Pending(x)
  <2>1. a = x
    BY <1>2, <1>6 DEF AtCleanup
  <2>2. outcome[x] = "applied"
    BY <1>3, <1>6, <2>1 DEF LogicInv, TxnLogic
  <2>3. ~Pending(x)'
    BY <1>3, <1>6 DEF Pending
  <2>4. Logical' = Logical
    BY <1>3, <1>4, <1>6, <2>3, Calm
  <2> QED BY <1>3, <1>6, <2>2, <2>4, OnlyRefuses DEF Ended
<1>7. CASE pc[a] = "cleanRollback"
  <2>1. CASE Pending(x)
    <3>1. x \in dirs /\ TxnInv(x) /\ TxnLogic(x) /\ ActorLogic(a)
      BY <1>3, <2>1 DEF Pending, PatchInv, LogicInv
    <3>2. Kept(x) /\ Shaped(x) /\ Resolved(x)
      BY <2>1, <3>1 DEF TxnInv, TxnLogic
    <3>3. Backups(x) = {} /\ AllFree(x)
      BY <1>1, <1>2, <1>7, <2>1, <3>1 DEF AtCleanup, Placed, ActorLogic, Progress
    <3>4. Logical' = Logical
      BY <1>3, <1>4, <3>2, <3>3, AtRest, ComesAndGoes
    <3> QED BY <1>3, <1>7, <3>4, OnlyRefuses DEF Ended
  <2>2. CASE ~Pending(x)
    <3>1. ~Pending(x)'
      <4>1. journal'[x] \in {journal[x], NoJournal}
        BY <1>1, <1>2 DEF AtCleanup, RemoveJournal, RemoveBackups
      <4> QED BY <1>3, <1>7, <2>2, <4>1 DEF Pending
    <3>2. Logical' = Logical
      BY <1>3, <1>4, <2>2, <3>1, Calm
    <3> QED BY <1>3, <1>7, <3>2, OnlyRefuses DEF Ended
  <2> QED BY <2>1, <2>2
<1>8. CASE pc[a] = "cleanDiscard"
  <2>1. journal[x] = NoJournal /\ NoBackups(x)
    BY <1>2, <1>8 DEF AtCleanup, Lawful, Untouched
  <2> QED BY <1>1, <2>1 DEF RemoveJournal, RemoveBackups
<1> QED BY <1>2, <1>5, <1>6, <1>7, <1>8 DEF AtCleanup

Seen == \/ \E c \in Calls : Request(c) \/ Snapshot(c) \/ Prepare(c)
        \/ \E a \in Actors : RemoveJournal(a) \/ RemoveBackups(a)

LEMMA NextLogic ==
  ASSUME ~TornWindows, OneStarter, TypeInv, PatchInv, LogicInv, RollbacksWork, Next
  PROVE  LogicInv' /\ (Unseen \/ Seen)
<1> USE TypeFacts
<1>1. CASE \E c \in Calls : CallStep(c)
  <2> PICK c \in Calls : CallStep(c)
    BY <1>1
  <2>1. CASE Snapshot(c) \/ Prepare(c)
    BY <2>1, SnapshotLogic, PrepareLogic DEF Seen
  <2> QED BY <2>1, CallsWait, StageLogic, BeginCommitLogic, AbortCommitLogic, BackupSourceLogic,
       LogBackupLogic, PlaceLogic, LogPlaceLogic DEF CallStep
<1>2. CASE \E a \in Actors : UndoStep(a)
  BY <1>2, StartRollbackLogic, RemoveTargetLogic, LogRemoveLogic, RestoreSourceLogic,
     LogRestoreLogic, NothingToRestoreLogic, RollbackDoneLogic, GiveUpLogic DEF UndoStep
<1>3. CASE \E a \in Actors : CleanStep(a)
  BY <1>3, RemoveJournalLogic, RemoveBackupsLogic, RemoveDirectoryLogic, CleanupFailsKeeps
  DEF CleanStep, Seen
<1>4. CASE \E r \in Recoverers : RecoverStep(r)
  BY <1>4, RecoveryLogic, RecoverEntryLogic DEF RecoverStep
<1>5. CASE \E c \in Calls : Request(c)
  BY <1>5, RequestLogic DEF Seen
<1>6. CASE \E c \in Calls : Abort(c)
  BY <1>6, AsBefore DEF Abort
<1>7. CASE \E s \in Starters : StartBridge(s)
  BY <1>7, RecoveryLogic
<1>8. CASE Crash
  BY <1>8, CrashLogic
<1> QED BY <1>1, <1>2, <1>3, <1>4, <1>5, <1>6, <1>7, <1>8 DEF Next, Step

LEMMA PromiseKept ==
  ASSUME Sane, Sane', Unseen \/ Seen
  PROVE  Promise!Next
<1> USE DEF Sane
<1>1. CASE Unseen
  BY <1>1, Calm, OnlyRefuses DEF Unseen
<1>2. CASE \E c \in Calls : Request(c) \/ Snapshot(c)
  <2> PICK c \in Calls : Request(c) \/ Snapshot(c)
    BY <1>2
  <2>1. pc[c] \in {"idle", "snapshot"}
    BY DEF Request, Snapshot
  <2>2. c \notin dirs
    BY <2>1 DEF PatchInv, TxnInv, Lawful, Working, Committing, UndoPlaces, Cleaning
  <2>3. /\ UNCHANGED <<disk, outcome>>
        /\ \A d \in Calls : d # c => UNCHANGED <<plan[d], expected[d]>>
    BY DEF Request, Snapshot, TypeInv, PlansOK
  <2>4. Logical' = Logical
    BY <2>2, <2>3, Calm DEF Pending
  <2> QED BY <2>4, AgreesOnce
<1> QED BY <1>1, <1>2, PrepareIsUnseen, CleanupIsSeenOnce DEF Seen

LEMMA PromiseInit == TypeInv /\ PatchInv /\ LogicInv /\ Init => Promise!Init
<1> SUFFICES ASSUME TypeInv, PatchInv, LogicInv, Init PROVE Promise!Init
  OBVIOUS
<1>1. Logical = InitFiles
  <2>1. \A p \in Paths : Logical[p] = InitFiles[p]
    <3>1. \A x \in Calls : ~Pending(x)
      BY DEF Init, Pending
    <3> QED BY <3>1, LogicalIs DEF Relied, Init, Sane
  <2>2. InitFiles = [p \in Paths |-> InitFiles[p]]
    BY FilesAssumption
  <2> QED BY <2>1, <2>2 DEF Logical
<1>2. Agreed = [c \in Calls |-> [plan |-> <<>>, expected |-> InitFiles]]
  BY DEF Agreed, Init
<1>3. Decision = [c \in Calls |-> "none"]
  BY TypeFacts DEF Decision, Init
<1> QED BY <1>1, <1>2, <1>3 DEF Promise!Init, Agreed

(* Every call takes effect at one instant, on files of exactly the         *)
(* versions it expected, or not at all: with one bridge on the root,       *)
(* crashes outside the torn windows, and rollbacks and cleanups whose file *)
(* operations succeed, the journalled transactions implement AtomicPatch.  *)
THEOREM PatchesAreAtomic ==
  ASSUME ~TornWindows, OneStarter
  PROVE  Spec /\ [][RollbacksWork]_vars => CallsAreAtomic
<1>1. TypeInv /\ PatchInv /\ LogicInv /\ [Next]_vars /\ [RollbacksWork]_vars => LogicInv'
  <2>1. CASE UNCHANGED vars
    BY <2>1, AsBefore
  <2>2. CASE Next /\ RollbacksWork
    BY <2>2, NextLogic
  <2> QED BY <2>1, <2>2
<1>2. /\ TypeInv /\ PatchInv /\ LogicInv /\ [Next]_vars /\ [RollbacksWork]_vars
      /\ TypeInv' /\ PatchInv' /\ LogicInv'
      => [Promise!Next]_(Promise!vars)
  <2>1. CASE UNCHANGED vars
    BY <2>1 DEF Promise!vars, Logical, SavedAt, CreatedAt, PendingOps, Pending, Decision
  <2>2. CASE Next /\ RollbacksWork
    BY <2>2, NextLogic, PromiseKept DEF Sane
  <2> QED BY <2>1, <2>2
<1>3. TypeInv /\ Init => LogicInv
  BY LogicInit
<1>4. TypeInv /\ PatchInv /\ LogicInv /\ Init => Promise!Init
  BY PromiseInit
<1>5. Spec /\ [][RollbacksWork]_vars => []TypeInv /\ []PatchInv
  BY PatchInvariant
<1> QED BY <1>1, <1>2, <1>3, <1>4, <1>5, PTL DEF Spec, CallsAreAtomic, Promise!Spec
=============================================================================
