------------------------ MODULE CommandManagerProofs ------------------------
(***************************************************************************)
(* What CommandManager.tla promises of its terminals and of aborts, for    *)
(* any number of commands and terminals, on either platform.               *)
(*                                                                         *)
(* TerminalsAreSound and HeardAbortsLand speak of the command a terminal   *)
(* carries; they hold only because a command is launched once and into     *)
(* one terminal, which Launched says.                                      *)
(***************************************************************************)
EXTENDS CommandManager, FiniteSetTheorems, TLAPS

USE DEF vars, runVars, signals, table, external

Early == {"idle", "rooting", "resolving"}

(* A run has a command only after its launch, and a command its terminal.  *)
Launched ==
    \A r \in Runs :
        /\ pc[r] \in Early => status[r] = "none"
        /\ pc[r] = "resolving" \/ status[r] # "none" => terminal[r] \in Terminals
        /\ status[r] = "none" => r \notin heard /\ \A t \in Terminals : current[t] # r

SlotsHeld == Cardinality(Live) <= MaxTerminals

BusyRun ==
    \A t \in Live :
        state[t] # "idle" /\ t \notin killed /\ shell[t] = "alive" => current[t] \in Running

(* All but the count of the slots. *)
Carrying == TypeOK /\ Launched /\ BusyRun /\ HeardAbortsLand

CommandInv == Carrying /\ SlotsHeld

----------------------------------------------------------------------------
(* The slots *)

LEMMA LiveFinite == IsFiniteSet(Live) /\ Cardinality(Live) \in Nat
<1>1. Live \in SUBSET Terminals
  BY DEF Live
<1> QED BY <1>1, TerminalsAssumption, FS_Subset, FS_CardinalityType

(* No terminal is created. *)
LEMMA NoneCreated ==
  ASSUME SlotsHeld, Live' \subseteq Live
  PROVE  SlotsHeld'
<1>1. Cardinality(Live') \in Nat /\ Cardinality(Live') <= Cardinality(Live)
  BY LiveFinite, FS_Subset, FS_CardinalityType
<1> QED BY <1>1, LiveFinite, TerminalsAssumption DEF SlotsHeld

(* One terminal is created, in a slot acquireTerminal has counted as free. *)
LEMMA OneCreated ==
  ASSUME Slots < MaxTerminals, NEW t \in Terminals, t \notin Live, Live' = Live \cup {t}
  PROVE  SlotsHeld'
<1>1. Cardinality(Live') = Cardinality(Live) + 1
  BY LiveFinite, FS_AddElement
<1> QED BY <1>1, LiveFinite, TerminalsAssumption DEF SlotsHeld, Slots

----------------------------------------------------------------------------
(* run() *)

(* Only the place of a run changes, and not back to an early one. *)
LEMMA PlaceChanges ==
  ASSUME Carrying, NEW r \in Runs, NEW place \in {"rooting", "returned", "rejected"},
         place = "rooting" => pc[r] \in Early,
         Goto(r, place),
         UNCHANGED <<terminal, status, cancelRequested, listening, signals, table, external>>
  PROVE  Carrying'
<1> USE DEF Carrying
<1>1. TypeOK'
  BY DEF TypeOK, Goto, Running, Final
<1>2. Launched'
  BY DEF Launched, TypeOK, Goto, Early
<1>3. BusyRun' /\ HeardAbortsLand'
  BY DEF BusyRun, HeardAbortsLand, Live, Running
<1> QED BY <1>1, <1>2, <1>3

(* createCommand, the listener and the payload. *)
LEMMA LaunchKeeps ==
  ASSUME Carrying, NEW r \in Runs, NEW t \in Terminals, NEW fresh \in BOOLEAN,
         pc[r] \in {"rooting", "resolving"}, Launch(r, t, fresh)
  PROVE  Carrying'
<1> USE DEF Carrying
<1>0. status[r] = "none" /\ r \notin listening /\ r \notin heard
      /\ \A u \in Terminals : current[u] # r
  BY DEF Launched, TypeOK, Running, Early
<1>1. PICK outcome \in {<<"running", "waiting">>, <<"failed", "rejected">>} :
        /\ status' = [status EXCEPT ![r] = outcome[1]]
        /\ Goto(r, outcome[2])
        /\ terminal' = [terminal EXCEPT ![r] = t]
        /\ listening' = IF outcome = <<"running", "waiting">> THEN listening \cup {r} ELSE listening
        /\ state' = IF fresh \/ t \in Live THEN [state EXCEPT ![t] = "waiting_begin"] ELSE state
        /\ current' = IF fresh \/ t \in Live THEN [current EXCEPT ![t] = r] ELSE current
        /\ killed' = IF outcome = <<"failed", "rejected">> THEN killed \cup {t} ELSE killed
        /\ shell' = IF fresh THEN [shell EXCEPT ![t] = "alive"] ELSE shell
        /\ typed' = IF fresh \/ shell[t] = "alive" THEN [typed EXCEPT ![t] = Append(@, r)] ELSE typed
        /\ UNCHANGED <<cancelRequested, signals, executing, printed>>
  BY DEF Launch
<1>2. TypeOK'
  BY <1>0, <1>1 DEF TypeOK, Goto, Running, Final
<1>3. Launched'
  BY <1>0, <1>1 DEF Launched, TypeOK, Goto, Early
<1>4. BusyRun'
  BY <1>0, <1>1 DEF BusyRun, TypeOK, Live, Running
<1>5. HeardAbortsLand'
  BY <1>0, <1>1 DEF HeardAbortsLand, TypeOK
<1> QED BY <1>2, <1>3, <1>4, <1>5

LEMMA AwaitKeeps ==
  ASSUME Carrying, NEW r \in Runs, NEW t \in Terminals, NEW fresh \in BOOLEAN,
         pc[r] = "rooting", Await(r, t, fresh)
  PROVE  Carrying'
<1> USE DEF Carrying, Await
<1>0. status[r] = "none" /\ r \notin heard /\ \A u \in Terminals : current[u] # r
  BY DEF Launched, Early
<1>1. TypeOK'
  BY <1>0 DEF TypeOK, Goto, Running, Final
<1>2. Launched'
  BY <1>0 DEF Launched, TypeOK, Goto, Early
<1>3. BusyRun'
  BY DEF BusyRun, TypeOK, Live, Running
<1>4. HeardAbortsLand'
  BY <1>0 DEF HeardAbortsLand, TypeOK
<1> QED BY <1>1, <1>2, <1>3, <1>4

(* Which terminals exist after a launch. *)
LEMMA LaunchSlots ==
  ASSUME TypeOK, NEW r \in Runs, NEW t \in Terminals, NEW fresh \in BOOLEAN,
         Launch(r, t, fresh) \/ Await(r, t, fresh)
  PROVE  Live' = IF fresh THEN Live \cup {t} ELSE Live
  BY DEF Launch, Await, Live, TypeOK

LEMMA RunKeeps ==
  ASSUME CommandInv, NEW r \in Runs, Run(r)
  PROVE  CommandInv'
<1> USE DEF CommandInv
<1>0. TypeOK
  BY DEF Carrying
<1>1. CASE Call(r)
  <2>1. Carrying'
    BY <1>1, PlaceChanges DEF Call, Early
  <2>2. Live' \subseteq Live
    BY <1>1 DEF Call, Live
  <2> QED BY <2>1, <2>2, NoneCreated
<1>2. CASE Acquire(r)
  <2>1. ASSUME NEW t \in Idle, Launch(r, t, FALSE) \/ Await(r, t, FALSE)
        PROVE  CommandInv'
    <3>1. t \in Terminals
      BY DEF Idle
    <3>2. Carrying'
      BY <1>2, <2>1, <3>1, LaunchKeeps, AwaitKeeps DEF Acquire
    <3>3. Live' = Live
      BY <1>0, <2>1, <3>1, LaunchSlots
    <3> QED BY <3>2, <3>3, NoneCreated
  <2>2. ASSUME Slots < MaxTerminals, NEW t \in Terminals, state[t] = "unused",
               Launch(r, t, TRUE) \/ Await(r, t, TRUE)
        PROVE  CommandInv'
    <3>1. Carrying'
      BY <1>2, <2>2, LaunchKeeps, AwaitKeeps DEF Acquire
    <3>2. t \notin Live /\ Live' = Live \cup {t}
      BY <1>0, <2>2, LaunchSlots DEF Live
    <3> QED BY <2>2, <3>1, <3>2, OneCreated
  <2> QED BY <1>2, <2>1, <2>2 DEF Acquire
<1>3. CASE Busy(r) \/ ResolveFails(r) \/ Return(r)
  <2>1. Carrying'
    BY <1>3, PlaceChanges DEF Busy, ResolveFails, Return
  <2>2. Live' \subseteq Live
    BY <1>3 DEF Busy, ResolveFails, Return, Live
  <2> QED BY <2>1, <2>2, NoneCreated
<1>4. CASE ResolveCwd(r)
  <2>1. terminal[r] \in Terminals
    BY <1>4 DEF ResolveCwd, Carrying, Launched
  <2>2. Carrying'
    BY <1>4, <2>1, LaunchKeeps DEF ResolveCwd
  <2>3. Live' = Live
    BY <1>0, <1>4, <2>1, LaunchSlots DEF ResolveCwd
  <2> QED BY <2>2, <2>3, NoneCreated
<1> QED BY <1>1, <1>2, <1>3, <1>4 DEF Run

----------------------------------------------------------------------------
(* Cancellation *)

(* Whoever is cancelled either has its terminal killed or has none. *)
LEMMA CancelKeeps ==
  ASSUME Carrying, NEW S \in SUBSET Running, NEW K \in SUBSET Live, NEW H \in SUBSET S,
         \A t \in Live : (\E r \in S : terminal[r] = t) => t \in K,
         cancelRequested' = cancelRequested \cup S,
         killed' = killed \cup K,
         Finalize({r \in S : terminal[r] \notin Live}, "cancelled"),
         heard' = heard \cup H, signalled' \subseteq Runs,
         UNCHANGED <<pc, terminal, state, current, external>>
  PROVE  CommandInv => CommandInv'
<1> USE DEF Carrying
<1>0. /\ S \subseteq Runs /\ \A r \in S : status[r] = "running" /\ terminal[r] \in Terminals
      /\ \A r \in Runs : status'[r] = IF r \in S /\ terminal[r] \notin Live
                                       THEN "cancelled" ELSE status[r]
  BY DEF Running, Launched, Finalize
<1>1. TypeOK'
  BY <1>0 DEF TypeOK, Finalize, Running, Final, Live
<1>2. Launched'
  BY <1>0 DEF Launched
<1>3. BusyRun'
  <2>1. Live' = Live
    BY DEF Live
  <2>2. ASSUME NEW t \in Live, current[t] \in Running
        PROVE  current[t] \in Running'
    <3>1. t \in Terminals /\ current[t] # None /\ terminal[current[t]] = t
      BY <2>2, NoneAssumption DEF Live, Running, TypeOK
    <3> QED BY <1>0, <2>2, <3>1 DEF Running
  <2> QED BY <2>1, <2>2 DEF BusyRun
<1>4. HeardAbortsLand'
  BY <1>0 DEF HeardAbortsLand, TypeOK
<1>5. Live' \subseteq Live
  BY DEF Live
<1> QED BY <1>1, <1>2, <1>3, <1>4, <1>5, NoneCreated DEF CommandInv

LEMMA SignalKeeps ==
  ASSUME CommandInv, NEW r \in Runs, Signal(r)
  PROVE  CommandInv'
<1> DEFINE S == {r} \cap listening \cap Running
<1>1. Cancel(S) /\ heard' = heard \cup S /\ signalled' = signalled \cup {r}
      /\ UNCHANGED <<pc, terminal, state, current, external>>
  BY DEF Signal
<1>2. signalled' \subseteq Runs
  BY <1>1 DEF CommandInv, Carrying, TypeOK
<1>3. S \in SUBSET Running /\ S \in SUBSET S
  OBVIOUS
<1> DEFINE K == {t \in Live : \E s \in S : terminal[s] = t}
<1>4. K \in SUBSET Live /\ \A t \in Live : (\E s \in S : terminal[s] = t) => t \in K
  OBVIOUS
<1>5. /\ cancelRequested' = cancelRequested \cup S /\ killed' = killed \cup K
      /\ Finalize({s \in S : terminal[s] \notin Live}, "cancelled")
  BY <1>1 DEF Cancel
<1> HIDE DEF S, K
<1> QED BY <1>1, <1>2, <1>3, <1>4, <1>5, CancelKeeps DEF CommandInv

LEMMA CloseKeeps ==
  ASSUME CommandInv, Close
  PROVE  CommandInv'
<1>1. /\ cancelRequested' = cancelRequested \cup Running /\ killed' = killed \cup Live
      /\ Finalize({r \in Running : terminal[r] \notin Live}, "cancelled")
      /\ UNCHANGED <<pc, terminal, signals, state, current, external>>
  BY DEF Close
<1>2. heard' = heard \cup {} /\ signalled' \subseteq Runs
  BY <1>1 DEF CommandInv, Carrying, TypeOK
<1>3. {} \in SUBSET Running /\ Running \in SUBSET Running /\ Live \in SUBSET Live
      /\ \A t \in Live : (\E r \in Running : terminal[r] = t) => t \in Live
  OBVIOUS
<1> QED BY <1>1, <1>2, <1>3, CancelKeeps DEF CommandInv

----------------------------------------------------------------------------
(* What terminals and shells report *)

(* The command a terminal carries ends: the terminal is killed, or carries  *)
(* nothing any more.                                                        *)
LEMMA EndKeeps ==
  ASSUME Carrying, NEW t \in Terminals, NEW S \in SUBSET (Running \cap {current[t]}),
         NEW result \in Final, Finalize(S, result),
         \/ UNCHANGED <<state, current>> /\ killed' = killed \cup {t}
         \/ /\ \E s \in {"idle", "gone"} : state' = [state EXCEPT ![t] = s]
            /\ current' = [current EXCEPT ![t] = None] /\ UNCHANGED killed,
         printed' \in [Terminals -> Seq(Messages)],
         t \in Live,
         UNCHANGED <<pc, terminal, cancelRequested, signals, shell, typed, executing>>
  PROVE  CommandInv => CommandInv'
<1> USE DEF Carrying
<1>0. /\ S \subseteq Runs /\ \A r \in S : r = current[t] /\ terminal[r] = t
      /\ \A r \in Runs : status'[r] = IF r \in S THEN result ELSE status[r]
      /\ result \notin {"none", "running"}
  BY NoneAssumption DEF Running, Finalize, TypeOK, Final
<1>1. TypeOK'
  <2>1. status' \in [Runs -> {"none", "running"} \cup Final] /\ listening' \subseteq Running'
    BY <1>0 DEF TypeOK, Finalize, Running
  <2>2. state' \in [Terminals -> {"unused", "idle", "waiting_begin", "capturing", "gone"}]
    BY DEF TypeOK
  <2>3. /\ current' \in [Terminals -> Runs \cup {None}]
        /\ \A u \in Terminals : current'[u] = current[u] \/ current'[u] = None
    BY DEF TypeOK
  <2>4. killed' \subseteq Terminals /\ listening' \subseteq Runs
    BY DEF TypeOK, Finalize
  <2> QED BY <2>1, <2>2, <2>3, <2>4 DEF TypeOK
<1>2. Launched'
  <2>1. \A r \in S : status[r] # "none"
    BY DEF Running
  <2> QED BY <1>0, <2>1, NoneAssumption DEF Launched, TypeOK
<1>3. Live' \subseteq Live
  BY DEF Live, TypeOK
<1>4. BusyRun'
  <2>1. ASSUME NEW u \in Live, u # t, current[u] \in Running
        PROVE  current'[u] \in Running'
    <3>1. u \in Terminals /\ current[u] # None /\ terminal[current[u]] = u
      BY <2>1, NoneAssumption DEF Live, Running, TypeOK
    <3>2. current'[u] = current[u]
      BY <2>1, <3>1 DEF TypeOK
    <3> QED BY <1>0, <2>1, <3>1, <3>2 DEF Running
  <2>2. \A u \in Terminals : u # t => state'[u] = state[u]
    BY DEF TypeOK
  <2>3. t \in killed' \/ state'[t] = "idle" \/ t \notin Live'
    BY DEF Live, TypeOK
  <2> QED BY <1>3, <2>1, <2>2, <2>3 DEF BusyRun, Live
<1>5. HeardAbortsLand'
  BY <1>0 DEF HeardAbortsLand, TypeOK
<1> QED BY <1>1, <1>2, <1>3, <1>4, <1>5, NoneCreated DEF CommandInv

LEMMA DataKeeps ==
  ASSUME CommandInv, NEW t \in Terminals, HandleData(t)
  PROVE  CommandInv'
<1> USE DEF CommandInv
<1>0. Carrying /\ TypeOK /\ t \in Live
  BY DEF Carrying, HandleData
<1> DEFINE m == Head(printed[t])
<1>1. m \in Messages /\ printed' \in [Terminals -> Seq(Messages)]
  BY <1>0 DEF HandleData, Consume, TypeOK
<1>2. UNCHANGED <<signals, shell, typed, executing>>
  BY DEF HandleData
<1>3. CASE Belongs(m, t) /\ BeginMarker(t, m)
  <2>1. TypeOK'
    BY <1>0, <1>1, <1>2, <1>3 DEF BeginMarker, TypeOK, Running
  <2>2. Live' = Live
    BY <1>0, <1>3 DEF BeginMarker, Live, TypeOK
  <2>3. BusyRun' /\ Launched' /\ HeardAbortsLand'
    BY <1>0, <1>2, <1>3, <2>2
    DEF BeginMarker, Carrying, BusyRun, Launched, HeardAbortsLand, Running, TypeOK
  <2> QED BY <2>1, <2>2, <2>3, NoneCreated DEF Carrying
<1>4. CASE Belongs(m, t) /\ EndMarker(t, m) /\ Platform = "win32"
  <2>1. PICK result \in {"completed", "failed"} : Finalize({m.run}, result)
    BY <1>4 DEF EndMarker
  <2>2. {m.run} \in SUBSET (Running \cap {current[t]}) /\ result \in Final
    BY <1>1, <1>4 DEF Belongs, Running, Messages, Final
  <2>3. /\ \E s \in {"idle", "gone"} : state' = [state EXCEPT ![t] = s]
        /\ current' = [current EXCEPT ![t] = None]
        /\ UNCHANGED <<pc, terminal, cancelRequested, killed>>
    BY <1>4 DEF EndMarker
  <2> HIDE DEF m
  <2> QED BY <1>0, <1>1, <1>2, <2>1, <2>2, <2>3, EndKeeps
<1>5. CASE Belongs(m, t) /\ GarbledEnd(t, m)
  <2>1. {m.run} \in SUBSET (Running \cap {current[t]}) /\ "failed" \in Final
    BY <1>1, <1>5 DEF Belongs, Running, Messages, Final
  <2>2. /\ Finalize({m.run}, "failed") /\ killed' = killed \cup {t}
        /\ UNCHANGED <<pc, terminal, cancelRequested, state, current>>
    BY <1>5 DEF GarbledEnd
  <2> HIDE DEF m
  <2> QED BY <1>0, <1>1, <1>2, <2>1, <2>2, EndKeeps
<1>6. CASE UNCHANGED <<runVars, table>>
  <2>1. Live' = Live
    BY <1>6 DEF Live
  <2>2. Carrying'
    BY <1>0, <1>1, <1>2, <1>6, <2>1
    DEF Carrying, TypeOK, Launched, BusyRun, HeardAbortsLand, Running
  <2> QED BY <2>1, <2>2, NoneCreated
<1>7. CASE EndMarker(t, m) /\ Platform # "win32"
  BY <1>6, <1>7 DEF EndMarker
<1> QED BY <1>3, <1>4, <1>5, <1>6, <1>7 DEF HandleData

LEMMA ExitKeeps ==
  ASSUME CommandInv, NEW t \in Terminals, HandleExit(t)
  PROVE  CommandInv'
<1> USE DEF CommandInv
<1> DEFINE S == {current[t]} \cap Running
<1>1. PICK result \in Final : Finalize(S, result)
  BY DEF HandleExit, Final
<1>2. /\ \E s \in {"idle", "gone"} : state' = [state EXCEPT ![t] = s]
      /\ current' = [current EXCEPT ![t] = None] /\ t \in Live
      /\ UNCHANGED <<pc, terminal, cancelRequested, signals, killed, shell, typed, executing, printed>>
  BY DEF HandleExit
<1>3. S \in SUBSET (Running \cap {current[t]}) /\ Carrying
      /\ printed' \in [Terminals -> Seq(Messages)]
  BY <1>2 DEF Carrying, TypeOK
<1> HIDE DEF S
<1> QED BY <1>1, <1>2, <1>3, EndKeeps

LEMMA ShellKeeps ==
  ASSUME CommandInv, NEW t \in Terminals, ShellReads(t) \/ ShellEnds(t) \/ ShellDies(t)
  PROVE  CommandInv'
<1> USE DEF CommandInv
<1>0. TypeOK
  BY DEF Carrying
<1>1. UNCHANGED <<runVars, signals, table>>
  BY DEF ShellReads, ShellEnds, ShellDies
<1>2. Live' = Live /\ Running' = Running
  BY <1>1 DEF Live, Running
<1>3. shell' \in [Terminals -> {"none", "alive", "dead"}]
      /\ \A u \in Terminals : shell'[u] = "alive" => shell[u] = "alive"
  BY <1>0 DEF ShellReads, ShellEnds, ShellDies, TypeOK
<1>4. typed[t] \in Seq(Runs) /\ printed[t] \in Seq(Messages) /\ executing[t] \in Runs \cup {None}
  BY <1>0 DEF TypeOK
<1>5. /\ executing' \in [Terminals -> Runs \cup {None}] /\ typed' \in [Terminals -> Seq(Runs)]
      /\ printed' \in [Terminals -> Seq(Messages)]
  <2>1. ASSUME NEW kind \in {"begin", "end", "garbled"}, NEW r \in Runs, Emit(t, kind, r)
        PROVE  printed' \in [Terminals -> Seq(Messages)]
    <3>1. [kind |-> kind, run |-> r] \in Messages
      BY DEF Messages
    <3>2. Append(printed[t], [kind |-> kind, run |-> r]) \in Seq(Messages)
      BY <1>4, <3>1
    <3> QED BY <1>0, <2>1, <3>2 DEF Emit, TypeOK
  <2>2. CASE ShellReads(t)
    <3>1. Head(typed[t]) \in Runs /\ Tail(typed[t]) \in Seq(Runs)
      BY <1>4, <2>2 DEF ShellReads
    <3>2. printed' \in [Terminals -> Seq(Messages)]
      BY <2>1, <2>2, <3>1 DEF ShellReads
    <3> QED BY <1>0, <2>2, <3>1, <3>2 DEF ShellReads, TypeOK
  <2>3. CASE ShellEnds(t)
    <3>1. printed' \in [Terminals -> Seq(Messages)]
      BY <1>4, <2>1, <2>3 DEF ShellEnds
    <3> QED BY <1>0, <2>3, <3>1 DEF ShellEnds, TypeOK
  <2>4. CASE ShellDies(t)
    <3>1. <<>> \in Seq(Runs)
      OBVIOUS
    <3> QED BY <1>0, <2>4, <3>1 DEF ShellDies, TypeOK
  <2> QED BY <2>2, <2>3, <2>4
<1>6. TypeOK'
  BY <1>0, <1>1, <1>2, <1>3, <1>4, <1>5 DEF TypeOK
<1>7. Launched' /\ BusyRun' /\ HeardAbortsLand'
  BY <1>1, <1>2, <1>3 DEF Carrying, Launched, BusyRun, HeardAbortsLand, Live
<1> QED BY <1>2, <1>6, <1>7, NoneCreated DEF Carrying

----------------------------------------------------------------------------
(* The specification *)

LEMMA CommandInit == Init => CommandInv
<1> SUFFICES ASSUME Init PROVE CommandInv
  OBVIOUS
<1>1. Live = {}
  BY DEF Init, Live
<1>2. SlotsHeld
  BY <1>1, FS_EmptySet, TerminalsAssumption DEF SlotsHeld
<1>3. TypeOK
  BY DEF Init, TypeOK, Running, Final
<1>4. Launched /\ BusyRun /\ HeardAbortsLand
  BY <1>1, NoneAssumption DEF Init, Launched, BusyRun, HeardAbortsLand, Early
<1> QED BY <1>2, <1>3, <1>4 DEF CommandInv, Carrying

LEMMA CommandStep == CommandInv /\ [Next]_vars => CommandInv'
<1> SUFFICES ASSUME CommandInv, [Next]_vars PROVE CommandInv'
  OBVIOUS
<1>1. ASSUME NEW r \in Runs, Run(r) PROVE CommandInv'
  BY <1>1, RunKeeps
<1>2. ASSUME NEW r \in Runs, Signal(r) PROVE CommandInv'
  BY <1>2, SignalKeeps
<1>3. ASSUME NEW t \in Terminals, Terminal(t) PROVE CommandInv'
  BY <1>3, DataKeeps, ExitKeeps, ShellKeeps DEF Terminal
<1>4. CASE Close
  BY <1>4, CloseKeeps
<1>5. CASE UNCHANGED vars
  BY <1>5 DEF CommandInv, Carrying, TypeOK, Launched, BusyRun, HeardAbortsLand, SlotsHeld,
              Live, Running
<1> QED BY <1>1, <1>2, <1>3, <1>4, <1>5 DEF Next

LEMMA CommandsHold == Spec => []CommandInv
BY CommandInit, CommandStep, PTL DEF Spec

\* The state of the manager, of its runs and of the shells behind it keeps its type; in
\* particular a terminal only ever carries a command that was given that terminal.
THEOREM CommandTyped == Spec => []TypeOK
<1>1. CommandInv => TypeOK
  BY DEF CommandInv, Carrying
<1> QED BY <1>1, CommandsHold, PTL

\* acquireTerminal and destroyTerminal: never more than maxTerminals shells, and a busy
\* terminal with a living shell that is not being killed carries a command still running.
THEOREM SlotsAreSound == Spec => []TerminalsAreSound
<1>1. CommandInv => TerminalsAreSound
  BY DEF CommandInv, Carrying, SlotsHeld, BusyRun, TerminalsAreSound
<1> QED BY <1>1, CommandsHold, PTL

\* run()'s abort listener and cancel(): a heard abort has ended its command or killed the
\* terminal it was typed into, however the launch, the markers and the exits interleave.
THEOREM AbortsLand == Spec => []HeardAbortsLand
<1>1. CommandInv => HeardAbortsLand
  BY DEF CommandInv, Carrying
<1> QED BY <1>1, CommandsHold, PTL
=============================================================================
