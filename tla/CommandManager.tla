--------------------------- MODULE CommandManager ---------------------------
(***************************************************************************)
(* Commands in persistent terminals (tool-gateway/command-manager.ts).     *)
(*                                                                         *)
(* run() picks an idle terminal or creates one, possibly waits for the     *)
(* working directory to be resolved, types the wrapped command into the    *)
(* shell and waits for the markers the wrapper prints.  Between those      *)
(* steps other runs start, signals fire, shells die and close() is called. *)
(* The shell and the PTY are external: what is typed is executed in order, *)
(* what is printed is delivered in order, and the exit comes last.         *)
(***************************************************************************)
EXTENDS Naturals, Sequences, FiniteSets

CONSTANTS
    Runs,          \* calls of run(): each one is one command
    Terminals,     \* terminal ids, never reused
    MaxTerminals,  \* options.maxTerminals
    Platform,      \* process.platform: "win32" or "posix"
    None           \* undefined

ASSUME PlatformAssumption == Platform \in {"win32", "posix"}
ASSUME NoneAssumption == None \notin Runs \cup Terminals
ASSUME TerminalsAssumption == IsFiniteSet(Terminals) /\ MaxTerminals \in Nat

VARIABLES
    pc,              \* where run() is
    terminal,        \* the terminal a run acquired
    status,          \* ManagedCommand.status; "none" before createCommand
    cancelRequested, \* runs whose command.cancelRequested is set
    signalled,       \* runs whose AbortSignal fired
    listening,       \* runs whose abort listener is attached
    heard,           \* history: runs whose listener ran while they were running
    state,           \* ManagedTerminal.state; "unused" / "gone": not in the table
    current,         \* ManagedTerminal.currentCommandId
    killed,          \* terminals backend.kill() was called on
    shell,           \* external: "none", "alive", "dead"
    typed,           \* external: commands typed and not yet read by the shell
    executing,       \* external: the command the shell executes
    printed          \* external: markers on their way to handleTerminalData

runVars == <<pc, terminal, status, cancelRequested, listening>>
signals == <<signalled, heard>>
table == <<state, current, killed>>
external == <<shell, typed, executing, printed>>
vars == <<runVars, signals, table, external>>

Final == {"completed", "failed", "cancelled"}
Messages == [kind : {"begin", "end", "garbled"}, run : Runs]
Live == {t \in Terminals : state[t] \notin {"unused", "gone"}}

Init ==
    /\ pc = [r \in Runs |-> "idle"]
    /\ terminal = [r \in Runs |-> None]
    /\ status = [r \in Runs |-> "none"]
    /\ cancelRequested = {} /\ signalled = {} /\ listening = {} /\ heard = {}
    /\ state = [t \in Terminals |-> "unused"]
    /\ current = [t \in Terminals |-> None]
    /\ killed = {}
    /\ shell = [t \in Terminals |-> "none"]
    /\ typed = [t \in Terminals |-> <<>>]
    /\ executing = [t \in Terminals |-> None]
    /\ printed = [t \in Terminals |-> <<>>]

-----------------------------------------------------------------------------
(* run(). *)

Goto(r, place) == pc' = [pc EXCEPT ![r] = place]

\* Up to the first await: an aborted signal is refused.
Call(r) ==
    /\ pc[r] = "idle"
    /\ Goto(r, IF r \in signalled THEN "rejected" ELSE "rooting")
    /\ UNCHANGED <<terminal, status, cancelRequested, listening, signals, table, external>>

\* The terminals acquireTerminal counts as active.
Slots == Cardinality(Live)

\* createCommand, the abort listener, and the payload: one synchronous block.
\* fresh: the terminal is created in this step.  A dead terminal may reject the
\* write (failBeforeStart) or swallow it.
Launch(r, t, fresh) ==
    LET alive == fresh \/ shell[t] = "alive"
        kept == fresh \/ t \in Live
        rejected == <<"failed", "rejected">>
        accepted == <<"running", "waiting">>
    IN  \E outcome \in IF alive THEN {accepted} ELSE {accepted, rejected} :
            /\ status' = [status EXCEPT ![r] = outcome[1]]
            /\ Goto(r, outcome[2])
            /\ terminal' = [terminal EXCEPT ![r] = t]
            /\ listening' = IF outcome = accepted THEN listening \cup {r} ELSE listening
            /\ state' = IF kept THEN [state EXCEPT ![t] = "waiting_begin"] ELSE state
            /\ current' = IF kept THEN [current EXCEPT ![t] = r] ELSE current
            /\ killed' = IF outcome = rejected THEN killed \cup {t} ELSE killed
            /\ shell' = IF fresh THEN [shell EXCEPT ![t] = "alive"] ELSE shell
            /\ typed' = IF alive THEN [typed EXCEPT ![t] = Append(@, r)] ELSE typed
            /\ UNCHANGED <<cancelRequested, signals, executing, printed>>

\* With a cwd the run waits for resolveCwd, and nothing marks its terminal.
Await(r, t, fresh) ==
    /\ Goto(r, "resolving")
    /\ terminal' = [terminal EXCEPT ![r] = t]
    /\ state' = IF fresh THEN [state EXCEPT ![t] = "idle"] ELSE state
    /\ shell' = IF fresh THEN [shell EXCEPT ![t] = "alive"] ELSE shell
    /\ UNCHANGED <<status, cancelRequested, listening, signals, current, killed,
                   typed, executing, printed>>

Idle == {t \in Terminals : state[t] = "idle"}

\* acquireTerminal, and the rest of run() when no cwd was given.
Acquire(r) ==
    /\ pc[r] = "rooting"
    /\ \/ \E t \in Idle : Launch(r, t, FALSE) \/ Await(r, t, FALSE)
       \/ /\ Idle = {} /\ Slots < MaxTerminals
          /\ \E t \in Terminals :
                /\ state[t] = "unused"
                /\ Launch(r, t, TRUE) \/ Await(r, t, TRUE)

\* RESOURCE_BUSY.
Busy(r) ==
    /\ pc[r] = "rooting"
    /\ Idle = {} /\ Slots >= MaxTerminals
    /\ Goto(r, "rejected")
    /\ UNCHANGED <<terminal, status, cancelRequested, listening, signals, table, external>>

\* resolveCwd answers, or finds no such directory.
ResolveCwd(r) == pc[r] = "resolving" /\ Launch(r, terminal[r], FALSE)

ResolveFails(r) ==
    /\ pc[r] = "resolving"
    /\ Goto(r, "rejected")
    /\ UNCHANGED <<terminal, status, cancelRequested, listening, signals, table, external>>

\* The race of completion, start and timer is over: a snapshot, or CANCELLED.
Return(r) ==
    /\ pc[r] = "waiting"
    /\ Goto(r, IF r \in signalled /\ status[r] = "cancelled" THEN "rejected" ELSE "returned")
    /\ UNCHANGED <<terminal, status, cancelRequested, listening, signals, table, external>>

-----------------------------------------------------------------------------
(* Cancellation. *)

\* The bug "a finished command keeps its abort listener".
Finalize_KeepsListener(S, result) ==
    /\ status' = [r \in Runs |-> IF r \in S THEN result ELSE status[r]]
    /\ listening' = listening

\* finalizeCommand detaches the listener.
Finalize(S, result) ==
    /\ status' = [r \in Runs |-> IF r \in S THEN result ELSE status[r]]
    /\ listening' = listening \ S

Running == {r \in Runs : status[r] = "running"}

\* The bug "a command that has not started yet is only marked".
Cancel_StartedOnly(S) ==
    /\ cancelRequested' = cancelRequested \cup S
    /\ killed' = killed \cup {t \in Live : state[t] = "capturing" /\ \E r \in S : terminal[r] = t}
    /\ Finalize({r \in S : terminal[r] \notin Live}, "cancelled")

\* cancel() of the running commands of S: kill the terminal; without one there is
\* nobody left to report the end.
Cancel(S) ==
    /\ cancelRequested' = cancelRequested \cup S
    /\ killed' = killed \cup {t \in Live : \E r \in S : terminal[r] = t}
    /\ Finalize({r \in S : terminal[r] \notin Live}, "cancelled")

\* The lease of the run is aborted (revocation, mode change, client gone).  The
\* listener hears it only if it is attached by now.
Signal(r) ==
    /\ r \notin signalled
    /\ signalled' = signalled \cup {r}
    /\ LET S == {r} \cap listening \cap Running
       IN  Cancel(S) /\ heard' = heard \cup S
    /\ UNCHANGED <<pc, terminal, state, current, external>>

\* close(): cancel what runs, kill every terminal.
Close ==
    /\ Live \ killed # {} \/ Running \ cancelRequested # {}
    /\ cancelRequested' = cancelRequested \cup Running
    /\ killed' = killed \cup Live
    /\ Finalize({r \in Running : terminal[r] \notin Live}, "cancelled")
    /\ UNCHANGED <<pc, terminal, signals, state, current, external>>

-----------------------------------------------------------------------------
(* What the terminal reports. *)

Belongs(m, t) ==
    /\ current[t] = m.run
    /\ status[m.run] = "running"

Consume(t) == printed' = [printed EXCEPT ![t] = Tail(@)]

BeginMarker(t, m) ==
    /\ state[t] = "waiting_begin" /\ m.kind = "begin"
    /\ state' = [state EXCEPT ![t] = "capturing"]
    /\ UNCHANGED <<runVars, current, killed>>

\* The end marker with its exit code and working directory: the terminal is idle
\* again.  The POSIX wrapper prints the directory where the parser expects a chunk
\* count, so that the header never matches and the data is kept for ever.
EndMarker(t, m) ==
    /\ state[t] = "capturing" /\ m.kind = "end"
    /\ IF Platform = "win32"
       THEN /\ state' = [state EXCEPT ![t] = "idle"]
            /\ current' = [current EXCEPT ![t] = None]
            /\ \E result \in {"completed", "failed"} : Finalize({m.run}, result)
       ELSE UNCHANGED <<state, current, status, listening>>
    /\ UNCHANGED <<pc, terminal, cancelRequested, killed>>

\* The bug "a garbled end fails the command and leaves its shell alone".
GarbledEnd_KeepsShell(t, m) ==
    /\ state[t] = "capturing" /\ m.kind = "garbled" /\ Platform = "win32"
    /\ Finalize({m.run}, "failed")
    /\ UNCHANGED <<pc, terminal, cancelRequested, state, current, killed>>

\* destroyTerminal: too many chunks, or one that is not base64.
GarbledEnd(t, m) ==
    /\ state[t] = "capturing" /\ m.kind = "garbled" /\ Platform = "win32"
    /\ killed' = killed \cup {t}
    /\ Finalize({m.run}, "failed")
    /\ UNCHANGED <<pc, terminal, cancelRequested, state, current>>

\* Markers of a command the terminal no longer carries are user output.
Ignored(t, m) ==
    \/ ~Belongs(m, t)
    \/ m.kind = "begin" /\ state[t] # "waiting_begin"
    \/ m.kind # "begin" /\ state[t] # "capturing"
    \/ m.kind = "garbled" /\ Platform = "posix"

\* handleTerminalData.
HandleData(t) ==
    /\ t \in Live /\ printed[t] # <<>>
    /\ LET m == Head(printed[t])
       IN  \/ Belongs(m, t) /\ (BeginMarker(t, m) \/ EndMarker(t, m) \/ GarbledEnd(t, m))
           \/ Ignored(t, m) /\ UNCHANGED <<runVars, table>>
    /\ Consume(t)
    /\ UNCHANGED <<signals, shell, typed, executing>>

\* The bug "an exit only ends the command if nobody has cancelled it".
HandleExit_NotCancelled(t) ==
    /\ t \in Live /\ shell[t] = "dead" /\ printed[t] = <<>>
    /\ state' = [state EXCEPT ![t] = "gone"]
    /\ current' = [current EXCEPT ![t] = None]
    /\ \E result \in {"completed", "failed"} :
          Finalize({current[t]} \cap (Running \ cancelRequested), result)
    /\ UNCHANGED <<pc, terminal, cancelRequested, signals, killed, external>>

\* handleTerminalExit: only the command the terminal carries hears of it.
HandleExit(t) ==
    /\ t \in Live /\ shell[t] = "dead" /\ printed[t] = <<>>
    /\ state' = [state EXCEPT ![t] = "gone"]
    /\ current' = [current EXCEPT ![t] = None]
    /\ LET S == {current[t]} \cap Running
       IN  \E result \in IF S \subseteq cancelRequested THEN {"cancelled"}
                         ELSE {"completed", "failed"} : Finalize(S, result)
    /\ UNCHANGED <<pc, terminal, cancelRequested, signals, killed, external>>

-----------------------------------------------------------------------------
(* External: the shell behind the PTY. *)

Emit(t, kind, r) == printed' = [printed EXCEPT ![t] = Append(@, [kind |-> kind, run |-> r])]

ShellReads(t) ==
    /\ shell[t] = "alive" /\ executing[t] = None /\ typed[t] # <<>>
    /\ executing' = [executing EXCEPT ![t] = Head(typed[t])]
    /\ typed' = [typed EXCEPT ![t] = Tail(@)]
    /\ Emit(t, "begin", Head(typed[t]))
    /\ UNCHANGED <<runVars, signals, table, shell>>

ShellEnds(t) ==
    /\ shell[t] = "alive" /\ executing[t] # None
    /\ executing' = [executing EXCEPT ![t] = None]
    /\ \E kind \in {"end", "garbled"} : Emit(t, kind, executing[t])
    /\ UNCHANGED <<runVars, signals, table, shell, typed>>

\* The kill takes effect, or the command exits the shell.
ShellDies(t) ==
    /\ shell[t] = "alive"
    /\ t \in killed \/ executing[t] # None
    /\ shell' = [shell EXCEPT ![t] = "dead"]
    /\ executing' = [executing EXCEPT ![t] = None]
    /\ typed' = [typed EXCEPT ![t] = <<>>]
    /\ UNCHANGED <<runVars, signals, table, printed>>

-----------------------------------------------------------------------------
Run(r) ==
    \/ Call(r) \/ Acquire(r) \/ Busy(r) \/ ResolveCwd(r) \/ ResolveFails(r) \/ Return(r)

Terminal(t) ==
    \/ HandleData(t) \/ HandleExit(t)
    \/ ShellReads(t) \/ ShellEnds(t) \/ ShellDies(t)

Next ==
    \/ \E r \in Runs : Run(r) \/ Signal(r)
    \/ \E t \in Terminals : Terminal(t)
    \/ Close

Spec == Init /\ [][Next]_vars

\* Node delivers data and exit events, and a killed shell dies.  Nothing makes a
\* user's command end.
Fairness ==
    \A t \in Terminals :
        /\ WF_vars(HandleData(t)) /\ WF_vars(HandleExit(t))
        /\ WF_vars(t \in killed /\ ShellDies(t))

FairSpec == Spec /\ Fairness

-----------------------------------------------------------------------------
\* Every variable has its type, and a terminal carries a command that was given it.
TypeOK ==
    /\ pc \in [Runs -> {"idle", "rooting", "resolving", "waiting", "returned", "rejected"}]
    /\ terminal \in [Runs -> Terminals \cup {None}]
    /\ status \in [Runs -> {"none", "running"} \cup Final]
    /\ cancelRequested \cup signalled \cup listening \cup heard \subseteq Runs
    /\ listening \subseteq Running
    /\ state \in [Terminals ->
                    {"unused", "idle", "waiting_begin", "capturing", "gone"}]
    /\ current \in [Terminals -> Runs \cup {None}]
    /\ \A t \in Terminals : current[t] # None => terminal[current[t]] = t
    /\ killed \subseteq Terminals
    /\ shell \in [Terminals -> {"none", "alive", "dead"}]
    /\ typed \in [Terminals -> Seq(Runs)] /\ executing \in [Terminals -> Runs \cup {None}]
    /\ printed \in [Terminals -> Seq(Messages)]

\* maxTerminals bounds the shells that exist, the dying ones included, however many runs
\* ask for one at the same time; and no slot is lost: a terminal that is neither idle nor
\* being killed carries a command that still runs, so that an end, an exit or a cancel
\* gives it back.
TerminalsAreSound ==
    /\ Cardinality(Live) <= MaxTerminals
    /\ \A t \in Live :
          state[t] # "idle" /\ t \notin killed /\ shell[t] = "alive"
              => current[t] \in Running

\* Once the abort listener is attached no abort is lost: the command is over, or the
\* terminal it was typed into has been killed.
HeardAbortsLand ==
    \A r \in heard : status[r] # "running" \/ terminal[r] \in killed

\* A cancelled command whose terminal still carries it comes to an end, whether its
\* end marker, the kill or another exit comes first; unless another run takes its
\* terminal over, it does not stay "running".
Carried(r) == \E t \in Live : terminal[r] = t /\ current[t] = r
Overtaken(r) == \E t \in Live : terminal[r] = t /\ current[t] # r
CancelledCommandsEnd ==
    \A r \in Runs :
        (r \in cancelRequested /\ Carried(r)) ~> (status[r] # "running" \/ Overtaken(r))

\* contracts/index.ts:520, run_command "reuses idle terminals": no command is typed
\* into a terminal another command still runs in.
OneCommandPerTerminal ==
    \A r, s \in Running : r # s => terminal[r] # terminal[s]
=============================================================================
