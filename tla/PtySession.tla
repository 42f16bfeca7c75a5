----------------------------- MODULE PtySession -----------------------------
(***************************************************************************)
(* One session of the agent's interactive terminal (pty-session.ts): what  *)
(* the process prints goes to a ring, input is taken in sequence, and      *)
(* three timers see to its end.  Bytes are numbered as they are printed.   *)
(* Backend.kill catches its own errors, so that kill() never does and no   *)
(* session is ORPHANED.                                                    *)
(***************************************************************************)
EXTENDS Naturals, Sequences, SequencesExt

CONSTANTS
    MaxOutput,     \* maxOutputBytes
    MaxPrinted,    \* bound: bytes printed
    MaxInputs      \* bound: inputs accepted

ASSUME MaxOutputAssumption == MaxOutput \in Nat \ {0}
ASSUME BoundsAssumption == MaxPrinted \in Nat /\ MaxInputs \in Nat

VARIABLES
    ptyState, process,     \* the process: "alive", "killed" by SIGKILL, "dead"
    ptyRing, ringStart, ptyNext, truncated,
    printed,               \* history: bytes printed
    inputSeq,
    asked,                 \* the input the writer is at: it sends it until it hears
    applied                \* history: the inputs that reached the process

ringVars == <<ptyRing, ringStart, ptyNext, truncated, printed>>
inputVars == <<inputSeq, asked, applied>>
ptyVars == <<ptyState, process, ringVars, inputVars>>

PtyInit ==
    /\ \/ ptyState = "RUNNING" /\ process = "alive"
       \/ ptyState = "FAILED" /\ process = "dead"
    /\ ptyRing = <<>> /\ ringStart = 0 /\ ptyNext = 0 /\ truncated = FALSE /\ printed = 0
    /\ inputSeq = 0 /\ asked = 0 /\ applied = <<>>

Terminal == {"EXITED", "KILLED", "FAILED"}

-----------------------------------------------------------------------------
(* Output. *)

\* The bug "only what is pushed out counts as truncated".
AppendChunk_Quiet(n) ==
    LET first == ptyNext + n > MaxOutput /\ ringStart = 0 /\ ptyNext < MaxOutput
        size == IF first THEN MaxOutput - ptyNext ELSE n
        combined == ptyRing \o [i \in 1..size |-> printed + i]
        overflow == Len(combined) - MaxOutput
    IN  /\ printed' = printed + n
        /\ ptyNext' = ptyNext + size
        /\ IF overflow > 0
           THEN /\ ptyRing' = SubSeq(combined, overflow + 1, Len(combined))
                /\ ringStart' = ringStart + overflow /\ truncated' = TRUE
           ELSE ptyRing' = combined /\ UNCHANGED <<ringStart, truncated>>

\* append, of a chunk of n bytes.  The first that does not fit is cut, and the offsets do
\* not count what was cut off; later ones push the oldest bytes out.
AppendChunk(n) ==
    LET first == ptyNext + n > MaxOutput /\ ringStart = 0 /\ ptyNext < MaxOutput
        size == IF first THEN MaxOutput - ptyNext ELSE n
        combined == ptyRing \o [i \in 1..size |-> printed + i]
        overflow == Len(combined) - MaxOutput
    IN  /\ printed' = printed + n
        /\ ptyNext' = ptyNext + size
        /\ IF overflow > 0
           THEN /\ ptyRing' = SubSeq(combined, overflow + 1, Len(combined))
                /\ ringStart' = ringStart + overflow /\ truncated' = TRUE
           ELSE /\ ptyRing' = combined /\ UNCHANGED ringStart
                /\ truncated' = (truncated \/ first)

Prints(n) ==
    /\ process # "dead" /\ printed + n <= MaxPrinted
    /\ AppendChunk(n)
    /\ UNCHANGED <<ptyState, process, inputVars>>

\* read: what it answers at an offset.
Read(offset) ==
    CASE offset < ringStart -> "PTY_OFFSET_EVICTED"
      [] offset > ptyNext -> "PTY_OFFSET_AHEAD"
      [] OTHER -> SubSeq(ptyRing, offset - ringStart + 1, Len(ptyRing))

-----------------------------------------------------------------------------
(* Input, from a writer that repeats itself when it hears nothing. *)

\* write, with the sequence number the writer expects.
Write ==
    /\ ptyState = "RUNNING" /\ inputSeq < MaxInputs
    /\ IF asked = inputSeq
       THEN inputSeq' = inputSeq + 1 /\ applied' = Append(applied, asked)
       ELSE UNCHANGED <<inputSeq, applied>>              \* PTY_INPUT_SEQ_MISMATCH
    /\ asked' \in {asked, inputSeq'}                     \* the answer is lost, or not
    /\ UNCHANGED <<ptyState, process, ringVars>>

-----------------------------------------------------------------------------
(* The end. *)

\* kill, of a tool, of the gateway's close, or of the wall or the idle timer.
Kill ==
    /\ ptyState \in {"RUNNING", "KILLING"} /\ ptyState' = "KILLING"
    /\ UNCHANGED <<process, ringVars, inputVars>>

\* The bug "the second kill looks for a session that still runs".
ForceKill_Late ==
    /\ ptyState = "RUNNING" /\ process = "alive"
    /\ process' = "killed"
    /\ UNCHANGED <<ptyState, ringVars, inputVars>>

\* One second later.
ForceKill ==
    /\ ptyState = "KILLING" /\ process = "alive"
    /\ process' = "killed"
    /\ UNCHANGED <<ptyState, ringVars, inputVars>>

\* onExit: the process ends by itself, of the first signal or of the second.
PtyExit ==
    /\ process # "dead" /\ process' = "dead"
    /\ ptyState' = IF ptyState = "KILLING" THEN "KILLED" ELSE "EXITED"
    /\ UNCHANGED <<ringVars, inputVars>>

WallTimer == ptyState = "RUNNING" /\ Kill
Killed == process = "killed" /\ PtyExit

PtyNextState ==
    \/ \E n \in 1..MaxPrinted : Prints(n)
    \/ Write \/ Kill \/ ForceKill \/ PtyExit

\* The timers fire, and what SIGKILL hits exits.  It may ignore the first signal.
PtyFairness == WF_ptyVars(WallTimer) /\ WF_ptyVars(ForceKill) /\ WF_ptyVars(Killed)

-----------------------------------------------------------------------------
\* The ring is within its limit and where the offsets say; only an ended session is dead.
PtyTypeOK ==
    /\ ptyState \in Terminal \cup {"RUNNING", "KILLING"}
    /\ process \in {"alive", "killed", "dead"} /\ (process = "dead" <=> ptyState \in Terminal)
    /\ ptyRing \in Seq(1..MaxPrinted) /\ Len(ptyRing) <= MaxOutput
    /\ ringStart \in Nat /\ ptyNext = ringStart + Len(ptyRing)
    /\ truncated \in BOOLEAN /\ printed \in 0..MaxPrinted
    /\ inputSeq \in 0..MaxInputs /\ asked \in 0..inputSeq

\* A session that is not marked truncated has kept every byte at its offset: what read()
\* answers anywhere is the rest of the output.
LossIsTold ==
    ~truncated => /\ ptyNext = printed
                  /\ \A offset \in 0..ptyNext :
                        Read(offset) = [i \in 1..(printed - offset) |-> offset + i]

\* An input is applied once and in order, however often it was sent.
InputsOnce == applied = [i \in 1..inputSeq |-> i - 1]

\* A session ends, though the process may ignore the first signal and print for ever.
SessionsEnd == ptyState = "RUNNING" ~> ptyState \in Terminal
=============================================================================
