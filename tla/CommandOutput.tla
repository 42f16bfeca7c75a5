---------------------------- MODULE CommandOutput ----------------------------
(***************************************************************************)
(* What a managed command prints (command-manager.ts): the terminal's data *)
(* is searched for the end marker, kept as bytes in a ring of bounded size *)
(* and read in pages by whoever knows the id, from the offset the page     *)
(* before ended at.                                                        *)
(*                                                                         *)
(* A stream is a sequence of symbols (code points), "m" "x" being the end  *)
(* marker and "h" the header after it; the user's part of it may hold an   *)
(* "m" too.  A byte is its place in the stream, from 0, and whether a code *)
(* point starts and ends there.                                            *)
(***************************************************************************)
EXTENDS Integers, Sequences, SequencesExt

CONSTANTS
    Outputs,       \* what the command may print: sequences of symbols
    MaxRing,       \* maxOutputBytes
    MaxPage        \* bound: max_bytes of a read

\* The marker holds a random nonce: what is printed does not hold it.
ASSUME OutputsAssumption == Outputs \subseteq Seq(STRING \ {"x", "h"})
ASSUME RingAssumption == MaxRing \in Nat \ {0}
ASSUME PageAssumption == MaxPage \in Nat \ {0}

VARIABLES
    stream, sent,  \* what the shell prints, and how much of it arrived
    parseBuffer,   \* symbols of the terminal not yet handed on
    commandStatus, \* "running" or "over"
    ring, nextOffset, outputLost,
    kept,          \* "commands", then "expired": the tombstone, then "none"
    cursor,        \* where the reader goes on: the next_offset of its last page
    baseline,      \* of the one waitForActivity under way; -1 when there is none
    page           \* the last answer, until something else happens

shellVars == <<stream, sent>>
outputVars == <<ring, nextOffset, outputLost>>
commandVars == <<shellVars, outputVars, parseBuffer, commandStatus, kept, cursor, baseline, page>>

Width(symbol) == IF symbol = "e" THEN 2 ELSE 1
Marker == <<"m", "x">>
NoPage == [kind |-> "none"]

CommandInit ==
    /\ \E output \in Outputs : stream = output \o <<"n">> \o Marker \o <<"h">>
    /\ sent = 0 /\ parseBuffer = <<>> /\ commandStatus = "running"
    /\ ring = <<>> /\ nextOffset = 0 /\ outputLost = FALSE
    /\ kept = "commands" /\ cursor = 0 /\ baseline = -1 /\ page = NoPage

BytesBefore(i) == FoldLeft(LAMBDA n, symbol : n + Width(symbol), 0, SubSeq(stream, 1, i))

\* Buffer.from: the bytes of the n symbols of the stream after the first i.
Bytes(i, n) ==
    FlattenSeq([k \in 1..n |->
        [b \in 1..Width(stream[i + k]) |->
            [at |-> BytesBefore(i + k - 1) + b - 1,
             first |-> b = 1, last |-> b = Width(stream[i + k])]]])

-----------------------------------------------------------------------------
(* appendOutput and outputSnapshot. *)

\* Where a code point ends, 0 included.
Boundaries(bytes) == {0} \cup {k \in DOMAIN bytes : bytes[k].last}

\* The bug "the oldest bytes are dropped, whatever they are part of".
AppendOutput_Splits(i, n) ==
    LET chunk == Bytes(i, n)
        combined == ring \o chunk
        overflow == Max({0, Len(combined) - MaxRing})
    IN  /\ nextOffset' = nextOffset + Len(chunk)
        /\ ring' = SubSeq(combined, overflow + 1, Len(combined))
        /\ outputLost' = (outputLost \/ overflow > 0)

\* The n symbols of the stream after the first i; the ring drops whole code points.
AppendOutput(i, n) ==
    LET chunk == Bytes(i, n)
        combined == ring \o chunk
        overflow == Min({k \in Boundaries(combined) : Len(combined) - k <= MaxRing})
    IN  /\ nextOffset' = nextOffset + Len(chunk)
        /\ ring' = SubSeq(combined, overflow + 1, Len(combined))
        /\ outputLost' = (outputLost \/ overflow > 0)

\* A page of at most max bytes from offset on, but of one code point at least.
Snapshot(bytes, next, offset, max) ==
    LET earliest == next - Len(bytes)
        start == offset - earliest
        within == {k \in Boundaries(bytes) : start < k /\ k <= start + max}
        end == IF within # {} THEN Max(within)
               ELSE IF start = Len(bytes) THEN start
               ELSE Min({k \in Boundaries(bytes) : start < k})
    IN  CASE offset < earliest -> [kind |-> "OUTPUT_EXPIRED", earliest |-> earliest]
          [] offset >= earliest /\ start \notin Boundaries(bytes) -> [kind |-> "INVALID_ARGUMENT"]
          [] OTHER -> [kind |-> "page", from |-> offset, more |-> end < Len(bytes),
                       bytes |-> SubSeq(bytes, start + 1, end)]

\* finish of a waitForActivity: it reads on from where it began to wait.
Activity(max) ==
    LET answer == Snapshot(ring', nextOffset', Max({baseline, nextOffset' - Len(ring')}), max)
    IN  baseline' = -1 /\ page' = (IF baseline = -1 THEN NoPage ELSE answer)

Unread == 1000                          \* 128 KiB: more than there is

-----------------------------------------------------------------------------
(* handleTerminalData and handleTerminalExit. *)

\* notifyActivity wakes the waiter when something was appended or the command is over.
Appended(i, n) ==
    /\ AppendOutput(i, n)
    /\ IF n > 0 \/ commandStatus' = "over"
       THEN Activity(Unread)
       ELSE page' = NoPage /\ UNCHANGED baseline

\* The length of the longest end of the buffer that may become the marker.
MarkerPrefixSuffixLength(buffer) ==
    Max({k \in 0..Min({Len(buffer), Len(Marker) - 1}) :
            SubSeq(buffer, Len(buffer) - k + 1, Len(buffer)) = SubSeq(Marker, 1, k)})

EndIndices(buffer) ==
    {k \in 0..(Len(buffer) - Len(Marker)) : SubSeq(buffer, k + 1, k + Len(Marker)) = Marker}

Data(n) ==
    LET buffer == parseBuffer \o SubSeq(stream, sent + 1, sent + n)
        from == sent - Len(parseBuffer)
        ends == EndIndices(buffer)
        end == Min(ends)
        cut == Len(buffer) - MarkerPrefixSuffixLength(buffer)
    IN  /\ commandStatus = "running" /\ sent + n <= Len(stream)
        /\ sent' = sent + n
        /\ \/ /\ ends = {}                                  \* all that cannot be the marker
              /\ commandStatus' = "running"
              /\ parseBuffer' = SubSeq(buffer, cut + 1, Len(buffer))
              /\ Appended(from, cut)
           \/ /\ ends # {} /\ Last(buffer) # "h"            \* the header is not complete
              /\ parseBuffer' = buffer /\ page' = NoPage
              /\ UNCHANGED <<outputVars, commandStatus, baseline>>
           \/ /\ ends # {} /\ Last(buffer) = "h"
              /\ commandStatus' = "over" /\ parseBuffer' = <<>>
              /\ Appended(from, IF end > 0 /\ buffer[end] = "n" THEN end - 1 ELSE end)
        /\ UNCHANGED <<stream, kept, cursor>>

\* The bug "the buffer of a terminal that is gone is not emptied".
Exit_KeepsBuffer ==
    /\ commandStatus = "running" /\ commandStatus' = "over"
    /\ Appended(sent - Len(parseBuffer), Len(parseBuffer))
    /\ UNCHANGED <<shellVars, parseBuffer, kept, cursor>>

\* The shell exits or is killed: what was kept back is shown.
Exit ==
    /\ commandStatus = "running" /\ commandStatus' = "over"
    /\ parseBuffer' = <<>>
    /\ Appended(sent - Len(parseBuffer), Len(parseBuffer))
    /\ UNCHANGED <<shellVars, kept, cursor>>

\* The retention timer, and the next run's look at the tombstones.
Retire ==
    /\ commandStatus = "over"
    /\ \/ kept = "commands" /\ kept' = "expired"
       \/ kept = "expired" /\ kept' = "none"
    /\ page' = NoPage
    /\ UNCHANGED <<shellVars, outputVars, parseBuffer, commandStatus, cursor, baseline>>

-----------------------------------------------------------------------------
(* getOutput, by a reader that follows the pages, and waitForActivity. *)

GetOutput(max) ==
    /\ page' = (CASE kept = "commands" -> Snapshot(ring, nextOffset, cursor, max)
                  [] kept = "expired" -> [kind |-> "RETENTION_EXPIRED"]
                  [] OTHER -> [kind |-> "NOT_FOUND"])
    /\ cursor' = (CASE page'.kind = "page" -> cursor + Len(page'.bytes)
                    [] page'.kind = "OUTPUT_EXPIRED" -> page'.earliest
                    [] OTHER -> cursor)
    /\ UNCHANGED <<shellVars, outputVars, parseBuffer, commandStatus, kept, baseline>>

WaitForActivity ==
    /\ baseline = -1 /\ kept = "commands"
    /\ IF commandStatus = "running"
       THEN baseline' = nextOffset /\ page' = NoPage
       ELSE page' = Snapshot(ring, nextOffset, nextOffset, Unread) /\ UNCHANGED baseline
    /\ UNCHANGED <<shellVars, outputVars, parseBuffer, commandStatus, kept, cursor>>

\* Its timer, or the caller's signal.
WaitEnds ==
    /\ baseline # -1
    /\ UNCHANGED outputVars /\ Activity(Unread)
    /\ UNCHANGED <<shellVars, parseBuffer, commandStatus, kept, cursor>>

CommandNext ==
    \/ \E n \in 1..Len(stream) : Data(n)
    \/ Exit \/ Retire
    \/ \E max \in 1..MaxPage : GetOutput(max)
    \/ WaitForActivity \/ WaitEnds

-----------------------------------------------------------------------------
\* Offsets, ring and buffer are within the stream and the limits.
CommandTypeOK ==
    /\ sent \in 0..Len(stream) /\ Len(parseBuffer) <= sent
    /\ commandStatus \in {"running", "over"} /\ (commandStatus = "over" => parseBuffer = <<>>)
    /\ Len(ring) <= MaxRing /\ nextOffset \in Nat /\ outputLost \in BOOLEAN
    /\ kept \in {"commands", "expired", "none"}
    /\ cursor \in 0..nextOffset /\ baseline \in -1..nextOffset

\* A page holds exactly the bytes its offsets name, whole code points of them, and brings
\* the reader on; an offset the manager gave is never refused, whatever was dropped since.
PagesAreExact ==
    /\ page.kind # "INVALID_ARGUMENT"
    /\ page.kind = "page" =>
          LET bytes == page.bytes IN
          /\ \A i \in DOMAIN bytes : bytes[i].at = page.from + i - 1
          /\ bytes # <<>> => Head(bytes).first /\ Last(bytes).last
          /\ page.more => bytes # <<>>

\* What the offsets leave out was lost, and is marked so.
LossIsMarked == nextOffset > Len(ring) => outputLost

\* However the stream was cut into chunks, a command that reached its end has shown all
\* it printed and none of the marker.  One newline before the marker is not its own: it
\* is shown when it came in an earlier chunk.
EndIsWhole ==
    commandStatus = "over" /\ sent = Len(stream) =>
        nextOffset - BytesBefore(Len(stream) - Len(Marker) - 2) \in {0, 1}

\* Nobody waits for what has happened.
NoMissedActivity ==
    baseline # -1 => commandStatus = "running" /\ nextOffset = baseline
=============================================================================
