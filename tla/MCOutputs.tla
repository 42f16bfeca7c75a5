----------------------------- MODULE MCOutputs -----------------------------
(***************************************************************************)
(* The three keepers of output have nothing in common: commands are        *)
(* explored beside a session that failed to start, sessions beside a       *)
(* command that has printed nothing, and the panel beside both of those.   *)
(***************************************************************************)
EXTENDS CommandOutput, PtySession, BridgeUiState

\* "a" is one byte, "e" two, "n" the newline and "m" how the marker begins.
OutputSet == UNION {[1..n -> {"a", "e", "m", "n"}] : n \in 1..3}

Silent ==
    /\ sent = 0 /\ commandStatus = "running" /\ baseline = -1 /\ page = NoPage
    /\ stream = <<"a", "n">> \o Marker \o <<"h">>
NoSession == ptyState = "FAILED"
Unused == retainedRuns = <<>> /\ reviewedPatches = <<>>

Init ==
    /\ CommandInit /\ PtyInit /\ UiInit
    /\ \/ NoSession /\ Unused
       \/ Silent /\ Unused
       \/ Silent /\ NoSession

Next ==
    \/ NoSession /\ Unused /\ CommandNext /\ UNCHANGED <<ptyVars, uiVars>>
    \/ Silent /\ Unused /\ PtyNextState /\ UNCHANGED <<commandVars, uiVars>>
    \/ Silent /\ NoSession /\ UiNext /\ UNCHANGED <<commandVars, ptyVars>>

Spec == Init /\ [][Next]_<<commandVars, ptyVars, uiVars>> /\ PtyFairness

\* Every variable of the three is of its type.
TypeOK == CommandTypeOK /\ PtyTypeOK /\ UiTypeOK

\* Whoever reads or waits for a command's output is served.
ReadersAreServed == PagesAreExact /\ LossIsMarked /\ EndIsWhole /\ NoMissedActivity

\* The interactive sessions keep their word on output and input.
PtyIsHonest == LossIsTold /\ InputsOnce

\* The panel counts, limits and marks what it shows as it says.
PanelIsTrue == BodiesAreCounted /\ EntriesAreBounded /\ RunsAreRetained /\ ReviewsAreTrue
=============================================================================
