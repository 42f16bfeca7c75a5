---------------------------- MODULE BridgeUiState ----------------------------
(***************************************************************************)
(* What the panel shows of the last runs of the Bridge (bridgeUiState.ts): *)
(* calls, patches, commands and log lines, which share one limit, the      *)
(* diffs of the patches, which share another, and which patches the user   *)
(* has reviewed.  Events come of the run that was started last; the calls  *)
(* a dead Bridge leaves behind stay "running".                             *)
(*                                                                         *)
(* An entry is its kind, its run and its id; metadata holds the entries of *)
(* all four kinds in the order of their times, in which those of one event *)
(* are in any order (the code compares their names).                       *)
(***************************************************************************)
EXTENDS Integers, Sequences, SequencesExt

CONSTANTS
    MaxStarts,     \* bound: runs started
    Ids,           \* ids of calls, patches and commands
    Versions,      \* what a patch does: its reviewVersion
    Sizes,         \* bytes of a diff
    MAX_RUNS, MAX_METADATA, MAX_REVIEWED_PATCHES, MAX_BODY_BYTES

ASSUME RunsAssumption == MAX_RUNS \in Nat \ {0}
ASSUME LimitsAssumption ==
    {MaxStarts, MAX_METADATA, MAX_REVIEWED_PATCHES, MAX_BODY_BYTES} \subseteq Nat
ASSUME SizesAssumption == \A size \in Sizes : size \in 0..MAX_BODY_BYTES

VARIABLES
    retainedRuns,  \* runs are numbered; 0 is one of an earlier session of the editor
    started,       \* runs started
    metadata,
    running,       \* the calls and commands of metadata that are not over
    patches,       \* a Map: in the order in which the patches were first put in
    bodyBytes,
    reviewedPatches,   \* a Map too
    marked         \* history: versions the user marked as reviewed and not since otherwise

uiVars == <<retainedRuns, started, metadata, running, patches, bodyBytes, reviewedPatches, marked>>

\* What an earlier session of the editor saved: one version of a patch at most.
RestoreReviewedPatches ==
    \E old \in SUBSET {[run |-> 0, id |-> i, version |-> v] : i \in Ids, v \in Versions} :
        /\ \A a, b \in old : a.id = b.id => a = b
        /\ IsFiniteSet(old) /\ Cardinality(old) <= MAX_REVIEWED_PATCHES
        /\ reviewedPatches = SetToSeq(old)

UiInit ==
    /\ retainedRuns = <<>> /\ started = 0
    /\ metadata = <<>> /\ running = {} /\ patches = <<>> /\ bodyBytes = 0
    /\ RestoreReviewedPatches
    /\ marked = {}

Current == Last(retainedRuns)

-----------------------------------------------------------------------------
(* The limits. *)

\* How many of these places lie up to i: the oldest is of rank 1.
Rank(i, places) == Cardinality({j \in places : j <= i})

\* The elements of a list at these places, in their order.
At(list, places) ==
    [n \in 1..Cardinality(places) |-> list[CHOOSE i \in places : Rank(i, places) = n]]

\* What filter() leaves.
Where(list, Test(_)) == At(list, {i \in DOMAIN list : Test(list[i])})

\* trimMetadata: the oldest entries that are over.
Trim(entries, busy) ==
    LET over == {i \in DOMAIN entries : entries[i] \notin busy}
        victims == {i \in over : Rank(i, over) <= Len(entries) - MAX_METADATA}
    IN  At(entries, DOMAIN entries \ victims)

PatchKey(patch) == <<"patch", patch.run, patch.id>>
Body(patch) == IF patch.expired THEN 0 ELSE patch.size

\* The bug "an expired diff is counted off again".
Deleted_Twice(bytes, list, entries) ==
    FoldLeft(LAMBDA n, patch : IF PatchKey(patch) \in Range(entries) THEN n
                               ELSE Max({0, n - patch.size}), bytes, list)

\* deletePatch, of those that entries no longer hold.
Deleted(bytes, list, entries) ==
    FoldLeft(LAMBDA n, patch : IF PatchKey(patch) \in Range(entries) THEN n
                               ELSE Max({0, n - Body(patch)}), bytes, list)

Keep(list, entries) == Where(list, LAMBDA patch : PatchKey(patch) \in Range(entries))

\* trimBodies, from the first patch on.
TrimBodies(list, bytes) ==
    FoldLeft(LAMBDA state, patch :
                IF state.bytes <= MAX_BODY_BYTES \/ Body(patch) = 0
                THEN [state EXCEPT !.list = Append(@, patch)]
                ELSE [bytes |-> state.bytes - patch.size,
                      list |-> Append(state.list, [patch EXCEPT !.expired = TRUE])],
             [bytes |-> bytes, list |-> <<>>], list)

\* The entries of one event and its log line are the newest.
Enter(entries, busy, list, bytes) ==
    \E newest \in SetToSeqs(entries \cup {<<"log", Current>>}) :
        LET all == Where(metadata, LAMBDA entry : entry \notin entries) \o newest IN
        /\ metadata' = Trim(all, busy)
        /\ running' = busy
        /\ patches' = Keep(list, metadata') /\ bodyBytes' = Deleted(bytes, list, metadata')

-----------------------------------------------------------------------------
(* startRun and ingestEvent. *)

\* Of the runs that are too many everything goes, also what was still running.
StartRun ==
    /\ started < MaxStarts
    /\ started' = started + 1
    /\ LET runs == Append(retainedRuns, started')
           dropped == {runs[i] : i \in 1..(Len(runs) - MAX_RUNS)}
           left == Where(metadata, LAMBDA entry : entry[2] \notin dropped)
       IN  /\ retainedRuns' = Where(runs, LAMBDA run : run \notin dropped)
           /\ running' = {entry \in running : entry[2] \notin dropped}
           /\ metadata' = Trim(Append(left, <<"log", started'>>), running')
           /\ patches' = Keep(patches, metadata')
           /\ bodyBytes' = Deleted(bodyBytes, patches, metadata')
           /\ reviewedPatches' =
                 Where(reviewedPatches, LAMBDA review : review.run \notin dropped)
    /\ UNCHANGED marked

Keepers == <<retainedRuns, started, reviewedPatches, marked>>

\* Every other event is a line of the log.
Logged == Enter({}, running, patches, bodyBytes) /\ UNCHANGED Keepers

Call(i) ==
    /\ <<"call", Current, i>> \notin Range(metadata)
    /\ Enter({<<"call", Current, i>>}, running \cup {<<"call", Current, i>>},
             patches, bodyBytes)
    /\ UNCHANGED Keepers

\* upsertCommand: what is still running when the answer names a command, which may run on.
UpsertCommand(command) == {running \ {command}, running \cup {command}}

\* bridge.result or bridge.cancelled.
Result(i) ==
    LET call == <<"call", Current, i>>
        command == <<"command", Current, i>>
    IN  /\ call \in running
        /\ \/ Enter({call}, running \ {call}, patches, bodyBytes)
           \/ \E busy \in UpsertCommand(command) :
                 Enter({call, command}, busy \ {call}, patches, bodyBytes)
        /\ UNCHANGED Keepers

\* updateCommandOutput, with an answer that says the command is over.
CommandEnds(i) ==
    LET command == <<"command", Current, i>> IN
    /\ command \in running /\ running' = running \ {command}
    /\ metadata' = Append(Where(metadata, LAMBDA entry : entry # command), command)
    /\ UNCHANGED <<patches, bodyBytes, Keepers>>

IsReviewed(id, version) ==
    [run |-> Current, id |-> id, version |-> version] \in Range(reviewedPatches)

\* bridge.patch_result, of a new patch or again of one that is shown.  What was reviewed
\* is the version.
PatchResult(id, version, size) ==
    LET known == {k \in DOMAIN patches : patches[k].run = Current /\ patches[k].id = id}
        k == CHOOSE j \in known : TRUE
        again == known # {} /\ patches[k].version = version
        detail == [run |-> Current, id |-> id, version |-> version, size |-> size,
                   expired |-> FALSE,
                   reviewed |-> IF again THEN patches[k].reviewed ELSE IsReviewed(id, version)]
        list == IF known = {} THEN Append(patches, detail) ELSE [patches EXCEPT ![k] = detail]
        before == IF known = {} THEN 0 ELSE Body(patches[k])
        trimmed == TrimBodies(list, bodyBytes - before + size)
    IN  /\ Enter({PatchKey(detail)}, running, trimmed.list, trimmed.bytes)
        /\ UNCHANGED Keepers

-----------------------------------------------------------------------------
(* markPatchReviewed, of any patch that is shown. *)

\* reviewedPatches.set: a key that is there keeps its place; then trimReviewedPatches.
SetReviewed(review) ==
    LET same == {k \in DOMAIN reviewedPatches : reviewedPatches[k].run = review.run
                                                /\ reviewedPatches[k].id = review.id}
        all == IF same = {} THEN Append(reviewedPatches, review)
               ELSE [k \in DOMAIN reviewedPatches |->
                        IF k \in same THEN review ELSE reviewedPatches[k]]
    IN  SubSeq(all, Max({1, Len(all) - MAX_REVIEWED_PATCHES + 1}), Len(all))

MarkPatchReviewed(k, reviewed) ==
    LET review == [run |-> patches[k].run, id |-> patches[k].id, version |-> patches[k].version]
    IN  /\ patches' = [patches EXCEPT ![k].reviewed = reviewed]
        /\ IF reviewed
           THEN reviewedPatches' = SetReviewed(review) /\ marked' = marked \cup {review}
           ELSE /\ reviewedPatches' =
                      Where(reviewedPatches, LAMBDA r : r.run # review.run \/ r.id # review.id)
                /\ marked' = marked \ {review}
        /\ UNCHANGED <<retainedRuns, started, metadata, running, bodyBytes>>

UiNext ==
    \/ StartRun
    \/ /\ retainedRuns # <<>>
       /\ \/ Logged
          \/ \E i \in Ids : Call(i) \/ Result(i) \/ CommandEnds(i)
          \/ \E i \in Ids, version \in Versions, size \in Sizes : PatchResult(i, version, size)
    \/ \E k \in DOMAIN patches, reviewed \in BOOLEAN : MarkPatchReviewed(k, reviewed)

-----------------------------------------------------------------------------
\* What is shown of runs, patches and reviews stays within the limits the panel names.
UiTypeOK ==
    /\ Len(retainedRuns) <= MAX_RUNS /\ started \in 0..MaxStarts
    /\ running \subseteq Range(metadata)
    /\ \A patch \in Range(patches) : PatchKey(patch) \in Range(metadata)
    /\ Len(reviewedPatches) <= MAX_REVIEWED_PATCHES

\* The bytes that are counted are those of the diffs that are kept, whatever was replaced,
\* expired, evicted or dropped, and they stay within their limit.
BodiesAreCounted ==
    /\ bodyBytes = FoldLeft(LAMBDA n, patch : n + Body(patch), 0, patches)
    /\ bodyBytes <= MAX_BODY_BYTES

\* Only calls that still run, and commands that ran at the last event, may exceed the
\* limit on entries.
EntriesAreBounded ==
    \/ Len(metadata) <= MAX_METADATA
    \/ \A entry \in Range(metadata) : entry \in running \/ entry[1] = "command"

\* Nothing is left of a run that is not retained.
RunsAreRetained ==
    /\ \A entry \in Range(metadata) : entry[2] \in Range(retainedRuns)
    /\ \A review \in Range(reviewedPatches) : review.run \in Range(retainedRuns) \cup {0}

\* A patch is shown as reviewed only if the user has reviewed what it now does.
ReviewsAreTrue ==
    \A patch \in Range(patches) :
        patch.reviewed => [run |-> patch.run, id |-> patch.id, version |-> patch.version] \in marked
=============================================================================
