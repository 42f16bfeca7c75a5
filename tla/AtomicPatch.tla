---------------------------- MODULE AtomicPatch ----------------------------
(***************************************************************************)
(* What a caller of apply_patch or write_file is promised by the contract: *)
(* "Apply one validated multi-file patch transaction".  A call either      *)
(* changes every file of its plan in one step, at an instant when every    *)
(* file it names has the version the caller expected, or changes nothing.  *)
(***************************************************************************)
EXTENDS Integers, Sequences

CONSTANTS Calls, Paths, Content, Missing, NoPath, InitFiles

VARIABLES store,     \* the files of the workspace, as a caller may rely on them
          agreed,    \* what each call intends: its plan and expected versions
          decision   \* "none", "applied" or "refused", for each call

vars == <<store, agreed, decision>>

Ops == [kind : {"add", "update", "delete", "move"},
        src : Paths \cup {NoPath}, tgt : Paths, content : Content]

OpPaths(op) == {op.src, op.tgt} \ {NoPath}
Touched(plan) == UNION {OpPaths(plan[i]) : i \in DOMAIN plan}

\* The files after one operation of a plan, and after all of them: the last operation that
\* touches a file says what it holds.
AfterOp(files, op) ==
  [p \in Paths |-> IF p = op.tgt /\ op.kind # "delete" THEN op.content
                   ELSE IF p = op.src THEN Missing
                   ELSE files[p]]

LastOf(plan, p) == CHOOSE i \in DOMAIN plan : /\ p \in OpPaths(plan[i])
                                              /\ \A j \in DOMAIN plan :
                                                   p \in OpPaths(plan[j]) => j <= i

After(files, plan) ==
  [p \in Paths |-> IF p \in Touched(plan) THEN AfterOp(files, plan[LastOf(plan, p)])[p]
                   ELSE files[p]]

\* Every touched file has the version the caller expected.
AsExpected(a, files) == \A p \in Touched(a.plan) : a.expected[p] = files[p]

-----------------------------------------------------------------------------
Init == /\ store = InitFiles
        /\ agreed = [c \in Calls |-> [plan |-> <<>>, expected |-> InitFiles]]
        /\ decision = [c \in Calls |-> "none"]

\* The caller states its plan and the versions it has read.
Agree(c) == /\ decision[c] = "none"
            /\ agreed' = [agreed EXCEPT ![c] = agreed'[c]]
            /\ UNCHANGED <<store, decision>>

Commit(c) == /\ decision[c] = "none"
             /\ agreed[c].plan # <<>>
             /\ AsExpected(agreed[c], store)
             /\ store' = After(store, agreed[c].plan)
             /\ decision' = [decision EXCEPT ![c] = "applied"]
             /\ UNCHANGED agreed

Refuse(c) == /\ decision[c] = "none"
             /\ decision' = [decision EXCEPT ![c] = "refused"]
             /\ UNCHANGED <<store, agreed>>

\* A crash of the process refuses every call it interrupts.
RefuseAll(S) == /\ \A c \in S : decision[c] = "none"
                /\ decision' = [c \in Calls |-> IF c \in S THEN "refused" ELSE decision[c]]
                /\ UNCHANGED <<store, agreed>>

Next == \/ \E c \in Calls : Agree(c) \/ Commit(c) \/ Refuse(c)
        \/ \E S \in SUBSET Calls : RefuseAll(S)

Spec == Init /\ [][Next]_vars
=============================================================================
