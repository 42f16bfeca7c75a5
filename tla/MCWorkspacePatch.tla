-------------------------- MODULE MCWorkspacePatch --------------------------
(***************************************************************************)
(* Instances of WorkspacePatch for TLC: file 2 does not exist; contents    *)
(* are numbers and 0 is no file.                                           *)
(***************************************************************************)
EXTENDS WorkspacePatch, TLC

CONSTANTS c1, c2, c3

MCContent == 1..7

Add(p, v)     == [kind |-> "add", src |-> NoPath, tgt |-> p, content |-> v]
Update(p, v)  == [kind |-> "update", src |-> p, tgt |-> p, content |-> v]
Delete(p)     == [kind |-> "delete", src |-> p, tgt |-> p, content |-> 7]
Move(p, q, v) == [kind |-> "move", src |-> p, tgt |-> q, content |-> v]
Replace(p, v) == [kind |-> "replace", src |-> NoPath, tgt |-> p, content |-> v]

\* A move, a rewrite of its source, and an addition at its target with a deletion.
TwoPaths == 1..2
TwoFiles == <<1, 0>>
ThreeRequests == (c1 :> <<Move(1, 2, 4)>>)
              @@ (c2 :> <<Replace(1, 6)>>)
              @@ (c3 :> <<Add(2, 7), Delete(1)>>)

\* A move and an update that meet a rewrite of the updated file.
ThreePaths == 1..3
ThreeFiles == <<1, 0, 3>>
TwoRequests == (c1 :> <<Move(1, 2, 4), Update(3, 5)>>) @@ (c2 :> <<Replace(3, 6)>>)
=============================================================================
