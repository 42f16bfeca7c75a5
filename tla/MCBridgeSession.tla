-------------------------- MODULE MCBridgeSession --------------------------
(* Two calls; two credentials whose tokens name two identities that share   *)
(* their subject and differ in their device.                                *)
EXTENDS BridgeSession, TLC

CONSTANTS k1, k2, c1, c2, i1, i2, s1, d1, d2

OneSubject == [i \in {i1, i2} |-> s1]
TwoDevices == (i1 :> d1) @@ (i2 :> d2)

Symmetry == Permutations({k1, k2}) \cup Permutations({c1, c2})
=============================================================================
