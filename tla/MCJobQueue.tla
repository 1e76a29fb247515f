----------------------------- MODULE MCJobQueue -----------------------------
(* Instances of JobQueue for TLC: one drain task and one long-lived worker *)
(* that carry different builds or the same one.                            *)
EXTENDS JobQueue, TLC

CONSTANTS w1, w2, w3, i1, i2, b1, b2

OneBuild == [i \in Identity |-> b1]
BothCarryOne == [w \in Worker |-> b1]

TwoBuilds == i1 :> b1 @@ i2 :> b2
TwoCarryOne == w1 :> b1 @@ w2 :> b1 @@ w3 :> b2
=============================================================================
