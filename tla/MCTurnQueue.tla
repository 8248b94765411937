---------------------------- MODULE MCTurnQueue ----------------------------
(***************************************************************************)
(* Instances of TurnQueue for TLC.                                         *)
(***************************************************************************)
EXTENDS TurnQueue, TLC

CONSTANTS t1, t2, t3, t4, c1, c2, h1, h2, h3

\* Three turns of one conversation and one of another.
ThreeAndOne == t1 :> c1 @@ t2 :> c1 @@ t3 :> c1 @@ t4 :> c2

\* The turns of one conversation differ in nothing but their place.
SameTurns == Permutations({t1, t2, t3}) \cup Permutations({h2, h3})
=============================================================================
