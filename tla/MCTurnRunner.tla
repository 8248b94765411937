---------------------------- MODULE MCTurnRunner ----------------------------
(***************************************************************************)
(* Instances of TurnRunner for TLC.  All turns belong to one conversation, *)
(* as with the default canonical conversation of the three processes.      *)
(***************************************************************************)
EXTENDS TurnRunner, TLC

CONSTANTS t1, t2, t3, c1, h1, h2

OneConversation == [t \in Turn |-> c1]

SameTurns == Permutations(Turn)
=============================================================================
