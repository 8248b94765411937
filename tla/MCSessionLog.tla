---------------------------- MODULE MCSessionLog ----------------------------
(* Instances of SessionLog for TLC. *)
EXTENDS SessionLog, TLC
CONSTANTS t1, t2, t3, m, b
Answered == <<"user", "assistant">>
Interrupted == <<"user">>
Steered == <<"user", "user", "assistant">>
OneAnswer == {Answered}
Shapes == {Interrupted, Steered}
SameTurns == Permutations(Turn)
=============================================================================
