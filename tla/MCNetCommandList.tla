---------------------------- MODULE MCNetCommandList ----------------------------
(* An instance of NetCommandList: the command IDs of two players.          *)
EXTENDS NetCommandList

(* The counter of the one wraps around; that of the other has left a gap.  *)
IdsOfEach == [p \in Players |-> IF p = 0 THEN {6, 7, 0} ELSE {1, 2, 4}]
=================================================================================
