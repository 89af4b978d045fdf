------------------------------ MODULE MCDelivery ------------------------------
(* Instances of Delivery: the commands sent.                               *)
EXTENDS Delivery

CONSTANTS A  \* a player other than the router

Command(p, id, direct) == [player |-> p, id |-> id, direct |-> direct]

(* One command of each kind: relayed, direct, the router's own.            *)
OneOfEachKind == {Command(A, 1, FALSE), Command(A, 2, TRUE), Command(Router, 1, FALSE)}
=============================================================================
