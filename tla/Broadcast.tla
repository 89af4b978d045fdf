------------------------------ MODULE Broadcast ------------------------------
(***************************************************************************)
(* What a player who hands a command to the network expects of it: every   *)
(* other player gets the command, once, and nobody gets what was not sent. *)
(***************************************************************************)
EXTENDS Naturals

CONSTANTS Player, Cmd

VARIABLES sent,  \* the commands handed to the network
          got    \* [player -> the commands it has]

vars == <<sent, got>>

Init == sent = {} /\ got = [p \in Player |-> {}]

(* A player has its own command at once.                                   *)
Send(c) ==
  /\ c \notin sent
  /\ sent' = sent \cup {c}
  /\ got' = [got EXCEPT ![c.player] = @ \cup {c}]

Deliver(q, c) ==
  /\ c \in sent \ got[q]
  /\ got' = [got EXCEPT ![q] = @ \cup {c}]
  /\ UNCHANGED sent

Next == \E c \in Cmd : Send(c) \/ \E q \in Player : Deliver(q, c)

Spec == Init /\ [][Next]_vars
FairSpec == Spec /\ \A q \in Player : \A c \in Cmd : WF_vars(Deliver(q, c))
=============================================================================
