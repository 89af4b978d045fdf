------------------------------ MODULE LeavingGame ------------------------------
(***************************************************************************)
(* What the network promises to the game logic when players leave a game   *)
(* that goes on: there is one cast for each frame, in which all execute    *)
(* the commands of the same players; who has gone stays gone; and nobody   *)
(* goes on without those who are still in.                                 *)
(***************************************************************************)
EXTENDS Integers

CONSTANTS Player,
          FirstFrame,
          MaxLead     \* how many frames somebody may be ahead of those in the cast

VARIABLES frame,      \* [player -> the frame it executes next]
          cast,       \* [frame somebody has come to -> who is in the game]
          executed    \* [player -> the <<frame, player>> whose commands it has executed]

vars == <<frame, cast, executed>>

Init ==
  /\ frame = [p \in Player |-> FirstFrame]
  /\ cast = [f \in {FirstFrame} |-> Player]
  /\ executed = [p \in Player |-> {}]

(* Who comes to a new frame first settles who is in it.                    *)
ComeTo(f) ==
  IF f \in DOMAIN cast THEN UNCHANGED cast
  ELSE \E rest \in SUBSET cast[f - 1] :
         cast' = [g \in DOMAIN cast \cup {f} |-> IF g = f THEN rest ELSE cast[g]]

Play(p) ==
  LET f == frame[p]
  IN  /\ p \in cast[f] /\ \A s \in cast[f] : f <= frame[s] + MaxLead
      /\ executed' = [executed EXCEPT ![p] = @ \cup ({f} \X cast[f])]
      /\ frame' = [frame EXCEPT ![p] = f + 1]
      /\ ComeTo(f + 1)

Next == \E p \in Player : Play(p)

Spec == Init /\ [][Next]_vars
=============================================================================
