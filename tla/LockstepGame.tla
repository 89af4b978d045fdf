----------------------------- MODULE LockstepGame -----------------------------
(***************************************************************************)
(* What the lockstep network promises to the game logic: there is one      *)
(* script of commands, each for a frame, and every player plays the script *)
(* frame by frame.  A frame somebody has played never changes any more,    *)
(* and nobody is more than MaxLead frames ahead of anybody else.           *)
(***************************************************************************)
EXTENDS Integers, Sequences

CONSTANTS Player,
          MaxLead

VARIABLES script,  \* the commands scheduled so far; c.frame is the frame of c
          played   \* [player -> the sequence of command sets it has played]

vars == <<script, played>>

Scene(f) == {c \in script : c.frame = f}

Init ==
  /\ script = {}
  /\ played = [p \in Player |-> <<>>]

(* New commands are for frames nobody has played.                          *)
Schedule ==
  /\ script \subseteq script'
  /\ \A c \in script' \ script : \A p \in Player : c.frame > Len(played[p])
  /\ UNCHANGED played

Play(p) ==
  /\ \A q \in Player : Len(played[p]) < Len(played[q]) + MaxLead
  /\ played' = [played EXCEPT ![p] = Append(@, Scene(Len(@) + 1))]
  /\ UNCHANGED script

Next == Schedule \/ \E p \in Player : Play(p)

Spec == Init /\ [][Next]_vars
=============================================================================
