----------------------------- MODULE FrameWindow -----------------------------
(***************************************************************************)
(* What a FrameDataManager promises: as if every frame number had a record *)
(* of its own.  Nothing here knows of a ring; a record is blank until      *)
(* something arrives for its frame and is forgotten FRAMES_TO_KEEP frames  *)
(* after it has been executed.                                             *)
(***************************************************************************)
EXTENDS FrameData

CONSTANTS Ids,       \* the commands one player may schedule for one frame
          IsLocal,   \* m_isLocal: the data is the local player's own
          RunAhead,  \* frames 1 .. RunAhead - 1 start with a known count of zero
          MaxFrame   \* bound: the last frame executed

VARIABLES frame,  \* TheGameLogic->getFrame(): the frame to be executed next
          data    \* [frame -> its record]

(* A player may be MAX_FRAMES_AHEAD + 1 frames ahead of us: NetworkDefs.h. *)
Ahead == MAX_FRAMES_AHEAD + 1

Frames == 0 .. MaxFrame + Ahead
Cmd == [frame : Nat, id : Ids]
Blank == SettleLocal(IsLocal, EmptyFrame)
Counts == 0 .. Cardinality(Ids)

Init ==
  /\ frame = 1
  /\ data = [f \in Frames |-> IF f \in 1 .. RunAhead - 1 THEN ZeroFrame(Blank) ELSE Blank]

(* A command, or another player's command count, for a frame not yet past. *)
Add(f, id) ==
  /\ data' = [data EXCEPT ![f] = SettleLocal(IsLocal, AddCommand(@, [frame |-> f, id |-> id]))]
  /\ UNCHANGED frame

SetCount(f, n) ==
  /\ ~IsLocal
  /\ data' = [data EXCEPT ![f] = SetFrameCommandCount(@, n)]
  /\ UNCHANGED frame

(* More commands than announced: start over with this frame.               *)
Discard(f) ==
  /\ NeedsResend(data[f])
  /\ data' = [data EXCEPT ![f] = Blank]
  /\ UNCHANGED frame

Execute ==
  /\ frame <= MaxFrame
  /\ IsReady(data[frame])
  /\ frame' = frame + 1
  /\ data' = IF frame >= FRAMES_TO_KEEP
             THEN [data EXCEPT ![frame - FRAMES_TO_KEEP] = Blank] ELSE data

Upcoming == frame .. frame + Ahead

Next ==
  \/ frame <= MaxFrame /\ \E f \in Upcoming : \/ \E id \in Ids : Add(f, id)
                                              \/ \E n \in Counts : SetCount(f, n)
                                              \/ Discard(f)
  \/ Execute

vars == <<frame, data>>
Spec == Init /\ [][Next]_vars

=============================================================================
