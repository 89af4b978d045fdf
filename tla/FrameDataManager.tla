--------------------------- MODULE FrameDataManager ---------------------------
(***************************************************************************)
(* One FrameDataManager: the ring of FrameData records that holds one      *)
(* player's commands, as its callers drive it.  The ConnectionManager adds *)
(* commands and command counts for frames that are not past                *)
(* (processNetCommand) and at most Ahead frames away (Lockstep shows it),  *)
(* asks whether a frame is ready, clears a frame that holds more commands  *)
(* than announced, and takes the list of the frame it executes.            *)
(***************************************************************************)
EXTENDS FrameData, Sequences

CONSTANTS Ids, IsLocal, RunAhead, MaxFrame   \* as in FrameWindow

VARIABLES frame,        \* TheGameLogic->getFrame()
          m_frameData,  \* the ring
          executed      \* history: the command list each past frame was executed with

vars == <<frame, m_frameData, executed>>

Window == INSTANCE FrameWindow WITH
  data <- [f \in 0 .. MaxFrame + MAX_FRAMES_AHEAD + 1 |->
             IF f >= frame - FRAMES_TO_KEEP /\ f <= frame + MAX_FRAMES_AHEAD + 1
             THEN m_frameData[Index(f)] ELSE SettleLocal(IsLocal, EmptyFrame)]

ASSUME ManagerAssumption ==
  /\ IsLocal \in BOOLEAN
  /\ IsFiniteSet(Ids)
  /\ RunAhead \in Nat \ {0} /\ RunAhead <= MAX_FRAMES_AHEAD
  /\ MaxFrame \in Nat

Ahead == MAX_FRAMES_AHEAD + 1
Cmd == [frame : Nat, id : Ids]
Upcoming == frame .. frame + Ahead

Init ==
  /\ frame = 1
  /\ m_frameData = StartRing(IsLocal, RunAhead)
  /\ executed = <<>>

AddNetCommandMsg(f, id) ==
  /\ m_frameData' = RingAdd(m_frameData, IsLocal, f, [frame |-> f, id |-> id])
  /\ UNCHANGED <<frame, executed>>

(* processFrameInfo; only another player's counts arrive from outside.     *)
SetFrameCount(f, n) ==
  /\ ~IsLocal
  /\ m_frameData' = RingSetCount(m_frameData, f, n)
  /\ UNCHANGED <<frame, executed>>

(* allCommandsReady answers FRAMEDATA_RESEND: the record has been reset.   *)
Resend(f) ==
  /\ NeedsResend(m_frameData[Index(f)])
  /\ m_frameData' = RingReset(m_frameData, IsLocal, f)
  /\ UNCHANGED <<frame, executed>>

(* allCommandsReady answers FRAMEDATA_READY for the frame to be executed,  *)
(* and getFrameCommandList hands out its commands.                         *)
GetFrameCommandList ==
  /\ frame <= MaxFrame
  /\ IsReady(m_frameData[Index(frame)])
  /\ executed' = Append(executed, m_frameData[Index(frame)].commandList)
  /\ m_frameData' = RingExecuted(m_frameData, IsLocal, frame)
  /\ frame' = frame + 1

Next ==
  \/ frame <= MaxFrame /\ \E f \in Upcoming : \/ \E id \in Ids : AddNetCommandMsg(f, id)
                                              \/ \E n \in 0 .. Cardinality(Ids) : SetFrameCount(f, n)
                                              \/ Resend(f)
  \/ GetFrameCommandList

Spec == Init /\ [][Next]_vars

----------------------------------------------------------------------------
(* Properties.                                                             *)

TypeOK ==
  /\ frame \in 1 .. MaxFrame + 1
  /\ m_frameData \in [Indices -> FrameDataType(Cmd)]
  /\ executed \in Seq(SUBSET Cmd) /\ Len(executed) = frame - 1

(* Frames that share an index never meet: whatever a record holds belongs  *)
(* to the one frame of the live window with that index, so no command is   *)
(* executed a whole ring later than it was meant for ("a command for that  *)
(* old frame would be added to the FrameData for that frame + 256",        *)
(* ConnectionManager.cpp:569).                                             *)
NoStrayCommands ==
  \A i \in Indices : \A c \in m_frameData[i].commandList :
    /\ Index(c.frame) = i
    /\ c.frame \in (frame - FRAMES_TO_KEEP) .. (frame + Ahead)

(* Every frame sendSingleFrameToPlayer may still be asked for - those not  *)
(* older than FRAMES_TO_KEEP - can be served: its record holds exactly what*)
(* was executed and a count that agrees, however many frames were received *)
(* ahead of time since.                                                    *)
ExecutedFramesKept ==
  \A f \in 1 .. frame - 1 :
    f >= frame - FRAMES_TO_KEEP =>
      /\ m_frameData[Index(f)].commandList = executed[f]
      /\ IsReady(m_frameData[Index(f)])

(* The ring is indistinguishable from one record per frame.                *)
RingIsAWindow == Window!Spec

=============================================================================
