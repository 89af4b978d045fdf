------------------------------ MODULE FrameData ------------------------------
(***************************************************************************)
(* What one player knows of the commands another player (or itself) has    *)
(* scheduled for one logic frame - class FrameData - and the ring of these *)
(* records that a FrameDataManager keeps, indexed by frame modulo          *)
(* FRAME_DATA_LENGTH.  Pure operators: FrameDataManager gives them a state *)
(* of their own and Lockstep keeps one ring per pair of players.           *)
(*                                                                         *)
(* A command is any value; FrameData::addCommand only asks whether an      *)
(* equal one (same player, same command ID) is already in the list, so the *)
(* list is a set here.  Its order is NetCommandList's business.            *)
(***************************************************************************)
EXTENDS Integers, FiniteSets

CONSTANT MAX_FRAMES_AHEAD   \* 128 in NetworkDefs.h; small when model checking

ASSUME FramesAheadAssumption == MAX_FRAMES_AHEAD \in Nat \ {0}

(* A mutant: one record too few.                                           *)
FrameDataLengthButOne == MAX_FRAMES_AHEAD * 2 + 1
FRAME_DATA_LENGTH == (MAX_FRAMES_AHEAD + 1) * 2
FRAMES_TO_KEEP == (MAX_FRAMES_AHEAD \div 2) + 1

Index(f) == f % FRAME_DATA_LENGTH
Indices == 0 .. FRAME_DATA_LENGTH - 1

(* m_frameCommandCount = -1 in an UnsignedInt: larger than every count.    *)
Unknown == -1

FrameDataType(Cmd) ==
  [commandList : SUBSET Cmd, commandCount : Nat, frameCommandCount : Nat \cup {Unknown}]

----------------------------------------------------------------------------
(* One record.                                                             *)

(* Mutants: both counts reset to "unknown"; a command received twice is    *)
(* counted twice; an unknown count is compared as the signed -1.           *)
EmptyFrameUncounted == [commandList |-> {}, commandCount |-> Unknown, frameCommandCount |-> Unknown]
AddCommandTwice(fd, cmd) == [fd EXCEPT !.commandList = @ \cup {cmd}, !.commandCount = @ + 1]
IsReadySigned(fd) == fd.frameCommandCount <= fd.commandCount
EmptyFrame == [commandList |-> {}, commandCount |-> 0, frameCommandCount |-> Unknown]

AddCommand(fd, cmd) ==
  IF cmd \in fd.commandList THEN fd
  ELSE [fd EXCEPT !.commandList = @ \cup {cmd}, !.commandCount = @ + 1]

SetFrameCommandCount(fd, n) == [fd EXCEPT !.frameCommandCount = n]

(* The local player's count is by definition what it has scheduled so far. *)
SettleLocal(isLocal, fd) ==
  IF isLocal THEN SetFrameCommandCount(fd, fd.commandCount) ELSE fd

ZeroFrame(fd) == [fd EXCEPT !.commandCount = 0, !.frameCommandCount = 0]

DestroyGameMessages(fd) == [fd EXCEPT !.commandList = {}, !.commandCount = 0]

(* FRAMEDATA_READY and FRAMEDATA_RESEND; NOTREADY is neither.  The compare *)
(* is unsigned, so an unknown count never asks for a resend.               *)
IsReady(fd) == fd.frameCommandCount = fd.commandCount

NeedsResend(fd) ==
  /\ fd.frameCommandCount # Unknown
  /\ fd.commandCount > fd.frameCommandCount

----------------------------------------------------------------------------
(* The ring.                                                               *)

InitRing(isLocal) == [i \in Indices |-> SettleLocal(isLocal, EmptyFrame)]

RingAdd(ring, isLocal, f, cmd) ==
  [ring EXCEPT ![Index(f)] = SettleLocal(isLocal, AddCommand(@, cmd))]

RingSetCount(ring, f, n) == [ring EXCEPT ![Index(f)] = SetFrameCommandCount(@, n)]

RingReset(ring, isLocal, f) == [ring EXCEPT ![Index(f)] = SettleLocal(isLocal, EmptyFrame)]

RingZero(ring, first, n) ==
  [i \in Indices |->
     IF \E k \in 0 .. n - 1 : i = Index(first + k) THEN ZeroFrame(ring[i]) ELSE ring[i]]

RingDestroy(ring) == [i \in Indices |-> DestroyGameMessages(ring[i])]

(* Network::parseUserList: the ring every player starts a game with; no    *)
(* command can be scheduled for the first runAhead - 1 frames, so their    *)
(* counts are known to be zero.                                            *)
StartRing(isLocal, runAhead) ==
  RingZero(RingDestroy(InitRing(isLocal)), 1, runAhead - 1)

(* A mutant: the reset comes one frame too early.                          *)
RingExecutedEarly(ring, isLocal, f) ==
  IF f > FRAMES_TO_KEEP THEN RingReset(ring, isLocal, f + 1 - FRAMES_TO_KEEP) ELSE ring
(* ConnectionManager::getFrameCommandList, for one player's data: executing*)
(* frame f lets go of the frame FRAMES_TO_KEEP before it.                  *)
RingExecuted(ring, isLocal, f) ==
  IF f > FRAMES_TO_KEEP THEN RingReset(ring, isLocal, f - FRAMES_TO_KEEP) ELSE ring

=============================================================================
