---------------------------- MODULE Lockstep_proofs ----------------------------
(***************************************************************************)
(* The lockstep core for any number of players, any ring size and any      *)
(* bounds: nobody ever executes another set of commands than everybody     *)
(* else, and no player runs away.                                          *)
(*                                                                         *)
(* The invariant says what every record, of every player about every       *)
(* player, stands for.  The L = FRAME_DATA_LENGTH frames from              *)
(* frame[p] - FRAMES_TO_KEEP on use every record of p's rings once; a      *)
(* record holds only commands issued for its frame, an announced count is  *)
(* the number of those issued and nothing more will be issued, since the   *)
(* issuer's execution frame is past the last frame it announced.  A record *)
(* with as many commands as announced therefore holds them all.            *)
(*                                                                         *)
(* The last part is about what has been sent and not taken in: it is on its*)
(* way to whoever lacks it.  So nobody waits in vain, and there is no      *)
(* deadlock.                                                               *)
(***************************************************************************)
EXTENDS Lockstep, FrameData_proofs

Period(p) ==
  (frame[p] - FRAMES_TO_KEEP) .. (frame[p] - FRAMES_TO_KEEP + FRAME_DATA_LENGTH - 1)

(* The clocks of one player: nothing before the game starts; the next      *)
(* command is for a frame after those announced and at most the largest    *)
(* run ahead away; a frame is executed after its tick.                     *)
Clock ==
  \A p \in Player :
    /\ localStatus[p] = "PREGAME" =>
         /\ frame[p] <= 1 /\ lastFrame[p] = 0
         /\ runAhead[p] = InitialRunAhead
         /\ lastExecutionFrame[p] = InitialRunAhead - 1
         /\ lastFrameCompleted[p] = InitialRunAhead - 1
    /\ localStatus[p] = "INGAME" =>
         /\ frame[p] >= 1
         /\ lastExecutionFrame[p] > lastFrameCompleted[p]
    /\ lastExecutionFrame[p] <= frame[p] + MAX_RUNAHEAD
    /\ lastFrameCompleted[p] >= InitialRunAhead - 1
    /\ lastFrame[p] = frame[p] => lastFrameCompleted[p] >= frame[p]

(* Nobody has executed a frame that somebody has not completed.            *)
Behind == \A p, q \in Player : frame[p] <= lastFrameCompleted[q] + 1

Issuance ==
  /\ IsFiniteSet(issued)
  /\ \A c \in issued : c.frame >= InitialRunAhead

(* Commands are numbered, and only the router changes the run ahead.       *)
Numbered ==
  \A c \in issued :
    /\ c.id < nextID[c.player]
    /\ c.type = "RUNAHEAD" => c.player = Router /\ c.value \in MIN_RUNAHEAD .. MAX_RUNAHEAD

(* A message never comes back to its sender; a count it carries is final.  *)
MessageOK(p, m) ==
  /\ m.cmd.player # p /\ m.cmd.player \notin m.relay
  /\ m.cmd.type = "FRAMEINFO" =>
       /\ 1 <= m.cmd.frame /\ m.cmd.frame <= lastFrameCompleted[m.cmd.player]
       /\ m.cmd.value = Cardinality(IssuedBy(m.cmd.player, m.cmd.frame))
  /\ m.cmd.type # "FRAMEINFO" => m.cmd \in issued

Messages == \A p \in Player : \A m \in net[p] \cup late[p] : MessageOK(p, m)

(* Every command is for a frame its issuer's execution frame has reached.  *)
Reached == \A c \in issued : c.frame <= lastExecutionFrame[c.player]

(* What the record fd of frame f says of a player that has issued cmds for *)
(* the frame and has completed the frames up to `completed'.               *)
Accurate(isLocal, cmds, completed, f, fd) ==
  /\ fd.commandList \subseteq cmds
  /\ fd.commandCount = Cardinality(fd.commandList)
  /\ isLocal => fd.commandList = cmds /\ fd.frameCommandCount = fd.commandCount
  /\ ~isLocal /\ fd.frameCommandCount # Unknown =>
       /\ 1 <= f /\ f <= completed
       /\ fd.frameCommandCount = Cardinality(cmds)

Rings ==
  \A p, q \in Player : \A f \in Period(p) :
    Accurate(p = q, IssuedBy(q, f), lastFrameCompleted[q], f, frameData[p][q][Index(f)])

History ==
  \A p \in Player :
    /\ Len(executed[p]) = IF frame[p] = 0 THEN 0 ELSE frame[p] - 1
    /\ \A f \in 1 .. Len(executed[p]) : executed[p][f] = {c \in issued : c.frame = f}

IInv == /\ TypeOK /\ Clock /\ Behind /\ Issuance /\ Numbered /\ Reached
        /\ Messages /\ Rings /\ History

----------------------------------------------------------------------------

(* The numbers the ring is laid out with.                                  *)
LEMMA Sizes ==
  /\ FRAME_DATA_LENGTH \in Nat \ {0} /\ FRAMES_TO_KEEP \in Nat \ {0}
  /\ MAX_FRAMES_AHEAD \in Nat \ {0} /\ MAX_RUNAHEAD \in Nat \ {0}
  /\ FRAMES_TO_KEEP = MAX_RUNAHEAD + 1
  /\ 2 * MAX_RUNAHEAD <= MAX_FRAMES_AHEAD
  /\ FRAMES_TO_KEEP + 2 * MAX_RUNAHEAD + 2 <= FRAME_DATA_LENGTH
  /\ MIN_RUNAHEAD \in Nat \ {0}
  /\ InitialRunAhead \in Nat \ {0} /\ InitialRunAhead <= MAX_RUNAHEAD
  /\ InitialRunAhead \in MIN_RUNAHEAD .. MAX_RUNAHEAD
  BY RingSize, RunAheadAssumption DEF MAX_RUNAHEAD

(* The frames of a period have different records. *)
LEMMA PeriodRecords ==
  ASSUME TypeOK, NEW p \in Player
  PROVE  /\ \A f \in Period(p) : f \in Int /\ Index(f) \in Indices
         /\ \A f, g \in Period(p) : Index(f) = Index(g) => f = g
         /\ \A f \in Int : frame[p] <= f /\ f <= frame[p] + 2 * MAX_RUNAHEAD => f \in Period(p)
<1>1. frame[p] \in Nat
  BY DEF TypeOK
<1>2. \A f \in Period(p) : f \in Int /\ Index(f) \in Indices
  BY <1>1, Sizes, IndexType DEF Period
<1>3. ASSUME NEW f \in Period(p), NEW g \in Period(p), Index(f) = Index(g)
      PROVE  f = g
  <2>1. f - g < FRAME_DATA_LENGTH /\ g - f < FRAME_DATA_LENGTH /\ f \in Int /\ g \in Int
    BY <1>1, Sizes DEF Period
  <2>2. QED
    BY <1>3, <2>1, IndexInjective
<1>4. \A f \in Int : frame[p] <= f /\ f <= frame[p] + 2 * MAX_RUNAHEAD => f \in Period(p)
  BY <1>1, Sizes DEF Period
<1>5. QED
  BY <1>2, <1>3, <1>4

(* The types of the rings and their records. *)
LEMMA RecordTypes ==
  ASSUME TypeOK, NEW p \in Player, NEW q \in Player
  PROVE  /\ frameData \in [Player -> [Player -> [Indices -> FrameDataType(Cmd)]]]
         /\ frameData[p] \in [Player -> [Indices -> FrameDataType(Cmd)]]
         /\ frameData[p][q] \in [Indices -> FrameDataType(Cmd)]
         /\ \A i \in Indices : frameData[p][q][i] \in FrameDataType(Cmd)
  BY DEF TypeOK

(* What adding a command does to a record of the local player's data ...   *)
LEMMA AddLocalType ==
  ASSUME NEW fd \in FrameDataType(Cmd), NEW c \in Cmd,
         NEW new, new = SettleLocal(TRUE, AddCommand(fd, c))
  PROVE  /\ new \in FrameDataType(Cmd)
         /\ new.commandList = fd.commandList \cup {c}
         /\ c \in fd.commandList => new.commandCount = fd.commandCount
         /\ c \notin fd.commandList => new.commandCount = fd.commandCount + 1
         /\ new.frameCommandCount = new.commandCount
<1> DEFINE mid == AddCommand(fd, c)
<1>1. /\ mid \in FrameDataType(Cmd)
      /\ mid.commandList = fd.commandList \cup {c}
      /\ c \in fd.commandList => mid.commandCount = fd.commandCount
      /\ c \notin fd.commandList => mid.commandCount = fd.commandCount + 1
  BY AddCommandType
<1>2. new = SetFrameCommandCount(mid, mid.commandCount)
  BY DEF SettleLocal
<1>3. mid.commandCount \in Nat
  BY <1>1 DEF FrameDataType
<1> HIDE DEF mid
<1>4. /\ new \in FrameDataType(Cmd)
      /\ new.commandList = mid.commandList
      /\ new.commandCount = mid.commandCount
      /\ new.frameCommandCount = mid.commandCount
  BY <1>1, <1>2, <1>3 DEF SetFrameCommandCount, FrameDataType
<1>5. QED
  BY <1>1, <1>4, Zenon

(* ... and of another player's. *)
LEMMA AddRemoteType ==
  ASSUME NEW fd \in FrameDataType(Cmd), NEW c \in Cmd,
         NEW new, new = SettleLocal(FALSE, AddCommand(fd, c))
  PROVE  /\ new \in FrameDataType(Cmd)
         /\ new.commandList = fd.commandList \cup {c}
         /\ c \in fd.commandList => new.commandCount = fd.commandCount
         /\ c \notin fd.commandList => new.commandCount = fd.commandCount + 1
         /\ new.frameCommandCount = fd.frameCommandCount
<1> DEFINE mid == AddCommand(fd, c)
<1>1. /\ mid \in FrameDataType(Cmd)
      /\ mid.commandList = fd.commandList \cup {c}
      /\ mid.frameCommandCount = fd.frameCommandCount
      /\ c \in fd.commandList => mid.commandCount = fd.commandCount
      /\ c \notin fd.commandList => mid.commandCount = fd.commandCount + 1
  BY AddCommandType
<1>2. new = mid
  BY DEF SettleLocal
<1> HIDE DEF mid
<1>3. QED
  BY <1>1, <1>2, Zenon

(* Where a player's next command goes. *)
LEMMA ExecutionFrameBounds ==
  ASSUME TypeOK, Clock, NEW p \in Player
  PROVE  /\ ExecutionFrame(p) \in Nat
         /\ ExecutionFrame(p) >= frame[p] + 1
         /\ ExecutionFrame(p) >= lastExecutionFrame[p]
         /\ ExecutionFrame(p) <= frame[p] + MAX_RUNAHEAD
         /\ localStatus[p] = "INGAME" => ExecutionFrame(p) > lastFrameCompleted[p]
         /\ frame[p] >= 1 => ExecutionFrame(p) > lastFrameCompleted[p]
<1>1. /\ frame[p] \in Nat /\ lastExecutionFrame[p] \in Nat /\ lastFrameCompleted[p] \in Nat
      /\ runAhead[p] \in Nat \ {0} /\ runAhead[p] <= MAX_RUNAHEAD
      /\ localStatus[p] \in {"PREGAME", "INGAME"}
  BY Sizes DEF TypeOK
<1>2. /\ lastExecutionFrame[p] <= frame[p] + MAX_RUNAHEAD
      /\ localStatus[p] = "INGAME" => lastExecutionFrame[p] > lastFrameCompleted[p]
      /\ localStatus[p] = "PREGAME" => /\ runAhead[p] = InitialRunAhead
                                       /\ lastFrameCompleted[p] = InitialRunAhead - 1
  BY DEF Clock
<1>3. QED
  BY <1>1, <1>2, Sizes DEF ExecutionFrame

(* Nobody is further ahead of anybody than the largest run ahead. *)
LEMMA Lead ==
  ASSUME TypeOK, Clock, Behind, NEW p \in Player, NEW q \in Player
  PROVE  /\ frame[p] <= frame[q] + MAX_RUNAHEAD
         /\ lastFrameCompleted[q] < frame[q] + MAX_RUNAHEAD
         /\ ExecutionFrame(q) <= frame[p] + 2 * MAX_RUNAHEAD
         /\ lastExecutionFrame[q] <= frame[p] + 2 * MAX_RUNAHEAD
         /\ frame[q] >= 1 => ExecutionFrame(q) >= frame[p]
<1>1. \A r \in Player :
        /\ frame[r] \in Nat /\ lastExecutionFrame[r] \in Nat /\ lastFrameCompleted[r] \in Nat
        /\ localStatus[r] \in {"PREGAME", "INGAME"}
  BY DEF TypeOK
<1>2. \A r \in Player :
        /\ lastExecutionFrame[r] <= frame[r] + MAX_RUNAHEAD
        /\ lastFrameCompleted[r] < frame[r] + MAX_RUNAHEAD
  BY <1>1, Sizes DEF Clock
<1>3. frame[p] <= lastFrameCompleted[q] + 1 /\ frame[q] <= lastFrameCompleted[p] + 1
  BY DEF Behind
<1>4. frame[p] <= frame[q] + MAX_RUNAHEAD /\ frame[q] <= frame[p] + MAX_RUNAHEAD
  BY <1>1, <1>2, <1>3, Sizes
<1>5. /\ ExecutionFrame(q) \in Nat
      /\ ExecutionFrame(q) <= frame[q] + MAX_RUNAHEAD
      /\ frame[q] >= 1 => ExecutionFrame(q) > lastFrameCompleted[q]
  BY ExecutionFrameBounds
<1>6. QED
  BY <1>1, <1>2, <1>3, <1>4, <1>5, Sizes

(* The messages that announce commands are messages, to others.            *)
LEMMA SentMessages ==
  ASSUME NEW p \in Player, NEW q \in Player, NEW cmds \in SUBSET (Cmd \cup FrameInfo),
         NEW m \in SentTo(p, q, cmds)
  PROVE  /\ m \in Message /\ m.cmd \in cmds
         /\ q # p /\ p \notin m.relay
<1>1. CASE p = Router
  <2>1. q # p
    BY <1>1 DEF SentTo
  <2>2. PICK c \in cmds : m = [cmd |-> c, relay |-> {q}]
    BY <1>1, <2>1 DEF SentTo
  <2>3. QED
    BY <2>1, <2>2 DEF Message
<1>2. CASE p # Router
  <2>1. q = Router
    BY <1>2 DEF SentTo
  <2>2. PICK c \in cmds : m = [cmd |-> c, relay |-> Player \ {p}]
    BY <1>2, <2>1 DEF SentTo
  <2>3. QED
    BY <1>2, <2>1, <2>2 DEF Message
<1>3. QED
  BY <1>1, <1>2

(* What has been issued for one frame is finite. *)
LEMMA IssuedFinite ==
  ASSUME Issuance, NEW q, NEW f
  PROVE  /\ IsFiniteSet(IssuedBy(q, f)) /\ IssuedBy(q, f) \subseteq issued
         /\ Cardinality(IssuedBy(q, f)) \in Nat
<1>1. IssuedBy(q, f) \subseteq issued
  BY DEF IssuedBy
<1>2. QED
  BY <1>1, FS_Subset, FS_CardinalityType DEF Issuance

(* A blank record is accurate about a frame nobody has issued anything for *)
(* - and about any frame of another player.                                *)
LEMMA BlankAccurate ==
  ASSUME NEW isLocal \in BOOLEAN, NEW cmds, NEW completed, NEW f,
         isLocal => cmds = {}
  PROVE  Accurate(isLocal, cmds, completed, f, SettleLocal(isLocal, EmptyFrame))
<1> DEFINE fd == SettleLocal(isLocal, EmptyFrame)
<1>1. /\ fd.commandList = {} /\ fd.commandCount = 0
      /\ fd.frameCommandCount = IF isLocal THEN 0 ELSE Unknown
  BY EmptyType
<1> HIDE DEF fd
<1>2. Accurate(isLocal, cmds, completed, f, fd)
  BY <1>1, FS_EmptySet DEF Accurate
<1>3. QED
  BY <1>2 DEF fd

(* A record stays accurate while nothing is issued for its frame.          *)
LEMMA AccurateLater ==
  ASSUME NEW isLocal \in BOOLEAN, NEW cmds, NEW completed \in Nat, NEW later \in Nat,
         completed <= later, NEW f \in Int, NEW fd,
         Accurate(isLocal, cmds, completed, f, fd)
  PROVE  Accurate(isLocal, cmds, later, f, fd)
  BY DEF Accurate

----------------------------------------------------------------------------
(* The initial states.                                                     *)

(* The rings every player starts with tell the truth: nobody has issued    *)
(* anything, and nobody can for the first frames.                          *)
LEMMA InitRings == Init /\ TypeOK => Rings
<1> SUFFICES ASSUME Init, TypeOK, NEW p \in Player, NEW q \in Player, NEW f \in Period(p)
             PROVE  Accurate(p = q, IssuedBy(q, f), lastFrameCompleted[q], f,
                             frameData[p][q][Index(f)])
  BY DEF Rings
<1> DEFINE blank == SettleLocal(p = q, EmptyFrame)
<1>1. /\ f \in Int /\ Index(f) \in Indices
      /\ IssuedBy(q, f) = {} /\ lastFrameCompleted[q] = InitialRunAhead - 1
      /\ frame[p] = 0
  BY PeriodRecords DEF Init, IssuedBy
<1>2. frameData[p][q][Index(f)] =
        IF \E k \in 0 .. (InitialRunAhead - 1) - 1 : Index(f) = Index(1 + k)
        THEN ZeroFrame(blank) ELSE blank
  <2>1. frameData[p][q] = StartRing(p = q, InitialRunAhead)
    BY DEF Init
  <2>2. /\ (p = q) \in BOOLEAN /\ InitialRunAhead \in Nat \ {0} /\ Index(f) \in Indices
    BY <1>1, Sizes
  <2>3. StartRing(p = q, InitialRunAhead)[Index(f)] =
          IF \E k \in 0 .. (InitialRunAhead - 1) - 1 : Index(f) = Index(1 + k)
          THEN ZeroFrame(blank) ELSE blank
    BY <2>2, StartRecords, Zenon
  <2>4. QED
    BY <2>1, <2>3
<1>3. CASE \E k \in 0 .. (InitialRunAhead - 1) - 1 : Index(f) = Index(1 + k)
  <2>1. PICK k \in 0 .. (InitialRunAhead - 1) - 1 : Index(f) = Index(1 + k)
    BY <1>3
  <2>2. f = 1 + k
    <3>1. 1 + k \in Period(p)
      BY <1>1, Sizes DEF Period
    <3>2. QED
      BY <2>1, <3>1, PeriodRecords
  <2>3. /\ ZeroFrame(blank).commandList = {} /\ ZeroFrame(blank).commandCount = 0
        /\ ZeroFrame(blank).frameCommandCount = 0
    BY EmptyType, ZeroType
  <2>4. 1 <= f /\ f <= InitialRunAhead - 1
    BY <2>2, Sizes
  <2> HIDE DEF blank
  <2>5. Accurate(p = q, {}, InitialRunAhead - 1, f, ZeroFrame(blank))
    BY <2>3, <2>4, FS_EmptySet DEF Accurate
  <2>6. QED
    BY <1>1, <1>2, <1>3, <2>5
<1>4. CASE ~ \E k \in 0 .. (InitialRunAhead - 1) - 1 : Index(f) = Index(1 + k)
  BY <1>1, <1>2, <1>4, BlankAccurate
<1>5. QED
  BY <1>3, <1>4

(* Initially the invariant holds. *)
LEMMA InitIInv == Init => IInv
<1> SUFFICES ASSUME Init PROVE IInv
  OBVIOUS
<1>1. TypeOK
  <2>1. frameData \in [Player -> [Player -> [Indices -> FrameDataType(Cmd)]]]
    <3>1. \A p, q \in Player : StartRing(p = q, InitialRunAhead) \in [Indices -> FrameDataType(Cmd)]
      BY StartType, Sizes
    <3>2. QED
      BY <3>1 DEF Init
  <2>2. QED
    BY <2>1, Sizes DEF Init, TypeOK
<1>2. Clock /\ Behind
  BY Sizes DEF Init, Clock, Behind
<1>3. Issuance /\ Numbered /\ Reached /\ Messages
  BY FS_EmptySet DEF Init, Issuance, Numbered, Reached, Messages
<1>4. Rings
  BY <1>1, InitRings
<1>5. History
  BY DEF Init, History
<1>6. QED
  BY <1>1, <1>2, <1>3, <1>4, <1>5 DEF IInv

----------------------------------------------------------------------------
(* Giving a command.                                                       *)

(* The command p issues is for its execution frame, which nobody has       *)
(* executed and whose count p has not announced.                           *)
LEMMA IssueTypeOK ==
  ASSUME IInv, NEW p \in Player, NEW type \in {"GAMECOMMAND", "RUNAHEAD"}, NEW value \in Nat,
         Issue(p, type, value)
  PROVE  TypeOK'
<1> DEFINE cmd == Synchronized(type, p, nextID[p], ExecutionFrame(p), value)
<1>1. TypeOK /\ Clock
  BY DEF IInv
<1>2. ExecutionFrame(p) \in Nat /\ nextID[p] \in Nat
  BY <1>1, ExecutionFrameBounds DEF TypeOK
<1>3. cmd \in Cmd /\ cmd.frame = ExecutionFrame(p)
  BY <1>2 DEF Cmd, Synchronized
<1>4. frameData' \in [Player -> [Player -> [Indices -> FrameDataType(Cmd)]]]
  <2>1. frameData' = [frameData EXCEPT ![p][p] = RingAdd(frameData[p][p], TRUE, cmd.frame, cmd)]
    BY DEF Issue
  <2>2. /\ frameData[p] \in [Player -> [Indices -> FrameDataType(Cmd)]]
        /\ frameData[p][p] \in [Indices -> FrameDataType(Cmd)]
        /\ Index(cmd.frame) \in Indices
    <3>1. /\ frameData[p] \in [Player -> [Indices -> FrameDataType(Cmd)]]
          /\ frameData[p][p] \in [Indices -> FrameDataType(Cmd)]
      BY <1>1 DEF TypeOK
    <3>2. Index(cmd.frame) \in Indices
      BY <1>2, <1>3, IndexType
    <3>3. QED
      BY <3>1, <3>2
  <2>3. SettleLocal(TRUE, AddCommand(frameData[p][p][Index(cmd.frame)], cmd)) \in FrameDataType(Cmd)
    BY <1>3, <2>2, AddCommandType, SettleType
  <2>4. RingAdd(frameData[p][p], TRUE, cmd.frame, cmd) \in [Indices -> FrameDataType(Cmd)]
    BY <2>2, <2>3 DEF RingAdd
  <2>5. QED
    BY <1>1, <2>1, <2>2, <2>4 DEF TypeOK
<1>5. net' \in [Player -> SUBSET Message]
  <2>1. \A q \in Player : SentTo(p, q, {cmd}) \subseteq Message
    BY <1>3, SentMessages
  <2>2. net' = [q \in Player |-> net[q] \cup SentTo(p, q, {cmd})]
    BY DEF Issue, SendLocal
  <2>3. QED
    BY <1>1, <2>1, <2>2 DEF TypeOK
<1>6. /\ nextID' \in [Player -> Nat] /\ lastExecutionFrame' \in [Player -> Nat]
      /\ issued' \in SUBSET Cmd
  BY <1>1, <1>2, <1>3 DEF TypeOK, Issue
<1>7. QED
  BY <1>1, <1>4, <1>5, <1>6 DEF TypeOK, Issue

(* What the command changes, and what it cannot disturb.                   *)
LEMMA IssueFacts ==
  ASSUME IInv, NEW p \in Player, NEW type \in {"GAMECOMMAND", "RUNAHEAD"}, NEW value \in Nat,
         Issue(p, type, value),
         NEW cmd, cmd = Synchronized(type, p, nextID[p], ExecutionFrame(p), value)
  PROVE  /\ cmd \in Cmd /\ cmd.player = p /\ cmd.frame = ExecutionFrame(p)
         /\ cmd.type # "FRAMEINFO"
         /\ ExecutionFrame(p) \in Nat /\ ExecutionFrame(p) > lastFrameCompleted[p]
         /\ ExecutionFrame(p) \in Period(p)
         /\ \A q \in Player : ExecutionFrame(p) >= frame[q]
         /\ issued' = issued \cup {cmd}
         /\ \A q, f : IssuedBy(q, f)' = IF q = p /\ f = ExecutionFrame(p)
                                        THEN IssuedBy(q, f) \cup {cmd} ELSE IssuedBy(q, f)
<1>1. TypeOK /\ Clock /\ Behind /\ localStatus[p] = "INGAME" /\ issued' = issued \cup {cmd}
  BY DEF IInv, Issue
<1>2. frame[p] >= 1
  BY <1>1 DEF Clock
<1>3. /\ ExecutionFrame(p) \in Nat /\ ExecutionFrame(p) > lastFrameCompleted[p]
      /\ ExecutionFrame(p) >= frame[p] /\ frame[p] \in Nat
      /\ ExecutionFrame(p) <= frame[p] + 2 * MAX_RUNAHEAD
      /\ \A q \in Player : ExecutionFrame(p) >= frame[q]
  BY <1>1, <1>2, ExecutionFrameBounds, Lead DEF TypeOK
<1>4. nextID[p] \in Nat
  BY <1>1 DEF TypeOK
<1>5. /\ cmd \in Cmd /\ cmd.player = p /\ cmd.frame = ExecutionFrame(p)
      /\ cmd.type # "FRAMEINFO"
  BY <1>3, <1>4 DEF Cmd, Synchronized
<1>6. ExecutionFrame(p) \in Period(p)
  BY <1>1, <1>3, PeriodRecords
<1>7. \A q, f : IssuedBy(q, f)' = IF q = p /\ f = ExecutionFrame(p)
                                  THEN IssuedBy(q, f) \cup {cmd} ELSE IssuedBy(q, f)
  BY <1>1, <1>5 DEF IssuedBy
<1>8. QED
  BY <1>1, <1>3, <1>5, <1>6, <1>7

(* p's own record of that frame gains the command, everybody's records     *)
(* stay accurate: nobody holds a count for that frame.                     *)
LEMMA IssueRings ==
  ASSUME IInv, NEW p \in Player, NEW type \in {"GAMECOMMAND", "RUNAHEAD"}, NEW value \in Nat,
         Issue(p, type, value)
  PROVE  Rings'
<1> DEFINE EF == ExecutionFrame(p)
           cmd == Synchronized(type, p, nextID[p], ExecutionFrame(p), value)
<1>1. /\ cmd \in Cmd /\ cmd.player = p /\ cmd.frame = EF
      /\ EF \in Nat /\ EF > lastFrameCompleted[p] /\ EF \in Period(p)
      /\ \A q, f : IssuedBy(q, f)' = IF q = p /\ f = EF
                                     THEN IssuedBy(q, f) \cup {cmd} ELSE IssuedBy(q, f)
  BY IssueFacts
<1>2. frameData' = [frameData EXCEPT ![p][p] = RingAdd(frameData[p][p], TRUE, cmd.frame, cmd)]
  BY DEF Issue
<1> HIDE DEF EF, cmd
<1>3. /\ TypeOK /\ Rings /\ Issuance
      /\ frame' = frame /\ lastFrameCompleted' = lastFrameCompleted
  BY DEF IInv, Issue
<1>4. \A q \in Player : Period(q)' = Period(q)
  BY <1>3 DEF Period
<1> SUFFICES ASSUME NEW a \in Player, NEW b \in Player, NEW f \in Period(a)
             PROVE  Accurate(a = b, IssuedBy(b, f)', lastFrameCompleted[b], f,
                             frameData'[a][b][Index(f)])
  BY <1>3, <1>4 DEF Rings, Index, FRAME_DATA_LENGTH
<1> DEFINE fd == frameData[a][b][Index(f)]
<1>5. /\ Accurate(a = b, IssuedBy(b, f), lastFrameCompleted[b], f, fd)
      /\ f \in Int /\ Index(f) \in Indices /\ Index(EF) \in Indices
      /\ fd \in FrameDataType(Cmd) /\ lastFrameCompleted[b] \in Nat
  <2>1. f \in Int /\ Index(f) \in Indices /\ Index(EF) \in Indices
    BY <1>1, <1>3, PeriodRecords
  <2>2. Accurate(a = b, IssuedBy(b, f), lastFrameCompleted[b], f, fd)
    BY <1>3 DEF Rings
  <2>3. fd \in FrameDataType(Cmd) /\ lastFrameCompleted[b] \in Nat
    BY <1>3, <2>1, RecordTypes DEF TypeOK
  <2>4. QED
    BY <2>1, <2>2, <2>3
<1>6. IsFiniteSet(IssuedBy(b, f))
  BY <1>3, IssuedFinite
<1>7. CASE a = p /\ b = p /\ f = EF
  <2> DEFINE new == SettleLocal(TRUE, AddCommand(fd, cmd))
  <2>1. frameData'[a][b][Index(f)] = new
    <3>1. /\ frameData[p] \in [Player -> [Indices -> FrameDataType(Cmd)]]
          /\ frameData[p][p] \in [Indices -> FrameDataType(Cmd)]
          /\ frameData \in [Player -> [Player -> [Indices -> FrameDataType(Cmd)]]]
      BY <1>3 DEF TypeOK
    <3>2. frameData'[p][p] = RingAdd(frameData[p][p], TRUE, cmd.frame, cmd)
      BY <1>2, <3>1
    <3>3. QED
      BY <3>1, <3>2, <1>1, <1>5, <1>7 DEF RingAdd
  <2>2. /\ new.commandList = fd.commandList \cup {cmd}
        /\ cmd \in fd.commandList => new.commandCount = fd.commandCount
        /\ cmd \notin fd.commandList => new.commandCount = fd.commandCount + 1
        /\ new.frameCommandCount = new.commandCount
    <3>1. new = SettleLocal(TRUE, AddCommand(fd, cmd))
      OBVIOUS
    <3> HIDE DEF fd, new
    <3>2. fd \in FrameDataType(Cmd) /\ cmd \in Cmd
      BY <1>1, <1>5
    <3>3. QED
      BY <3>1, <3>2, AddLocalType
  <2>3. /\ fd.commandList = IssuedBy(b, f) /\ fd.commandCount = Cardinality(fd.commandList)
        /\ IsFiniteSet(fd.commandList)
    BY <1>5, <1>6, <1>7 DEF Accurate
  <2>4. new.commandCount = Cardinality(fd.commandList \cup {cmd})
    BY <2>2, <2>3, FS_AddElement
  <2>5. IssuedBy(b, f)' = fd.commandList \cup {cmd}
    BY <1>1, <1>7, <2>3
  <2> HIDE DEF new, fd
  <2>6. QED
    BY <1>7, <2>1, <2>2, <2>4, <2>5 DEF Accurate
<1>8. CASE ~(a = p /\ b = p /\ f = EF)
  <2>1. frameData'[a][b][Index(f)] = fd
    <3>1. /\ frameData[p] \in [Player -> [Indices -> FrameDataType(Cmd)]]
          /\ frameData[p][p] \in [Indices -> FrameDataType(Cmd)]
          /\ frameData \in [Player -> [Player -> [Indices -> FrameDataType(Cmd)]]]
      BY <1>3 DEF TypeOK
    <3>2. CASE a = p /\ b = p
      <4>1. Index(f) # Index(EF)
        BY <1>1, <1>3, <1>8, <3>2, PeriodRecords
      <4>2. frameData'[p][p] = RingAdd(frameData[p][p], TRUE, cmd.frame, cmd)
        BY <1>2, <3>1
      <4>3. QED
        BY <3>1, <3>2, <4>1, <4>2, <1>1, <1>5 DEF RingAdd
    <3>3. CASE ~(a = p /\ b = p)
      BY <1>2, <3>1, <3>3
    <3>4. QED
      BY <3>2, <3>3
  <2> HIDE DEF fd
  <2>2. CASE ~(b = p /\ f = EF)
    BY <1>1, <1>5, <2>1, <2>2
  <2>3. CASE b = p /\ f = EF
    <3>1. a # b /\ ~(f <= lastFrameCompleted[b])
      BY <1>1, <1>5, <1>8, <2>3
    <3>2. IssuedBy(b, f) \subseteq IssuedBy(b, f)'
      BY <1>1, <2>3
    <3>3. QED
      BY <1>5, <2>1, <3>1, <3>2 DEF Accurate
  <2>4. QED
    BY <2>2, <2>3
<1>9. QED
  BY <1>7, <1>8

(* The messages under way stay true, and so does what has been executed.   *)
LEMMA IssueIInv ==
  ASSUME IInv, NEW p \in Player, NEW type \in {"GAMECOMMAND", "RUNAHEAD"}, NEW value \in Nat,
         type = "RUNAHEAD" => p = Router /\ value \in MIN_RUNAHEAD .. MAX_RUNAHEAD,
         Issue(p, type, value)
  PROVE  IInv'
<1> DEFINE EF == ExecutionFrame(p)
           cmd == Synchronized(type, p, nextID[p], ExecutionFrame(p), value)
<1>1. /\ cmd \in Cmd /\ cmd.player = p /\ cmd.frame = EF /\ cmd.type # "FRAMEINFO"
      /\ EF \in Nat /\ EF > lastFrameCompleted[p] /\ EF \in Period(p)
      /\ \A q \in Player : EF >= frame[q]
      /\ issued' = issued \cup {cmd}
      /\ \A q, f : IssuedBy(q, f)' = IF q = p /\ f = EF
                                     THEN IssuedBy(q, f) \cup {cmd} ELSE IssuedBy(q, f)
  BY IssueFacts
<1>2. /\ lastExecutionFrame' = [lastExecutionFrame EXCEPT ![p] = EF]
      /\ net' = [q \in Player |-> net[q] \cup SentTo(p, q, {cmd})]
      /\ UNCHANGED <<localStatus, frame, runAhead, lastFrameCompleted, lastFrame, late, executed>>
      /\ localStatus[p] = "INGAME"
  BY DEF Issue, SendLocal
<1>3. TypeOK /\ Clock /\ Behind /\ Issuance /\ Reached /\ Messages /\ History
  BY DEF IInv
<1>4. /\ EF <= frame[p] + MAX_RUNAHEAD /\ EF >= lastExecutionFrame[p]
  BY <1>3, ExecutionFrameBounds
<1> HIDE DEF EF, cmd
<1>5. TypeOK'
  BY IssueTypeOK
<1>6. Clock' /\ Behind'
  <2>1. Clock'
    BY <1>1, <1>2, <1>3, <1>4 DEF Clock, TypeOK, MAX_RUNAHEAD
  <2>2. Behind'
    BY <1>2, <1>3 DEF Behind
  <2>3. QED
    BY <2>1, <2>2
<1>7. Issuance' /\ Reached'
  <2>1. EF >= InitialRunAhead
    BY <1>1, <1>3, Sizes DEF Clock, TypeOK
  <2>2. IsFiniteSet(issued')
    BY <1>1, <1>3, FS_AddElement DEF Issuance
  <2>3. Issuance'
    BY <1>1, <1>3, <2>1, <2>2 DEF Issuance
  <2>4. ASSUME NEW c \in issued
        PROVE  c.frame <= lastExecutionFrame'[c.player]
    <3>1. c.frame \in Nat /\ c.player \in Player /\ c.frame <= lastExecutionFrame[c.player]
      BY <1>3 DEF TypeOK, Cmd, Reached
    <3>2. QED
      BY <1>1, <1>2, <1>3, <1>4, <3>1 DEF TypeOK
  <2>5. cmd.frame <= lastExecutionFrame'[cmd.player]
    BY <1>1, <1>2, <1>3 DEF TypeOK
  <2>6. Reached'
    BY <1>1, <2>4, <2>5 DEF Reached
  <2>7. QED
    BY <2>3, <2>6
<1>8. Messages'
  <2> SUFFICES ASSUME NEW q \in Player, NEW m \in net'[q] \cup late'[q]
               PROVE  MessageOK(q, m)'
    BY DEF Messages
  <2>1. CASE m \in net[q] \cup late[q]
    <3>1. MessageOK(q, m) /\ m \in Message
      BY <1>3, <2>1 DEF Messages, TypeOK
    <3>2. m.cmd.type = "FRAMEINFO" =>
            IssuedBy(m.cmd.player, m.cmd.frame)' = IssuedBy(m.cmd.player, m.cmd.frame)
      <4>1. SUFFICES ASSUME m.cmd.type = "FRAMEINFO"
                     PROVE  ~(m.cmd.player = p /\ m.cmd.frame = EF)
        BY <1>1
      <4>2. m.cmd.frame <= lastFrameCompleted[m.cmd.player] /\ lastFrameCompleted[p] \in Nat
        BY <1>3, <3>1, <4>1 DEF MessageOK, TypeOK
      <4>3. QED
        BY <1>1, <4>2
    <3>3. QED
      BY <1>1, <1>2, <3>1, <3>2 DEF MessageOK
  <2>2. CASE m \in SentTo(p, q, {cmd})
    <3>1. m.cmd = cmd /\ q # p /\ p \notin m.relay
      BY <1>1, <2>2, SentMessages
    <3>2. QED
      BY <1>1, <3>1 DEF MessageOK
  <2>3. QED
    BY <1>2, <1>3, <2>1, <2>2 DEF TypeOK
<1>9. Rings'
  BY IssueRings
<1>10. History'
  <2> SUFFICES ASSUME NEW q \in Player
               PROVE  /\ Len(executed[q]) = IF frame[q] = 0 THEN 0 ELSE frame[q] - 1
                      /\ \A f \in 1 .. Len(executed[q]) :
                           executed[q][f] = {c \in issued' : c.frame = f}
    BY <1>2 DEF History
  <2>1. /\ Len(executed[q]) = IF frame[q] = 0 THEN 0 ELSE frame[q] - 1
        /\ \A f \in 1 .. Len(executed[q]) : executed[q][f] = {c \in issued : c.frame = f}
        /\ frame[q] \in Nat
    BY <1>3 DEF History, TypeOK
  <2>2. \A f \in 1 .. Len(executed[q]) : f # cmd.frame
    BY <1>1, <2>1
  <2>3. QED
    BY <1>1, <2>1, <2>2
<1>11. Numbered'
  <2>1. /\ nextID' = [nextID EXCEPT ![p] = nextID[p] + 1] /\ nextID \in [Player -> Nat]
        /\ Numbered /\ issued \in SUBSET Cmd
    BY <1>3 DEF Issue, IInv, TypeOK
  <2>2. cmd.id = nextID[p] /\ cmd.type = type /\ cmd.value = value
    BY DEF cmd, Synchronized
  <2>3. ASSUME NEW c \in issued
        PROVE  /\ c.id < nextID'[c.player]
               /\ c.type = "RUNAHEAD" => c.player = Router /\ c.value \in MIN_RUNAHEAD .. MAX_RUNAHEAD
    <3>1. c.id \in Nat /\ c.player \in Player /\ c.id < nextID[c.player]
      BY <2>1 DEF Cmd, Numbered
    <3>2. c.id < nextID'[c.player]
      BY <2>1, <3>1
    <3>3. QED
      BY <2>1, <3>2 DEF Numbered
  <2>4. cmd.id < nextID'[cmd.player]
    BY <1>1, <2>1, <2>2
  <2>5. QED
    BY <1>1, <2>2, <2>3, <2>4 DEF Numbered, MAX_RUNAHEAD
<1>12. QED
  BY <1>5, <1>6, <1>7, <1>8, <1>9, <1>10, <1>11 DEF IInv

----------------------------------------------------------------------------
(* A frame tick.                                                           *)

Completed(p) == lastFrameCompleted[p] + 1 .. ExecutionFrame(p) - 1
Infos(p) == {Synchronized("FRAMEINFO", p, 0, f, CommandCount(p, f)) : f \in Completed(p)}

(* Afterwards p has completed the frames before its execution frame, and   *)
(* the counts it announces are those of its own records.                   *)
LEMMA TickFacts ==
  ASSUME IInv, NEW p \in Player, FrameTick(p)
  PROVE  /\ frame[p] >= 1
         /\ ExecutionFrame(p) \in Nat /\ ExecutionFrame(p) > lastFrameCompleted[p]
         /\ lastFrameCompleted' = [lastFrameCompleted EXCEPT ![p] = ExecutionFrame(p) - 1]
         /\ net' = [q \in Player |-> net[q] \cup SentTo(p, q, Infos(p))]
         /\ Infos(p) \subseteq FrameInfo
         /\ \A c \in Infos(p) : /\ c.type = "FRAMEINFO" /\ c.player = p
                             /\ 1 <= c.frame /\ c.frame <= ExecutionFrame(p) - 1
                             /\ c.value = Cardinality(IssuedBy(p, c.frame))
<1>1. TypeOK /\ Clock /\ Behind /\ Rings /\ Issuance
  BY DEF IInv
<1>2. /\ frame[p] \in Nat /\ lastFrame[p] \in Nat /\ lastFrameCompleted[p] \in Nat
      /\ lastFrameCompleted \in [Player -> Nat]
      /\ localStatus[p] \in {"PREGAME", "INGAME"} /\ lastFrame[p] # frame[p]
  BY <1>1 DEF TypeOK, FrameTick
<1>3. frame[p] >= 1
  BY <1>1, <1>2 DEF Clock
<1>4. /\ ExecutionFrame(p) \in Nat /\ ExecutionFrame(p) > lastFrameCompleted[p]
      /\ ExecutionFrame(p) <= frame[p] + MAX_RUNAHEAD
      /\ frame[p] <= lastFrameCompleted[p] + 1
  BY <1>1, <1>3, ExecutionFrameBounds DEF Behind
<1>5. lastFrameCompleted' = [lastFrameCompleted EXCEPT ![p] = ExecutionFrame(p) - 1]
  <2>1. lastFrameCompleted' = [lastFrameCompleted EXCEPT ![p] =
          IF Completed(p) = {} THEN lastFrameCompleted[p] ELSE ExecutionFrame(p) - 1]
    BY DEF FrameTick, Completed
  <2>2. Completed(p) = {} => lastFrameCompleted[p] = ExecutionFrame(p) - 1
    <3>1. ASSUME lastFrameCompleted[p] # ExecutionFrame(p) - 1
          PROVE  lastFrameCompleted[p] + 1 \in Completed(p)
      BY <1>2, <1>4, <3>1 DEF Completed
    <3>2. QED
      BY <3>1
  <2>3. QED
    BY <2>1, <2>2
<1>6. net' = [q \in Player |-> net[q] \cup SentTo(p, q, Infos(p))]
  BY DEF FrameTick, SendLocal, Infos, Completed
<1>7. ASSUME NEW f \in Completed(p)
      PROVE  /\ Synchronized("FRAMEINFO", p, 0, f, CommandCount(p, f)) \in FrameInfo
             /\ 1 <= f /\ f <= ExecutionFrame(p) - 1
             /\ CommandCount(p, f) = Cardinality(IssuedBy(p, f))
  <2>1. f \in Nat /\ frame[p] <= f /\ 1 <= f /\ f <= ExecutionFrame(p) - 1
        /\ f <= frame[p] + 2 * MAX_RUNAHEAD
    BY <1>2, <1>4, Sizes DEF Completed
  <2>2. f \in Period(p)
    BY <1>1, <2>1, PeriodRecords
  <2>3. Accurate(p = p, IssuedBy(p, f), lastFrameCompleted[p], f, frameData[p][p][Index(f)])
    BY <1>1, <2>2 DEF Rings
  <2>4. CommandCount(p, f) = Cardinality(IssuedBy(p, f))
    BY <2>3 DEF Accurate, CommandCount
  <2>5. CommandCount(p, f) \in Nat
    BY <1>1, <2>4, IssuedFinite
  <2>6. Synchronized("FRAMEINFO", p, 0, f, CommandCount(p, f)) \in FrameInfo
    BY <2>1, <2>5 DEF Synchronized, FrameInfo
  <2>7. QED
    BY <2>1, <2>4, <2>6
<1>8. Infos(p) \subseteq FrameInfo
  BY <1>7 DEF Infos
<1>9. ASSUME NEW c \in Infos(p)
      PROVE  /\ c.type = "FRAMEINFO" /\ c.player = p
             /\ 1 <= c.frame /\ c.frame <= ExecutionFrame(p) - 1
             /\ c.value = Cardinality(IssuedBy(p, c.frame))
  <2>1. PICK f \in Completed(p) : c = Synchronized("FRAMEINFO", p, 0, f, CommandCount(p, f))
    BY DEF Infos
  <2>2. /\ c.type = "FRAMEINFO" /\ c.player = p /\ c.frame = f
        /\ c.value = CommandCount(p, f)
    BY <2>1 DEF Synchronized
  <2>3. QED
    BY <1>7, <2>2
<1>10. QED
  BY <1>3, <1>4, <1>5, <1>6, <1>8, <1>9

(* A frame tick preserves the invariant. *)
LEMMA TickIInv ==
  ASSUME IInv, NEW p \in Player, FrameTick(p)
  PROVE  IInv'
<1> DEFINE EF == ExecutionFrame(p)
<1>1. /\ frame[p] >= 1 /\ EF \in Nat /\ EF > lastFrameCompleted[p]
      /\ lastFrameCompleted' = [lastFrameCompleted EXCEPT ![p] = EF - 1]
      /\ net' = [q \in Player |-> net[q] \cup SentTo(p, q, Infos(p))]
      /\ Infos(p) \subseteq FrameInfo
      /\ \A c \in Infos(p) : /\ c.type = "FRAMEINFO" /\ c.player = p
                          /\ 1 <= c.frame /\ c.frame <= EF - 1
                          /\ c.value = Cardinality(IssuedBy(p, c.frame))
  BY TickFacts
<1>2. /\ localStatus' = [localStatus EXCEPT ![p] = "INGAME"]
      /\ lastExecutionFrame' = [lastExecutionFrame EXCEPT ![p] = EF]
      /\ lastFrame' = [lastFrame EXCEPT ![p] = frame[p]]
      /\ UNCHANGED <<frame, runAhead, nextID, frameData, late, executed, issued>>
  BY DEF FrameTick
<1>3. /\ TypeOK /\ Clock /\ Behind /\ Issuance /\ Reached /\ Messages /\ Rings /\ History
      /\ frame \in [Player -> Nat] /\ lastFrameCompleted \in [Player -> Nat]
      /\ lastExecutionFrame \in [Player -> Nat]
  BY DEF IInv, TypeOK
<1>4. EF <= frame[p] + MAX_RUNAHEAD /\ EF >= lastExecutionFrame[p] /\ EF >= frame[p] + 1
  BY <1>3, ExecutionFrameBounds
<1> HIDE DEF EF
<1>5. \A q \in Player : /\ lastFrameCompleted'[q] \in Nat
                        /\ lastFrameCompleted[q] <= lastFrameCompleted'[q]
                        /\ lastExecutionFrame'[q] \in Nat
                        /\ lastExecutionFrame[q] <= lastExecutionFrame'[q]
  <2> TAKE q \in Player
  <2>1. lastFrameCompleted[q] \in Nat /\ lastExecutionFrame[q] \in Nat
    BY <1>3
  <2>2. CASE q = p
    BY <1>1, <1>2, <1>3, <1>4, <2>1, <2>2
  <2>3. CASE q # p
    BY <1>1, <1>2, <1>3, <2>1, <2>3
  <2>4. QED
    BY <2>2, <2>3
<1>6. TypeOK'
  <2>1. \A q \in Player : SentTo(p, q, Infos(p)) \subseteq Message
    BY <1>1, SentMessages
  <2>2. net' \in [Player -> SUBSET Message]
    BY <1>1, <1>3, <2>1 DEF TypeOK
  <2>3. /\ lastFrameCompleted' \in [Player -> Nat] /\ lastExecutionFrame' \in [Player -> Nat]
        /\ localStatus' \in [Player -> {"PREGAME", "INGAME"}]
        /\ lastFrame' \in [Player -> Nat]
    BY <1>1, <1>2, <1>3 DEF TypeOK
  <2>4. QED
    BY <1>2, <1>3, <2>2, <2>3 DEF TypeOK
<1>7. Clock'
  <2> SUFFICES ASSUME NEW q \in Player
               PROVE  /\ localStatus'[q] = "PREGAME" =>
                           /\ frame[q] <= 1 /\ lastFrame'[q] = 0
                           /\ runAhead[q] = InitialRunAhead
                           /\ lastExecutionFrame'[q] = InitialRunAhead - 1
                           /\ lastFrameCompleted'[q] = InitialRunAhead - 1
                      /\ localStatus'[q] = "INGAME" =>
                           /\ frame[q] >= 1
                           /\ lastExecutionFrame'[q] > lastFrameCompleted'[q]
                      /\ lastExecutionFrame'[q] <= frame[q] + MAX_RUNAHEAD
                      /\ lastFrameCompleted'[q] >= InitialRunAhead - 1
                      /\ lastFrame'[q] = frame[q] => lastFrameCompleted'[q] >= frame[q]
    BY <1>2 DEF Clock, MAX_RUNAHEAD
  <2>1. CASE q = p
    <3>1. /\ localStatus'[p] = "INGAME" /\ lastExecutionFrame'[p] = EF
          /\ lastFrameCompleted'[p] = EF - 1 /\ lastFrame'[p] = frame[p]
      BY <1>1, <1>2, <1>3 DEF TypeOK
    <3>2. lastFrameCompleted[p] >= InitialRunAhead - 1
      BY <1>3 DEF Clock
    <3>3. QED
      BY <1>1, <1>3, <1>4, <2>1, <3>1, <3>2, Sizes
  <2>2. CASE q # p
    <3>1. /\ localStatus'[q] = localStatus[q] /\ lastExecutionFrame'[q] = lastExecutionFrame[q]
          /\ lastFrameCompleted'[q] = lastFrameCompleted[q] /\ lastFrame'[q] = lastFrame[q]
      BY <1>1, <1>2, <1>3, <2>2 DEF TypeOK
    <3>2. QED
      BY <1>3, <3>1 DEF Clock
  <2>3. QED
    BY <2>1, <2>2
<1>8. Behind'
  <2> SUFFICES ASSUME NEW a \in Player, NEW b \in Player
               PROVE  frame[a] <= lastFrameCompleted'[b] + 1
    BY <1>2 DEF Behind
  <2>1. frame[a] <= lastFrameCompleted[b] + 1 /\ frame[a] \in Nat /\ lastFrameCompleted[b] \in Nat
    BY <1>3 DEF Behind
  <2>2. QED
    BY <1>5, <2>1
<1>9. Issuance' /\ Reached'
  <2>1. Issuance'
    BY <1>2, <1>3 DEF Issuance
  <2>2. ASSUME NEW c \in issued
        PROVE  c.frame <= lastExecutionFrame'[c.player]
    <3>1. c.frame \in Nat /\ c.player \in Player /\ c.frame <= lastExecutionFrame[c.player]
      BY <1>3 DEF TypeOK, Cmd, Reached
    <3>2. QED
      BY <1>3, <1>5, <3>1
  <2>3. QED
    BY <1>2, <2>1, <2>2 DEF Reached
<1>10. \A q, f : IssuedBy(q, f)' = IssuedBy(q, f)
  BY <1>2 DEF IssuedBy
<1>11. Messages'
  <2> SUFFICES ASSUME NEW q \in Player, NEW m \in net'[q] \cup late'[q]
               PROVE  MessageOK(q, m)'
    BY DEF Messages
  <2>1. CASE m \in net[q] \cup late[q]
    <3>1. MessageOK(q, m) /\ m \in Message
      BY <1>3, <2>1 DEF Messages, TypeOK
    <3>2. m.cmd.player \in Player /\ m.cmd.frame \in Nat
      BY <3>1 DEF Message, Cmd, FrameInfo
    <3>3. m.cmd.type = "FRAMEINFO" => m.cmd.frame <= lastFrameCompleted'[m.cmd.player]
      <4>1. SUFFICES ASSUME m.cmd.type = "FRAMEINFO"
                     PROVE  m.cmd.frame <= lastFrameCompleted'[m.cmd.player]
        OBVIOUS
      <4>2. m.cmd.frame <= lastFrameCompleted[m.cmd.player]
        BY <3>1, <4>1 DEF MessageOK
      <4>3. QED
        BY <1>3, <1>5, <3>2, <4>2
    <3>4. QED
      BY <1>2, <1>10, <3>1, <3>3 DEF MessageOK
  <2>2. CASE m \in SentTo(p, q, Infos(p))
    <3>1. m.cmd \in Infos(p) /\ q # p /\ p \notin m.relay
      BY <1>1, <2>2, SentMessages
    <3>2. /\ m.cmd.type = "FRAMEINFO" /\ m.cmd.player = p
          /\ 1 <= m.cmd.frame /\ m.cmd.frame <= EF - 1
          /\ m.cmd.value = Cardinality(IssuedBy(p, m.cmd.frame))
      BY <1>1, <3>1
    <3>3. lastFrameCompleted'[p] = EF - 1
      BY <1>1, <1>3
    <3>4. QED
      BY <1>10, <3>1, <3>2, <3>3 DEF MessageOK
  <2>3. QED
    BY <1>1, <1>2, <1>3, <2>1, <2>2 DEF TypeOK
<1>12. Rings'
  <2>1. \A q \in Player : Period(q)' = Period(q)
    BY <1>2 DEF Period
  <2> SUFFICES ASSUME NEW a \in Player, NEW b \in Player, NEW f \in Period(a)
               PROVE  Accurate(a = b, IssuedBy(b, f), lastFrameCompleted'[b], f,
                               frameData[a][b][Index(f)])
    BY <1>2, <1>10, <2>1 DEF Rings, Index, FRAME_DATA_LENGTH
  <2>2. /\ Accurate(a = b, IssuedBy(b, f), lastFrameCompleted[b], f, frameData[a][b][Index(f)])
        /\ f \in Int
    BY <1>3, PeriodRecords DEF Rings
  <2>3. lastFrameCompleted[b] \in Nat /\ lastFrameCompleted'[b] \in Nat
        /\ lastFrameCompleted[b] <= lastFrameCompleted'[b]
    BY <1>3, <1>5
  <2>4. QED
    BY <2>2, <2>3 DEF Accurate
<1>13. History'
  <2>1. executed' = executed /\ frame' = frame /\ issued' = issued
    BY <1>2
  <2>2. QED
    BY <1>3, <2>1 DEF History
<1>14. Numbered'
  BY <1>2 DEF IInv, Numbered, MAX_RUNAHEAD
<1>15. QED
  BY <1>6, <1>7, <1>8, <1>9, <1>11, <1>12, <1>13, <1>14 DEF IInv

----------------------------------------------------------------------------
(* Receiving a message.                                                    *)

(* Replacing one record by an accurate one keeps all of them accurate.     *)
LEMMA OneRecord ==
  ASSUME TypeOK, Rings, NEW p \in Player, NEW q \in Player, NEW g \in Period(p),
         NEW new \in FrameDataType(Cmd),
         Accurate(p = q, IssuedBy(q, g), lastFrameCompleted[q], g, new),
         frameData' = [frameData EXCEPT ![p][q] = [frameData[p][q] EXCEPT ![Index(g)] = new]],
         UNCHANGED <<frame, lastFrameCompleted, issued>>
  PROVE  /\ Rings'
         /\ frameData' \in [Player -> [Player -> [Indices -> FrameDataType(Cmd)]]]
<1>1. /\ frameData \in [Player -> [Player -> [Indices -> FrameDataType(Cmd)]]]
      /\ frameData[p] \in [Player -> [Indices -> FrameDataType(Cmd)]]
      /\ frameData[p][q] \in [Indices -> FrameDataType(Cmd)]
      /\ Index(g) \in Indices
  BY RecordTypes, PeriodRecords
<1>2. frameData' \in [Player -> [Player -> [Indices -> FrameDataType(Cmd)]]]
  BY <1>1
<1>3. /\ \A a \in Player : Period(a)' = Period(a)
      /\ \A b, f : IssuedBy(b, f)' = IssuedBy(b, f)
  BY DEF Period, IssuedBy
<1>4. ASSUME NEW a \in Player, NEW b \in Player, NEW f \in Period(a)
      PROVE  Accurate(a = b, IssuedBy(b, f), lastFrameCompleted[b], f, frameData'[a][b][Index(f)])
  <2>1. /\ Accurate(a = b, IssuedBy(b, f), lastFrameCompleted[b], f, frameData[a][b][Index(f)])
        /\ Index(f) \in Indices
    BY PeriodRecords DEF Rings
  <2>2. CASE a = p /\ b = q /\ f = g
    <3>1. frameData'[a][b][Index(f)] = new
      BY <1>1, <2>2
    <3>2. QED
      BY <2>2, <3>1
  <2>3. CASE a = p /\ b = q /\ f # g
    <3>1. Index(f) # Index(g)
      BY <2>3, PeriodRecords
    <3>2. frameData'[a][b][Index(f)] = frameData[a][b][Index(f)]
      BY <1>1, <2>1, <2>3, <3>1
    <3>3. QED
      BY <2>1, <3>2
  <2>4. CASE ~(a = p /\ b = q)
    <3>1. frameData'[a][b] = frameData[a][b]
      BY <1>1, <2>4
    <3>2. QED
      BY <2>1, <3>1
  <2>5. QED
    BY <2>2, <2>3, <2>4
<1>5. Rings'
  BY <1>3, <1>4 DEF Rings, Index, FRAME_DATA_LENGTH
<1>6. QED
  BY <1>2, <1>5

(* A message that is not out of date is for a frame of p's window.         *)
LEMMA ReceivedInPeriod ==
  ASSUME IInv, NEW p \in Player, NEW m \in net[p] \cup late[p]
  PROVE  /\ m \in Message /\ MessageOK(p, m)
         /\ m.cmd.player \in Player /\ m.cmd.frame \in Nat /\ m.cmd.value \in Nat
         /\ m.cmd.frame <= frame[p] + 2 * MAX_RUNAHEAD
         /\ ~OutOfDate(p, m) => m.cmd.frame \in Period(p)
<1>1. TypeOK /\ Clock /\ Behind /\ Reached /\ Messages
  BY DEF IInv
<1>2. m \in Message /\ MessageOK(p, m)
  BY <1>1 DEF TypeOK, Messages
<1>3. m.cmd.player \in Player /\ m.cmd.frame \in Nat /\ m.cmd.value \in Nat
  BY <1>2 DEF Message, Cmd, FrameInfo
<1>4. /\ frame[p] \in Nat /\ frame[m.cmd.player] \in Nat
      /\ lastFrameCompleted[m.cmd.player] \in Nat /\ lastExecutionFrame[m.cmd.player] \in Nat
  BY <1>1, <1>3 DEF TypeOK
<1>5. /\ lastFrameCompleted[m.cmd.player] < frame[m.cmd.player] + MAX_RUNAHEAD
      /\ frame[m.cmd.player] <= frame[p] + MAX_RUNAHEAD
      /\ lastExecutionFrame[m.cmd.player] <= frame[p] + 2 * MAX_RUNAHEAD
  BY <1>1, <1>3, Lead
<1>6. m.cmd.frame <= frame[p] + 2 * MAX_RUNAHEAD
  <2>1. CASE m.cmd.type = "FRAMEINFO"
    <3>1. m.cmd.frame <= lastFrameCompleted[m.cmd.player]
      BY <1>2, <2>1 DEF MessageOK
    <3>2. QED
      BY <1>3, <1>4, <1>5, <3>1, Sizes
  <2>2. CASE m.cmd.type # "FRAMEINFO"
    <3>1. m.cmd.frame <= lastExecutionFrame[m.cmd.player]
      BY <1>1, <1>2, <2>2 DEF MessageOK, Reached
    <3>2. QED
      BY <1>3, <1>4, <1>5, <3>1, Sizes
  <2>3. QED
    BY <2>1, <2>2
<1>7. ~OutOfDate(p, m) => m.cmd.frame \in Period(p)
  <2>1. ~OutOfDate(p, m) => frame[p] <= m.cmd.frame
    BY <1>3, <1>4 DEF OutOfDate
  <2>2. QED
    BY <1>1, <1>3, <1>6, <2>1, PeriodRecords
<1>8. QED
  BY <1>2, <1>3, <1>6, <1>7

(* What p takes in of a message leaves its records accurate.               *)
LEMMA ReceiveRings ==
  ASSUME IInv, NEW p \in Player, NEW m \in net[p] \cup late[p], NEW again \in BOOLEAN,
         Receive(p, m, again)
  PROVE  /\ Rings'
         /\ frameData' \in [Player -> [Player -> [Indices -> FrameDataType(Cmd)]]]
<1> DEFINE q == m.cmd.player
           f == m.cmd.frame
           fd == frameData[p][q][Index(f)]
<1>1. /\ TypeOK /\ Rings /\ Issuance
      /\ UNCHANGED <<frame, lastFrameCompleted, issued>>
      /\ frameData' = IF OutOfDate(p, m) THEN frameData ELSE TakeIn(p, m)
  BY DEF IInv, Receive
<1>2. /\ m \in Message /\ MessageOK(p, m)
      /\ q \in Player /\ f \in Nat /\ m.cmd.value \in Nat
      /\ ~OutOfDate(p, m) => f \in Period(p)
  BY ReceivedInPeriod
<1>3. CASE frameData' = frameData
  <2>1. /\ \A a \in Player : Period(a)' = Period(a)
        /\ \A b, g : IssuedBy(b, g)' = IssuedBy(b, g)
    BY <1>1 DEF Period, IssuedBy
  <2>2. Rings'
    BY <1>1, <1>3, <2>1 DEF Rings, Index, FRAME_DATA_LENGTH
  <2>3. QED
    BY <1>1, <1>3, <2>2 DEF TypeOK
<1>4. CASE frameData' # frameData
  <2>1. ~OutOfDate(p, m) /\ frameData' = TakeIn(p, m) /\ f \in Period(p)
    BY <1>1, <1>2, <1>4
  <2>2. p # q
    BY <1>2 DEF MessageOK
  <2>3. /\ Accurate(p = q, IssuedBy(q, f), lastFrameCompleted[q], f, fd)
        /\ Index(f) \in Indices
    BY <1>1, <1>2, <2>1, PeriodRecords DEF Rings
  <2>4. fd \in FrameDataType(Cmd)
    BY <1>1, <1>2, <2>3, RecordTypes
  <2>5. IsFiniteSet(IssuedBy(q, f)) /\ Cardinality(IssuedBy(q, f)) \in Nat
    BY <1>1, IssuedFinite
  <2>6. CASE m.cmd.type = "FRAMEINFO"
    <3> DEFINE new == SetFrameCommandCount(fd, m.cmd.value)
    <3>1. /\ new \in FrameDataType(Cmd)
          /\ new.commandList = fd.commandList /\ new.commandCount = fd.commandCount
          /\ new.frameCommandCount = m.cmd.value
      BY <1>2, <2>4, SetCountType
    <3>2. frameData' = [frameData EXCEPT ![p][q] = [frameData[p][q] EXCEPT ![Index(f)] = new]]
      BY <2>1, <2>6 DEF TakeIn, RingSetCount
    <3>3. /\ 1 <= f /\ f <= lastFrameCompleted[q]
          /\ m.cmd.value = Cardinality(IssuedBy(q, f))
      BY <1>2, <2>6 DEF MessageOK
    <3> HIDE DEF new, fd, q, f
    <3>4. Accurate(p = q, IssuedBy(q, f), lastFrameCompleted[q], f, new)
      BY <2>2, <2>3, <3>1, <3>3 DEF Accurate
    <3>5. QED
      BY <1>1, <1>2, <2>1, <3>1, <3>2, <3>4, OneRecord
  <2>7. CASE m.cmd.type # "FRAMEINFO"
    <3> DEFINE new == SettleLocal(FALSE, AddCommand(fd, m.cmd))
    <3>1. m.cmd \in issued /\ m.cmd \in Cmd /\ m.cmd \in IssuedBy(q, f)
      <4>1. m.cmd \in issued
        BY <1>2, <2>7 DEF MessageOK
      <4>2. QED
        BY <1>1, <4>1 DEF TypeOK, IssuedBy
    <3>2. p \in m.relay
      BY <1>4, <2>1, <2>7 DEF TakeIn
    <3>3. (p = q) = FALSE
      BY <2>2
    <3>4. frameData' = [frameData EXCEPT ![p][q] = RingAdd(frameData[p][q], p = q, f, m.cmd)]
      BY <2>1, <2>7, <3>2 DEF TakeIn
    <3>5. RingAdd(frameData[p][q], p = q, f, m.cmd) = [frameData[p][q] EXCEPT ![Index(f)] = new]
      BY <3>3 DEF RingAdd
    <3>6. new = SettleLocal(FALSE, AddCommand(fd, m.cmd))
      OBVIOUS
    <3> HIDE DEF new, fd
    <3>7. /\ new \in FrameDataType(Cmd)
          /\ new.commandList = fd.commandList \cup {m.cmd}
          /\ m.cmd \in fd.commandList => new.commandCount = fd.commandCount
          /\ m.cmd \notin fd.commandList => new.commandCount = fd.commandCount + 1
          /\ new.frameCommandCount = fd.frameCommandCount
      <4> DEFINE c == m.cmd
      <4>1. fd \in FrameDataType(Cmd) /\ c \in Cmd /\ new = SettleLocal(FALSE, AddCommand(fd, c))
        BY <2>4, <3>1, <3>6
      <4> HIDE DEF c
      <4>2. /\ new \in FrameDataType(Cmd)
            /\ new.commandList = fd.commandList \cup {c}
            /\ c \in fd.commandList => new.commandCount = fd.commandCount
            /\ c \notin fd.commandList => new.commandCount = fd.commandCount + 1
            /\ new.frameCommandCount = fd.frameCommandCount
        BY <4>1, AddRemoteType
      <4>3. QED
        BY <4>2 DEF c
    <3> HIDE DEF q, f
    <3>8. /\ fd.commandList \subseteq IssuedBy(q, f)
          /\ fd.commandCount = Cardinality(fd.commandList)
      BY <2>3 DEF Accurate
    <3>9. IsFiniteSet(fd.commandList)
      BY <2>5, <3>8, FS_Subset
    <3>10. new.commandCount = Cardinality(fd.commandList \cup {m.cmd})
      BY <3>7, <3>8, <3>9, FS_AddElement
    <3>11. Accurate(p = q, IssuedBy(q, f), lastFrameCompleted[q], f, new)
      <4>1. new.commandList \subseteq IssuedBy(q, f)
        BY <3>1, <3>7, <3>8
      <4>2. new.commandCount = Cardinality(new.commandList)
        BY <3>7, <3>10
      <4>3. QED
        BY <2>2, <2>3, <3>7, <4>1, <4>2 DEF Accurate
    <3>12. frameData' = [frameData EXCEPT ![p][q] = [frameData[p][q] EXCEPT ![Index(f)] = new]]
      BY <3>4, <3>5
    <3>13. QED
      BY <1>1, <1>2, <2>1, <3>7, <3>11, <3>12, OneRecord
  <2>8. QED
    BY <2>6, <2>7
<1>5. QED
  BY <1>3, <1>4

(* Receiving a message, once more or for the first time, preserves the     *)
(* invariant: whatever is relayed is as true as what has arrived.          *)
LEMMA ReceiveIInv ==
  ASSUME IInv, NEW p \in Player, NEW m \in net[p] \cup late[p], NEW again \in BOOLEAN,
         Receive(p, m, again)
  PROVE  IInv'
<1>1. /\ late' = [late EXCEPT ![p] = IF again THEN late[p] \cup {m} ELSE late[p] \ {m}]
      /\ net' = [q \in Player |->
                   (net[q] \ (IF q = p THEN {m} ELSE {}))
                     \cup (IF OutOfDate(p, m) THEN {} ELSE RelayedTo(p, q, m))]
      /\ UNCHANGED <<localStatus, frame, runAhead, lastExecutionFrame, lastFrameCompleted,
                     lastFrame, nextID, executed, issued>>
  BY DEF Receive
<1>2. TypeOK /\ Clock /\ Behind /\ Issuance /\ Reached /\ Messages /\ Rings /\ History
  BY DEF IInv
<1>3. /\ m \in Message /\ MessageOK(p, m) /\ m.cmd.player \in Player
      /\ net \in [Player -> SUBSET Message] /\ late \in [Player -> SUBSET Message]
  BY <1>2, ReceivedInPeriod DEF TypeOK
<1>4. ASSUME NEW q \in Player, NEW n \in RelayedTo(p, q, m)
      PROVE  /\ n \in Message /\ MessageOK(q, n)
  <2>1. q \in m.relay /\ n = [cmd |-> m.cmd, relay |-> {q}]
    BY DEF RelayedTo
  <2>2. n.cmd = m.cmd /\ n.relay = {q} /\ n.cmd.player # q
    BY <1>3, <2>1 DEF MessageOK
  <2>3. n \in Message
    BY <1>3, <2>1 DEF Message
  <2>4. QED
    BY <1>3, <2>2, <2>3 DEF MessageOK
<1>5. TypeOK'
  <2>1. net' \in [Player -> SUBSET Message] /\ late' \in [Player -> SUBSET Message]
    BY <1>1, <1>3, <1>4
  <2>2. frameData' \in [Player -> [Player -> [Indices -> FrameDataType(Cmd)]]]
    BY ReceiveRings
  <2>3. QED
    BY <1>1, <1>2, <2>1, <2>2 DEF TypeOK
<1>6. Clock' /\ Behind' /\ Issuance' /\ Reached' /\ History'
  <2>1. Clock'
    BY <1>1, <1>2 DEF Clock, MAX_RUNAHEAD
  <2>2. Behind' /\ Issuance' /\ Reached'
    BY <1>1, <1>2 DEF Behind, Issuance, Reached
  <2>3. executed' = executed /\ frame' = frame /\ issued' = issued
    BY <1>1
  <2>4. History'
    BY <1>2, <2>3 DEF History
  <2>5. QED
    BY <2>1, <2>2, <2>4
<1>7. Messages'
  <2>1. \A q, f : IssuedBy(q, f)' = IssuedBy(q, f)
    BY <1>1 DEF IssuedBy
  <2>2. ASSUME NEW q \in Player, NEW n \in net'[q] \cup late'[q]
        PROVE  MessageOK(q, n)
    <3>1. n \in net[q] \cup late[q] \/ n \in RelayedTo(p, q, m) \/ (q = p /\ n = m)
      BY <1>1, <1>3
    <3>2. QED
      BY <1>2, <1>3, <1>4, <3>1 DEF Messages
  <2>3. QED
    BY <1>1, <2>1, <2>2 DEF Messages, MessageOK
<1>8. Rings'
  BY ReceiveRings
<1>9. Numbered'
  BY <1>1 DEF IInv, Numbered, MAX_RUNAHEAD
<1>10. QED
  BY <1>5, <1>6, <1>7, <1>8, <1>9 DEF IInv

----------------------------------------------------------------------------
(* Executing a frame.                                                      *)

(* A set of natural numbers has a least element. *)
LEMMA LeastNat ==
  ASSUME NEW T, T \subseteq Nat, T # {}
  PROVE  \E x \in T : \A y \in T : x <= y
<1> DEFINE R == OpToRel(<, Nat)
<1>1. IsWellFoundedOn(R, Nat)
  BY NatLessThanWellFounded
<1>2. \A x, y \in Nat : y < x => <<y, x>> \in R
  BY DEF OpToRel
<1> HIDE DEF R
<1>3. PICK x \in T : \A y \in T : ~ (<<y, x>> \in R)
  BY <1>1, WFMin
<1>4. ASSUME NEW y \in T PROVE x <= y
  <2>1. x \in Nat /\ y \in Nat
    OBVIOUS
  <2>2. ~ (y < x)
    BY <1>2, <1>3, <2>1
  <2>3. QED
    BY <2>1, <2>2
<1>5. QED
  BY <1>4

(* Of the router's run ahead commands one is the last.                     *)
LEMMA LastChange ==
  ASSUME TypeOK, Numbered, NEW changes, changes # {},
         changes \subseteq {c \in issued : c.type = "RUNAHEAD"}
  PROVE  \E c \in changes : \A d \in changes : d.id <= c.id
<1> DEFINE n == nextID[Router]
           T == {n - c.id : c \in changes}
<1>1. n \in Nat
  BY PlayerAssumption DEF TypeOK
<1>2. \A c \in changes : c.id \in Nat /\ c.id < n
  BY DEF TypeOK, Numbered, Cmd
<1>3. T \subseteq Nat /\ T # {}
  BY <1>1, <1>2
<1>4. PICK x \in T : \A y \in T : x <= y
  BY <1>3, LeastNat
<1>5. PICK c \in changes : x = n - c.id
  OBVIOUS
<1>6. ASSUME NEW d \in changes PROVE d.id <= c.id
  <2>1. n - c.id <= n - d.id
    BY <1>4, <1>5
  <2>2. QED
    BY <1>1, <1>2, <2>1
<1>7. QED
  BY <1>6

(* When a frame moves on, the record that leaves the window is as good as  *)
(* blank, so it is accurate about the frame that takes it over.            *)
LEMMA ShiftRings ==
  ASSUME IInv, NEW p \in Player,
         frame' = [frame EXCEPT ![p] = frame[p] + 1],
         frameData' = [frameData EXCEPT ![p] =
                         [q \in Player |-> RingExecuted(frameData[p][q], p = q, frame[p])]],
         UNCHANGED <<lastFrameCompleted, issued>>
  PROVE  /\ Rings'
         /\ frameData' \in [Player -> [Player -> [Indices -> FrameDataType(Cmd)]]]
<1> DEFINE old == frame[p] - FRAMES_TO_KEEP
           blank(q) == SettleLocal(p = q, EmptyFrame)
<1>1. /\ TypeOK /\ Rings /\ Issuance /\ Reached /\ Clock
      /\ frame \in [Player -> Nat] /\ frame[p] \in Nat /\ frame'[p] = frame[p] + 1
      /\ issued \subseteq Cmd /\ lastFrameCompleted \in [Player -> Nat]
  BY DEF IInv, TypeOK
<1>2. /\ old \in Period(p) /\ old \in Int /\ Index(old) \in Indices
      /\ \A f \in Period(p)' : /\ f \in Int /\ f # old
                               /\ f \in Period(p) \/ f = old + FRAME_DATA_LENGTH
  <2>1. old \in Period(p) /\ old \in Int
    BY <1>1, Sizes DEF Period
  <2>2. ASSUME NEW f \in Period(p)'
        PROVE  /\ f \in Int /\ f # old
               /\ f \in Period(p) \/ f = old + FRAME_DATA_LENGTH
    <3>1. Period(p)' = (frame'[p] - FRAMES_TO_KEEP) .. (frame'[p] - FRAMES_TO_KEEP + FRAME_DATA_LENGTH - 1)
      BY Zenon DEF Period, FRAMES_TO_KEEP, FRAME_DATA_LENGTH
    <3> DEFINE next == frame'[p]
    <3>2. next = frame[p] + 1
      BY <1>1
    <3>3. f \in (next - FRAMES_TO_KEEP) .. (next - FRAMES_TO_KEEP + FRAME_DATA_LENGTH - 1)
      BY <3>1, Zenon
    <3> HIDE DEF next
    <3>4. QED
      BY <1>1, <3>2, <3>3, Sizes DEF Period
  <2>3. QED
    BY <2>1, <2>2, IndexType
<1>3. \A b, f : IssuedBy(b, f)' = IssuedBy(b, f)
  BY DEF IssuedBy
<1>4. ASSUME NEW q \in Player
      PROVE  /\ frameData'[p][q] \in [Indices -> FrameDataType(Cmd)]
             /\ frame[p] > FRAMES_TO_KEEP =>
                  frameData'[p][q] = [frameData[p][q] EXCEPT ![Index(old)] = blank(q)]
             /\ ~(frame[p] > FRAMES_TO_KEEP) => frameData'[p][q] = frameData[p][q]
  <2>1. /\ frameData \in [Player -> [Player -> [Indices -> FrameDataType(Cmd)]]]
        /\ frameData[p][q] \in [Indices -> FrameDataType(Cmd)]
    BY <1>1, RecordTypes
  <2>2. frameData'[p][q] = RingExecuted(frameData[p][q], p = q, frame[p])
    BY <2>1
  <2>3. blank(q) \in FrameDataType(Cmd)
    BY EmptyType
  <2>4. CASE frame[p] > FRAMES_TO_KEEP
    BY <2>1, <2>2, <2>3, <2>4 DEF RingExecuted, RingReset
  <2>5. CASE ~(frame[p] > FRAMES_TO_KEEP)
    BY <2>1, <2>2, <2>5 DEF RingExecuted
  <2>6. QED
    BY <2>4, <2>5
<1>5. frameData' \in [Player -> [Player -> [Indices -> FrameDataType(Cmd)]]]
  <2>1. frameData \in [Player -> [Player -> [Indices -> FrameDataType(Cmd)]]]
    BY <1>1 DEF TypeOK
  <2>2. [q \in Player |-> RingExecuted(frameData[p][q], p = q, frame[p])]
          \in [Player -> [Indices -> FrameDataType(Cmd)]]
    BY <1>4, <2>1
  <2>3. QED
    BY <2>1, <2>2
<1>6. ASSUME NEW q \in Player, NEW f \in Period(p)', f \in Period(p)
      PROVE  Accurate(p = q, IssuedBy(q, f), lastFrameCompleted[q], f, frameData'[p][q][Index(f)])
  <2>1. /\ Accurate(p = q, IssuedBy(q, f), lastFrameCompleted[q], f, frameData[p][q][Index(f)])
        /\ Index(f) \in Indices /\ Index(f) # Index(old)
    BY <1>1, <1>2, <1>6, PeriodRecords DEF Rings
  <2>2. frameData'[p][q][Index(f)] = frameData[p][q][Index(f)]
    <3> DEFINE ring == frameData[p][q]
               ring1 == frameData'[p][q]
    <3>1. /\ ring \in [Indices -> FrameDataType(Cmd)]
          /\ ring1 = ring \/ ring1 = [ring EXCEPT ![Index(old)] = blank(q)]
      BY <1>1, <1>4, RecordTypes
    <3> HIDE DEF old, blank, ring, ring1
    <3>2. ring1[Index(f)] = ring[Index(f)]
      BY <2>1, <3>1
    <3>3. QED
      BY <3>2 DEF ring, ring1
  <2>3. QED
    BY <2>1, <2>2
<1>7. ASSUME NEW q \in Player, NEW f, f = old + FRAME_DATA_LENGTH
      PROVE  Accurate(p = q, IssuedBy(q, f), lastFrameCompleted[q], f, frameData'[p][q][Index(f)])
  <2>1. Index(f) = Index(old)
    BY <1>2, <1>7, IndexPeriod
  <2>2. f \in Int /\ f > frame[p] + 2 * MAX_RUNAHEAD
    BY <1>1, <1>7, Sizes
  <2>3. p = q => IssuedBy(q, f) = {}
    <3>1. lastExecutionFrame[p] <= frame[p] + MAX_RUNAHEAD /\ lastExecutionFrame[p] \in Nat
      BY <1>1 DEF Clock, TypeOK
    <3>2. ASSUME NEW c \in issued, c.player = p, c.frame = f
          PROVE  FALSE
      <4>1. f <= lastExecutionFrame[p]
        BY <1>1, <3>2 DEF Reached
      <4>2. QED
        BY <1>1, <2>2, <3>1, <4>1, Sizes
    <3>3. QED
      BY <3>2 DEF IssuedBy
  <2>4. CASE frame[p] > FRAMES_TO_KEEP
    <3>1. frameData'[p][q][Index(f)] = blank(q)
      <4> DEFINE ring == frameData[p][q]
                 ring1 == frameData'[p][q]
      <4>1. /\ ring \in [Indices -> FrameDataType(Cmd)]
            /\ ring1 = [ring EXCEPT ![Index(old)] = blank(q)]
        BY <1>1, <1>4, <2>4, RecordTypes
      <4> HIDE DEF old, blank, ring, ring1
      <4>2. ring1[Index(f)] = blank(q)
        BY <1>2, <2>1, <4>1
      <4>3. QED
        BY <4>2 DEF ring1
    <3>2. QED
      BY <2>3, <3>1, BlankAccurate
  <2>5. CASE ~(frame[p] > FRAMES_TO_KEEP)
    <3> DEFINE fd == frameData[p][q][Index(old)]
    <3>1. frameData'[p][q][Index(f)] = fd
      BY <1>4, <2>1, <2>5
    <3>2. Accurate(p = q, IssuedBy(q, old), lastFrameCompleted[q], old, fd)
      BY <1>1, <1>2 DEF Rings
    <3>3. old <= 0
      BY <1>1, <2>5, Sizes
    <3>4. IssuedBy(q, old) = {}
      <4>1. \A c \in issued : c.frame >= InitialRunAhead /\ c.frame \in Nat
        BY <1>1 DEF Issuance, Cmd
      <4>2. QED
        BY <1>2, <3>3, <4>1, Sizes DEF IssuedBy
    <3> HIDE DEF fd, old
    <3>5. /\ fd.commandList = {} /\ fd.commandCount = Cardinality(fd.commandList)
          /\ p = q => fd.frameCommandCount = fd.commandCount
          /\ p # q => fd.frameCommandCount = Unknown
      BY <1>2, <3>2, <3>3, <3>4 DEF Accurate
    <3>6. Accurate(p = q, IssuedBy(q, f), lastFrameCompleted[q], f, fd)
      BY <2>3, <3>5 DEF Accurate
    <3>7. QED
      BY <3>1, <3>6
  <2>6. QED
    BY <2>4, <2>5
<1>8. ASSUME NEW a \in Player, a # p, NEW q \in Player, NEW f \in Period(a)'
      PROVE  Accurate(a = q, IssuedBy(q, f), lastFrameCompleted[q], f, frameData'[a][q][Index(f)])
  <2>1. frameData'[a] = frameData[a] /\ frame'[a] = frame[a]
    BY <1>1, <1>8, RecordTypes
  <2>2. f \in Period(a)
    BY <2>1 DEF Period, FRAMES_TO_KEEP, FRAME_DATA_LENGTH
  <2>3. QED
    BY <1>1, <2>1, <2>2 DEF Rings
<1>9. ASSUME NEW a \in Player, NEW q \in Player, NEW f \in Period(a)'
      PROVE  Accurate(a = q, IssuedBy(q, f), lastFrameCompleted[q], f, frameData'[a][q][Index(f)])
  <2>1. CASE a # p
    BY <1>8, <2>1
  <2>2. CASE a = p
    BY <1>2, <1>6, <1>7, <1>9, <2>2
  <2>3. QED
    BY <2>1, <2>2
<1>10. Rings'
  BY <1>3, <1>9 DEF Rings, Index, FRAME_DATA_LENGTH
<1>11. QED
  BY <1>5, <1>10

(* The run ahead a list of commands leaves is one the router may choose.   *)
LEMMA RunAheadType ==
  ASSUME TypeOK, Numbered, NEW p \in Player, NEW list \in SUBSET issued
  PROVE  RunAheadAfter(p, list) \in MIN_RUNAHEAD .. MAX_RUNAHEAD
<1> DEFINE changes == {c \in list : c.type = "RUNAHEAD"}
           last == CHOOSE c \in changes : \A d \in changes : d.id <= c.id
<1>1. CASE changes = {}
  BY <1>1 DEF RunAheadAfter, TypeOK
<1>2. CASE changes # {}
  <2>1. last \in changes
    BY <1>2, LastChange
  <2>2. last \in issued /\ last.type = "RUNAHEAD"
    BY <2>1
  <2>3. last.value \in MIN_RUNAHEAD .. MAX_RUNAHEAD
    BY <2>2 DEF Numbered
  <2>4. RunAheadAfter(p, list) = last.value
    BY <1>2 DEF RunAheadAfter
  <2>5. QED
    BY <2>3, <2>4
<1>3. QED
  BY <1>1, <1>2

(* The game starts: frame 0 has no commands and lets go of no record.      *)
LEMMA StartIInv ==
  ASSUME IInv, NEW p \in Player, StartGame(p)
  PROVE  IInv'
<1>1. /\ localStatus[p] = "PREGAME" /\ frame[p] = 0
      /\ frame' = [frame EXCEPT ![p] = frame[p] + 1]
      /\ localStatus' = localStatus /\ runAhead' = runAhead
      /\ lastExecutionFrame' = lastExecutionFrame
      /\ lastFrameCompleted' = lastFrameCompleted /\ lastFrame' = lastFrame
      /\ nextID' = nextID /\ frameData' = frameData
      /\ net' = net /\ late' = late /\ executed' = executed /\ issued' = issued
  BY DEF StartGame
<1>2. TypeOK /\ Clock /\ Behind /\ Issuance /\ Numbered /\ Reached /\ Messages /\ Rings /\ History
  BY DEF IInv
<1>3. /\ frame \in [Player -> Nat] /\ frame'[p] = 1
      /\ \A q \in Player : q # p => frame'[q] = frame[q]
  BY <1>1, <1>2 DEF TypeOK
<1>4. TypeOK'
  BY <1>1, <1>2 DEF TypeOK
<1>5. Rings'
  <2>1. \A q \in Player : RingExecuted(frameData[p][q], p = q, frame[p]) = frameData[p][q]
    BY <1>1, Sizes DEF RingExecuted
  <2>2. frameData' = [frameData EXCEPT ![p] =
                        [q \in Player |-> RingExecuted(frameData[p][q], p = q, frame[p])]]
    <3>1. frameData[p] = [q \in Player |-> frameData[p][q]]
      BY <1>2, RecordTypes
    <3>2. frameData' = [frameData EXCEPT ![p] = [q \in Player |-> frameData[p][q]]]
      BY <1>1, <1>2, <3>1, RecordTypes
    <3>3. QED
      BY <2>1, <3>2
  <2>3. QED
    BY <1>1, <2>2, ShiftRings
<1>6. Clock'
  <2>1. /\ frame[p] = 0 /\ lastFrame[p] = 0 /\ lastExecutionFrame[p] = InitialRunAhead - 1
        /\ lastFrameCompleted[p] = InitialRunAhead - 1
    BY <1>1, <1>2 DEF Clock
  <2>2. QED
    BY <1>1, <1>2, <1>3, <2>1, Sizes DEF Clock, MAX_RUNAHEAD
<1>7. Behind'
  <2>1. \A q \in Player : lastFrameCompleted[q] \in Nat /\ lastFrameCompleted[q] >= InitialRunAhead - 1
    BY <1>2 DEF TypeOK, Clock
  <2>2. QED
    BY <1>1, <1>2, <1>3, <2>1, Sizes DEF Behind
<1>8. Issuance' /\ Numbered' /\ Reached' /\ Messages'
  <2>1. \A q, f : IssuedBy(q, f)' = IssuedBy(q, f)
    BY <1>1 DEF IssuedBy
  <2>2. Messages'
    BY <1>1, <1>2, <2>1 DEF Messages, MessageOK
  <2>3. Issuance' /\ Numbered' /\ Reached'
    BY <1>1, <1>2 DEF Issuance, Numbered, Reached, MAX_RUNAHEAD
  <2>4. QED
    BY <2>2, <2>3
<1>9. History'
  BY <1>1, <1>2, <1>3 DEF History
<1>10. QED
  BY <1>4, <1>5, <1>6, <1>7, <1>8, <1>9 DEF IInv

(* A player that may execute a frame holds everything issued for it, and   *)
(* everybody has completed the frame.                                      *)
LEMMA ReadyFacts ==
  ASSUME IInv, NEW p \in Player, localStatus[p] = "INGAME", lastFrame[p] = frame[p],
         AllCommandsReady(p)
  PROVE  /\ frame[p] >= 1
         /\ \A q \in Player : frame[p] <= lastFrameCompleted[q]
         /\ FrameCommandList(p) = {c \in issued : c.frame = frame[p]}
<1> DEFINE f == frame[p]
<1>1. /\ TypeOK /\ Clock /\ Issuance /\ Rings
      /\ f \in Nat /\ f >= 1 /\ lastFrameCompleted[p] >= f
      /\ issued \subseteq Cmd
  BY DEF IInv, TypeOK, Clock
<1>2. f \in Period(p) /\ Index(f) \in Indices
  BY <1>1, PeriodRecords, Sizes
<1> HIDE DEF f
<1>3. ASSUME NEW q \in Player
      PROVE  /\ f <= lastFrameCompleted[q]
             /\ frameData[p][q][Index(f)].commandList = IssuedBy(q, f)
  <2> DEFINE fd == frameData[p][q][Index(f)]
             cmds == IssuedBy(q, f)
  <2>1. /\ fd \in FrameDataType(Cmd)
        /\ Accurate(p = q, cmds, lastFrameCompleted[q], f, fd)
        /\ IsReady(fd)
    BY <1>1, <1>2, RecordTypes DEF Rings, AllCommandsReady, f
  <2>2. IsFiniteSet(cmds) /\ Cardinality(cmds) \in Nat
    BY <1>1, IssuedFinite
  <2> HIDE DEF fd, cmds
  <2>3. /\ fd.frameCommandCount = fd.commandCount /\ fd.commandCount \in Nat
        /\ fd.frameCommandCount # Unknown
    BY <2>1 DEF IsReady, FrameDataType, Unknown
  <2>4. CASE p = q
    <3>1. fd.commandList = cmds
      BY <2>1, <2>4 DEF Accurate
    <3>2. QED
      BY <1>1, <2>4, <3>1 DEF fd, cmds
  <2>5. CASE p # q
    <3>1. /\ fd.commandList \subseteq cmds /\ f <= lastFrameCompleted[q]
          /\ Cardinality(fd.commandList) = Cardinality(cmds)
      BY <2>1, <2>3, <2>5 DEF Accurate
    <3>2. fd.commandList = cmds
      BY <2>2, <3>1, FS_Subset
    <3>3. QED
      BY <3>1, <3>2 DEF fd, cmds
  <2>6. QED
    BY <2>4, <2>5
<1>4. FrameCommandList(p) = UNION {IssuedBy(q, f) : q \in Player}
  BY <1>3 DEF FrameCommandList, f
<1>5. \A c \in issued : c.player \in Player
  BY <1>1 DEF Cmd
<1>6. UNION {IssuedBy(q, f) : q \in Player} = {c \in issued : c.frame = f}
  BY <1>5 DEF IssuedBy
<1>7. QED
  BY <1>1, <1>3, <1>4, <1>6 DEF f

(* Executing a frame preserves the invariant.                              *)
LEMMA ExecuteIInv ==
  ASSUME IInv, NEW p \in Player, ExecuteFrame(p)
  PROVE  IInv'
<1> DEFINE list == FrameCommandList(p)
<1>1. /\ localStatus[p] = "INGAME" /\ lastFrame[p] = frame[p] /\ AllCommandsReady(p)
      /\ executed' = [executed EXCEPT ![p] = Append(executed[p], list)]
      /\ runAhead' = [runAhead EXCEPT ![p] = RunAheadAfter(p, list)]
      /\ frameData' = [frameData EXCEPT ![p] =
                         [q \in Player |-> RingExecuted(frameData[p][q], p = q, frame[p])]]
      /\ frame' = [frame EXCEPT ![p] = frame[p] + 1]
      /\ localStatus' = localStatus /\ lastExecutionFrame' = lastExecutionFrame
      /\ lastFrameCompleted' = lastFrameCompleted /\ lastFrame' = lastFrame
      /\ nextID' = nextID /\ net' = net /\ late' = late /\ issued' = issued
  BY DEF ExecuteFrame
<1>2. TypeOK /\ Clock /\ Behind /\ Issuance /\ Numbered /\ Reached /\ Messages /\ Rings /\ History
  BY DEF IInv
<1>3. /\ frame[p] >= 1
      /\ \A q \in Player : frame[p] <= lastFrameCompleted[q]
      /\ list = {c \in issued : c.frame = frame[p]}
  BY <1>1, ReadyFacts
<1>4. /\ frame \in [Player -> Nat] /\ frame'[p] = frame[p] + 1 /\ frame[p] \in Nat
      /\ \A q \in Player : q # p => frame'[q] = frame[q]
  BY <1>1, <1>2 DEF TypeOK
<1>5. /\ Rings' /\ frameData' \in [Player -> [Player -> [Indices -> FrameDataType(Cmd)]]]
  BY <1>1, ShiftRings
<1>6. TypeOK'
  <2>1. list \in SUBSET issued /\ list \in SUBSET Cmd
    BY <1>2, <1>3 DEF TypeOK
  <2> HIDE DEF list
  <2>2. RunAheadAfter(p, list) \in MIN_RUNAHEAD .. MAX_RUNAHEAD
    BY <1>2, <2>1, RunAheadType
  <2>3. runAhead' \in [Player -> MIN_RUNAHEAD .. MAX_RUNAHEAD]
    BY <1>1, <1>2, <2>2 DEF TypeOK
  <2>4. executed' \in [Player -> Seq(SUBSET Cmd)]
    BY <1>1, <1>2, <2>1 DEF TypeOK
  <2>5. frame' \in [Player -> Nat]
    BY <1>1, <1>4
  <2>6. QED
    BY <1>1, <1>2, <1>5, <2>3, <2>4, <2>5 DEF TypeOK, MAX_RUNAHEAD
<1> HIDE DEF list
<1>7. Clock'
  <2>1. \A q \in Player : /\ lastExecutionFrame[q] \in Nat /\ lastFrame[q] \in Nat
                          /\ lastFrameCompleted[q] \in Nat
    BY <1>2 DEF TypeOK
  <2>2. ASSUME NEW q \in Player, q # p
        PROVE  runAhead'[q] = runAhead[q]
    BY <1>1, <1>2, <2>2 DEF TypeOK
  <2>3. QED
    BY <1>1, <1>2, <1>3, <1>4, <2>1, <2>2, Sizes DEF Clock, MAX_RUNAHEAD
<1>8. Behind'
  <2>1. lastFrameCompleted \in [Player -> Nat]
    BY <1>2 DEF TypeOK
  <2>2. ASSUME NEW a \in Player, NEW q \in Player
        PROVE  frame'[a] <= lastFrameCompleted[q] + 1
    <3>1. CASE a = p
      BY <1>3, <1>4, <2>1, <3>1
    <3>2. CASE a # p
      BY <1>2, <1>4, <3>2 DEF Behind
    <3>3. QED
      BY <3>1, <3>2
  <2>3. QED
    BY <1>1, <2>2 DEF Behind
<1>9. Issuance' /\ Numbered' /\ Reached' /\ Messages'
  <2>1. \A q, f : IssuedBy(q, f)' = IssuedBy(q, f)
    BY <1>1 DEF IssuedBy
  <2>2. Messages'
    BY <1>1, <1>2, <2>1 DEF Messages, MessageOK
  <2>3. Issuance' /\ Numbered' /\ Reached'
    BY <1>1, <1>2 DEF Issuance, Numbered, Reached, MAX_RUNAHEAD
  <2>4. QED
    BY <2>2, <2>3
<1>10. History'
  <2>1. /\ executed \in [Player -> Seq(SUBSET Cmd)] /\ executed[p] \in Seq(SUBSET Cmd)
        /\ list \in SUBSET Cmd
    BY <1>2, <1>3 DEF TypeOK
  <2>2. /\ Len(executed[p]) = frame[p] - 1
        /\ \A f \in 1 .. Len(executed[p]) : executed[p][f] = {c \in issued : c.frame = f}
    BY <1>2, <1>3, <1>4 DEF History
  <2>3. ASSUME NEW q \in Player
        PROVE  /\ Len(executed'[q]) = IF frame'[q] = 0 THEN 0 ELSE frame'[q] - 1
               /\ \A f \in 1 .. Len(executed'[q]) : executed'[q][f] = {c \in issued : c.frame = f}
    <3>1. CASE q = p
      <4>1. executed'[q] = Append(executed[p], list)
        BY <1>1, <2>1, <3>1
      <4>2. Len(executed'[q]) = frame[p]
        BY <1>4, <2>1, <2>2, <4>1
      <4>3. ASSUME NEW f \in 1 .. frame[p]
            PROVE  executed'[q][f] = {c \in issued : c.frame = f}
        <5>1. CASE f = frame[p]
          <6>1. executed'[q][f] = list
            BY <1>4, <2>1, <2>2, <4>1, <5>1
          <6>2. QED
            BY <1>3, <5>1, <6>1
        <5>2. CASE f # frame[p]
          <6>1. f \in 1 .. Len(executed[p]) /\ executed'[q][f] = executed[p][f]
            BY <1>4, <2>1, <2>2, <4>1, <5>2
          <6>2. QED
            BY <2>2, <6>1
        <5>3. QED
          BY <5>1, <5>2
      <4>4. QED
        BY <1>3, <1>4, <3>1, <4>2, <4>3
    <3>2. CASE q # p
      <4>1. executed'[q] = executed[q] /\ frame'[q] = frame[q]
        BY <1>1, <1>4, <2>1, <3>2
      <4>2. QED
        BY <1>2, <4>1 DEF History
    <3>3. QED
      BY <3>1, <3>2
  <2>4. QED
    BY <1>1, <2>3 DEF History
<1>11. QED
  BY <1>5, <1>6, <1>7, <1>8, <1>9, <1>10 DEF IInv

----------------------------------------------------------------------------
(* The theorems.                                                           *)

(* Every step preserves the invariant. *)
LEMMA NextIInv == IInv /\ [Next]_vars => IInv'
<1> SUFFICES ASSUME IInv, [Next]_vars PROVE IInv'
  OBVIOUS
<1>1. ASSUME NEW p \in Player, SendLocalGameMessage(p) PROVE IInv'
  <2>1. Issue(p, "GAMECOMMAND", 0)
    BY <1>1 DEF SendLocalGameMessage
  <2>2. QED
    BY <2>1, IssueIInv
<1>2. ASSUME NEW p \in Player, UpdateRunAhead(p) PROVE IInv'
  <2>1. PICK value \in MIN_RUNAHEAD .. MAX_RUNAHEAD : Issue(p, "RUNAHEAD", value) /\ p = Router
    BY <1>2 DEF UpdateRunAhead
  <2>2. value \in Nat
    BY Sizes
  <2>3. QED
    BY <2>1, <2>2, IssueIInv
<1>3. ASSUME NEW p \in Player, FrameTick(p) PROVE IInv'
  BY <1>3, TickIInv
<1>4. ASSUME NEW p \in Player, ReceiveNew(p) \/ ReceiveAgain(p) PROVE IInv'
  <2>1. PICK m \in net[p] \cup late[p] : \E again \in BOOLEAN : Receive(p, m, again)
    BY <1>4 DEF ReceiveNew, ReceiveAgain
  <2>2. QED
    BY <2>1, ReceiveIInv
<1>5. ASSUME NEW p \in Player, StartGame(p) PROVE IInv'
  BY <1>5, StartIInv
<1>6. ASSUME NEW p \in Player, ExecuteFrame(p) PROVE IInv'
  BY <1>6, ExecuteIInv
<1>7. CASE UNCHANGED vars
  <2>1. /\ localStatus' = localStatus /\ frame' = frame /\ runAhead' = runAhead
        /\ lastExecutionFrame' = lastExecutionFrame
        /\ lastFrameCompleted' = lastFrameCompleted /\ lastFrame' = lastFrame
        /\ nextID' = nextID /\ frameData' = frameData
        /\ net' = net /\ late' = late /\ executed' = executed /\ issued' = issued
    BY <1>7 DEF vars
  <2>2. TypeOK' /\ Clock' /\ Behind' /\ Issuance' /\ Numbered' /\ Reached' /\ History'
    <3>1. TypeOK'
      BY <2>1 DEF IInv, TypeOK
    <3>2. Clock'
      BY <2>1 DEF IInv, Clock, MAX_RUNAHEAD
    <3>3. Behind' /\ Issuance' /\ Numbered' /\ Reached' /\ History'
      BY <2>1 DEF IInv, Behind, Issuance, Numbered, Reached, History, MAX_RUNAHEAD
    <3>4. QED
      BY <3>1, <3>2, <3>3
  <2>3. \A q, f : IssuedBy(q, f)' = IssuedBy(q, f)
    BY <2>1 DEF IssuedBy
  <2>4. Messages'
    BY <2>1, <2>3 DEF IInv, Messages, MessageOK
  <2>5. \A p \in Player : Period(p)' = Period(p)
    BY <2>1 DEF Period, FRAMES_TO_KEEP, FRAME_DATA_LENGTH
  <2>6. Rings'
    BY <2>1, <2>3, <2>5 DEF IInv, Rings, Index, FRAME_DATA_LENGTH
  <2>7. QED
    BY <2>2, <2>4, <2>6 DEF IInv
<1>8. QED
  BY <1>1, <1>2, <1>3, <1>4, <1>5, <1>6, <1>7 DEF Next

(* What every record stands for holds in every reachable state.            *)
THEOREM Invariance == Spec => []IInv
<1>1. Init => IInv
  BY InitIInv
<1>2. IInv /\ [Next]_vars => IInv'
  BY NextIInv
<1>3. QED
  BY <1>1, <1>2, PTL DEF Spec

(* Counters, records and messages keep their types: in particular every    *)
(* count a record holds and every run ahead stays in its range.            *)
THEOREM TypeCorrect == Spec => []TypeOK
<1>1. IInv => TypeOK
  BY DEF IInv
<1>2. QED
  BY <1>1, Invariance, PTL

(* No desync: whatever was delayed, repeated or reordered, every player    *)
(* has executed in each frame exactly the commands issued for it.          *)
THEOREM NoDesync == Spec => []SameCommandsEverywhere
<1>1. IInv => SameCommandsEverywhere
  BY DEF IInv, History, SameCommandsEverywhere
<1>2. QED
  BY <1>1, Invariance, PTL

(* A command count once announced (FRAMEINFO) is never outgrown.           *)
THEOREM CountsHold == Spec => []AnnouncedCountsHold
<1>1. IInv => AnnouncedCountsHold
  <2> SUFFICES ASSUME IInv PROVE AnnouncedCountsHold
    OBVIOUS
  <2>1. ASSUME NEW p \in Player, NEW m \in net[p] \cup late[p], m.cmd.type = "FRAMEINFO"
        PROVE  m.cmd.value = Cardinality(IssuedBy(m.cmd.player, m.cmd.frame))
    BY <2>1 DEF IInv, Messages, MessageOK
  <2>2. ASSUME NEW p \in Player, localStatus[p] = "INGAME"
        PROVE  ExecutionFrame(p) > lastFrameCompleted[p]
    BY <2>2, ExecutionFrameBounds DEF IInv
  <2>3. QED
    BY <2>1, <2>2 DEF AnnouncedCountsHold
<1>2. QED
  BY <1>1, Invariance, PTL

(* The RESEND answer of allCommandsReady is never given: no record ever    *)
(* holds more commands than were announced.                                *)
THEOREM NoResend == Spec => []NeverResend
<1>1. IInv => NeverResend
  <2> SUFFICES ASSUME IInv, NEW p \in Player, NEW q \in Player, NEW i \in Indices
               PROVE  ~NeedsResend(frameData[p][q][i])
    BY DEF NeverResend
  <2>1. TypeOK /\ Rings /\ Issuance /\ frame[p] - FRAMES_TO_KEEP \in Int
    <3>1. TypeOK /\ Rings /\ Issuance
      BY DEF IInv
    <3>2. frame[p] \in Nat
      BY <3>1 DEF TypeOK
    <3>3. QED
      BY <3>1, <3>2, Sizes
  <2>2. PICK f \in Period(p) : Index(f) = i
    BY <2>1, IndexCovers DEF Period
  <2> DEFINE fd == frameData[p][q][i]
             cmds == IssuedBy(q, f)
  <2>3. /\ Accurate(p = q, cmds, lastFrameCompleted[q], f, fd)
        /\ fd \in FrameDataType(Cmd)
        /\ IsFiniteSet(cmds)
    BY <2>1, <2>2, RecordTypes, IssuedFinite DEF Rings
  <2> HIDE DEF fd, cmds
  <2>4. CASE p = q
    BY <2>3, <2>4 DEF Accurate, NeedsResend, FrameDataType, fd
  <2>5. CASE p # q
    <3>1. Cardinality(fd.commandList) <= Cardinality(cmds)
      BY <2>3, FS_Subset DEF Accurate
    <3>2. fd.commandCount = Cardinality(fd.commandList) /\ fd.commandCount \in Nat
      BY <2>3 DEF Accurate, FrameDataType
    <3>3. fd.frameCommandCount # Unknown => fd.frameCommandCount = Cardinality(cmds)
      BY <2>3, <2>5 DEF Accurate
    <3>4. ~NeedsResend(fd)
      BY <2>3, <3>1, <3>2, <3>3 DEF NeedsResend, FrameDataType, Unknown
    <3>5. QED
      BY <3>4 DEF fd
  <2>6. QED
    BY <2>4, <2>5
<1>2. QED
  BY <1>1, Invariance, PTL

(* Whatever can still arrive is for a frame the rings have a record for.   *)
THEOREM InsideTheRing == Spec => []WithinTheRing
<1>1. IInv => WithinTheRing
  <2> SUFFICES ASSUME IInv, NEW p \in Player, NEW m \in net[p] \cup late[p]
               PROVE  m.cmd.frame <= frame[p] + MAX_FRAMES_AHEAD + 1
    BY DEF WithinTheRing
  <2>1. TypeOK /\ frame[p] \in Nat
    BY DEF IInv, TypeOK
  <2>2. m.cmd.frame \in Int /\ m.cmd.frame <= frame[p] + 2 * MAX_RUNAHEAD
    BY ReceivedInPeriod
  <2>3. QED
    BY <2>1, <2>2, Sizes
<1>2. QED
  BY <1>1, Invariance, PTL

(* No player is more than the largest run ahead in front of another.       *)
THEOREM NobodyRunsAway == Spec => []BoundedLead
<1>1. IInv => BoundedLead
  BY Lead DEF IInv, BoundedLead
<1>2. QED
  BY <1>1, Invariance, PTL

(* The network keeps its promise: a player that gives a command adds to    *)
(* the script, a player that executes a frame plays it, and nothing else   *)
(* shows.                                                                  *)
THEOREM PromiseKept == Spec => KeepsThePromise
<1>1. Init => Game!Init
  BY DEF Init, Game!Init
<1>2. IInv /\ [Next]_vars => [Game!Next]_(Game!vars)
  <2> SUFFICES ASSUME IInv, [Next]_vars
               PROVE  Game!Next \/ UNCHANGED <<issued, executed>>
    BY DEF Game!vars
  <2>1. /\ TypeOK /\ Clock /\ Behind /\ History
        /\ executed \in [Player -> Seq(SUBSET Cmd)]
        /\ \A q \in Player : /\ frame[q] \in Nat /\ lastFrameCompleted[q] \in Nat
                             /\ localStatus[q] \in {"PREGAME", "INGAME"}
                             /\ Len(executed[q]) \in Nat
                             /\ frame[q] = 0 => Len(executed[q]) = 0
                             /\ frame[q] # 0 => Len(executed[q]) = frame[q] - 1
    BY DEF IInv, TypeOK, History
  <2>2. ASSUME NEW p \in Player, NEW type \in {"GAMECOMMAND", "RUNAHEAD"}, NEW value \in Nat,
               Issue(p, type, value)
        PROVE  Game!Next
    <3> DEFINE cmd == Synchronized(type, p, nextID[p], ExecutionFrame(p), value)
    <3>1. /\ issued' = issued \cup {cmd} /\ cmd.frame = ExecutionFrame(p)
          /\ ExecutionFrame(p) \in Nat
          /\ \A q \in Player : ExecutionFrame(p) >= frame[q]
      BY <2>2, IssueFacts
    <3>2. executed' = executed
      BY <2>2 DEF Issue
    <3>3. ExecutionFrame(p) >= 1
      BY <2>1, <3>1, ExecutionFrameBounds
    <3> HIDE DEF cmd
    <3>4. \A c \in issued' \ issued : \A q \in Player : c.frame > Len(executed[q])
      BY <2>1, <3>1, <3>3
    <3>5. QED
      BY <3>1, <3>2, <3>4 DEF Game!Next, Game!Schedule
  <2>3. ASSUME NEW p \in Player, ExecuteFrame(p)
        PROVE  Game!Next
    <3>1. /\ localStatus[p] = "INGAME" /\ lastFrame[p] = frame[p] /\ AllCommandsReady(p)
          /\ executed' = [executed EXCEPT ![p] = Append(executed[p], FrameCommandList(p))]
          /\ issued' = issued
      BY <2>3 DEF ExecuteFrame
    <3>2. /\ frame[p] >= 1
          /\ \A q \in Player : frame[p] <= lastFrameCompleted[q]
          /\ FrameCommandList(p) = {c \in issued : c.frame = frame[p]}
      BY <3>1, ReadyFacts
    <3>3. Len(executed[p]) + 1 = frame[p]
      BY <2>1, <3>2
    <3>4. ASSUME NEW q \in Player
          PROVE  Len(executed[p]) < Len(executed[q]) + MAX_RUNAHEAD
      <4>1. CASE frame[q] = 0
        <5>1. localStatus[q] = "PREGAME"
          BY <2>1, <4>1 DEF Clock
        <5>2. lastFrameCompleted[q] = InitialRunAhead - 1
          BY <5>1, <2>1 DEF Clock
        <5>3. QED
          BY <2>1, <3>2, <3>3, <4>1, <5>2, Sizes
      <4>2. CASE frame[q] # 0
        <5>1. lastFrameCompleted[q] < frame[q] + MAX_RUNAHEAD
          BY <2>1, Lead
        <5>2. QED
          BY <2>1, <3>2, <3>3, <4>2, <5>1, Sizes
      <4>3. QED
        BY <4>1, <4>2
    <3>5. Game!Scene(Len(executed[p]) + 1) = FrameCommandList(p)
      BY <3>2, <3>3 DEF Game!Scene
    <3>6. Game!Play(p)
      BY <3>1, <3>4, <3>5 DEF Game!Play
    <3>7. QED
      BY <3>6 DEF Game!Next
  <2>4. ASSUME NEW p \in Player, SendLocalGameMessage(p) PROVE Game!Next
    BY <2>2, <2>4 DEF SendLocalGameMessage
  <2>5. ASSUME NEW p \in Player, UpdateRunAhead(p) PROVE Game!Next
    <3>1. PICK value \in MIN_RUNAHEAD .. MAX_RUNAHEAD : Issue(p, "RUNAHEAD", value)
      BY <2>5 DEF UpdateRunAhead
    <3>2. value \in Nat
      BY Sizes
    <3>3. QED
      BY <2>2, <3>1, <3>2
  <2>6. ASSUME NEW p \in Player,
               FrameTick(p) \/ ReceiveNew(p) \/ ReceiveAgain(p) \/ StartGame(p)
        PROVE  UNCHANGED <<issued, executed>>
    BY <2>6 DEF FrameTick, ReceiveNew, ReceiveAgain, Receive, StartGame
  <2>7. CASE UNCHANGED vars
    BY <2>7 DEF vars
  <2>8. QED
    BY <2>3, <2>4, <2>5, <2>6, <2>7 DEF Next
<1>3. QED
  BY <1>1, <1>2, Invariance, PTL DEF Spec, KeepsThePromise, Game!Spec

----------------------------------------------------------------------------
(* The run ahead.                                                          *)

Changes(f) == {c \in issued : c.frame = f /\ c.type = "RUNAHEAD"}
Changed(n) == {f \in 1 .. n - 1 : Changes(f) # {}}
Last(changes) == CHOOSE c \in changes : \A d \in changes : d.id <= c.id

(* A player's run ahead is the last one commanded for a frame it executed. *)
RunAheads ==
  \A p \in Player :
    /\ Changed(frame[p]) = {} => runAhead[p] = InitialRunAhead
    /\ \A f \in Changed(frame[p]) :
         (\A g \in Changed(frame[p]) : g <= f) => runAhead[p] = Last(Changes(f)).value

(* It stays so when no command is issued for a frame already executed and  *)
(* nobody executes one.                                                    *)
LEMMA RunAheadsKept ==
  ASSUME TypeOK, RunAheads, frame' = frame, runAhead' = runAhead, issued \subseteq issued',
         \A c \in issued' \ issued : \A p \in Player : c.frame \in Nat /\ c.frame >= frame[p]
  PROVE  RunAheads'
<1> SUFFICES ASSUME NEW p \in Player
             PROVE  /\ Changed(frame[p])' = {} => runAhead[p] = InitialRunAhead
                    /\ \A f \in Changed(frame[p])' :
                         (\A g \in Changed(frame[p])' : g <= f) =>
                           runAhead[p] = Last(Changes(f)').value
  BY DEF RunAheads, Last
<1>1. frame[p] \in Nat
  BY DEF TypeOK
<1>2. ASSUME NEW f \in 1 .. frame[p] - 1 PROVE Changes(f)' = Changes(f)
  BY <1>1 DEF Changes
<1>3. Changed(frame[p])' = Changed(frame[p])
  BY <1>2 DEF Changed
<1>4. \A f \in Changed(frame[p]) : Changes(f)' = Changes(f)
  BY <1>2 DEF Changed
<1>5. QED
  BY <1>3, <1>4 DEF RunAheads

(* Executing a frame takes over the run ahead commanded for it, if any.    *)
LEMMA RunAheadsExecute ==
  ASSUME IInv, RunAheads, NEW p \in Player, ExecuteFrame(p)
  PROVE  RunAheads'
<1> DEFINE n == frame[p]
           list == FrameCommandList(p)
<1>1. /\ localStatus[p] = "INGAME" /\ lastFrame[p] = frame[p] /\ AllCommandsReady(p)
      /\ runAhead' = [runAhead EXCEPT ![p] = RunAheadAfter(p, list)]
      /\ frame' = [frame EXCEPT ![p] = n + 1]
      /\ issued' = issued
  BY DEF ExecuteFrame
<1>2. n >= 1 /\ list = {c \in issued : c.frame = n}
  BY <1>1, ReadyFacts
<1>3. /\ n \in Nat /\ frame'[p] = n + 1 /\ runAhead'[p] = RunAheadAfter(p, list)
      /\ \A q \in Player : q # p => frame'[q] = frame[q] /\ runAhead'[q] = runAhead[q]
  BY <1>1 DEF IInv, TypeOK
<1>4. {c \in list : c.type = "RUNAHEAD"} = Changes(n)
  BY <1>2 DEF Changes
<1>5. runAhead'[p] = IF Changes(n) = {} THEN runAhead[p] ELSE Last(Changes(n)).value
  BY <1>3, <1>4 DEF RunAheadAfter, Last
<1>6. /\ Changed(n + 1) = IF Changes(n) = {} THEN Changed(n) ELSE Changed(n) \cup {n}
      /\ \A g \in Changed(n) : g \in Int /\ g < n
  <2>1. 1 .. (n + 1) - 1 = (1 .. n - 1) \cup {n}
    BY <1>2, <1>3
  <2>2. \A g \in 1 .. n - 1 : g \in Int /\ g < n
    BY <1>3
  <2>3. QED
    BY <2>1, <2>2 DEF Changed
<1>7. /\ Changed(n) = {} => runAhead[p] = InitialRunAhead
      /\ \A f \in Changed(n) :
           (\A g \in Changed(n) : g <= f) => runAhead[p] = Last(Changes(f)).value
  BY DEF RunAheads
<1> HIDE DEF n, list
<1>8. /\ Changed(n + 1) = {} => runAhead'[p] = InitialRunAhead
      /\ \A f \in Changed(n + 1) :
           (\A g \in Changed(n + 1) : g <= f) => runAhead'[p] = Last(Changes(f)).value
  <2>1. CASE Changes(n) = {}
    BY <1>5, <1>6, <1>7, <2>1
  <2>2. CASE Changes(n) # {}
    <3>1. Changed(n + 1) = Changed(n) \cup {n} /\ runAhead'[p] = Last(Changes(n)).value
      BY <1>5, <1>6, <2>2
    <3>2. ASSUME NEW f \in Changed(n + 1), \A g \in Changed(n + 1) : g <= f
          PROVE  f = n
      BY <1>3, <1>6, <3>1, <3>2
    <3>3. QED
      BY <3>1, <3>2
  <2>3. QED
    BY <2>1, <2>2
<1>9. \A f : Changes(f)' = Changes(f)
  BY <1>1 DEF Changes
<1>10. \A m : Changed(m)' = Changed(m)
  BY <1>9 DEF Changed
<1>11. ASSUME NEW q \in Player
       PROVE  /\ Changed(frame'[q]) = {} => runAhead'[q] = InitialRunAhead
              /\ \A f \in Changed(frame'[q]) :
                   (\A g \in Changed(frame'[q]) : g <= f) =>
                     runAhead'[q] = Last(Changes(f)).value
  <2>1. CASE q = p
    BY <1>3, <1>8, <2>1
  <2>2. CASE q # p
    BY <1>3, <2>2 DEF RunAheads
  <2>3. QED
    BY <2>1, <2>2
<1>12. QED
  <2>1. \A q \in Player : Changed(frame[q])' = Changed(frame'[q])
    BY <1>9 DEF Changed
  <2>2. QED
    BY <1>9, <1>11, <2>1 DEF RunAheads, Last

(* Players about to execute the same frame have the same run ahead, so     *)
(* they schedule their next commands for the same frame.                   *)
THEOREM RunAheadAgreed == Spec => []SameRunAhead
<1>1. Init => RunAheads
  <2> SUFFICES ASSUME Init, NEW p \in Player
               PROVE  Changed(frame[p]) = {} /\ runAhead[p] = InitialRunAhead
    BY DEF RunAheads
  <2>1. QED
    BY DEF Init, Changed
<1>2. IInv /\ RunAheads /\ [Next]_vars => RunAheads'
  <2> SUFFICES ASSUME IInv, RunAheads, [Next]_vars PROVE RunAheads'
    OBVIOUS
  <2>1. TypeOK
    BY DEF IInv
  <2>2. ASSUME NEW p \in Player, NEW type \in {"GAMECOMMAND", "RUNAHEAD"}, NEW value \in Nat,
               Issue(p, type, value)
        PROVE  RunAheads'
    <3> DEFINE cmd == Synchronized(type, p, nextID[p], ExecutionFrame(p), value)
    <3>1. /\ issued' = issued \cup {cmd} /\ cmd.frame = ExecutionFrame(p)
          /\ ExecutionFrame(p) \in Nat
          /\ \A q \in Player : ExecutionFrame(p) >= frame[q]
      BY <2>2, IssueFacts
    <3>2. frame' = frame /\ runAhead' = runAhead
      BY <2>2 DEF Issue
    <3> HIDE DEF cmd
    <3>3. QED
      BY <2>1, <3>1, <3>2, RunAheadsKept
  <2>3. ASSUME NEW p \in Player, UpdateRunAhead(p) PROVE RunAheads'
    <3>1. PICK value \in MIN_RUNAHEAD .. MAX_RUNAHEAD : Issue(p, "RUNAHEAD", value)
      BY <2>3 DEF UpdateRunAhead
    <3>2. value \in Nat
      BY Sizes
    <3>3. QED
      BY <2>2, <3>1, <3>2
  <2>4. ASSUME NEW p \in Player, SendLocalGameMessage(p) PROVE RunAheads'
    BY <2>2, <2>4 DEF SendLocalGameMessage
  <2>5. ASSUME NEW p \in Player, FrameTick(p) \/ ReceiveNew(p) \/ ReceiveAgain(p)
        PROVE  RunAheads'
    <3>1. frame' = frame /\ runAhead' = runAhead /\ issued' = issued
      BY <2>5 DEF FrameTick, ReceiveNew, ReceiveAgain, Receive
    <3>2. QED
      BY <2>1, <3>1, RunAheadsKept
  <2>6. ASSUME NEW p \in Player, StartGame(p) PROVE RunAheads'
    <3>1. /\ frame[p] = 0 /\ frame' = [frame EXCEPT ![p] = 1]
          /\ runAhead' = runAhead /\ issued' = issued
      BY <2>6 DEF StartGame
    <3>2. \A f : Changes(f)' = Changes(f)
      BY <3>1 DEF Changes
    <3>3. Changed(0) = {} /\ Changed(1) = {}
      BY DEF Changed
    <3>4. ASSUME NEW q \in Player PROVE Changed(frame[q])' = Changed(frame[q])
      <4>1. Changed(frame[q])' = Changed(frame'[q])
        BY <3>2 DEF Changed
      <4>2. frame'[q] = IF q = p THEN 1 ELSE frame[q]
        BY <2>1, <3>1 DEF TypeOK
      <4>3. QED
        BY <3>1, <3>3, <4>1, <4>2
    <3>5. QED
      BY <3>1, <3>2, <3>4 DEF RunAheads, Last
  <2>7. ASSUME NEW p \in Player, ExecuteFrame(p) PROVE RunAheads'
    BY <2>7, RunAheadsExecute
  <2>8. CASE UNCHANGED vars
    <3>1. frame' = frame /\ runAhead' = runAhead /\ issued' = issued
      BY <2>8 DEF vars
    <3>2. QED
      BY <2>1, <3>1, RunAheadsKept
  <2>9. QED
    BY <2>3, <2>4, <2>5, <2>6, <2>7, <2>8 DEF Next
<1>3. TypeOK /\ RunAheads => SameRunAhead
  <2> SUFFICES ASSUME TypeOK, RunAheads, NEW p \in Player, NEW q \in Player, frame[p] = frame[q]
               PROVE  runAhead[p] = runAhead[q]
    BY DEF SameRunAhead
  <2> DEFINE n == frame[p]
  <2>1. n \in Nat
    BY DEF TypeOK
  <2>2. CASE Changed(n) = {}
    BY <2>2 DEF RunAheads
  <2>3. CASE Changed(n) # {}
    <3> DEFINE T == {n - f : f \in Changed(n)}
    <3>1. \A f \in Changed(n) : f \in Int /\ n - f \in Nat
      BY <2>1 DEF Changed
    <3>2. PICK x \in T : \A y \in T : x <= y
      BY <2>3, <3>1, LeastNat
    <3>3. PICK f \in Changed(n) : x = n - f
      OBVIOUS
    <3>4. ASSUME NEW g \in Changed(n) PROVE g <= f
      <4>1. n - f <= n - g
        BY <3>2, <3>3
      <4>2. QED
        BY <2>1, <3>1, <4>1
    <3>5. QED
      BY <3>4 DEF RunAheads
  <2>4. QED
    BY <2>2, <2>3
<1>4. IInv => TypeOK
  BY DEF IInv
<1>5. QED
  BY <1>1, <1>2, <1>3, <1>4, Invariance, PTL DEF Spec

----------------------------------------------------------------------------
(* Nobody waits in vain.  What is under way is kept track of command by    *)
(* command: whatever somebody has sent for a frame p has yet to execute is *)
(* in p's records, or on its way to p or to the router.  For that the      *)
(* router must never drop a message that arrives for the first time, and   *)
(* it does not: it cannot have executed a frame without it.                *)

(* The router's messages have their one receiver; the others' messages are *)
(* for everybody but their sender.                                         *)
AddressedTo(p, m) == m.relay = IF p = Router THEN Player \ {m.cmd.player} ELSE {p}
Addressed == \A p \in Player : \A m \in net[p] \cup late[p] : AddressedTo(p, m)

(* p has in its records what c says.                                       *)
TakenIn(p, c) ==
  IF c.type = "FRAMEINFO"
  THEN frameData[p][c.player][Index(c.frame)].frameCommandCount # Unknown
  ELSE c \in frameData[p][c.player][Index(c.frame)].commandList

(* What comes to the router for the first time is news to it.              *)
FirstTime ==
  \A m \in net[Router] :
    frame[Router] <= m.cmd.frame /\ m \notin late[Router] /\ ~TakenIn(Router, m.cmd)

(* What has been sent: the commands, and the counts of completed frames.   *)
WasSent(c) ==
  c \in issued \/ (/\ c \in FrameInfo /\ 1 <= c.frame /\ c.frame <= lastFrameCompleted[c.player]
                   /\ c.value = Cardinality(IssuedBy(c.player, c.frame)))

Coming(p, c) == \E m \in net[p] \cup net[Router] : m.cmd = c /\ p \in m.relay

Onward ==
  \A p \in Player : \A c \in Cmd \cup FrameInfo :
    WasSent(c) /\ c.player # p /\ frame[p] <= c.frame => TakenIn(p, c) \/ Coming(p, c)

OnwardInv == Addressed /\ FirstTime /\ Onward

(* Synchronized commands are records.                                      *)
LEMMA Commands ==
  /\ \A c \in Cmd \cup FrameInfo : c.player \in Player /\ c.frame \in Nat /\ c.value \in Nat
  /\ \A c \in FrameInfo : c.type = "FRAMEINFO"
  /\ \A c \in Cmd : c.type # "FRAMEINFO"
  /\ \A b, c \in FrameInfo : b.player = c.player /\ b.frame = c.frame /\ b.value = c.value => b = c
  /\ \A m, n \in Message : m.cmd = n.cmd /\ m.relay = n.relay => m = n
  /\ \A m \in Message : m.cmd \in Cmd \cup FrameInfo /\ m.relay \subseteq Player
BY DEF Cmd, FrameInfo, Message

(* Initially nothing is under way, and the counts of the first frames are  *)
(* known.                                                                  *)
LEMMA InitOnward == Init => OnwardInv
<1> SUFFICES ASSUME Init PROVE OnwardInv
  OBVIOUS
<1>1. /\ issued = {} /\ Router \in Player
      /\ \A p \in Player : /\ net[p] = {} /\ late[p] = {} /\ frame[p] = 0
                           /\ lastFrameCompleted[p] = InitialRunAhead - 1
  BY PlayerAssumption DEF Init
<1>2. Addressed /\ FirstTime
  BY <1>1 DEF Addressed, FirstTime
<1>3. ASSUME NEW p \in Player, NEW c \in Cmd \cup FrameInfo, WasSent(c)
      PROVE  TakenIn(p, c)
  <2>1. c \in FrameInfo /\ 1 <= c.frame /\ c.frame <= InitialRunAhead - 1
    BY <1>1, <1>3, Commands DEF WasSent
  <2>2. c.type = "FRAMEINFO" /\ c.player \in Player /\ c.frame \in Nat /\ Index(c.frame) \in Indices
    BY <2>1, Commands, IndexType
  <2> DEFINE s == c.player
             f == c.frame
             blank == SettleLocal(p = s, EmptyFrame)
  <2>3. frameData[p][s][Index(f)] = ZeroFrame(blank)
    <3>1. frameData[p][s] = StartRing(p = s, InitialRunAhead)
      BY <2>2 DEF Init
    <3>2. (p = s) \in BOOLEAN /\ InitialRunAhead \in Nat \ {0} /\ Index(f) \in Indices
      BY <2>2, Sizes
    <3>3. StartRing(p = s, InitialRunAhead)[Index(f)] =
            IF \E k \in 0 .. (InitialRunAhead - 1) - 1 : Index(f) = Index(1 + k)
            THEN ZeroFrame(blank) ELSE blank
      BY <3>2, StartRecords, Zenon
    <3>4. f - 1 \in 0 .. (InitialRunAhead - 1) - 1 /\ 1 + (f - 1) = f
      BY <2>1, <2>2, Sizes
    <3> HIDE DEF f, s, blank
    <3> QED
      BY <3>1, <3>3, <3>4
  <2>4. ZeroFrame(blank).frameCommandCount = 0
    BY EmptyType, ZeroType
  <2> HIDE DEF blank
  <2> QED
    BY <2>2, <2>3, <2>4 DEF TakenIn, Unknown
<1> QED
  BY <1>2, <1>3 DEF OnwardInv, Onward

(* A record that is not changed holds what it has held.                    *)
LEMMA TakenInKept ==
  ASSUME NEW p \in Player, NEW c, frameData'[p][c.player] = frameData[p][c.player]
  PROVE  TakenIn(p, c)' <=> TakenIn(p, c)
BY DEF TakenIn, Index, FRAME_DATA_LENGTH

(* Sending what is new, to everybody.                                      *)
LEMMA SendOnward ==
  ASSUME IInv, OnwardInv, NEW p \in Player, NEW cmds \in SUBSET (Cmd \cup FrameInfo),
         net' = [q \in Player |-> net[q] \cup SentTo(p, q, cmds)],
         UNCHANGED <<frame, late>>,
         \A q, s \in Player : q # s => frameData'[q][s] = frameData[q][s],
         \A c \in cmds : /\ c.player = p /\ frame[Router] <= c.frame
                         /\ \A m \in late[Router] : m.cmd # c
                         /\ p # Router => ~TakenIn(Router, c),
         \A c \in Cmd \cup FrameInfo : WasSent(c)' => WasSent(c) \/ c \in cmds
  PROVE  OnwardInv'
<1>1. /\ TypeOK /\ Messages /\ Addressed /\ FirstTime /\ Onward
      /\ net \in [Player -> SUBSET Message] /\ Router \in Player
  BY PlayerAssumption DEF IInv, OnwardInv, TypeOK
<1>2. ASSUME NEW q \in Player, NEW m \in SentTo(p, q, cmds)
      PROVE  /\ m.cmd \in cmds /\ AddressedTo(q, m) /\ q # p /\ (q = Router => p # Router)
  <2>1. m.cmd \in cmds /\ q # p
    BY SentMessages
  <2>2. CASE p = Router
    <3>1. m.relay = {q}
      BY <2>1, <2>2 DEF SentTo
    <3> QED
      BY <2>1, <2>2, <3>1 DEF AddressedTo
  <2>3. CASE p # Router
    <3>1. q = Router /\ m.relay = Player \ {p}
      BY <2>1, <2>3 DEF SentTo
    <3>2. m.cmd.player = p
      BY <2>1
    <3> QED
      BY <2>1, <2>3, <3>1, <3>2 DEF AddressedTo
  <2> QED
    BY <2>2, <2>3
<1>3. Addressed'
  <2>1. ASSUME NEW q \in Player, NEW m \in net'[q] \cup late[q] PROVE AddressedTo(q, m)
    <3>1. m \in net[q] \cup late[q] \/ m \in SentTo(p, q, cmds)
      OBVIOUS
    <3> QED
      BY <1>1, <1>2, <3>1 DEF Addressed
  <2> QED
    BY <2>1 DEF Addressed, AddressedTo
<1>4. FirstTime'
  <2> SUFFICES ASSUME NEW m \in net'[Router]
               PROVE  frame[Router] <= m.cmd.frame /\ m \notin late[Router] /\ ~TakenIn(Router, m.cmd)'
    BY DEF FirstTime
  <2>1. CASE m \in net[Router]
    <3>1. m.cmd.player \in Player /\ m.cmd.player # Router
      BY <1>1, <2>1, Commands DEF Messages, MessageOK
    <3>2. TakenIn(Router, m.cmd)' <=> TakenIn(Router, m.cmd)
      BY <1>1, <3>1, TakenInKept
    <3> QED
      BY <1>1, <2>1, <3>2 DEF FirstTime
  <2>2. CASE m \in SentTo(p, Router, cmds)
    <3>1. m.cmd \in cmds /\ p # Router /\ m.cmd.player = p
      BY <1>1, <1>2, <2>2
    <3>2. TakenIn(Router, m.cmd)' <=> TakenIn(Router, m.cmd)
      BY <1>1, <3>1, TakenInKept
    <3> QED
      BY <3>1, <3>2
  <2> QED
    BY <1>1, <2>1, <2>2
<1>5. Onward'
  <2> SUFFICES ASSUME NEW q \in Player, NEW c \in Cmd \cup FrameInfo, WasSent(c)', c.player # q,
                      frame[q] <= c.frame
               PROVE  TakenIn(q, c)' \/ Coming(q, c)'
    BY DEF Onward
  <2>1. CASE WasSent(c)
    <3>1. TakenIn(q, c) \/ Coming(q, c)
      BY <1>1, <2>1 DEF Onward
    <3>2. TakenIn(q, c) => TakenIn(q, c)'
      BY Commands, TakenInKept
    <3>3. Coming(q, c) => Coming(q, c)'
      BY <1>1 DEF Coming
    <3> QED
      BY <3>1, <3>2, <3>3
  <2>2. CASE c \in cmds
    <3>1. c.player = p /\ q # p
      BY <2>2
    <3>2. CASE p = Router
      <4> DEFINE m == [cmd |-> c, relay |-> {q}]
      <4>1. m \in SentTo(p, q, cmds)
        BY <2>2, <3>1, <3>2 DEF SentTo
      <4>2. m \in net'[q] /\ m.cmd = c /\ q \in m.relay
        BY <4>1
      <4> HIDE DEF m
      <4> QED
        BY <4>2 DEF Coming
    <3>3. CASE p # Router
      <4> DEFINE m == [cmd |-> c, relay |-> Player \ {p}]
      <4>1. m \in SentTo(p, Router, cmds)
        BY <2>2, <3>3 DEF SentTo
      <4>2. m \in net'[Router] /\ m.cmd = c /\ q \in m.relay
        BY <1>1, <3>1, <4>1
      <4> HIDE DEF m
      <4> QED
        BY <4>2 DEF Coming
    <3> QED
      BY <3>2, <3>3
  <2> QED
    BY <2>1, <2>2
<1> QED
  BY <1>3, <1>4, <1>5 DEF OnwardInv

(* Giving a command sends it.                                              *)
LEMMA IssueOnward ==
  ASSUME IInv, OnwardInv, NEW p \in Player, NEW type \in {"GAMECOMMAND", "RUNAHEAD"}, NEW value \in Nat,
         Issue(p, type, value)
  PROVE  OnwardInv'
<1> DEFINE cmd == Synchronized(type, p, nextID[p], ExecutionFrame(p), value)
<1>1. /\ TypeOK /\ Messages /\ Rings /\ Numbered /\ Clock /\ Behind /\ Router \in Player
      /\ frame[Router] \in Nat /\ nextID[p] \in Nat /\ frame[p] \in Nat
  BY PlayerAssumption DEF IInv, TypeOK
<1>2. /\ net' = [q \in Player |-> net[q] \cup SentTo(p, q, {cmd})]
      /\ UNCHANGED <<frame, late, lastFrameCompleted>>
      /\ frameData' = [frameData EXCEPT ![p][p] = RingAdd(frameData[p][p], TRUE, cmd.frame, cmd)]
      /\ localStatus[p] = "INGAME" /\ cmd.id = nextID[p]
  BY DEF Issue, SendLocal, Synchronized
<1> HIDE DEF cmd
<1>3. /\ cmd \in Cmd /\ cmd.player = p /\ cmd.frame = ExecutionFrame(p) /\ cmd.type # "FRAMEINFO"
      /\ cmd.frame \in Nat /\ frame[Router] <= cmd.frame /\ ExecutionFrame(p) > lastFrameCompleted[p]
      /\ issued' = issued \cup {cmd}
      /\ \A q, f : IssuedBy(q, f)' = IF q = p /\ f = ExecutionFrame(p)
                                     THEN IssuedBy(q, f) \cup {cmd} ELSE IssuedBy(q, f)
  BY <1>1, IssueFacts DEF cmd
<1>4. cmd \notin issued
  <2>1. ASSUME cmd \in issued PROVE cmd.id < nextID[cmd.player]
    BY <1>1, <2>1 DEF Numbered
  <2> QED
    BY <1>1, <1>2, <1>3, <2>1
<1>5. \A m \in late[Router] : m.cmd # cmd
  BY <1>1, <1>3, <1>4 DEF Messages, MessageOK
<1>6. p # Router => ~TakenIn(Router, cmd)
  <2>1. cmd.frame \in Period(Router)
    BY <1>1, <1>3, Lead, PeriodRecords
  <2>2. frameData[Router][p][Index(cmd.frame)].commandList \subseteq IssuedBy(p, cmd.frame)
    BY <1>1, <2>1 DEF Rings, Accurate
  <2> QED
    BY <1>3, <1>4, <2>2 DEF TakenIn, IssuedBy
<1>7. \A q, s \in Player : q # s => frameData'[q][s] = frameData[q][s]
  BY <1>1, <1>2, RecordTypes
<1>8. ASSUME NEW c \in Cmd \cup FrameInfo, WasSent(c)' PROVE WasSent(c) \/ c \in {cmd}
  <2>1. CASE c \in issued'
    BY <1>3, <2>1 DEF WasSent
  <2>2. CASE c \notin issued'
    <3>1. /\ c \in FrameInfo /\ 1 <= c.frame /\ c.frame <= lastFrameCompleted[c.player]
          /\ c.value = Cardinality(IssuedBy(c.player, c.frame)')
      BY <1>2, <1>8, <2>2 DEF WasSent
    <3>2. lastFrameCompleted[c.player] \in Nat /\ c.frame \in Nat /\ ExecutionFrame(p) \in Nat
      BY <1>1, <1>3, Commands DEF TypeOK
    <3>3. IssuedBy(c.player, c.frame)' = IssuedBy(c.player, c.frame)
      BY <1>3, <3>1, <3>2
    <3> QED
      BY <3>1, <3>3 DEF WasSent
  <2> QED
    BY <2>1, <2>2
<1> DEFINE cmds == {cmd}
<1>9. /\ cmds \in SUBSET (Cmd \cup FrameInfo)
      /\ net' = [q \in Player |-> net[q] \cup SentTo(p, q, cmds)]
      /\ UNCHANGED <<frame, late>>
  BY <1>2, <1>3
<1>10. \A c \in cmds : /\ c.player = p /\ frame[Router] <= c.frame
                       /\ \A m \in late[Router] : m.cmd # c
                       /\ p # Router => ~TakenIn(Router, c)
  BY <1>3, <1>5, <1>6
<1>11. \A c \in Cmd \cup FrameInfo : WasSent(c)' => WasSent(c) \/ c \in cmds
  BY <1>8
<1> HIDE DEF cmds
<1> QED
  BY <1>7, <1>9, <1>10, <1>11, SendOnward

(* A frame tick sends the counts of the frames it completes.               *)
LEMMA TickOnward ==
  ASSUME IInv, OnwardInv, NEW p \in Player, FrameTick(p)
  PROVE  OnwardInv'
<1>1. /\ TypeOK /\ Messages /\ Rings /\ Clock /\ Behind /\ Router \in Player
      /\ frame[Router] \in Nat /\ lastFrameCompleted[p] \in Nat
  BY PlayerAssumption DEF IInv, TypeOK
<1>2. UNCHANGED <<frame, late, frameData, issued>>
  BY DEF FrameTick
<1>3. /\ net' = [q \in Player |-> net[q] \cup SentTo(p, q, Infos(p))]
      /\ lastFrameCompleted' = [lastFrameCompleted EXCEPT ![p] = ExecutionFrame(p) - 1]
      /\ ExecutionFrame(p) \in Nat /\ ExecutionFrame(p) > lastFrameCompleted[p]
      /\ Infos(p) \subseteq FrameInfo
      /\ \A c \in Infos(p) : /\ c.type = "FRAMEINFO" /\ c.player = p
                             /\ 1 <= c.frame /\ c.frame <= ExecutionFrame(p) - 1
                             /\ c.value = Cardinality(IssuedBy(p, c.frame))
  BY TickFacts
<1>4. ASSUME NEW c \in Infos(p)
      PROVE  /\ c.player = p /\ frame[Router] <= c.frame
             /\ \A m \in late[Router] : m.cmd # c
             /\ ~TakenIn(Router, c) \/ p = Router
  <2>1. c.frame \in Nat /\ c.frame > lastFrameCompleted[p] /\ c.type = "FRAMEINFO" /\ c.player = p
    <3>1. PICK f \in Completed(p) : c = Synchronized("FRAMEINFO", p, 0, f, CommandCount(p, f))
      BY DEF Infos
    <3>2. c.frame = f
      BY <3>1 DEF Synchronized
    <3> QED
      BY <1>1, <1>3, <3>2 DEF Completed
  <2>2. frame[Router] <= c.frame
    BY <1>1, <2>1 DEF Behind
  <2>3. \A m \in late[Router] : m.cmd # c
    BY <1>1, <2>1 DEF Messages, MessageOK
  <2>4. ASSUME p # Router PROVE ~TakenIn(Router, c)
    <3>1. c.frame \in Period(Router)
      <4>1. ExecutionFrame(p) <= frame[Router] + 2 * MAX_RUNAHEAD
        BY <1>1, Lead
      <4>2. c.frame <= frame[Router] + 2 * MAX_RUNAHEAD
        BY <1>1, <1>3, <2>1, <4>1, Sizes
      <4> QED
        BY <1>1, <2>1, <2>2, <4>2, PeriodRecords
    <3>2. Accurate(Router = p, IssuedBy(p, c.frame), lastFrameCompleted[p], c.frame,
                   frameData[Router][p][Index(c.frame)])
      BY <1>1, <3>1 DEF Rings
    <3> QED
      BY <1>1, <2>1, <2>4, <3>2 DEF Accurate, TakenIn
  <2> QED
    BY <2>1, <2>2, <2>3, <2>4
<1>5. ASSUME NEW c \in Cmd \cup FrameInfo, WasSent(c)' PROVE WasSent(c) \/ c \in Infos(p)
  <2>1. \A q, f : IssuedBy(q, f)' = IssuedBy(q, f)
    BY <1>2 DEF IssuedBy
  <2>2. CASE c \in issued
    BY <2>2 DEF WasSent
  <2>3. CASE c \notin issued
    <3>1. /\ c \in FrameInfo /\ 1 <= c.frame /\ c.frame <= lastFrameCompleted'[c.player]
          /\ c.value = Cardinality(IssuedBy(c.player, c.frame))
      BY <1>2, <1>5, <2>1, <2>3 DEF WasSent
    <3>2. c.frame \in Nat /\ c.player \in Player /\ lastFrameCompleted \in [Player -> Nat]
      BY <1>1, Commands DEF TypeOK
    <3>3. CASE c.frame <= lastFrameCompleted[c.player]
      BY <3>1, <3>3 DEF WasSent
    <3>4. CASE ~(c.frame <= lastFrameCompleted[c.player])
      <4>1. c.player = p /\ c.frame \in Completed(p)
        BY <1>3, <3>1, <3>2, <3>4 DEF Completed
      <4> DEFINE d == Synchronized("FRAMEINFO", p, 0, c.frame, CommandCount(p, c.frame))
      <4>2. d \in Infos(p) /\ d.player = p /\ d.frame = c.frame
        BY <4>1 DEF Infos, Synchronized
      <4> HIDE DEF d
      <4>3. d \in FrameInfo /\ d.value = c.value
        BY <1>3, <3>1, <4>1, <4>2
      <4>4. d = c
        BY <3>1, <4>1, <4>2, <4>3, Commands
      <4> QED
        BY <4>2, <4>4
    <3> QED
      BY <3>3, <3>4
  <2> QED
    BY <2>2, <2>3
<1> QED
  BY <1>2, <1>3, <1>4, <1>5, SendOnward

(* What a message that is not out of date changes: one record, which has   *)
(* afterwards what the message says; everything else stays.                *)
LEMMA ReceiveTakesIn ==
  ASSUME IInv, OnwardInv, NEW p \in Player, NEW m \in net[p] \cup late[p], NEW again \in BOOLEAN,
         Receive(p, m, again)
  PROVE  /\ ~OutOfDate(p, m) => TakenIn(p, m.cmd)'
         /\ \A q \in Player : \A c \in Cmd \cup FrameInfo : TakenIn(q, c) => TakenIn(q, c)'
         /\ \A n \in net[p] : ~OutOfDate(p, n) /\ TakenIn(p, n.cmd)' => TakenIn(p, n.cmd) \/ n = m
<1> DEFINE s == m.cmd.player
           f == m.cmd.frame
           fd == frameData[p][s][Index(f)]
           new == IF m.cmd.type = "FRAMEINFO" THEN SetFrameCommandCount(fd, m.cmd.value)
                  ELSE SettleLocal(FALSE, AddCommand(fd, m.cmd))
<1>1. /\ TypeOK /\ Addressed /\ m \in Message /\ MessageOK(p, m) /\ AddressedTo(p, m)
      /\ s \in Player /\ f \in Nat /\ Index(f) \in Indices /\ p # s
      /\ m.cmd.value \in Nat /\ m.cmd \in Cmd \cup FrameInfo
      /\ ~OutOfDate(p, m) => f \in Period(p)
  BY ReceivedInPeriod, IndexType, Commands DEF IInv, OnwardInv, Addressed, MessageOK
<1>2. fd \in FrameDataType(Cmd)
  BY <1>1, RecordTypes
<1>3. p \in m.relay
  BY <1>1 DEF AddressedTo
<1>4. CASE OutOfDate(p, m)
  <2>1. frameData' = frameData
    BY <1>4 DEF Receive
  <2>2. \A q \in Player, c \in Cmd \cup FrameInfo : TakenIn(q, c)' <=> TakenIn(q, c)
    BY <2>1 DEF TakenIn, Index, FRAME_DATA_LENGTH
  <2>3. \A n \in net[p] : n.cmd \in Cmd \cup FrameInfo
    BY <1>1, Commands DEF TypeOK
  <2> QED
    BY <1>4, <2>2, <2>3
<1>5. CASE ~OutOfDate(p, m)
  <2>1. frameData' = [frameData EXCEPT ![p][s] = [frameData[p][s] EXCEPT ![Index(f)] = new]]
    BY <1>1, <1>3, <1>5 DEF Receive, TakeIn, RingSetCount, RingAdd
  <2>2. m.cmd.type = "FRAMEINFO" =>
          /\ new.commandList = fd.commandList /\ new.frameCommandCount = m.cmd.value
    BY <1>1, <1>2, SetCountType
  <2>3. m.cmd.type # "FRAMEINFO" =>
          /\ new.commandList = fd.commandList \cup {m.cmd}
          /\ new.frameCommandCount = fd.frameCommandCount
    <3> DEFINE c == m.cmd
               add == SettleLocal(FALSE, AddCommand(fd, c))
    <3> SUFFICES ASSUME m.cmd.type # "FRAMEINFO"
                 PROVE  add.commandList = fd.commandList \cup {c} /\ add.frameCommandCount = fd.frameCommandCount
      OBVIOUS
    <3>1. c \in Cmd
      BY <1>1, Commands
    <3> HIDE DEF c, fd
    <3> QED
      BY <1>2, <3>1, AddRemoteType
  <2> HIDE DEF new
  <2>4. ASSUME NEW q \in Player, NEW t \in Player, NEW i \in Indices
        PROVE  frameData'[q][t][i] = IF q = p /\ t = s /\ i = Index(f) THEN new ELSE frameData[q][t][i]
    BY <1>1, <2>1, RecordTypes
  <2>5. TakenIn(p, m.cmd)'
    <3>1. frameData'[p][s][Index(f)] = new
      BY <1>1, <2>4
    <3>2. m.cmd.type = "FRAMEINFO" => new.frameCommandCount # Unknown
      BY <1>1, <2>2 DEF Unknown
    <3>3. m.cmd.type # "FRAMEINFO" => m.cmd \in new.commandList
      BY <2>3
    <3> QED
      BY <3>1, <3>2, <3>3 DEF TakenIn, Index, FRAME_DATA_LENGTH
  <2>6. ASSUME NEW q \in Player, NEW c \in Cmd \cup FrameInfo, TakenIn(q, c)
        PROVE  TakenIn(q, c)'
    <3>1. c.player \in Player /\ Index(c.frame) \in Indices
      BY Commands, IndexType
    <3>2. CASE q = p /\ c.player = s /\ Index(c.frame) = Index(f)
      <4>1. frameData'[q][c.player][Index(c.frame)] = new /\ frameData[q][c.player][Index(c.frame)] = fd
        BY <2>4, <3>1, <3>2
      <4>2. c.type = "FRAMEINFO" => fd.frameCommandCount # Unknown
        BY <2>6, <4>1 DEF TakenIn
      <4>3. c.type # "FRAMEINFO" => c \in fd.commandList
        BY <2>6, <4>1 DEF TakenIn
      <4>4. c.type = "FRAMEINFO" => new.frameCommandCount # Unknown
        BY <1>1, <2>2, <2>3, <4>2 DEF Unknown
      <4>5. c.type # "FRAMEINFO" => c \in new.commandList
        BY <2>2, <2>3, <4>3
      <4> QED
        BY <4>1, <4>4, <4>5 DEF TakenIn, Index, FRAME_DATA_LENGTH
    <3>3. CASE ~(q = p /\ c.player = s /\ Index(c.frame) = Index(f))
      <4>1. frameData'[q][c.player][Index(c.frame)] = frameData[q][c.player][Index(c.frame)]
        BY <2>4, <3>1, <3>3
      <4> QED
        BY <2>6, <4>1 DEF TakenIn, Index, FRAME_DATA_LENGTH
    <3> QED
      BY <3>2, <3>3
  <2>7. ASSUME NEW n \in net[p], ~OutOfDate(p, n), TakenIn(p, n.cmd)', ~TakenIn(p, n.cmd)
        PROVE  n = m
    <3>1. /\ n \in Message /\ MessageOK(p, n) /\ AddressedTo(p, n) /\ n.cmd \in Cmd \cup FrameInfo
          /\ n.cmd.player \in Player /\ n.cmd.frame \in Nat /\ Index(n.cmd.frame) \in Indices
          /\ n.cmd.frame \in Period(p)
      BY <1>1, <2>7, ReceivedInPeriod, IndexType, Commands DEF Addressed
    <3>2. n.cmd.player = s /\ Index(n.cmd.frame) = Index(f)
      <4>1. ASSUME ~(n.cmd.player = s /\ Index(n.cmd.frame) = Index(f)) PROVE FALSE
        <5>1. frameData'[p][n.cmd.player][Index(n.cmd.frame)] = frameData[p][n.cmd.player][Index(n.cmd.frame)]
          BY <2>4, <3>1, <4>1
        <5> QED
          BY <2>7, <5>1 DEF TakenIn, Index, FRAME_DATA_LENGTH
      <4> QED
        BY <4>1
    <3>3. n.cmd.frame = f
      BY <1>1, <1>5, <3>1, <3>2, PeriodRecords
    <3>4. frameData'[p][s][Index(f)] = new
      BY <1>1, <2>4
    <3>5. n.cmd = m.cmd
      <4>1. CASE n.cmd.type = "FRAMEINFO"
        <5>1. fd.frameCommandCount = Unknown /\ new.frameCommandCount # Unknown
          BY <2>7, <3>2, <3>3, <3>4, <4>1 DEF TakenIn, Index, FRAME_DATA_LENGTH
        <5>2. m.cmd.type = "FRAMEINFO"
          BY <2>3, <5>1
        <5>3. n.cmd \in FrameInfo /\ m.cmd \in FrameInfo /\ n.cmd.value = m.cmd.value
          BY <1>1, <3>1, <3>2, <3>3, <4>1, <5>2, Commands DEF MessageOK
        <5> QED
          BY <3>2, <3>3, <5>3, Commands
      <4>2. CASE n.cmd.type # "FRAMEINFO"
        <5>1. n.cmd \notin fd.commandList /\ n.cmd \in new.commandList
          BY <2>7, <3>2, <3>3, <3>4, <4>2 DEF TakenIn, Index, FRAME_DATA_LENGTH
        <5> QED
          BY <2>2, <2>3, <5>1
      <4> QED
        BY <4>1, <4>2
    <3>6. n.relay = m.relay
      BY <1>1, <3>1, <3>5 DEF AddressedTo
    <3> QED
      BY <1>1, <3>1, <3>5, <3>6, Commands
  <2> QED
    BY <2>5, <2>6, <2>7
<1> QED
  BY <1>4, <1>5

(* The router relays what comes for the first time, and whoever a message  *)
(* is for takes it in.                                                     *)
LEMMA ReceiveOnward ==
  ASSUME IInv, OnwardInv, NEW p \in Player, NEW m \in net[p] \cup late[p], NEW again \in BOOLEAN,
         Receive(p, m, again)
  PROVE  OnwardInv'
<1>1. /\ late' = [late EXCEPT ![p] = IF again THEN late[p] \cup {m} ELSE late[p] \ {m}]
      /\ net' = [q \in Player |->
                   (net[q] \ (IF q = p THEN {m} ELSE {}))
                     \cup (IF OutOfDate(p, m) THEN {} ELSE RelayedTo(p, q, m))]
      /\ UNCHANGED <<frame, lastFrameCompleted, issued>>
  BY DEF Receive
<1>2. /\ TypeOK /\ Addressed /\ FirstTime /\ Onward /\ Router \in Player
      /\ m \in Message /\ AddressedTo(p, m) /\ m.cmd.player \in Player /\ m.cmd.player # p
      /\ late \in [Player -> SUBSET Message] /\ frame \in [Player -> Nat]
  BY PlayerAssumption, ReceivedInPeriod DEF IInv, OnwardInv, TypeOK, Addressed, MessageOK
<1>3. ASSUME NEW q \in Player, NEW n \in RelayedTo(p, q, m)
      PROVE  p = Router /\ q # Router /\ n.cmd = m.cmd /\ n.relay = {q}
  BY <1>2 DEF RelayedTo, AddressedTo
<1>4. /\ ~OutOfDate(p, m) => TakenIn(p, m.cmd)'
      /\ \A q \in Player : \A c \in Cmd \cup FrameInfo : TakenIn(q, c) => TakenIn(q, c)'
      /\ \A n \in net[p] : ~OutOfDate(p, n) /\ TakenIn(p, n.cmd)' => TakenIn(p, n.cmd) \/ n = m
  BY ReceiveTakesIn
<1>5. Addressed'
  <2>1. ASSUME NEW q \in Player, NEW n \in net'[q] \cup late'[q] PROVE AddressedTo(q, n)
    <3>1. n \in net[q] \cup late[q] \/ n \in RelayedTo(p, q, m) \/ (q = p /\ n = m)
      BY <1>1, <1>2
    <3> QED
      BY <1>2, <1>3, <3>1 DEF Addressed, AddressedTo
  <2> QED
    BY <2>1 DEF Addressed, AddressedTo
<1>6. FirstTime'
  <2> SUFFICES ASSUME NEW n \in net'[Router]
               PROVE  frame[Router] <= n.cmd.frame /\ n \notin late'[Router] /\ ~TakenIn(Router, n.cmd)'
    BY <1>1 DEF FirstTime
  <2>1. n \in net[Router] /\ (p = Router => n # m)
    BY <1>1, <1>2, <1>3
  <2>2. frame[Router] <= n.cmd.frame /\ n \notin late[Router] /\ ~TakenIn(Router, n.cmd)
    BY <1>2, <2>1 DEF FirstTime
  <2>3. n \notin late'[Router]
    BY <1>1, <1>2, <2>1, <2>2
  <2>4. ~TakenIn(Router, n.cmd)'
    <3>1. n.cmd \in Cmd \cup FrameInfo /\ n.cmd.frame \in Nat /\ n.cmd.player \in Player
      BY <1>2, <2>1, Commands DEF TypeOK
    <3>2. CASE p = Router
      <4>1. ~OutOfDate(p, n)
        BY <1>2, <2>2, <3>1, <3>2 DEF OutOfDate
      <4> QED
        BY <1>4, <2>1, <2>2, <3>2, <4>1
    <3>3. CASE p # Router
      <4>1. frameData'[Router][n.cmd.player] = frameData[Router][n.cmd.player]
        BY <1>2, <3>1, <3>3, RecordTypes DEF Receive, TakeIn
      <4> QED
        BY <1>2, <2>2, <4>1, TakenInKept
    <3> QED
      BY <3>2, <3>3
  <2> QED
    BY <2>2, <2>3, <2>4
<1>7. Onward'
  <2> SUFFICES ASSUME NEW q \in Player, NEW c \in Cmd \cup FrameInfo, WasSent(c)', c.player # q,
                      frame[q] <= c.frame
               PROVE  TakenIn(q, c)' \/ Coming(q, c)'
    BY <1>1 DEF Onward
  <2>1. WasSent(c)
    <3>1. IssuedBy(c.player, c.frame)' = IssuedBy(c.player, c.frame)
      BY <1>1 DEF IssuedBy
    <3> QED
      BY <1>1, <3>1 DEF WasSent
  <2>2. CASE TakenIn(q, c)
    BY <1>4, <2>2
  <2>3. CASE ~TakenIn(q, c)
    <3>1. PICK n \in net[q] \cup net[Router] : n.cmd = c /\ q \in n.relay
      BY <1>2, <2>1, <2>3 DEF Onward, Coming
    <3>2. CASE n \in net'[q] \cup net'[Router]
      BY <3>1, <3>2 DEF Coming
    <3>3. CASE n \notin net'[q] \cup net'[Router]
      <4>1. n = m /\ (p = q \/ p = Router)
        BY <1>1, <1>2, <3>1, <3>3
      <4>2. CASE p = q
        <5>1. ~OutOfDate(p, m)
          BY <1>2, <3>1, <4>1, <4>2, Commands DEF OutOfDate
        <5> QED
          BY <1>4, <3>1, <4>1, <4>2, <5>1
      <4>3. CASE p = Router /\ p # q
        <5>1. n \in net[Router]
          BY <1>1, <1>2, <3>1, <3>3, <4>3
        <5>2. ~OutOfDate(p, m)
          BY <1>2, <4>1, <4>3, <5>1, <3>1, Commands DEF FirstTime, OutOfDate
        <5> DEFINE r == [cmd |-> c, relay |-> {q}]
        <5>3. r \in RelayedTo(p, q, m)
          BY <3>1, <4>1, <4>3 DEF RelayedTo
        <5>4. r \in net'[q] /\ r.cmd = c /\ q \in r.relay
          BY <1>1, <5>2, <5>3
        <5> HIDE DEF r
        <5> QED
          BY <5>4 DEF Coming
      <4> QED
        BY <4>1, <4>2, <4>3
    <3> QED
      BY <3>2, <3>3
  <2> QED
    BY <2>2, <2>3
<1> QED
  BY <1>5, <1>6, <1>7 DEF OnwardInv

(* What has been sent is for a frame that everybody's rings reach.         *)
LEMMA SentInPeriod ==
  ASSUME IInv, NEW p \in Player, NEW c \in Cmd \cup FrameInfo, WasSent(c), frame[p] <= c.frame
  PROVE  c.frame \in Period(p)
<1>1. /\ TypeOK /\ Clock /\ Behind /\ Reached /\ c.player \in Player /\ c.frame \in Nat
      /\ frame[p] \in Nat /\ frame[c.player] \in Nat
      /\ lastFrameCompleted[c.player] \in Nat /\ lastExecutionFrame[c.player] \in Nat
  BY Commands DEF IInv, TypeOK
<1>2. /\ lastExecutionFrame[c.player] <= frame[p] + 2 * MAX_RUNAHEAD
      /\ lastFrameCompleted[c.player] < frame[c.player] + MAX_RUNAHEAD
      /\ frame[c.player] <= frame[p] + MAX_RUNAHEAD
  BY <1>1, Lead
<1>3. CASE c \in issued
  <2>1. c.frame <= lastExecutionFrame[c.player]
    BY <1>1, <1>3 DEF Reached
  <2>2. c.frame <= frame[p] + 2 * MAX_RUNAHEAD
    BY <1>1, <1>2, <2>1, Sizes
  <2> QED
    BY <1>1, <2>2, PeriodRecords
<1>4. CASE c \notin issued
  <2>1. c.frame <= lastFrameCompleted[c.player]
    BY <1>4 DEF WasSent
  <2>2. c.frame <= frame[p] + 2 * MAX_RUNAHEAD
    BY <1>1, <1>2, <2>1, Sizes
  <2> QED
    BY <1>1, <2>2, PeriodRecords
<1> QED
  BY <1>3, <1>4

(* Moving on to the next frame forgets only what is long past.             *)
LEMMA ShiftOnward ==
  ASSUME IInv, OnwardInv, NEW p \in Player,
         frame' = [frame EXCEPT ![p] = frame[p] + 1],
         frameData' = [frameData EXCEPT ![p] =
                         [q \in Player |-> RingExecuted(frameData[p][q], p = q, frame[p])]],
         UNCHANGED <<net, late, lastFrameCompleted, issued>>,
         p = Router => \A m \in net[Router] : m.cmd.frame # frame[Router]
  PROVE  OnwardInv'
<1> DEFINE old == frame[p] - FRAMES_TO_KEEP
           blank == SettleLocal(FALSE, EmptyFrame)
<1>1. /\ TypeOK /\ Messages /\ Addressed /\ FirstTime /\ Onward /\ Router \in Player
      /\ frame \in [Player -> Nat] /\ frame[p] \in Nat /\ net \in [Player -> SUBSET Message]
  BY PlayerAssumption DEF IInv, OnwardInv, TypeOK
<1>2. old \in Period(p) /\ Index(old) \in Indices
  <2>1. old \in Period(p) /\ old \in Int
    BY <1>1, Sizes DEF Period
  <2> QED
    BY <2>1, IndexType
<1>3. ASSUME NEW s \in Player, s # p, NEW i \in Indices
      PROVE  \/ frameData'[p][s][i] = frameData[p][s][i]
             \/ i = Index(old) /\ frameData'[p][s][i] = blank
  <2>1. /\ frameData[p] \in [Player -> [Indices -> FrameDataType(Cmd)]]
        /\ frameData[p][s] \in [Indices -> FrameDataType(Cmd)]
    BY <1>1, RecordTypes
  <2>2. frameData'[p][s] = RingExecuted(frameData[p][s], FALSE, frame[p])
    <3>1. frameData'[p][s] = RingExecuted(frameData[p][s], p = s, frame[p])
      BY <1>1, <2>1, RecordTypes
    <3>2. (p = s) = FALSE
      BY <1>3
    <3> QED
      BY <3>1, <3>2
  <2>3. RingExecuted(frameData[p][s], FALSE, frame[p]) \in
          {frameData[p][s], [frameData[p][s] EXCEPT ![Index(old)] = blank]}
    BY DEF RingExecuted, RingReset
  <2> HIDE DEF old, blank
  <2> QED
    BY <1>2, <2>1, <2>2, <2>3
<1>4. blank.commandList = {} /\ blank.frameCommandCount = Unknown
  BY EmptyType
<1> HIDE DEF blank
<1>5. ASSUME NEW q \in Player, NEW c \in Cmd \cup FrameInfo, c.player # q, TakenIn(q, c)'
      PROVE  TakenIn(q, c)
  <2>1. c.player \in Player /\ Index(c.frame) \in Indices
    BY Commands, IndexType
  <2>2. CASE q # p
    <3>1. frameData'[q][c.player] = frameData[q][c.player]
      BY <1>1, <2>2, RecordTypes
    <3> QED
      BY <1>5, <3>1, TakenInKept
  <2>3. CASE q = p
    <3>1. \/ frameData'[p][c.player][Index(c.frame)] = frameData[p][c.player][Index(c.frame)]
          \/ frameData'[p][c.player][Index(c.frame)] = blank
      BY <1>3, <1>5, <2>1, <2>3
    <3> QED
      BY <1>4, <1>5, <2>3, <3>1 DEF TakenIn, Index, FRAME_DATA_LENGTH
  <2> QED
    BY <2>2, <2>3
<1>6. ASSUME NEW q \in Player, NEW c \in Cmd \cup FrameInfo, WasSent(c), c.player # q,
             frame'[q] <= c.frame, TakenIn(q, c)
      PROVE  TakenIn(q, c)'
  <2>1. c.player \in Player /\ c.frame \in Nat /\ Index(c.frame) \in Indices
    BY Commands, IndexType
  <2>2. CASE q # p
    <3>1. frameData'[q][c.player] = frameData[q][c.player]
      BY <1>1, <2>2, RecordTypes
    <3> QED
      BY <1>6, <3>1, TakenInKept
  <2>3. CASE q = p
    <3>1. c.frame \in Period(p) /\ c.frame # old
      <4>1. frame[p] + 1 <= c.frame
        BY <1>1, <1>6, <2>3
      <4> QED
        BY <1>1, <1>6, <2>1, <2>3, <4>1, SentInPeriod, Sizes
    <3>2. Index(c.frame) # Index(old)
      BY <1>1, <1>2, <3>1, PeriodRecords
    <3>3. frameData'[p][c.player][Index(c.frame)] = frameData[p][c.player][Index(c.frame)]
      BY <1>3, <1>6, <2>1, <2>3, <3>2
    <3> QED
      BY <1>6, <2>3, <3>3 DEF TakenIn, Index, FRAME_DATA_LENGTH
  <2> QED
    BY <2>2, <2>3
<1>7. Addressed'
  BY <1>1 DEF Addressed, AddressedTo
<1>8. FirstTime'
  <2> SUFFICES ASSUME NEW m \in net[Router]
               PROVE  frame'[Router] <= m.cmd.frame /\ m \notin late[Router] /\ ~TakenIn(Router, m.cmd)'
    BY DEF FirstTime
  <2>1. /\ m.cmd \in Cmd \cup FrameInfo /\ m.cmd.frame \in Nat /\ m.cmd.player # Router
        /\ frame[Router] <= m.cmd.frame /\ m \notin late[Router] /\ ~TakenIn(Router, m.cmd)
    BY <1>1, Commands DEF Messages, MessageOK, FirstTime
  <2>2. frame'[Router] <= m.cmd.frame
    BY <1>1, <2>1
  <2> QED
    BY <1>1, <1>5, <2>1, <2>2
<1>9. Onward'
  <2> SUFFICES ASSUME NEW q \in Player, NEW c \in Cmd \cup FrameInfo, WasSent(c)', c.player # q,
                      frame'[q] <= c.frame
               PROVE  TakenIn(q, c)' \/ Coming(q, c)'
    BY DEF Onward
  <2>1. WasSent(c)
    <3>1. IssuedBy(c.player, c.frame)' = IssuedBy(c.player, c.frame)
      BY DEF IssuedBy
    <3> QED
      BY <3>1 DEF WasSent
  <2>2. frame[q] <= c.frame
    BY <1>1, Commands
  <2>3. TakenIn(q, c) \/ Coming(q, c)
    BY <1>1, <2>1, <2>2 DEF Onward
  <2>4. Coming(q, c) => Coming(q, c)'
    BY DEF Coming
  <2> QED
    BY <1>6, <2>1, <2>3, <2>4
<1> QED
  BY <1>7, <1>8, <1>9 DEF OnwardInv

(* Another player's record is ready when, and only when, the count has been*)
(* taken in and all commands have.                                         *)
LEMMA ReadyRecord ==
  ASSUME IInv, NEW p \in Player, NEW q \in Player, p # q, frame[p] >= 1
  PROVE  LET fd == frameData[p][q][Index(frame[p])]
         IN  IsReady(fd) <=> fd.frameCommandCount # Unknown /\ IssuedBy(q, frame[p]) \subseteq fd.commandList
<1> DEFINE f == frame[p]
           fd == frameData[p][q][Index(f)]
           cmds == IssuedBy(q, f)
<1>1. TypeOK /\ Rings /\ Issuance /\ f \in Nat
  BY DEF IInv, TypeOK
<1>2. f \in Period(p) /\ Index(f) \in Indices
  BY <1>1, PeriodRecords, Sizes
<1>3. Accurate(p = q, cmds, lastFrameCompleted[q], f, fd) /\ fd \in FrameDataType(Cmd)
  BY <1>1, <1>2, RecordTypes DEF Rings
<1>4. IsFiniteSet(cmds) /\ Cardinality(cmds) \in Nat
  BY <1>1, IssuedFinite
<1> HIDE DEF f, fd, cmds
<1>5. /\ fd.commandList \subseteq cmds /\ fd.commandCount = Cardinality(fd.commandList)
      /\ fd.commandCount \in Nat
      /\ fd.frameCommandCount # Unknown => fd.frameCommandCount = Cardinality(cmds)
  BY <1>3 DEF Accurate, FrameDataType
<1>6. Cardinality(fd.commandList) = Cardinality(cmds) => fd.commandList = cmds
  BY <1>4, <1>5, FS_Subset
<1>7. IsReady(fd) <=> fd.frameCommandCount # Unknown /\ cmds \subseteq fd.commandList
  <2>1. ASSUME IsReady(fd) PROVE fd.frameCommandCount # Unknown /\ cmds \subseteq fd.commandList
    BY <1>5, <1>6, <2>1 DEF IsReady, Unknown
  <2>2. ASSUME fd.frameCommandCount # Unknown, cmds \subseteq fd.commandList PROVE IsReady(fd)
    <3>1. fd.commandList = cmds
      BY <1>5, <2>2
    <3> QED
      BY <1>5, <2>2, <3>1 DEF IsReady
  <2> QED
    BY <2>1, <2>2
<1> QED
  BY <1>7 DEF f, fd, cmds

(* The router executes no frame for which something is still on its way.   *)
LEMMA ExecuteOnward ==
  ASSUME IInv, OnwardInv, NEW p \in Player, ExecuteFrame(p)
  PROVE  OnwardInv'
<1>1. /\ frame' = [frame EXCEPT ![p] = frame[p] + 1] /\ AllCommandsReady(p)
      /\ frameData' = [frameData EXCEPT ![p] =
                         [q \in Player |-> RingExecuted(frameData[p][q], p = q, frame[p])]]
      /\ UNCHANGED <<net, late, lastFrameCompleted, issued>>
  BY DEF ExecuteFrame
<1>2. frame[p] >= 1
  BY ReadyFacts DEF ExecuteFrame
<1>3. ASSUME p = Router, NEW m \in net[Router], m.cmd.frame = frame[Router] PROVE FALSE
  <2> DEFINE s == m.cmd.player
  <2>1. /\ s \in Player /\ s # p /\ ~TakenIn(Router, m.cmd) /\ MessageOK(p, m)
        /\ m.cmd.type # "FRAMEINFO" => m.cmd \in IssuedBy(s, frame[p])
    BY <1>3, ReceivedInPeriod DEF OnwardInv, FirstTime, MessageOK, IssuedBy
  <2>2. IsReady(frameData[p][s][Index(frame[p])])
    BY <1>1, <2>1 DEF AllCommandsReady
  <2>3. /\ frameData[p][s][Index(frame[p])].frameCommandCount # Unknown
        /\ IssuedBy(s, frame[p]) \subseteq frameData[p][s][Index(frame[p])].commandList
    BY <1>2, <2>1, <2>2, ReadyRecord
  <2> QED
    BY <1>3, <2>1, <2>3 DEF TakenIn
<1> QED
  BY <1>1, <1>3, ShiftOnward

(* Nothing is sent before the game starts, for frame 0 least of all.       *)
LEMMA StartOnward ==
  ASSUME IInv, OnwardInv, NEW p \in Player, StartGame(p)
  PROVE  OnwardInv'
<1>1. /\ frame[p] = 0 /\ frame' = [frame EXCEPT ![p] = frame[p] + 1] /\ frameData' = frameData
      /\ UNCHANGED <<net, late, lastFrameCompleted, issued>>
  BY DEF StartGame
<1>2. TypeOK /\ Issuance
  BY DEF IInv
<1>3. frameData' = [frameData EXCEPT ![p] =
                      [q \in Player |-> RingExecuted(frameData[p][q], p = q, frame[p])]]
  <2>1. \A q \in Player : RingExecuted(frameData[p][q], p = q, frame[p]) = frameData[p][q]
    BY <1>1, Sizes DEF RingExecuted
  <2>2. frameData[p] = [q \in Player |-> frameData[p][q]]
    BY <1>2, RecordTypes
  <2>3. frameData' = [frameData EXCEPT ![p] = [q \in Player |-> frameData[p][q]]]
    BY <1>1, <1>2, <2>2, RecordTypes
  <2> QED
    BY <2>1, <2>3
<1>4. ASSUME p = Router, NEW m \in net[Router] PROVE m.cmd.frame # frame[Router]
  <2>1. MessageOK(p, m) /\ m.cmd.frame \in Nat
    BY <1>4, ReceivedInPeriod
  <2>2. m.cmd.frame >= 1
    BY <1>2, <2>1, Sizes DEF MessageOK, Issuance
  <2> QED
    BY <1>1, <1>4, <2>2
<1> QED
  BY <1>1, <1>3, <1>4, ShiftOnward

(* Every step keeps track of what is under way.                            *)
LEMMA NextOnward == IInv /\ OnwardInv /\ [Next]_vars => OnwardInv'
<1> SUFFICES ASSUME IInv, OnwardInv, [Next]_vars PROVE OnwardInv'
  OBVIOUS
<1>1. ASSUME NEW p \in Player, SendLocalGameMessage(p) PROVE OnwardInv'
  <2>1. Issue(p, "GAMECOMMAND", 0)
    BY <1>1 DEF SendLocalGameMessage
  <2> QED
    BY <2>1, IssueOnward
<1>2. ASSUME NEW p \in Player, UpdateRunAhead(p) PROVE OnwardInv'
  <2>1. PICK value \in MIN_RUNAHEAD .. MAX_RUNAHEAD : Issue(p, "RUNAHEAD", value) /\ p = Router
    BY <1>2 DEF UpdateRunAhead
  <2>2. value \in Nat
    BY Sizes
  <2> QED
    BY <2>1, <2>2, IssueOnward
<1>3. ASSUME NEW p \in Player, FrameTick(p) PROVE OnwardInv'
  BY <1>3, TickOnward
<1>4. ASSUME NEW p \in Player, ReceiveNew(p) \/ ReceiveAgain(p) PROVE OnwardInv'
  <2>1. PICK m \in net[p] \cup late[p] : \E again \in BOOLEAN : Receive(p, m, again)
    BY <1>4 DEF ReceiveNew, ReceiveAgain
  <2> QED
    BY <2>1, ReceiveOnward
<1>5. ASSUME NEW p \in Player, StartGame(p) PROVE OnwardInv'
  BY <1>5, StartOnward
<1>6. ASSUME NEW p \in Player, ExecuteFrame(p) PROVE OnwardInv'
  BY <1>6, ExecuteOnward
<1>7. CASE UNCHANGED vars
  <2>1. UNCHANGED <<frame, frameData, lastFrameCompleted, net, late, issued>>
    BY <1>7 DEF vars
  <2>2. \A p, c : TakenIn(p, c)' <=> TakenIn(p, c)
    BY <2>1 DEF TakenIn, Index, FRAME_DATA_LENGTH
  <2>3. \A c : WasSent(c)' <=> WasSent(c)
    BY <2>1 DEF WasSent, IssuedBy
  <2>4. Addressed'
    BY <2>1 DEF OnwardInv, Addressed, AddressedTo
  <2>5. FirstTime'
    BY <2>1, <2>2 DEF OnwardInv, FirstTime
  <2>6. Onward'
    BY <2>1, <2>2, <2>3 DEF OnwardInv, Onward, Coming
  <2> QED
    BY <2>4, <2>5, <2>6 DEF OnwardInv
<1> QED
  BY <1>1, <1>2, <1>3, <1>4, <1>5, <1>6, <1>7 DEF Next

(* Nobody waits in vain: what a player lacks for its frame is on its way to*)
(* it, through the router or directly, or is announced as soon as the other*)
(* has come to the frame - players never wait for each other in a circle.  *)
THEOREM NobodyWaits == Spec => []NobodyWaitsInVain
<1>1. IInv /\ OnwardInv => NobodyWaitsInVain
  <2> SUFFICES ASSUME IInv, OnwardInv, NEW p \in Player, NEW q \in Player, localStatus[p] = "INGAME",
                      ~IsReady(frameData[p][q][Index(frame[p])])
               PROVE  \/ \E m \in net[p] \cup net[Router] :
                           m.cmd.player = q /\ m.cmd.frame = frame[p] /\ p \in m.relay
                      \/ /\ lastFrameCompleted[q] < frame[p]
                         /\ frame[q] < frame[p] \/ lastFrame[q] # frame[q]
    BY DEF NobodyWaitsInVain
  <2>1. /\ TypeOK /\ Clock /\ Rings /\ Issuance /\ Onward /\ frame[p] \in Nat /\ frame[p] >= 1
        /\ frame[q] \in Nat /\ lastFrameCompleted[q] \in Nat
    BY DEF IInv, OnwardInv, TypeOK, Clock
  <2>2. p # q
    <3>1. frame[p] \in Period(p)
      BY <2>1, PeriodRecords, Sizes
    <3> QED
      BY <2>1, <3>1 DEF Rings, Accurate, IsReady
  <2>3. CASE lastFrameCompleted[q] < frame[p]
    BY <2>1, <2>3 DEF Clock
  <2>4. CASE frame[p] <= lastFrameCompleted[q]
    <3> DEFINE info == Synchronized("FRAMEINFO", q, 0, frame[p], Cardinality(IssuedBy(q, frame[p])))
    <3>1. PICK c \in Cmd \cup FrameInfo :
            WasSent(c) /\ c.player = q /\ c.frame = frame[p] /\ ~TakenIn(p, c)
      <4>1. CASE frameData[p][q][Index(frame[p])].frameCommandCount = Unknown
        <5>1. Cardinality(IssuedBy(q, frame[p])) \in Nat
          BY <2>1, IssuedFinite
        <5>2. /\ info \in FrameInfo /\ info.player = q /\ info.frame = frame[p] /\ info.type = "FRAMEINFO"
              /\ info.value = Cardinality(IssuedBy(q, frame[p]))
          BY <2>1, <5>1 DEF Synchronized, FrameInfo
        <5> HIDE DEF info
        <5>3. WasSent(info) /\ ~TakenIn(p, info)
          BY <2>1, <2>4, <4>1, <5>2 DEF WasSent, TakenIn
        <5> QED
          BY <5>2, <5>3
      <4>2. CASE frameData[p][q][Index(frame[p])].frameCommandCount # Unknown
        <5>1. PICK c \in IssuedBy(q, frame[p]) : c \notin frameData[p][q][Index(frame[p])].commandList
          BY <2>1, <2>2, <4>2, ReadyRecord
        <5>2. c \in issued /\ c \in Cmd /\ c.player = q /\ c.frame = frame[p]
          BY <2>1 DEF IssuedBy, TypeOK
        <5>3. ~TakenIn(p, c)
          BY <5>1, <5>2, Commands DEF TakenIn
        <5> QED
          BY <5>2, <5>3 DEF WasSent
      <4> QED
        BY <4>1, <4>2
    <3>2. Coming(p, c)
      BY <2>1, <2>2, <3>1 DEF Onward
    <3> QED
      BY <3>1, <3>2 DEF Coming
  <2> QED
    BY <2>1, <2>3, <2>4
<1>2. Init => IInv /\ OnwardInv
  BY InitIInv, InitOnward
<1>3. IInv /\ OnwardInv /\ [Next]_vars => (IInv /\ OnwardInv)'
  BY NextIInv, NextOnward
<1> QED
  BY <1>1, <1>2, <1>3, PTL DEF Spec

(* So the game never gets stuck: unless all frames are executed, somebody  *)
(* can start its game, process its frame tick, take in a message or execute*)
(* its frame - the guards of these actions, spelled out.                   *)
SomebodyGoesOn ==
  (\E p \in Player : frame[p] <= MaxFrame) =>
    \E p \in Player :
      \/ localStatus[p] = "PREGAME" /\ frame[p] = 0
      \/ lastFrame[p] # frame[p]
      \/ net[p] # {}
      \/ /\ localStatus[p] = "INGAME" /\ lastFrame[p] = frame[p] /\ frame[p] <= MaxFrame
         /\ AllCommandsReady(p)

(* No deadlock: who is last is waited for by others, and waits for nobody  *)
(* itself but for messages that are under way or a tick that is due.       *)
THEOREM NobodyIsStuck == Spec => []SomebodyGoesOn
<1>1. TypeOK /\ Clock /\ NobodyWaitsInVain => SomebodyGoesOn
  <2> SUFFICES ASSUME TypeOK, Clock, NobodyWaitsInVain, NEW p0 \in Player, frame[p0] <= MaxFrame,
                      \A p \in Player : /\ ~(localStatus[p] = "PREGAME" /\ frame[p] = 0)
                                        /\ lastFrame[p] = frame[p] /\ net[p] = {}
               PROVE  \E p \in Player : /\ localStatus[p] = "INGAME" /\ lastFrame[p] = frame[p]
                                        /\ frame[p] <= MaxFrame /\ AllCommandsReady(p)
    BY DEF SomebodyGoesOn
  <2>1. \A q \in Player : frame[q] \in Nat /\ lastFrame[q] \in Nat /\ localStatus[q] \in {"PREGAME", "INGAME"}
    BY DEF TypeOK
  <2>2. PICK p \in Player : \A q \in Player : frame[p] <= frame[q]
    <3> DEFINE T == {frame[q] : q \in Player}
    <3>1. T \subseteq Nat /\ T # {}
      BY <2>1
    <3> HIDE DEF T
    <3>2. PICK x \in T : \A y \in T : x <= y
      BY <3>1, LeastNat
    <3> QED
      BY <3>2 DEF T
  <2>3. localStatus[p] = "INGAME"
    <3>1. ASSUME localStatus[p] = "PREGAME" PROVE FALSE
      <4>1. frame[p] <= 1 /\ lastFrame[p] = 0
        BY <3>1 DEF Clock
      <4> QED
        BY <2>1, <3>1, <4>1
    <3> QED
      BY <2>1, <3>1
  <2>4. ASSUME NEW q \in Player PROVE IsReady(frameData[p][q][Index(frame[p])])
    <3>1. net[p] = {} /\ net[Router] = {} /\ lastFrame[q] = frame[q] /\ ~(frame[q] < frame[p])
      BY <2>1, <2>2, PlayerAssumption
    <3> QED
      BY <2>3, <3>1 DEF NobodyWaitsInVain
  <2> QED
    <3>1. frame[p] <= MaxFrame
      BY <2>1, <2>2, BoundAssumption
    <3> QED
      BY <2>3, <2>4, <3>1 DEF AllCommandsReady
<1>2. IInv => TypeOK /\ Clock
  BY DEF IInv
<1> QED
  BY <1>1, <1>2, Invariance, NobodyWaits, PTL
===============================================================================
