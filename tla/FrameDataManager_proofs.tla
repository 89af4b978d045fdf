----------------------- MODULE FrameDataManager_proofs -----------------------
(***************************************************************************)
(* FrameDataManager for every size of the ring: frames that share a record *)
(* never meet, executed frames are kept long enough, and the ring behaves  *)
(* like FrameWindow's record per frame.                                    *)
(*                                                                         *)
(* The frames a record could stand for are L = FRAME_DATA_LENGTH apart.    *)
(* The invariant looks at the L frames from frame - FRAMES_TO_KEEP on,     *)
(* which use every record once: each record holds commands of its frame    *)
(* only, and is blank when nothing can have arrived for that frame yet.    *)
(***************************************************************************)
EXTENDS FrameDataManager, FrameData_proofs

Period == (frame - FRAMES_TO_KEEP) .. (frame - FRAMES_TO_KEEP + FRAME_DATA_LENGTH - 1)

BlankRecord == SettleLocal(IsLocal, EmptyFrame)

OwnCommands ==
  \A f \in Period : \A c \in m_frameData[Index(f)].commandList : c.frame = f

BlankOutside ==
  \A f \in Period : f <= 0 \/ f > frame + Ahead => m_frameData[Index(f)] = BlankRecord

IInv == TypeOK /\ OwnCommands /\ BlankOutside /\ ExecutedFramesKept

----------------------------------------------------------------------------

(* A blank record is a record, without commands and ready only if local. *)
LEMMA BlankType ==
  /\ BlankRecord \in FrameDataType(Cmd)
  /\ BlankRecord.commandList = {}
  /\ ZeroFrame(BlankRecord) \in FrameDataType(Cmd)
  /\ ZeroFrame(BlankRecord).commandList = {}
  BY EmptyType, ZeroType, ManagerAssumption DEF BlankRecord

(* The ring at the start. *)
LEMMA StartBlank ==
  ASSUME NEW i \in Indices
  PROVE  StartRing(IsLocal, RunAhead)[i] =
           IF \E k \in 0 .. (RunAhead - 1) - 1 : i = Index(1 + k)
           THEN ZeroFrame(BlankRecord) ELSE BlankRecord
  BY StartRecords, ManagerAssumption DEF BlankRecord

(* Initially the invariant holds. *)
LEMMA InitIInv == Init => IInv
<1> SUFFICES ASSUME Init PROVE IInv
  OBVIOUS
<1>1. TypeOK
  <2>1. m_frameData \in [Indices -> FrameDataType(Cmd)]
    BY StartType, ManagerAssumption DEF Init
  <2>2. executed \in Seq(SUBSET Cmd) /\ Len(executed) = 0
    BY DEF Init
  <2>3. QED
    BY <2>1, <2>2, ManagerAssumption DEF Init, TypeOK
<1>2. \A f \in Period : Index(f) \in Indices
  BY RingSize, IndexType DEF Period, Init
<1>3. OwnCommands
  BY <1>2, StartBlank, BlankType DEF Init, OwnCommands
<1>4. BlankOutside
  <2> SUFFICES ASSUME NEW f \in Period, f <= 0 \/ f > frame + Ahead
               PROVE  m_frameData[Index(f)] = BlankRecord
    BY DEF BlankOutside
  <2>1. ASSUME NEW k \in 0 .. (RunAhead - 1) - 1, Index(f) = Index(1 + k)
        PROVE FALSE
    <3>1. /\ f \in Int /\ 1 + k \in Int
          /\ f - (1 + k) < FRAME_DATA_LENGTH /\ (1 + k) - f < FRAME_DATA_LENGTH
          /\ f # 1 + k
      BY RingSize, ManagerAssumption DEF Period, Init, Ahead
    <3>2. QED
      BY <2>1, <3>1, IndexInjective
  <2>2. QED
    BY <1>2, <2>1, StartBlank DEF Init
<1>5. ExecutedFramesKept
  BY DEF ExecutedFramesKept, Init
<1>6. QED
  BY <1>1, <1>3, <1>4, <1>5 DEF IInv

----------------------------------------------------------------------------
(* What a call that changes one upcoming record leaves alone.  `new' is    *)
(* the record it puts in place of the one of frame g.                      *)
LEMMA UpdateOne ==
  ASSUME IInv, NEW g \in Upcoming, NEW new \in FrameDataType(Cmd),
         m_frameData' = [m_frameData EXCEPT ![Index(g)] = new],
         \A c \in new.commandList : c.frame = g,
         UNCHANGED <<frame, executed>>
  PROVE  IInv'
<1>1. /\ frame \in Nat \ {0} /\ g \in Nat \ {0} /\ g \in Period
      /\ frame <= g /\ g <= frame + Ahead
      /\ \A f \in Period : f \in Int
  BY RingSize DEF IInv, TypeOK, Upcoming, Ahead, Period
<1>2. /\ m_frameData \in [Indices -> FrameDataType(Cmd)]
      /\ \A f \in Period : Index(f) \in Indices
      /\ Index(g) \in Indices
  BY <1>1, IndexType DEF IInv, TypeOK
<1>3. \A f \in Period : f # g => Index(f) # Index(g)
  <2> SUFFICES ASSUME NEW f \in Period, Index(f) = Index(g) PROVE f = g
    OBVIOUS
  <2>1. f - g < FRAME_DATA_LENGTH /\ g - f < FRAME_DATA_LENGTH /\ f \in Int /\ g \in Int
    BY <1>1, RingSize DEF Period
  <2>2. QED
    BY <2>1, IndexInjective
<1>4. \A f \in Period :
        m_frameData'[Index(f)] = IF f = g THEN new ELSE m_frameData[Index(f)]
  BY <1>2, <1>3
<1>5. TypeOK'
  BY <1>2 DEF IInv, TypeOK
<1>6. OwnCommands'
  BY <1>4 DEF IInv, OwnCommands, Period
<1>7. BlankOutside'
  <2>1. ~(g <= 0 \/ g > frame + Ahead)
    BY <1>1, RingSize DEF Ahead
  <2>2. Period' = Period
    BY DEF Period
  <2>3. QED
    BY <1>4, <2>1, <2>2 DEF IInv, BlankOutside, Ahead
<1>8. ExecutedFramesKept'
  <2>1. \A f \in 1 .. frame - 1 : f >= frame - FRAMES_TO_KEEP => f \in Period /\ f # g
    BY <1>1, RingSize DEF Period
  <2>2. QED
    BY <1>4, <2>1 DEF IInv, ExecutedFramesKept
<1>9. QED
  BY <1>5, <1>6, <1>7, <1>8 DEF IInv

(* The frame that comes into sight when a frame is executed is blank. *)
LEMMA NewFrameBlank ==
  ASSUME IInv, GetFrameCommandList
  PROVE  /\ m_frameData' \in [Indices -> FrameDataType(Cmd)]
         /\ \A f \in Period : f # frame - FRAMES_TO_KEEP =>
              m_frameData'[Index(f)] = m_frameData[Index(f)]
         /\ m_frameData'[Index(frame - FRAMES_TO_KEEP)] = BlankRecord
         /\ m_frameData'[Index(frame - FRAMES_TO_KEEP + FRAME_DATA_LENGTH)] = BlankRecord
         /\ m_frameData'[Index(frame + Ahead + 1)] = BlankRecord
<1> DEFINE old == frame - FRAMES_TO_KEEP
<1>1. /\ frame \in Nat \ {0} /\ old \in Int /\ old \in Period
      /\ \A f \in Period : f \in Int
      /\ frame + Ahead + 1 \in Period \/ frame + Ahead + 1 = old + FRAME_DATA_LENGTH
      /\ frame + Ahead + 1 \in Int
      /\ frame + Ahead + 1 # old
  BY RingSize DEF IInv, TypeOK, Ahead, Period
<1>2. /\ m_frameData \in [Indices -> FrameDataType(Cmd)]
      /\ \A f \in Period : Index(f) \in Indices
      /\ Index(old) \in Indices
  BY <1>1, IndexType DEF IInv, TypeOK
<1>3. \A f \in Period : f # old => Index(f) # Index(old)
  <2> SUFFICES ASSUME NEW f \in Period, Index(f) = Index(old) PROVE f = old
    OBVIOUS
  <2>1. f - old < FRAME_DATA_LENGTH /\ old - f < FRAME_DATA_LENGTH /\ f \in Int /\ old \in Int
    BY <1>1, RingSize DEF Period
  <2>2. QED
    BY <2>1, IndexInjective
<1>4. m_frameData' = IF frame > FRAMES_TO_KEEP
                     THEN [m_frameData EXCEPT ![Index(old)] = BlankRecord] ELSE m_frameData
  BY DEF GetFrameCommandList, RingExecuted, RingReset, BlankRecord
<1>5. frame <= FRAMES_TO_KEEP => m_frameData[Index(old)] = BlankRecord
  BY <1>1, RingSize DEF IInv, BlankOutside
<1>6. m_frameData'[Index(old)] = BlankRecord
  BY <1>1, <1>2, <1>4, <1>5, RingSize
<1>7. \A f \in Period : f # old => m_frameData'[Index(f)] = m_frameData[Index(f)]
  BY <1>2, <1>3, <1>4
<1>8. Index(old + FRAME_DATA_LENGTH) = Index(old)
  BY <1>1, IndexPeriod
<1>9. m_frameData' \in [Indices -> FrameDataType(Cmd)]
  BY <1>2, <1>4, BlankType
<1>10. m_frameData'[Index(frame + Ahead + 1)] = BlankRecord
  <2>1. CASE frame + Ahead + 1 \in Period
    <3>1. m_frameData[Index(frame + Ahead + 1)] = BlankRecord
      BY <2>1, <1>1, RingSize DEF IInv, BlankOutside, Ahead
    <3>2. QED
      BY <3>1, <2>1, <1>1, <1>7
  <2>2. CASE frame + Ahead + 1 = old + FRAME_DATA_LENGTH
    BY <2>2, <1>6, <1>8
  <2>3. QED
    BY <1>1, <2>1, <2>2
<1>11. QED
  BY <1>6, <1>7, <1>8, <1>9, <1>10

(* Executing a frame preserves the invariant. *)
LEMMA ExecuteIInv ==
  ASSUME IInv, GetFrameCommandList
  PROVE  IInv'
<1> DEFINE old == frame - FRAMES_TO_KEEP
<1>1. /\ frame \in Nat \ {0} /\ frame <= MaxFrame /\ MaxFrame \in Nat /\ frame' = frame + 1
      /\ frame \in Period /\ frame # old
      /\ \A f \in Period' : f \in Int /\ f # old /\ (f \in Period \/ f = old + FRAME_DATA_LENGTH)
  BY RingSize, ManagerAssumption DEF IInv, TypeOK, GetFrameCommandList, Period
<1>2. /\ executed \in Seq(SUBSET Cmd) /\ Len(executed) = frame - 1
      /\ m_frameData[Index(frame)].commandList \in SUBSET Cmd
      /\ executed' = Append(executed, m_frameData[Index(frame)].commandList)
  <2>1. Index(frame) \in Indices
    BY <1>1, IndexType
  <2>2. m_frameData[Index(frame)] \in FrameDataType(Cmd)
    BY <2>1 DEF IInv, TypeOK
  <2>3. QED
    BY <2>2 DEF IInv, TypeOK, GetFrameCommandList, FrameDataType
<1>3. /\ executed' \in Seq(SUBSET Cmd) /\ Len(executed') = frame
      /\ executed'[frame] = m_frameData[Index(frame)].commandList
      /\ \A f \in 1 .. frame - 1 : executed'[f] = executed[f]
  BY <1>1, <1>2
<1>4. TypeOK'
  BY <1>1, <1>3, NewFrameBlank DEF TypeOK
<1>5. \A f \in Period' : f \in Period =>
        m_frameData'[Index(f)] = m_frameData[Index(f)]
  BY <1>1, NewFrameBlank
<1>6. OwnCommands'
  <2> SUFFICES ASSUME NEW f \in Period', NEW c \in m_frameData'[Index(f)].commandList
               PROVE  c.frame = f
    BY DEF OwnCommands
  <2>1. CASE f \in Period
    BY <2>1, <1>5 DEF IInv, OwnCommands
  <2>2. CASE f = old + FRAME_DATA_LENGTH
    BY <2>2, NewFrameBlank, BlankType
  <2>3. QED
    BY <1>1, <2>1, <2>2
<1>7. BlankOutside'
  <2> SUFFICES ASSUME NEW f \in Period', f <= 0 \/ f > frame' + Ahead
               PROVE  m_frameData'[Index(f)] = BlankRecord
    BY DEF BlankOutside, BlankRecord, Ahead
  <2>1. CASE f \in Period
    <3>1. f <= 0 \/ f > frame + Ahead
      BY <1>1, RingSize DEF Ahead
    <3>2. QED
      BY <2>1, <3>1, <1>5 DEF IInv, BlankOutside
  <2>2. CASE f = old + FRAME_DATA_LENGTH
    BY <2>2, NewFrameBlank
  <2>3. QED
    BY <1>1, <2>1, <2>2
<1>8. ExecutedFramesKept'
  <2>1. ASSUME NEW f \in 1 .. frame' - 1, f >= frame' - FRAMES_TO_KEEP
        PROVE  /\ m_frameData'[Index(f)].commandList = executed'[f]
               /\ IsReady(m_frameData'[Index(f)])
    <3>1. f \in Period /\ f # old /\ f \in Int
      BY <1>1, <2>1, RingSize DEF Period
    <3>2. m_frameData'[Index(f)] = m_frameData[Index(f)]
      BY <3>1, NewFrameBlank
    <3>3. CASE f = frame
      BY <3>2, <3>3, <1>3 DEF GetFrameCommandList
    <3>4. CASE f # frame
      <4>1. f \in 1 .. frame - 1 /\ f >= frame - FRAMES_TO_KEEP
        BY <2>1, <3>4, <1>1, RingSize
      <4>2. QED
        BY <4>1, <3>2, <1>3 DEF IInv, ExecutedFramesKept
    <3>5. QED
      BY <3>3, <3>4
  <2>2. QED
    BY <2>1 DEF ExecutedFramesKept, FRAMES_TO_KEEP, Index, FRAME_DATA_LENGTH
<1>9. QED
  BY <1>4, <1>6, <1>7, <1>8 DEF IInv

(* The records the other calls leave behind. *)
LEMMA NewRecords ==
  ASSUME IInv, NEW g \in Upcoming
  PROVE  /\ Index(g) \in Indices
         /\ m_frameData[Index(g)] \in FrameDataType(Cmd)
         /\ \A c \in m_frameData[Index(g)].commandList : c.frame = g
         /\ \A id \in Ids : [frame |-> g, id |-> id] \in Cmd
<1>1. g \in Nat /\ g \in Period
  BY RingSize DEF IInv, TypeOK, Upcoming, Ahead, Period
<1>2. Index(g) \in Indices
  BY <1>1, IndexType
<1>3. m_frameData[Index(g)] \in FrameDataType(Cmd)
  BY <1>2 DEF IInv, TypeOK
<1>4. \A c \in m_frameData[Index(g)].commandList : c.frame = g
  BY <1>1 DEF IInv, OwnCommands
<1>5. \A id \in Ids : [frame |-> g, id |-> id] \in Cmd
  BY <1>1 DEF Cmd
<1>6. QED
  BY <1>2, <1>3, <1>4, <1>5

(* Every step preserves the invariant. *)
LEMMA NextIInv == IInv /\ [Next]_vars => IInv'
<1> SUFFICES ASSUME IInv, [Next]_vars PROVE IInv'
  OBVIOUS
<1>1. ASSUME NEW f \in Upcoming, NEW id \in Ids, AddNetCommandMsg(f, id)
      PROVE  IInv'
  <2> DEFINE cmd == [frame |-> f, id |-> id]
             new == SettleLocal(IsLocal, AddCommand(m_frameData[Index(f)], cmd))
  <2>1. /\ m_frameData[Index(f)] \in FrameDataType(Cmd) /\ cmd \in Cmd /\ cmd.frame = f
        /\ \A c \in m_frameData[Index(f)].commandList : c.frame = f
    BY NewRecords
  <2>2. /\ new \in FrameDataType(Cmd)
        /\ new.commandList = m_frameData[Index(f)].commandList \cup {cmd}
    BY <2>1, AddCommandType, SettleType, ManagerAssumption
  <2>3. m_frameData' = [m_frameData EXCEPT ![Index(f)] = new]
    BY <1>1 DEF AddNetCommandMsg, RingAdd
  <2>4. \A c \in new.commandList : c.frame = f
    BY <2>1, <2>2
  <2> HIDE DEF new
  <2>5. QED
    BY <1>1, <2>2, <2>3, <2>4, UpdateOne DEF AddNetCommandMsg
<1>2. ASSUME NEW f \in Upcoming, NEW n \in 0 .. Cardinality(Ids), SetFrameCount(f, n)
      PROVE  IInv'
  <2> DEFINE new == SetFrameCommandCount(m_frameData[Index(f)], n)
  <2>1. /\ new \in FrameDataType(Cmd)
        /\ new.commandList = m_frameData[Index(f)].commandList
    BY NewRecords, SetCountType
  <2>2. m_frameData' = [m_frameData EXCEPT ![Index(f)] = new]
    BY <1>2 DEF SetFrameCount, RingSetCount
  <2>3. \A c \in new.commandList : c.frame = f
    BY <2>1, NewRecords
  <2> HIDE DEF new
  <2>4. QED
    BY <1>2, <2>1, <2>2, <2>3, UpdateOne DEF SetFrameCount
<1>3. ASSUME NEW f \in Upcoming, Resend(f)
      PROVE  IInv'
  <2>1. m_frameData' = [m_frameData EXCEPT ![Index(f)] = BlankRecord]
    BY <1>3 DEF Resend, RingReset, BlankRecord
  <2>2. QED
    BY <1>3, <2>1, BlankType, UpdateOne DEF Resend
<1>4. ASSUME GetFrameCommandList PROVE IInv'
  BY <1>4, ExecuteIInv
<1>5. ASSUME UNCHANGED vars PROVE IInv'
  BY <1>5 DEF vars, IInv, TypeOK, OwnCommands, BlankOutside, ExecutedFramesKept,
              Period, Ahead
<1>6. QED
  BY <1>1, <1>2, <1>3, <1>4, <1>5 DEF Next

----------------------------------------------------------------------------

(* The invariant holds always. *)
THEOREM Invariance == Spec => []IInv
  BY InitIInv, NextIInv, PTL DEF Spec

(* A FrameDataManager's ring, of whatever size, holds records, and counts  *)
(* frames without a gap.                                                   *)
THEOREM TypeCorrect == Spec => []TypeOK
<1>1. IInv => TypeOK
  BY DEF IInv
<1>2. QED
  BY <1>1, Invariance, PTL

(* Frames that share a record never meet: no command is ever seen in a     *)
(* frame it was not meant for.                                             *)
THEOREM NoCommandStrays == Spec => []NoStrayCommands
<1>1. IInv => NoStrayCommands
  <2> SUFFICES ASSUME IInv, NEW i \in Indices, NEW c \in m_frameData[i].commandList
               PROVE  Index(c.frame) = i
                      /\ c.frame \in (frame - FRAMES_TO_KEEP) .. (frame + Ahead)
    BY DEF NoStrayCommands
  <2>1. frame \in Int /\ frame - FRAMES_TO_KEEP \in Int
    BY RingSize DEF IInv, TypeOK
  <2>2. PICK f \in Period : Index(f) = i
    BY <2>1, IndexCovers DEF Period
  <2>3. c.frame = f
    BY <2>2 DEF IInv, OwnCommands
  <2>4. f <= frame + Ahead
    <3>1. SUFFICES ASSUME f > frame + Ahead PROVE FALSE
      BY <2>1, RingSize DEF Period, Ahead
    <3>2. m_frameData[i] = BlankRecord
      BY <2>2, <3>1 DEF IInv, BlankOutside
    <3>3. QED
      BY <3>2, BlankType
  <2>5. QED
    BY <2>1, <2>2, <2>3, <2>4, RingSize DEF Period, Ahead
<1>2. QED
  BY <1>1, Invariance, PTL

(* The frames another player may still ask for can be served.              *)
THEOREM FramesAreKept == Spec => []ExecutedFramesKept
<1>1. IInv => ExecutedFramesKept
  BY DEF IInv
<1>2. QED
  BY <1>1, Invariance, PTL

----------------------------------------------------------------------------
(* The refinement: the record FrameWindow keeps for frame f.               *)
Live(f) == f >= frame - FRAMES_TO_KEEP /\ f <= frame + MAX_FRAMES_AHEAD + 1
RecordOf(f) == IF Live(f) THEN m_frameData[Index(f)] ELSE BlankRecord
Data == [f \in 0 .. MaxFrame + MAX_FRAMES_AHEAD + 1 |-> RecordOf(f)]

(* The frames with a record of their own are in the period. *)
LEMMA LiveFrames ==
  ASSUME IInv
  PROVE  /\ frame \in Nat \ {0} /\ frame <= MaxFrame + 1 /\ MaxFrame \in Nat
         /\ MAX_FRAMES_AHEAD \in Nat /\ FRAMES_TO_KEEP \in Nat \ {0}
         /\ m_frameData \in [Indices -> FrameDataType(Cmd)]
         /\ \A f \in Int : Live(f) => f \in Period
  BY RingSize, ManagerAssumption DEF IInv, TypeOK, Live, Period

(* FrameWindow's copies of the operators of FrameData are the same ones.   *)
LEMMA SameOperators ==
  /\ Window!FRAMES_TO_KEEP = FRAMES_TO_KEEP
  /\ Window!Blank = BlankRecord
  /\ \A fd : Window!SettleLocal(IsLocal, fd) = SettleLocal(IsLocal, fd)
  /\ \A fd : Window!ZeroFrame(fd) = ZeroFrame(fd)
  /\ \A fd : \A c : Window!AddCommand(fd, c) = AddCommand(fd, c)
  /\ \A fd : \A n : Window!SetFrameCommandCount(fd, n) = SetFrameCommandCount(fd, n)
  /\ \A fd : Window!IsReady(fd) = IsReady(fd)
  /\ \A fd : Window!NeedsResend(fd) = NeedsResend(fd)
  /\ Window!Cardinality(Ids) = Cardinality(Ids)
<1>1. /\ Window!FRAMES_TO_KEEP = FRAMES_TO_KEEP
      /\ Window!EmptyFrame = EmptyFrame
  BY DEF Window!FRAMES_TO_KEEP, FRAMES_TO_KEEP, Window!EmptyFrame, EmptyFrame,
         Window!Unknown, Unknown
<1>2. \A fd : \A n : Window!SetFrameCommandCount(fd, n) = SetFrameCommandCount(fd, n)
  BY DEF Window!SetFrameCommandCount, SetFrameCommandCount
<1>3. \A fd : Window!SettleLocal(IsLocal, fd) = SettleLocal(IsLocal, fd)
  BY <1>2 DEF Window!SettleLocal, SettleLocal
<1>4. Window!Blank = BlankRecord
  BY <1>1, <1>3 DEF Window!Blank, BlankRecord
<1>5. \A fd : Window!ZeroFrame(fd) = ZeroFrame(fd)
  BY DEF Window!ZeroFrame, ZeroFrame
<1>6. \A fd : \A c : Window!AddCommand(fd, c) = AddCommand(fd, c)
  BY DEF Window!AddCommand, AddCommand
<1>7. \A fd : Window!IsReady(fd) = IsReady(fd)
  BY DEF Window!IsReady, IsReady
<1>8. \A fd : Window!NeedsResend(fd) = NeedsResend(fd)
  BY DEF Window!NeedsResend, NeedsResend, Window!Unknown, Unknown
<1>9. Window!Cardinality(Ids) = Cardinality(Ids)
  BY DEF Window!Cardinality, Cardinality
<1>10. QED
  BY <1>1, <1>2, <1>3, <1>4, <1>5, <1>6, <1>7, <1>8, <1>9

(* Initially the data is what FrameWindow starts with. *)
LEMMA InitRefines == Init => Window!Init
<1> SUFFICES ASSUME Init PROVE Window!Init
  OBVIOUS
<1>1. IInv
  BY InitIInv
<1>2. ASSUME NEW f \in 0 .. MaxFrame + MAX_FRAMES_AHEAD + 1
      PROVE  RecordOf(f) = IF f \in 1 .. RunAhead - 1 THEN ZeroFrame(BlankRecord) ELSE BlankRecord
  <2>1. f \in Int /\ frame = 1 /\ RunAhead \in Nat \ {0} /\ RunAhead <= MAX_FRAMES_AHEAD
    BY <1>1, LiveFrames, ManagerAssumption DEF Init
  <2>2. CASE Live(f)
    <3>1. /\ Index(f) \in Indices
          /\ m_frameData[Index(f)] =
               IF \E k \in 0 .. (RunAhead - 1) - 1 : Index(f) = Index(1 + k)
               THEN ZeroFrame(BlankRecord) ELSE BlankRecord
      BY <2>1, IndexType, StartBlank DEF Init
    <3>2. ASSUME NEW k \in 0 .. (RunAhead - 1) - 1, Index(f) = Index(1 + k)
          PROVE  f = 1 + k
      <4>1. /\ 1 + k \in Int
            /\ f - (1 + k) < FRAME_DATA_LENGTH /\ (1 + k) - f < FRAME_DATA_LENGTH
        BY <2>1, <2>2, RingSize DEF Live
      <4>2. QED
        BY <2>1, <3>2, <4>1, IndexInjective
    <3>3. f \in 1 .. RunAhead - 1
            <=> \E k \in 0 .. (RunAhead - 1) - 1 : Index(f) = Index(1 + k)
      <4>1. ASSUME f \in 1 .. RunAhead - 1
            PROVE  \E k \in 0 .. (RunAhead - 1) - 1 : Index(f) = Index(1 + k)
        <5>1. f - 1 \in 0 .. (RunAhead - 1) - 1 /\ f = 1 + (f - 1)
          BY <2>1, <4>1
        <5>2. QED
          BY <5>1
      <4>2. QED
        BY <2>1, <3>2, <4>1
    <3>4. QED
      BY <2>2, <3>1, <3>3 DEF RecordOf
  <2>3. CASE ~Live(f)
    BY <1>1, <2>1, <2>3, LiveFrames DEF RecordOf, Live
  <2>4. QED
    BY <2>2, <2>3
<1>3. Window!Frames = 0 .. MaxFrame + MAX_FRAMES_AHEAD + 1
  BY <1>1, LiveFrames DEF Window!Frames, Window!Ahead
<1>4. Data = [f \in Window!Frames |->
                IF f \in 1 .. RunAhead - 1 THEN ZeroFrame(BlankRecord) ELSE BlankRecord]
  BY <1>2, <1>3 DEF Data
<1>5. Window!Blank = BlankRecord /\ Window!ZeroFrame(BlankRecord) = ZeroFrame(BlankRecord)
  BY SameOperators
<1>6. QED
  BY <1>4, <1>5 DEF Window!Init, Init, Data, RecordOf, Live, BlankRecord

(* Changing one upcoming record of the ring changes that frame's data.     *)
LEMMA UpdateRefines ==
  ASSUME IInv, frame <= MaxFrame, NEW g \in Upcoming, NEW new,
         m_frameData' = [m_frameData EXCEPT ![Index(g)] = new],
         UNCHANGED frame
  PROVE  /\ Data' = [Data EXCEPT ![g] = new]
         /\ Data[g] = m_frameData[Index(g)]
<1>1. /\ g \in Int /\ g \in Period /\ Live(g)
      /\ g \in 0 .. MaxFrame + MAX_FRAMES_AHEAD + 1
  BY LiveFrames DEF Upcoming, Ahead, Live
<1>2. ASSUME NEW f \in 0 .. MaxFrame + MAX_FRAMES_AHEAD + 1
      PROVE  RecordOf(f)' = IF f = g THEN new ELSE RecordOf(f)
  <2>1. Live(f)' <=> Live(f)
    BY DEF Live
  <2>2. CASE Live(f)
    <3>1. f \in Int /\ f \in Period /\ Index(f) \in Indices
      BY <2>2, LiveFrames, IndexType
    <3>2. f # g => Index(f) # Index(g)
      <4>1. f - g < FRAME_DATA_LENGTH /\ g - f < FRAME_DATA_LENGTH
        BY <1>1, <3>1, LiveFrames, RingSize DEF Period
      <4>2. QED
        BY <1>1, <3>1, <4>1, IndexInjective
    <3>3. m_frameData'[Index(f)] = IF f = g THEN new ELSE m_frameData[Index(f)]
      BY <3>1, <3>2, LiveFrames
    <3>4. QED
      BY <2>1, <2>2, <3>3 DEF RecordOf
  <2>3. CASE ~Live(f)
    BY <1>1, <2>1, <2>3 DEF RecordOf, BlankRecord
  <2>4. QED
    BY <2>2, <2>3
<1>3. QED
  BY <1>1, <1>2 DEF Data, RecordOf

(* Executing a frame forgets one frame, and nothing has to be forgotten of *)
(* the frame that takes over its record.                                   *)
LEMMA ExecuteRefines ==
  ASSUME IInv, GetFrameCommandList
  PROVE  /\ Data' = IF frame >= FRAMES_TO_KEEP
                    THEN [Data EXCEPT ![frame - FRAMES_TO_KEEP] = BlankRecord] ELSE Data
         /\ Data[frame] = m_frameData[Index(frame)]
<1> DEFINE old == frame - FRAMES_TO_KEEP
<1>1. frame' = frame + 1 /\ frame <= MaxFrame /\ frame \in Nat /\ Live(frame) /\ old \in Int
  BY LiveFrames DEF GetFrameCommandList, Live
<1>2. ASSUME NEW f \in 0 .. MaxFrame + MAX_FRAMES_AHEAD + 1
      PROVE  RecordOf(f)' = IF f = old THEN BlankRecord ELSE RecordOf(f)
  <2>1. f \in Int /\ BlankRecord' = BlankRecord
    BY DEF BlankRecord
  <2>2. CASE f = frame + Ahead + 1
    <3>1. Live(f)' /\ ~Live(f) /\ f # old
      BY <1>1, <2>2, LiveFrames DEF Live, Ahead
    <3>2. QED
      BY <2>2, <3>1, NewFrameBlank DEF RecordOf
  <2>3. CASE f = old
    <3>1. ~Live(f)'
      BY <1>1, <2>3, LiveFrames DEF Live, FRAMES_TO_KEEP
    <3>2. QED
      BY <2>1, <2>3, <3>1 DEF RecordOf
  <2>4. CASE f # old /\ f # frame + Ahead + 1
    <3>1. Live(f)' <=> Live(f)
      BY <1>1, <2>1, <2>4, LiveFrames DEF Live, Ahead, FRAMES_TO_KEEP
    <3>2. Live(f) => m_frameData'[Index(f)] = m_frameData[Index(f)]
      BY <2>1, <2>4, LiveFrames, NewFrameBlank
    <3>3. QED
      BY <2>1, <2>4, <3>1, <3>2 DEF RecordOf
  <2>5. QED
    BY <2>2, <2>3, <2>4
<1>3. Data' = [f \in 0 .. MaxFrame + MAX_FRAMES_AHEAD + 1 |->
                 IF f = old THEN BlankRecord ELSE RecordOf(f)]
  BY <1>2 DEF Data
<1>4. ASSUME frame >= FRAMES_TO_KEEP
      PROVE  Data' = [Data EXCEPT ![old] = BlankRecord]
  BY <1>1, <1>3, <1>4, LiveFrames DEF Data
<1>5. ASSUME ~(frame >= FRAMES_TO_KEEP)
      PROVE  Data' = Data
  <2>1. \A f \in 0 .. MaxFrame + MAX_FRAMES_AHEAD + 1 : f # old
    BY <1>1, <1>5, LiveFrames
  <2>2. QED
    BY <1>3, <2>1 DEF Data
<1>6. Data[frame] = m_frameData[Index(frame)]
  BY <1>1, LiveFrames DEF Data, RecordOf
<1>7. QED
  BY <1>4, <1>5, <1>6

(* Every step of the ring is a step of FrameWindow. *)
LEMMA NextRefines == IInv /\ [Next]_vars => [Window!Next]_(Window!vars)
<1> SUFFICES ASSUME IInv, [Next]_vars PROVE [Window!Next]_(Window!vars)
  OBVIOUS
<1> USE DEF Window!Upcoming, Window!Ahead, Upcoming, Ahead, Window!Counts
<1>1. ASSUME frame <= MaxFrame, NEW f \in Upcoming, NEW id \in Ids, AddNetCommandMsg(f, id)
      PROVE  Window!Add(f, id)
  <2>1. m_frameData' = [m_frameData EXCEPT ![Index(f)] =
          SettleLocal(IsLocal, AddCommand(m_frameData[Index(f)], [frame |-> f, id |-> id]))]
    BY <1>1 DEF AddNetCommandMsg, RingAdd
  <2>2. /\ Data' = [Data EXCEPT ![f] =
               SettleLocal(IsLocal, AddCommand(m_frameData[Index(f)], [frame |-> f, id |-> id]))]
        /\ Data[f] = m_frameData[Index(f)]
    BY <1>1, <2>1, UpdateRefines DEF AddNetCommandMsg
  <2>3. QED
    BY <1>1, <2>2, SameOperators DEF Window!Add, AddNetCommandMsg, Data, RecordOf, Live, BlankRecord
<1>2. ASSUME frame <= MaxFrame, NEW f \in Upcoming, NEW n \in 0 .. Cardinality(Ids),
             SetFrameCount(f, n)
      PROVE  Window!SetCount(f, n)
  <2>1. m_frameData' = [m_frameData EXCEPT ![Index(f)] =
          SetFrameCommandCount(m_frameData[Index(f)], n)]
    BY <1>2 DEF SetFrameCount, RingSetCount
  <2>2. /\ Data' = [Data EXCEPT ![f] = SetFrameCommandCount(m_frameData[Index(f)], n)]
        /\ Data[f] = m_frameData[Index(f)]
    BY <1>2, <2>1, UpdateRefines DEF SetFrameCount
  <2>3. QED
    BY <1>2, <2>2, SameOperators DEF Window!SetCount, SetFrameCount, Data, RecordOf, Live, BlankRecord
<1>3. ASSUME frame <= MaxFrame, NEW f \in Upcoming, Resend(f)
      PROVE  Window!Discard(f)
  <2>1. m_frameData' = [m_frameData EXCEPT ![Index(f)] = BlankRecord]
    BY <1>3 DEF Resend, RingReset, BlankRecord
  <2>2. /\ Data' = [Data EXCEPT ![f] = BlankRecord]
        /\ Data[f] = m_frameData[Index(f)]
    BY <1>3, <2>1, UpdateRefines DEF Resend
  <2>3. QED
    BY <1>3, <2>2, SameOperators DEF Window!Discard, Resend, Data, RecordOf, Live, BlankRecord
<1>4. ASSUME GetFrameCommandList
      PROVE  Window!Execute
  BY <1>4, ExecuteRefines, SameOperators
  DEF Window!Execute, GetFrameCommandList, Data, RecordOf, Live, BlankRecord
<1>5. ASSUME UNCHANGED vars
      PROVE  UNCHANGED Window!vars
  BY <1>5 DEF vars, Window!vars
<1>6. QED
  BY <1>1, <1>2, <1>3, <1>4, <1>5, SameOperators DEF Next, Window!Next

(* Used as the ConnectionManager uses it, a ring of whatever size cannot be*)
(* told from a store with a record for every frame number.                 *)
THEOREM RingImplementsWindow == Spec => RingIsAWindow
  BY InitRefines, NextRefines, Invariance, PTL DEF Spec, RingIsAWindow, Window!Spec
=============================================================================
