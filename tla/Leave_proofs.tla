------------------------------ MODULE Leave_proofs ------------------------------
(***************************************************************************)
(* Proofs about Leave, for any number of players, any number of them       *)
(* leaving, any run ahead and any length of the game: the types, that no   *)
(* two machines see anybody leave in different frames or execute different *)
(* commands, and so play one LeavingGame; that whoever is behind can be    *)
(* helped; that what somebody lacks is not forgotten; and that nobody waits*)
(* in vain as long as the first router stays.                              *)
(***************************************************************************)
EXTENDS Leave, WellFoundedInduction, TLAPS

(* The relayed commands of one player, and who has not acked each.         *)
RelayedSet == UNION {[D -> (SUBSET Player) \ {{}}] : D \in SUBSET (Player \X Frame)}

PlayerType ==
  /\ localStatus \in [Player -> {"INGAME", "LEAVING", "LEFT", "POSTGAME"}]
  /\ frame \in [Player -> Frame] /\ plan \in [Player -> SUBSET Player]
  /\ leaveFrame \in [Player -> {0} \cup Frame]
DataType == data \in [Player -> SUBSET (Player \X Frame)] /\ pending \in [Player -> SUBSET Frame]
ExecutedType == executed \in [Player -> SUBSET (Frame \X Player)]
QueueType == queue \in [Player -> [Player -> SUBSET Message]]
RelayedType == relayed \in [Player -> RelayedSet]
Types == PlayerType /\ DataType /\ ExecutedType /\ QueueType /\ RelayedType

----------------------------------------------------------------------------
(* What the constants are.                                                 *)
LEMMA Constants ==
  /\ RunAhead \in Nat /\ RunAhead >= 1 /\ FRAMES_TO_KEEP \in Nat /\ FRAMES_TO_KEEP > RunAhead
  /\ FirstFrame \in Nat /\ MaxFrame \in Nat /\ FirstFrame > FRAMES_TO_KEEP
  /\ FirstFrame + RunAhead <= MaxFrame /\ LeaveBy \in Nat /\ LeaveBy + RunAhead + 1 < MaxFrame
BY FrameAssumption, BoundAssumption

(* Frames are numbers within the game.                                     *)
LEMMA Frames == \A f \in Frame : f \in Nat /\ f \in Int /\ f > 0 /\ f >= FirstFrame /\ f <= MaxFrame
BY Constants DEF Frame

(* A message is made of what it says.                                      *)
LEMMA MsgType ==
  ASSUME NEW s \in Player, NEW f \in Frame, NEW R \in SUBSET Player
  PROVE  Msg(s, f, R) \in Message /\ Msg(s, f, R).player = s /\ Msg(s, f, R).frame = f
BY DEF Msg, Message

(* What is added to send queues is what was there and what is put there.   *)
LEMMA AddType ==
  ASSUME NEW row \in [Player -> SUBSET Message], NEW out \in [Player -> SUBSET Message]
  PROVE  /\ Add(row, out) \in [Player -> SUBSET Message]
         /\ \A q \in Player : Add(row, out)[q] \subseteq row[q] \cup out[q]
BY DEF Add

(* A player sends its own commands of the frames named.                    *)
LEMMA SendType ==
  ASSUME NEW p \in Player, NEW members, NEW F \in SUBSET Frame
  PROVE  /\ SendLocalCommand(p, members, F) \in [Player -> SUBSET Message]
         /\ \A q \in Player : \A m \in SendLocalCommand(p, members, F)[q] :
              m.player = p /\ m.frame \in F
<1> DEFINE S == SendLocalCommand(p, members, F)
<1>1. ASSUME NEW q \in Player
      PROVE  S[q] \in SUBSET Message /\ \A m \in S[q] : m.player = p /\ m.frame \in F
  <2>1. S[q] \in {{}, {Msg(p, f, {q}) : f \in F}, {Msg(p, f, Player \ {p}) : f \in F}}
    BY DEF SendLocalCommand
  <2> HIDE DEF S
  <2>2. \A f \in F : f \in Frame
    OBVIOUS
  <2>3. \A m \in S[q] : \E f \in F : m = Msg(p, f, {q}) \/ m = Msg(p, f, Player \ {p})
    BY <2>1
  <2> QED
    BY <2>2, <2>3, MsgType
<1>2. S = [q \in Player |-> S[q]]
  BY DEF SendLocalCommand
<1> HIDE DEF S
<1> QED
  BY <1>1, <1>2 DEF S

(* The send queues after players have been seen leaving.                   *)
LEMMA LeaveQueueType ==
  ASSUME QueueType, DataType, NEW p \in Player, NEW leaving
  PROVE  /\ ProcessPlayerLeave(p, leaving) \in [Player -> SUBSET Message]
         /\ \A q \in Player : \A m \in ProcessPlayerLeave(p, leaving)[q] :
              m \in queue[p][q] \/ (m.player = p /\ m.frame \in pending[p])
<1> DEFINE out == [q \in Player |-> UNION {SendLocalCommand(p, plan[p] \ gone, pending[p])[q] :
                                             gone \in RoutersGone(p, leaving)}]
           row == Add(queue[p], out)
<1>1. queue[p] \in [Player -> SUBSET Message] /\ pending[p] \in SUBSET Frame
  BY DEF QueueType, DataType
<1>2. ASSUME NEW q \in Player, NEW m \in out[q]
      PROVE  m \in Message /\ m.player = p /\ m.frame \in pending[p]
  <2>1. PICK gone \in RoutersGone(p, leaving) :
          m \in SendLocalCommand(p, plan[p] \ gone, pending[p])[q]
    BY <1>2
  <2> QED
    BY <1>1, <2>1, SendType
<1>3. out \in [Player -> SUBSET Message]
  BY <1>2
<1>4. row \in [Player -> SUBSET Message] /\ \A q \in Player : row[q] \subseteq queue[p][q] \cup out[q]
  <2> HIDE DEF out
  <2> QED
    BY <1>1, <1>3, AddType
<1>5. ProcessPlayerLeave(p, leaving) = IF p \in leaving THEN ClearCommandsExceptFrom(p, row) ELSE row
  BY DEF ProcessPlayerLeave, ResendPendingCommands
<1> HIDE DEF row
<1>6. ClearCommandsExceptFrom(p, row) \in [Player -> SUBSET Message]
      /\ \A q \in Player : ClearCommandsExceptFrom(p, row)[q] \subseteq row[q]
  BY <1>4 DEF ClearCommandsExceptFrom
<1>7. ProcessPlayerLeave(p, leaving) \in [Player -> SUBSET Message]
      /\ \A q \in Player : ProcessPlayerLeave(p, leaving)[q] \subseteq row[q]
  BY <1>4, <1>5, <1>6
<1> QED
  BY <1>2, <1>4, <1>7

----------------------------------------------------------------------------
(* What the ack of p does at the player it goes to.                        *)
LEMMA AckStage2Type ==
  ASSUME NEW rel \in [Player -> RelayedSet], NEW r \in Player, NEW p \in Player, NEW d
  PROVE  AfterAckStage2(rel, r, p, d) \in [Player -> RelayedSet]
<1>1. PICK D \in SUBSET (Player \X Frame) : rel[r] \in [D -> (SUBSET Player) \ {{}}]
  BY DEF RelayedSet
<1>2. CASE d \notin DOMAIN rel[r]
  BY <1>2 DEF AfterAckStage2
<1>3. CASE d \in DOMAIN rel[r] /\ StillToAck(rel, r, p, d) # {}
  <2>1. rel[r][d] \ {p} \in (SUBSET Player) \ {{}}
    BY <1>1, <1>3 DEF StillToAck
  <2>2. [rel[r] EXCEPT ![d] = @ \ {p}] \in [D -> (SUBSET Player) \ {{}}]
    BY <1>1, <2>1
  <2>3. [rel[r] EXCEPT ![d] = @ \ {p}] \in RelayedSet
    BY <2>2 DEF RelayedSet
  <2>4. AfterAckStage2(rel, r, p, d) = [rel EXCEPT ![r] = [rel[r] EXCEPT ![d] = @ \ {p}]]
    BY <1>3 DEF AfterAckStage2
  <2> QED
    BY <2>3, <2>4
<1>4. CASE d \in DOMAIN rel[r] /\ StillToAck(rel, r, p, d) = {}
  <2> DEFINE left == [e \in DOMAIN rel[r] \ {d} |-> rel[r][e]]
  <2>1. left \in [D \ {d} -> (SUBSET Player) \ {{}}]
    BY <1>1
  <2>2. left \in RelayedSet
    BY <2>1 DEF RelayedSet
  <2>3. AfterAckStage2(rel, r, p, d) = [rel EXCEPT ![r] = left]
    BY <1>4 DEF AfterAckStage2
  <2> QED
    BY <2>2, <2>3
<1> QED
  BY <1>2, <1>3, <1>4

(* What p notes when it relays a message.                                  *)
LEMMA RelayType ==
  ASSUME RelayedType, NEW p \in Player, NEW m \in Message
  PROVE  AfterRelay(p, m, <<m.player, m.frame>>) \in [Player -> RelayedSet]
<1> DEFINE d == <<m.player, m.frame>>
           more == [e \in DOMAIN relayed[p] \cup {d} |-> IF e = d THEN RelayTo(p, m) ELSE relayed[p][e]]
<1>1. PICK D \in SUBSET (Player \X Frame) : relayed[p] \in [D -> (SUBSET Player) \ {{}}]
  BY DEF RelayedType, RelayedSet
<1>2. d \in Player \X Frame
  BY DEF Message
<1>3. CASE RelayTo(p, m) = {} \/ OutOfDate(p, m) \/ d \in DOMAIN relayed[p]
  BY <1>3 DEF AfterRelay, RelayedType
<1>4. CASE RelayTo(p, m) # {} /\ ~OutOfDate(p, m) /\ d \notin DOMAIN relayed[p]
  <2>1. RelayTo(p, m) \in (SUBSET Player) \ {{}}
    <3>1. m.relay \in SUBSET Player
      BY DEF Message
    <3>2. RelayTo(p, m) \subseteq m.relay
      BY Zenon DEF RelayTo
    <3> QED
      BY <1>4, <3>1, <3>2
  <2> HIDE DEF d
  <2>2. more \in [D \cup {d} -> (SUBSET Player) \ {{}}]
    BY <1>1, <2>1
  <2>3. more \in RelayedSet
    BY <1>2, <2>2 DEF RelayedSet
  <2>4. AfterRelay(p, m, d) = [relayed EXCEPT ![p] = more]
    BY <1>4 DEF AfterRelay
  <2> QED
    BY <2>3, <2>4 DEF RelayedType, d
<1> QED
  BY <1>3, <1>4

(* The queues after a message has been relayed and acked: what is in them  *)
(* was there, or says of its player and frame what the message says.       *)
LEMMA ReceiveQueue ==
  ASSUME PlayerType, QueueType, NEW p \in Player, NEW q \in Player, NEW m \in queue[q][p],
         Receive(p, q, m)
  PROVE  /\ QueueType'
         /\ \A t, u \in Player : \A n \in queue'[t][u] :
              n \in queue[t][u] \/ (n.player = m.player /\ n.frame = m.frame)
<1> DEFINE r == AckTo(p, m)
           heard == r \in Open(p, plan[p]) /\ localStatus[r] # "POSTGAME"
           relays == [t \in Player |->
                        IF t \in RelayTo(p, m) /\ ~OutOfDate(p, m) THEN {Msg(m.player, m.frame, {t})} ELSE {}]
           net == [queue EXCEPT ![p] = Add(@, relays)]
<1>1. m \in Message /\ m.player \in Player /\ m.frame \in Frame
  BY DEF QueueType, Message
<1>2. relays \in [Player -> SUBSET Message]
      /\ \A t \in Player : \A n \in relays[t] : n.player = m.player /\ n.frame = m.frame
  BY <1>1, MsgType
<1>3. queue[p] \in [Player -> SUBSET Message]
  BY DEF QueueType
<1>4. Add(queue[p], relays) \in [Player -> SUBSET Message]
      /\ \A t \in Player : Add(queue[p], relays)[t] \subseteq queue[p][t] \cup relays[t]
  <2> HIDE DEF relays
  <2> QED
    BY <1>2, <1>3, AddType
<1>5. queue' = IF heard THEN Acked(net, p, m) ELSE net
  BY DEF Receive
<1>6. heard => r \in Player
  BY DEF Open, PlayerType
<1>7. net \in [Player -> [Player -> SUBSET Message]]
      /\ \A t, u \in Player : net[t][u] = IF t = p THEN Add(queue[p], relays)[u] ELSE queue[t][u]
  <2> HIDE DEF relays
  <2> QED
    BY <1>4 DEF QueueType
<1>8. \A t, u \in Player : \A n \in net[t][u] :
        n \in queue[t][u] \/ (n.player = m.player /\ n.frame = m.frame)
  <2> HIDE DEF net, relays
  <2> QED
    BY <1>2, <1>4, <1>7
<1>9. CASE heard
  <2>1. Acked(net, p, m) = [net EXCEPT ![r][p] = {n \in @ : ~Same(m, n)}]
    BY DEF Acked
  <2> HIDE DEF net, r
  <2>2. Acked(net, p, m) \in [Player -> [Player -> SUBSET Message]]
        /\ \A t, u \in Player : Acked(net, p, m)[t][u] \subseteq net[t][u]
    BY <1>6, <1>7, <1>9, <2>1
  <2> QED
    BY <1>5, <1>8, <1>9, <2>2 DEF QueueType
<1>10. CASE ~heard
  <2> HIDE DEF net
  <2> QED
    BY <1>5, <1>7, <1>8, <1>10 DEF QueueType
<1> QED
  BY <1>9, <1>10

----------------------------------------------------------------------------
(* The types hold at first.                                                *)
LEMMA TypesInit == Init => Types
<1> SUFFICES ASSUME Init PROVE Types
  OBVIOUS
<1>1. FirstFrame \in Frame /\ FirstFrame .. FirstFrame + RunAhead - 1 \subseteq Frame
  BY Constants DEF Frame
<1>2. PlayerType
  BY <1>1 DEF Init, PlayerType
<1>3. DataType
  <2>1. Player \X (FirstFrame .. FirstFrame + RunAhead - 1) \in SUBSET (Player \X Frame)
    BY <1>1
  <2> QED
    BY <2>1 DEF Init, DataType
<1>4. ExecutedType /\ QueueType
  BY DEF Init, ExecutedType, QueueType
<1>5. RelayedType
  <2>1. [d \in {} |-> {}] \in [{} -> (SUBSET Player) \ {{}}]
    OBVIOUS
  <2>2. [d \in {} |-> {}] \in RelayedSet
    BY <2>1 DEF RelayedSet
  <2> QED
    BY <2>2 DEF Init, RelayedType
<1> QED
  BY <1>2, <1>3, <1>4, <1>5 DEF Types

(* The frames a leaver announces.                                          *)
LEMMA LeavingTypes ==
  ASSUME Types, NEW p \in Player, HandleLocalPlayerLeaving(p)
  PROVE  /\ LastFrames(p) \in SUBSET Frame /\ frame[p] + RunAhead + 1 \in Frame
         /\ Types'
<1>1. frame[p] \in Frame /\ frame[p] <= LeaveBy
  BY DEF HandleLocalPlayerLeaving, Types, PlayerType
<1>2. LastFrames(p) \in SUBSET Frame /\ frame[p] + RunAhead + 1 \in Frame
  BY <1>1, Constants DEF Frame, LastFrames
<1>3. PlayerType'
  BY <1>2 DEF HandleLocalPlayerLeaving, Types, PlayerType
<1>4. DataType'
  <2>1. data' \in [Player -> SUBSET (Player \X Frame)]
    <3>1. data[p] \cup ({p} \X LastFrames(p)) \in SUBSET (Player \X Frame)
      BY <1>2 DEF Types, DataType
    <3> QED
      BY <3>1 DEF HandleLocalPlayerLeaving, Types, DataType
  <2>2. Pending(p, plan[p], LastFrames(p)) \in SUBSET Frame
    BY <1>2 DEF Pending, Types, DataType
  <2> QED
    BY <2>1, <2>2 DEF HandleLocalPlayerLeaving, Types, DataType
<1>5. QueueType'
  <2>1. SendLocalCommand(p, plan[p], LastFrames(p)) \in [Player -> SUBSET Message]
    BY <1>2, SendType
  <2>2. Add(queue[p], SendLocalCommand(p, plan[p], LastFrames(p))) \in [Player -> SUBSET Message]
    BY <2>1, AddType DEF Types, QueueType
  <2> QED
    BY <2>2 DEF HandleLocalPlayerLeaving, Types, QueueType
<1>6. ExecutedType' /\ RelayedType'
  BY DEF HandleLocalPlayerLeaving, Types, ExecutedType, RelayedType
<1> QED
  BY <1>2, <1>3, <1>4, <1>5, <1>6 DEF Types

(* What a frame that is executed makes of the state.                       *)
Leaving(p) == {s \in plan[p] : leaveFrame[s] = frame[p]}
Rest(p) == plan[p] \ Leaving(p)
Announced(p) == {f \in {frame[p] + RunAhead} : localStatus[p] = "INGAME" /\ f <= MaxFrame}
(* The conjuncts of ExecuteFrame, by these names.                          *)
LEMMA ExecuteParts ==
  ASSUME NEW p \in Player, ExecuteFrame(p)
  PROVE  /\ Ready(p)
         /\ executed' = [executed EXCEPT ![p] = executed[p] \cup {<<frame[p], d[1]>> : d \in {e \in data[p] : e[2] = frame[p]}}]
         /\ frame' = [frame EXCEPT ![p] = frame[p] + 1]
         /\ plan' = [plan EXCEPT ![p] = Rest(p)]
         /\ localStatus' = [localStatus EXCEPT ![p] = IF p \in Leaving(p) THEN "LEFT" ELSE localStatus[p]]
         /\ data' = [data EXCEPT ![p] = Kept(p, Rest(p), frame[p] + 1) \cup ({p} \X Announced(p))]
         /\ queue' = [queue EXCEPT ![p] =
                        IF Announced(p) = {} THEN ProcessPlayerLeave(p, Leaving(p))
                        ELSE Add(ProcessPlayerLeave(p, Leaving(p)), SendLocalCommand(p, Rest(p), Announced(p)))]
         /\ pending' = [pending EXCEPT ![p] =
                          IF Announced(p) = {} THEN pending[p] ELSE Pending(p, Rest(p), Announced(p))]
         /\ UNCHANGED <<leaveFrame, relayed>>
BY DEF ExecuteFrame, Leaving, Rest, Announced

(* A frame that is executed keeps the types.                               *)
LEMMA ExecuteTypes ==
  ASSUME Types, NEW p \in Player, ExecuteFrame(p)
  PROVE  Types' /\ Announced(p) \in SUBSET Frame /\ frame[p] < MaxFrame
<1>1. frame[p] \in Frame /\ frame[p] < MaxFrame
  BY ExecuteParts DEF Ready, Types, PlayerType
<1>2. Announced(p) \in SUBSET Frame /\ frame[p] + 1 \in Frame
  BY <1>1, Constants DEF Announced, Frame
<1>3. PlayerType'
  <2>1. Rest(p) \in SUBSET Player
    BY DEF Rest, Types, PlayerType
  <2>2. (IF p \in Leaving(p) THEN "LEFT" ELSE localStatus[p]) \in {"INGAME", "LEAVING", "LEFT", "POSTGAME"}
    BY DEF Types, PlayerType
  <2> QED
    BY <1>2, <2>1, <2>2, ExecuteParts DEF Types, PlayerType
<1>4. DataType'
  <2>1. Kept(p, Rest(p), frame[p] + 1) \cup ({p} \X Announced(p)) \in SUBSET (Player \X Frame)
    BY <1>2 DEF Kept, Types, DataType
  <2>2. Pending(p, Rest(p), Announced(p)) \in SUBSET Frame
    BY <1>2 DEF Pending, Types, DataType
  <2> QED
    BY <2>1, <2>2, ExecuteParts DEF Types, DataType
<1>5. ExecutedType'
  <2>1. {<<frame[p], d[1]>> : d \in {e \in data[p] : e[2] = frame[p]}} \in SUBSET (Frame \X Player)
    BY <1>1 DEF Types, DataType
  <2> QED
    BY <2>1, ExecuteParts DEF Types, ExecutedType
<1>6. QueueType'
  <2> DEFINE row == ProcessPlayerLeave(p, Leaving(p))
  <2>1. row \in [Player -> SUBSET Message]
    BY LeaveQueueType DEF Types
  <2>2. SendLocalCommand(p, Rest(p), Announced(p)) \in [Player -> SUBSET Message]
    BY <1>2, SendType
  <2>3. Add(row, SendLocalCommand(p, Rest(p), Announced(p))) \in [Player -> SUBSET Message]
    BY <2>1, <2>2, AddType
  <2> QED
    BY <2>1, <2>3, ExecuteParts DEF Types, QueueType
<1>7. RelayedType'
  BY ExecuteParts DEF Types, RelayedType
<1> QED
  BY <1>1, <1>2, <1>3, <1>4, <1>5, <1>6, <1>7 DEF Types

(* So does a message that is received.                                     *)
LEMMA ReceiveTypes ==
  ASSUME Types, NEW p \in Player, NEW q \in Player, NEW m \in queue[q][p], Receive(p, q, m)
  PROVE  Types'
<1> DEFINE d == <<m.player, m.frame>>
           r == AckTo(p, m)
           rel == AfterRelay(p, m, d)
           heard == r \in Open(p, plan[p]) /\ localStatus[r] # "POSTGAME"
<1>1. m \in Message /\ d \in Player \X Frame
  BY DEF Types, QueueType, Message
<1>2. PlayerType' /\ ExecutedType'
  BY DEF Receive, Types, PlayerType, ExecutedType
<1>3. QueueType'
  BY ReceiveQueue DEF Types
<1>4. DataType'
  <2>1. data' \in [Player -> SUBSET (Player \X Frame)]
    BY <1>1 DEF Receive, Types, DataType
  <2>2. pending' \in [Player -> SUBSET Frame]
    BY DEF Receive, Types, DataType
  <2> QED
    BY <2>1, <2>2 DEF DataType
<1>5. RelayedType'
  <2>1. rel \in [Player -> RelayedSet]
    BY <1>1, RelayType DEF Types
  <2>2. heard => r \in Player
    BY DEF Open, Types, PlayerType
  <2>3. relayed' = rel \/ (heard /\ relayed' = AfterAckStage2(rel, r, p, d))
    BY DEF Receive
  <2> HIDE DEF rel, r, d
  <2>4. r \in Player => AfterAckStage2(rel, r, p, d) \in [Player -> RelayedSet]
    BY <2>1, AckStage2Type
  <2> QED
    BY <2>1, <2>2, <2>3, <2>4 DEF RelayedType
<1> QED
  BY <1>2, <1>3, <1>4, <1>5 DEF Types

(* What catching up, giving up and leaving the network leave in the send   *)
(* queues; they touch nothing else but the status.                         *)
LEMMA CatchUpQueue ==
  ASSUME Types, NEW p \in Player, NEW q \in Player, CatchUp(p, q)
  PROVE  /\ QueueType'
         /\ \A t, u \in Player : \A m \in queue'[t][u] :
              m \in queue[t][u] \/ <<m.player, m.frame>> \in data[p]
<1> DEFINE help == [t \in Player |-> IF t = q THEN SendFrameDataToPlayer(p, q) ELSE {}]
<1>1. ASSUME NEW m \in SendFrameDataToPlayer(p, q)
      PROVE  m \in Message /\ <<m.player, m.frame>> \in data[p]
  <2>1. PICK d \in data[p] : m = Msg(d[1], d[2], {q})
    BY <1>1 DEF SendFrameDataToPlayer
  <2>2. d[1] \in Player /\ d[2] \in Frame /\ d = <<d[1], d[2]>>
    BY DEF Types, DataType
  <2> QED
    BY <2>1, <2>2, MsgType
<1>2. help \in [Player -> SUBSET Message]
  BY <1>1
<1>3. \A t \in Player : \A m \in help[t] : <<m.player, m.frame>> \in data[p]
  BY <1>1
<1>4. queue' = [queue EXCEPT ![p] = Add(queue[p], help)]
  BY DEF CatchUp
<1> HIDE DEF help
<1>5. Add(queue[p], help) \in [Player -> SUBSET Message]
      /\ \A t \in Player : Add(queue[p], help)[t] \subseteq queue[p][t] \cup help[t]
  BY <1>2, AddType DEF Types, QueueType
<1> QED
  BY <1>3, <1>4, <1>5 DEF Types, QueueType

(* Giving up only takes messages away.                                     *)
LEMMA GiveUpQueue ==
  ASSUME Types, NEW p \in Player, NEW q \in Player, GiveUp(p, q)
  PROVE  QueueType' /\ \A t, u \in Player : queue'[t][u] \subseteq queue[t][u]
BY DEF GiveUp, Types, QueueType

(* Every step keeps the types.                                             *)
LEMMA TypesNext == Types /\ [Next]_vars => Types'
<1> SUFFICES ASSUME Types, [Next]_vars PROVE Types'
  OBVIOUS
<1>1. ASSUME NEW p \in Player, HandleLocalPlayerLeaving(p) PROVE Types'
  BY <1>1, LeavingTypes
<1>2. ASSUME NEW p \in Player, ExecuteFrame(p) PROVE Types'
  BY <1>2, ExecuteTypes
<1>3. ASSUME NEW p \in Player, EndOfGameCheck(p) PROVE Types'
  BY <1>3 DEF EndOfGameCheck, Types, PlayerType, DataType, ExecutedType, QueueType, RelayedType
<1>4. ASSUME NEW p \in Player, NEW q \in Player, NEW m \in queue[q][p], Receive(p, q, m) PROVE Types'
  BY <1>4, ReceiveTypes
<1>5. ASSUME NEW p \in Player, NEW q \in Player, CatchUp(p, q) PROVE Types'
  BY <1>5, CatchUpQueue DEF CatchUp, Types, PlayerType, DataType, ExecutedType, RelayedType
<1>6. ASSUME NEW p \in Player, NEW q \in Player, GiveUp(p, q) PROVE Types'
  BY <1>6, GiveUpQueue DEF GiveUp, Types, PlayerType, DataType, ExecutedType, RelayedType
<1>7. CASE UNCHANGED vars
  BY <1>7 DEF vars, Types, PlayerType, DataType, ExecutedType, QueueType, RelayedType
<1> QED
  BY <1>1, <1>2, <1>3, <1>4, <1>5, <1>6, <1>7 DEF Next

(* The types are those of TypeOK.                                          *)
LEMMA TypesImply == Types => TypeOK
<1> SUFFICES ASSUME Types PROVE TypeOK
  OBVIOUS
<1>1. ASSUME NEW p \in Player, NEW d \in DOMAIN relayed[p]
      PROVE  d \in Player \X Frame /\ relayed[p][d] \in (SUBSET Player) \ {{}}
  <2>1. PICK D \in SUBSET (Player \X Frame) : relayed[p] \in [D -> (SUBSET Player) \ {{}}]
    BY DEF Types, RelayedType, RelayedSet
  <2> QED
    BY <2>1
<1> QED
  BY <1>1 DEF TypeOK, Types, PlayerType, DataType, ExecutedType, QueueType

(* Every variable keeps its type: no frame outside the game is scheduled,  *)
(* and a command relayed stays noted as long as somebody has to ack it.    *)
THEOREM TypeCorrect == Spec => []TypeOK
<1>1. Spec => []Types
  BY TypesInit, TypesNext, PTL DEF Spec
<1> QED
  BY <1>1, TypesImply, PTL

----------------------------------------------------------------------------
(* The invariant.  The last frame of s of which there is data anywhere.    *)
Last(s) == IF leaveFrame[s] = 0 THEN frame[s] + RunAhead - 1 ELSE leaveFrame[s]

(* No data are further ahead than their player has announced.              *)
DataBound == \A p \in Player : \A d \in data[p] : d[2] <= Last(d[1])
QueueBound == \A t, u \in Player : \A m \in queue[t][u] : m.frame <= Last(m.player)
PendingBound == \A p \in Player : \A f \in pending[p] : f <= Last(p)
(* Whoever waits for a player is no further ahead than its run ahead.      *)
Lead == \A p, s \in Player : leaveFrame[s] = 0 => frame[p] <= frame[s] + RunAhead
(* The players waited for are those whose leave frame has not passed.      *)
PlanBound == \A p \in Player : plan[p] = {s \in Player : leaveFrame[s] = 0 \/ frame[p] <= leaveFrame[s]}
(* The commands of exactly those have been executed.                       *)
ExecutedBound ==
  \A p \in Player :
    executed[p] = {e \in Frame \X Player :
                     e[1] < frame[p] /\ (leaveFrame[e[2]] = 0 \/ e[1] <= leaveFrame[e[2]])}
(* What was executed of late is kept.                                      *)
KeptBound ==
  \A p \in Player : \A e \in executed[p] :
    /\ e[1] >= frame[p] - FRAMES_TO_KEEP
    /\ e[2] \in plan[p] \/ frame[p] < QuitFrame(e[2])
    => <<e[2], e[1]>> \in data[p]
(* Whoever has not left yet has not announced it.                          *)
StatusBound == \A p \in Player : localStatus[p] = "INGAME" <=> leaveFrame[p] = 0
Inv == /\ DataBound /\ QueueBound /\ PendingBound /\ Lead
       /\ PlanBound /\ ExecutedBound /\ KeptBound /\ StatusBound

(* It holds at first.                                                      *)
LEMMA InvInit == Init => Inv
<1> SUFFICES ASSUME Init PROVE Inv
  OBVIOUS
<1>1. frame = [p \in Player |-> FirstFrame] /\ leaveFrame = [p \in Player |-> 0]
      /\ plan = [p \in Player |-> Player] /\ executed = [p \in Player |-> {}]
  BY DEF Init
<1>2. \A s \in Player : Last(s) = FirstFrame + RunAhead - 1
  BY <1>1 DEF Last
<1>3. DataBound
  <2>1. \A p \in Player : data[p] = Player \X (FirstFrame .. FirstFrame + RunAhead - 1)
    BY DEF Init
  <2> QED
    BY <1>2, <2>1, Constants DEF DataBound
<1>4. QueueBound /\ PendingBound /\ KeptBound
  BY DEF Init, QueueBound, PendingBound, KeptBound
<1>5. Lead /\ PlanBound
  BY <1>1, Constants DEF Lead, PlanBound
<1>6. ExecutedBound
  <2>1. \A e \in Frame \X Player : ~(e[1] < FirstFrame)
    BY Frames, Constants
  <2> QED
    BY <1>1, <2>1 DEF ExecutedBound
<1>7. StatusBound
  BY DEF Init, StatusBound
<1> QED
  BY <1>3, <1>4, <1>5, <1>6, <1>7 DEF Inv

(* What was bounded by the last frames stays so when they only grow.       *)
LEMMA BoundsGrow ==
  ASSUME Types, Types', DataBound, QueueBound, PendingBound,
         \A s \in Player : Last(s)' >= Last(s)
  PROVE  /\ \A p \in Player : \A d \in data[p] : d[2] <= Last(d[1])'
         /\ \A t, u \in Player : \A m \in queue[t][u] : m.frame <= Last(m.player)'
         /\ \A p \in Player : \A f \in pending[p] : f <= Last(p)'
<1>1. ASSUME NEW s \in Player PROVE Last(s) \in Int /\ Last(s)' \in Int
  <2>1. frame[s] \in Int /\ frame'[s] \in Int /\ leaveFrame[s] \in Int /\ leaveFrame'[s] \in Int
    BY Frames DEF Types, PlayerType
  <2> QED
    BY <2>1, Constants DEF Last
<1>2. ASSUME NEW p \in Player, NEW d \in data[p]
      PROVE  d[2] <= Last(d[1])'
  <2>1. d[1] \in Player /\ d[2] \in Int
    BY Frames DEF Types, DataType
  <2>2. d[2] <= Last(d[1])
    BY DEF DataBound
  <2> HIDE DEF Last
  <2> QED
    BY <1>1, <2>1, <2>2
<1>3. ASSUME NEW t \in Player, NEW u \in Player, NEW m \in queue[t][u]
      PROVE  m.frame <= Last(m.player)'
  <2>1. m.player \in Player /\ m.frame \in Int
    BY Frames DEF Types, QueueType, Message
  <2>2. m.frame <= Last(m.player)
    BY DEF QueueBound
  <2> QED
    BY <1>1, <2>1, <2>2
<1>4. ASSUME NEW p \in Player, NEW f \in pending[p]
      PROVE  f <= Last(p)'
  <2>1. f \in Int
    BY Frames DEF Types, DataType
  <2> QED
    BY <1>1, <2>1 DEF PendingBound
<1> QED
  BY <1>2, <1>3, <1>4

(* A player announces its leaving.                                         *)
LEMMA InvLeaving ==
  ASSUME Types, Inv, NEW p \in Player, HandleLocalPlayerLeaving(p)
  PROVE  Inv'
<1> DEFINE L == frame[p] + RunAhead + 1
<1>1. Types' /\ LastFrames(p) \in SUBSET Frame /\ L \in Frame
  BY LeavingTypes
<1>2. localStatus[p] = "INGAME" /\ leaveFrame[p] = 0
  BY DEF HandleLocalPlayerLeaving, Inv, StatusBound
<1>3. leaveFrame' = [leaveFrame EXCEPT ![p] = L] /\ UNCHANGED <<frame, plan, executed>>
  BY DEF HandleLocalPlayerLeaving
<1>4. \A s \in Player : frame[s] \in Nat /\ leaveFrame[s] \in Nat /\ frame[s] > 0
  BY Frames DEF Types, PlayerType
<1>5. \A s \in Player : leaveFrame'[s] = IF s = p THEN L ELSE leaveFrame[s]
  BY <1>3 DEF Types, PlayerType
<1>6. L \in Nat /\ L > 0 /\ \A q \in Player : frame[q] < L
  BY <1>1, <1>2, <1>4, Constants DEF Inv, Lead
<1>7. \A s \in Player : Last(s)' >= Last(s)
  BY <1>2, <1>3, <1>4, <1>5, Constants DEF Last
<1>8. Last(p)' = L /\ \A f \in LastFrames(p) : f <= L
  BY <1>4, <1>5, <1>6, Constants DEF Last, LastFrames
<1>9. DataBound'
  <2>1. ASSUME NEW q \in Player, NEW d \in data'[q]
        PROVE  d \in data[q] \/ (d[1] = p /\ d[2] \in LastFrames(p))
    BY DEF HandleLocalPlayerLeaving, Types, DataType
  <2> QED
    BY <1>1, <1>7, <1>8, <2>1, BoundsGrow DEF Inv, DataBound
<1>10. QueueBound'
  <2>1. ASSUME NEW t \in Player, NEW u \in Player, NEW m \in queue'[t][u]
        PROVE  m \in queue[t][u] \/ (m.player = p /\ m.frame \in LastFrames(p))
    <3>1. SendLocalCommand(p, plan[p], LastFrames(p)) \in [Player -> SUBSET Message]
          /\ \A n \in SendLocalCommand(p, plan[p], LastFrames(p))[u] :
               n.player = p /\ n.frame \in LastFrames(p)
      BY <1>1, SendType
    <3>2. Add(queue[p], SendLocalCommand(p, plan[p], LastFrames(p)))[u]
          \subseteq queue[p][u] \cup SendLocalCommand(p, plan[p], LastFrames(p))[u]
      BY <3>1, AddType DEF Types, QueueType
    <3>3. queue' = [queue EXCEPT ![p] = Add(queue[p], SendLocalCommand(p, plan[p], LastFrames(p)))]
      BY DEF HandleLocalPlayerLeaving
    <3> QED
      BY <2>1, <3>1, <3>2, <3>3 DEF Types, QueueType
  <2> QED
    BY <1>1, <1>7, <1>8, <2>1, BoundsGrow DEF Inv, QueueBound
<1>11. PendingBound'
  <2>1. ASSUME NEW q \in Player, NEW f \in pending'[q]
        PROVE  f \in pending[q] \/ (q = p /\ f \in LastFrames(p))
    BY <2>1 DEF HandleLocalPlayerLeaving, Pending, Types, DataType
  <2> QED
    BY <1>1, <1>7, <1>8, <2>1, BoundsGrow DEF Inv, PendingBound
<1>12. Lead'
  BY <1>3, <1>5, <1>6 DEF Inv, Lead
<1>13. PlanBound'
  BY <1>2, <1>3, <1>4, <1>5, <1>6 DEF Inv, PlanBound
<1>14. ExecutedBound'
  <2> SUFFICES ASSUME NEW q \in Player, NEW e \in Frame \X Player, e[1] < frame[q]
               PROVE  (leaveFrame'[e[2]] = 0 \/ e[1] <= leaveFrame'[e[2]])
                      <=> (leaveFrame[e[2]] = 0 \/ e[1] <= leaveFrame[e[2]])
    BY <1>3 DEF Inv, ExecutedBound
  <2>1. e[2] \in Player /\ e[1] \in Nat
    BY Frames
  <2> QED
    BY <1>2, <1>4, <1>5, <1>6, <2>1
<1>15. KeptBound'
  <2> SUFFICES ASSUME NEW q \in Player, NEW e \in executed[q], e[1] >= frame[q] - FRAMES_TO_KEEP,
                      e[2] \in plan[q] \/ frame[q] < QuitFrame(e[2])'
               PROVE  <<e[2], e[1]>> \in data'[q]
    BY <1>3 DEF KeptBound
  <2>1. e[2] \in Player
    BY DEF Types, ExecutedType
  <2>2. e[2] \in plan[q] \/ frame[q] < QuitFrame(e[2])
    BY <1>2, <1>5, <2>1 DEF Inv, PlanBound, QuitFrame
  <2>3. <<e[2], e[1]>> \in data[q]
    BY <2>2 DEF Inv, KeptBound
  <2>4. data[q] \subseteq data'[q]
    BY DEF HandleLocalPlayerLeaving, Types, DataType
  <2> QED
    BY <2>3, <2>4
<1>16. StatusBound'
  BY <1>5, <1>6 DEF HandleLocalPlayerLeaving, Inv, StatusBound, Types, PlayerType
<1> QED
  BY <1>9, <1>10, <1>11, <1>12, <1>13, <1>14, <1>15, <1>16 DEF Inv

(* A frame is executed.                                                    *)
LEMMA InvExecute ==
  ASSUME Types, Inv, NEW p \in Player, ExecuteFrame(p)
  PROVE  Inv'
<1> DEFINE F == frame[p]
<1>1. Types' /\ Announced(p) \in SUBSET Frame /\ F < MaxFrame
  BY ExecuteTypes
<1>2. \A s \in Player : frame[s] \in Nat /\ leaveFrame[s] \in Nat /\ frame[s] > 0 /\ frame[s] \in Frame
  BY Frames DEF Types, PlayerType
<1>3. leaveFrame' = leaveFrame /\ \A s \in Player : frame'[s] = IF s = p THEN F + 1 ELSE frame[s]
  BY ExecuteParts DEF Types, PlayerType
<1>4. \A s \in plan[p] : s \in Player /\ <<s, F>> \in data[p] /\ F <= Last(s)
  <2>1. \A s \in plan[p] : s \in Player /\ <<s, F>> \in data[p]
    BY ExecuteParts DEF Ready, Types, PlayerType
  <2> QED
    BY <2>1 DEF Inv, DataBound
<1>5. Leaving(p) = {s \in plan[p] : leaveFrame[s] = F} /\ Rest(p) = plan[p] \ Leaving(p)
  BY DEF Leaving, Rest
<1>6. \A f \in Announced(p) : f = F + RunAhead /\ leaveFrame[p] = 0 /\ f <= Last(p)'
  BY <1>2, <1>3, Constants DEF Announced, Last, Inv, StatusBound
<1>7. \A s \in Player : Last(s)' >= Last(s)
  BY <1>2, <1>3, Constants DEF Last
<1>8. DataBound'
  <2>1. ASSUME NEW q \in Player, NEW d \in data'[q]
        PROVE  d \in data[q] \/ (d[1] = p /\ d[2] \in Announced(p))
    <3>1. data'[q] = IF q = p THEN Kept(p, Rest(p), F + 1) \cup ({p} \X Announced(p)) ELSE data[q]
      BY ExecuteParts DEF Types, DataType
    <3> QED
      BY <2>1, <3>1 DEF Kept
  <2> QED
    BY <1>1, <1>6, <1>7, <2>1, BoundsGrow DEF Inv, DataBound
<1>9. QueueBound'
  <2> DEFINE row == ProcessPlayerLeave(p, Leaving(p))
             sent == SendLocalCommand(p, Rest(p), Announced(p))
  <2>1. ASSUME NEW t \in Player, NEW u \in Player, NEW m \in queue'[t][u]
        PROVE  \/ m \in queue[t][u]
               \/ m.player = p /\ m.frame \in pending[p]
               \/ m.player = p /\ m.frame \in Announced(p)
    <3>1. row \in [Player -> SUBSET Message]
          /\ \A n \in row[u] : n \in queue[p][u] \/ (n.player = p /\ n.frame \in pending[p])
      BY LeaveQueueType DEF Types
    <3>2. sent \in [Player -> SUBSET Message]
          /\ \A n \in sent[u] : n.player = p /\ n.frame \in Announced(p)
      BY <1>1, SendType
    <3>3. queue'[t] = IF t # p THEN queue[t] ELSE IF Announced(p) = {} THEN row ELSE Add(row, sent)
      BY ExecuteParts DEF Types, QueueType
    <3> HIDE DEF row, sent
    <3>4. Add(row, sent)[u] \subseteq row[u] \cup sent[u]
      BY <3>1, <3>2, AddType
    <3> QED
      BY <2>1, <3>1, <3>2, <3>3, <3>4
  <2> QED
    BY <1>1, <1>6, <1>7, <2>1, BoundsGrow DEF Inv, QueueBound
<1>10. PendingBound'
  <2>1. ASSUME NEW q \in Player, NEW f \in pending'[q]
        PROVE  f \in pending[q] \/ (q = p /\ f \in Announced(p))
    <3>1. pending'[q] = IF q = p /\ Announced(p) # {} THEN Pending(p, Rest(p), Announced(p)) ELSE pending[q]
      BY ExecuteParts DEF Types, DataType
    <3> QED
      BY <2>1, <3>1 DEF Pending
  <2> QED
    BY <1>1, <1>6, <1>7, <2>1, BoundsGrow DEF Inv, PendingBound
<1>11. Lead'
  <2> SUFFICES ASSUME NEW q \in Player, NEW s \in Player, leaveFrame[s] = 0
               PROVE  frame'[q] <= frame'[s] + RunAhead
    BY <1>3 DEF Lead
  <2>1. frame[q] <= frame[s] + RunAhead
    BY DEF Inv, Lead
  <2>2. F <= frame[s] + RunAhead - 1
    BY <1>4 DEF Inv, PlanBound, Last
  <2> QED
    BY <1>2, <1>3, <2>1, <2>2, Constants
<1>12. PlanBound'
  <2>1. plan' = [plan EXCEPT ![p] = Rest(p)]
    BY ExecuteParts
  <2>2. Rest(p) = {s \in Player : leaveFrame[s] = 0 \/ F + 1 <= leaveFrame[s]}
    BY <1>2, <1>5 DEF Inv, PlanBound
  <2> QED
    BY <1>2, <1>3, <2>1, <2>2 DEF Inv, PlanBound, Types, PlayerType
<1>13. executed' = [executed EXCEPT ![p] = executed[p] \cup {<<F, d[1]>> : d \in {e \in data[p] : e[2] = F}}]
  BY ExecuteParts
<1>14. ExecutedBound'
  <2>1. {<<F, d[1]>> : d \in {e \in data[p] : e[2] = F}} = {F} \X plan[p]
    <3>1. ASSUME NEW d \in data[p], d[2] = F
          PROVE  d[1] \in plan[p]
      <4>1. d[1] \in Player /\ F <= Last(d[1])
        BY <3>1 DEF Types, DataType, Inv, DataBound
      <4> QED
        BY <4>1 DEF Inv, PlanBound, Last
    <3>2. ASSUME NEW s \in plan[p]
          PROVE  <<F, s>> \in {<<F, d[1]>> : d \in {e \in data[p] : e[2] = F}}
      <4>1. <<s, F>> \in data[p] /\ <<s, F>>[1] = s /\ <<s, F>>[2] = F
        BY <1>4
      <4> QED
        BY <4>1
    <3> HIDE DEF F
    <3>3. \A x \in {<<F, d[1]>> : d \in {e \in data[p] : e[2] = F}} : x \in {F} \X plan[p]
      BY <3>1
    <3>4. \A x \in {F} \X plan[p] : \E s \in plan[p] : x = <<F, s>>
      OBVIOUS
    <3> QED
      BY <3>2, <3>3, <3>4
  <2>2. executed[p] \cup ({F} \X plan[p])
        = {e \in Frame \X Player : e[1] < F + 1 /\ (leaveFrame[e[2]] = 0 \/ e[1] <= leaveFrame[e[2]])}
    <3>1. executed[p] = {e \in Frame \X Player :
                           e[1] < F /\ (leaveFrame[e[2]] = 0 \/ e[1] <= leaveFrame[e[2]])}
      BY DEF Inv, ExecutedBound
    <3>2. plan[p] = {s \in Player : leaveFrame[s] = 0 \/ F <= leaveFrame[s]}
      BY DEF Inv, PlanBound
    <3>3. F \in Frame /\ F \in Nat /\ \A e \in Frame \X Player : e[1] \in Nat /\ e = <<e[1], e[2]>>
      BY <1>2, Frames
    <3>4. \A e \in Frame \X Player : e[1] < F + 1 <=> e[1] < F \/ e[1] = F
      BY <3>3
    <3> HIDE DEF F
    <3> QED
      BY <3>1, <3>2, <3>3, <3>4
  <2> QED
    BY <1>3, <1>13, <2>1, <2>2 DEF Inv, ExecutedBound, Types, ExecutedType
<1>15. KeptBound'
  <2> SUFFICES ASSUME NEW q \in Player, NEW e \in executed'[q], e[1] >= frame'[q] - FRAMES_TO_KEEP,
                      e[2] \in plan'[q] \/ frame'[q] < QuitFrame(e[2])
               PROVE  <<e[2], e[1]>> \in data'[q]
    BY <1>3 DEF KeptBound, QuitFrame
  <2>1. CASE q # p
    <3>1. frame'[q] = frame[q] /\ executed'[q] = executed[q]
      BY <1>3, <1>13, <2>1 DEF Types, ExecutedType
    <3>2. plan'[q] = plan[q] /\ data'[q] = data[q]
      BY <2>1, ExecuteParts DEF Types, PlayerType, DataType
    <3> QED
      BY <3>1, <3>2 DEF Inv, KeptBound
  <2>2. CASE q = p
    <3>1. plan'[p] = Rest(p) /\ data'[p] = Kept(p, Rest(p), F + 1) \cup ({p} \X Announced(p))
      BY ExecuteParts DEF Types, PlayerType, DataType
    <3>2. e[1] \in Nat /\ e[2] \in Player /\ QuitFrame(e[2]) \in Nat
      BY <1>1, <1>2, Frames, Constants DEF Types, ExecutedType, QuitFrame
    <3>3. e[1] >= F + 1 - FRAMES_TO_KEEP /\ (e[2] \in Rest(p) \/ F + 1 < QuitFrame(e[2]))
      <4>1. frame'[q] = F + 1 /\ plan'[q] = Rest(p)
        BY <1>3, <2>2, <3>1
      <4>2. F \in Nat
        BY <1>2
      <4> HIDE DEF F
      <4> QED
        BY <3>2, <4>1, <4>2, Constants
    <3>4. <<e[2], e[1]>> \in data[p]
      <4>1. CASE e \in executed[p]
        BY <1>2, <1>5, <3>2, <3>3, <4>1, Constants DEF Inv, KeptBound
      <4>2. CASE e \notin executed[p]
        <5>1. PICK d \in data[p] : d[2] = F /\ e = <<F, d[1]>>
          BY <1>13, <2>2, <4>2 DEF Types, ExecutedType
        <5>2. d = <<d[1], d[2]>>
          BY DEF Types, DataType
        <5> QED
          BY <5>1, <5>2
      <4> QED
        BY <4>1, <4>2
    <3>5. <<e[2], e[1]>> \in Kept(p, Rest(p), F + 1)
      <4> DEFINE d == <<e[2], e[1]>>
      <4>1. d[1] = e[2] /\ d[2] = e[1] /\ d \in data[p]
        BY <3>4
      <4>2. F \in Nat
        BY <1>2
      <4> HIDE DEF d, F
      <4>3. d[2] >= (F + 1) - FRAMES_TO_KEEP /\ (d[1] \in Rest(p) \/ F + 1 < QuitFrame(d[1]))
        BY <3>2, <3>3, <4>1, <4>2, Constants
      <4>4. d \in Kept(p, Rest(p), F + 1)
        BY <4>1, <4>3 DEF Kept
      <4> QED
        BY <4>4 DEF d
    <3> QED
      BY <2>2, <3>1, <3>5
  <2> QED
    BY <2>1, <2>2
<1>16. StatusBound'
  <2>1. p \in Leaving(p) => leaveFrame[p] # 0
    BY <1>2, <1>5
  <2> QED
    BY <1>3, <2>1, ExecuteParts DEF Inv, StatusBound, Types, PlayerType
<1> QED
  BY <1>8, <1>9, <1>10, <1>11, <1>12, <1>14, <1>15, <1>16 DEF Inv

(* A message is received.                                                  *)
LEMMA InvReceive ==
  ASSUME Types, Inv, NEW p \in Player, NEW q \in Player, NEW m \in queue[q][p], Receive(p, q, m)
  PROVE  Inv'
<1>1. UNCHANGED <<localStatus, frame, plan, leaveFrame, executed>>
  BY DEF Receive
<1>2. m.player \in Player /\ m.frame <= Last(m.player)
  BY DEF Types, QueueType, Message, Inv, QueueBound
<1>3. \A s \in Player : Last(s)' = Last(s)
  BY <1>1 DEF Last
<1>4. \A t \in Player : data[t] \subseteq data'[t] /\ data'[t] \subseteq data[t] \cup {<<m.player, m.frame>>}
  BY DEF Receive, Types, DataType
<1>5. DataBound'
  <2>1. \A t \in Player : \A d \in data[t] : d[1] \in Player
    BY DEF Types, DataType
  <2> QED
    BY <1>2, <1>3, <1>4, <2>1 DEF Inv, DataBound
<1>6. QueueBound'
  <2>1. \A t, u \in Player : \A n \in queue'[t][u] :
          n \in queue[t][u] \/ (n.player = m.player /\ n.frame = m.frame)
    BY ReceiveQueue DEF Types
  <2>2. \A t, u \in Player : \A n \in queue[t][u] : n.player \in Player /\ n.frame <= Last(n.player)
    BY DEF Types, QueueType, Message, Inv, QueueBound
  <2> QED
    BY <1>2, <1>3, <2>1, <2>2 DEF QueueBound
<1>7. PendingBound'
  <2>1. \A t \in Player : pending'[t] \subseteq pending[t]
    BY DEF Receive
  <2> QED
    BY <1>3, <2>1 DEF Inv, PendingBound
<1>8. Lead' /\ PlanBound' /\ ExecutedBound' /\ StatusBound'
  BY <1>1 DEF Inv, Lead, PlanBound, ExecutedBound, StatusBound
<1>9. KeptBound'
  BY <1>1, <1>4 DEF Inv, KeptBound, QuitFrame
<1> QED
  BY <1>5, <1>6, <1>7, <1>8, <1>9 DEF Inv

(* Every step keeps the invariant.                                         *)
LEMMA InvNext == Types /\ Inv /\ [Next]_vars => Inv'
<1> SUFFICES ASSUME Types, Inv, [Next]_vars PROVE Inv'
  OBVIOUS
<1>1. ASSUME NEW p \in Player, HandleLocalPlayerLeaving(p) PROVE Inv'
  BY <1>1, InvLeaving
<1>2. ASSUME NEW p \in Player, ExecuteFrame(p) PROVE Inv'
  BY <1>2, InvExecute
<1>3. ASSUME NEW p \in Player, NEW q \in Player, NEW m \in queue[q][p], Receive(p, q, m) PROVE Inv'
  BY <1>3, InvReceive
<1>4. ASSUME NEW p \in Player, NEW q \in Player, CatchUp(p, q) PROVE Inv'
  <2>1. UNCHANGED <<localStatus, frame, plan, leaveFrame, data, pending, executed>>
    BY <1>4 DEF CatchUp
  <2>2. QueueBound'
    <3>1. \A t, u \in Player : \A m \in queue'[t][u] : m \in queue[t][u] \/ <<m.player, m.frame>> \in data[p]
      BY <1>4, CatchUpQueue
    <3>2. ASSUME NEW m, <<m.player, m.frame>> \in data[p] PROVE m.frame <= Last(m.player)
      BY <3>2 DEF Inv, DataBound
    <3> QED
      BY <2>1, <3>1, <3>2 DEF Inv, QueueBound, Last
  <2> QED
    BY <2>1, <2>2 DEF Inv, DataBound, PendingBound, Lead, PlanBound, ExecutedBound, KeptBound,
                      StatusBound, Last, QuitFrame
<1>5. ASSUME NEW p \in Player, NEW q \in Player, GiveUp(p, q) PROVE Inv'
  <2>1. UNCHANGED <<localStatus, frame, plan, leaveFrame, data, pending, executed>>
    BY <1>5 DEF GiveUp
  <2>2. QueueBound'
    BY <1>5, <2>1, GiveUpQueue DEF Inv, QueueBound, Last
  <2> QED
    BY <2>1, <2>2 DEF Inv, DataBound, PendingBound, Lead, PlanBound, ExecutedBound, KeptBound,
                      StatusBound, Last, QuitFrame
<1>6. ASSUME NEW p \in Player, EndOfGameCheck(p) PROVE Inv'
  <2>1. UNCHANGED <<frame, plan, leaveFrame, data, queue, pending, executed>>
    BY <1>6 DEF EndOfGameCheck
  <2>2. StatusBound'
    BY <1>6, <2>1 DEF EndOfGameCheck, Types, PlayerType, Inv, StatusBound
  <2> QED
    BY <2>1, <2>2 DEF Inv, DataBound, QueueBound, PendingBound, Lead, PlanBound, ExecutedBound,
                      KeptBound, Last, QuitFrame
<1>7. CASE UNCHANGED vars
  BY <1>7 DEF vars, Inv, DataBound, QueueBound, PendingBound, Lead, PlanBound, ExecutedBound,
              KeptBound, StatusBound, Last, QuitFrame
<1> QED
  BY <1>1, <1>2, <1>3, <1>4, <1>5, <1>6, <1>7 DEF Next

(* The types and the invariant hold in every reachable state.              *)
LEMMA Invariant == Spec => [](Types /\ Inv)
<1> QED
  BY TypesInit, InvInit, TypesNext, InvNext, PTL DEF Spec

(* Leaving causes no desync: whoever leaves, whenever, and whoever becomes *)
(* the router, all machines execute the same players' commands in a frame, *)
(* and those in the same frame have seen the same players leave.           *)
THEOREM LeavingIsAgreed == Spec => []SameExecution
<1>1. ASSUME Types, Inv PROVE SameExecution
  <2>1. ASSUME NEW p \in Player, NEW q \in Player, NEW f \in Frame, f < frame[p], f < frame[q],
               NEW s \in Player
        PROVE  <<f, s>> \in executed[p] <=> <<f, s>> \in executed[q]
    BY <1>1, <2>1 DEF Inv, ExecutedBound
  <2>2. ASSUME NEW p \in Player, NEW q \in Player, frame[p] = frame[q]
        PROVE  plan[p] = plan[q]
    BY <1>1, <2>2 DEF Inv, PlanBound
  <2> QED
    BY <2>1, <2>2 DEF SameExecution
<1> QED
  BY <1>1, Invariant, PTL

(* The frames somebody is behind are still kept by those ahead, a leaver's *)
(* commands included, until its quit frame: FRAMES_TO_KEEP is enough for   *)
(* any run ahead below it.                                                 *)
THEOREM HelpIsKept == Spec => []KeptForCatchUp
<1>1. ASSUME Types, Inv PROVE KeptForCatchUp
  <2> SUFFICES ASSUME NEW p \in Player, NEW q \in Player, leaveFrame[q] = 0,
                      NEW f \in frame[q] .. frame[p] - 1, NEW s \in Player, <<f, s>> \in executed[p]
               PROVE  <<s, f>> \in data[p]
    BY <1>1 DEF KeptForCatchUp, Inv, StatusBound
  <2>1. frame[p] \in Nat /\ frame[q] \in Nat /\ leaveFrame[s] \in Nat
    BY <1>1, Frames DEF Types, PlayerType
  <2>2. frame[p] <= frame[q] + RunAhead
    BY <1>1 DEF Inv, Lead
  <2>3. f \in Int /\ f >= frame[p] - FRAMES_TO_KEEP
    BY <2>1, <2>2, Constants
  <2>4. leaveFrame[s] = 0 \/ f <= leaveFrame[s]
    BY <1>1 DEF Inv, ExecutedBound
  <2>5. s \in plan[p] \/ frame[p] < QuitFrame(s)
    BY <1>1, <2>1, <2>2, <2>3, <2>4, Constants DEF Inv, PlanBound, QuitFrame
  <2> DEFINE e == <<f, s>>
  <2>6. e \in executed[p] /\ e[1] = f /\ e[2] = s
    OBVIOUS
  <2> QED
    BY <1>1, <2>3, <2>5, <2>6 DEF Inv, KeptBound
<1> QED
  BY <1>1, Invariant, PTL

----------------------------------------------------------------------------
(* What somebody lacks is not forgotten.  Those who stay and lack d.       *)
Lacking(d) == {q \in Player \ {d[1]} : leaveFrame[q] = 0 /\ frame[q] <= d[2] /\ d \notin data[q]}
(* t's queue to q has d.                                                   *)
Sent(t, q, d) == \E m \in queue[t][q] : m.player = d[1] /\ m.frame = d[2]
(* What a client sends to its router, for all.                             *)
Full(s, f) == Msg(s, f, Player \ {s})
(* x, who does not leave before the first router, passes d on to all who   *)
(* lack it.                                                                *)
Carried(x, d) ==
  /\ x \notin {d[1], FirstRouter} /\ d \in data[x] /\ InGame(x)
  /\ leaveFrame[FirstRouter] # 0 /\ Last(x) >= leaveFrame[FirstRouter]
  /\ \A q \in Lacking(d) : Sent(x, q, d)
(* d needs its player no more.                                             *)
Handed(d) == Lacking(d) = {} \/ TakenOver(d) \/ \E x \in Player : Carried(x, d)

(* Nobody is sent its own, nor sends to itself; a message is for whom it   *)
(* is sent to or for all.                                                  *)
Addressed ==
  \A t, u \in Player : \A m \in queue[t][u] :
    m.player # u /\ t # u /\ m.relay \in {{u}, Player \ {m.player}}
(* Who is in the game waits for itself too, and has all it has announced.  *)
OwnData ==
  \A p \in Player : InGame(p) =>
    p \in plan[p] /\ \A k \in Frame : frame[p] <= k /\ k <= Last(p) => <<p, k>> \in data[p]
(* The first router is sent all that is announced before it leaves.        *)
RouterIsSent ==
  InGame(FirstRouter) => \A u \in Player \ {FirstRouter}, k \in Frame :
    /\ frame[FirstRouter] <= k /\ k <= Last(u) /\ <<u, k>> \notin data[FirstRouter]
    /\ PastRouter(u) => k <= leaveFrame[FirstRouter]
    => Full(u, k) \in queue[u][FirstRouter]
(* It passes on what it has to all who lack it.                            *)
RouterPassesOn ==
  InGame(FirstRouter) => \A d \in data[FirstRouter] :
    d[1] # FirstRouter /\ ~PastRouter(d[1]) => \A q \in Lacking(d) : Sent(FirstRouter, q, d)
(* Whoever lacks what was relayed has not acked it.                        *)
RelayedToLackers == \A r \in Player : \A d \in DOMAIN relayed[r] : Lacking(d) \subseteq relayed[r][d]
(* Only what the next router has sends it the first router as well.        *)
RouterHears ==
  \A t \in Player : \A m \in queue[t][FirstRouter] :
    t # m.player => (PastRouter(m.player) /\ Handed(<<m.player, m.frame>>))
(* A client's own messages to its router are for all.                      *)
OwnInFull ==
  \A s, t \in Player : \A m \in queue[s][t] :
    /\ m.player = s /\ s # FirstRouter
    /\ t = FirstRouter \/ (InGame(s) /\ Router(s) # s /\ m.frame >= frame[s])
    => m.relay = Player \ {s}
(* What is for all goes to the router: another than the first is sent it   *)
(* only by who has seen the first leave, and not before that leaves itself.*)
InFullToNext ==
  \A u, t \in Player : \A m \in queue[u][t] :
    t # FirstRouter /\ m.relay # {t}
    => (u = m.player /\ PastRouter(u) /\ Last(t) >= leaveFrame[FirstRouter])
(* What is not pending need not be sent again;                             *)
AckedIsHanded ==
  \A s \in Player : InGame(s) /\ Router(s) # s =>
    \A d \in data[s] : d[1] = s /\ d[2] \notin pending[s] => Handed(d)
(* a router has sent its own to all,                                       *)
RouterSends ==
  \A s \in Player : InGame(s) /\ Router(s) = s =>
    \A d \in data[s] : d[1] = s => (Handed(d) \/ \A q \in Lacking(d) : Sent(s, q, d))
(* and who has seen the first router leave has sent it to the next.        *)
NextIsSent ==
  \A s \in Player : InGame(s) /\ Router(s) # s /\ PastRouter(s) =>
    \A d \in data[s] : d[1] = s /\ d[2] >= frame[s] => (Handed(d) \/ Full(s, d[2]) \in queue[s][Router(s)])

Safe == /\ Addressed /\ OwnData /\ RouterIsSent /\ RouterPassesOn /\ RelayedToLackers /\ RouterHears
        /\ OwnInFull /\ InFullToNext /\ AckedIsHanded /\ RouterSends /\ NextIsSent

(* The lowest of some players is one of them.                              *)
LEMMA LowestIs ==
  ASSUME NEW S \in SUBSET Player, S # {}
  PROVE  Lowest(S) \in S /\ \A t \in S : Lowest(S) <= t
<1>1. S \in SUBSET Nat
  BY PlayerAssumption
<1>2. PICK x \in S : \A y \in S : <<y, x>> \notin OpToRel(<, Nat)
  BY <1>1, NatLessThanWellFounded, WFMin, Zenon
<1>3. \A y \in S : ~(y < x)
  BY <1>1, <1>2 DEF OpToRel
<1>4. \A y \in S : x <= y
  BY <1>1, <1>3
<1> QED
  BY <1>4 DEF Lowest

(* It stays the lowest of fewer.                                           *)
LEMMA LowestStays ==
  ASSUME NEW S \in SUBSET Player, NEW T \in SUBSET S, NEW s \in T, \A t \in S : s <= t
  PROVE  Lowest(S) = s /\ Lowest(T) = s
<1>1. \A t \in S : t \in Nat
  BY PlayerAssumption
<1> QED
  BY <1>1, LowestIs

(* Frames and last frames are numbers.                                     *)
LEMMA Numbers ==
  ASSUME Types, NEW p \in Player
  PROVE  /\ frame[p] \in Nat /\ frame[p] \in Frame /\ frame[p] > 0
         /\ leaveFrame[p] \in Nat /\ Last(p) \in Int
BY Frames, Constants DEF Types, PlayerType, Last

(* So are those of the next state.                                        *)
LEMMA NumbersNext ==
  ASSUME Types', NEW p \in Player
  PROVE  frame'[p] \in Nat /\ leaveFrame'[p] \in Nat /\ Last(p)' \in Int
BY Frames, Constants DEF Types, PlayerType, Last

(* The first router is a player, and whose router it is has not seen it    *)
(* leave.                                                                  *)
LEMMA First ==
  ASSUME Types, Inv, NEW p \in Player
  PROVE  /\ FirstRouter \in Player
         /\ FirstRouter \in plan[p] <=> ~PastRouter(p)
         /\ ~PastRouter(p) => Router(p) = FirstRouter
         /\ PastRouter(p) /\ plan[p] # {} => Router(p) # FirstRouter
<1>1. FirstRouter \in Player /\ \A t \in Player : FirstRouter <= t
  BY LowestIs DEF FirstRouter
<1>2. plan[p] \in SUBSET Player
  BY DEF Types, PlayerType
<1>3. FirstRouter \in plan[p] <=> ~PastRouter(p)
  BY <1>1, Numbers DEF Inv, PlanBound, PastRouter
<1>4. FirstRouter \in plan[p] => Router(p) = FirstRouter
  BY <1>1, <1>2, LowestStays DEF Router
<1>5. plan[p] # {} => Router(p) \in plan[p]
  BY <1>2, LowestIs DEF Router
<1> QED
  BY <1>1, <1>3, <1>4, <1>5

----------------------------------------------------------------------------
(* Who is behind a change of a player's frame, plan or status.             *)
LEMMA WhoActs ==
  ASSUME Types, [Next]_vars, NEW p \in Player
  PROVE  /\ (frame'[p] = frame[p] /\ plan'[p] = plan[p]) \/ ExecuteFrame(p)
         /\ leaveFrame'[p] = leaveFrame[p] \/ HandleLocalPlayerLeaving(p)
         /\ InGame(p)' => InGame(p)
         /\ InGame(p) => InGame(p)' \/ (ExecuteFrame(p) /\ p \in Leaving(p))
<1> DEFINE Fact ==
      /\ (frame'[p] = frame[p] /\ plan'[p] = plan[p]) \/ ExecuteFrame(p)
      /\ leaveFrame'[p] = leaveFrame[p] \/ HandleLocalPlayerLeaving(p)
      /\ InGame(p)' => InGame(p)
      /\ InGame(p) => InGame(p)' \/ (ExecuteFrame(p) /\ p \in Leaving(p))
<1>1. ASSUME NEW o \in Player, HandleLocalPlayerLeaving(o) PROVE Fact
  <2>1. /\ localStatus[o] = "INGAME" /\ UNCHANGED <<frame, plan>>
        /\ localStatus' = [localStatus EXCEPT ![o] = "LEAVING"]
        /\ leaveFrame' = [leaveFrame EXCEPT ![o] = frame[o] + RunAhead + 1]
    BY <1>1 DEF HandleLocalPlayerLeaving
  <2> QED
    BY <1>1, <2>1 DEF InGame, Types, PlayerType
<1>2. ASSUME NEW o \in Player, ExecuteFrame(o) PROVE Fact
  <2>1. /\ InGame(o) /\ UNCHANGED leaveFrame
        /\ frame' = [frame EXCEPT ![o] = frame[o] + 1] /\ plan' = [plan EXCEPT ![o] = Rest(o)]
        /\ localStatus' = [localStatus EXCEPT ![o] = IF o \in Leaving(o) THEN "LEFT" ELSE localStatus[o]]
    BY <1>2, ExecuteParts DEF Ready
  <2> QED
    BY <1>2, <2>1 DEF InGame, Types, PlayerType
<1>3. ASSUME NEW o \in Player, EndOfGameCheck(o) PROVE Fact
  BY <1>3 DEF EndOfGameCheck, InGame, Types, PlayerType
<1>4. CASE UNCHANGED <<localStatus, frame, plan, leaveFrame>>
  BY <1>4 DEF InGame
<1>5. ASSUME NEW o \in Player, NEW q \in Player, NEW m \in queue[q][o], Receive(o, q, m) PROVE Fact
  BY <1>4, <1>5 DEF Receive
<1>6. ASSUME NEW o \in Player, NEW q \in Player, CatchUp(o, q) PROVE Fact
  BY <1>4, <1>6 DEF CatchUp
<1>7. ASSUME NEW o \in Player, NEW q \in Player, GiveUp(o, q) PROVE Fact
  BY <1>4, <1>7 DEF GiveUp
<1>8. CASE UNCHANGED vars
  BY <1>4, <1>8 DEF vars
<1> QED
  BY <1>1, <1>2, <1>3, <1>5, <1>6, <1>7, <1>8 DEF Next

(* What never goes back.                                                   *)
LEMMA StepGrows ==
  ASSUME Types, Inv, [Next]_vars, NEW p \in Player
  PROVE  /\ Types' /\ Inv'
         /\ frame'[p] >= frame[p] /\ Last(p)' >= Last(p) /\ plan'[p] \subseteq plan[p]
         /\ leaveFrame[p] # 0 => leaveFrame'[p] = leaveFrame[p]
         /\ PastRouter(p) => PastRouter(p)'
         /\ InGame(p)' => InGame(p)
<1>1. Types' /\ Inv'
  BY TypesNext, InvNext
<1>2. \A q \in Player : frame[q] \in Nat /\ leaveFrame[q] \in Nat /\ frame'[q] \in Nat /\ leaveFrame'[q] \in Nat
  BY <1>1, Frames DEF Types, PlayerType
<1>3. ASSUME NEW q \in Player
      PROVE  frame'[q] >= frame[q] /\ (leaveFrame[q] # 0 => leaveFrame'[q] = leaveFrame[q])
  <2>1. ExecuteFrame(q) => frame'[q] = frame[q] + 1
    BY ExecuteParts DEF Types, PlayerType
  <2>2. HandleLocalPlayerLeaving(q) => leaveFrame[q] = 0
    BY DEF HandleLocalPlayerLeaving, Inv, StatusBound
  <2> QED
    BY <1>2, <2>1, <2>2, WhoActs
<1>4. Last(p)' >= Last(p)
  <2>1. leaveFrame[p] = 0 /\ leaveFrame'[p] # 0 =>
          leaveFrame'[p] = frame[p] + RunAhead + 1 /\ frame'[p] = frame[p]
    BY WhoActs DEF HandleLocalPlayerLeaving, Types, PlayerType
  <2> QED
    BY <1>2, <1>3, <2>1, Constants DEF Last
<1>5. plan'[p] \subseteq plan[p]
  <2>1. Rest(p) \subseteq plan[p]
    BY DEF Rest
  <2>2. ExecuteFrame(p) => plan'[p] = Rest(p)
    BY ExecuteParts DEF Types, PlayerType
  <2> QED
    BY <2>1, <2>2, WhoActs
<1>6. PastRouter(p) => PastRouter(p)'
  <2>1. FirstRouter \in Player
    BY First
  <2>2. PastRouter(p)' <=> leaveFrame'[FirstRouter] # 0 /\ frame'[p] > leaveFrame'[FirstRouter]
    BY DEF PastRouter
  <2> QED
    BY <1>2, <1>3, <2>1, <2>2 DEF PastRouter
<1> QED
  BY <1>1, <1>3, <1>4, <1>5, <1>6, WhoActs

(* Who is in the game has itself in its plan; a router remains one until   *)
(* it is seen to leave.                                                    *)
LEMMA RouterStays ==
  ASSUME Types, Inv, [Next]_vars, NEW p \in Player
  PROVE  /\ plan[p] # {} => Router(p) \in plan[p] /\ Router(p) \in Player
         /\ plan[p] # {} /\ Router(p) \in plan'[p] => Router(p)' = Router(p)
<1>1. plan[p] \in SUBSET Player /\ plan'[p] \in SUBSET plan[p]
  BY StepGrows DEF Types, PlayerType
<1>2. plan[p] # {} => Router(p) \in plan[p] /\ \A t \in plan[p] : Router(p) <= t
  BY <1>1, LowestIs DEF Router
<1>3. Router(p)' = Lowest(plan'[p])
  BY DEF Router
<1>4. plan[p] # {} /\ Router(p) \in plan'[p] => Lowest(plan'[p]) = Router(p)
  BY <1>1, <1>2, LowestStays
<1> QED
  BY <1>1, <1>2, <1>3, <1>4

----------------------------------------------------------------------------
(* What is said of a frame somebody lacks.                                 *)
LEMMA LackingIs ==
  ASSUME Types, Inv, NEW d \in Player \X Frame, NEW q \in Lacking(d)
  PROVE  /\ q \in Player /\ q # d[1] /\ leaveFrame[q] = 0 /\ localStatus[q] = "INGAME" /\ InGame(q)
         /\ frame[q] <= d[2] /\ d \notin data[q]
         /\ \A t \in Player : q \in plan[t] /\ frame[t] <= d[2] + RunAhead
<1>1. q \in Player /\ q # d[1] /\ leaveFrame[q] = 0 /\ frame[q] <= d[2] /\ d \notin data[q]
  BY DEF Lacking
<1>2. localStatus[q] = "INGAME" /\ InGame(q)
  BY <1>1 DEF Inv, StatusBound, InGame
<1>3. \A t \in Player : q \in plan[t]
  BY <1>1 DEF Inv, PlanBound
<1>4. \A t \in Player : frame[t] <= frame[q] + RunAhead
  BY <1>1 DEF Inv, Lead
<1>5. d[2] \in Nat
  BY Frames
<1> QED
  BY <1>1, <1>2, <1>3, <1>4, <1>5, Numbers, Constants

(* Data are kept as long as they are ahead or somebody lacks them.         *)
LEMMA DataStays ==
  ASSUME Types, Inv, [Next]_vars, NEW t \in Player, NEW d \in data[t],
         d[2] >= frame'[t] \/ Lacking(d)' # {}
  PROVE  d \in data'[t]
<1>1. Types' /\ Inv' /\ d \in Player \X Frame /\ d[1] \in Player /\ d[2] \in Nat
  BY StepGrows, Frames DEF Types, DataType
<1>2. frame'[t] \in Nat /\ leaveFrame[d[1]] \in Nat
  BY <1>1, Numbers, Frames DEF Types, PlayerType
<1>3. frame'[t] <= d[2] + RunAhead
  <2>1. CASE d[2] >= frame'[t]
    BY <1>1, <1>2, <2>1, Constants
  <2>2. CASE Lacking(d)' # {}
    <3>1. PICK q \in Player : leaveFrame'[q] = 0 /\ frame'[q] <= d[2]
      BY <2>2 DEF Lacking
    <3>2. frame'[t] <= frame'[q] + RunAhead /\ frame'[q] \in Nat
      BY <1>1, <3>1, Frames DEF Inv, Lead, Types, PlayerType
    <3> QED
      BY <1>1, <1>2, <3>1, <3>2, Constants
  <2> QED
    BY <2>1, <2>2
<1>4. ASSUME ExecuteFrame(t) PROVE d \in data'[t]
  <2>1. /\ data'[t] = Kept(t, Rest(t), frame[t] + 1) \cup ({t} \X Announced(t))
        /\ plan'[t] = Rest(t) /\ frame'[t] = frame[t] + 1 /\ leaveFrame' = leaveFrame
    BY <1>4, ExecuteParts DEF Types, DataType, PlayerType
  <2>2. d[2] >= (frame[t] + 1) - FRAMES_TO_KEEP
    BY <1>1, <1>2, <1>3, <2>1, Constants, Numbers
  <2>3. d[1] \in Rest(t) \/ frame[t] + 1 < QuitFrame(d[1])
    <3>1. d[1] \notin Rest(t) => leaveFrame[d[1]] # 0
      BY <1>1, <2>1 DEF Inv, PlanBound
    <3>2. d[1] \notin Rest(t) => d[2] <= leaveFrame[d[1]]
      BY <3>1 DEF Inv, DataBound, Last
    <3> QED
      BY <1>1, <1>2, <1>3, <2>1, <3>2, Constants DEF QuitFrame
  <2>4. d \in Kept(t, Rest(t), frame[t] + 1)
    BY <2>2, <2>3 DEF Kept
  <2> QED
    BY <2>1, <2>4
<1>5. ASSUME NEW o \in Player, HandleLocalPlayerLeaving(o) PROVE d \in data'[t]
  BY <1>5 DEF HandleLocalPlayerLeaving, Types, DataType
<1>6. ASSUME NEW o \in Player, o # t, ExecuteFrame(o) PROVE d \in data'[t]
  BY <1>6, ExecuteParts DEF Types, DataType
<1>7. CASE UNCHANGED data
  BY <1>7
<1>8. ASSUME NEW o \in Player, NEW q \in Player, NEW m \in queue[q][o], Receive(o, q, m) PROVE d \in data'[t]
  BY <1>8 DEF Receive, Types, DataType
<1> QED
  BY <1>4, <1>5, <1>6, <1>7, <1>8 DEF Next, EndOfGameCheck, CatchUp, GiveUp, vars

(* Nobody comes to lack what it did not lack before.                       *)
LEMMA LackingShrinks ==
  ASSUME Types, Inv, [Next]_vars, NEW d \in Player \X Frame
  PROVE  Lacking(d)' \subseteq Lacking(d)
<1> SUFFICES ASSUME NEW q \in Lacking(d)' PROVE q \in Lacking(d)
  OBVIOUS
<1>1. q \in Player \ {d[1]} /\ leaveFrame'[q] = 0 /\ frame'[q] <= d[2] /\ d \notin data'[q]
  BY DEF Lacking
<1>2. d[2] \in Nat /\ frame[q] \in Nat /\ frame'[q] \in Nat /\ frame'[q] >= frame[q]
  BY <1>1, StepGrows, Numbers, Frames DEF Types, PlayerType
<1>3. leaveFrame[q] = 0
  BY <1>1, StepGrows
<1>4. d \notin data[q]
  BY <1>1, <1>2, DataStays
<1> QED
  BY <1>1, <1>2, <1>3, <1>4 DEF Lacking

(* Who has executed the frame of what somebody lacks has it.               *)
LEMMA HasLate ==
  ASSUME Types, Inv, NEW t \in Player, NEW d \in Player \X Frame,
         d[2] < frame[t], d[2] <= Last(d[1]), Lacking(d) # {}
  PROVE  d \in data[t]
<1>1. d[1] \in Player /\ d[2] \in Frame /\ d[2] \in Nat /\ d = <<d[1], d[2]>>
  BY Frames
<1>2. PICK q : q \in Lacking(d)
  OBVIOUS
<1>3. frame[t] <= d[2] + RunAhead
  BY <1>2, LackingIs
<1>4. leaveFrame[d[1]] \in Nat /\ frame[t] \in Nat
  BY <1>1, Numbers
<1>5. leaveFrame[d[1]] = 0 \/ d[2] <= leaveFrame[d[1]]
  BY DEF Last
<1> DEFINE e == <<d[2], d[1]>>
<1>6. e \in executed[t] /\ e[1] = d[2] /\ e[2] = d[1]
  BY <1>1, <1>5 DEF Inv, ExecutedBound
<1>7. e[2] \in plan[t] \/ frame[t] < QuitFrame(e[2])
  BY <1>1, <1>3, <1>4, <1>5, <1>6, Constants DEF Inv, PlanBound, QuitFrame
<1>8. e[1] >= frame[t] - FRAMES_TO_KEEP
  BY <1>1, <1>3, <1>4, <1>6, Constants
<1>9. <<e[2], e[1]>> \in data[t]
  BY <1>6, <1>7, <1>8 DEF Inv, KeptBound
<1> QED
  BY <1>1, <1>6, <1>9

(* Of its own, a player comes to have only what it announces.              *)
LEMMA OwnOnly ==
  ASSUME Types, Inv, Addressed, [Next]_vars, NEW s \in Player, NEW d \in data'[s], d[1] = s, d[2] <= Last(s)
  PROVE  d \in data[s]
<1>1. frame[s] \in Nat /\ leaveFrame[s] \in Nat
  BY Numbers
<1>2. ASSUME NEW o \in Player, HandleLocalPlayerLeaving(o) PROVE d \in data[s]
  <2>1. leaveFrame[o] = 0
    BY <1>2 DEF HandleLocalPlayerLeaving, Inv, StatusBound
  <2>2. d \in data[s] \/ (o = s /\ d[2] \in LastFrames(s))
    BY <1>2 DEF HandleLocalPlayerLeaving, Types, DataType
  <2>3. o = s => \A f \in LastFrames(s) : f > Last(s)
    BY <1>1, <2>1, Constants DEF LastFrames, Last
  <2>4. \A f \in LastFrames(s) : f \in Int
    BY <1>1, Constants DEF LastFrames
  <2> QED
    BY <2>2, <2>3, <2>4, Numbers
<1>3. ASSUME NEW o \in Player, ExecuteFrame(o) PROVE d \in data[s]
  <2>1. data' = [data EXCEPT ![o] = Kept(o, Rest(o), frame[o] + 1) \cup ({o} \X Announced(o))]
    BY <1>3, ExecuteParts
  <2>2. d \in data[s] \/ (o = s /\ d[2] \in Announced(s))
    BY <2>1 DEF Kept, Types, DataType
  <2>3. \A f \in Announced(s) : f \in Int /\ f > Last(s)
    BY <1>1, Constants DEF Announced, Last, Inv, StatusBound
  <2> QED
    BY <2>2, <2>3, Numbers
<1>4. CASE UNCHANGED data
  BY <1>4
<1>5. ASSUME NEW o \in Player, NEW q \in Player, NEW m \in queue[q][o], Receive(o, q, m) PROVE d \in data[s]
  <2>1. m.player # o
    BY DEF Addressed
  <2>2. d \in data[s] \/ (o = s /\ d = <<m.player, m.frame>>)
    BY <1>5 DEF Receive, Types, DataType
  <2> QED
    BY <2>1, <2>2
<1> QED
  BY <1>2, <1>3, <1>4, <1>5 DEF Next, EndOfGameCheck, CatchUp, GiveUp, vars

----------------------------------------------------------------------------
(* What is put on a send queue is there, as it is or as it was already.    *)
LEMMA AddKeeps ==
  ASSUME NEW row, NEW out, NEW q \in Player
  PROVE  /\ row[q] \subseteq Add(row, out)[q]
         /\ \A m \in out[q] : \E n \in Add(row, out)[q] : Same(m, n)
         /\ \A m \in out[q] : (\A n \in row[q] : ~Same(m, n)) => m \in Add(row, out)[q]
BY DEF Add, Same

(* p's own message m to q, while p takes M for those still in the game.    *)
OwnTo(p, M, q, m) ==
  /\ q # p /\ q \in M /\ m.player = p
  /\ \/ Lowest(M) = p /\ m.relay = {q}
     \/ Lowest(M) = q /\ m.relay = Player \ {p}

(* Whom a player's own message is for.                                     *)
LEMMA SendForm ==
  ASSUME NEW p \in Player, NEW members, NEW F, NEW q \in Player
  PROVE  /\ \A m \in SendLocalCommand(p, members, F)[q] : OwnTo(p, members, q, m)
         /\ q # p /\ q \in members /\ Lowest(members) = p =>
              \A f \in F : Msg(p, f, {q}) \in SendLocalCommand(p, members, F)[q]
         /\ q # p /\ q \in members /\ Lowest(members) = q =>
              \A f \in F : Full(p, f) \in SendLocalCommand(p, members, F)[q]
<1> DEFINE S == SendLocalCommand(p, members, F)[q]
<1>1. S = IF q = p \/ q \notin members THEN {}
          ELSE IF Lowest(members) = p THEN {Msg(p, f, {q}) : f \in F}
          ELSE IF Lowest(members) = q THEN {Full(p, f) : f \in F} ELSE {}
  BY DEF SendLocalCommand, Full
<1>2. \A f, R : Msg(p, f, R).player = p /\ Msg(p, f, R).relay = R
  BY DEF Msg
<1> HIDE DEF S
<1>3. \A m \in S : /\ q # p /\ q \in members
                   /\ \/ Lowest(members) = p /\ \E f \in F : m = Msg(p, f, {q})
                      \/ Lowest(members) = q /\ \E f \in F : m = Full(p, f)
  BY <1>1
<1>4. \A m \in S : OwnTo(p, members, q, m)
  BY <1>2, <1>3 DEF Full, OwnTo
<1>5. q # p /\ q \in members /\ Lowest(members) = p => \A f \in F : Msg(p, f, {q}) \in S
  BY <1>1
<1>6. q # p /\ q \in members /\ Lowest(members) = q => \A f \in F : Full(p, f) \in S
  BY <1>1
<1> QED
  BY <1>4, <1>5, <1>6 DEF S

(* What p relays of m, and to whom.                                        *)
Relays(p, m) ==
  [t \in Player |->
     IF t \in RelayTo(p, m) /\ ~OutOfDate(p, m) THEN {Msg(m.player, m.frame, {t})} ELSE {}]
(* What relaying puts on the send queues.                                  *)
LEMMA RelaysType ==
  ASSUME NEW p \in Player, NEW m \in Message
  PROVE  /\ Relays(p, m) \in [Player -> SUBSET Message]
         /\ \A u \in Player : \A n \in Relays(p, m)[u] :
              u \in RelayTo(p, m) /\ ~OutOfDate(p, m) /\ n = Msg(m.player, m.frame, {u})
         /\ \A u \in Player : u \in RelayTo(p, m) /\ ~OutOfDate(p, m) =>
              Msg(m.player, m.frame, {u}) \in Relays(p, m)[u]
<1>1. m.player \in Player /\ m.frame \in Frame
  BY DEF Message
<1> QED
  BY <1>1, MsgType DEF Relays

(* The send queues when m is received: of the receiver,                    *)
LEMMA ReceiverRow ==
  ASSUME Types, NEW p \in Player, NEW q \in Player, NEW m \in queue[q][p], Receive(p, q, m)
  PROVE  queue'[p] = Add(queue[p], Relays(p, m))
<1> DEFINE r == AckTo(p, m)
           net == [queue EXCEPT ![p] = Add(queue[p], Relays(p, m))]
<1>1. queue' = IF r \in Open(p, plan[p]) /\ localStatus[r] # "POSTGAME" THEN Acked(net, p, m) ELSE net
  BY DEF Receive, Relays
<1>2. net[p] = Add(queue[p], Relays(p, m))
  BY DEF Types, QueueType
<1>3. r \in Open(p, plan[p]) => r # p
  BY DEF Open
<1> HIDE DEF net, r
<1>4. r # p => Acked(net, p, m)[p] = net[p]
  BY DEF Acked, r
<1> QED
  BY <1>1, <1>2, <1>3, <1>4

(* and of the others: what it has received is taken off.                   *)
LEMMA OthersRows ==
  ASSUME Types, NEW p \in Player, NEW q \in Player, NEW m \in queue[q][p], Receive(p, q, m),
         NEW t \in Player, t # p, NEW u \in Player
  PROVE  /\ queue'[t][u] \subseteq queue[t][u]
         /\ \A n \in queue[t][u] :
              \/ n \in queue'[t][u]
              \/ u = p /\ t = AckTo(p, m) /\ n.player = m.player /\ n.frame = m.frame
<1> DEFINE r == AckTo(p, m)
           net == [queue EXCEPT ![p] = Add(queue[p], Relays(p, m))]
           heard == r \in Open(p, plan[p]) /\ localStatus[r] # "POSTGAME"
<1>1. queue' = IF heard THEN Acked(net, p, m) ELSE net
  BY DEF Receive, Relays
<1>2. net[t] = queue[t] /\ DOMAIN net = Player /\ DOMAIN queue[t] = Player
  BY DEF Types, QueueType
<1>3. Acked(net, p, m) = [net EXCEPT ![r][p] = {n \in net[r][p] : ~Same(m, n)}]
  BY DEF Acked
<1> HIDE DEF net, r, heard
<1>4. \/ Acked(net, p, m)[t][u] = net[t][u]
      \/ t = r /\ u = p /\ Acked(net, p, m)[t][u] = {n \in net[t][u] : ~Same(m, n)}
  BY <1>2, <1>3
<1>5. \/ queue'[t][u] = queue[t][u]
      \/ t = r /\ u = p /\ queue'[t][u] = {n \in queue[t][u] : ~Same(m, n)}
  BY <1>1, <1>2, <1>4
<1> QED
  BY <1>5 DEF Same, r

(* So what is on the queues was there or is relayed,                       *)
LEMMA ReceiveAdds ==
  ASSUME Types, NEW p \in Player, NEW q \in Player, NEW m \in queue[q][p], Receive(p, q, m),
         NEW t \in Player, NEW u \in Player, NEW n \in queue'[t][u], n \notin queue[t][u]
  PROVE  t = p /\ u \in RelayTo(p, m) /\ ~OutOfDate(p, m) /\ n = Msg(m.player, m.frame, {u})
<1>1. t = p
  BY OthersRows
<1>2. m \in Message /\ queue[p] \in [Player -> SUBSET Message]
  BY DEF Types, QueueType
<1>3. n \in Add(queue[p], Relays(p, m))[u]
  BY <1>1, ReceiverRow
<1>4. n \in Relays(p, m)[u]
  BY <1>1, <1>2, <1>3, RelaysType, AddType
<1> QED
  BY <1>1, <1>2, <1>4, RelaysType

(* and what was there is still, but for what the receiver has acked.       *)
LEMMA ReceiveKeeps ==
  ASSUME Types, NEW p \in Player, NEW q \in Player, NEW m \in queue[q][p], Receive(p, q, m),
         NEW t \in Player, NEW u \in Player, NEW n \in queue[t][u], n \notin queue'[t][u]
  PROVE  u = p /\ t # p /\ t = AckTo(p, m) /\ n.player = m.player /\ n.frame = m.frame
<1>1. t # p
  <2>1. queue[p][u] \subseteq Add(queue[p], Relays(p, m))[u]
    BY AddKeeps
  <2> QED
    BY <2>1, ReceiverRow
<1> QED
  BY <1>1, OthersRows

(* What is relayed is on its way.                                          *)
LEMMA RelaySends ==
  ASSUME Types, NEW p \in Player, NEW q \in Player, NEW m \in queue[q][p], Receive(p, q, m),
         NEW u \in Player, u \in RelayTo(p, m), ~OutOfDate(p, m)
  PROVE  \E n \in queue'[p][u] : n.player = m.player /\ n.frame = m.frame
<1>1. m \in Message
  BY DEF Types, QueueType
<1>2. Msg(m.player, m.frame, {u}) \in Relays(p, m)[u]
  BY <1>1, RelaysType
<1>3. \E n \in Add(queue[p], Relays(p, m))[u] : Same(Msg(m.player, m.frame, {u}), n)
  BY <1>2, AddKeeps
<1>4. queue'[p] = Add(queue[p], Relays(p, m))
  BY ReceiverRow
<1> QED
  BY <1>3, <1>4 DEF Same, Msg

(* A message of t's own that it puts on the queue to u.                    *)
OwnNew(t, u, m) ==
  \E M \in SUBSET plan[t] :
    /\ plan'[t] \subseteq M /\ \A s \in plan[t] \ M : s # t /\ leaveFrame[s] = frame[t]
    /\ OwnTo(t, M, u, m) /\ leaveFrame'[u] = leaveFrame[u]

(* Nothing is announced twice.                                             *)
LEMMA NewIsNew ==
  ASSUME Types, Inv, NEW p \in Player, NEW q \in Player, NEW f \in Int, f > Last(p)
  PROVE  /\ \A n \in queue[p][q] : ~(n.player = p /\ n.frame = f)
         /\ f \notin pending[p]
<1>1. \A n \in queue[p][q] : n.frame \in Int /\ n.frame <= Last(n.player)
  BY Frames DEF Types, QueueType, Message, Inv, QueueBound
<1>2. f \in pending[p] => f <= Last(p)
  BY DEF Inv, PendingBound
<1> QED
  BY <1>1, <1>2, Numbers

(* The send queues of who announces that it leaves.                        *)
LEMMA LeavingRows ==
  ASSUME Types, Inv, NEW p \in Player, HandleLocalPlayerLeaving(p), NEW q \in Player
  PROVE  /\ \A t \in Player : t # p => queue'[t] = queue[t]
         /\ queue[p][q] \subseteq queue'[p][q]
         /\ SendLocalCommand(p, plan[p], LastFrames(p))[q] \subseteq queue'[p][q]
         /\ \A m \in queue'[p][q] : m \in queue[p][q] \/ OwnNew(p, q, m)
<1> DEFINE out == SendLocalCommand(p, plan[p], LastFrames(p))
<1>1. queue' = [queue EXCEPT ![p] = Add(queue[p], out)] /\ leaveFrame[p] = 0 /\ plan' = plan
      /\ leaveFrame' = [leaveFrame EXCEPT ![p] = frame[p] + RunAhead + 1]
  BY DEF HandleLocalPlayerLeaving, Inv, StatusBound
<1>2. LastFrames(p) \in SUBSET Frame
  BY LeavingTypes
<1>3. out \in [Player -> SUBSET Message] /\ \A m \in out[q] : m.player = p /\ m.frame \in LastFrames(p)
  BY <1>2, SendType
<1>4. \A f \in LastFrames(p) : f \in Int /\ f > Last(p)
  BY <1>1, Numbers, Constants DEF LastFrames, Last
<1>5. \A m \in out[q] : OwnTo(p, plan[p], q, m) /\ q # p
  <2>1. \A m \in out[q] : OwnTo(p, plan[p], q, m)
    BY SendForm
  <2> HIDE DEF out
  <2> QED
    BY <2>1 DEF OwnTo
<1> HIDE DEF out
<1>6. Add(queue[p], out)[q] \subseteq queue[p][q] \cup out[q] /\ queue[p][q] \subseteq Add(queue[p], out)[q]
  BY <1>3, AddType, AddKeeps DEF Types, QueueType
<1>7. \A m \in out[q] : m \in Add(queue[p], out)[q]
  <2>1. \A m \in out[q], n \in queue[p][q] : ~Same(m, n)
    BY <1>3, <1>4, NewIsNew DEF Same
  <2> QED
    BY <2>1, AddKeeps
<1>8. ASSUME NEW m \in out[q] PROVE OwnNew(p, q, m)
  <2>1. plan[p] \in SUBSET plan[p] /\ plan'[p] \subseteq plan[p] /\ leaveFrame'[q] = leaveFrame[q]
    BY <1>1, <1>5 DEF Types, PlayerType
  <2> QED
    BY <1>5, <2>1 DEF OwnNew
<1>9. queue'[p] = Add(queue[p], out) /\ \A t \in Player : t # p => queue'[t] = queue[t]
  BY <1>1 DEF Types, QueueType
<1> QED
  BY <1>6, <1>7, <1>8, <1>9 DEF out

(* The send queues of who executes a frame.                                *)
LEMMA ExecuteRows ==
  ASSUME Types, Inv, OwnData, NEW p \in Player, ExecuteFrame(p), NEW q \in Player
  PROVE  /\ \A t \in Player : t # p => queue'[t] = queue[t]
         /\ \A m \in queue[p][q] : m.player = p \/ InGame(p)' => m \in queue'[p][q]
         /\ InGame(p)' => \A gone \in RoutersGone(p, Leaving(p)) :
              \A m \in SendLocalCommand(p, plan[p] \ gone, pending[p])[q] :
                m \in queue'[p][q] \/ \E n \in queue[p][q] : Same(m, n)
         /\ SendLocalCommand(p, Rest(p), Announced(p))[q] \subseteq queue'[p][q]
         /\ \A m \in queue'[p][q] : m \in queue[p][q] \/ OwnNew(p, q, m)
<1> DEFINE out == [v \in Player |-> UNION {SendLocalCommand(p, plan[p] \ gone, pending[p])[v] :
                                             gone \in RoutersGone(p, Leaving(p))}]
           all == Add(queue[p], out)
           row == ProcessPlayerLeave(p, Leaving(p))
           sent == SendLocalCommand(p, Rest(p), Announced(p))
<1>1. /\ Announced(p) \in SUBSET Frame /\ plan' = [plan EXCEPT ![p] = Rest(p)] /\ leaveFrame' = leaveFrame
      /\ queue' = [queue EXCEPT ![p] = IF Announced(p) = {} THEN row ELSE Add(row, sent)]
      /\ localStatus' = [localStatus EXCEPT ![p] = IF p \in Leaving(p) THEN "LEFT" ELSE localStatus[p]]
      /\ InGame(p)
  BY ExecuteParts, ExecuteTypes DEF Ready
<1>2. row = IF p \in Leaving(p) THEN ClearCommandsExceptFrom(p, all) ELSE all
  BY DEF ProcessPlayerLeave, ResendPendingCommands
<1>3. p \in Leaving(p) <=> ~InGame(p)'
  BY <1>1 DEF InGame, Types, PlayerType
<1>4. p \in Leaving(p) => Announced(p) = {}
  BY Numbers DEF Leaving, Announced, Inv, StatusBound
<1>5. pending[p] \in SUBSET Frame /\ queue[p] \in [Player -> SUBSET Message] /\ plan[p] \in SUBSET Player
  BY DEF Types, DataType, QueueType, PlayerType
<1>6. \A v \in Player : \A m \in out[v] :
        m \in Message /\ \E gone \in RoutersGone(p, Leaving(p)) :
                           m \in SendLocalCommand(p, plan[p] \ gone, pending[p])[v]
  <2>1. \A v \in Player, gone \in RoutersGone(p, Leaving(p)) :
          SendLocalCommand(p, plan[p] \ gone, pending[p])[v] \subseteq Message
    BY <1>5, SendType
  <2> QED
    BY <2>1
<1>7. \A gone \in RoutersGone(p, Leaving(p)) : SendLocalCommand(p, plan[p] \ gone, pending[p])[q] \subseteq out[q]
  OBVIOUS
<1>8. out \in [Player -> SUBSET Message]
  BY <1>6
<1>9. \A m \in out[q] : OwnNew(p, q, m)
  <2> SUFFICES ASSUME NEW m \in out[q] PROVE OwnNew(p, q, m)
    OBVIOUS
  <2>1. PICK gone \in RoutersGone(p, Leaving(p)) : m \in SendLocalCommand(p, plan[p] \ gone, pending[p])[q]
    BY <1>6
  <2>2. gone \subseteq Leaving(p) \ {p}
    BY DEF RoutersGone
  <2> DEFINE M == plan[p] \ gone
  <2>3. OwnTo(p, M, q, m)
    BY <2>1, SendForm
  <2>4. plan'[p] = plan[p] \ Leaving(p)
    BY <1>1 DEF Rest, Types, PlayerType
  <2>5. M \in SUBSET plan[p] /\ plan'[p] \subseteq M /\ \A s \in plan[p] \ M : s # p /\ leaveFrame[s] = frame[p]
    BY <2>2, <2>4 DEF Leaving
  <2> HIDE DEF M
  <2> QED
    BY <1>1, <2>3, <2>5 DEF OwnNew
<1>10. \A m \in sent[q] : OwnNew(p, q, m) /\ Announced(p) # {} /\ m.player = p /\ m.frame \in Announced(p)
  <2> SUFFICES ASSUME NEW m \in sent[q]
               PROVE  OwnNew(p, q, m) /\ Announced(p) # {} /\ m.player = p /\ m.frame \in Announced(p)
    OBVIOUS
  <2>1. m.player = p /\ m.frame \in Announced(p)
    BY <1>1, SendType
  <2>2. OwnTo(p, Rest(p), q, m)
    BY SendForm
  <2>3. Rest(p) \in SUBSET plan[p] /\ plan'[p] = Rest(p)
    BY <1>1 DEF Rest, Types, PlayerType
  <2>4. \A s \in plan[p] \ Rest(p) : s # p /\ leaveFrame[s] = frame[p]
    BY <1>4, <2>1 DEF Rest, Leaving
  <2> QED
    BY <1>1, <2>1, <2>2, <2>3, <2>4 DEF OwnNew
<1> HIDE DEF out
<1>11. all \in [Player -> SUBSET Message] /\ all[q] \subseteq queue[p][q] \cup out[q] /\ queue[p][q] \subseteq all[q]
  BY <1>5, <1>8, AddType, AddKeeps
<1>12. \A m \in out[q] : m \in all[q] \/ \E n \in queue[p][q] : Same(m, n)
  BY AddKeeps
<1> HIDE DEF all, row
<1>13. /\ row \in [Player -> SUBSET Message] /\ row[q] \subseteq all[q]
       /\ \A m \in all[q] : m.player = p \/ InGame(p)' => m \in row[q]
  BY <1>2, <1>3, <1>11 DEF ClearCommandsExceptFrom
<1>14. sent \in [Player -> SUBSET Message]
  BY <1>1, SendType
<1>15. \A m \in sent[q], n \in row[q] : ~Same(m, n)
  <2>1. \A f \in Announced(p) : f \in Int /\ f > Last(p)
    BY Numbers, Constants DEF Announced, Last, Inv, StatusBound
  <2>2. \A n \in row[q] : n \in queue[p][q] \/ (n.player = p /\ n.frame \in pending[p])
    BY LeaveQueueType DEF Types, row
  <2> HIDE DEF sent
  <2> QED
    BY <1>10, <2>1, <2>2, NewIsNew DEF Same
<1> HIDE DEF sent
<1>16. /\ Add(row, sent)[q] \subseteq row[q] \cup sent[q] /\ row[q] \subseteq Add(row, sent)[q]
       /\ sent[q] \subseteq Add(row, sent)[q]
  BY <1>13, <1>14, <1>15, AddType, AddKeeps
<1>17. queue'[p] = IF Announced(p) = {} THEN row ELSE Add(row, sent)
  BY <1>1 DEF Types, QueueType
<1>18. queue'[p][q] \subseteq row[q] \cup sent[q] /\ row[q] \subseteq queue'[p][q] /\ sent[q] \subseteq queue'[p][q]
  BY <1>10, <1>16, <1>17
<1>19. \A t \in Player : t # p => queue'[t] = queue[t]
  BY <1>1 DEF Types, QueueType
<1>20. \A m \in queue[p][q] : m.player = p \/ InGame(p)' => m \in queue'[p][q]
  BY <1>11, <1>13, <1>18
<1>21. ASSUME InGame(p)', NEW gone \in RoutersGone(p, Leaving(p)),
              NEW m \in SendLocalCommand(p, plan[p] \ gone, pending[p])[q]
       PROVE  m \in queue'[p][q] \/ \E n \in queue[p][q] : Same(m, n)
  BY <1>7, <1>12, <1>13, <1>18, <1>21
<1>22. \A m \in queue'[p][q] : m \in queue[p][q] \/ OwnNew(p, q, m)
  BY <1>9, <1>10, <1>11, <1>13, <1>18
<1> QED
  BY <1>18, <1>19, <1>20, <1>21, <1>22 DEF sent

(* What catching up puts on the send queues.                               *)
LEMMA CatchUpRows ==
  ASSUME Types, NEW p \in Player, NEW q \in Player, CatchUp(p, q), NEW t \in Player, NEW u \in Player
  PROVE  /\ queue[t][u] \subseteq queue'[t][u]
         /\ \A m \in queue'[t][u] : m \in queue[t][u] \/ (t = p /\ u = q /\ m \in SendFrameDataToPlayer(p, q))
<1> DEFINE help == [v \in Player |-> IF v = q THEN SendFrameDataToPlayer(p, q) ELSE {}]
<1>1. queue' = [queue EXCEPT ![p] = Add(queue[p], help)]
  BY DEF CatchUp
<1>2. \A m \in SendFrameDataToPlayer(p, q) : m \in Message
  <2>1. \A d \in data[p] : d[1] \in Player /\ d[2] \in Frame
    BY DEF Types, DataType
  <2> QED
    BY <2>1, MsgType DEF SendFrameDataToPlayer
<1>3. help \in [Player -> SUBSET Message] /\ \A m \in help[u] : u = q /\ m \in SendFrameDataToPlayer(p, q)
  BY <1>2
<1> HIDE DEF help
<1>4. queue[p][u] \subseteq Add(queue[p], help)[u] /\ Add(queue[p], help)[u] \subseteq queue[p][u] \cup help[u]
  BY <1>3, AddType, AddKeeps DEF Types, QueueType
<1>5. queue'[t][u] = IF t = p THEN Add(queue[p], help)[u] ELSE queue[t][u]
  BY <1>1 DEF Types, QueueType
<1> QED
  BY <1>3, <1>4, <1>5

(* What the receiver has still to take in stays on its way, unless it was  *)
(* another's and its sender has left.                                      *)
LEMMA QueueStays ==
  ASSUME Types, Inv, OwnData, [Next]_vars, NEW t \in Player, NEW u \in Player, NEW m \in queue[t][u],
         InGame(t)' \/ m.player = t, InGame(u), m.frame >= frame[u],
         <<m.player, m.frame>> \notin data'[u]
  PROVE  m \in queue'[t][u]
<1>1. ASSUME NEW o \in Player, HandleLocalPlayerLeaving(o) PROVE m \in queue'[t][u]
  BY <1>1, LeavingRows
<1>2. ASSUME NEW o \in Player, ExecuteFrame(o) PROVE m \in queue'[t][u]
  BY <1>2, ExecuteRows
<1>3. ASSUME NEW o \in Player, NEW q \in Player, NEW n \in queue[q][o], Receive(o, q, n)
      PROVE  m \in queue'[t][u]
  <2>1. m \in queue'[t][u] \/ (u = o /\ n.player = m.player /\ n.frame = m.frame)
    BY <1>3, ReceiveKeeps
  <2>2. u = o /\ n.player = m.player /\ n.frame = m.frame => OutOfDate(o, n) \/ <<m.player, m.frame>> \in data'[u]
    BY <1>3 DEF Receive, Types, DataType
  <2>3. u = o /\ n.frame = m.frame => ~OutOfDate(o, n)
    <3>1. m.frame \in Nat
      BY Frames DEF Types, QueueType, Message
    <3> QED
      BY <3>1, Numbers DEF OutOfDate
  <2> QED
    BY <2>1, <2>2, <2>3
<1>4. ASSUME NEW o \in Player, NEW q \in Player, CatchUp(o, q) PROVE m \in queue'[t][u]
  BY <1>4, CatchUpRows
<1>5. ASSUME NEW o \in Player, NEW q \in Player, GiveUp(o, q) PROVE m \in queue'[t][u]
  <2>1. queue' = [queue EXCEPT ![o][q] = {}] /\ data' = data /\ \A n \in queue[o][q] : InGame(q) => ~Lacks(q, n)
    BY <1>5 DEF GiveUp
  <2>2. Lacks(u, m)
    <3>1. m.frame \in Nat
      BY Frames DEF Types, QueueType, Message
    <3> QED
      BY <2>1, <3>1, Numbers DEF Lacks, OutOfDate
  <2>3. ~(o = t /\ q = u)
    BY <2>1, <2>2
  <2> QED
    BY <2>1, <2>3 DEF Types, QueueType
<1>6. CASE UNCHANGED queue
  BY <1>6
<1> QED
  BY <1>1, <1>2, <1>3, <1>4, <1>5, <1>6 DEF Next, EndOfGameCheck, vars

(* A message that t relays to u, and one it sends u who is behind.         *)
RelayNew(t, u, m) ==
  \E q \in Player : \E n \in queue[q][t] :
    Receive(t, q, n) /\ u \in RelayTo(t, n) /\ ~OutOfDate(t, n) /\ m = Msg(n.player, n.frame, {u})
HelpNew(t, u, m) == CatchUp(t, u) /\ m \in SendFrameDataToPlayer(t, u)

(* Every message is its sender's own, relayed or to catch up.              *)
LEMMA NewMessages ==
  ASSUME Types, Inv, OwnData, [Next]_vars, NEW t \in Player, NEW u \in Player, NEW m \in queue'[t][u],
         m \notin queue[t][u]
  PROVE  OwnNew(t, u, m) \/ RelayNew(t, u, m) \/ HelpNew(t, u, m)
<1> DEFINE Known == OwnNew(t, u, m) \/ RelayNew(t, u, m) \/ HelpNew(t, u, m)
<1>1. ASSUME NEW o \in Player, HandleLocalPlayerLeaving(o) PROVE Known
  BY <1>1, LeavingRows
<1>2. ASSUME NEW o \in Player, ExecuteFrame(o) PROVE Known
  BY <1>2, ExecuteRows
<1>3. ASSUME NEW o \in Player, NEW q \in Player, NEW n \in queue[q][o], Receive(o, q, n) PROVE Known
  <2>1. t = o /\ u \in RelayTo(o, n) /\ ~OutOfDate(o, n) /\ m = Msg(n.player, n.frame, {u})
    BY <1>3, ReceiveAdds
  <2> QED
    BY <1>3, <2>1 DEF RelayNew
<1>4. ASSUME NEW o \in Player, NEW q \in Player, CatchUp(o, q) PROVE Known
  BY <1>4, CatchUpRows DEF HelpNew
<1>5. ASSUME NEW o \in Player, NEW q \in Player, GiveUp(o, q) PROVE Known
  BY <1>5, GiveUpQueue
<1>6. CASE UNCHANGED queue
  BY <1>6
<1> QED
  BY <1>1, <1>2, <1>3, <1>4, <1>5, <1>6 DEF Next, EndOfGameCheck, vars

----------------------------------------------------------------------------
(* What Full says.                                                         *)
LEMMA FullIs ==
  ASSUME NEW s \in Player, NEW f \in Frame
  PROVE  /\ Full(s, f) \in Message /\ Full(s, f).player = s /\ Full(s, f).frame = f
         /\ Full(s, f).relay = Player \ {s}
         /\ \A m \in Message : m.player = s /\ m.frame = f /\ m.relay = Player \ {s} => m = Full(s, f)
BY DEF Full, Msg, Message

(* The first router has no need of help: what it lacks is on its way.      *)
LEMMA FirstNotHelped ==
  ASSUME Types, Inv, OwnData, RouterIsSent, NEW t \in Player
  PROVE  ~CatchUp(t, FirstRouter)
<1> SUFFICES ASSUME CatchUp(t, FirstRouter) PROVE FALSE
  OBVIOUS
<1> DEFINE R == FirstRouter
           k == frame[R]
<1>1. R \in Player
  BY First
<1>2. /\ InGame(R) /\ ~Ready(R) /\ k < frame[t]
      /\ \A u \in Player : \A m \in queue[u][R] : ~Lacks(R, m)
  BY <1>1 DEF CatchUp
<1>3. k \in Frame /\ k \in Nat /\ frame[t] \in Nat /\ frame[t] <= MaxFrame
  BY <1>1, Numbers, Frames
<1>4. PICK u \in plan[R] : <<u, k>> \notin data[R]
  BY <1>2, <1>3, Constants DEF Ready
<1>5. u \in Player /\ leaveFrame[u] \in Nat /\ frame[u] \in Nat
  BY <1>1, Numbers DEF Types, PlayerType
<1>6. k <= Last(u)
  <2>1. leaveFrame[u] = 0 \/ k <= leaveFrame[u]
    BY <1>1, <1>4 DEF Inv, PlanBound
  <2>2. leaveFrame[u] = 0 => frame[t] <= frame[u] + RunAhead
    BY <1>5 DEF Inv, Lead
  <2> QED
    BY <1>2, <1>3, <1>5, <2>1, <2>2, Constants DEF Last
<1>7. u # R
  BY <1>1, <1>2, <1>3, <1>4, <1>6 DEF OwnData
<1>8. PastRouter(u) => k <= leaveFrame[R]
  <2>1. R \in plan[R]
    BY <1>1, <1>2 DEF OwnData
  <2> QED
    BY <1>1, <2>1 DEF Inv, PlanBound, PastRouter
<1>9. Full(u, k) \in queue[u][R]
  BY <1>2, <1>3, <1>4, <1>5, <1>6, <1>7, <1>8 DEF RouterIsSent
<1>10. Lacks(R, Full(u, k))
  BY <1>3, <1>4, <1>5, FullIs DEF Lacks, OutOfDate
<1> QED
  BY <1>2, <1>5, <1>9, <1>10

(* What has been taken over stays so as long as somebody lacks it.         *)
LEMMA TakenOverStays ==
  ASSUME Types, Inv, OwnData, [Next]_vars, NEW d \in Player \X Frame, TakenOver(d), Lacking(d)' # {}
  PROVE  TakenOver(d)'
<1>1. PICK t \in Player \ {FirstRouter} :
        /\ d \in data[t] /\ PastRouter(t)
        /\ frame[t] > d[2] \/ (t # d[1] /\ (InGame(t) => Router(t) \in {t, d[1]}))
  BY DEF TakenOver
<1>2. d \in data'[t]
  BY <1>1, DataStays
<1>3. PastRouter(t)' /\ Types' /\ Inv' /\ frame'[t] >= frame[t] /\ (InGame(t)' => InGame(t)) /\ plan'[t] \subseteq plan[t]
  BY <1>1, StepGrows
<1>4. d[1] \in Player /\ d[2] \in Nat /\ frame[t] \in Nat /\ frame'[t] \in Nat
  BY <1>1, <1>3, Numbers, Frames DEF Types, PlayerType
<1>5. frame'[t] > d[2] \/ (t # d[1] /\ (InGame(t)' => Router(t)' \in {t, d[1]}))
  <2>1. CASE frame[t] > d[2]
    BY <1>3, <1>4, <2>1
  <2>2. CASE t # d[1] /\ ~InGame(t)
    BY <1>3, <2>2
  <2>3. CASE t # d[1] /\ InGame(t) /\ Router(t) \in {t, d[1]} /\ Router(t) \in plan'[t]
    <3>1. t \in plan[t]
      BY <2>3 DEF OwnData
    <3>2. Router(t)' = Router(t)
      BY <2>3, <3>1, RouterStays
    <3> QED
      BY <2>3, <3>2
  <2>4. CASE t # d[1] /\ InGame(t) /\ Router(t) = t /\ Router(t) \notin plan'[t]
    <3>1. ~InGame(t)'
      <4>1. (ExecuteFrame(t) /\ plan'[t] = Rest(t)) \/ plan'[t] = plan[t]
        BY WhoActs, ExecuteParts DEF Types, PlayerType
      <4>2. t \in plan[t]
        BY <2>4 DEF OwnData
      <4>3. ExecuteFrame(t) /\ t \in Leaving(t)
        BY <2>4, <4>1, <4>2 DEF Rest
      <4> QED
        BY <4>3, ExecuteParts DEF InGame, Types, PlayerType
    <3> QED
      BY <2>4, <3>1
  <2>5. CASE Router(t) = d[1] /\ Router(t) \notin plan'[t]
    <3>1. leaveFrame'[d[1]] # 0 /\ frame'[t] > leaveFrame'[d[1]]
      <4>1. leaveFrame'[d[1]] \in Nat
        BY <1>3, <1>4, Frames DEF Types, PlayerType
      <4> QED
        BY <1>3, <1>4, <2>5, <4>1 DEF Inv, PlanBound
    <3>2. d[2] <= leaveFrame'[d[1]]
      BY <1>2, <1>3, <3>1 DEF Inv, DataBound, Last
    <3>3. leaveFrame'[d[1]] \in Nat
      BY <1>3, <1>4, Frames DEF Types, PlayerType
    <3> QED
      BY <1>4, <3>1, <3>2, <3>3
  <2> QED
    BY <1>1, <2>1, <2>2, <2>3, <2>4, <2>5
<1> QED
  BY <1>1, <1>2, <1>3, <1>5 DEF TakenOver

(* Who carries it does so, or leaves and has then taken it over.           *)
LEMMA CarriedStays ==
  ASSUME Types, Inv, OwnData, [Next]_vars, NEW d \in Player \X Frame, NEW x \in Player, Carried(x, d),
         Lacking(d)' # {}
  PROVE  Carried(x, d)' \/ TakenOver(d)'
<1> DEFINE R == FirstRouter
<1>1. R \in Player
  BY First
<1>2. /\ x \notin {d[1], R} /\ d \in data[x] /\ InGame(x) /\ leaveFrame[R] # 0 /\ Last(x) >= leaveFrame[R]
      /\ \A q \in Lacking(d) : Sent(x, q, d)
  BY DEF Carried
<1>3. d \in data'[x]
  BY <1>2, DataStays
<1>4. Types' /\ Inv' /\ leaveFrame'[R] = leaveFrame[R] /\ Last(x)' >= Last(x)
  BY <1>1, <1>2, StepGrows
<1>5. leaveFrame[R] \in Nat /\ Last(x) \in Int /\ Last(x)' \in Int /\ d[2] \in Nat /\ d = <<d[1], d[2]>>
  <2>1. Last(x)' \in Int
    BY <1>4, Frames, Constants DEF Types, PlayerType, Last
  <2> QED
    BY <1>1, <2>1, Numbers, Frames
<1>6. Last(x)' >= leaveFrame'[R] /\ leaveFrame'[R] # 0
  BY <1>2, <1>4, <1>5
<1>7. CASE InGame(x)'
  <2>1. ASSUME NEW q \in Lacking(d)' PROVE Sent(x, q, d)'
    <3>1. q \in Lacking(d) /\ d \notin data'[q]
      BY LackingShrinks DEF Lacking
    <3>2. q \in Player /\ InGame(q) /\ frame[q] <= d[2]
      BY <3>1, LackingIs
    <3>3. PICK m \in queue[x][q] : m.player = d[1] /\ m.frame = d[2]
      BY <1>2, <3>1 DEF Sent
    <3>4. m.frame >= frame[q] /\ <<m.player, m.frame>> \notin data'[q]
      BY <1>5, <3>1, <3>2, <3>3, Numbers
    <3>5. m \in queue'[x][q]
      BY <1>7, <3>2, <3>4, QueueStays
    <3> QED
      BY <3>3, <3>5 DEF Sent
  <2> QED
    BY <1>2, <1>3, <1>6, <1>7, <2>1 DEF Carried
<1>8. CASE ~InGame(x)'
  <2>1. ExecuteFrame(x) /\ leaveFrame[x] = frame[x]
    BY <1>2, <1>8, WhoActs DEF Leaving
  <2>2. frame'[x] = frame[x] + 1 /\ leaveFrame' = leaveFrame
    BY <2>1, ExecuteParts DEF Types, PlayerType
  <2>3. PastRouter(x)'
    BY <1>2, <1>5, <2>1, <2>2, Numbers DEF PastRouter, Last
  <2> QED
    BY <1>2, <1>3, <1>8, <2>3 DEF TakenOver
<1> QED
  BY <1>7, <1>8

(* So what needs its player no more never does again.                      *)
LEMMA HandedStays ==
  ASSUME Types, Inv, OwnData, [Next]_vars, NEW d \in Player \X Frame, Handed(d)
  PROVE  Handed(d)'
<1>1. Lacking(d) = {} => Lacking(d)' = {}
  BY LackingShrinks
<1>2. TakenOver(d) /\ Lacking(d)' # {} => TakenOver(d)'
  BY TakenOverStays
<1>3. \A x \in Player : Carried(x, d) /\ Lacking(d)' # {} => Carried(x, d)' \/ TakenOver(d)'
  BY CarriedStays
<1> QED
  BY <1>1, <1>2, <1>3 DEF Handed

----------------------------------------------------------------------------
(* Of more frames more is sent.                                            *)
LEMMA SendMore ==
  ASSUME NEW p \in Player, NEW members, NEW G, NEW F \in SUBSET G, NEW q \in Player
  PROVE  SendLocalCommand(p, members, F)[q] \subseteq SendLocalCommand(p, members, G)[q]
BY DEF SendLocalCommand

(* What a player announces it has and sends, and has pending unless it is  *)
(* the router.                                                             *)
LEMMA Announces ==
  ASSUME Types, Inv, OwnData, [Next]_vars, NEW p \in Player, NEW k \in Frame, Last(p) < k, k <= Last(p)'
  PROVE  /\ leaveFrame[p] = 0 /\ k >= frame[p] + RunAhead /\ k >= frame'[p] /\ <<p, k>> \in data'[p]
         /\ Router(p)' # p => k \in pending'[p]
         /\ \A q \in Player : SendLocalCommand(p, plan'[p], {k})[q] \subseteq queue'[p][q]
<1>1. k \in Nat /\ Types' /\ Inv'
  BY StepGrows, Frames
<1>2. /\ frame[p] \in Nat /\ leaveFrame[p] \in Nat /\ Last(p) \in Int
      /\ frame'[p] \in Nat /\ leaveFrame'[p] \in Nat
  <2>1. frame'[p] \in Nat /\ leaveFrame'[p] \in Nat
    <3>1. frame'[p] \in Frame /\ leaveFrame'[p] \in {0} \cup Frame
      BY <1>1 DEF Types, PlayerType
    <3> QED
      BY <3>1, Frames
  <2> QED
    BY <2>1, Numbers
<1>3. leaveFrame[p] = 0
  <2>1. leaveFrame[p] # 0 => Last(p)' = Last(p)
    BY StepGrows DEF Last
  <2> QED
    BY <1>1, <1>2, <2>1
<1>4. localStatus[p] = "INGAME"
  BY <1>3 DEF Inv, StatusBound
<1>5. CASE ExecuteFrame(p)
  <2>1. /\ frame'[p] = frame[p] + 1 /\ leaveFrame' = leaveFrame /\ plan'[p] = Rest(p)
        /\ data'[p] = Kept(p, Rest(p), frame[p] + 1) \cup ({p} \X Announced(p))
        /\ pending'[p] = IF Announced(p) = {} THEN pending[p] ELSE Pending(p, Rest(p), Announced(p))
    BY <1>5, ExecuteParts DEF Types, DataType, PlayerType
  <2>2. k = frame[p] + RunAhead /\ k <= MaxFrame
    BY <1>1, <1>2, <1>3, <2>1, Constants, Frames DEF Last
  <2>3. Announced(p) = {k}
    BY <1>4, <2>2 DEF Announced
  <2>4. Router(p)' # p => k \in pending'[p]
    BY <2>1, <2>3 DEF Pending, Router
  <2>5. \A q \in Player : SendLocalCommand(p, plan'[p], {k})[q] \subseteq queue'[p][q]
    BY <1>5, <2>1, <2>3, ExecuteRows
  <2>6. <<p, k>> \in data'[p]
    BY <2>1, <2>3
  <2>7. k >= frame[p] + RunAhead /\ k >= frame'[p]
    BY <1>2, <2>1, <2>2, Constants
  <2> QED
    BY <1>3, <2>4, <2>5, <2>6, <2>7
<1>6. CASE HandleLocalPlayerLeaving(p)
  <2>1. /\ leaveFrame' = [leaveFrame EXCEPT ![p] = frame[p] + RunAhead + 1] /\ UNCHANGED <<frame, plan>>
        /\ data' = [data EXCEPT ![p] = data[p] \cup ({p} \X LastFrames(p))]
        /\ pending' = [pending EXCEPT ![p] = Pending(p, plan[p], LastFrames(p))]
    BY <1>6 DEF HandleLocalPlayerLeaving
  <2>2. k \in LastFrames(p) /\ k >= frame[p] + RunAhead
    <3>1. Last(p)' = frame[p] + RunAhead + 1
      BY <1>2, <2>1, Constants DEF Last, Types, PlayerType
    <3>2. k > frame[p] + RunAhead - 1 /\ k <= frame[p] + RunAhead + 1
      BY <1>3, <3>1 DEF Last
    <3> QED
      BY <1>1, <1>2, <3>2, Constants DEF LastFrames
  <2>3. <<p, k>> \in data'[p]
    BY <2>1, <2>2 DEF Types, DataType
  <2>4. Router(p)' # p => k \in pending'[p]
    BY <2>1, <2>2 DEF Pending, Router, Types, DataType
  <2>5. \A q \in Player : SendLocalCommand(p, plan'[p], {k})[q] \subseteq queue'[p][q]
    <3>1. {k} \in SUBSET LastFrames(p)
      BY <2>2
    <3>2. \A q \in Player : SendLocalCommand(p, plan[p], {k})[q] \subseteq SendLocalCommand(p, plan[p], LastFrames(p))[q]
      BY <3>1, SendMore
    <3> QED
      BY <1>6, <2>1, <3>2, LeavingRows
  <2>6. k >= frame'[p]
    BY <1>1, <1>2, <2>1, <2>2, Constants
  <2> QED
    BY <1>3, <2>2, <2>3, <2>4, <2>5, <2>6
<1>7. ExecuteFrame(p) \/ HandleLocalPlayerLeaving(p)
  <2>1. frame'[p] = frame[p] /\ leaveFrame'[p] = leaveFrame[p] => Last(p)' = Last(p)
    BY DEF Last
  <2> QED
    BY <1>1, <1>2, <2>1, WhoActs
<1> QED
  BY <1>5, <1>6, <1>7

(* Who is in the game keeps its own data, and its place in its plan.       *)
LEMMA OwnDataNext ==
  ASSUME Types, Inv, OwnData, [Next]_vars
  PROVE  OwnData'
<1> SUFFICES ASSUME NEW p \in Player, InGame(p)'
             PROVE  /\ p \in plan'[p]
                    /\ \A k \in Frame : frame'[p] <= k /\ k <= Last(p)' => <<p, k>> \in data'[p]
  BY DEF OwnData
<1>1. InGame(p) /\ p \in plan[p] /\ frame[p] \in Nat /\ frame'[p] \in Nat /\ frame'[p] >= frame[p]
  BY StepGrows, Numbers, Frames DEF OwnData, Types, PlayerType
<1>2. p \in plan'[p]
  <2>1. ASSUME ExecuteFrame(p) PROVE p \in plan'[p]
    <3>1. localStatus' = [localStatus EXCEPT ![p] = IF p \in Leaving(p) THEN "LEFT" ELSE localStatus[p]]
          /\ plan' = [plan EXCEPT ![p] = Rest(p)]
      BY <2>1, ExecuteParts
    <3>2. p \notin Leaving(p)
      BY <3>1 DEF InGame, Types, PlayerType
    <3> QED
      BY <1>1, <3>1, <3>2 DEF Rest, Types, PlayerType
  <2> QED
    BY <1>1, <2>1, WhoActs
<1>3. ASSUME NEW k \in Frame, frame'[p] <= k, k <= Last(p)'
      PROVE  <<p, k>> \in data'[p]
  <2>1. CASE k <= Last(p)
    <3>1. k \in Nat
      BY Frames
    <3>2. <<p, k>> \in data[p]
      BY <1>1, <1>3, <2>1, <3>1 DEF OwnData
    <3> DEFINE d == <<p, k>>
    <3>3. d[2] >= frame'[p]
      BY <1>1, <1>3, <3>1
    <3> HIDE DEF d
    <3>4. d \in data[p] => d \in data'[p]
      BY <3>3, DataStays
    <3> QED
      BY <3>2, <3>4 DEF d
  <2>2. CASE k > Last(p)
    BY <1>3, <2>2, Announces
  <2> QED
    BY <2>1, <2>2, Numbers, Frames
<1> QED
  BY <1>2, <1>3

(* What a relayed message says, and whom it is for.                        *)
LEMMA RelayedForm ==
  ASSUME Types, Addressed, NEW t \in Player, NEW u \in Player, NEW m, RelayNew(t, u, m)
  PROVE  /\ u # t /\ m.relay = {u} /\ m.player # t /\ m.player # u
         /\ \E q \in Player : \E n \in queue[q][t] :
              /\ Receive(t, q, n) /\ u \in RelayTo(t, n) /\ ~OutOfDate(t, n)
              /\ n.player = m.player /\ n.frame = m.frame
              /\ n.relay = Player \ {n.player} /\ n.relay # {t}
<1>1. PICK q \in Player : \E n \in queue[q][t] :
        Receive(t, q, n) /\ u \in RelayTo(t, n) /\ ~OutOfDate(t, n) /\ m = Msg(n.player, n.frame, {u})
  BY DEF RelayNew
<1>2. PICK n \in queue[q][t] :
        Receive(t, q, n) /\ u \in RelayTo(t, n) /\ ~OutOfDate(t, n) /\ m = Msg(n.player, n.frame, {u})
  BY <1>1
<1>3. u # t /\ u \in n.relay
  BY <1>2 DEF RelayTo
<1>4. n.player # t /\ n.relay \in {{t}, Player \ {n.player}}
  BY DEF Addressed
<1>5. n.relay = Player \ {n.player} /\ n.relay # {t} /\ u # n.player
  BY <1>3, <1>4
<1>6. m.player = n.player /\ m.frame = n.frame /\ m.relay = {u}
  BY <1>2 DEF Msg
<1> QED
  BY <1>2, <1>3, <1>4, <1>5, <1>6

(* What is sent to who is behind.                                          *)
LEMMA HelpForm ==
  ASSUME Types, NEW t \in Player, NEW u \in Player, NEW m, HelpNew(t, u, m)
  PROVE  /\ CatchUp(t, u) /\ u # t /\ m.relay = {u} /\ m.player # u /\ m.frame < frame[t]
         /\ UNCHANGED <<localStatus, frame, plan, leaveFrame, data>>
<1>1. CatchUp(t, u)
  BY DEF HelpNew
<1>2. PICK d \in data[t] : d[1] # u /\ d[2] < frame[t] /\ m = Msg(d[1], d[2], {u})
  BY DEF HelpNew, SendFrameDataToPlayer
<1>3. m.player = d[1] /\ m.frame = d[2] /\ m.relay = {u}
  BY <1>2 DEF Msg
<1>4. u # t /\ UNCHANGED <<localStatus, frame, plan, leaveFrame, data>>
  BY <1>1 DEF CatchUp, Open
<1> QED
  BY <1>1, <1>2, <1>3, <1>4

(* Messages stay addressed as they are.                                    *)
LEMMA AddressedNext ==
  ASSUME Types, Inv, OwnData, Addressed, [Next]_vars
  PROVE  Addressed'
<1> SUFFICES ASSUME NEW t \in Player, NEW u \in Player, NEW m \in queue'[t][u]
             PROVE  m.player # u /\ t # u /\ m.relay \in {{u}, Player \ {m.player}}
  BY DEF Addressed
<1>1. CASE m \in queue[t][u]
  BY <1>1 DEF Addressed
<1>2. CASE OwnNew(t, u, m)
  <2>1. PICK M : OwnTo(t, M, u, m)
    BY <1>2 DEF OwnNew
  <2> QED
    BY <2>1 DEF OwnTo
<1>3. CASE RelayNew(t, u, m)
  BY <1>3, RelayedForm
<1>4. CASE HelpNew(t, u, m)
  BY <1>4, HelpForm
<1> QED
  BY <1>1, <1>2, <1>3, <1>4, NewMessages

(* What is for all goes to routers.                                        *)
LEMMA InFullToNextNext ==
  ASSUME Types, Inv, OwnData, Addressed, InFullToNext, [Next]_vars
  PROVE  InFullToNext'
<1> DEFINE R == FirstRouter
<1> SUFFICES ASSUME NEW u \in Player, NEW t \in Player, NEW m \in queue'[u][t], t # R, m.relay # {t}
             PROVE  u = m.player /\ PastRouter(u)' /\ Last(t)' >= leaveFrame'[R]
  BY DEF InFullToNext
<1>1. R \in Player /\ Types' /\ Inv'
  BY First, StepGrows
<1>2. CASE m \in queue[u][t]
  <2>1. u = m.player /\ PastRouter(u) /\ Last(t) >= leaveFrame[R]
    BY <1>2 DEF InFullToNext
  <2>2. leaveFrame[R] # 0
    BY <2>1 DEF PastRouter
  <2>3. leaveFrame'[R] = leaveFrame[R] /\ PastRouter(u)' /\ Last(t)' >= Last(t)
    BY <1>1, <2>1, <2>2, StepGrows
  <2>4. Last(t)' \in Int
    BY <1>1, Frames, Constants DEF Types, PlayerType, Last
  <2> QED
    BY <1>1, <2>1, <2>3, <2>4, Numbers
<1>3. CASE OwnNew(u, t, m)
  <2>1. PICK M \in SUBSET plan[u] :
          /\ plan'[u] \subseteq M /\ \A s \in plan[u] \ M : leaveFrame[s] = frame[u]
          /\ OwnTo(u, M, t, m) /\ leaveFrame'[t] = leaveFrame[t]
    BY <1>3 DEF OwnNew
  <2>2. m.player = u /\ t \in M /\ Lowest(M) = t
    BY <2>1 DEF OwnTo
  <2>3. \A s \in Player : R <= s
    BY LowestIs DEF FirstRouter
  <2>4. M \in SUBSET Player
    BY <2>1 DEF Types, PlayerType
  <2>5. R \notin M
    <3>1. R \in M => Lowest(M) = R
      BY <2>3, <2>4, LowestStays
    <3> QED
      BY <2>2, <3>1
  <2>6. PastRouter(u)'
    <3>1. R \notin plan'[u]
      BY <2>1, <2>5
    <3>2. leaveFrame'[R] \in Nat /\ frame'[u] \in Nat
      BY <1>1, Frames DEF Types, PlayerType
    <3> QED
      BY <1>1, <3>1, <3>2 DEF Inv, PlanBound, PastRouter
  <2>7. leaveFrame[R] # 0 /\ leaveFrame[R] <= frame[u]
    <3>1. R \notin plan[u] \/ leaveFrame[R] = frame[u]
      BY <2>1, <2>5
    <3> QED
      BY <1>1, <3>1, Numbers DEF Inv, PlanBound
  <2>8. leaveFrame'[R] = leaveFrame[R]
    BY <1>1, <2>7, StepGrows
  <2>9. t \in plan[u] /\ (leaveFrame[t] = 0 \/ frame[u] <= leaveFrame[t])
    BY <2>1, <2>2 DEF Inv, PlanBound
  <2>10. CASE leaveFrame[t] = 0
    <3>1. frame'[u] <= frame'[t] + RunAhead
      BY <1>1, <2>1, <2>10 DEF Inv, Lead
    <3>2. frame'[u] > leaveFrame'[R]
      BY <2>6 DEF PastRouter
    <3>3. frame'[u] \in Nat /\ frame'[t] \in Nat /\ leaveFrame'[R] \in Nat
      BY <1>1, Frames DEF Types, PlayerType
    <3> QED
      BY <2>1, <2>2, <2>6, <2>10, <3>1, <3>2, <3>3, Constants DEF Last
  <2>11. CASE leaveFrame[t] # 0
    BY <1>1, <2>1, <2>2, <2>6, <2>7, <2>8, <2>9, <2>11, Numbers DEF Last
  <2> QED
    BY <2>2, <2>6, <2>10, <2>11
<1>4. CASE RelayNew(u, t, m)
  BY <1>4, RelayedForm
<1>5. CASE HelpNew(u, t, m)
  BY <1>5, HelpForm
<1> QED
  BY <1>2, <1>3, <1>4, <1>5, NewMessages

(* Clients' own messages are for all.                                      *)
LEMMA OwnInFullNext ==
  ASSUME Types, Inv, OwnData, Addressed, RouterIsSent, OwnInFull, [Next]_vars
  PROVE  OwnInFull'
<1> DEFINE R == FirstRouter
<1> SUFFICES ASSUME NEW s \in Player, NEW t \in Player, NEW m \in queue'[s][t],
                    m.player = s, s # R,
                    t = R \/ (InGame(s)' /\ Router(s)' # s /\ m.frame >= frame'[s])
             PROVE  m.relay = Player \ {s}
  BY DEF OwnInFull
<1>1. Types' /\ Inv' /\ R \in Player /\ QueueType'
  BY First, StepGrows DEF Types
<1>2. m.frame \in Nat /\ frame[s] \in Nat /\ frame'[s] \in Nat /\ frame'[s] >= frame[s]
  BY <1>1, StepGrows, Frames DEF Types, PlayerType, QueueType, Message
<1>3. InGame(s)' => InGame(s) /\ s \in plan[s] /\ s \in plan'[s]
  BY StepGrows, OwnDataNext DEF OwnData
<1>4. CASE m \in queue[s][t]
  <2>1. InGame(s)' /\ Router(s) = s => Router(s)' = s
    BY <1>3, RouterStays
  <2> QED
    BY <1>2, <1>3, <1>4, <2>1 DEF OwnInFull
<1>5. CASE OwnNew(s, t, m)
  <2>1. PICK M \in SUBSET plan[s] : plan'[s] \subseteq M /\ OwnTo(s, M, t, m)
    BY <1>5 DEF OwnNew
  <2>2. M \in SUBSET Player /\ t \in M
    BY <2>1 DEF OwnTo, Types, PlayerType
  <2>3. t = R => Lowest(M) = R
    <3>1. \A q \in Player : R <= q
      BY LowestIs DEF FirstRouter
    <3> QED
      BY <2>2, <3>1, LowestStays
  <2>4. InGame(s)' /\ Lowest(M) = s => Router(s)' = s
    <3>1. ASSUME InGame(s)', Lowest(M) = s PROVE Lowest(plan'[s]) = s
      <4>1. \A q \in M : s <= q
        BY <2>2, <3>1, LowestIs
      <4> QED
        BY <1>3, <2>1, <2>2, <3>1, <4>1, LowestStays
    <3> QED
      BY <3>1 DEF Router
  <2>5. Lowest(M) # s
    BY <2>3, <2>4
  <2> QED
    BY <2>1, <2>5 DEF OwnTo
<1>6. CASE RelayNew(s, t, m)
  BY <1>6, RelayedForm
<1>7. CASE HelpNew(s, t, m)
  <2>1. m.frame < frame[s] /\ frame'[s] = frame[s] /\ t # R
    BY <1>7, HelpForm, FirstNotHelped
  <2> QED
    BY <1>2, <2>1
<1> QED
  BY <1>4, <1>5, <1>6, <1>7, NewMessages

(* What is received is had, if anybody lacks it; and who lacks what is for *)
(* all is relayed it.                                                      *)
LEMMA ReceiverHas ==
  ASSUME Types, Inv, NEW p \in Player, NEW q \in Player, NEW m \in queue[q][p], Receive(p, q, m)
  PROVE  /\ InGame(p) /\ UNCHANGED <<localStatus, frame, plan, leaveFrame, executed>> /\ [Next]_vars
         /\ m \in Message /\ m.player \in Player /\ m.frame \in Frame
         /\ <<m.player, m.frame>> \in Player \X Frame
         /\ p \notin Lacking(<<m.player, m.frame>>)'
         /\ Lacking(<<m.player, m.frame>>)' # {} => <<m.player, m.frame>> \in data'[p]
<1> DEFINE d == <<m.player, m.frame>>
<1>1. InGame(p) /\ UNCHANGED <<localStatus, frame, plan, leaveFrame, executed>> /\ [Next]_vars
  BY DEF Receive, Next
<1>2. m \in Message /\ m.player \in Player /\ m.frame \in Frame /\ m.frame \in Nat
  BY Frames DEF Types, QueueType, Message
<1>3. ~OutOfDate(p, m) => d \in data'[p]
  BY DEF Receive, Types, DataType
<1>4. data[p] \subseteq data'[p]
  BY DEF Receive, Types, DataType
<1>5. d \in Player \X Frame /\ d[1] = m.player /\ d[2] = m.frame
  BY <1>2
<1>6. d[2] <= Last(d[1])
  BY <1>5 DEF Inv, QueueBound
<1> HIDE DEF d
<1>7. OutOfDate(p, m) /\ Lacking(d) # {} => d \in data[p]
  BY <1>5, <1>6, HasLate DEF OutOfDate
<1>8. Lacking(d)' \subseteq Lacking(d)
  BY <1>1, <1>5, LackingShrinks
<1>9. Lacking(d)' # {} => d \in data'[p]
  BY <1>3, <1>4, <1>7, <1>8
<1>10. p \notin Lacking(d)'
  BY <1>9 DEF Lacking
<1> QED
  BY <1>1, <1>2, <1>5, <1>9, <1>10 DEF d

(* Whatever is relayed to somebody is relayed to all who lack it.          *)
LEMMA RelayReaches ==
  ASSUME Types, Inv, Addressed, NEW p \in Player, NEW q \in Player, NEW m \in queue[q][p], Receive(p, q, m),
         RelayTo(p, m) # {} \/ m.relay = Player \ {m.player},
         NEW u \in Lacking(<<m.player, m.frame>>)'
  PROVE  u \in RelayTo(p, m) /\ (~OutOfDate(p, m) => Sent(p, u, <<m.player, m.frame>>)')
<1> DEFINE d == <<m.player, m.frame>>
<1>1. InGame(p) /\ [Next]_vars /\ d \in Player \X Frame /\ p \notin Lacking(d)' /\ d[1] = m.player /\ d[2] = m.frame
  BY ReceiverHas
<1> HIDE DEF d
<1>2. u \in Lacking(d)
  BY <1>1, LackingShrinks DEF d
<1>3. u \in Player /\ u # m.player /\ u \in plan[p] /\ u # p
  BY <1>1, <1>2, LackingIs DEF d
<1>4. m.relay = Player \ {m.player}
  <2>1. m.relay \in {{p}, Player \ {m.player}}
    BY DEF Addressed
  <2>2. m.relay = {p} => RelayTo(p, m) = {}
    BY DEF RelayTo
  <2> QED
    BY <1>3, <2>1, <2>2
<1>5. u \in RelayTo(p, m)
  BY <1>1, <1>3, <1>4 DEF RelayTo, Open
<1>6. ~OutOfDate(p, m) => \E n \in queue'[p][u] : n.player = m.player /\ n.frame = m.frame
  BY <1>3, <1>5, RelaySends
<1>7. ~OutOfDate(p, m) => Sent(p, u, d)'
  BY <1>1, <1>6 DEF Sent
<1> QED
  BY <1>5, <1>7 DEF d

(* Who has not acked a relayed command includes who lacks it.              *)
LEMMA RelayedNext ==
  ASSUME Types, Inv, Addressed, RelayedToLackers, [Next]_vars
  PROVE  RelayedToLackers'
<1> SUFFICES ASSUME NEW r \in Player, NEW d \in DOMAIN relayed'[r], NEW u \in Lacking(d)'
             PROVE  u \in relayed'[r][d]
  BY DEF RelayedToLackers
<1>1. ASSUME relayed' = relayed PROVE u \in relayed'[r][d]
  <2>1. d \in Player \X Frame
    BY <1>1 DEF Types, RelayedType, RelayedSet
  <2>2. u \in Lacking(d)
    BY <2>1, LackingShrinks
  <2> QED
    BY <1>1, <2>2 DEF RelayedToLackers
<1>2. ASSUME NEW p \in Player, NEW q \in Player, NEW m \in queue[q][p], Receive(p, q, m)
      PROVE  u \in relayed'[r][d]
  <2> DEFINE e == <<m.player, m.frame>>
             rel == AfterRelay(p, m, e)
             a == AckTo(p, m)
  <2>1. relayed' = rel \/ (a \in Player /\ relayed' = AfterAckStage2(rel, a, p, e))
    <3>1. a \in Open(p, plan[p]) => a \in Player
      BY DEF Open, Types, PlayerType
    <3> QED
      BY <1>2, <3>1 DEF Receive
  <2>2. m \in Message /\ e \in Player \X Frame /\ p \notin Lacking(e)'
    BY <1>2, ReceiverHas
  <2>3. \A v \in Lacking(e)' : RelayTo(p, m) # {} => v \in RelayTo(p, m)
    BY <1>2, RelayReaches
  <2> HIDE DEF e, a
  <2>4. rel \in [Player -> RelayedSet]
    BY <2>2, RelayType DEF Types, e
  <2>5. rel = relayed \/ (RelayTo(p, m) # {} /\ rel = [relayed EXCEPT ![p] =
                            [f \in DOMAIN relayed[p] \cup {e} |-> IF f = e THEN RelayTo(p, m) ELSE relayed[p][f]]])
    BY DEF AfterRelay
  <2> HIDE DEF rel
  <2>6. ASSUME NEW b \in Player, NEW f \in DOMAIN rel[b], NEW v \in Lacking(f)'
        PROVE  v \in rel[b][f]
    <3>1. f \in Player \X Frame
      BY <2>4 DEF RelayedSet
    <3>2. v \in Lacking(f)
      BY <3>1, LackingShrinks
    <3>3. f \in DOMAIN relayed[b] => v \in relayed[b][f]
      BY <3>2 DEF RelayedToLackers
    <3>4. CASE rel = relayed
      BY <3>3, <3>4
    <3>5. CASE b # p
      BY <2>5, <3>3, <3>5 DEF Types, RelayedType
    <3>6. CASE rel # relayed /\ b = p
      <4>1. rel[p] = [g \in DOMAIN relayed[p] \cup {e} |-> IF g = e THEN RelayTo(p, m) ELSE relayed[p][g]]
        BY <2>5, <3>6 DEF Types, RelayedType
      <4>2. f = e => v \in RelayTo(p, m)
        BY <2>3, <2>5, <3>6
      <4> QED
        BY <3>3, <3>6, <4>1, <4>2
    <3> QED
      BY <3>4, <3>5, <3>6
  <2>7. ASSUME a \in Player, relayed' = AfterAckStage2(rel, a, p, e)
        PROVE  u \in relayed'[r][d]
    <3>1. \/ relayed' = rel
          \/ e \in DOMAIN rel[a] /\ relayed' = [rel EXCEPT ![a] = [rel[a] EXCEPT ![e] = rel[a][e] \ {p}]]
          \/ relayed' = [rel EXCEPT ![a] = [f \in DOMAIN rel[a] \ {e} |-> rel[a][f]]]
      BY <2>7 DEF AfterAckStage2
    <3>2. CASE relayed' = rel
      BY <2>6, <3>2
    <3>3. CASE e \in DOMAIN rel[a] /\ relayed' = [rel EXCEPT ![a] = [rel[a] EXCEPT ![e] = rel[a][e] \ {p}]]
      <4> DEFINE less == [rel[a] EXCEPT ![e] = rel[a][e] \ {p}]
      <4>1. relayed'[r] = IF r = a THEN less ELSE rel[r]
        BY <2>4, <2>7, <3>3
      <4>2. PICK D : rel[a] \in [D -> (SUBSET Player) \ {{}}]
        BY <2>4, <2>7 DEF RelayedSet
      <4>3. DOMAIN less = DOMAIN rel[a]
            /\ \A f \in DOMAIN rel[a] : less[f] = IF f = e THEN rel[a][e] \ {p} ELSE rel[a][f]
        BY <4>2
      <4> HIDE DEF less
      <4>4. d \in DOMAIN rel[r] /\ u \in rel[r][d]
        BY <2>6, <4>1, <4>3
      <4>5. d = e => u # p
        BY <2>2
      <4> QED
        BY <4>1, <4>3, <4>4, <4>5
    <3>4. CASE relayed' = [rel EXCEPT ![a] = [f \in DOMAIN rel[a] \ {e} |-> rel[a][f]]]
      <4>1. relayed'[r] = IF r = a THEN [f \in DOMAIN rel[a] \ {e} |-> rel[a][f]] ELSE rel[r]
        BY <2>4, <2>7, <3>4
      <4> QED
        BY <2>6, <4>1
    <3> QED
      BY <3>1, <3>2, <3>3, <3>4
  <2>8. CASE relayed' = rel
    BY <2>6, <2>8
  <2> QED
    BY <2>1, <2>7, <2>8
<1>3. ASSUME NEW p \in Player, HandleLocalPlayerLeaving(p) PROVE u \in relayed'[r][d]
  BY <1>1, <1>3 DEF HandleLocalPlayerLeaving
<1>4. ASSUME NEW p \in Player, ExecuteFrame(p) PROVE u \in relayed'[r][d]
  BY <1>1, <1>4 DEF ExecuteFrame
<1> QED
  BY <1>1, <1>2, <1>3, <1>4 DEF Next, EndOfGameCheck, CatchUp, GiveUp, vars

(* What the first router hears of from another needs its player no more.   *)
LEMMA RouterHearsNext ==
  ASSUME Types, Inv, OwnData, Addressed, RouterIsSent, InFullToNext, RouterHears, [Next]_vars
  PROVE  RouterHears'
<1> DEFINE R == FirstRouter
<1> SUFFICES ASSUME NEW t \in Player, NEW m \in queue'[t][R], t # m.player
             PROVE  PastRouter(m.player)' /\ Handed(<<m.player, m.frame>>)'
  BY DEF RouterHears
<1>1. R \in Player /\ Types' /\ Inv' /\ m \in Message /\ m.player \in Player /\ m.frame \in Frame
  <2>1. R \in Player /\ Types' /\ Inv'
    BY First, StepGrows
  <2> QED
    BY <2>1 DEF Types, QueueType, Message
<1> DEFINE d == <<m.player, m.frame>>
<1>2. d \in Player \X Frame /\ d[1] = m.player /\ d[2] = m.frame
  BY <1>1
<1> HIDE DEF d
<1>3. CASE m \in queue[t][R]
  <2>1. PastRouter(m.player) /\ Handed(d)
    BY <1>3 DEF RouterHears, d
  <2> QED
    BY <1>1, <1>2, <2>1, StepGrows, HandedStays DEF d
<1>4. CASE OwnNew(t, R, m)
  <2>1. PICK M : OwnTo(t, M, R, m)
    BY <1>4 DEF OwnNew
  <2> QED
    BY <2>1 DEF OwnTo
<1>5. CASE RelayNew(t, R, m)
  <2>1. PICK q \in Player : \E n \in queue[q][t] :
          /\ Receive(t, q, n) /\ R \in RelayTo(t, n) /\ ~OutOfDate(t, n)
          /\ n.player = m.player /\ n.frame = m.frame /\ n.relay # {t}
    BY <1>1, <1>5, RelayedForm
  <2>2. PICK n \in queue[q][t] :
          /\ Receive(t, q, n) /\ R \in RelayTo(t, n) /\ ~OutOfDate(t, n)
          /\ n.player = m.player /\ n.frame = m.frame /\ n.relay # {t}
    BY <2>1
  <2>3. t # R
    BY <2>2 DEF RelayTo
  <2>4. PastRouter(m.player) /\ Last(t) >= leaveFrame[R]
    BY <2>2, <2>3 DEF InFullToNext
  <2>5. InGame(t) /\ UNCHANGED <<localStatus, frame, leaveFrame>> /\ d \in data'[t]
    <3>1. data'[t] = data[t] \cup {<<n.player, n.frame>>}
      BY <2>2 DEF Receive, Types, DataType
    <3> QED
      BY <2>2, <3>1 DEF Receive, d
  <2>6. \A u \in Lacking(d)' : Sent(t, u, d)'
    BY <2>2, RelayReaches DEF d
  <2>7. Last(t)' = Last(t) /\ InGame(t)'
    BY <2>5 DEF Last, InGame
  <2>8. leaveFrame[R] # 0
    BY <2>4 DEF PastRouter
  <2>9. Carried(t, d)'
    BY <1>2, <2>3, <2>4, <2>5, <2>6, <2>7, <2>8 DEF Carried
  <2>10. PastRouter(m.player)'
    BY <2>4, <2>5 DEF PastRouter
  <2> QED
    BY <2>9, <2>10 DEF Handed, d
<1>6. CASE HelpNew(t, R, m)
  BY <1>1, <1>6, HelpForm, FirstNotHelped
<1> QED
  BY <1>1, <1>3, <1>4, <1>5, <1>6, NewMessages

(* All that is announced before the first router leaves is on its way.     *)
LEMMA RouterIsSentNext ==
  ASSUME Types, Inv, OwnData, RouterIsSent, [Next]_vars
  PROVE  RouterIsSent'
<1> DEFINE R == FirstRouter
<1> SUFFICES ASSUME InGame(R)', NEW u \in Player \ {R}, NEW k \in Frame,
                    frame'[R] <= k, k <= Last(u)', <<u, k>> \notin data'[R],
                    PastRouter(u)' => k <= leaveFrame'[R]
             PROVE  Full(u, k) \in queue'[u][R]
  BY DEF RouterIsSent
<1>1. R \in Player /\ Types' /\ Inv' /\ k \in Nat /\ Last(u) \in Int
  BY First, StepGrows, Frames, Numbers
<1>2. InGame(R) /\ frame[R] <= k
  <2>1. InGame(R) /\ frame'[R] >= frame[R] /\ frame[R] \in Nat /\ frame'[R] \in Nat
    BY <1>1, StepGrows, Numbers, NumbersNext
  <2> QED
    BY <1>1, <2>1
<1>3. CASE k <= Last(u)
  <2>1. <<u, k>> \notin data[R]
    <3> DEFINE d == <<u, k>>
    <3>1. d[2] >= frame'[R]
      OBVIOUS
    <3> HIDE DEF d
    <3>2. d \in data[R] => d \in data'[R]
      BY <1>1, <3>1, DataStays
    <3> QED
      BY <3>2 DEF d
  <2>2. PastRouter(u) => k <= leaveFrame[R]
    <3>1. PastRouter(u) => PastRouter(u)' /\ leaveFrame'[R] = leaveFrame[R]
      BY <1>1, StepGrows DEF PastRouter
    <3> QED
      BY <3>1
  <2>3. Full(u, k) \in queue[u][R]
    BY <1>2, <1>3, <2>1, <2>2 DEF RouterIsSent
  <2> DEFINE m == Full(u, k)
  <2>4. m \in queue[u][R] /\ m.player = u /\ m.frame = k
    BY <2>3, FullIs
  <2> HIDE DEF m
  <2>5. m \in queue'[u][R]
    BY <1>1, <1>2, <2>4, QueueStays
  <2> QED
    BY <2>5 DEF m
<1>4. CASE k > Last(u)
  <2>1. k >= frame[u] + RunAhead /\ k >= frame'[u]
        /\ SendLocalCommand(u, plan'[u], {k})[R] \subseteq queue'[u][R]
    BY <1>1, <1>4, Announces
  <2>2. ~PastRouter(u)'
    <3>1. leaveFrame'[R] \in Nat /\ frame'[u] \in Nat
      BY <1>1, NumbersNext
    <3> QED
      BY <1>1, <2>1, <3>1 DEF PastRouter
  <2>3. R \in plan'[u] /\ plan'[u] \in SUBSET Player
    <3>1. leaveFrame'[R] \in Nat /\ frame'[u] \in Nat
      BY <1>1, NumbersNext
    <3> QED
      BY <1>1, <2>2, <3>1 DEF Inv, PlanBound, PastRouter, Types, PlayerType
  <2>4. Lowest(plan'[u]) = R
    <3>1. \A q \in Player : R <= q
      BY LowestIs DEF FirstRouter
    <3> QED
      BY <2>3, <3>1, LowestStays
  <2>5. Full(u, k) \in SendLocalCommand(u, plan'[u], {k})[R]
    BY <1>1, <2>3, <2>4, SendForm
  <2> QED
    BY <2>1, <2>5
<1> QED
  BY <1>1, <1>3, <1>4

(* The first router passes on what it takes in.                            *)
LEMMA RouterPassesOnNext ==
  ASSUME Types, Inv, OwnData, Addressed, OwnInFull, RouterHears, RouterPassesOn, [Next]_vars
  PROVE  RouterPassesOn'
<1> DEFINE R == FirstRouter
<1> SUFFICES ASSUME InGame(R)', NEW d \in data'[R], d[1] # R, ~PastRouter(d[1])', NEW u \in Lacking(d)'
             PROVE  Sent(R, u, d)'
  BY DEF RouterPassesOn
<1>1. R \in Player /\ Types' /\ Inv'
  <2>1. Types' /\ Inv'
    BY TypesNext, InvNext
  <2>2. \E p \in Player : TRUE
    BY DEF Lacking
  <2> QED
    BY <2>1, <2>2, First
<1>2. d \in Player \X Frame /\ d[1] \in Player /\ d[2] \in Nat /\ d = <<d[1], d[2]>>
  <2>1. d \in Player \X Frame
    BY <1>1 DEF Types, DataType
  <2> QED
    BY <2>1, Frames
<1>3. u \in Lacking(d) /\ d \notin data'[u]
  BY <1>2, LackingShrinks DEF Lacking
<1>4. ~PastRouter(d[1]) /\ InGame(R)
  BY <1>1, <1>2, StepGrows
<1>5. CASE d \in data[R]
  <2>1. PICK m \in queue[R][u] : m.player = d[1] /\ m.frame = d[2]
    BY <1>3, <1>4, <1>5 DEF RouterPassesOn, Sent
  <2>2. u \in Player /\ InGame(u) /\ frame[u] <= d[2]
    BY <1>2, <1>3, LackingIs
  <2>3. m.frame >= frame[u] /\ <<m.player, m.frame>> \notin data'[u]
    BY <1>2, <1>3, <2>1, <2>2, Numbers
  <2>4. m \in queue'[R][u]
    BY <1>1, <2>2, <2>3, QueueStays
  <2> QED
    BY <2>1, <2>4 DEF Sent
<1>6. CASE d \notin data[R]
  <2>1. ASSUME NEW q \in Player, NEW m \in queue[q][R], Receive(R, q, m) PROVE Sent(R, u, d)'
    <3>1. d = <<m.player, m.frame>> /\ ~OutOfDate(R, m)
      BY <1>1, <1>6, <2>1 DEF Receive, Types, DataType
    <3>2. d[1] = m.player
      BY <3>1
    <3>3. q = m.player
      BY <1>1, <1>4, <3>2 DEF RouterHears
    <3>4. m.relay = Player \ {m.player}
      BY <1>1, <1>2, <3>2, <3>3 DEF OwnInFull
    <3> QED
      BY <1>1, <2>1, <3>1, <3>4, RelayReaches
  <2>2. ASSUME NEW p \in Player, NEW q \in Player, NEW m \in queue[q][p], Receive(p, q, m), p # R PROVE FALSE
    BY <1>1, <1>6, <2>2 DEF Receive, Types, DataType
  <2>3. ASSUME NEW p \in Player, HandleLocalPlayerLeaving(p) PROVE FALSE
    <3>1. data' = [data EXCEPT ![p] = data[p] \cup ({p} \X LastFrames(p))]
      BY <2>3 DEF HandleLocalPlayerLeaving
    <3> QED
      BY <1>1, <1>2, <1>6, <3>1 DEF Types, DataType
  <2>4. ASSUME NEW p \in Player, ExecuteFrame(p) PROVE FALSE
    <3>1. data' = [data EXCEPT ![p] = Kept(p, Rest(p), frame[p] + 1) \cup ({p} \X Announced(p))]
      BY <2>4, ExecuteParts
    <3> QED
      BY <1>1, <1>2, <1>6, <3>1 DEF Kept, Types, DataType
  <2>5. data' # data
    BY <1>6
  <2> QED
    BY <2>1, <2>2, <2>3, <2>4, <2>5 DEF Next, EndOfGameCheck, CatchUp, GiveUp, vars
<1> QED
  BY <1>5, <1>6

(* A command that stops being pending needs its player no more.            *)
LEMMA EndIsHanded ==
  ASSUME Types, Inv, OwnData, Addressed, RelayedToLackers, RouterHears, OwnInFull,
         NEW p \in Player, NEW q \in Player, NEW m \in queue[q][p], Receive(p, q, m),
         Router(m.player) # m.player, InGame(m.player),
         m.frame \in pending[m.player], m.frame \notin pending'[m.player]
  PROVE  Handed(<<m.player, m.frame>>)'
<1> DEFINE d == <<m.player, m.frame>>
           s == m.player
           r == AckTo(p, m)
           R == FirstRouter
           rel == AfterRelay(p, m, d)
<1>1. /\ InGame(p) /\ UNCHANGED <<localStatus, frame, plan, leaveFrame>> /\ [Next]_vars
      /\ m \in Message /\ s \in Player /\ d \in Player \X Frame /\ d[1] = s /\ d[2] = m.frame
      /\ p \notin Lacking(d)' /\ (Lacking(d)' # {} => d \in data'[p])
  BY ReceiverHas
<1>2. pending' = [v \in Player |-> IF v \in {w \in {s} : /\ r \in Open(p, plan[p]) /\ localStatus[r] # "POSTGAME"
                                                         /\ AckStage(p, m) = "BOTH"
                                                         /\ \/ w = r
                                                            \/ /\ r \in Open(p, plan[p]) /\ localStatus[r] # "POSTGAME"
                                                               /\ AckStage(p, m) = "BOTH"
                                                               /\ d \in DOMAIN rel[r] /\ StillToAck(rel, r, p, d) = {}
                                                               /\ w \in Open(r, plan[r])}
                                    THEN pending[v] \ {m.frame} ELSE pending[v]]
  BY DEF Receive
<1> HIDE DEF d, r, rel
<1>3. /\ r \in Open(p, plan[p]) /\ AckStage(p, m) = "BOTH"
      /\ s = r \/ (d \in DOMAIN rel[r] /\ StillToAck(rel, r, p, d) = {})
  BY <1>1, <1>2
<1>4. RelayTo(p, m) = {}
  BY <1>3 DEF AckStage
<1>5. rel = relayed /\ r \in Player /\ R \in Player
  <2>1. plan[p] \in SUBSET Player
    BY DEF Types, PlayerType
  <2> QED
    BY <1>1, <1>3, <1>4, <2>1, First DEF AfterRelay, rel, Open
<1>6. p # s
  BY DEF Addressed
<1>7. Lacking(d)' \subseteq Lacking(d)
  BY <1>1, LackingShrinks
<1>8. CASE Lacking(d)' = {}
  BY <1>8 DEF Handed, d
<1>9. CASE Lacking(d)' # {} /\ s # r
  <2>1. d \in DOMAIN relayed[r] /\ StillToAck(relayed, r, p, d) = {}
    BY <1>3, <1>5, <1>9
  <2>2. relayed[r][d] \subseteq {p}
    BY <2>1 DEF StillToAck
  <2>3. Lacking(d) \subseteq relayed[r][d]
    BY <1>5, <2>1 DEF RelayedToLackers
  <2> QED
    BY <1>1, <1>7, <1>9, <2>2, <2>3
<1>10. CASE Lacking(d)' # {} /\ s = r /\ p # R
  <2>1. Router(p) = s \/ Router(p) = p
    BY <1>10 DEF AckTo, r
  <2>2. s # R
    <3>1. R \in plan[R] => ~PastRouter(R) /\ Router(R) = R
      BY <1>5, First
    <3>2. s = R => R \in plan[R]
      BY <1>5 DEF OwnData
    <3> QED
      BY <3>1, <3>2
  <2>3. PastRouter(p)
    BY <1>10, <2>1, <2>2, First
  <2>4. d \in data'[p] /\ PastRouter(p)' /\ Router(p)' \in {p, d[1]}
    BY <1>1, <1>10, <2>1, <2>3 DEF PastRouter, Router
  <2>5. TakenOver(d)'
    BY <1>1, <1>6, <1>10, <2>4 DEF TakenOver
  <2> QED
    BY <2>5 DEF Handed, d
<1>11. CASE Lacking(d)' # {} /\ s = r /\ p = R
  <2>1. CASE q # s
    <3>1. Handed(d)
      BY <1>11, <2>1 DEF RouterHears, d
    <3>2. Handed(d)'
      BY <1>1, <3>1, HandedStays
    <3> QED
      BY <3>2 DEF d
  <2>2. CASE q = s
    <3>1. m.relay = Player \ {s}
      BY <1>1, <1>6, <1>11, <2>2 DEF OwnInFull
    <3>2. PICK u : u \in Lacking(d)'
      BY <1>11
    <3>3. u \in RelayTo(p, m)
      BY <3>1, <3>2, RelayReaches DEF d
    <3> QED
      BY <1>4, <3>3
  <2> QED
    BY <2>1, <2>2
<1> QED
  BY <1>8, <1>9, <1>10, <1>11

(* A router stays one as long as it is in the game.                        *)
LEMMA RouterOfItself ==
  ASSUME Types, Inv, OwnData, [Next]_vars, NEW s \in Player, InGame(s)'
  PROVE  /\ InGame(s) /\ s \in plan[s] /\ s \in plan'[s]
         /\ Router(s) = s => Router(s)' = s
<1>1. InGame(s) /\ s \in plan[s] /\ s \in plan'[s]
  BY StepGrows, OwnDataNext DEF OwnData
<1> QED
  BY <1>1, RouterStays

----------------------------------------------------------------------------
(* What is not pending need not be sent again.                             *)
LEMMA AckedNext ==
  ASSUME Types, Inv, OwnData, Addressed, RelayedToLackers, RouterHears, OwnInFull, AckedIsHanded, [Next]_vars
  PROVE  AckedIsHanded'
<1> SUFFICES ASSUME NEW s \in Player, InGame(s)', Router(s)' # s, NEW d \in data'[s], d[1] = s,
                    d[2] \notin pending'[s]
             PROVE  Handed(d)'
  BY DEF AckedIsHanded
<1>1. Types' /\ Inv' /\ InGame(s) /\ Router(s) # s
  BY StepGrows, RouterOfItself
<1>2. d \in Player \X Frame /\ d[2] \in Frame /\ d[2] \in Nat /\ d = <<s, d[2]>>
  <2>1. d \in Player \X Frame
    BY <1>1 DEF Types, DataType
  <2> QED
    BY <2>1, Frames
<1>3. d[2] <= Last(s)
  <2>1. d[2] <= Last(s)'
    BY <1>1 DEF Inv, DataBound
  <2>2. Last(s) < d[2] => d[2] \in pending'[s]
    BY <1>2, <2>1, Announces
  <2> QED
    BY <1>2, <2>2, Numbers
<1>4. d \in data[s]
  BY <1>3, OwnOnly
<1>5. CASE d[2] \notin pending[s]
  <2>1. Handed(d)
    BY <1>1, <1>4, <1>5 DEF AckedIsHanded
  <2> QED
    BY <1>2, <2>1, HandedStays
<1>6. CASE d[2] \in pending[s]
  <2>1. ASSUME NEW p \in Player, NEW q \in Player, NEW m \in queue[q][p], Receive(p, q, m) PROVE Handed(d)'
    <3>1. m.player = s /\ m.frame = d[2]
      BY <1>6, <2>1 DEF Receive, Types, DataType
    <3>2. Handed(<<m.player, m.frame>>)'
      BY <1>1, <1>6, <2>1, <3>1, EndIsHanded
    <3> QED
      BY <1>2, <3>1, <3>2
  <2>2. ASSUME NEW p \in Player, HandleLocalPlayerLeaving(p) PROVE FALSE
    <3>1. pending' = [pending EXCEPT ![p] = Pending(p, plan[p], LastFrames(p))]
      BY <2>2 DEF HandleLocalPlayerLeaving
    <3> QED
      BY <1>6, <3>1 DEF Pending, Types, DataType
  <2>3. ASSUME NEW p \in Player, ExecuteFrame(p) PROVE FALSE
    <3>1. pending' = [pending EXCEPT ![p] =
                        IF Announced(p) = {} THEN pending[p] ELSE Pending(p, Rest(p), Announced(p))]
      BY <2>3, ExecuteParts
    <3> QED
      BY <1>6, <3>1 DEF Pending, Types, DataType
  <2>4. pending' # pending
    BY <1>6
  <2> QED
    BY <2>1, <2>2, <2>3, <2>4 DEF Next, EndOfGameCheck, CatchUp, GiveUp, vars
<1> QED
  BY <1>5, <1>6

(* What is pending is sent to the next router, or by it.                   *)
LEMMA Resent ==
  ASSUME Types, Inv, OwnData, NEW s \in Player, ExecuteFrame(s), [Next]_vars, InGame(s)', Router(s) # Router(s)',
         NEW f \in pending[s], NEW q \in plan'[s], q # s, Router(s)' \in {s, q}
  PROVE  LET m == IF Router(s)' = s THEN Msg(s, f, {q}) ELSE Full(s, f)
         IN  m \in queue'[s][q] \/ \E n \in queue[s][q] : Same(m, n)
<1> DEFINE x == Router(s)'
           gone == {t \in plan[s] : t < x}
           M == plan[s] \ gone
           m == IF x = s THEN Msg(s, f, {q}) ELSE Full(s, f)
<1>1. s \in plan[s] /\ s \in plan'[s] /\ plan'[s] \subseteq plan[s] /\ plan[s] \in SUBSET Player
  BY RouterOfItself, StepGrows DEF Types, PlayerType
<1>2. x \in plan'[s] /\ \A t \in plan'[s] : x <= t
  BY <1>1, LowestIs DEF Router
<1>3. plan'[s] = plan[s] \ Leaving(s)
  BY ExecuteParts DEF Rest, Types, PlayerType
<1>4. \A t \in Player : t \in Nat
  BY PlayerAssumption
<1> HIDE DEF x
<1>5. gone \in SUBSET (Leaving(s) \ {s})
  <2>1. \A t \in gone : t \notin plan'[s]
    BY <1>1, <1>2, <1>4
  <2> QED
    BY <1>1, <1>3, <2>1
<1>6. Lowest(M) = x
  <2>1. x \in M /\ \A t \in M : x <= t
    BY <1>1, <1>2, <1>4
  <2>2. M \in SUBSET Player
    BY <1>1
  <2> HIDE DEF M
  <2> QED
    BY <2>1, <2>2, LowestStays
<1>7. gone # {}
  <2>1. gone = {} => M = plan[s]
    OBVIOUS
  <2> HIDE DEF M
  <2> QED
    BY <1>6, <2>1 DEF Router, x
<1>8. gone \in RoutersGone(s, Leaving(s))
  <2>1. \A v \in gone, t \in plan[s] : t < v => t \in gone
    BY <1>1, <1>2, <1>4
  <2> HIDE DEF gone
  <2> QED
    BY <1>5, <1>7, <2>1 DEF RoutersGone
<1>9. q \in M /\ q \in Player
  BY <1>1, <1>2, <1>4
<1> HIDE DEF gone, M
<1>10. x \in {s, q}
  BY DEF x
<1>11. m \in SendLocalCommand(s, M, pending[s])[q]
  BY <1>6, <1>9, <1>10, SendForm
<1>12. m \in queue'[s][q] \/ \E n \in queue[s][q] : Same(m, n)
  <2> HIDE DEF m
  <2> QED
    BY <1>8, <1>9, <1>11, ExecuteRows DEF M
<1> QED
  BY <1>12 DEF x

(* What a player has of its own it has had, or has just announced.         *)
LEMMA OwnOldOrNew ==
  ASSUME Types, Inv, OwnData, Addressed, [Next]_vars, NEW s \in Player, NEW d \in data'[s], d[1] = s
  PROVE  /\ d \in Player \X Frame /\ d[2] \in Frame /\ d[2] \in Nat /\ d = <<s, d[2]>>
         /\ d \in data[s] \/ (Last(s) < d[2] /\ d[2] <= Last(s)')
<1>1. Types' /\ Inv' /\ Last(s) \in Int
  BY StepGrows, Numbers
<1>2. d \in Player \X Frame
  BY <1>1 DEF Types, DataType
<1>3. d[2] \in Frame /\ d[2] \in Nat /\ d = <<s, d[2]>>
  BY <1>2, Frames
<1>4. d[2] <= Last(s)'
  BY <1>1 DEF Inv, DataBound
<1>5. d[2] <= Last(s) => d \in data[s]
  BY OwnOnly
<1> QED
  BY <1>1, <1>2, <1>3, <1>4, <1>5

(* A message for somebody who lacks it stays on its way.                   *)
LEMMA SentStays ==
  ASSUME Types, Inv, OwnData, [Next]_vars, NEW t \in Player, InGame(t)', NEW d \in Player \X Frame,
         NEW q \in Lacking(d)', NEW m \in queue[t][q], m.player = d[1], m.frame = d[2]
  PROVE  m \in queue'[t][q] /\ Sent(t, q, d)'
<1>1. q \in Lacking(d) /\ d \notin data'[q] /\ d = <<d[1], d[2]>>
  BY LackingShrinks DEF Lacking
<1>2. q \in Player /\ InGame(q) /\ frame[q] <= d[2]
  BY <1>1, LackingIs
<1>3. frame[q] \in Nat /\ d[2] \in Nat
  BY <1>2, Numbers, Frames
<1>4. m.frame >= frame[q] /\ <<m.player, m.frame>> \notin data'[q]
  BY <1>1, <1>2, <1>3
<1>5. m \in queue'[t][q]
  BY <1>2, <1>4, QueueStays
<1> QED
  BY <1>5 DEF Sent

(* A router has sent its own to all.                                       *)
LEMMA RouterSendsNext ==
  ASSUME Types, Inv, OwnData, Addressed, AckedIsHanded, RouterSends, [Next]_vars
  PROVE  RouterSends'
<1> SUFFICES ASSUME NEW s \in Player, InGame(s)', Router(s)' = s, NEW d \in data'[s], d[1] = s, ~Handed(d)',
                    NEW q \in Lacking(d)'
             PROVE  Sent(s, q, d)'
  BY DEF RouterSends
<1>1. /\ d \in Player \X Frame /\ d[2] \in Frame /\ d[2] \in Nat /\ d = <<s, d[2]>>
      /\ d \in data[s] \/ (Last(s) < d[2] /\ d[2] <= Last(s)')
  BY OwnOldOrNew
<1>2. InGame(s) /\ Types' /\ Inv' /\ ~Handed(d)
  BY <1>1, StepGrows, HandedStays
<1>3. q \in Lacking(d) /\ q \in Player /\ q # s /\ q \in plan'[s]
  <2>1. q \in Lacking(d)
    BY <1>1, LackingShrinks
  <2>2. q \in Player /\ leaveFrame'[q] = 0
    BY DEF Lacking
  <2> QED
    BY <1>1, <1>2, <2>1, <2>2, LackingIs DEF Inv, PlanBound
<1>4. CASE Last(s) < d[2] /\ d[2] <= Last(s)'
  <2> DEFINE m == Msg(s, d[2], {q})
  <2>1. SendLocalCommand(s, plan'[s], {d[2]})[q] \subseteq queue'[s][q]
    BY <1>1, <1>3, <1>4, Announces
  <2>2. m \in SendLocalCommand(s, plan'[s], {d[2]})[q]
    BY <1>3, SendForm DEF Router
  <2>3. m.player = s /\ m.frame = d[2]
    BY DEF Msg
  <2> QED
    BY <2>1, <2>2, <2>3 DEF Sent
<1>5. CASE d \in data[s] /\ Router(s) = s
  <2>1. PICK m \in queue[s][q] : m.player = d[1] /\ m.frame = d[2]
    BY <1>2, <1>3, <1>5 DEF RouterSends, Sent
  <2> QED
    BY <1>1, <2>1, SentStays
<1>6. CASE d \in data[s] /\ Router(s) # s
  <2>1. d[2] \in pending[s]
    BY <1>2, <1>6 DEF AckedIsHanded
  <2>2. ExecuteFrame(s)
    BY <1>6, WhoActs DEF Router
  <2> DEFINE m == Msg(s, d[2], {q})
  <2>3. m \in queue'[s][q] \/ \E n \in queue[s][q] : Same(m, n)
    BY <1>3, <1>6, <2>1, <2>2, Resent
  <2>4. m.player = s /\ m.frame = d[2]
    BY DEF Msg
  <2> HIDE DEF m
  <2>5. ASSUME NEW n \in queue[s][q], Same(m, n) PROVE Sent(s, q, d)'
    BY <1>1, <2>4, <2>5, SentStays DEF Same
  <2> QED
    BY <2>3, <2>4, <2>5 DEF Sent
<1> QED
  BY <1>1, <1>4, <1>5, <1>6

(* What a player has sent of its own to one it has not seen leave stays    *)
(* until that one acks it.                                                 *)
LEMMA OwnStays ==
  ASSUME Types, Inv, OwnData, [Next]_vars, NEW s \in Player, InGame(s), NEW x \in plan[s], x # s,
         NEW m \in queue[s][x], m.player = s, m \notin queue'[s][x]
  PROVE  \E q \in Player : \E n \in queue[q][x] :
           Receive(x, q, n) /\ s = AckTo(x, n) /\ n.player = m.player /\ n.frame = m.frame
<1>1. x \in Player /\ x \in Open(s, plan[s])
  BY DEF Types, PlayerType, Open
<1>2. ASSUME NEW p \in Player, NEW q \in Player, NEW n \in queue[q][p], Receive(p, q, n)
      PROVE  p = x /\ s = AckTo(x, n) /\ n.player = m.player /\ n.frame = m.frame
  BY <1>1, <1>2, ReceiveKeeps
<1>3. ASSUME NEW p \in Player, HandleLocalPlayerLeaving(p) PROVE FALSE
  BY <1>1, <1>3, LeavingRows
<1>4. ASSUME NEW p \in Player, ExecuteFrame(p) PROVE FALSE
  <2>1. CASE p = s
    BY <1>1, <1>4, <2>1, ExecuteRows
  <2>2. CASE p # s
    BY <1>1, <1>4, <2>2, ExecuteRows
  <2> QED
    BY <2>1, <2>2
<1>5. ASSUME NEW p \in Player, NEW q \in Player, CatchUp(p, q) PROVE FALSE
  BY <1>1, <1>5, CatchUpRows
<1>6. ASSUME NEW p \in Player, NEW q \in Player, GiveUp(p, q) PROVE FALSE
  <2>1. queue' = [queue EXCEPT ![p][q] = {}] /\ q \notin Open(p, plan[p])
    BY <1>6 DEF GiveUp
  <2> QED
    BY <1>1, <2>1 DEF Types, QueueType
<1>7. queue' # queue
  OBVIOUS
<1> QED
  BY <1>2, <1>3, <1>4, <1>5, <1>6, <1>7 DEF Next, EndOfGameCheck, vars

(* The first router is its own as long as it is in the game.               *)
LEMMA FirstOfItself ==
  ASSUME Types, Inv, OwnData, InGame(FirstRouter), FirstRouter \in Player
  PROVE  Router(FirstRouter) = FirstRouter
<1>1. FirstRouter \in plan[FirstRouter]
  BY DEF OwnData
<1> QED
  BY <1>1, First

(* The next router has what it has acked.                                  *)
LEMMA NextTakesOver ==
  ASSUME Types, Inv, OwnData, NEW s \in Player, InGame(s), Router(s) # s, PastRouter(s),
         NEW x \in Player, x = Router(s), NEW q \in Player, NEW m \in queue[q][x], Receive(x, q, m),
         m.player = s, s = AckTo(x, m), Lacking(<<m.player, m.frame>>)' # {}
  PROVE  TakenOver(<<m.player, m.frame>>)'
<1> DEFINE d == <<m.player, m.frame>>
<1>1. FirstRouter \in Player /\ x # FirstRouter /\ s # FirstRouter
  <2>1. s \in plan[s]
    BY DEF OwnData
  <2> QED
    BY <2>1, First, FirstOfItself
<1>2. InGame(x) /\ UNCHANGED <<localStatus, frame, plan, leaveFrame>> /\ d \in data'[x]
  BY ReceiverHas
<1>3. Router(x) \in {x, s}
  BY DEF AckTo
<1>4. PastRouter(x)
  BY <1>1, <1>3, First
<1>5. PastRouter(x)' /\ Router(x)' \in {x, s}
  BY <1>2, <1>3, <1>4 DEF PastRouter, Router
<1>6. d[1] = s
  OBVIOUS
<1> HIDE DEF d
<1>7. TakenOver(d)'
  BY <1>1, <1>2, <1>5, <1>6 DEF TakenOver
<1> QED
  BY <1>7 DEF d

(* Who has seen the first router leave has sent its own to the next.       *)
LEMMA NextIsSentNext ==
  ASSUME Types, Inv, OwnData, Addressed, OwnInFull, AckedIsHanded, NextIsSent, [Next]_vars
  PROVE  NextIsSent'
<1> SUFFICES ASSUME NEW s \in Player, InGame(s)', Router(s)' # s, PastRouter(s)',
                    NEW d \in data'[s], d[1] = s, d[2] >= frame'[s], ~Handed(d)'
             PROVE  Full(s, d[2]) \in queue'[s][Router(s)']
  BY DEF NextIsSent
<1> DEFINE x == Router(s)'
           m == Full(s, d[2])
<1>1. /\ d \in Player \X Frame /\ d[2] \in Frame /\ d[2] \in Nat /\ d = <<s, d[2]>>
      /\ d \in data[s] \/ (Last(s) < d[2] /\ d[2] <= Last(s)')
  BY OwnOldOrNew
<1>2. InGame(s) /\ s \in plan[s] /\ Router(s) # s /\ Types' /\ Inv' /\ ~Handed(d) /\ Lacking(d)' # {}
  <2>1. Lacking(d)' # {}
    BY DEF Handed
  <2> QED
    BY <1>1, <2>1, StepGrows, RouterOfItself, HandedStays
<1>3. x \in plan'[s] /\ x \in plan[s] /\ x \in Player
  <2>1. s \in plan'[s] /\ plan'[s] \in SUBSET Player
    BY <1>2, RouterOfItself DEF Types, PlayerType
  <2>2. Lowest(plan'[s]) \in plan'[s]
    BY <2>1, LowestIs
  <2> QED
    BY <2>1, <2>2, StepGrows DEF Router
<1>4. d[2] >= frame[s]
  <2>1. frame'[s] >= frame[s] /\ frame[s] \in Nat /\ frame'[s] \in Nat
    BY <1>2, StepGrows, Numbers, NumbersNext
  <2> QED
    BY <1>1, <2>1
<1>5. m \in Message /\ m.player = s /\ m.frame = d[2] /\ m.relay = Player \ {s}
  BY <1>1, FullIs
<1>6. CASE Last(s) < d[2] /\ d[2] <= Last(s)'
  <2>1. SendLocalCommand(s, plan'[s], {d[2]})[x] \subseteq queue'[s][x]
    BY <1>1, <1>3, <1>6, Announces
  <2>2. m \in SendLocalCommand(s, plan'[s], {d[2]})[x]
    BY <1>3, SendForm DEF Router
  <2> QED
    BY <2>1, <2>2
<1>7. CASE d \in data[s] /\ Router(s) = x /\ PastRouter(s)
  <2>1. m \in queue[s][x]
    BY <1>2, <1>4, <1>7 DEF NextIsSent
  <2> HIDE DEF m, x
  <2>2. SUFFICES ASSUME m \notin queue'[s][x] PROVE FALSE
    BY DEF m, x
  <2>3. PICK q \in Player : \E n \in queue[q][x] :
          Receive(x, q, n) /\ s = AckTo(x, n) /\ n.player = m.player /\ n.frame = m.frame
    BY <1>2, <1>3, <1>5, <1>7, <2>1, <2>2, OwnStays
  <2>4. PICK n \in queue[q][x] :
          Receive(x, q, n) /\ s = AckTo(x, n) /\ n.player = m.player /\ n.frame = m.frame
    BY <2>3
  <2>5. d = <<n.player, n.frame>>
    BY <1>1, <1>5, <2>4
  <2>6. TakenOver(<<n.player, n.frame>>)'
    BY <1>2, <1>3, <1>5, <1>7, <2>4, <2>5, NextTakesOver
  <2> QED
    BY <2>5, <2>6 DEF Handed
<1>8. CASE d \in data[s] /\ ~(Router(s) = x /\ PastRouter(s))
  <2>1. FirstRouter \in Player /\ x # FirstRouter /\ s # FirstRouter
    <3>1. FirstRouter \in Player
      BY First
    <3>2. leaveFrame'[FirstRouter] \in Nat /\ frame'[s] \in Nat
      BY <1>2, <3>1, NumbersNext
    <3>3. FirstRouter \notin plan'[s]
      BY <1>2, <3>1, <3>2 DEF Inv, PlanBound, PastRouter
    <3> QED
      BY <1>2, <1>3, <3>1, <3>3, FirstOfItself
  <2>2. Router(s) # x
    BY <1>8, <2>1, First
  <2>3. ExecuteFrame(s)
    BY <2>2, WhoActs DEF Router
  <2>4. d[2] \in pending[s]
    BY <1>2, <1>8 DEF AckedIsHanded
  <2>5. m \in queue'[s][x] \/ \E n \in queue[s][x] : Same(m, n)
    BY <1>3, <2>2, <2>3, <2>4, Resent
  <2> HIDE DEF m, x
  <2>6. ASSUME NEW n \in queue[s][x], Same(m, n) PROVE m \in queue'[s][x]
    <3>1. n.player = s /\ n.frame = d[2] /\ n \in Message
      BY <1>3, <1>5, <2>6 DEF Same, Types, QueueType
    <3>2. n.relay = Player \ {s}
      BY <1>2, <1>3, <1>4, <2>1, <3>1 DEF OwnInFull
    <3>3. n = m
      BY <1>1, <3>1, <3>2, FullIs DEF m
    <3> QED
      BY <1>3, <2>3, <3>1, <3>3, ExecuteRows
  <2>7. m \in queue'[s][x]
    BY <2>5, <2>6
  <2> QED
    BY <2>7 DEF m, x
<1> QED
  BY <1>1, <1>6, <1>7, <1>8

----------------------------------------------------------------------------
(* At first everybody has all there is.                                    *)
LEMMA SafeInit == Init => Safe
<1> SUFFICES ASSUME Init PROVE Safe
  OBVIOUS
<1> DEFINE Start == Player \X (FirstFrame .. FirstFrame + RunAhead - 1)
<1>1. /\ frame = [p \in Player |-> FirstFrame] /\ leaveFrame = [p \in Player |-> 0]
      /\ plan = [p \in Player |-> Player] /\ relayed = [p \in Player |-> [d \in {} |-> {}]]
      /\ data = [p \in Player |-> Start] /\ queue = [p \in Player |-> [q \in Player |-> {}]]
  BY DEF Init
<1>2. \A s \in Player : Last(s) = FirstFrame + RunAhead - 1
  BY <1>1, Constants DEF Last
<1>3. ASSUME NEW p \in Player, NEW d \in data[p] PROVE Lacking(d) = {} /\ Handed(d)
  BY <1>1, <1>3 DEF Lacking, Handed
<1>4. ASSUME NEW u \in Player, NEW k \in Frame, k <= Last(u) PROVE \A p \in Player : <<u, k>> \in data[p]
  BY <1>1, <1>2, <1>4, Constants, Frames
<1>5. \A p \in Player : ~PastRouter(p)
  <2>1. \A p \in Player : FirstRouter \in Player
    BY LowestIs DEF FirstRouter
  <2> QED
    BY <1>1, <2>1 DEF PastRouter
<1>6. Addressed /\ RouterHears /\ OwnInFull /\ InFullToNext
  <2>1. \A t, u \in Player : queue[t][u] = {}
    BY <1>1
  <2>2. \A t \in Player : FirstRouter \in Player
    BY LowestIs DEF FirstRouter
  <2> QED
    BY <2>1, <2>2 DEF Addressed, RouterHears, OwnInFull, InFullToNext
<1>7. OwnData
  BY <1>1, <1>4 DEF OwnData
<1>8. RouterIsSent
  <2>1. \A t \in Player : FirstRouter \in Player
    BY LowestIs DEF FirstRouter
  <2> QED
    BY <1>4, <2>1 DEF RouterIsSent
<1>9. RouterPassesOn
  <2>1. \A t \in Player : FirstRouter \in Player
    BY LowestIs DEF FirstRouter
  <2>2. \A d \in data[FirstRouter] : \A q \in Lacking(d) : FALSE
    BY <1>3, <2>1 DEF Lacking
  <2> QED
    BY <2>2 DEF RouterPassesOn
<1>10. RelayedToLackers
  BY <1>1 DEF RelayedToLackers
<1>11. AckedIsHanded /\ RouterSends /\ NextIsSent
  BY <1>3 DEF AckedIsHanded, RouterSends, NextIsSent
<1> QED
  BY <1>6, <1>7, <1>8, <1>9, <1>10, <1>11 DEF Safe

(* Every step keeps the eleven together.                                   *)
LEMMA SafeNext == Types /\ Inv /\ Safe /\ [Next]_vars => Safe'
<1> SUFFICES ASSUME Types, Inv, Safe, [Next]_vars PROVE Safe'
  OBVIOUS
<1>1. /\ Addressed /\ OwnData /\ RouterIsSent /\ RouterPassesOn /\ RelayedToLackers /\ RouterHears
      /\ OwnInFull /\ InFullToNext /\ AckedIsHanded /\ RouterSends /\ NextIsSent
  BY DEF Safe
<1>2. Addressed' /\ OwnData' /\ OwnInFull' /\ InFullToNext'
  BY <1>1, AddressedNext, OwnDataNext, OwnInFullNext, InFullToNextNext
<1>3. RouterIsSent' /\ RouterPassesOn' /\ RelayedToLackers' /\ RouterHears'
  BY <1>1, RouterIsSentNext, RouterPassesOnNext, RelayedNext, RouterHearsNext
<1>4. AckedIsHanded' /\ RouterSends' /\ NextIsSent'
  BY <1>1, AckedNext, RouterSendsNext, NextIsSentNext
<1> QED
  BY <1>2, <1>3, <1>4 DEF Safe

(* What somebody lacks is on its way, or will be, or has been taken over.  *)
LEMMA SafeForgetsNothing == Types /\ Inv /\ Safe => NothingForgotten
<1> SUFFICES ASSUME Types, Inv, Safe, NEW s \in Player, NEW q \in Player, InGame(s), localStatus[q] = "INGAME",
                    s # q, NEW d \in data[s], d[1] = s, d[2] >= frame[q], d \notin data[q],
                    ~TakenOver(d), ~OnItsWay(d, q)
             PROVE  d[2] \in pending[s] /\ leaveFrame[Router(s)] # 0
  BY DEF NothingForgotten
<1> DEFINE R == FirstRouter
           f == d[2]
<1>1. /\ Addressed /\ OwnData /\ RouterIsSent /\ RouterPassesOn
      /\ AckedIsHanded /\ RouterSends /\ NextIsSent
  BY DEF Safe
<1>2. d \in Player \X Frame /\ f \in Frame /\ f \in Nat /\ d = <<s, f>> /\ f <= Last(s)
  <2>1. d \in Player \X Frame
    BY DEF Types, DataType
  <2> QED
    BY <2>1, Frames DEF Inv, DataBound
<1>3. q \in Lacking(d)
  <2>1. leaveFrame[q] = 0 /\ frame[q] \in Nat
    BY Numbers DEF Inv, StatusBound
  <2> QED
    BY <1>2, <2>1 DEF Lacking
<1>4. InGame(q) /\ \A t \in Player : q \in plan[t]
  BY <1>2, <1>3, LackingIs
<1>5. ASSUME NEW t \in Player PROVE ~Sent(t, q, d)
  BY <1>4 DEF Sent, OnItsWay, Same, Msg
<1>6. ~Handed(d)
  BY <1>3, <1>5 DEF Handed, Carried
<1>7. ASSUME NEW x \in Player PROVE Full(s, f) \in queue[s][x] => ~InGame(x)
  <2> DEFINE m == Full(s, f)
  <2>1. m.player = s /\ m.frame = f /\ m.relay = Player \ {s}
    BY <1>2, FullIs
  <2>2. x = q \/ q \in RelayTo(x, m) \/ ~InGame(x)
    BY <1>4, <2>1 DEF RelayTo, Open
  <2>3. Same(m, Msg(d[1], d[2], {}))
    BY <2>1 DEF Same, Msg
  <2> HIDE DEF m
  <2> QED
    BY <2>2, <2>3 DEF OnItsWay, m
<1>8. Router(s) # s
  BY <1>1, <1>3, <1>5, <1>6 DEF RouterSends
<1>9. f \in pending[s]
  BY <1>1, <1>6, <1>8 DEF AckedIsHanded
<1>10. s \in plan[s] /\ Router(s) \in Player /\ R \in Player
  <2>1. s \in plan[s] /\ plan[s] \in SUBSET Player
    BY <1>1 DEF OwnData, Types, PlayerType
  <2> QED
    BY <2>1, First, LowestIs DEF Router
<1>11. s # R
  BY <1>1, <1>8, <1>10, FirstOfItself
<1>12. ~InGame(Router(s))
  <2>1. CASE PastRouter(s)
    <3>1. f >= frame[s]
      <4>1. frame[s] > f => TakenOver(d)
        BY <1>11, <2>1 DEF TakenOver
      <4> QED
        BY <1>2, <4>1, Numbers
    <3>2. Full(s, f) \in queue[s][Router(s)]
      BY <1>1, <1>6, <1>8, <2>1, <3>1 DEF NextIsSent
    <3> QED
      BY <1>7, <1>10, <3>2
  <2>2. CASE ~PastRouter(s)
    <3>1. Router(s) = R
      BY <2>2, First
    <3>2. SUFFICES ASSUME InGame(R) PROVE FALSE
      BY <3>1
    <3>3. d \notin data[R]
      BY <1>1, <1>3, <1>5, <1>10, <1>11, <2>2, <3>2 DEF RouterPassesOn
    <3>4. f >= frame[R]
      BY <1>2, <1>3, <1>10, <3>3, HasLate, Numbers
    <3>5. Full(s, f) \in queue[s][R]
      BY <1>1, <1>2, <1>11, <2>2, <3>2, <3>3, <3>4 DEF RouterIsSent
    <3> QED
      BY <1>7, <1>10, <3>2, <3>5
  <2> QED
    BY <2>1, <2>2
<1>13. leaveFrame[Router(s)] # 0
  BY <1>10, <1>12 DEF InGame, Inv, StatusBound
<1> QED
  BY <1>9, <1>13

(* Nothing is forgotten: what a player in the game lacks of another is on  *)
(* its way to it, or pending until the router is gone, or has been taken   *)
(* over.                                                                   *)
THEOREM NoneForgotten == Spec => []NothingForgotten
<1>1. Init => Types /\ Inv /\ Safe
  BY TypesInit, InvInit, SafeInit
<1>2. (Types /\ Inv /\ Safe) /\ [Next]_vars => (Types /\ Inv /\ Safe)'
  BY TypesNext, InvNext, SafeNext
<1>3. Types /\ Inv /\ Safe => NothingForgotten
  BY SafeForgetsNothing
<1> QED
  BY <1>1, <1>2, <1>3, PTL DEF Spec

----------------------------------------------------------------------------
(* There is one game.  Nobody announces more than its run ahead and one,   *)
(* not even who leaves.                                                    *)
LeaveBound == \A s \in Player : leaveFrame[s] <= frame[s] + RunAhead + 1
(* Who is in the game in frame f.                                          *)
Staying(f) == {s \in Player : leaveFrame[s] = 0 \/ f <= leaveFrame[s]}

(* Who leaves fixes the last frame when it does.                           *)
LEMMA LeaveBoundNext ==
  ASSUME Types, Inv, LeaveBound, [Next]_vars
  PROVE  LeaveBound'
<1> SUFFICES ASSUME NEW s \in Player PROVE leaveFrame'[s] <= frame'[s] + RunAhead + 1
  BY DEF LeaveBound
<1>1. frame'[s] >= frame[s] /\ frame'[s] \in Nat /\ leaveFrame'[s] \in Nat /\ frame[s] \in Nat /\ leaveFrame[s] \in Nat
  BY StepGrows, Numbers, NumbersNext
<1>2. CASE leaveFrame'[s] = leaveFrame[s]
  BY <1>1, <1>2, Constants DEF LeaveBound
<1>3. CASE HandleLocalPlayerLeaving(s)
  <2>1. leaveFrame'[s] = frame[s] + RunAhead + 1 /\ frame' = frame
    BY <1>3 DEF HandleLocalPlayerLeaving, Types, PlayerType
  <2> QED
    BY <1>1, <2>1, Constants
<1> QED
  BY <1>2, <1>3, WhoActs

(* The cast of a frame is who has not left before it; all wait for it and  *)
(* have executed the commands of it.                                       *)
CastBound ==
  /\ Cast = [f \in ComeTo |-> Staying(f)]
  /\ \A p \in Player : frame[p] \in ComeTo /\ plan[p] = Staying(frame[p])
  /\ \A p \in Player : executed[p] = {e \in Frame \X Player : e[1] < frame[p] /\ e[2] \in Staying(e[1])}

(* What is executed and who is waited for tell who has left, and nothing   *)
(* else does: the cast is the same wherever one looks.                     *)
LEMMA CastIs == Types /\ Inv => CastBound
<1> SUFFICES ASSUME Types, Inv PROVE CastBound
  OBVIOUS
<1>1. ASSUME NEW p \in Player
      PROVE  /\ frame[p] \in ComeTo /\ plan[p] = Staying(frame[p])
             /\ executed[p] = {e \in Frame \X Player : e[1] < frame[p] /\ e[2] \in Staying(e[1])}
  BY Numbers DEF ComeTo, Inv, PlanBound, ExecutedBound, Staying
<1>2. ASSUME NEW f \in ComeTo
      PROVE  Cast[f] = Staying(f)
  <2>1. f \in Frame
    BY DEF ComeTo
  <2>2. CASE \E p \in Player : f < frame[p]
    <3>1. Cast[f] = {s \in Player : \E p \in Player : <<f, s>> \in executed[p]}
      BY <2>2 DEF Cast
    <3>2. ASSUME NEW s \in Player PROVE (\E p \in Player : <<f, s>> \in executed[p]) <=> s \in Staying(f)
      <4> DEFINE e == <<f, s>>
      <4>1. e \in Frame \X Player /\ e[1] = f /\ e[2] = s
        BY <2>1
      <4> HIDE DEF e
      <4>2. \A p \in Player : e \in executed[p] <=> f < frame[p] /\ s \in Staying(f)
        BY <1>1, <4>1
      <4> QED
        BY <2>2, <4>2 DEF e
    <3> QED
      BY <3>1, <3>2 DEF Staying
  <2>3. CASE ~\E p \in Player : f < frame[p]
    <3>1. Cast[f] = UNION {plan[p] : p \in {q \in Player : frame[q] = f}}
      BY <2>3 DEF Cast
    <3>2. PICK p \in Player : frame[p] = f
      BY <2>1, <2>3, Numbers, Frames DEF ComeTo
    <3> QED
      BY <1>1, <3>1, <3>2
  <2> QED
    BY <2>2, <2>3
<1> QED
  BY <1>1, <1>2 DEF Cast, CastBound

(* The same of the next state.                                             *)
LEMMA CastIsNext == (Types /\ Inv => CastBound)'
BY CastIs, PTL

(* Who executes a frame plays it.                                          *)
LEMMA ExecutePlays ==
  ASSUME Types, Inv, LeaveBound, OwnData, NEW p \in Player, ExecuteFrame(p), [Next]_vars
  PROVE  Game!Play(p)
<1> DEFINE f == frame[p]
           d == f + 1
<1>1. CastBound /\ CastBound' /\ Types' /\ Inv'
  BY CastIs, CastIsNext, StepGrows
<1>2. /\ frame' = [frame EXCEPT ![p] = f + 1] /\ leaveFrame' = leaveFrame
      /\ executed' = [executed EXCEPT ![p] = executed'[p]]
  BY ExecuteParts DEF Types, PlayerType, ExecutedType
<1>3. f \in Frame /\ f \in Nat /\ d \in Frame /\ frame'[p] = d
  BY <1>1, <1>2, Numbers, Frames DEF Types, PlayerType
<1>4. \A g : Staying(g)' = Staying(g)
  BY <1>2 DEF Staying
<1>5. Cast[f] = Staying(f)
  BY <1>1 DEF CastBound
<1>6. p \in Cast[f]
  BY <1>1, <1>5 DEF CastBound, OwnData, ExecuteFrame, Ready
<1>7. ASSUME NEW s \in Cast[f] PROVE f <= frame[s] + (RunAhead + 1)
  <2>1. s \in Player /\ (leaveFrame[s] = 0 \/ f <= leaveFrame[s])
    BY <1>5 DEF Staying
  <2>2. frame[s] \in Nat /\ leaveFrame[s] \in Nat
    BY <2>1, Numbers
  <2> QED
    BY <1>3, <2>1, <2>2, Constants DEF Inv, Lead, LeaveBound
<1>8. executed' = [executed EXCEPT ![p] = executed[p] \cup ({f} \X Cast[f])]
  <2>1. executed'[p] = {e \in Frame \X Player : e[1] < d /\ e[2] \in Staying(e[1])}
    BY <1>1, <1>3, <1>4 DEF CastBound
  <2>2. executed[p] = {e \in Frame \X Player : e[1] < f /\ e[2] \in Staying(e[1])}
    BY <1>1 DEF CastBound
  <2>3. {f} \X Cast[f] = {e \in Frame \X Player : e[1] = f /\ e[2] \in Staying(e[1])}
    BY <1>3, <1>5 DEF Staying
  <2>4. \A e \in Frame \X Player : e[1] < d <=> e[1] < f \/ e[1] = f
    BY <1>3, Frames
  <2>5. executed'[p] = executed[p] \cup ({f} \X Cast[f])
    <3> HIDE DEF d, f
    <3> QED
      BY <2>1, <2>2, <2>3, <2>4
  <2> QED
    BY <1>2, <2>5
<1>9. ComeTo' = ComeTo \cup {d} /\ f \in ComeTo
  <2>1. \A g \in Frame : (\E q \in Player : g <= frame'[q]) <=> g = d \/ (\E q \in Player : g <= frame[q])
    <3> SUFFICES ASSUME NEW g \in Frame
                 PROVE  (\E q \in Player : g <= frame'[q]) <=> g = d \/ (\E q \in Player : g <= frame[q])
      OBVIOUS
    <3>1. g \in Nat /\ \A q \in Player : frame[q] \in Nat
      BY Frames, Numbers
    <3>2. \A q \in Player : frame'[q] = IF q = p THEN d ELSE frame[q]
      BY <1>2 DEF Types, PlayerType
    <3> QED
      BY <1>3, <3>1, <3>2
  <2> QED
    BY <1>1, <1>3, <2>1 DEF ComeTo, CastBound
<1>10. Game!ComeTo(d)
  <2>1. DOMAIN Cast = ComeTo /\ d - 1 = f
    BY <1>1, <1>3 DEF CastBound
  <2>2. Cast' = [g \in ComeTo \cup {d} |-> Staying(g)]
    BY <1>1, <1>4, <1>9 DEF CastBound
  <2>3. CASE d \in ComeTo
    <3>1. Cast' = Cast
      BY <1>1, <2>2, <2>3 DEF CastBound
    <3> QED
      BY <2>1, <2>3, <3>1 DEF Game!ComeTo
  <2>4. CASE d \notin ComeTo
    <3>1. Staying(d) \in SUBSET Cast[f]
      <4>1. \A s \in Player : leaveFrame[s] \in Nat
        BY Numbers
      <4> QED
        BY <1>3, <1>5, <4>1 DEF Staying
    <3>2. Cast' = [g \in DOMAIN Cast \cup {d} |-> IF g = d THEN Staying(d) ELSE Cast[g]]
      BY <1>1, <2>1, <2>2 DEF CastBound
    <3> HIDE DEF d
    <3> QED
      BY <2>1, <2>4, <3>1, <3>2 DEF Game!ComeTo
  <2> QED
    BY <2>3, <2>4
<1> QED
  BY <1>2, <1>6, <1>7, <1>8, <1>10 DEF Game!Play

(* Nothing but the execution of a frame is a step of the game.             *)
LEMMA PlayOrStutter ==
  ASSUME Types, Inv, LeaveBound, OwnData, [Next]_vars
  PROVE  [Game!Next]_(Game!vars)
<1>1. ASSUME NEW p \in Player, ExecuteFrame(p) PROVE [Game!Next]_(Game!vars)
  BY <1>1, ExecutePlays DEF Game!Next
<1>2. ASSUME UNCHANGED <<frame, plan, executed>> PROVE [Game!Next]_(Game!vars)
  BY <1>2 DEF Game!vars, Cast, ComeTo
<1>3. ASSUME NEW p \in Player, NEW q \in Player, NEW m \in queue[q][p], Receive(p, q, m)
      PROVE  UNCHANGED <<frame, plan, executed>>
  BY <1>3 DEF Receive
<1> QED
  BY <1>1, <1>2, <1>3 DEF Next, HandleLocalPlayerLeaving, EndOfGameCheck, CatchUp, GiveUp, vars

(* Leave implements LeavingGame: whoever leaves and in whatever order      *)
(* messages arrive, there is one cast for each frame, all who stay execute *)
(* the commands of just these, and nobody gets ahead of them by more than  *)
(* the run ahead and one.                                                  *)
THEOREM OneGameIsPlayed == Spec => PlaysOneGame
<1>1. Init => Game!Init /\ LeaveBound
  <2> SUFFICES ASSUME Init PROVE Game!Init /\ LeaveBound
    OBVIOUS
  <2>1. /\ frame = [p \in Player |-> FirstFrame] /\ executed = [p \in Player |-> {}]
        /\ plan = [p \in Player |-> Player] /\ leaveFrame = [p \in Player |-> 0]
    BY DEF Init
  <2>2. ComeTo = {FirstFrame}
    <3>1. FirstFrame \in Frame /\ \A f \in Frame : f <= FirstFrame <=> f = FirstFrame
      BY Constants DEF Frame
    <3> QED
      BY <2>1, <3>1, PlayerAssumption DEF ComeTo
  <2>3. Cast = [f \in {FirstFrame} |-> Player]
    <3>1. Cast[FirstFrame] = UNION {plan[p] : p \in {q \in Player : frame[q] = FirstFrame}}
      BY <2>1, <2>2, Constants DEF Cast
    <3>2. Cast[FirstFrame] = Player
      BY <2>1, <3>1, PlayerAssumption
    <3> QED
      BY <2>2, <3>2 DEF Cast
  <2>4. LeaveBound
    BY <2>1, Constants DEF LeaveBound
  <2> QED
    BY <2>1, <2>3, <2>4 DEF Game!Init
<1>2. Init => Types /\ Inv /\ Safe
  BY TypesInit, InvInit, SafeInit
<1>3. Types /\ Inv /\ Safe /\ [Next]_vars => (Types /\ Inv /\ Safe)'
  BY TypesNext, InvNext, SafeNext
<1>4. Types /\ Inv /\ LeaveBound /\ [Next]_vars => LeaveBound'
  BY LeaveBoundNext
<1>5. Types /\ Inv /\ Safe /\ LeaveBound /\ [Next]_vars => [Game!Next]_(Game!vars)
  BY PlayOrStutter DEF Safe
<1> QED
  BY <1>1, <1>2, <1>3, <1>4, <1>5, PTL DEF Spec, PlaysOneGame, Game!Spec

(* While the first router stays, what a player waits for is sent to it, or *)
(* to the first router, which relays it.                                   *)
LEMMA SafeWaitsNotInVain == Types /\ Inv /\ Safe => NobodyWaitsInVain
<1> DEFINE R == FirstRouter
<1> SUFFICES ASSUME Types, Inv, Safe, leaveFrame[R] = 0, NEW p \in Player, localStatus[p] = "INGAME",
                    NEW s \in plan[p], <<s, frame[p]>> \notin data[p],
                    ~(leaveFrame[s] = 0 /\ frame[s] + RunAhead = frame[p])
             PROVE  OnItsWay(<<s, frame[p]>>, p)
  BY DEF NobodyWaitsInVain
<1> DEFINE f == frame[p]
           d == <<s, f>>
<1>1. /\ OwnData /\ RouterIsSent /\ RouterPassesOn /\ RouterSends
  BY DEF Safe
<1>2. s \in Player /\ R \in Player /\ leaveFrame[p] = 0 /\ InGame(p) /\ InGame(R)
  <2>1. s \in Player /\ R \in Player
    BY First DEF Types, PlayerType
  <2> QED
    BY <2>1 DEF Inv, StatusBound, InGame
<1>3. f \in Frame /\ f \in Nat /\ d \in Player \X Frame /\ d[1] = s /\ d[2] = f
  BY <1>2, Numbers
<1>4. frame[s] \in Nat /\ leaveFrame[s] \in Nat /\ f <= Last(s)
  <2>1. frame[s] \in Nat /\ leaveFrame[s] \in Nat
    BY <1>2, Numbers
  <2>2. leaveFrame[s] = 0 => f < frame[s] + RunAhead
    BY <1>2, <1>3, <2>1, Constants DEF Inv, Lead
  <2>3. leaveFrame[s] # 0 => f <= leaveFrame[s]
    BY DEF Inv, PlanBound
  <2> QED
    BY <1>3, <2>1, <2>2, <2>3, Constants DEF Last
<1> HIDE DEF d
<1>5. p # s
  BY <1>1, <1>2, <1>3, <1>4 DEF OwnData, d
<1>6. p \in Lacking(d) /\ \A t \in Player : p \in plan[t]
  <2>1. p \in Lacking(d)
    BY <1>2, <1>3, <1>5 DEF Lacking, d
  <2> QED
    BY <1>3, <2>1, LackingIs
<1>7. \A t \in Player : ~PastRouter(t)
  BY DEF PastRouter
<1>8. ~Handed(d)
  BY <1>6, <1>7 DEF Handed, TakenOver, Carried
<1>9. Sent(R, p, d) => OnItsWay(d, p)
  BY <1>2, <1>3 DEF Sent, OnItsWay, Same, Msg
<1>10. f < frame[R] => d \in data[R]
  BY <1>2, <1>3, <1>4, <1>6, HasLate
<1>11. CASE s = R
  <2>1. d \in data[R]
    <3>1. frame[R] <= f => d \in data[R]
      BY <1>1, <1>2, <1>3, <1>4, <1>11 DEF OwnData, d
    <3> QED
      BY <1>2, <1>3, <1>10, <3>1, Numbers
  <2>2. Router(R) = R
    BY <1>1, <1>2, FirstOfItself
  <2> QED
    BY <1>1, <1>2, <1>3, <1>6, <1>8, <1>9, <1>11, <2>1, <2>2 DEF RouterSends
<1>12. CASE s # R /\ d \in data[R]
  BY <1>1, <1>2, <1>3, <1>6, <1>7, <1>9, <1>12 DEF RouterPassesOn
<1>13. CASE s # R /\ d \notin data[R]
  <2>1. frame[R] <= f
    BY <1>2, <1>3, <1>10, <1>13, Numbers
  <2>2. Full(s, f) \in queue[s][R]
    BY <1>1, <1>2, <1>3, <1>4, <1>7, <1>13, <2>1 DEF RouterIsSent, d
  <2> DEFINE m == Full(s, f)
  <2>3. m.player = s /\ m.frame = f /\ m.relay = Player \ {s}
    BY <1>2, <1>3, FullIs
  <2>4. R = p \/ p \in RelayTo(R, m)
    BY <1>2, <1>5, <1>6, <2>3 DEF RelayTo, Open
  <2>5. Same(m, Msg(d[1], d[2], {}))
    BY <1>3, <2>3 DEF Same, Msg
  <2> HIDE DEF m
  <2> QED
    BY <1>2, <2>2, <2>4, <2>5 DEF OnItsWay, m, d
<1> QED
  BY <1>2, <1>11, <1>12, <1>13

(* While the first router stays nobody waits in vain, whoever else leaves, *)
(* and for whatever those who have left announced.                         *)
THEOREM NobodyWaits == Spec => []NobodyWaitsInVain
<1>1. Init => Types /\ Inv /\ Safe
  BY TypesInit, InvInit, SafeInit
<1>2. (Types /\ Inv /\ Safe) /\ [Next]_vars => (Types /\ Inv /\ Safe)'
  BY TypesNext, InvNext, SafeNext
<1>3. Types /\ Inv /\ Safe => NobodyWaitsInVain
  BY SafeWaitsNotInVain
<1> QED
  BY <1>1, <1>2, <1>3, PTL DEF Spec
================================================================================
