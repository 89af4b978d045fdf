------------------------------- MODULE Lockstep -------------------------------
(***************************************************************************)
(* The lockstep core: every player's Network and ConnectionManager while a *)
(* game is played and nobody leaves.  A player schedules its commands      *)
(* runAhead frames ahead, tells the others how many it has scheduled for   *)
(* each frame it will add nothing more to (FRAMEINFO), and executes a frame*)
(* once it holds, for every player, as many commands as were announced.    *)
(* All traffic passes through the packet router, which relays it.          *)
(*                                                                         *)
(* Delivery is what Connection's queues, acks and retries amount to: a     *)
(* command handed to a connection is received, in any order, and may be    *)
(* received over and over as long as its ack is not.                       *)
(* Network::update's steps are actions of their own in any order, except   *)
(* that a frame is executed only after its frame tick has been processed,  *)
(* as GetCommandsFromCommandList comes first in update.                    *)
(***************************************************************************)
EXTENDS FrameData, Sequences

CONSTANTS Player,           \* the slots taken, at most MAX_SLOTS
          Router,           \* m_packetRouterSlot
          MIN_RUNAHEAD,
          InitialRunAhead,  \* 30 in Network::init
          MaxFrame,         \* bound: the last frame executed
          MaxCommands,      \* bound: commands in all
          MaxLate           \* bound: received messages of which more copies are under way

MAX_RUNAHEAD == MAX_FRAMES_AHEAD \div 2

ASSUME PlayerAssumption == IsFiniteSet(Player) /\ Router \in Player
ASSUME RunAheadAssumption ==
  /\ MIN_RUNAHEAD \in Nat \ {0} /\ MIN_RUNAHEAD <= MAX_RUNAHEAD
  /\ InitialRunAhead \in MIN_RUNAHEAD .. MAX_RUNAHEAD
ASSUME BoundAssumption == MaxFrame \in Nat /\ MaxCommands \in Nat /\ MaxLate \in Nat

VARIABLES
  localStatus,         \* m_localStatus
  frame,               \* TheGameLogic->getFrame(): the frame to be executed next
  runAhead,            \* m_runAhead
  lastExecutionFrame,  \* m_lastExecutionFrame
  lastFrameCompleted,  \* m_lastFrameCompleted: the last frame announced by FRAMEINFO
  lastFrame,           \* m_lastFrame: the frame whose tick was processed last
  nextID,              \* the next command ID
  frameData,           \* m_frameData: [player -> [player -> ring]]
  net,                 \* [player -> messages on their way to it]
  late,                \* [player -> messages it has received and may receive again]
  executed,            \* history: [player -> the commands of frames 1, 2, ... it executed]
  issued               \* history: every command ever scheduled

vars == <<localStatus, frame, runAhead, lastExecutionFrame, lastFrameCompleted,
          lastFrame, nextID, frameData, net, late, executed, issued>>

Game == INSTANCE LockstepGame WITH
  MaxLead <- MAX_RUNAHEAD, script <- issued, played <- executed

(* The synchronized commands of a game; value is the new run ahead of a    *)
(* RUNAHEAD, the command count of a FRAMEINFO.  A FRAMEINFO is known by the*)
(* frame it is about, the others by their ID.                              *)
Synchronized(type, p, id, f, value) ==
  [type |-> type, player |-> p, id |-> id, frame |-> f, value |-> value]

Cmd == [type : {"GAMECOMMAND", "RUNAHEAD"}, player : Player, id : Nat, frame : Nat, value : Nat]
FrameInfo == [type : {"FRAMEINFO"}, player : Player, id : {0}, frame : Nat, value : Nat]
Message == [cmd : Cmd \cup FrameInfo, relay : SUBSET Player]

Init ==
  /\ localStatus = [p \in Player |-> "PREGAME"]
  /\ frame = [p \in Player |-> 0]
  /\ runAhead = [p \in Player |-> InitialRunAhead]
  /\ lastExecutionFrame = [p \in Player |-> InitialRunAhead - 1]
  /\ lastFrameCompleted = [p \in Player |-> InitialRunAhead - 1]
  /\ lastFrame = [p \in Player |-> 0]
  /\ nextID = [p \in Player |-> 0]
  /\ frameData = [p \in Player |-> [q \in Player |-> StartRing(p = q, InitialRunAhead)]]
  /\ net = [p \in Player |-> {}]
  /\ late = [p \in Player |-> {}]
  /\ executed = [p \in Player |-> <<>>]
  /\ issued = {}

----------------------------------------------------------------------------
(* The messages by which p sends commands to everybody else: the router    *)
(* addresses each player, the others leave that to the router.             *)
SentTo(p, q, cmds) ==
  IF p = Router THEN IF q = p THEN {} ELSE {[cmd |-> c, relay |-> {q}] : c \in cmds}
  ELSE IF q = Router THEN {[cmd |-> c, relay |-> Player \ {p}] : c \in cmds} ELSE {}

SendLocal(p, cmds) == net' = [q \in Player |-> net[q] \cup SentTo(p, q, cmds)]

(* A mutant: a smaller run ahead moves the execution frame back.           *)
ExecutionFrameUnheld(p) == frame[p] + runAhead[p]
(* getExecutionFrame; a smaller run ahead never moves it back.             *)
ExecutionFrame(p) ==
  IF frame[p] + runAhead[p] > lastExecutionFrame[p]
  THEN frame[p] + runAhead[p] ELSE lastExecutionFrame[p]

(* sendLocalGameMessage and updateRunAhead: a command of p's own for its   *)
(* execution frame.                                                        *)
Issue(p, type, value) ==
  LET cmd == Synchronized(type, p, nextID[p], ExecutionFrame(p), value)
  IN  /\ localStatus[p] = "INGAME"
      /\ Cardinality(issued) < MaxCommands /\ ExecutionFrame(p) <= MaxFrame
      /\ nextID' = [nextID EXCEPT ![p] = @ + 1]
      /\ lastExecutionFrame' = [lastExecutionFrame EXCEPT ![p] = ExecutionFrame(p)]
      /\ frameData' = [frameData EXCEPT ![p][p] = RingAdd(@, TRUE, cmd.frame, cmd)]
      /\ issued' = issued \cup {cmd}
      /\ SendLocal(p, {cmd})
      /\ UNCHANGED <<localStatus, frame, runAhead, lastFrameCompleted, lastFrame, late, executed>>

SendLocalGameMessage(p) == Issue(p, "GAMECOMMAND", 0)

(* Mutants: the run ahead computed is not clamped from below, from above.  *)
UpdateRunAheadFromZero(p) ==
  p = Router /\ \E newRunAhead \in 0 .. MAX_RUNAHEAD : Issue(p, "RUNAHEAD", newRunAhead)
UpdateRunAheadTooFar(p) ==
  p = Router /\ \E newRunAhead \in MIN_RUNAHEAD .. 2 * MAX_FRAMES_AHEAD : Issue(p, "RUNAHEAD", newRunAhead)
(* Only the router does, every so often; the value comes from latencies.   *)
UpdateRunAhead(p) ==
  /\ p = Router
  /\ \E newRunAhead \in MIN_RUNAHEAD .. MAX_RUNAHEAD : Issue(p, "RUNAHEAD", newRunAhead)

(* processCommand, at the first message of a new frame: the frames before  *)
(* the execution frame are complete, tell the others their counts.         *)
CommandCount(p, f) == frameData[p][p][Index(f)].commandCount

FrameTick(p) ==
  /\ lastFrame[p] # frame[p]
  /\ LET completed == lastFrameCompleted[p] + 1 .. ExecutionFrame(p) - 1
     IN  /\ SendLocal(p, {Synchronized("FRAMEINFO", p, 0, f, CommandCount(p, f)) : f \in completed})
         /\ lastFrameCompleted' =
              [lastFrameCompleted EXCEPT ![p] = IF completed = {} THEN @ ELSE ExecutionFrame(p) - 1]
  /\ localStatus' = [localStatus EXCEPT ![p] = "INGAME"]
  /\ lastExecutionFrame' = [lastExecutionFrame EXCEPT ![p] = ExecutionFrame(p)]
  /\ lastFrame' = [lastFrame EXCEPT ![p] = frame[p]]
  /\ UNCHANGED <<frame, runAhead, nextID, frameData, late, executed, issued>>

----------------------------------------------------------------------------
(* doRelay for one received command: processNetCommand drops it if it is   *)
(* out of date, and takes in a command count; sendRemoteCommand adds it to *)
(* the frame data if it is meant for p too, and relays it.  `again' says   *)
(* that another copy of the message is still under way.                    *)
RelayedTo(p, q, m) ==
  IF q # p /\ q \in m.relay THEN {[cmd |-> m.cmd, relay |-> {q}]} ELSE {}

TakeIn(p, m) ==
  LET c == m.cmd
  IN  IF c.type = "FRAMEINFO"
      THEN [frameData EXCEPT ![p][c.player] = RingSetCount(@, c.frame, c.value)]
      ELSE IF p \in m.relay
      THEN [frameData EXCEPT ![p][c.player] = RingAdd(@, p = c.player, c.frame, c)]
      ELSE frameData

(* Mutants: nothing is out of date; the frame to be executed already is.   *)
OutOfDateNever(p, m) == FALSE
OutOfDateEarly(p, m) == m.cmd.frame <= frame[p]
OutOfDate(p, m) == m.cmd.frame < frame[p]

Receive(p, m, again) ==
  /\ again => m \in late[p] \/ Cardinality(UNION {{q} \X late[q] : q \in Player}) < MaxLate
  /\ late' = [late EXCEPT ![p] = IF again THEN @ \cup {m} ELSE @ \ {m}]
  /\ frameData' = IF OutOfDate(p, m) THEN frameData ELSE TakeIn(p, m)
  /\ net' = [q \in Player |->
               (net[q] \ (IF q = p THEN {m} ELSE {}))
                 \cup (IF OutOfDate(p, m) THEN {} ELSE RelayedTo(p, q, m))]
  /\ UNCHANGED <<localStatus, frame, runAhead, lastExecutionFrame, lastFrameCompleted,
                 lastFrame, nextID, executed, issued>>

ReceiveNew(p) == \E m \in net[p] : \E again \in BOOLEAN : Receive(p, m, again)
ReceiveAgain(p) == \E m \in late[p] : \E again \in BOOLEAN : Receive(p, m, again)

----------------------------------------------------------------------------
(* Before the game: frame 0 passes without the network.                    *)
StartGame(p) ==
  /\ localStatus[p] = "PREGAME" /\ frame[p] = 0
  /\ frame' = [frame EXCEPT ![p] = 1]
  /\ UNCHANGED <<localStatus, runAhead, lastExecutionFrame, lastFrameCompleted,
                 lastFrame, nextID, frameData, net, late, executed, issued>>

AllCommandsReady(p) == \A q \in Player : IsReady(frameData[p][q][Index(frame[p])])

FrameCommandList(p) ==
  UNION {frameData[p][q][Index(frame[p])].commandList : q \in Player}

(* processRunAheadCommand for each RUNAHEAD of the list, in list order: all*)
(* come from the router, so the one with the highest ID prevails.          *)
RunAheadAfter(p, list) ==
  LET changes == {c \in list : c.type = "RUNAHEAD"}
  IN  IF changes = {} THEN runAhead[p]
      ELSE (CHOOSE c \in changes : \A d \in changes : d.id <= c.id).value

(* AllCommandsReady, RelayCommandsToCommandList and the game logic's own   *)
(* frame.  allCommandsReady's RESEND branch is missing: NeverResend says   *)
(* that it cannot be taken.                                                *)
ExecuteFrame(p) ==
  /\ localStatus[p] = "INGAME" /\ lastFrame[p] = frame[p] /\ frame[p] <= MaxFrame
  /\ AllCommandsReady(p)
  /\ executed' = [executed EXCEPT ![p] = Append(@, FrameCommandList(p))]
  /\ runAhead' = [runAhead EXCEPT ![p] = RunAheadAfter(p, FrameCommandList(p))]
  /\ frameData' = [frameData EXCEPT ![p] = [q \in Player |-> RingExecuted(@[q], p = q, frame[p])]]
  /\ frame' = [frame EXCEPT ![p] = @ + 1]
  /\ UNCHANGED <<localStatus, lastExecutionFrame, lastFrameCompleted, lastFrame, nextID,
                 net, late, issued>>

Next ==
  \E p \in Player :
    \/ SendLocalGameMessage(p)
    \/ UpdateRunAhead(p)
    \/ FrameTick(p)
    \/ ReceiveNew(p)
    \/ ReceiveAgain(p)
    \/ StartGame(p)
    \/ ExecuteFrame(p)

(* The game loop runs update on every machine, and the connections retry   *)
(* until a command is acked; users and latencies owe us nothing.           *)
Fairness ==
  \A p \in Player :
    /\ WF_vars(FrameTick(p))
    /\ WF_vars(StartGame(p))
    /\ WF_vars(ExecuteFrame(p))
    /\ WF_vars(ReceiveNew(p))

Spec == Init /\ [][Next]_vars
FairSpec == Spec /\ Fairness

----------------------------------------------------------------------------
(* Properties.                                                             *)

TypeOK ==
  /\ localStatus \in [Player -> {"PREGAME", "INGAME"}]
  /\ frame \in [Player -> Nat]
  /\ runAhead \in [Player -> MIN_RUNAHEAD .. MAX_RUNAHEAD]
  /\ lastExecutionFrame \in [Player -> Nat]
  /\ lastFrameCompleted \in [Player -> Nat]
  /\ lastFrame \in [Player -> Nat]
  /\ nextID \in [Player -> Nat]
  /\ frameData \in [Player -> [Player -> [Indices -> FrameDataType(Cmd)]]]
  /\ net \in [Player -> SUBSET Message]
  /\ late \in [Player -> SUBSET Message]
  /\ executed \in [Player -> Seq(SUBSET Cmd)]
  /\ issued \in SUBSET Cmd

IssuedBy(p, f) == {c \in issued : c.player = p /\ c.frame = f}

(* No desync: whatever the network did to the messages, every player       *)
(* executes in each frame exactly the commands scheduled for it - the same *)
(* ones as every other player, none lost, none twice, none late.           *)
SameCommandsEverywhere ==
  \A p \in Player : \A f \in 1 .. Len(executed[p]) :
    executed[p][f] = {c \in issued : c.frame = f}

(* A count once announced stays true: p schedules nothing more for a frame *)
(* whose FRAMEINFO it has sent, not even when the run ahead shrinks.       *)
AnnouncedCountsHold ==
  /\ \A p \in Player : \A m \in net[p] \cup late[p] :
       m.cmd.type = "FRAMEINFO" => m.cmd.value = Cardinality(IssuedBy(m.cmd.player, m.cmd.frame))
  /\ \A p \in Player : localStatus[p] = "INGAME" => ExecutionFrame(p) > lastFrameCompleted[p]

(* allCommandsReady never finds more commands than announced, for any frame*)
(* it can be asked about - the current one, or the one of a command that   *)
(* just arrived; so its RESEND branch is dead while nobody leaves.         *)
NeverResend ==
  \A p, q \in Player : \A i \in Indices : ~NeedsResend(frameData[p][q][i])

(* The use Lockstep makes of the rings is the one FrameDataManager expects:*)
(* whatever can still arrive is for a frame at most Ahead away.            *)
WithinTheRing ==
  \A p \in Player : \A m \in net[p] \cup late[p] : m.cmd.frame <= frame[p] + MAX_FRAMES_AHEAD + 1

(* Nobody runs away: a player is at most the run ahead in front.           *)
BoundedLead ==
  \A p, q \in Player : frame[p] <= frame[q] + MAX_RUNAHEAD

(* Players in the same frame use the same run ahead.                       *)
SameRunAhead ==
  \A p, q \in Player : frame[p] = frame[q] /\ frame[p] > 0 => runAhead[p] = runAhead[q]

(* Nobody waits in vain: what p lacks of q's commands for the frame it is  *)
(* about to execute is on its way to it, or to the router, which relays it *)
(* - or q has yet to announce the frame, because it is in an earlier one or*)
(* has not processed the tick of its own.  So players never wait for each  *)
(* other in a circle, and none waits for what nobody sends any more.       *)
NobodyWaitsInVain ==
  \A p, q \in Player :
    localStatus[p] = "INGAME" /\ ~IsReady(frameData[p][q][Index(frame[p])]) =>
      \/ \E m \in net[p] \cup net[Router] :
           m.cmd.player = q /\ m.cmd.frame = frame[p] /\ p \in m.relay
      \/ lastFrameCompleted[q] < frame[p] /\ (frame[q] < frame[p] \/ lastFrame[q] # frame[q])

(* The network keeps the abstract promise.                                 *)
KeepsThePromise == Game!Spec

(* Nobody waits for ever: all frames are executed by everybody; with them, *)
(* as SameCommandsEverywhere says, every command anybody gave.             *)
EveryFrameExecuted == <>(\A p \in Player : frame[p] = MaxFrame + 1)
=============================================================================
