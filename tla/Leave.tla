--------------------------------- MODULE Leave ---------------------------------
(***************************************************************************)
(* Leaving a game that goes on, and the change of the packet router.       *)
(*                                                                         *)
(* Whoever leaves announces it for a frame of its own choice, as a command *)
(* like any other; all execute the command in that frame, and from then on *)
(* neither wait for the leaver nor send it anything.  If it was the packet *)
(* router, the next in the fallback plan takes over and is sent everything *)
(* not known to have reached all.  The leaver stays until what it has sent *)
(* is acked.                                                               *)
(*                                                                         *)
(* As in Disconnect a player's commands of one frame and their count are   *)
(* one message, and the run ahead is constant.  A message may take any     *)
(* time, as if lost and sent again; it and its ack are one step.  Of the   *)
(* disconnect screen CatchUp is left: those who wait in different frames   *)
(* come to the same one.  Nobody times out.                                *)
(***************************************************************************)
EXTENDS Integers, FiniteSets

CONSTANTS Player,          \* the slots taken
          RunAhead,        \* m_runAhead
          FRAMES_TO_KEEP,  \* for how many frames executed commands are kept
          FirstFrame,      \* the frame on which all are at the start, with all there is
          MaxFrame,        \* bound: the frame that is not executed any more
          Leavers,         \* bound: who may leave
          LeaveBy          \* bound: the last frame on which they do

ASSUME PlayerAssumption ==
  IsFiniteSet(Player) /\ Player # {} /\ Player \subseteq Nat /\ Leavers \subseteq Player
(* The first FRAMES_TO_KEEP frames of a game are the matter of Disconnect. *)
ASSUME FrameAssumption ==
  /\ RunAhead \in Nat \ {0} /\ FRAMES_TO_KEEP \in Nat /\ FRAMES_TO_KEEP > RunAhead
  /\ FirstFrame \in Nat /\ MaxFrame \in Nat
  /\ FRAMES_TO_KEEP < FirstFrame /\ FirstFrame + RunAhead <= MaxFrame
ASSUME BoundAssumption ==
  LeaveBy \in Nat /\ LeaveBy + RunAhead + 1 < MaxFrame

VARIABLES
  localStatus,  \* m_localStatus
  frame,        \* TheGameLogic->getFrame()
  plan,         \* [p -> m_packetRouterFallback: the players p has not seen leave]
  leaveFrame,   \* [p -> the frame of its PLAYERLEAVE command, 0 before it is sent]
  data,         \* [p -> the <<player, frame>> whose commands p has in m_frameData]
  queue,        \* [p -> [q -> what p sends q until it is acked]]
  pending,      \* m_pendingCommands: [p -> frames of its own not known to have reached all]
  relayed,      \* m_relayedCommands: [p -> [<<player, frame>> -> who has not acked it]]
  executed      \* history: [p -> the <<frame, player>> whose commands p has executed]

vars == <<localStatus, frame, plan, leaveFrame, data, queue, pending, relayed, executed>>

Frame == FirstFrame .. MaxFrame
Msg(s, f, relay) == [player |-> s, frame |-> f, relay |-> relay]
Message == [player : Player, frame : Frame, relay : SUBSET Player]

Lowest(S) == CHOOSE s \in S : \A t \in S : s <= t
Router(p) == Lowest(plan[p])

(* The game still runs for p; afterwards p only empties its send queues.   *)
InGame(p) == localStatus[p] \in {"INGAME", "LEAVING"}
(* The open connections of p, given its fallback plan: not quitting, not   *)
(* deleted.  A quitting connection is deleted when its queue is empty,     *)
(* which nobody can tell: nothing is put on it in either case.             *)
Open(p, members) == IF InGame(p) THEN members \ {p} ELSE {}

----------------------------------------------------------------------------
(* sendLocalCommand of p's own data of the frames F: what is added to its  *)
(* send queues, given its fallback plan.                                   *)
SendLocalCommand(p, members, F) ==
  [q \in Player |->
     IF q = p \/ q \notin members THEN {}
     ELSE IF Lowest(members) = p THEN {Msg(p, f, {q}) : f \in F}
     ELSE IF Lowest(members) = q THEN {Msg(p, f, Player \ {p}) : f \in F} ELSE {}]

(* A client's commands are pending until all are known to have them.       *)
Pending(p, members, F) == IF Lowest(members) = p THEN pending[p] ELSE pending[p] \cup F

(* addMessage: what is in a send queue already stays as it is.             *)
Same(m, n) == m.player = n.player /\ m.frame = n.frame
Add(row, out) ==
  [q \in Player |-> row[q] \cup {m \in out[q] : ~\E n \in row[q] : Same(m, n)}]

Init ==
  /\ localStatus = [p \in Player |-> "INGAME"]
  /\ frame = [p \in Player |-> FirstFrame]
  /\ plan = [p \in Player |-> Player]
  /\ leaveFrame = [p \in Player |-> 0]
  /\ data = [p \in Player |-> Player \X (FirstFrame .. FirstFrame + RunAhead - 1)]
  /\ queue = [p \in Player |-> [q \in Player |-> {}]]
  /\ pending = [p \in Player |-> {}]
  /\ relayed = [p \in Player |-> [d \in {} |-> {}]]
  /\ executed = [p \in Player |-> {}]

----------------------------------------------------------------------------
(* A mutant: only one frame tick is processed when leaving.                *)
LastFramesButOne(p) == {frame[p] + RunAhead + 1}
(* The frames p announces when it leaves: the one in which its commands    *)
(* would be executed now, and the one after it, of the PLAYERLEAVE.        *)
LastFrames(p) == {frame[p] + RunAhead, frame[p] + RunAhead + 1}

(* processCommand of MSG_CLEAR_GAME_DATA, and handleLocalPlayerLeaving.    *)
HandleLocalPlayerLeaving(p) ==
  /\ localStatus[p] = "INGAME" /\ p \in Leavers
  /\ frame[p] <= LeaveBy
  /\ localStatus' = [localStatus EXCEPT ![p] = "LEAVING"]
  /\ leaveFrame' = [leaveFrame EXCEPT ![p] = frame[p] + RunAhead + 1]
  /\ data' = [data EXCEPT ![p] = @ \cup ({p} \X LastFrames(p))]
  /\ queue' = [queue EXCEPT ![p] = Add(@, SendLocalCommand(p, plan[p], LastFrames(p)))]
  /\ pending' = [pending EXCEPT ![p] = Pending(p, plan[p], LastFrames(p))]
  /\ UNCHANGED <<frame, plan, relayed, executed>>

----------------------------------------------------------------------------
(* A mutant: whoever has announced that it leaves is not waited for.       *)
ReadyWithoutLeavers(p) ==
  /\ InGame(p) /\ frame[p] < MaxFrame
  /\ \A s \in plan[p] : (leaveFrame[s] # 0 /\ <<s, leaveFrame[s]>> \in data[p]) \/ <<s, frame[p]>> \in data[p]
(* allCommandsReady: those p has seen leave are not waited for.            *)
Ready(p) ==
  /\ InGame(p) /\ frame[p] < MaxFrame
  /\ \A s \in plan[p] : <<s, frame[p]>> \in data[p]

(* A mutant: the connections of who leaves are cleared of everything.      *)
ClearCommands(p, row) == [q \in Player |-> {}]
(* clearCommandsExceptFrom and setQuitting, of all of p's connections.     *)
ClearCommandsExceptFrom(p, row) == [q \in Player |-> {m \in row[q] : m.player = p}]

(* The players are seen leaving in the order of their slots.  Who is gone  *)
(* each time p has seen the router leave, before p itself does.            *)
RoutersGone(p, leaving) ==
  {gone \in SUBSET (leaving \ {p}) :
     gone # {} /\ \A s \in gone, t \in plan[p] : t < s => t \in gone}

(* A mutant: the new router is left to ask for what it lacks.              *)
ResendPendingCommandsNever(p, leaving) == queue[p]
(* Every next router is sent what is pending.                              *)
ResendPendingCommands(p, leaving) ==
  Add(queue[p],
      [q \in Player |-> UNION {SendLocalCommand(p, plan[p] \ gone, pending[p])[q] :
                                 gone \in RoutersGone(p, leaving)}])

(* processPlayerLeave and disconnectPlayer of all who leave: what becomes  *)
(* of p's send queues.                                                     *)
ProcessPlayerLeave(p, leaving) ==
  LET row == ResendPendingCommands(p, leaving)
  IN  IF p \in leaving THEN ClearCommandsExceptFrom(p, row) ELSE row

(* A mutant: the frame data of a leaver are deleted with its connection.   *)
QuitFrameNow(s) == leaveFrame[s] + 1
(* setQuitFrame: from this frame on they are.                              *)
QuitFrame(s) == leaveFrame[s] + FRAMES_TO_KEEP + 1

(* What p keeps of its frame data on reaching frame f: the last            *)
(* FRAMES_TO_KEEP frames, and nothing of those whose quit frame has come.  *)
Kept(p, members, f) ==
  {d \in data[p] : d[2] >= f - FRAMES_TO_KEEP /\ (d[1] \in members \/ f < QuitFrame(d[1]))}

(* A frame with the PLAYERLEAVE commands in it, in the order of the slots; *)
(* then the frame tick, in which whoever stays announces a frame more.     *)
ExecuteFrame(p) ==
  LET leaving == {s \in plan[p] : leaveFrame[s] = frame[p]}
      rest == plan[p] \ leaving
      row == ProcessPlayerLeave(p, leaving)
      next == {f \in {frame[p] + RunAhead} : localStatus[p] = "INGAME" /\ f <= MaxFrame}
  IN  /\ Ready(p)
      /\ executed' = [executed EXCEPT ![p] = @ \cup {<<frame[p], d[1]>> : d \in {e \in data[p] : e[2] = frame[p]}}]
      /\ frame' = [frame EXCEPT ![p] = @ + 1]
      /\ plan' = [plan EXCEPT ![p] = rest]
      /\ localStatus' = [localStatus EXCEPT ![p] = IF p \in leaving THEN "LEFT" ELSE @]
      /\ data' = [data EXCEPT ![p] = Kept(p, rest, frame[p] + 1) \cup ({p} \X next)]
      /\ queue' = [queue EXCEPT ![p] = IF next = {} THEN row ELSE Add(row, SendLocalCommand(p, rest, next))]
      /\ pending' = [pending EXCEPT ![p] = IF next = {} THEN @ ELSE Pending(p, rest, next)]
      /\ UNCHANGED <<leaveFrame, relayed>>

----------------------------------------------------------------------------
(* p takes in m, which q has sent: doRelay.                                *)

OutOfDate(p, m) == m.frame < frame[p]
Lacks(p, m) == ~OutOfDate(p, m) /\ <<m.player, m.frame>> \notin data[p]
RelayTo(p, m) == (m.relay \ {p}) \cap Open(p, plan[p])

(* ackCommand: the ack goes to whom p takes for the router, who need not   *)
(* be who sent m.                                                          *)
AckTo(p, m) == IF Router(p) = p THEN m.player ELSE Router(p)

(* The queues when p's ack of m has arrived: processAckStage1.             *)
Acked(net, p, m) ==
  LET r == AckTo(p, m)
  IN  [net EXCEPT ![r][p] = {n \in @ : ~Same(m, n)}]

(* A mutant: both stages are acked at once.                                *)
AckStageBoth(p, m) == "BOTH"
(* Stage 2 is acked by whoever relays m to nobody.                         *)
AckStage(p, m) == IF RelayTo(p, m) = {} THEN "BOTH" ELSE "STAGE1"

StillToAck(rel, r, p, d) == IF d \in DOMAIN rel[r] THEN rel[r][d] \ {p} ELSE {}
(* A mutant: a relayed command that all have acked is kept.                *)
AfterAckStage2Keeps(rel, r, p, d) ==
  IF d \notin DOMAIN rel[r] THEN rel ELSE [rel EXCEPT ![r][d] = @ \ {p}]
(* processAckStage2 at r: one less to wait for; if it was the last one,    *)
(* the player m comes from is told that all have it - once.                *)
AfterAckStage2(rel, r, p, d) ==
  IF d \notin DOMAIN rel[r] THEN rel
  ELSE IF StillToAck(rel, r, p, d) # {} THEN [rel EXCEPT ![r][d] = @ \ {p}]
  ELSE [rel EXCEPT ![r] = [e \in DOMAIN @ \ {d} |-> @[e]]]

(* sendRemoteCommand: m is put among the relayed commands unless there.    *)
AfterRelay(p, m, d) ==
  IF OutOfDate(p, m) \/ RelayTo(p, m) = {} \/ d \in DOMAIN relayed[p] THEN relayed
  ELSE [relayed EXCEPT ![p] = [e \in DOMAIN @ \cup {d} |-> IF e = d THEN RelayTo(p, m) ELSE @[e]]]

Receive(p, q, m) ==
  LET d == <<m.player, m.frame>>
      r == AckTo(p, m)
      heard == r \in Open(p, plan[p]) /\ localStatus[r] # "POSTGAME"
      relays == [t \in Player |->
                   IF t \in RelayTo(p, m) /\ ~OutOfDate(p, m) THEN {Msg(m.player, m.frame, {t})} ELSE {}]
      net == [queue EXCEPT ![p] = Add(@, relays)]
      rel == AfterRelay(p, m, d)
      stage2 == heard /\ AckStage(p, m) = "BOTH"
      last == stage2 /\ d \in DOMAIN rel[r] /\ StillToAck(rel, r, p, d) = {}
      end == {s \in {m.player} : stage2 /\ (s = r \/ (last /\ s \in Open(r, plan[r])))}
  IN  /\ m \in queue[q][p] /\ InGame(p)
      /\ data' = IF OutOfDate(p, m) THEN data ELSE [data EXCEPT ![p] = @ \cup {d}]
      /\ queue' = IF heard THEN Acked(net, p, m) ELSE net
      /\ relayed' = IF stage2 THEN AfterAckStage2(rel, r, p, d) ELSE rel
      /\ pending' = [s \in Player |-> IF s \in end THEN pending[s] \ {m.frame} ELSE pending[s]]
      /\ UNCHANGED <<localStatus, frame, plan, leaveFrame, executed>>

----------------------------------------------------------------------------
(* processDisconnectFrame and sendFrameDataToPlayer: p and q both wait, q  *)
(* behind, and p sends q what it has executed since.  They have waited for *)
(* seconds, many retries long: nothing they lack is still on its way.      *)
SendFrameDataToPlayer(p, q) ==
  {Msg(d[1], d[2], {q}) : d \in {e \in data[p] : e[1] # q /\ e[2] >= frame[q] /\ e[2] < frame[p]}}

CatchUp(p, q) ==
  /\ InGame(p) /\ InGame(q) /\ ~Ready(p) /\ ~Ready(q) /\ frame[q] < frame[p]
  /\ q \in Open(p, plan[p]) /\ p \in Open(q, plan[q])
  /\ \A t \in Player, s \in {p, q} : \A m \in queue[t][s] : ~Lacks(s, m)
  /\ LET help == [t \in Player |-> IF t = q THEN SendFrameDataToPlayer(p, q) ELSE {}]
     IN  /\ \E m \in Add(queue[p], help)[q] \ queue[p][q] : Lacks(q, m)
         /\ queue' = [queue EXCEPT ![p] = Add(@, help)]
  /\ UNCHANGED <<localStatus, frame, plan, leaveFrame, data, pending, relayed, executed>>

(* doSend of a quitting connection: after MaxQuitFlushTime it gives up.    *)
(* That is many retries, so whoever still listens has everything by then.  *)
GiveUp(p, q) ==
  /\ localStatus[p] \notin {"POSTGAME"} /\ q # p /\ q \notin Open(p, plan[p])
  /\ queue[p][q] # {} /\ \A m \in queue[p][q] : InGame(q) => ~Lacks(q, m)
  /\ queue' = [queue EXCEPT ![p][q] = {}]
  /\ UNCHANGED <<localStatus, frame, plan, leaveFrame, data, pending, relayed, executed>>

(* endOfGameCheck, canILeave, disconnectLocalPlayer.                       *)
EndOfGameCheck(p) ==
  /\ localStatus[p] = "LEFT" /\ \A q \in Player : queue[p][q] = {}
  /\ localStatus' = [localStatus EXCEPT ![p] = "POSTGAME"]
  /\ UNCHANGED <<frame, plan, leaveFrame, data, queue, pending, relayed, executed>>

Next ==
  \E p \in Player :
    \/ HandleLocalPlayerLeaving(p) \/ ExecuteFrame(p) \/ EndOfGameCheck(p)
    \/ \E q \in Player :
         \/ \E m \in queue[q][p] : Receive(p, q, m)
         \/ CatchUp(p, q) \/ GiveUp(p, q)

(* The machines run their loops and no message is lost for ever: as long   *)
(* as somebody has something to do, something is done.  Nothing can be     *)
(* done for ever - a frame is executed once, a message acked once - so     *)
(* every step that stays possible is taken.                                *)
Runs(p) ==
  \/ ExecuteFrame(p) \/ EndOfGameCheck(p)
  \/ \E q \in Player : CatchUp(p, q) \/ GiveUp(p, q) \/ \E m \in queue[q][p] : Receive(p, q, m)
Fairness == WF_vars(\E p \in Player : Runs(p))

Spec == Init /\ [][Next]_vars
FairSpec == Spec /\ Fairness

----------------------------------------------------------------------------
(* Properties.                                                             *)

TypeOK ==
  /\ localStatus \in [Player -> {"INGAME", "LEAVING", "LEFT", "POSTGAME"}]
  /\ frame \in [Player -> Frame]
  /\ plan \in [Player -> SUBSET Player]
  /\ leaveFrame \in [Player -> {0} \cup Frame]
  /\ data \in [Player -> SUBSET (Player \X Frame)]
  /\ queue \in [Player -> [Player -> SUBSET Message]]
  /\ pending \in [Player -> SUBSET Frame]
  /\ \A p \in Player : \A d \in DOMAIN relayed[p] :
       d \in Player \X Frame /\ relayed[p][d] \in (SUBSET Player) \ {{}}
  /\ executed \in [Player -> SUBSET (Frame \X Player)]

(* No desync: in a frame that two have executed they have executed the     *)
(* commands of the same players; and who is in the same frame has seen the *)
(* same players leave, and takes the same one for the router.              *)
SameExecution ==
  \A p, q \in Player :
    /\ \A f \in Frame : f < frame[p] /\ f < frame[q] =>
         \A s \in Player : <<f, s>> \in executed[p] <=> <<f, s>> \in executed[q]
    /\ InGame(p) /\ InGame(q) /\ frame[p] = frame[q] => plan[p] = plan[q]

(* There is one game: all who come to a frame agree, before they execute   *)
(* it, on who is still in it - the players not seen leaving, whose commands*)
(* have been executed everywhere up to there - and nobody goes on without  *)
(* waiting for all of these.                                               *)
ComeTo == {f \in Frame : \E p \in Player : f <= frame[p]}
Cast == [f \in ComeTo |-> IF \E p \in Player : f < frame[p]
                          THEN {s \in Player : \E p \in Player : <<f, s>> \in executed[p]}
                          ELSE UNION {plan[p] : p \in {q \in Player : frame[q] = f}}]
Game == INSTANCE LeavingGame WITH cast <- Cast, MaxLead <- RunAhead + 1
PlaysOneGame == Game!Spec

(* Whoever is behind can be helped: all it lacks of the frames somebody    *)
(* else has executed is still kept there, those of a leaver included.      *)
KeptForCatchUp ==
  \A p, q \in Player : localStatus[p] = "INGAME" /\ localStatus[q] = "INGAME" =>
    \A f \in frame[q] .. frame[p] - 1 : \A s \in Player \ {q} :
      <<f, s>> \in executed[p] => <<s, f>> \in data[q] \cup data[p]

(* What one player lacks of another, both in the game, is not forgotten:   *)
(* it is on its way, by way of those who will pass it on, or still pending *)
(* and the router's leave, which makes it be sent again, is yet to come,   *)
(* or has been taken over.                                                 *)
OnItsWay(d, q) ==
  \E t, r \in Player : \E m \in queue[t][r] :
    Same(m, Msg(d[1], d[2], {})) /\ (r = q \/ q \in RelayTo(r, m)) /\ InGame(r)
(* Somebody past the leave of the first router has it: it has executed it, *)
(* and can send it to who is behind; or is the next router, or has it from *)
(* the next router, whose own it is, or has left in its turn.  A command   *)
(* that the old router passed on to some is then acked by these as the next*)
(* router's: it is not pending any more, and the others get it from whoever*)
(* has executed it.  Four players are needed for that.                     *)
FirstRouter == Lowest(Player)
PastRouter(t) == leaveFrame[FirstRouter] # 0 /\ frame[t] > leaveFrame[FirstRouter]
TakenOver(d) ==
  \E t \in Player \ {FirstRouter} :
    /\ d \in data[t] /\ PastRouter(t)
    /\ \/ frame[t] > d[2]
       \/ t # d[1] /\ (InGame(t) => Router(t) \in {t, d[1]})
NothingForgotten ==
  \A s, q \in Player : InGame(s) /\ localStatus[q] = "INGAME" /\ s # q =>
    \A d \in data[s] : d[1] = s /\ d[2] >= frame[q] /\ d \notin data[q] =>
      \/ OnItsWay(d, q)
      \/ d[2] \in pending[s] /\ leaveFrame[Router(s)] # 0
      \/ TakenOver(d)

(* As long as the first router stays nobody waits in vain: what a player   *)
(* lacks to execute its frame is on its way to it, also what was announced *)
(* by who has left; or is not announced yet, by somebody who is behind and *)
(* does so when it comes to a frame it can wait for in the same way.       *)
NobodyWaitsInVain ==
  leaveFrame[FirstRouter] = 0 =>
    \A p \in Player : localStatus[p] = "INGAME" =>
      \A s \in plan[p] : <<s, frame[p]>> \notin data[p] =>
        \/ OnItsWay(<<s, frame[p]>>, p)
        \/ leaveFrame[s] = 0 /\ frame[s] + RunAhead = frame[p]

(* "We have to send all the frame info packets necessary to get to the     *)
(* frame where everyone else is going to see that we left."                *)
SeenLeaving(p) ==
  \A q \in Player : localStatus[q] = "INGAME" => <<leaveFrame[p], p>> \in executed[q]
LeavingIsSeen == <>[](\A p \in Player : leaveFrame[p] # 0 => SeenLeaving(p))

(* Once the leaving is seen the game goes on for those who stay, whoever   *)
(* it was that left: they get through the frames that are executed; then   *)
(* somebody has all there is of the next, and the others either have it    *)
(* too or can be helped once that one is ahead.                            *)
NobodyLeftBehind ==
  <>[](\A p \in Player :
         localStatus[p] = "INGAME" /\ (\A q \in Player : leaveFrame[q] # 0 => SeenLeaving(q)) =>
           /\ frame[p] = MaxFrame
           /\ \E r \in Player : localStatus[r] = "INGAME" /\ plan[r] \X {MaxFrame} \subseteq data[r]
           /\ \A s \in plan[p] : <<s, MaxFrame>> \in data[p] \/ TakenOver(<<s, MaxFrame>>))

(* A player who is not the router, nor becomes it, leaves in good order:   *)
(* it gets out, and all who stay have seen it leave.                       *)
LeavesAsRouter(p) ==
  leaveFrame[p] # 0 /\ \A q \in Player : q < p => leaveFrame[q] # 0 /\ leaveFrame[q] <= leaveFrame[p]
ClientsLeaveInOrder ==
  <>[](\A p \in Player : leaveFrame[p] # 0 =>
          (localStatus[p] = "POSTGAME" /\ SeenLeaving(p)) \/ \E r \in Player : LeavesAsRouter(r))
=============================================================================
