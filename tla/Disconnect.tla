------------------------------ MODULE Disconnect ------------------------------
(***************************************************************************)
(* DisconnectManager: what the players do when the game stands still.      *)
(*                                                                         *)
(* A player who lacks commands for its frame puts up the disconnect screen,*)
(* tells the others its frame, and sends the frames it is ahead to whoever *)
(* is behind.  Once a player has timed out or been voted out and all the   *)
(* others stand on one frame, the one of them who is the next packet router*)
(* tells everybody to disconnect that player, and has it destroyed.        *)
(*                                                                         *)
(* A player's commands of one frame and the count that announces them are  *)
(* one message, FRAMEDATA; FrameData and Lockstep take it apart.  Clients  *)
(* send it to the router, who relays it; everything else goes directly.    *)
(* The run ahead is constant.  A link carries what one player sends another*)
(* in the order sent; through a loss and a retry a message can be overtaken*)
(* by others, or be received again.  Time is left out: a dead player times *)
(* out whenever the screen is on, a living one never, for its keep-alives  *)
(* come twice a second and the time-out takes a minute.                    *)
(***************************************************************************)
EXTENDS Integers, FiniteSets, Sequences, SequencesExt

CONSTANTS MAX_SLOTS,       \* how many slots there are
          Player,          \* those that are taken
          RunAhead,        \* m_runAhead
          FRAMES_TO_KEEP,  \* how old a frame can be to be sent again
          UINT_RANGE,      \* frames are unsigned numbers below this one
          FirstFrame,      \* the frame on which all are at the start
          MaxFrame,        \* bound: the frame on which the game stands for good
          Troubles,        \* bound: which troubles there are
          MaxTrouble       \* bound: and how many of them altogether

ASSUME PlayerAssumption ==
  MAX_SLOTS \in Nat /\ Player \subseteq 0 .. MAX_SLOTS - 1 /\ Player # {}
ASSUME FrameAssumption ==
  /\ RunAhead \in Nat \ {0} /\ FRAMES_TO_KEEP \in Nat \ {0}
  /\ FirstFrame \in Nat \ {0} /\ MaxFrame \in Nat /\ UINT_RANGE \in Nat
  /\ FirstFrame <= MaxFrame /\ MaxFrame < UINT_RANGE /\ FRAMES_TO_KEEP < UINT_RANGE
ASSUME BoundAssumption ==
  MaxTrouble \in Nat /\ Troubles \subseteq {"DEATH", "QUIT", "VOTE", "SCREEN", "DISORDER"}

VARIABLES
  status,    \* [player -> whether it plays, has died or has quit]
  frame,     \* [player -> TheGameLogic->getFrame()]
  conn,      \* [p -> the players p is connected to, and p itself]
  data,      \* [p -> the <<player, frame>> whose commands p has in m_frameData]
  destruct,  \* [p -> the <<frame, slot>> of the DESTROYPLAYER commands of p]
  screen,    \* [p -> m_disconnectState is not SCREENOFF]
  notified,  \* [p -> m_haveNotifiedOtherPlayersOfCurrentFrame]
  timedOut,  \* [p -> the players who have timed out at p]
  frames,    \* m_disconnectFrames: [p -> [q -> the frame on which p knows q to be stuck]]
  received,  \* m_disconnectFramesReceived: [p -> the players stuck, as far as p knows]
  votes,     \* m_playerVotes: [p -> the votes that p has on record]
  link,      \* [p -> [q -> what p has sent q and q has not received]]
  executed,  \* history: [p -> the <<frame, player>> whose commands p has executed]
  issued,    \* history: the <<issuer, slot>> of the disconnect commands
  trouble,   \* history: how much of MaxTrouble has been used
  inOrder,   \* history: no message has overtaken another or been received again
  silent,    \* history: the dead from whom nothing has come for a minute
  orderly    \* history: nobody has quit, or been voted against without being silent

local == <<status, frame, executed>>
menu == <<screen, notified, timedOut>>
known == <<frames, received, votes>>
peers == <<conn, data, destruct>>
history == <<silent, issued, trouble, inOrder, orderly>>
vars == <<local, menu, known, peers, link, history>>

Alive(p) == status[p] = "PLAYING"
Trouble(kind) ==
  kind \in Troubles /\ trouble < MaxTrouble /\ trouble' = trouble + 1

Frame == FirstFrame .. MaxFrame
Vote == [slot : Player, by : Player, frame : Frame]
Message ==
  [type : {"FRAMEDATA", "DISCONNECTFRAME", "DISCONNECTSCREENOFF", "DISCONNECTVOTE", "DISCONNECTPLAYER"},
   player : Player, frame : Nat, slot : Player, relay : SUBSET Player]

Msg(type, p, f, s) == [type |-> type, player |-> p, frame |-> f, slot |-> s, relay |-> {}]
Data(p, f, relay) ==
  [type |-> "FRAMEDATA", player |-> p, frame |-> f, slot |-> p, relay |-> relay]

----------------------------------------------------------------------------
(* The players, seen from p.                                               *)
Others(p) == conn[p] \ {p}
Lowest(S) == CHOOSE s \in S : \A t \in S : s <= t

(* The fallback plan is the list of the connected slots in order: the      *)
(* router is its first, and the next in it takes over.                     *)
Router(S) == Lowest(S)

(* countVotesForPlayer: only votes cast in p's present frame count.        *)
CountVotes(p, s) == Cardinality({v \in votes[p] : v.slot = s /\ v.frame = frame[p]})
(* Out: those of the connected S who are voted out or timed out at p.      *)
Out(p, S) == {s \in S \ {p} : CountVotes(p, s) >= Cardinality(S) - 1 \/ s \in timedOut[p]}
(* isPlayerInGame.                                                         *)
InGame(p) == conn[p] \ Out(p, conn[p])

(* A mutant: everybody takes itself for the next router.                   *)
IsLocalPlayerNextPacketRouterAlways(p) == p \in InGame(p)
AllOnSameFrame(p) ==
  \A q \in InGame(p) \ {p} : q \in received[p] /\ frames[p][q] = frames[p][p]
IsLocalPlayerNextPacketRouter(p) == Router(InGame(p)) = p
GetMaxDisconnectFrame(p) == CHOOSE f \in {frames[p][q] : q \in Player} :
                              \A q \in Player : frames[p][q] <= f

----------------------------------------------------------------------------
(* Sending.  `out' has what p sends each player; the dead hear nothing.    *)
Sent(net, p, out) ==
  [net EXCEPT ![p] = [q \in Player |-> IF Alive(q) THEN @[q] \o out[q] ELSE @[q]]]
Nothing == [q \in Player |-> <<>>]
Both(out1, out2) == [q \in Player |-> out1[q] \o out2[q]]
ToAll(S, m) == [q \in Player |-> IF q \in S \ {m.player} THEN <<m>> ELSE <<>>]

(* sendLocalCommand of p's own data for the frames F, when connected to S. *)
SendLocalCommand(p, S, F) ==
  LET batch(relay) == SetToSeq({Data(p, f, relay) : f \in F})
  IN  [q \in Player |->
         IF q = p \/ q \notin S THEN <<>>
         ELSE IF Router(S) = p THEN batch({q})
         ELSE IF Router(S) = q THEN batch(Player \ {p}) ELSE <<>>]

(* sendSingleFrameToPlayer's test, in unsigned arithmetic.                 *)
TooFarInThePast(p, f) == (frame[p] - FRAMES_TO_KEEP) % UINT_RANGE > f
(* A mutant: the first of the frames is skipped.                           *)
SendFrameDataAfter(p, q, start) ==
  SetToSeq({Data(s, f, {q}) : s \in conn[p] \ {q},
                              f \in {g \in start + 1 .. frame[p] - 1 : ~TooFarInThePast(p, g)}})
(* sendFrameDataToPlayer: everything but q's own from frame start on.      *)
SendFrameData(p, q, start) ==
  SetToSeq({Data(s, f, {q}) : s \in conn[p] \ {q},
                              f \in {g \in start .. frame[p] - 1 : ~TooFarInThePast(p, g)}})

----------------------------------------------------------------------------
(* All have reached the same frame, and what they do from there on, as far *)
(* as announced, is under way.                                             *)
UnderWay == {f \in FirstFrame .. FirstFrame + RunAhead - 1 : f < MaxFrame}
Init ==
  /\ status = [p \in Player |-> "PLAYING"]
  /\ frame = [p \in Player |-> FirstFrame]
  /\ conn = [p \in Player |-> Player]
  /\ data = [p \in Player |-> (Player \X (1 .. FirstFrame - 1)) \cup ({p} \X UnderWay)]
  /\ destruct = [p \in Player |-> {}]
  /\ screen = [p \in Player |-> FALSE]
  /\ notified = [p \in Player |-> FALSE]
  /\ timedOut = [p \in Player |-> {}]
  /\ frames = [p \in Player |-> [q \in Player |-> 0]]
  /\ received = [p \in Player |-> {}]
  /\ votes = [p \in Player |-> {}]
  /\ link = [p \in Player |-> SendLocalCommand(p, Player, UnderWay)]
  /\ executed = [p \in Player |-> {}]
  /\ silent = {} /\ issued = {} /\ trouble = 0 /\ inOrder = TRUE /\ orderly = TRUE

----------------------------------------------------------------------------
(* The game, as far as it matters here.                                    *)

Ready(p) ==
  /\ frame[p] < MaxFrame
  /\ \A q \in conn[p] : <<q, frame[p]>> \in data[p]

(* Network::update asks for the frame right after it has processed what    *)
(* arrived, so a screen that is on at any other time is one of a player who*)
(* is not ready.                                                           *)
Stuck(p) == screen[p] /\ ~Ready(p)

(* The frame is executed.  The next update resets the time-outs (nextFrame)*)
(* and announces what p does a run ahead on (processCommand).              *)
ExecuteFrame(p) ==
  LET next == {f \in {frame[p] + RunAhead} : f < MaxFrame}
  IN  /\ Alive(p) /\ ~screen[p] /\ Ready(p)
      /\ executed' = [executed EXCEPT ![p] = @ \cup ({frame[p]} \X conn[p])]
      /\ frame' = [frame EXCEPT ![p] = @ + 1]
      /\ timedOut' = [timedOut EXCEPT ![p] = {}]
      /\ data' = [data EXCEPT ![p] = @ \cup ({p} \X next)]
      /\ link' = Sent(link, p, SendLocalCommand(p, conn[p], next))
      /\ UNCHANGED <<status, screen, notified, known, conn, destruct, history>>

----------------------------------------------------------------------------
(* The screen.                                                             *)

(* A mutant: the votes on frame f itself are kept.                         *)
VotesResetBefore(rec, q, f) == {v \in rec : v.by # q \/ v.frame >= f}
(* resetPlayersVotes: void what q voted up to frame f.                     *)
VotesReset(rec, q, f) == {v \in rec : v.by # q \/ v.frame > f}

(* allCommandsReady: the screen goes off, the others are told (processed   *)
(* for p itself by processDisconnectScreenOff), p's votes are void.        *)
AllCommandsReady(p) ==
  /\ Alive(p) /\ screen[p] /\ Ready(p)
  /\ screen' = [screen EXCEPT ![p] = FALSE]
  /\ link' = Sent(link, p, ToAll(conn[p], Msg("DISCONNECTSCREENOFF", p, frame[p], p)))
  /\ frames' = [frames EXCEPT ![p][p] = frame[p]]
  /\ received' = [received EXCEPT ![p] = @ \ {p}]
  /\ votes' = [votes EXCEPT ![p] = {v \in @ : v.by # p}]
  /\ UNCHANGED <<local, notified, timedOut, peers, history>>

(* update, turnOnScreen: p has been on this frame for some seconds.  On    *)
(* MaxFrame everybody is stuck in the end; it is a trouble when all live.  *)
TurnOnScreen(p) ==
  /\ Alive(p) /\ ~screen[p] /\ ~Ready(p) /\ Others(p) # {}
  /\ IF \A q \in Player : Alive(q) THEN Trouble("SCREEN") ELSE UNCHANGED trouble
  /\ screen' = [screen EXCEPT ![p] = TRUE]
  /\ notified' = [notified EXCEPT ![p] = FALSE]
  /\ timedOut' = [timedOut EXCEPT ![p] = {}]
  /\ UNCHANGED <<local, known, peers, link, silent, issued, inOrder, orderly>>

(* processDisconnectFrame for p's own frame: whoever is known to be behind *)
(* is sent what it lacks.                                                  *)
NotifyOthersOfCurrentFrame(p) ==
  /\ Alive(p) /\ Stuck(p) /\ ~notified[p]
  /\ notified' = [notified EXCEPT ![p] = TRUE]
  /\ LET news == ToAll(conn[p], Msg("DISCONNECTFRAME", p, frame[p], p))
         behind == {q \in InGame(p) \cap received[p] : q # p /\ frames[p][q] < frame[p]}
         help == [q \in Player |->
                    IF q \in behind THEN SendFrameData(p, q, frames[p][q]) ELSE <<>>]
     IN  IF frames[p][p] >= frame[p]
         THEN link' = Sent(link, p, news) /\ UNCHANGED known
         ELSE /\ link' = Sent(link, p, Both(news, help))
              /\ frames' = [frames EXCEPT ![p][p] = frame[p]]
              /\ received' = [received EXCEPT ![p] = @ \cup {p}]
              /\ votes' = [votes EXCEPT ![p] = VotesReset(@, p, frame[p] - 1)]
  /\ UNCHANGED <<local, screen, timedOut, peers, history>>

----------------------------------------------------------------------------
(* Suspicions.                                                             *)

(* Nothing is under way, and all who live sit before the screen and have   *)
(* told their frame.                                                       *)
Settled ==
  /\ \A p, q \in Player : link[p][q] = <<>>
  /\ \A p \in Player : Alive(p) /\ Others(p) # {} => Stuck(p) /\ notified[p]

(* The time-out is longer than anything else: it runs out only after things*)
(* have come to rest.                                                      *)
MinutePasses(q) ==
  /\ ~Alive(q) /\ q \notin silent /\ Settled
  /\ silent' = silent \cup {q}
  /\ UNCHANGED <<local, menu, known, peers, link, issued, trouble, inOrder, orderly>>

(* A mutant: the clocks are not reset when the screen goes up.             *)
TimeOutAtOnce(p, q) ==
  /\ Alive(p) /\ Stuck(p) /\ q \in Others(p) \ timedOut[p] /\ ~Alive(q)
  /\ timedOut' = [timedOut EXCEPT ![p] = @ \cup {q}]
  /\ UNCHANGED <<local, screen, notified, known, peers, link, history>>
(* hasPlayerTimedOut.                                                      *)
TimeOut(p, q) ==
  /\ Alive(p) /\ Stuck(p) /\ q \in (Others(p) \cap silent) \ timedOut[p]
  /\ timedOut' = [timedOut EXCEPT ![p] = @ \cup {q}]
  /\ UNCHANGED <<local, screen, notified, known, peers, link, history>>

(* applyDisconnectVote: a later vote of the same player for s replaces.    *)
VoteApplied(rec, s, q, f) ==
  {v \in rec : ~(v.by = q /\ v.slot = s)} \cup {[slot |-> s, by |-> q, frame |-> f]}

VoteForPlayerDisconnect(p, s) ==
  /\ Alive(p) /\ Stuck(p) /\ s \in Others(p) /\ Trouble("VOTE")
  /\ ~\E v \in votes[p] : v.by = p /\ v.slot = s
  /\ votes' = [votes EXCEPT ![p] = VoteApplied(@, s, p, frame[p])]
  /\ link' = Sent(link, p, ToAll(conn[p], Msg("DISCONNECTVOTE", p, frame[p], s)))
  /\ orderly' = (orderly /\ s \in silent)
  /\ UNCHANGED <<local, menu, frames, received, peers, silent, issued, inOrder>>

----------------------------------------------------------------------------
(* Disconnecting.                                                          *)

(* resendPendingCommands: what p has announced and somebody may lack has   *)
(* not been acked by all.                                                  *)
PendingCommands(p, S) ==
  {f \in FirstFrame .. frame[p] + RunAhead - 1 : f < MaxFrame /\
     \E q \in S \ {p} : <<p, f>> \notin data[q] /\ frame[q] <= f}

(* What disconnecting somebody can change.                                 *)
Peers(p, net) == [conn |-> conn[p], data |-> data[p], destruct |-> destruct[p], link |-> net]
Become(p, st) ==
  /\ conn' = [conn EXCEPT ![p] = st.conn] /\ data' = [data EXCEPT ![p] = st.data]
  /\ destruct' = [destruct EXCEPT ![p] = st.destruct] /\ link' = st.link

(* disconnectPlayer: the connection to s, with all that has not reached it,*)
(* and s's frame data are deleted; if s was the router, p turns to the next.*)
DisconnectPlayer(p, s, st) ==
  LET rest == st.conn \ {s}
      resent == IF s \in st.conn /\ Router(st.conn) = s
                THEN SendLocalCommand(p, rest, PendingCommands(p, rest)) ELSE Nothing
  IN  IF s = p THEN st
      ELSE [st EXCEPT !.conn = rest,
                      !.data = {d \in @ : d[1] # s},
                      !.link = [Sent(@, p, resent) EXCEPT ![p][s] = <<>>]]

(* sendPlayerDestruct: the frame after the one announced next.             *)
SendPlayerDestruct(p, s, st) ==
  [st EXCEPT !.destruct = @ \cup {<<frame[p] + RunAhead + 1, s>>}]

(* What the pass of updateDisconnectStatus does when it comes to slot s.   *)
SendDisconnectCommand(p, s, st) ==
  LET m == Msg("DISCONNECTPLAYER", p, GetMaxDisconnectFrame(p), s)
  IN  [st EXCEPT !.link = Sent(@, p, ToAll(st.conn, m))]
Disconnect(p, s, st) ==
  IF s \in Out(p, st.conn)
  THEN SendPlayerDestruct(p, s, DisconnectPlayer(p, s, SendDisconnectCommand(p, s, st)))
  ELSE st

(* updateDisconnectStatus: one pass over the slots, in their order; n of   *)
(* them have been looked at.  Whom it disconnects leaves fewer in the game,*)
(* so that those who are left stay on the same frame and the next router   *)
(* stays the same.                                                         *)
AfterSlots(p) ==
  LET pass[n \in 0 .. MAX_SLOTS] ==
        IF n = 0 THEN Peers(p, link) ELSE Disconnect(p, n - 1, pass[n - 1])
  IN  pass
UpdateDisconnectStatus(p) ==
  LET end == AfterSlots(p)[MAX_SLOTS]
  IN  /\ Alive(p) /\ Stuck(p) /\ notified[p] /\ Out(p, conn[p]) # {}
      /\ AllOnSameFrame(p) /\ IsLocalPlayerNextPacketRouter(p)
      /\ Become(p, end)
      /\ issued' = issued \cup ({p} \X (conn[p] \ end.conn))
      /\ UNCHANGED <<local, menu, known, silent, trouble, inOrder, orderly>>

(* A mutant: a player disconnects itself as well.                          *)
DisconnectLocalPlayerToo(p) == {}
(* disconnectLocalPlayer: whom p stays connected to.                       *)
DisconnectLocalPlayer(p) == {p}

(* quitGame, from the screen: tell the others once, and be gone.           *)
QuitGame(p) ==
  /\ Alive(p) /\ Stuck(p) /\ Trouble("QUIT")
  /\ status' = [status EXCEPT ![p] = "QUIT"]
  /\ link' = [q \in Player |->
                [Sent(link, p, ToAll(conn[p], Msg("DISCONNECTPLAYER", p, frame[p], p)))[q]
                   EXCEPT ![p] = <<>>]]
  /\ conn' = [conn EXCEPT ![p] = DisconnectLocalPlayer(p)]
  /\ data' = [data EXCEPT ![p] = {d \in @ : d[1] \in DisconnectLocalPlayer(p)}]
  /\ orderly' = FALSE
  /\ UNCHANGED <<frame, executed, menu, known, destruct, silent, issued, inOrder>>

----------------------------------------------------------------------------
(* Receiving.  Each handler says what becomes of everything that messages  *)
(* can change, given the links without the message.                        *)

(* processFrameInfo and sendRemoteCommand.                                 *)
ReceiveFrameData(p, m, net) ==
  /\ IF m.frame < frame[p]
     THEN link' = net /\ UNCHANGED data
     ELSE /\ data' = [data EXCEPT ![p] = @ \cup {<<m.player, m.frame>>}]
          /\ link' = Sent(net, p, [q \in Player |->
                       IF q \in m.relay \cap Others(p) THEN <<Data(m.player, m.frame, {q})>> ELSE <<>>])
  /\ UNCHANGED <<conn, destruct, known>>

(* processDisconnectFrame.                                                 *)
ProcessDisconnectFrame(p, m, net) ==
  /\ IF frames[p][m.player] >= m.frame
     THEN link' = net /\ UNCHANGED known
     ELSE /\ frames' = [frames EXCEPT ![p][m.player] = m.frame]
          /\ received' = [received EXCEPT ![p] = @ \cup {m.player}]
          /\ votes' = [votes EXCEPT ![p] = VotesReset(@, m.player, m.frame - 1)]
          /\ link' = IF m.frame < frames[p][p]
                     THEN Sent(net, p, [Nothing EXCEPT ![m.player] = SendFrameData(p, m.player, m.frame)])
                     ELSE net
  /\ UNCHANGED peers

(* processDisconnectScreenOff.                                             *)
ProcessDisconnectScreenOff(p, m, net) ==
  /\ IF m.frame >= frames[p][m.player]
     THEN /\ frames' = [frames EXCEPT ![p][m.player] = m.frame]
          /\ received' = [received EXCEPT ![p] = @ \ {m.player}]
          /\ votes' = [votes EXCEPT ![p] = VotesReset(@, m.player, m.frame)]
     ELSE UNCHANGED known
  /\ link' = net
  /\ UNCHANGED peers

(* processDisconnectVote: the votes of players who are out do not count.   *)
ProcessDisconnectVote(p, m, net) ==
  /\ votes' = [votes EXCEPT ![p] =
                 IF m.player \in InGame(p) THEN VoteApplied(@, m.slot, m.player, m.frame) ELSE @]
  /\ link' = net
  /\ UNCHANGED <<frames, received, peers>>

(* A mutant: whoever quits is disconnected, and that is all.               *)
ProcessDisconnectPlayerOnly(p, m, net) ==
  Become(p, DisconnectPlayer(p, m.slot, Peers(p, net))) /\ UNCHANGED known
(* processDisconnectPlayer: whoever has quit is destroyed by everybody.    *)
ProcessDisconnectPlayer(p, m, net) ==
  LET st == Peers(p, net)
  IN  /\ Become(p, DisconnectPlayer(p, m.slot,
                    IF m.player = m.slot THEN SendPlayerDestruct(p, m.slot, st) ELSE st))
      /\ UNCHANGED known

(* doRelay, for the k-th message under way from q; `again' leaves it there.*)
(* Nothing from a player no longer connected is processed.                 *)
Receive(p, q, k, again) ==
  LET m == link[q][p][k]
      net == IF again THEN link ELSE [link EXCEPT ![q][p] = RemoveAt(@, k)]
  IN  /\ Alive(p)
      /\ \/ m.player \notin conn[p] /\ link' = net /\ UNCHANGED <<peers, known>>
         \/ /\ m.player \in conn[p]
            /\ \/ m.type = "FRAMEDATA" /\ ReceiveFrameData(p, m, net)
               \/ m.type = "DISCONNECTFRAME" /\ ProcessDisconnectFrame(p, m, net)
               \/ m.type = "DISCONNECTSCREENOFF" /\ ProcessDisconnectScreenOff(p, m, net)
               \/ m.type = "DISCONNECTVOTE" /\ ProcessDisconnectVote(p, m, net)
               \/ m.type = "DISCONNECTPLAYER" /\ ProcessDisconnectPlayer(p, m, net)
      /\ UNCHANGED <<local, menu, silent, issued>>

ReceiveNext(p, q) ==
  /\ link[q][p] # <<>> /\ Receive(p, q, 1, FALSE)
  /\ UNCHANGED <<trouble, inOrder, orderly>>

ReceiveOutOfOrder(p, q) ==
  /\ Trouble("DISORDER")
  /\ \E k \in DOMAIN link[q][p] : \E again \in BOOLEAN :
       (k > 1 \/ again) /\ Receive(p, q, k, again)
  /\ inOrder' = FALSE /\ UNCHANGED orderly

----------------------------------------------------------------------------
(* A player's machine stops; what it had sent may still arrive, or not.    *)
Die(p) ==
  /\ Alive(p) /\ Trouble("DEATH")
  /\ status' = [status EXCEPT ![p] = "DEAD"]
  /\ link' = [q \in Player |-> [link[q] EXCEPT ![p] = <<>>]]
  /\ UNCHANGED <<frame, executed, menu, known, peers, silent, issued, inOrder, orderly>>

Lose(q, p) ==
  /\ ~Alive(q) /\ link[q][p] # <<>>
  /\ link' = [link EXCEPT ![q][p] = <<>>]
  /\ UNCHANGED <<local, menu, known, peers, history>>

Next ==
  \E p \in Player :
    \/ ExecuteFrame(p)
    \/ AllCommandsReady(p) \/ TurnOnScreen(p) \/ NotifyOthersOfCurrentFrame(p)
    \/ UpdateDisconnectStatus(p)
    \/ QuitGame(p) \/ Die(p) \/ MinutePasses(p)
    \/ \E q \in Player :
         \/ TimeOut(p, q) \/ VoteForPlayerDisconnect(p, q)
         \/ ReceiveNext(p, q) \/ ReceiveOutOfOrder(p, q) \/ Lose(p, q)

(* The living run their loops and retry what they have sent until it is    *)
(* acked; whoever is dead times out in the end.                            *)
Fairness ==
  \A p \in Player :
    /\ WF_vars(ExecuteFrame(p))
    /\ WF_vars(AllCommandsReady(p)) /\ WF_vars(TurnOnScreen(p))
    /\ WF_vars(NotifyOthersOfCurrentFrame(p)) /\ WF_vars(MinutePasses(p))
    /\ WF_vars(\E q \in Player : TimeOut(p, q))
    /\ WF_vars(UpdateDisconnectStatus(p))
    /\ WF_vars(\E q \in Player : Alive(q) /\ ReceiveNext(p, q))
    /\ WF_vars(\E q \in Player : Lose(p, q))

Spec == Init /\ [][Next]_vars
FairSpec == Spec /\ Fairness

----------------------------------------------------------------------------
(* Properties.                                                             *)

TypeOK ==
  /\ status \in [Player -> {"PLAYING", "DEAD", "QUIT"}]
  /\ frame \in [Player -> Frame]
  /\ conn \in [Player -> SUBSET Player] /\ \A p \in Player : p \in conn[p]
  /\ data \in [Player -> SUBSET (Player \X Nat)]
  /\ destruct \in [Player -> SUBSET (Nat \X Player)]
  /\ screen \in [Player -> BOOLEAN] /\ notified \in [Player -> BOOLEAN]
  /\ timedOut \in [Player -> SUBSET Player]
  /\ frames \in [Player -> [Player -> Nat]] /\ received \in [Player -> SUBSET Player]
  /\ votes \in [Player -> SUBSET Vote]
  /\ link \in [Player -> [Player -> Seq(Message)]]
  /\ executed \in [Player -> SUBSET (Frame \X Player)]
  /\ silent \in SUBSET Player /\ issued \in SUBSET (Player \X Player)
  /\ trouble \in Nat /\ inOrder \in BOOLEAN /\ orderly \in BOOLEAN

(* A vote counts in one frame: once the others know that the voter is past *)
(* that frame, or has its screen off again, the vote is off the record.    *)
NoStaleVote ==
  inOrder => \A p \in Player : \A v \in votes[p] :
    v.frame >= frames[p][v.by] + (IF v.by \in received[p] THEN 0 ELSE 1)

(* The players work out one by one who the next router is; never do two of *)
(* them, both still there, each disconnect and destroy the same player.    *)
OneIssuer ==
  orderly => \A i, j \in issued : Alive(i[1]) /\ Alive(j[1]) /\ i[2] = j[2] => i = j

(* "disconnecting player on the wrong frame!!!": whoever disconnects       *)
(* a player does so when all that are left really stand on its own frame,  *)
(* not only as far as it has heard - if one player is lost, none quits and *)
(* all vote for none but those who are gone.                               *)
AtMostOneGone == \A s, t \in Player : Alive(s) \/ Alive(t) \/ s = t
DisconnectedTogether ==
  [][inOrder /\ orderly /\ AtMostOneGone =>
       \A i \in issued' \ issued : \A q \in conn'[i[1]] : Alive(q) => frame[q] = frame[i[1]]]_vars

(* No desync: players who are still connected to each other have executed  *)
(* the commands of the same players in every frame both are past, those of *)
(* the players they have lost included.  That takes that nobody can get the*)
(* missing commands before it is told whom to disconnect.  A link in order *)
(* does it among three; with four, commands come over another link.  And   *)
(* see RightFrame.                                                         *)
Together(p, q) == Alive(p) /\ Alive(q) /\ p \in conn[q] /\ q \in conn[p]
SameExecution ==
  inOrder /\ orderly /\ Cardinality(Player) <= 3 =>
    \A p, q \in Player : Together(p, q) =>
      \A f \in Frame : f < frame[p] /\ f < frame[q] =>
        \A s \in Player : <<f, s>> \in executed[p] <=> <<f, s>> \in executed[q]

(* "disconnecting player on the wrong frame!!!", of the receiver: whoever  *)
(* is told to disconnect a player is on the frame it is told.              *)
RightFrame ==
  [][\A p, q \in Player :
       LET m == Head(link[q][p])
       IN  ReceiveNext(p, q) /\ m.type = "DISCONNECTPLAYER" /\ q \in conn[p]
             => m.frame = frame[p]]_vars

(* Whoever is gone for somebody is destroyed by a command of somebody: its *)
(* units do not stay behind, whoever has disconnected it and for whatever  *)
(* reason.                                                                 *)
GoneAreDestroyed ==
  \A p \in Player : Alive(p) =>
    \A s \in Player \ conn[p] : \E q \in Player : \E d \in destruct[q] : d[2] = s

(* The game goes on: no player waits for ever for somebody who has died, or*)
(* for the next router; unless the others have disconnected it.            *)
Rejected(p) == \E q \in Player : Alive(q) /\ p \notin conn[q]
GameGoesOn ==
  \A p \in Player : <>(frame[p] = MaxFrame \/ ~Alive(p) \/ Rejected(p))
=============================================================================
