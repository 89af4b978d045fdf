# The multiplayer network in TLA+

This directory holds TLA+ models of the multiplayer network of the game client (Command & Conquer
Generals and Zero Hour, the GeneralsOnline build: `GENERALS_ONLINE`, `RTS_ZEROHOUR`,
`RETAIL_COMPATIBLE_NETWORKING` off), the TLC configurations that check them on small instances,
and proofs, checked by TLAPS, that what matters most holds for every number of players, every run
ahead and every length of a game.

The game is a deterministic simulation that runs on every player's machine. The machines exchange
only the players' commands, and stay equal because every one of them executes the same commands in
the same frame in the same order. Whether they do is decided in about three thousand lines under
`src/Core/GameEngine/Source/GameNetwork`: that is the core logic modelled here, together with the
protocol by which the machines of a local network agree on a game before it starts. Paths below are
relative to that directory unless they begin with `src/`.

## 1. The system

### 1.1 Components

| Component | Files | State | Operations |
|---|---|---|---|
| Game logic and game client | `src/GeneralsMD/Code/GameEngine/Source/GameLogic`, `.../GameClient` | the world; the frame counter | executes the command list of a frame when `isFrameDataReady`; puts a FRAME_TICK and the user's commands on `TheCommandList` |
| Network | `Network.cpp` | local status, run ahead, last execution frame, last frame completed, last frame | `update`: take the commands, decide the frame they execute in, announce completed frames, execute a frame that is ready |
| ConnectionManager | `ConnectionManager.cpp` | one Connection and one FrameDataManager per slot, packet router, pending, relayed and wrapped commands | `doRelay`, `processNetCommand`, `sendLocalCommand`, `sendRemoteCommand`, `ackCommand`, `processAck*`, `allCommandsReady`, `getFrameCommandList`, leaving, router change, resending frames |
| FrameDataManager, FrameData | `FrameDataManager.cpp`, `FrameData.cpp` | a ring of records: commands, their number, the number announced | add a command, set a count, ask whether a frame is ready, reset, zero |
| Connection | `Connection.cpp` | send queue, retry time, quitting flag | `sendNetCommandMsg`, `doSend`, `processAck`, `clearCommandsExceptFrom` |
| NetCommandList | `NetCommandList.cpp`, `NetCommandRef.cpp`, `NetCommandMsg.cpp` | a sorted list, the element inserted last | `addMessage`, `removeMessage`, `appendList`, `findMessage` |
| NetCommandWrapperList | `NetCommandWrapperList.cpp`, `NetPacket.cpp` | commands being put together from chunks | `processWrapper`, `getReadyCommands`, `ConstructBigCommandPacketList` |
| NetPacket, NetPacketStructs | `NetPacket.cpp`, `NetPacketStructs.cpp` | none | commands to bytes and back |
| Transport | `Transport.cpp`, `UDPTransport.cpp`, `udp.cpp`, GeneralsOnline `NextGenTransport.cpp` | fixed buffers of packets to send and received | `queueSend`, `doSend`, `doRecv` |
| DisconnectManager | `DisconnectManager.cpp` | disconnect state, time-outs, votes, frames of the players | `update`, `allCommandsReady`, `updateDisconnectStatus`, `processDisconnect*`: bring everybody to one frame, disconnect whoever is gone |
| FrameMetrics | `FrameMetrics.cpp` | averages of latency, frame rate and cushion | feed the choice of the run ahead |
| File transfer | `FileTransfer.cpp`, part of `ConnectionManager.cpp` | progress per player | send a map before the game |
| LAN lobby | `LANAPI.cpp`, `LANAPIhandlers.cpp`, `LANAPICallbacks.cpp`, `LANGameInfo.cpp`, the menu `LanGameOptionsMenu.cpp` | the game one is in, its slots, options and accepts; the pending action and its time-out; the countdown | `Request*`: what the user wants, as a broadcast; `handle*` and `On*`: what was received; `update`: resend, time out, count down |
| Other lobbies and set-up | `GameInfo.cpp`, `NAT.cpp`, `FirewallHelper.cpp`, `GameSpy/`, GeneralsOnline | slots, options, sessions | find, join and start a game |
| Everything else | `src/Core`, `src/GeneralsMD`, `src/Generals`, `src/Platform`, tools | | simulation, rendering, audio, tools, platform layers |

### 1.2 How they interact

One machine runs one thread of this code. The game loop calls `Network::update`, which

1. takes the commands off `TheCommandList` (`GetCommandsFromCommandList`). The first message of a
   new frame makes it announce, by FRAMEINFO messages, how many commands the local player has for
   every frame it will add nothing to any more (`processCommand`, `processFrameTick`). A command
   of the user is scheduled for the execution frame, `runAhead` frames from now
   (`getExecutionFrame`, `sendLocalGameMessage`);
2. on the packet router, computes a new run ahead every few seconds and sends it as a command;
3. calls `ConnectionManager::update` (`liteupdate`): `doRelay` acks, processes and relays what has
   arrived, and `doSend` of every connection sends what is not acked;
4. executes the current frame if the commands of every player for it are there
   (`AllCommandsReady`), by joining the players' lists (`getFrameCommandList`) and handing them to
   the game logic, which then counts its frame up.

All traffic passes through one of the players, the packet router. A client sends a command with a
bit mask of the players it is for; the router adds it to its own frame data and relays it. The
router acks in stage 1 ("I have it, stop resending") and, when all those it relayed to have acked,
in stage 2 ("all have it, forget it"); a receiver that relays to nobody acks both at once. What a
client sends is kept in its pending list until stage 2, so that it can be sent to another router.

Who leaves sends PLAYERLEAVE as a command for a frame of its own choice, and counts for all frames
up to it; all execute it there (`processPlayerLeave`), the leaver included, which then only waits
until what it sent is acked (`endOfGameCheck`). If it was the router, the next player in the
fallback plan takes over, and everybody sends it what is pending.

Before all this the machines agree on a game. In the LAN lobby the host owns the slots: the clients
broadcast what they want, the host decides and broadcasts the whole table, and every client replaces
its own by it. All accept, the host counts down, and broadcasts MSG_GAME_START; on it each machine
makes its `Network` and parses the list of players out of its own table (`parseUserList`).

### 1.3 What is hard

Machines share nothing but messages, and packets are lost, delayed, reordered and, by retries,
duplicated. The machines are in different frames at any moment. The run ahead changes in the
middle of a game, while commands scheduled and counts announced under the old one are under way.
Frames share the records of a ring, so that a late packet could speak of a frame long past. Acks
are themselves never acked. Every one of these makes a *desync*: two machines that execute
different commands, which the players see minutes later as a mismatch of CRCs, and which no unit
test reaches. `PROJECT.json` lists the hazards one by one, at their lines, with the properties
that cover them, and those no property covers yet.

### 1.4 What makes each part correct

* *Frame data*: a record never mixes two frames; what was executed can be sent again for
  `FRAMES_TO_KEEP` frames; the ring cannot be told from a record per frame.
* *Lockstep*: all machines execute the same commands in each frame; announced counts are true; no
  machine runs away from the others; everybody is in agreement on the run ahead; the game goes on.
* *Delivery*: each command reaches each player, once; nothing is forgotten while somebody lacks
  it; resending comes to an end.
* *Command list*: the order depends on the commands only, not on their arrival.
* *Wrapped commands*: what is put together is what was cut up.
* *Disconnecting*: all who stay drop a player in the same frame and have executed the same until
  then; one of them, and only one, issues the command; the votes that count are those of the present
  frame; the player's units are destroyed; the game goes on.
* *Leaving*: all who stay see a player leave in the same frame and have executed the same; nothing that
  somebody lacks goes with the leaver; the game goes on under the next router.
* *LAN lobby*: no game starts without everybody's consent to it; all who start have the same players
  and options; in the end host and clients agree on who is in the game, and nobody waits for a host
  who is gone.

## 2. The modules

    FrameData ──────┬── FrameWindow (abstract)   LockstepGame (abstract)   Broadcast (abstract)
                    ├── FrameDataManager ⊑ FrameWindow          │                 │
                    └── Lockstep ⊑ LockstepGame ────────────────┘     Delivery ⊑ Broadcast
    NetCommandList      NetCommandWrapperList      Disconnect      LANAPI      Leave ⊑ LeavingGame (abstract)

### 2.1 `FrameData`

Pure operators on one record (`FrameData.cpp`) and on a ring of them (`FrameDataManager.cpp`).
A record has the set of commands, their number and the number announced; `Unknown` is the -1 the
code keeps in an unsigned integer, which compares as larger than everything (`NeedsResend`). The
list of a record is a set: `addCommand` refuses a command equal to one present, and the order is the
matter of `NetCommandList`. `StartRing` is what `Network::parseUserList` makes of a new ring.

### 2.2 `FrameDataManager` and `FrameWindow`

`FrameDataManager` gives one ring a state of its own and drives it as the connection manager does:
commands and counts for any frame from the current one to `Ahead` frames away, again and again,
in excess of the announced count too; the reset of a frame that holds too much; execution, which
resets the record of the frame `FRAMES_TO_KEEP` before. `FrameWindow` is the same with a record per
frame number and no ring. `RingIsAWindow` is the refinement: the record of frame *f* is the ring's
record at *f* modulo the length, for the frames of the live window, and a blank one elsewhere.

### 2.3 `Lockstep` and `LockstepGame`

`Lockstep` is the state of every player's `Network` and `ConnectionManager` as far as frames are
concerned, in a game nobody leaves.

| Model | Code |
|---|---|
| `frame[p]` | `TheGameLogic->getFrame()` on p's machine |
| `localStatus`, `runAhead`, `lastExecutionFrame`, `lastFrameCompleted`, `lastFrame` | the members of `Network` of that name |
| `frameData[p][q]` | p's `m_frameData[q]` |
| `net[p]`, `late[p]` | commands in queues and packets on their way to p, for the first time and again |
| `executed`, `issued` | history, for the properties |
| `SendLocalGameMessage` | `GetCommandsFromCommandList`, `sendLocalGameMessage`, `sendLocalCommand` |
| `UpdateRunAhead` | `updateRunAhead` on the router; the value is any that its clamp lets through |
| `FrameTick` | `processCommand` at the first message of a frame, with its `processFrameTick` calls |
| `ReceiveNew`, `ReceiveAgain` | one command in `doRelay`: `processNetCommand`, `processFrameInfo`, `sendRemoteCommand` |
| `StartGame` | frame 0, which passes before the network is in the game |
| `ExecuteFrame` | `AllCommandsReady`, `RelayCommandsToCommandList`, `processRunAheadCommand`, and the game logic's `m_frame++` |

The steps of `Network::update` are actions of their own and may interleave in any order, with one
constraint of the code kept: a frame is executed after its frame tick (`lastFrame[p] = frame[p]`),
because the game client puts a FRAME_TICK on the command list in every pass and
`GetCommandsFromCommandList` comes first in `update`. The two run-ahead commands that
`updateRunAhead` sends with one ID differ in the frame rate only, and are one command here.
The special case of a run ahead of zero in a game without remote players is left out: with one
machine there is nobody to agree with.

A frame info has no ID in the model and is known by its frame: `setFrameCommandCount` overwrites,
so two for one frame could disagree only by their value, which is a field of the message.

`LockstepGame` is what the players are promised: one script of commands by frame, played frame by
frame by everybody, no frame changing once somebody has played it, nobody further ahead than the
largest run ahead.

`NobodyWaitsInVain` is the safety side of the game's going on: what a player lacks for its next frame is on its
way to it or to the router for it, or its sender is behind and has yet to announce the frame. A late copy
taken for new, a command dropped too early or not relayed, a count not announced make it false long before
anybody stands still.

### 2.4 `Delivery` and `Broadcast`

`Delivery` is what lies under `net` in `Lockstep`: send queues, acks and retries.

| Model | Code |
|---|---|
| `queue[p][q]` | p's `m_connections[q]->m_netCommandList`, without acks |
| `pending[p]` | p's `m_pendingCommands` |
| `relayed[c]` | the relay mask of c in the router's `m_relayedCommands`, `{}` when it has no entry |
| `held[p]` | what p has taken in (frame data, or the handler of the command) |
| `net` | packets under way, one command or ack each |
| `SendLocalCommand` | `sendLocalCommand`, `sendLocalCommandDirect` |
| `DoSend` | `Connection::doSend` for one command |
| `ReceiveCommand` | `doRelay`: `ackCommand`, then `processNetCommand` and `sendRemoteCommand` |
| `ReceiveAckStage1`, `ReceiveAckStage2` | `processAck`, `processAckStage1`, `processAckStage2`, `Connection::processAck` |
| `Lose` | the network |

Acks are not kept in the queue: `doSend` removes what needs no ack as soon as it is sent. A command
that is out of date is dropped after having been acked; it can be out of date only for somebody who
has executed its frame, which by `SameCommandsEverywhere` means with it, so `OutOfDate` asks for
`c \in held`. `MaxSent` bounds the commands sent; no variable and no step of one command
depends on another, so that one at a time, of each kind in turn, shows what there is to see.
`Broadcast` is the promise: each command gets to each player, once, and eventually.

### 2.5 `NetCommandList`

`addMessage` as the code does it: first the place behind the element inserted last
(`FollowsLastInserted`), otherwise the search by type, player and sort number (`Place`), and the
comparison with one neighbour that keeps duplicates out (`AlreadyThere`). The commands are those of a
frame's list, which have IDs; the lists of acks in a send queue are not modelled. The shortcuts for a type
beyond either end find what the search finds and are not told apart. Command IDs count modulo
`ID_SPAN` and are compared by their distance, as in `isCommandIdNewer`. Every player counts its own, so
`Ids` says for each which it uses; `Ordered` is the one sequence of a set of commands the list is compared with.
`GetFrameCommandList` joins what is there of each slot (`AppendList`), as the execution of a frame does; both go
on command by command and slot by slot as recursive functions.

### 2.6 `NetCommandWrapperList`

The chunks of big commands, in any order and repeated, reassembled in nodes found by command ID.
`Gap` says how far apart the players' ID counters are: their counters are independent in the code,
so both a gap and none can occur.

### 2.7 `Disconnect`

`Disconnect` is what happens when somebody's commands do not come: the disconnect screen, the
time-outs and votes, and the end of a connection.

| Model | Code |
|---|---|
| `screen`, `notified`, `timedOut` | `DisconnectManager`: `m_disconnectState`, `m_haveNotifiedOtherPlayersOfCurrentFrame`, what `hasPlayerTimedOut` says |
| `frames`, `received`, `votes` | `m_disconnectFrames`, `m_disconnectFramesReceived`, `m_playerVotes` |
| `conn`, `data` | the slots with a connection; the frames complete in `m_frameData` |
| `destruct` | the DESTROYPLAYER commands a player has scheduled |
| `link[p][q]` | what p has sent q and q has not received, oldest first |
| `status`, `executed`, `issued`, `silent`, ... | the players' machines, and history for the properties |
| `TurnOnScreen`, `AllCommandsReady` | `DisconnectManager::update`, `turnOnScreen`, `allCommandsReady` |
| `NotifyOthersOfCurrentFrame` | the first half of `updateDisconnectStatus`, and the local share of `processDisconnectFrame` |
| `UpdateDisconnectStatus`, `AfterSlots` | one pass of `updateDisconnectStatus` over the `MAX_SLOTS` slots: `sendDisconnectCommand`, `disconnectPlayer`, `sendPlayerDestruct` for each player who is out |
| `VoteForPlayerDisconnect`, `QuitGame` | the buttons of the screen: `voteForPlayerDisconnect`, `quitGame` |
| `Receive` | `doRelay` with `processNetCommand`, `processFrameInfo` and the `processDisconnect*` functions |
| `ExecuteFrame` | a frame, and the `nextFrame` and `processCommand` that follow |
| `TimeOut` | `hasPlayerTimedOut` |

The commands of one player in one frame and the count that announces them, which `Lockstep` takes
apart, are one message here, and the run ahead is constant. A link is a queue; a loss and a retry show
as a message overtaken by others or received again (`ReceiveOutOfOrder`). What is on its way to a player when
its connection is deleted is lost. Time is a relation: a living player never times out, for its
keep-alives come twice a second and the time-out takes a minute; a dead one times out
(`MinutePasses`) only when everything that could still happen within a minute has (`Settled`).

Most of the following properties hold only as far as the code's own assumptions do, which the
history variables say: `inOrder`, no message has been overtaken or repeated; `orderly`, nobody has
quit from the screen and nobody has been voted against who was not silent. Section 5 says what happens beyond them.

* `NoStaleVote` (in order): a vote on record is for a frame its voter is not known to have left.
* `OneIssuer` (orderly): no two players each disconnect and destroy the same third.
* `DisconnectedTogether` (both, and one player lost): whoever disconnects somebody does so
  with all who are left on its frame.
* `SameExecution` (both, and three players): they have executed the same, the lost player's last
  commands included. With a fourth player commands reach a player over another's link, before it is told to
  disconnect; so they do when a message is overtaken, and when two are lost at once, of whom the first is
  disconnected before the second.
* `RightFrame` is what the code asserts: whoever is told to disconnect a player is on the frame it is told. It does not
  hold, see section 5.
* `GoneAreDestroyed` (always): whoever is gone for anybody is destroyed by somebody's command.
* `GameGoesOn`: nobody who lives waits for ever, unless the others have disconnected it.

### 2.8 `Leave` and `LeavingGame`

`Leave` is a player's leaving a game that goes on, with the change of the packet router it may bring.

| Model | Code |
|---|---|
| `localStatus`, `frame` | `m_localStatus`, `TheGameLogic->getFrame()` |
| `plan[p]` | `m_packetRouterFallback` and, its first, `m_packetRouterSlot`: the players p has not seen leave |
| `leaveFrame[p]` | the execution frame of p's PLAYERLEAVE |
| `data[p]` | whose commands of which frame, with their count, are in p's `m_frameData` |
| `queue[p][q]` | p's `m_connections[q]->m_netCommandList` |
| `pending[p]`, `relayed[p]` | `m_pendingCommands`, `m_relayedCommands` with their masks |
| `HandleLocalPlayerLeaving` | `processCommand` of MSG_CLEAR_GAME_DATA, `handleLocalPlayerLeaving` and the two `processFrameTick` |
| `ExecuteFrame` | `allCommandsReady`, then `processPlayerLeave` and `disconnectPlayer` for each PLAYERLEAVE in the frame (`setQuitting`, `setQuitFrame`, `clearCommandsExceptFrom`, the next router, `resendPendingCommands`), the end of old frame data (`Kept`), and the frame tick that follows |
| `Receive` | `doRelay` for one command: `ackCommand`, `processNetCommand`, `sendRemoteCommand`, and `processAck` where the ack arrives |
| `CatchUp` | the end of a wait in different frames: `processDisconnectFrame`, `sendFrameDataToPlayer` |
| `GiveUp` | `doSend` of a quitting connection after `MaxQuitFlushTime` |
| `EndOfGameCheck` | `endOfGameCheck`, `canILeave`, `disconnectLocalPlayer` |

A player's commands of one frame and their count are one message, as in `Disconnect`, and the run
ahead is constant; a message and its ack are one step, for what becomes of lost acks is the matter of
`Delivery`. A message may stay under way as long as the run likes. Where an ack goes is kept as
the code has it: to whom the receiver takes for the router, who need not be who has sent the message
when they disagree for a frame or two on who that is. That a connection is closed for one and
still open for the other, that pending commands outlive their frames, and that a new router already past a frame
acks what it is sent for it and drops it, all follow.

`LeavingGame` is what the players are promised: one cast for each frame, settled by whoever comes to it first; all
execute the commands of just these players; who has gone stays gone; and nobody goes on without those who are
still in. The cast of a frame somebody has executed is whose commands that were, and of one nobody has executed,
whom those who have come to it have not seen leave.

* `PlaysOneGame`: `Leave` implements `LeavingGame` - no desync, and all see a player leave in the same frame.
  `SameExecution` says the same state by state, and is proved.
* `NobodyWaitsInVain`: as long as the first router stays, what a player lacks for its frame is on its way to it, or
  is yet to be announced by somebody who is behind. (When the router leaves it may be pending: that is `NothingForgotten`.)
* `KeptForCatchUp`: whoever is behind can be sent all that it lacks, a leaver's last frames included.
* `NothingForgotten`: what a player lacks is on its way, or pending where the router's leave, yet to be
  seen, makes it be sent again, or has been taken over (`TakenOver`): somebody past the first router's leave has
  it, and has executed it, or is the next router, or relays through its originator, or has left the game. A command
  taken over without being executed is sent to nobody until the disconnect screen comes up; that takes four
  players, see section 5.
* `NobodyLeftBehind`: once a leave has been seen by all, those who stay get through all executed frames;
  somebody has all there is of the next, and the others have it or can be helped as soon as that one is ahead.
* `ClientsLeaveInOrder`: whoever is not the router gets out, seen by all.

### 2.9 `LANAPI`

`LANAPI` is one game of the LAN lobby between its creation and its start: a host, and the machines
that may join it.

| Model | Code |
|---|---|
| `game`, `timer` | the host's `m_currentGame` (set up, in progress, gone); `m_gameStartTime` |
| `slots`, `open` | the host's `m_LANSlot`: who is in one, who has accepted, the revision of the options; the open ones |
| `screen[c]` | in which menu c is, its `m_inLobby` and whether its `m_currentGame` counts as in progress |
| `pendingAction[c]`, `table[c]` | `m_pendingAction`; c's own `m_LANSlot` |
| `toHost`, `toClient` | messages under way, in order |
| `HostChanges`, `Kick`, `OpenOrClose`, `StartPressed`, `HostLeaves` | the host's menu |
| `HandleRequestJoin` ... `HandleRequestGameLeave` | `handle*` and `On*` on the host |
| `RequestGameJoin` ... `RequestGameLeave`, `SetInactive` | the client's menu and `setIsActive` |
| `HandleJoinAccept` ... `HandleGameAnnounce` | `handle*` and `On*` on a client |
| `RequestGameStart`, `Resend`, `DropPlayer`, `TimeOut`, `BailOut` | `LANAPI::update` |

The options are a revision number: what they are does not matter, but whether two machines
have the same does. `Unknown` is what a client has chosen and shows before the host has agreed. Periodic
messages are shown where they change something (`Resend`, `HandleGameAnnounce`), or where their absence does
(`DropPlayer`, `BailOut`): a single loss is a step (`Lose`), a loss of all for a minute or more is not.

* `CountdownAccepted`: while the host counts down every player's accept stands, whatever arrives.
* `StartedAgree`: who starts, and has heard the last options sent to it, has the host's players and options.
* `LobbyAgrees`: in the end host and clients agree, whatever was lost.
* `NobodyWaitsForTheHost`: when the host leaves, or the message that says so is lost, all get out.

## 3. The runs

Every run takes three minutes or a little more, most of them seconds; the bounds are constants of the modules.

| Run | What it shows |
|---|---|
| `ring` | `MAX_FRAMES_AHEAD = 2`: a ring of six records, seven frames, so every index is reused by a later frame while the frames kept for resending are alive. The refinement implies `NoStrayCommands`, which is proved and has no run. One command ID per frame with counts 0 and 1 gives under-, over- and exactly announced frames. Only a remote player's ring is run; the proofs cover the local one as well |
| `lockstep_shrink` | the run ahead starts at its largest value, three, and may go to one and back: the case `getExecutionFrame` exists for. Two commands of either kind. A third player, for whom the router relays, is left to the proofs, which hold for any number; they cover `BoundedLead` as well, which the abstract game implies |
| `lockstep_wrap` | nine frames on six records, one command, one message that keeps arriving: late copies meet a record that is in use again; nobody waits in vain; and, fairly scheduled, every frame is executed |
| `list_order` | two types, two players with a free slot between them, three IDs each, of which one's wrap around and the other's have a gap; every order of adding, with repetitions and removals in between |
| `chunks` | two players, commands of two and three chunks |
| `delivery` | four players, so that the router waits for two acks; a relayed or a direct command of a client or one of the router, with up to three packets lost and two repeated besides any delay; safety and, under fairness, liveness |
| `disconnect` | three players, each on one of two frames; any two troubles of any kind: a death, a quit, a vote, a screen that comes up while all live, a message out of order |
| `disconnect_live` | the same under fairness, three frames, one death, vote, screen or disorder: the game goes on |
| `disconnect_order` | *expected violation*, see 5: one death and one message out of order |
| `leave` | three players, of whom the router 0 and its successor 1 may leave, either alone or both in the same frame, in any order of what they send, while all are up to two frames apart. With a run ahead of two the commands of the frame after the leave are under way when it is executed: only then is sending pending commands again needed. All play one game, and nobody waits in vain while the router stays. The game goes on to the frame after the leave |
| `leave_router` | *expected violation*, see 5 |
| `lobby` | a host and two clients, starting from any agreed table; three things done by users, in any place and at any moment, and one lost message; safety and, under fairness, liveness |

The bounds: frames, commands and repeated or lost packets are bounded by constants that appear as
guards (`MaxFrame`, `MaxCommands`, `MaxLate`, `MaxSent`, `MaxLost`, `MaxAgain`, `MaxTrouble` of the kinds in
`Troubles`, the `Leavers`, until `LeaveBy`, `MaxMoves`, `MaxOptions`). `MAX_FRAMES_AHEAD` and the
run ahead are shrunk with the ring, so that the ring wraps several times in a few frames. Every
property of every run has a mutant in `PROJECT.json`: a plausible slip in the code which the run
then finds. `Disconnect` ends with a frame
(`MaxFrame`) on which all are stuck for good; to be one frame apart, with the commands of the next frame
half distributed, is what its algorithms are about, and two frames are enough for it. A fourth player is beyond a run
of minutes; `Leave` with four players, of whom up to three leave, was simulated over millions of states, which
is where `TakenOver` comes from. `Leave` starts with all on one frame behind the first `FRAMES_TO_KEEP`, and with two leavers
both the router and its successor can be gone while the last one is still behind. Leaves in different
frames and frames that reach a quit frame take a longer game than a run of minutes allows; `PlaysOneGame`, `SameExecution`,
`KeptForCatchUp`, `NothingForgotten` and `NobodyWaitsInVain` are proved for them. (With a run ahead of one, `LeaveBy = FirstFrame + 1` and `MaxFrame = FirstFrame + 4` two
successive leaves pass all the run's properties as well, in four minutes.) Three moves in `LANAPI` are enough for a join, an accept and a leave,
or for a change, an accept and a start to cross, each with a loss. Deadlock is not checked where the bounds end the game or all has been delivered.

### Fairness

`Lockstep`: weak fairness of `FrameTick`, `StartGame` and `ExecuteFrame` of each player - the game
loop calls `update` on every machine for ever - and of `ReceiveNew`, as a connection resends a
command until it is acked. Not of users' commands, run-ahead changes or repeated copies. One fairness condition for
all messages to a player is enough for the two players of the run: nothing is relayed between them. With three the router
could relay a copy over and over while another message starves, and each message would need its own; there
`NobodyWaitsInVain` and `NobodyIsStuck`, which are proved for any number of players, say what can be said
without fairness.
`Delivery`: weak fairness of `DoSend` - `update` calls `doSend` on every connection, and a command
is due again after the retry time - and of the arrival of a packet that is not lost; `MaxLost` bounds
how many are. `NetCommandWrapperList`: weak fairness for each chunk, resent until acked, and for
taking out complete commands at the end of each `doRelay`.
`Disconnect`: weak fairness of what the update of a living player does by itself - `ExecuteFrame`,
`AllCommandsReady`, `TurnOnScreen`, `NotifyOthersOfCurrentFrame`, `UpdateDisconnectStatus`, `TimeOut` - of the
arrival of what the living send, of the loss or arrival of what the dead have sent, and of the clock
(`MinutePasses`). Not of votes, quits, deaths and disorder.
`Leave`: weak fairness of the whole of what machines do by themselves, `Runs`. It is enough, for none of
it can be done for ever - a frame is executed and a message acked once - so what stays possible is done.
Not of leaving. `LANAPI`: weak fairness of `Works`, what `update` and the arrival of messages do by
themselves; losses are bounded (`MaxLost`), users need do nothing.

## 4. The proofs

The `*_proofs` modules hold theorems for all values of the constants, under the assumptions named in
the modules (the players are finitely many, the router is one of them, the smallest run ahead is at least
one and at most half of `MAX_FRAMES_AHEAD`, bounds are naturals).

* `FrameData_proofs`: lemmas about the record and ring operators - what they return, which record
  they change, that frames less than a ring apart have different indices.
* `FrameDataManager_proofs`: type correctness, `NoStrayCommands`, `ExecutedFramesKept` and the
  refinement of `FrameWindow`. The invariant says of each record that it is that of the one frame of
  the live window with its index: window and ring have length `FRAMES_TO_KEEP + Ahead + 1` and
  `2 (MAX_FRAMES_AHEAD + 1)`, and the first is not longer than the second.
* `Lockstep_proofs`: type correctness, `SameCommandsEverywhere`, `AnnouncedCountsHold`,
  `NeverResend`, `WithinTheRing`, `BoundedLead`, `SameRunAhead`, the refinement of `LockstepGame`, `NobodyWaitsInVain`
  and the absence of deadlock.
  The desired properties are not inductive: that all execute the same commands needs that a record
  with a count that is met holds *all* commands issued by that player for that frame, which needs that counts on
  their way are true, which needs that no command is issued for a frame already announced, that a
  record never holds a command of another frame, and that messages on their way are neither of
  a frame that shares an index with a live one nor unissued. That in turn needs the bound on the lead,
  which needs readiness to imply that the count has arrived, and thus that its sender is close. All
  these are conjuncts of one invariant, each preserved by each action in a step of its own.

  `NobodyWaitsInVain` takes a second invariant, `OnwardInv`: whatever has been issued or announced (`WasSent`), and is
  for a frame a player has not executed, that player has taken in, or it is on its way to it or to the router
  with that player in its mask (`Onward`). Receiving must not lose any of it, and the router relays only what is not out of date: what
  comes to it for the first time is for a frame it has not executed (`FirstTime`), as it cannot execute one without
  having all of it; and messages have the masks of their way (`Addressed`). And by `IInv` a record not ready lacks a command issued or a count announced, unless its sender has
  not announced the frame (`SentInPeriod`). `NobodyIsStuck` follows: whoever is in the earliest frame
  waits for nothing but messages under way or ticks that are due (`SomebodyGoesOn`: the guards of the steps, spelled
  out, since `ENABLED` is out of the prover's reach).
* `Delivery_proofs`: type correctness, `NothingForgotten`, `StillOnItsWay`, and that each step of
  `Delivery` is a step of `Broadcast` or stutters. The invariant follows the legs of a command's way:
  an ack under way implies that its sender has the command; an ack of both stages by the router's
  clients implies that they are not waited for in vain; a stage 2 ack implies that all have it.
* `Leave_proofs`: type correctness, `SameExecution`, the refinement of `LeavingGame`, `KeptForCatchUp`, `NothingForgotten`,
  `NobodyWaitsInVain`. Executed commands and fallback plans are
  agreed on because both are functions of the frame and the leave frames alone (`PlanBound`,
  `ExecutedBound`); that takes that nobody has anything of a leaver beyond its leave frame, neither taken
  in nor under way nor pending to be sent again (`DataBound`, `QueueBound`, `PendingBound`), and that nobody is
  already past a leave frame when it is chosen, which is a bound on the lead (`Lead`). The help for those
  behind takes in addition what each keeps of what it has executed (`KeptBound`), and
  `FRAMES_TO_KEEP > RunAhead`.

  `NothingForgotten` is the conjunction `Safe` of eleven parts away from being inductive. A command is of interest as long as
  it has a player who lacks it (`Lacking`: it stays, is not past the frame, and has not got it); these only become
  fewer, and whoever has executed the frame still has the command (`HasLate`). It is `Handed` when nobody
  lacks it, when it is taken over, or when somebody who outlasts the first router relays it to all who lack it (`Carried`); once
  handed, it stays so in every step (`HandedStays`). The parts say where it is before:
  * `RouterIsSent`, `RouterPassesOn`: all that is announced up to its leave is on its way to the first router, which
    passes on what it has of those who have not seen it leave to all who lack it.
  * `AckedIsHanded`: what is not pending is handed. An originator is told so by the last ack the router waits for
    (`RelayedToLackers`), or by a direct ack; that one comes from somebody who is, or takes the originator for, the
    next router (`EndIsHanded`). It never comes from the first router having got it by another way (`RouterHears`).
  * `RouterSends`, `NextIsSent`: who becomes the router, or finds another after the first, sends again what is
    pending (`Resent`): `addMessage` drops what is on the queue already, so that has to be the same message,
    for all and not for one (`OwnInFull`), and what is for all must go to nobody who leaves before the first router (`InFullToNext`).
  * `Addressed`, `OwnData`: nobody is sent its own, and who is in the game has all it has announced.

  For `LeavingGame` it is shown that `Cast` is, in every state, a function of the leave frames: a frame's cast are those whose
  leave frame is not before it (`Staying`, `CastBound`). Nobody has gone past a leave frame when it is chosen, so the casts
  settled do not change with it; an execution is a step of the abstract game, in which a leaver is at most one frame
  more than the run ahead behind its leave frame (`LeaveBound`); all other steps stutter (`ExecutePlays`, `PlayOrStutter`). `NobodyWaitsInVain` follows from `Safe`: while the first router stays, what is announced and
  lacked is on its way to the router or from it (`SafeWaitsNotInVain`).
* `LANAPI_proofs`: type correctness, `CountdownAccepted` and `StartedAgree`, for any number of clients,
  users' actions and losses. The countdown needs that it runs only while the game is set up, and that the
  accepted are players; the proof is one step for each of the thirty actions. `StartedAgree` follows from
  `AgreeInv`, which looks at what is under way to each client up to the START (`Before`):
  * `MessagesFit`: the options follow each JOIN_ACCEPT, and the START is sent once.
  * `MessagesAgree`: the last options under way are the host's (`CurrentIn`; they may only have an accept too many), and whoever
    is seen to leave after them has gone or is going, for good (`Quits`).
  * `TableAgrees`: a client to whom no options are under way, and who has missed none, has all players in its
    copy but those who quit. If it has them all and its accept stands, it sees the accept, and has the
    host's options. So it cannot change its own options behind its accept, unless somebody has left.
  * `StartAccepted`: once the game has started, everybody's accept stands for good.

  The steps by which the host changes the slots tell all who can hear (`ToldStep`) and are one case of the
  proof; the steps of one client (`Only`) and the late messages (`Sent`) are the others.
* `NetCommandList_proofs`: type correctness, `SameSetSameOrder` and `JoiningKeepsTheOrder`, for any types, players and IDs. Within less
  than half a span the distance of two IDs orders them as their age does (`NewerIs`), so `Before` is a total
  order; the place found by the three searches is behind all commands that come before the new one and in
  front of all others (`PlaceFits`), and so is the place behind the one inserted last when it is taken; a
  sorted list stays sorted; and two sorted lists of the same commands are the same, by their first difference.
  Joining keeps what is joined so far sorted and complete (`AppendIs`, `JoinedIs`), command by command and slot
  by slot; what fails would fail after a least number of steps. The same module proves `OnlyWhatWasSent` of
  `NetCommandWrapperList` (`Wrapper`): each node has only chunks of one command, counted right (`NodeOf`). It takes that
  no two big commands under way share an ID (`IdsApart`), which the code does not see to: see section 5. It is so
  as long as the IDs of all commands there are differ (`AllIdsDiffer`, a condition on the constants which the run `chunks`
  meets): a player uses no number twice (`Serials`).
* `Disconnect_proofs`: type correctness, `GoneAreDestroyed`, `OneIssuer`, `NoStaleVote`,
  `DisconnectedTogether` and `SameExecution`, for any number of players and slots, any run ahead, any number of troubles of all kinds. One
  pass over the slots is a recursive function; `Passed` says what holds after it has come to each of them. The invariant has these parts, which
  a run of TLC on the bounds of `disconnect` confirmed before they were proved:
  * `LinkInv`, `KnownInv`: what is under way was sent by a player who may say so (`Legit`): a DISCONNECTPLAYER comes
    from who has issued it, or from the quitter itself; nobody is known to be on a frame there is not.
  * `SilentInv`, `IssuedInv`: while `orderly`, only the silent are timed out, voted against or dropped, and
    an issuer who lives is the lowest of those who live - hence `OneIssuer`.
  * `OwnInv`, `NewsInv`, `VoteInv`: what p has heard of q and what is on its way from q to p is in order
    (`Sorted`) and not beyond what q has told (`Bound`), which needs that a player announces its screen off only
    when it is ready to leave the frame. Votes lie between - hence `NoStaleVote`.
  * `ToldInv`, `StillInv`: whoever has notified the others has been heard or is about to be; so when a
    minute has passed with nothing under way, all who live know each other's frames (`Still`), and
    nothing but votes can change until somebody disconnects - hence `DisconnectedTogether`.
  * `NoCommandInv`, `PairInv`: of two who live, among three, neither has disconnected anybody; or one has, and the other
    stands still, all but votes that can reach it being behind the command to do the same (`Waits`); or both have, on the same
    frame. In each case what they have executed is a function of their frames (`Through`, `Parted`) - hence
    `SameExecution`. That the command comes first needs that the pass over the slots sends it before anything
    else, and to everybody (`AnnouncedGoesOn`); that no command comes another way needs that there is no fourth player.

Not proved, only model-checked: liveness (`EveryFrameExecuted`, the liveness
half of `KeepsThePromise` in `Delivery`, `ResendingStops`, `EveryBigCommandArrives`, `GameGoesOn`, `NobodyLeftBehind`,
`ClientsLeaveInOrder`, `LobbyAgrees`, `NobodyWaitsForTheHost`), which the prover
does not reach. Every safety property of the passing runs is proved, `OnlyWhatWasSent` for IDs that differ, and so
is every refinement but for the liveness of `Broadcast`.

## 5. Disagreements between the code and its comments

* `leave_router`: "we have to send all the frame info packets necessary to get to the frame where everyone else is
  going to see that we left" (`Network.cpp:581`). The router, leaving, drops all it still relays for
  others (`clearCommandsExceptFrom`), waits for the acks of its own commands only, and is gone. Those who
  stay then lack each other's commands of the leave frame. Their pending lists hold them, but are sent again
  only by who executes that frame. The disconnect screen comes up and the leaver times out after a minute.
* `disconnect_order`: "disconnecting player on the wrong frame!!!" (`DisconnectManager.cpp:315`). The next packet
  router sends DISCONNECTPLAYER, and in the same pass what it has announced and not everybody has
  (`resendPendingCommands`). A send queue is sorted by type, and frame counts and game commands come before
  DISCONNECTPLAYER (`NetworkDefs.h:162`, `:185`); `Connection::doSend` fills packets in that order. When it takes
  two packets and the second is lost or late, a player who has the lost player's commands of the frame now has all,
  executes it, and is told to disconnect one frame late. The router has executed that frame without them. The
  counterexample takes one death and one message overtaken (`ReceiveOutOfOrder`).

Others, met while the modules were written, have no run of their own:

* `NetCommandWrapperList` with `Gap = 0`: nodes are found by command ID alone, while each player counts its own
  IDs. Chunks of a second player's command with the same ID are refused as "already received"
  (`NetCommandWrapperList.cpp:94`), and the command put together is neither of the two. The run `chunks` takes IDs apart.
* `quitGame` (`ConnectionManager.cpp:2184`) sends its command once and deletes the connections, so nobody
  resends it. Those who got it forget the quitter and play on; one who did not
  waits for commands nobody has any more, is never on the others' frame, and nobody may disconnect.
  (`Disconnect` with one quit and one message out of order, and `GameGoesOn`.)
* `getFrame() - FRAMES_TO_KEEP` is unsigned and wraps in the first 65 frames of a game
  (`ConnectionManager.cpp:2795`), where every frame is "too far in the past" to be sent to a player who is behind.
  (`Disconnect_live.cfg` with `FirstFrame` below `FRAMES_TO_KEEP`.) `Leave` and the runs of `Disconnect` start later.
* "We haven't heard from the host in a while.  Bail." (`LANAPI.cpp:531`). MSG_GAME_START is sent once. To a
  client that misses it, the announcements of the game in progress mark its own game as in progress
  (`LANAPIhandlers.cpp:147`): it ignores all messages, does not bail out, and when the time-out of Back calls
  `OnPlayerLeave` that returns for the same reason before it pops the menu. (`LANAPI` under `FairSpec`: `game = "STARTED"`
  does not lead to every client being out of the menu.)
* In the lobby an accept names no revision of the options; one that crosses a change counts for what its sender has not seen.
  Another player's LEAVE makes a client forget the accepts it shows and enables its controls, though its own stands on the host.
* A vote against a player who is dead but whose last messages are still under way. The router disconnects it
  in frame f, for all known to be left are there; another receives its last commands meanwhile and
  executes f. They have executed different commands, and the assertion "disconnecting player on the wrong frame!!!"
  (`DisconnectManager.cpp:315`) fails. `Disconnect` with `Troubles` {"DEATH", "VOTE"}, `MaxTrouble` three and
  `orderly` left alone by votes shows it in sixteen steps.
* "So remove it from the pending commands list so it doesn't get sent in the case of a new packet router"
  (`ConnectionManager.cpp:1030`). The router leaves, and has passed a command of the next router on to only some of the players. These have seen
  it leave, take the originator for the router, and their acks take the command off its pending list
  (`ConnectionManager.cpp:1050`); the old router drops what it still relays (`:1120`). Nobody sends the command to the
  rest, who wait until the disconnect screen finds that somebody is ahead of them. It takes four players and a next router
  to whom a command of its own is pending; `NothingForgotten` without `TakenOver` fails there.
* Whoever quits from the screen sends its own frame, not the others', in the command the assertion tests.

## 6. What is not modelled

The router query and ack, pings and texts of
the disconnect screen; the transport's buffers; relaying and acking of wrapped commands; the choice of the run ahead; file transfer; chat, maps and colours in the LAN lobby; NAT and online
services. `Leave` and `Disconnect` are not composed: nobody times out while somebody leaves in good order. `PROJECT.json` says for each why. Outside the network nothing is modelled: the
simulation, the client, rendering, audio and the tools have no state several machines must agree on
except through the commands.

Time is abstracted: a timer may expire whenever it is set, but for the time-out of `Disconnect` (2.7). CRC comparison at run time
(`setSawCRCMismatch`) reports desyncs and is not a mechanism the lockstep relies on.

## 7. Plan

1. Done: `FrameData`, `FrameDataManager`, `Lockstep`, `Delivery`, `NetCommandList`,
   `NetCommandWrapperList`, `Disconnect`, `Leave`, `LANAPI`, their runs and the proofs of section 4.
2. `LeavingGame` for `Disconnect` too: what a player lost or voted out goes on to execute alone has to be taken out of the
   game first, and its promise holds only as far as `SameExecution` does. The vote race of section 5 as a run of its own.
3. Wrapped commands in `Delivery`; the buffers of `Transport`; `FileTransfer`; NAT.
