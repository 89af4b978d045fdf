-------------------------------- MODULE LANAPI ---------------------------------
(***************************************************************************)
(* A game being set up on a LAN: LANAPI and its game options menu.         *)
(*                                                                         *)
(* The host keeps the slots and options and decides; every change it makes *)
(* it sends to all as one string, MSG_GAME_OPTIONS, and again every 10     *)
(* seconds.  The clients ask for what they want and replace their own copy *)
(* by what they are sent.  A change takes back everybody's accept and ends *)
(* the countdown; once all accept, the host counts down and tells all to   *)
(* start, once.  Any message can be lost; those between two machines keep  *)
(* their order.                                                            *)
(*                                                                         *)
(* The options (sides, teams, map ...) are a revision number.  Left out:   *)
(* colours and NAT, which no accept depends on; map transfers; chat; games *)
(* by direct connect; the announcements before the start, which repeat the *)
(* options.                                                                *)
(***************************************************************************)
EXTENDS Integers, FiniteSets, Sequences

CONSTANTS Client,      \* the machines that may join the host's game
          NumSlots,    \* the slots beside the host's
          MaxOptions,  \* bound: the last revision of the options
          MaxMoves,    \* bound: how often users do something
          MaxLost      \* bound: how many messages are lost

ASSUME ClientAssumption == IsFiniteSet(Client)
ASSUME BoundAssumption == {NumSlots, MaxOptions, MaxMoves, MaxLost} \subseteq Nat

VARIABLES
  game,           \* the host's m_currentGame: being set up, in progress or none
  slots,          \* the host's [players, accepted, options]
  open,           \* how many slots are open
  timer,          \* m_gameStartTime # 0
  screen,         \* [c -> where c is; FLAGGED: in the menu, with a game that counts as in
                  \* progress, or with none left; ADRIFT: in the game, with no m_currentGame]
  pendingAction,  \* m_pendingAction
  table,          \* [c -> c's copy of slots]
  toHost,         \* [c -> what c has sent the host]
  toClient,       \* [c -> what the host and the other clients have sent c]
  moves,          \* bound: moves made
  lost,           \* bound: messages lost
  missed          \* history: those to whom the last options sent were lost

vars == <<game, slots, open, timer, screen, pendingAction, table, toHost, toClient,
          moves, lost, missed>>
hostVars == <<game, slots, open, timer>>
clientVars == <<screen, pendingAction, table>>
boundVars == <<moves, lost, missed>>

Unknown == -1  \* options that c has asked for, or not been told yet
NoTable == [players |-> {}, accepted |-> {}, options |-> Unknown]
Slots == [players : SUBSET Client, accepted : SUBSET Client, options : {Unknown} \cup 0 .. MaxOptions]
Note(type) == [type |-> type]
Options(s) == [type |-> "OPTIONS", slots |-> s]
LeaveOf(c) == [type |-> "LEAVE", client |-> c]
ToClient == {Note(t) : t \in {"ACCEPT", "DENY", "START", "HOSTLEAVE"}}
            \cup {Options(s) : s \in Slots} \cup {LeaveOf(c) : c \in Client}
Screen == {"LOBBY", "OPTIONS", "FLAGGED", "STARTED", "ADRIFT"}
Pending == {"NONE", "JOIN", "LEAVE"}
ToHost == {"JOIN", "SET_ACCEPT", "CHANGE", "INACTIVE", "LEAVE"}

(* Some are in, some have accepted, all know it: no message is under way.  *)
Init ==
  \E P \in SUBSET Client : \E A \in SUBSET P :
    /\ Cardinality(P) <= NumSlots
    /\ game = "OPTIONS"
    /\ slots = [players |-> P, accepted |-> A, options |-> 0]
    /\ open = NumSlots - Cardinality(P)
    /\ timer = FALSE
    /\ screen = [c \in Client |-> IF c \in P THEN "OPTIONS" ELSE "LOBBY"]
    /\ pendingAction = [c \in Client |-> "NONE"]
    /\ table = [c \in Client |-> IF c \in P THEN slots ELSE NoTable]
    /\ toHost = [c \in Client |-> <<>>]
    /\ toClient = [c \in Client |-> <<>>]
    /\ moves = 0 /\ lost = 0 /\ missed = {}

----------------------------------------------------------------------------
(* Whom a broadcast can matter to: in the lobby it is ignored, unless a    *)
(* JOIN_ACCEPT may be handled before it.                                   *)
Hears(c) == screen[c] = "OPTIONS" \/ pendingAction[c] = "JOIN" \/ toClient[c] # <<>>
Broadcast(box, m) == [c \in Client |-> IF Hears(c) THEN Append(box[c], m) ELSE box[c]]

(* resetAccepted, with what else changes in the slots.                     *)
ResetAccepted(s) == slots' = [s EXCEPT !.accepted = {}] /\ timer' = FALSE

(* RequestGameOptions: all are sent what the slots are now.                *)
RequestGameOptions == toClient' = Broadcast(toClient, Options(slots'))

Move == moves < MaxMoves /\ moves' = moves + 1 /\ UNCHANGED <<lost, missed>>

----------------------------------------------------------------------------
(* The host's user.                                                        *)

(* handlePlayerTemplateSelection, of the teams, the map ...                *)
HostChanges ==
  /\ game = "OPTIONS" /\ slots.options < MaxOptions /\ Move
  /\ ResetAccepted([slots EXCEPT !.options = @ + 1])
  /\ RequestGameOptions
  /\ UNCHANGED <<game, open, clientVars, toHost>>

(* A player's slot is set to open or closed: it is out, and will see it.   *)
Kick(c) ==
  /\ game = "OPTIONS" /\ c \in slots.players /\ Move
  /\ ResetAccepted([slots EXCEPT !.players = @ \ {c}])
  /\ RequestGameOptions
  /\ open' \in {open, open + 1}
  /\ UNCHANGED <<game, clientVars, toHost>>

(* An empty slot is opened or closed; no accept is taken back.             *)
OpenOrClose ==
  /\ game = "OPTIONS" /\ Move
  /\ open' \in {open - 1, open + 1} \cap 0 .. NumSlots - Cardinality(slots.players)
  /\ UNCHANGED slots
  /\ RequestGameOptions
  /\ UNCHANGED <<game, timer, clientVars, toHost>>

(* StartPressed: with everybody's accept the open slots are closed, which  *)
(* is not sent, and the countdown begins.  (Without, all are asked for it.) *)
StartPressed ==
  /\ game = "OPTIONS" /\ ~timer /\ slots.accepted = slots.players /\ Move
  /\ open' = 0 /\ timer' = TRUE
  /\ UNCHANGED <<game, slots, clientVars, toHost, toClient>>

(* RequestGameStart, when the countdown is over.                           *)
RequestGameStart ==
  /\ timer
  /\ timer' = FALSE /\ game' = "STARTED"
  /\ toClient' = Broadcast(toClient, Note("START"))
  /\ UNCHANGED <<slots, open, clientVars, toHost, boundVars>>

(* RequestGameLeave of the host: the game is gone at once.                 *)
HostLeaves ==
  /\ game = "OPTIONS" /\ Move
  /\ game' = "GONE" /\ timer' = FALSE
  /\ toClient' = Broadcast(toClient, Note("HOSTLEAVE"))
  /\ UNCHANGED <<slots, open, clientVars, toHost>>

----------------------------------------------------------------------------
(* The host handles the first message of c.                                *)
Receive(c, type) == toHost[c] # <<>> /\ Head(toHost[c]) = type /\ toHost' = [toHost EXCEPT ![c] = Tail(@)]

(* A mutant: the slots are counted, not looked at.                         *)
CanJoinAnyway(c) == game = "OPTIONS" /\ c \notin slots.players /\ Cardinality(slots.players) < NumSlots
(* No game, a game in progress, a name that is there, and no open slot: no. *)
CanJoin(c) == game = "OPTIONS" /\ c \notin slots.players /\ open > 0

(* The reply goes out before the options (OnPlayerJoin has sent them to    *)
(* the others already).                                                    *)
HandleRequestJoin(c) ==
  /\ Receive(c, "JOIN")
  /\ IF CanJoin(c)
     THEN /\ ResetAccepted([slots EXCEPT !.players = @ \cup {c}])
          /\ open' = open - 1
          /\ toClient' = [Broadcast(toClient, Options(slots')) EXCEPT
                            ![c] = toClient[c] \o <<Note("ACCEPT"), Options(slots')>>]
     ELSE /\ UNCHANGED <<slots, timer, open>>
          /\ LET denied == [toClient EXCEPT ![c] = Append(@, Note("DENY"))]
             IN toClient' = IF game = "GONE" THEN denied ELSE Broadcast(denied, Options(slots))
  /\ UNCHANGED <<game, clientVars, boundVars>>

(* Whose address is in no slot, and once the game has begun, is ignored.   *)
Heeded(c) == game = "OPTIONS" /\ c \in slots.players

(* OnAccept: whatever c has seen, the accept counts for the options now.   *)
HandleSetAccept(c) ==
  /\ Receive(c, "SET_ACCEPT") /\ Heeded(c)
  /\ slots' = [slots EXCEPT !.accepted = @ \cup {c}]
  /\ RequestGameOptions
  /\ UNCHANGED <<game, open, timer, clientVars, boundVars>>

(* OnGameOptions of a player's request: it may be refused.                 *)
HandleGameOptions(c) ==
  /\ Receive(c, "CHANGE") /\ Heeded(c)
  /\ \/ /\ slots.options < MaxOptions
        /\ ResetAccepted([slots EXCEPT !.options = @ + 1])
        /\ RequestGameOptions
     \/ UNCHANGED <<slots, timer, toClient>>
  /\ UNCHANGED <<game, open, clientVars, boundVars>>

(* A mutant: at any time.                                                  *)
MayUnaccept(c) == Heeded(c)
(* An accept is not taken back any more once the countdown runs.           *)
Unaccepts(c) == Heeded(c) /\ ~timer

HandleInActive(c) ==
  /\ Receive(c, "INACTIVE") /\ Unaccepts(c)
  /\ slots' = [slots EXCEPT !.accepted = @ \ {c}]
  /\ RequestGameOptions
  /\ UNCHANGED <<game, open, timer, clientVars, boundVars>>

(* The slot of c is opened.  The others are sent the slots before the      *)
(* accepts are taken back, and again with the next update; c afterwards.   *)
OnPlayerLeave(c) ==
  LET others == [slots EXCEPT !.players = @ \ {c}, !.accepted = @ \ {c}]
  IN /\ ResetAccepted(others)
     /\ open' = open + 1
     /\ LET sent == Broadcast(toClient, Options(others))
        IN toClient' = IF Hears(c) THEN [sent EXCEPT ![c] = Append(@, Options(slots'))] ELSE sent

HandleRequestGameLeave(c) ==
  /\ Receive(c, "LEAVE") /\ Heeded(c)
  /\ OnPlayerLeave(c)
  /\ UNCHANGED <<game, clientVars, boundVars>>

HandleNothing(c) ==
  /\ \E type \in ToHost \ {"JOIN"} :
       Receive(c, type) /\ ~(IF type = "INACTIVE" THEN Unaccepts(c) ELSE Heeded(c))
  /\ UNCHANGED <<hostVars, clientVars, toClient, boundVars>>

(* update: c has not been heard of for 80 seconds, as it is not in the     *)
(* game.  (Not all of its HELLOs are lost, one every 10 seconds.)          *)
DropPlayer(c) ==
  /\ game = "OPTIONS" /\ c \in slots.players
  /\ screen[c] = "LOBBY" /\ toHost[c] = <<>> /\ toClient[c] = <<>>
  /\ OnPlayerLeave(c)
  /\ UNCHANGED <<game, clientVars, toHost, boundVars>>

(* update, every 10 seconds: the slots are sent again.  (Shown only where  *)
(* it tells c something; it may be lost, but not every time.)              *)
Resend(c) ==
  /\ game = "OPTIONS" /\ screen[c] = "OPTIONS" /\ toClient[c] = <<>> /\ table[c] # slots
  /\ toClient' = [toClient EXCEPT ![c] = <<Options(slots)>>]
  /\ UNCHANGED <<hostVars, clientVars, toHost, boundVars>>

----------------------------------------------------------------------------
(* The users of the clients, and the time-out of what they asked for.      *)
Send(c, type) == toHost' = [toHost EXCEPT ![c] = Append(@, type)]

RequestGameJoin(c) ==
  /\ screen[c] = "LOBBY" /\ pendingAction[c] = "NONE" /\ Move
  /\ Send(c, "JOIN")
  /\ pendingAction' = [pendingAction EXCEPT ![c] = "JOIN"]
  /\ UNCHANGED <<hostVars, screen, table, toClient>>

(* A mutant: whether or not c sees its accept.                             *)
UndecidedAnyway(c) == screen[c] = "OPTIONS"
(* The controls are there for those who do not see their accept.           *)
Undecided(c) == screen[c] = "OPTIONS" /\ c \notin table[c].accepted

RequestAccept(c) ==
  /\ Undecided(c) /\ Move
  /\ Send(c, "SET_ACCEPT")
  /\ UNCHANGED <<hostVars, clientVars, toClient>>

(* handlePlayerTemplateSelection ...: c shows its choice at once, takes    *)
(* back the accepts it shows, and asks the host.                           *)
ClientChanges(c) ==
  /\ Undecided(c) /\ Move
  /\ Send(c, "CHANGE")
  /\ table' = [table EXCEPT ![c] = [@ EXCEPT !.accepted = {}, !.options = Unknown]]
  /\ UNCHANGED <<hostVars, screen, pendingAction, toClient>>

(* setIsActive: c is in the background.                                    *)
SetInactive(c) ==
  /\ screen[c] = "OPTIONS" /\ Move
  /\ Send(c, "INACTIVE")
  /\ UNCHANGED <<hostVars, clientVars, toClient>>

(* The back button: everybody is told; c stays until it times out, or      *)
(* hears that it is out.                                                   *)
RequestGameLeave(c) ==
  /\ screen[c] \in {"OPTIONS", "FLAGGED"} /\ pendingAction[c] = "NONE" /\ Move
  /\ Send(c, "LEAVE")
  /\ toClient' = [Broadcast(toClient, LeaveOf(c)) EXCEPT ![c] = toClient[c]]
  /\ pendingAction' = [pendingAction EXCEPT ![c] = "LEAVE"]
  /\ UNCHANGED <<hostVars, screen, table>>

(* Back to the lobby, whose menu starts LANAPI and its transport anew.     *)
PopToLobby(c) ==
  /\ screen' = [screen EXCEPT ![c] = "LOBBY"]
  /\ pendingAction' = [pendingAction EXCEPT ![c] = "NONE"]
  /\ table' = [table EXCEPT ![c] = NoTable]
  /\ toClient' = [toClient EXCEPT ![c] = <<>>]

(* update, 5 seconds later.  OnPlayerLeave does not leave a game that is   *)
(* in progress, but m_currentGame is gone all the same.                    *)
TimeOut(c) ==
  /\ pendingAction[c] # "NONE"
  /\ IF pendingAction[c] = "LEAVE" /\ screen[c] = "OPTIONS"
     THEN PopToLobby(c)
     ELSE /\ pendingAction' = [pendingAction EXCEPT ![c] = "NONE"]
          /\ screen' = IF screen[c] = "STARTED" THEN [screen EXCEPT ![c] = "ADRIFT"] ELSE screen
          /\ UNCHANGED <<table, toClient>>
  /\ UNCHANGED <<hostVars, toHost, boundVars>>

----------------------------------------------------------------------------
(* A client handles the first of its messages.                             *)
Arrives(c, type) == toClient[c] # <<>> /\ Head(toClient[c]).type = type
Done(c) == toClient' = [toClient EXCEPT ![c] = Tail(@)]

(* It asks for its preferred side at once.                                 *)
HandleJoinAccept(c) ==
  /\ Arrives(c, "ACCEPT") /\ pendingAction[c] = "JOIN" /\ Done(c)
  /\ screen' = [screen EXCEPT ![c] = "OPTIONS"]
  /\ pendingAction' = [pendingAction EXCEPT ![c] = "NONE"]
  /\ table' = [table EXCEPT ![c] = [NoTable EXCEPT !.players = {c}]]
  /\ Send(c, "CHANGE")
  /\ UNCHANGED <<hostVars, boundVars>>

HandleJoinDeny(c) ==
  /\ Arrives(c, "DENY") /\ pendingAction[c] = "JOIN" /\ Done(c)
  /\ pendingAction' = [pendingAction EXCEPT ![c] = "NONE"]
  /\ UNCHANGED <<hostVars, screen, table, toHost, boundVars>>

(* A mutant: nobody is.                                                    *)
BootedNever(c, s) == FALSE
(* Whoever is not in the slots is out.                                     *)
Booted(c, s) == c \notin s.players

(* The host's slots replace c's table.                                     *)
OnGameOptions(c) ==
  /\ Arrives(c, "OPTIONS") /\ screen[c] = "OPTIONS"
  /\ LET s == Head(toClient[c]).slots
     IN IF Booted(c, s)
        THEN PopToLobby(c)
        ELSE /\ table' = [table EXCEPT ![c] = s]
             /\ Done(c)
             /\ UNCHANGED <<screen, pendingAction>>
  /\ missed' = missed \ {c}
  /\ UNCHANGED <<hostVars, toHost, moves, lost>>

(* Also for those who wait to have left.                                   *)
HandleGameStart(c) ==
  /\ Arrives(c, "START") /\ screen[c] = "OPTIONS" /\ Done(c)
  /\ screen' = [screen EXCEPT ![c] = "STARTED"]
  /\ UNCHANGED <<hostVars, pendingAction, table, toHost, boundVars>>

(* A client opens the slot in its own copy.                                *)
HandleLeaveOfOther(c) ==
  /\ Arrives(c, "LEAVE") /\ screen[c] = "OPTIONS" /\ Done(c)
  /\ LET d == Head(toClient[c]).client
     IN /\ d \in table[c].players
        /\ table' = [table EXCEPT ![c] = [players |-> @.players \ {d}, accepted |-> {}, options |-> @.options]]
  /\ UNCHANGED <<hostVars, screen, pendingAction, toHost, boundVars>>

OnHostLeave(c) ==
  /\ Arrives(c, "HOSTLEAVE") /\ screen[c] = "OPTIONS"
  /\ PopToLobby(c)
  /\ UNCHANGED <<hostVars, toHost, boundVars>>

IgnoreMessage(c) ==
  /\ toClient[c] # <<>>
  /\ LET m == Head(toClient[c])
     IN ~(IF m.type \in {"ACCEPT", "DENY"} THEN pendingAction[c] = "JOIN"
          ELSE screen[c] = "OPTIONS" /\ (m.type = "LEAVE" => m.client \in table[c].players))
  /\ Done(c)
  /\ UNCHANGED <<hostVars, clientVars, toHost, boundVars>>

(* A mutant: the host's silence is put up with.                            *)
HostIsSilentNever(c) == FALSE
(* Nothing has come for 160 seconds: neither the options of a game being   *)
(* set up, nor the announcements of one in progress.                       *)
HostIsSilent(c) == game = "GONE" /\ toClient[c] = <<>>

(* update: c fakes the host's leaving.                                     *)
BailOut(c) ==
  /\ screen[c] = "OPTIONS" /\ HostIsSilent(c)
  /\ PopToLobby(c)
  /\ UNCHANGED <<hostVars, toHost, boundVars>>

(* handleGameAnnounce, every 10 seconds in the host's game: c's own game,  *)
(* of whose start it has not heard, counts as in progress from now on, and *)
(* nothing is handled for it any more.                                     *)
HandleGameAnnounce(c) ==
  /\ game = "STARTED" /\ screen[c] = "OPTIONS" /\ toClient[c] = <<>>
  /\ screen' = [screen EXCEPT ![c] = "FLAGGED"]
  /\ table' = [table EXCEPT ![c] = slots]
  /\ UNCHANGED <<hostVars, pendingAction, toHost, toClient, boundVars>>

----------------------------------------------------------------------------
(* The network loses a message.                                            *)
Lose(c) ==
  /\ lost < MaxLost /\ lost' = lost + 1
  /\ \/ /\ toHost[c] # <<>>
        /\ toHost' = [toHost EXCEPT ![c] = Tail(@)]
        /\ UNCHANGED <<toClient, missed>>
     \/ /\ toClient[c] # <<>> /\ Done(c)
        /\ missed' = IF Arrives(c, "OPTIONS") THEN missed \cup {c} ELSE missed
        /\ UNCHANGED toHost
  /\ UNCHANGED <<hostVars, clientVars, moves>>

HostUser == HostChanges \/ OpenOrClose \/ StartPressed \/ HostLeaves \/ \E c \in Client : Kick(c)
ClientUser(c) == RequestGameJoin(c) \/ RequestAccept(c) \/ ClientChanges(c) \/ SetInactive(c)
                 \/ RequestGameLeave(c)
HostHandles(c) == HandleRequestJoin(c) \/ HandleSetAccept(c) \/ HandleGameOptions(c)
                  \/ HandleInActive(c) \/ HandleRequestGameLeave(c) \/ HandleNothing(c)
ClientHandles(c) == HandleJoinAccept(c) \/ HandleJoinDeny(c) \/ OnGameOptions(c)
                    \/ HandleGameStart(c) \/ HandleLeaveOfOther(c) \/ OnHostLeave(c)
                    \/ IgnoreMessage(c) \/ HandleGameAnnounce(c)
Update(c) == DropPlayer(c) \/ Resend(c) \/ TimeOut(c) \/ BailOut(c)
Works == RequestGameStart \/ \E c \in Client : HostHandles(c) \/ ClientHandles(c) \/ Update(c)
Next == HostUser \/ Works \/ \E c \in Client : ClientUser(c) \/ Lose(c)
Spec == Init /\ [][Next]_vars
(* Every machine keeps calling update; users need do nothing.              *)
FairSpec == Spec /\ WF_vars(Works)

----------------------------------------------------------------------------
TypeOK ==
  /\ game \in {"OPTIONS", "STARTED", "GONE"}
  /\ slots \in Slots /\ slots.accepted \subseteq slots.players
  /\ open \in 0 .. NumSlots - Cardinality(slots.players)
  /\ timer \in BOOLEAN
  /\ screen \in [Client -> Screen]
  /\ pendingAction \in [Client -> Pending]
  /\ table \in [Client -> Slots]
  /\ toHost \in [Client -> Seq(ToHost)] /\ toClient \in [Client -> Seq(ToClient)]
  /\ moves \in 0 .. MaxMoves /\ lost \in 0 .. MaxLost /\ missed \subseteq Client

(* While the host counts down, every player's accept stands: no join, no   *)
(* leaving, no change, however it crosses the countdown, is played without *)
(* the others' consent to a start.                                         *)
CountdownAccepted == timer => game = "OPTIONS" /\ slots.accepted = slots.players

(* Whoever has heard the last options the host sent it starts with the     *)
(* host's players, but for those who asked to leave, and when all are      *)
(* there, with the host's options: a choice of its own that the host has   *)
(* not granted, or has heard of too late, is not what it starts with.      *)
StartedAgree ==
  \A c \in Client : screen[c] = "STARTED" /\ c \notin missed =>
    /\ table[c].players \subseteq slots.players
    /\ \A d \in slots.players \ table[c].players :
         screen[d] \in {"LOBBY", "FLAGGED", "ADRIFT"} \/ pendingAction[d] = "LEAVE"
    /\ table[c].players = slots.players => table[c].options = slots.options

(* In the end all see the same: who is in a slot is in the game, and the   *)
(* other way round, and has the host's slots, whatever was lost.           *)
LobbyAgrees ==
  <>[](game = "OPTIONS" => \A c \in Client :
         /\ screen[c] = "OPTIONS" <=> c \in slots.players
         /\ c \in slots.players => table[c] = slots)

(* When the host leaves, or its leaving is lost, nobody stays in its game. *)
NobodyWaitsForTheHost == game = "GONE" ~> \A c \in Client : screen[c] = "LOBBY"
================================================================================
