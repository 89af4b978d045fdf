----------------------------- MODULE LANAPI_proofs -----------------------------
(***************************************************************************)
(* Proofs about LANAPI, for any number of clients, slots, changes, moves   *)
(* and lost messages: the types, that a countdown only runs while every    *)
(* player's accept stands, and that who starts together agrees.            *)
(***************************************************************************)
EXTENDS LANAPI, FiniteSetTheorems, TLAPS

(* A broadcast of a message leaves everybody with messages.                *)
LEMMA BroadcastType ==
  ASSUME NEW box \in [Client -> Seq(ToClient)], NEW m \in ToClient
  PROVE  Broadcast(box, m) \in [Client -> Seq(ToClient)]
BY DEF Broadcast

(* The messages are what their names say.                                  *)
LEMMA MessageTypes ==
  /\ \A t \in {"ACCEPT", "DENY", "START", "HOSTLEAVE"} : Note(t) \in ToClient
  /\ \A s \in Slots : Options(s) \in ToClient
  /\ \A c \in Client : LeaveOf(c) \in ToClient
  /\ \A m \in ToClient : m.type = "OPTIONS" => m.slots \in Slots
<1>1. \A t \in {"ACCEPT", "DENY", "START", "HOSTLEAVE"} : Note(t) \in ToClient
  BY DEF ToClient
<1>2. (\A s \in Slots : Options(s) \in ToClient) /\ (\A c \in Client : LeaveOf(c) \in ToClient)
  BY DEF ToClient
<1>3. ASSUME NEW m \in ToClient, m.type = "OPTIONS" PROVE m.slots \in Slots
  <2>1. CASE \E t \in {"ACCEPT", "DENY", "START", "HOSTLEAVE"} : m = Note(t)
    BY <1>3, <2>1 DEF Note
  <2>2. CASE \E s \in Slots : m = Options(s)
    BY <2>2 DEF Options
  <2>3. CASE \E c \in Client : m = LeaveOf(c)
    BY <1>3, <2>3 DEF LeaveOf
  <2> QED
    BY <2>1, <2>2, <2>3 DEF ToClient
<1> QED
  BY <1>1, <1>2, <1>3

(* Taking a message off its channel.                                       *)
LEMMA DoneType ==
  ASSUME toClient \in [Client -> Seq(ToClient)], NEW c \in Client, toClient[c] # <<>>, Done(c)
  PROVE  /\ toClient' \in [Client -> Seq(ToClient)]
         /\ Head(toClient[c]) \in ToClient
BY DEF Done

(* The host takes a message off.                                           *)
LEMMA ReceiveType ==
  ASSUME toHost \in [Client -> Seq(ToHost)], NEW c \in Client, NEW t, Receive(c, t)
  PROVE  toHost' \in [Client -> Seq(ToHost)]
BY DEF Receive

(* A client sends one.                                                     *)
LEMMA SendType ==
  ASSUME toHost \in [Client -> Seq(ToHost)], NEW c \in Client, NEW t \in ToHost, Send(c, t)
  PROVE  toHost' \in [Client -> Seq(ToHost)]
BY DEF Send

(* Back in the lobby.                                                      *)
LEMMA PopType ==
  ASSUME toClient \in [Client -> Seq(ToClient)], screen \in [Client -> Screen],
         pendingAction \in [Client -> Pending], table \in [Client -> Slots],
         NEW c \in Client, PopToLobby(c)
  PROVE  /\ toClient' \in [Client -> Seq(ToClient)] /\ screen' \in [Client -> Screen]
         /\ pendingAction' \in [Client -> Pending] /\ table' \in [Client -> Slots]
BY DEF PopToLobby, Screen, Pending, NoTable, Slots

(* The number of players changes by one with each who comes or goes.       *)
LEMMA PlayersCount ==
  ASSUME NEW P \in SUBSET Client, NEW c \in Client
  PROVE  /\ Cardinality(P) \in Nat
         /\ c \notin P => Cardinality(P \cup {c}) = Cardinality(P) + 1
         /\ c \in P => Cardinality(P \ {c}) = Cardinality(P) - 1
<1>1. IsFiniteSet(P)
  BY ClientAssumption, FS_Subset
<1> QED
  BY <1>1, FS_CardinalityType, FS_AddElement, FS_RemoveElement

(* What TypeOK says of the host, of the clients and of the channels.       *)
HostType ==
  /\ game \in {"OPTIONS", "STARTED", "GONE"} /\ timer \in BOOLEAN
  /\ slots \in Slots /\ slots.accepted \subseteq slots.players
  /\ open \in 0 .. NumSlots - Cardinality(slots.players)
ClientType ==
  /\ screen \in [Client -> Screen] /\ pendingAction \in [Client -> Pending]
  /\ table \in [Client -> Slots]
ChannelType == toHost \in [Client -> Seq(ToHost)] /\ toClient \in [Client -> Seq(ToClient)]
BoundType == moves \in 0 .. MaxMoves /\ lost \in 0 .. MaxLost /\ missed \subseteq Client

(* There is a number of players.                                           *)
LEMMA PlayersNumber == \A P \in SUBSET Client : Cardinality(P) \in Nat
BY ClientAssumption, FS_Subset, FS_CardinalityType

(* The bounds are numbers.                                                 *)
LEMMA Bounds ==
  NumSlots \in Nat /\ MaxOptions \in Nat /\ MaxMoves \in Nat /\ MaxLost \in Nat
BY BoundAssumption

(* The table of one who is in no game.                                     *)
LEMMA NoTableType == NoTable \in Slots
<1>1. {} \in SUBSET Client /\ Unknown \in {Unknown} \cup 0 .. MaxOptions
  OBVIOUS
<1> HIDE DEF Unknown
<1> QED
  BY <1>1 DEF NoTable, Slots

(* The slots after all accepts are taken back.                             *)
LEMMA ResetAcceptedType ==
  ASSUME NEW s \in Slots, ResetAccepted(s)
  PROVE  slots' \in Slots /\ slots'.players = s.players /\ slots'.accepted = {} /\ timer' = FALSE
<1>1. slots' = [s EXCEPT !.accepted = {}] /\ timer' = FALSE
  BY DEF ResetAccepted
<1> QED
  BY <1>1 DEF Slots

(* The four parts together.                                                *)
LEMMA TypeParts ==
  /\ TypeOK <=> HostType /\ ClientType /\ ChannelType /\ BoundType
  /\ TypeOK' <=> HostType' /\ ClientType' /\ ChannelType' /\ BoundType'
BY DEF TypeOK, HostType, ClientType, ChannelType, BoundType

(* The slots and messages after a player is taken out.                     *)
LEMMA PlayerLeaveType ==
  ASSUME HostType, toClient \in [Client -> Seq(ToClient)], NEW c \in slots.players,
         game = "OPTIONS", game' = game, OnPlayerLeave(c)
  PROVE  HostType' /\ toClient' \in [Client -> Seq(ToClient)]
<1>1. HostType'
  <2> DEFINE P == slots.players \ {c}
             A == slots.accepted \ {c}
             others == [slots EXCEPT !.players = P, !.accepted = A]
  <2>1. others \in Slots /\ others.players = P
    BY DEF HostType, Slots
  <2>2. ResetAccepted(others) /\ open' = open + 1
    BY DEF OnPlayerLeave
  <2>3. slots' \in Slots /\ slots'.players = P /\ slots'.accepted = {} /\ timer' = FALSE
    BY <2>1, <2>2, ResetAcceptedType
  <2>4. Cardinality(P) = Cardinality(slots.players) - 1 /\ Cardinality(slots.players) \in Nat
    BY PlayersCount DEF HostType, Slots
  <2>5. open' \in 0 .. NumSlots - Cardinality(slots'.players)
    BY <2>2, <2>3, <2>4, Bounds DEF HostType
  <2> QED
    BY <2>3, <2>5 DEF HostType
<1>2. toClient' \in [Client -> Seq(ToClient)]
  <2> DEFINE others == [slots EXCEPT !.players = @ \ {c}, !.accepted = @ \ {c}]
             sent == Broadcast(toClient, Options(others))
  <2>1. Options(others) \in ToClient /\ Options(slots') \in ToClient
    BY <1>1, MessageTypes DEF HostType, Slots
  <2>2. sent \in [Client -> Seq(ToClient)]
    BY <2>1, BroadcastType
  <2>3. toClient' = IF Hears(c) THEN [sent EXCEPT ![c] = Append(@, Options(slots'))] ELSE sent
    BY DEF OnPlayerLeave
  <2> HIDE DEF sent
  <2> QED
    BY <2>1, <2>2, <2>3 DEF HostType, Slots
<1> QED
  BY <1>1, <1>2

(* The types hold at first.                                                *)
LEMMA TypeInit == Init => TypeOK
<1> SUFFICES ASSUME Init PROVE TypeOK
  OBVIOUS
<1>1. PICK P \in SUBSET Client : \E A \in SUBSET P :
        /\ Cardinality(P) <= NumSlots
        /\ slots = [players |-> P, accepted |-> A, options |-> 0]
        /\ open = NumSlots - Cardinality(P)
        /\ table = [c \in Client |-> IF c \in P THEN slots ELSE NoTable]
        /\ screen = [c \in Client |-> IF c \in P THEN "OPTIONS" ELSE "LOBBY"]
  BY DEF Init
<1>2. HostType
  <2>1. slots \in Slots /\ slots.accepted \subseteq slots.players /\ slots.players = P
    BY <1>1, Bounds DEF Slots
  <2>2. game = "OPTIONS" /\ timer = FALSE
    BY DEF Init
  <2>3. open \in 0 .. NumSlots - Cardinality(P)
    BY <1>1, PlayersNumber, Bounds
  <2> QED
    BY <2>1, <2>2, <2>3 DEF HostType
<1>3. ClientType
  <2>1. slots \in Slots /\ NoTable \in Slots
    BY <1>2, NoTableType DEF HostType
  <2>2. pendingAction = [c \in Client |-> "NONE"]
    BY DEF Init
  <2> QED
    BY <1>1, <2>1, <2>2 DEF ClientType, Screen, Pending
<1>4. ChannelType /\ BoundType
  BY BoundAssumption DEF Init, ChannelType, BoundType
<1> QED
  BY <1>2, <1>3, <1>4, TypeParts

(* What an action leaves alone keeps its type; so do the bounds in a move. *)
LEMMA Unchanged ==
  /\ HostType /\ UNCHANGED hostVars => HostType'
  /\ ClientType /\ UNCHANGED clientVars => ClientType'
  /\ BoundType /\ UNCHANGED boundVars => BoundType'
  /\ BoundType /\ Move => BoundType'
BY BoundAssumption
DEF HostType, hostVars, ClientType, clientVars, BoundType, boundVars, Move

(* Every step keeps the types.                                             *)
LEMMA TypeNext == TypeOK /\ [Next]_vars => TypeOK'
<1> SUFFICES ASSUME HostType, ClientType, ChannelType, BoundType, [Next]_vars
             PROVE  HostType' /\ ClientType' /\ ChannelType' /\ BoundType'
  BY TypeParts
<1>1. CASE HostChanges
  <2>1. ClientType' /\ BoundType'
    BY <1>1, Unchanged DEF HostChanges
  <2>2. HostType'
    <3>1. [slots EXCEPT !.options = @ + 1] \in Slots /\ [slots EXCEPT !.options = @ + 1].players = slots.players
      BY <1>1, Bounds DEF HostChanges, HostType, Slots, Unknown
    <3> QED
      BY <1>1, <3>1, ResetAcceptedType DEF HostChanges, HostType
  <2>3. ChannelType'
    BY <1>1, MessageTypes, BroadcastType, <2>2 DEF HostChanges, ChannelType, RequestGameOptions, HostType
  <2> QED
    BY <2>1, <2>2, <2>3
<1>2. CASE OpenOrClose
  <2>1. ClientType' /\ BoundType'
    BY <1>2, Unchanged DEF OpenOrClose
  <2>2. HostType'
    BY <1>2, PlayersCount, BoundAssumption DEF OpenOrClose, HostType
  <2>3. ChannelType'
    BY <1>2, MessageTypes, BroadcastType, <2>2 DEF OpenOrClose, ChannelType, RequestGameOptions, HostType
  <2> QED
    BY <2>1, <2>2, <2>3
<1>3. CASE StartPressed
  <2>1. ClientType' /\ BoundType'
    BY <1>3, Unchanged DEF StartPressed
  <2>2. HostType'
    <3>1. Cardinality(slots.players) \in Nat /\ NumSlots - Cardinality(slots.players) >= 0
      BY PlayersNumber, Bounds DEF HostType, Slots
    <3> QED
      BY <1>3, <3>1, Bounds DEF StartPressed, HostType
  <2>3. ChannelType'
    BY <1>3 DEF StartPressed, ChannelType
  <2> QED
    BY <2>1, <2>2, <2>3
<1>4. CASE HostLeaves
  <2>1. ClientType' /\ BoundType'
    BY <1>4, Unchanged DEF HostLeaves
  <2>2. HostType'
    BY <1>4 DEF HostLeaves, HostType
  <2>3. ChannelType'
    BY <1>4, MessageTypes, BroadcastType DEF HostLeaves, ChannelType
  <2> QED
    BY <2>1, <2>2, <2>3
<1>5. CASE RequestGameStart
  <2>1. ClientType' /\ BoundType'
    BY <1>5, Unchanged DEF RequestGameStart
  <2>2. HostType'
    BY <1>5 DEF RequestGameStart, HostType
  <2>3. ChannelType'
    BY <1>5, MessageTypes, BroadcastType DEF RequestGameStart, ChannelType
  <2> QED
    BY <2>1, <2>2, <2>3
<1>6. ASSUME NEW c \in Client, Kick(c)
      PROVE  HostType' /\ ClientType' /\ ChannelType' /\ BoundType'
  <2>1. ClientType' /\ BoundType'
    BY <1>6, Unchanged DEF Kick
  <2>2. HostType'
    <3> DEFINE P == slots.players \ {c}
    <3>1. [slots EXCEPT !.players = P] \in Slots /\ [slots EXCEPT !.players = P].players = P
      BY DEF HostType, Slots
    <3>2. slots' \in Slots /\ slots'.players = P /\ slots'.accepted = {} /\ timer' = FALSE
      BY <1>6, <3>1, ResetAcceptedType DEF Kick
    <3>3. Cardinality(P) = Cardinality(slots.players) - 1 /\ Cardinality(slots.players) \in Nat
      BY <1>6, PlayersCount DEF Kick, HostType, Slots
    <3>4. open' \in 0 .. NumSlots - Cardinality(slots'.players)
      BY <1>6, <3>2, <3>3, Bounds DEF Kick, HostType
    <3> QED
      BY <1>6, <3>2, <3>4 DEF Kick, HostType
  <2>3. ChannelType'
    BY <1>6, MessageTypes, BroadcastType, <2>2 DEF Kick, ChannelType, RequestGameOptions, HostType
  <2> QED
    BY <2>1, <2>2, <2>3
<1>7. ASSUME NEW c \in Client, RequestGameJoin(c)
      PROVE  HostType' /\ ClientType' /\ ChannelType' /\ BoundType'
  <2>1. HostType' /\ BoundType'
    BY <1>7, Unchanged DEF RequestGameJoin
  <2>2. ClientType'
    BY <1>7 DEF RequestGameJoin, ClientType, Pending
  <2>3. ChannelType'
    BY <1>7, SendType DEF RequestGameJoin, ChannelType, ToHost
  <2> QED
    BY <2>1, <2>2, <2>3
<1>8. ASSUME NEW c \in Client, RequestAccept(c)
      PROVE  HostType' /\ ClientType' /\ ChannelType' /\ BoundType'
  <2>1. HostType' /\ ClientType' /\ BoundType'
    BY <1>8, Unchanged DEF RequestAccept
  <2>2. ChannelType'
    BY <1>8, SendType DEF RequestAccept, ChannelType, ToHost
  <2> QED
    BY <2>1, <2>2
<1>9. ASSUME NEW c \in Client, ClientChanges(c)
      PROVE  HostType' /\ ClientType' /\ ChannelType' /\ BoundType'
  <2>1. HostType' /\ BoundType'
    BY <1>9, Unchanged DEF ClientChanges
  <2>2. ClientType'
    <3>1. table[c] \in Slots /\ {} \in SUBSET Client /\ Unknown \in {Unknown} \cup 0 .. MaxOptions
      BY DEF ClientType
    <3>2. [table[c] EXCEPT !.accepted = {}, !.options = Unknown] \in Slots
      <4> HIDE DEF Unknown
      <4> QED
        BY <3>1 DEF Slots
    <3> QED
      BY <1>9, <3>2 DEF ClientChanges, ClientType
  <2>3. ChannelType'
    BY <1>9, SendType DEF ClientChanges, ChannelType, ToHost
  <2> QED
    BY <2>1, <2>2, <2>3
<1>10. ASSUME NEW c \in Client, SetInactive(c)
      PROVE  HostType' /\ ClientType' /\ ChannelType' /\ BoundType'
  <2>1. HostType' /\ ClientType' /\ BoundType'
    BY <1>10, Unchanged DEF SetInactive
  <2>2. ChannelType'
    BY <1>10, SendType DEF SetInactive, ChannelType, ToHost
  <2> QED
    BY <2>1, <2>2
<1>11. ASSUME NEW c \in Client, RequestGameLeave(c)
      PROVE  HostType' /\ ClientType' /\ ChannelType' /\ BoundType'
  <2>1. HostType' /\ BoundType'
    BY <1>11, Unchanged DEF RequestGameLeave
  <2>2. ClientType'
    BY <1>11 DEF RequestGameLeave, ClientType, Pending
  <2>3. ChannelType'
    BY <1>11, MessageTypes, BroadcastType, SendType DEF RequestGameLeave, ChannelType, ToHost
  <2> QED
    BY <2>1, <2>2, <2>3
<1>12. ASSUME NEW c \in Client, HandleRequestJoin(c)
      PROVE  HostType' /\ ClientType' /\ ChannelType' /\ BoundType'
  <2>1. ClientType' /\ BoundType'
    BY <1>12, Unchanged DEF HandleRequestJoin
  <2>2. HostType'
    <3>1. CASE CanJoin(c)
      <4> DEFINE P == slots.players \cup {c}
      <4>1. [slots EXCEPT !.players = P] \in Slots /\ [slots EXCEPT !.players = P].players = P
        BY DEF HostType, Slots
      <4>2. slots' \in Slots /\ slots'.players = P /\ slots'.accepted = {} /\ timer' = FALSE
        BY <1>12, <3>1, <4>1, ResetAcceptedType DEF HandleRequestJoin
      <4>3. Cardinality(P) = Cardinality(slots.players) + 1 /\ Cardinality(slots.players) \in Nat
        BY <3>1, PlayersCount DEF CanJoin, HostType, Slots
      <4>4. open' \in 0 .. NumSlots - Cardinality(slots'.players)
        BY <1>12, <3>1, <4>2, <4>3, Bounds DEF HandleRequestJoin, CanJoin, HostType
      <4> QED
        BY <1>12, <4>2, <4>4 DEF HandleRequestJoin, HostType
    <3>2. CASE ~CanJoin(c)
      BY <1>12, <3>2 DEF HandleRequestJoin, HostType
    <3> QED
      BY <3>1, <3>2
  <2>3. ChannelType'
    <3>1. toHost' \in [Client -> Seq(ToHost)]
      BY <1>12, ReceiveType DEF HandleRequestJoin, ChannelType
    <3>2. Note("ACCEPT") \in ToClient /\ Note("DENY") \in ToClient
      BY MessageTypes
    <3>3. Options(slots) \in ToClient /\ Options(slots') \in ToClient
      BY <2>2, MessageTypes DEF HostType
    <3>4. CASE CanJoin(c)
      <4> DEFINE sent == Broadcast(toClient, Options(slots'))
      <4>1. sent \in [Client -> Seq(ToClient)]
        BY <3>3, BroadcastType DEF ChannelType
      <4>2. toClient' = [sent EXCEPT ![c] = toClient[c] \o <<Note("ACCEPT"), Options(slots')>>]
        BY <1>12, <3>4 DEF HandleRequestJoin
      <4>3. toClient[c] \o <<Note("ACCEPT"), Options(slots')>> \in Seq(ToClient)
        BY <3>2, <3>3 DEF ChannelType
      <4> HIDE DEF sent
      <4> QED
        BY <3>1, <4>1, <4>2, <4>3 DEF ChannelType
    <3>5. CASE ~CanJoin(c)
      <4> DEFINE denied == [toClient EXCEPT ![c] = Append(@, Note("DENY"))]
      <4>1. denied \in [Client -> Seq(ToClient)]
        BY <3>2 DEF ChannelType
      <4>2. toClient' = IF game = "GONE" THEN denied ELSE Broadcast(denied, Options(slots))
        BY <1>12, <3>5 DEF HandleRequestJoin
      <4> HIDE DEF denied
      <4> QED
        BY <3>1, <3>3, <4>1, <4>2, BroadcastType DEF ChannelType
    <3> QED
      BY <3>4, <3>5
  <2> QED
    BY <2>1, <2>2, <2>3
<1>13. ASSUME NEW c \in Client, HandleSetAccept(c)
      PROVE  HostType' /\ ClientType' /\ ChannelType' /\ BoundType'
  <2>1. ClientType' /\ BoundType'
    BY <1>13, Unchanged DEF HandleSetAccept
  <2>2. HostType'
    BY <1>13 DEF HandleSetAccept, HostType, Slots, Heeded
  <2>3. ChannelType'
    BY <1>13, MessageTypes, BroadcastType, <2>2, ReceiveType DEF HandleSetAccept, ChannelType, RequestGameOptions, HostType
  <2> QED
    BY <2>1, <2>2, <2>3
<1>14. ASSUME NEW c \in Client, HandleGameOptions(c)
      PROVE  HostType' /\ ClientType' /\ ChannelType' /\ BoundType'
  <2>1. ClientType' /\ BoundType'
    BY <1>14, Unchanged DEF HandleGameOptions
  <2>2. HostType'
    <3>1. CASE slots.options < MaxOptions /\ ResetAccepted([slots EXCEPT !.options = @ + 1])
      <4>1. [slots EXCEPT !.options = @ + 1] \in Slots
            /\ [slots EXCEPT !.options = @ + 1].players = slots.players
        BY <3>1, Bounds DEF HostType, Slots, Unknown
      <4> QED
        BY <1>14, <3>1, <4>1, ResetAcceptedType DEF HandleGameOptions, HostType
    <3>2. CASE UNCHANGED <<slots, timer, toClient>>
      BY <1>14, <3>2 DEF HandleGameOptions, HostType
    <3> QED
      BY <1>14, <3>1, <3>2 DEF HandleGameOptions
  <2>3. ChannelType'
    BY <1>14, MessageTypes, BroadcastType, <2>2, ReceiveType DEF HandleGameOptions, ChannelType, RequestGameOptions, HostType
  <2> QED
    BY <2>1, <2>2, <2>3
<1>15. ASSUME NEW c \in Client, HandleInActive(c)
      PROVE  HostType' /\ ClientType' /\ ChannelType' /\ BoundType'
  <2>1. ClientType' /\ BoundType'
    BY <1>15, Unchanged DEF HandleInActive
  <2>2. HostType'
    BY <1>15 DEF HandleInActive, HostType, Slots, Unaccepts, Heeded
  <2>3. ChannelType'
    BY <1>15, MessageTypes, BroadcastType, <2>2, ReceiveType DEF HandleInActive, ChannelType, RequestGameOptions, HostType
  <2> QED
    BY <2>1, <2>2, <2>3
<1>16. ASSUME NEW c \in Client, HandleRequestGameLeave(c)
      PROVE  HostType' /\ ClientType' /\ ChannelType' /\ BoundType'
  <2>1. ClientType' /\ BoundType'
    BY <1>16, Unchanged DEF HandleRequestGameLeave
  <2>2. HostType'
    BY <1>16, PlayerLeaveType DEF HandleRequestGameLeave, Heeded, ChannelType
  <2>3. ChannelType'
    BY <1>16, PlayerLeaveType, ReceiveType DEF HandleRequestGameLeave, ChannelType, Heeded
  <2> QED
    BY <2>1, <2>2, <2>3
<1>17. ASSUME NEW c \in Client, HandleNothing(c)
      PROVE  HostType' /\ ClientType' /\ ChannelType' /\ BoundType'
  <2>1. HostType' /\ ClientType' /\ BoundType'
    BY <1>17, Unchanged DEF HandleNothing
  <2>2. ChannelType'
    BY <1>17, ReceiveType DEF HandleNothing, ChannelType
  <2> QED
    BY <2>1, <2>2
<1>18. ASSUME NEW c \in Client, HandleJoinAccept(c)
      PROVE  HostType' /\ ClientType' /\ ChannelType' /\ BoundType'
  <2>1. HostType' /\ BoundType'
    BY <1>18, Unchanged DEF HandleJoinAccept
  <2>2. ClientType'
    BY <1>18, NoTableType DEF HandleJoinAccept, ClientType, Screen, Pending, Slots
  <2>3. ChannelType'
    <3>1. toClient' \in [Client -> Seq(ToClient)]
      BY <1>18, DoneType DEF HandleJoinAccept, ChannelType, Arrives
    <3>2. toHost' \in [Client -> Seq(ToHost)]
      BY <1>18, SendType DEF HandleJoinAccept, ChannelType, ToHost
    <3> QED
      BY <3>1, <3>2 DEF ChannelType
  <2> QED
    BY <2>1, <2>2, <2>3
<1>19. ASSUME NEW c \in Client, HandleJoinDeny(c)
      PROVE  HostType' /\ ClientType' /\ ChannelType' /\ BoundType'
  <2>1. HostType' /\ BoundType'
    BY <1>19, Unchanged DEF HandleJoinDeny
  <2>2. ClientType'
    BY <1>19 DEF HandleJoinDeny, ClientType, Pending
  <2>3. ChannelType'
    BY <1>19, DoneType DEF HandleJoinDeny, ChannelType, Arrives
  <2> QED
    BY <2>1, <2>2, <2>3
<1>20. ASSUME NEW c \in Client, OnGameOptions(c)
      PROVE  HostType' /\ ClientType' /\ ChannelType' /\ BoundType'
  <2>1. HostType'
    BY <1>20, Unchanged DEF OnGameOptions
  <2>2. ClientType'
    <3>1. CASE PopToLobby(c)
      BY <3>1, PopType DEF ClientType, ChannelType
    <3>2. CASE Done(c) /\ table' = [table EXCEPT ![c] = Head(toClient[c]).slots] /\ UNCHANGED <<screen, pendingAction>>
      <4>1. Head(toClient[c]) \in ToClient
        BY <1>20, <3>2, DoneType DEF OnGameOptions, Arrives, ChannelType
      <4>2. Head(toClient[c]).slots \in Slots
        BY <1>20, <4>1, MessageTypes DEF OnGameOptions, Arrives
      <4> QED
        BY <3>2, <4>2 DEF ClientType
    <3> QED
      BY <1>20, <3>1, <3>2 DEF OnGameOptions
  <2>3. ChannelType'
    <3>1. CASE PopToLobby(c)
      BY <1>20, <3>1, PopType DEF OnGameOptions, ClientType, ChannelType
    <3>2. CASE Done(c)
      BY <1>20, <3>2, DoneType DEF OnGameOptions, Arrives, ChannelType
    <3> QED
      BY <1>20, <3>1, <3>2 DEF OnGameOptions
  <2>4. BoundType'
    BY <1>20 DEF OnGameOptions, BoundType
  <2> QED
    BY <2>1, <2>2, <2>3, <2>4
<1>21. ASSUME NEW c \in Client, HandleGameStart(c)
      PROVE  HostType' /\ ClientType' /\ ChannelType' /\ BoundType'
  <2>1. HostType' /\ BoundType'
    BY <1>21, Unchanged DEF HandleGameStart
  <2>2. ClientType'
    BY <1>21 DEF HandleGameStart, ClientType, Screen
  <2>3. ChannelType'
    BY <1>21, DoneType DEF HandleGameStart, ChannelType, Arrives
  <2> QED
    BY <2>1, <2>2, <2>3
<1>22. ASSUME NEW c \in Client, HandleLeaveOfOther(c)
      PROVE  HostType' /\ ClientType' /\ ChannelType' /\ BoundType'
  <2>1. HostType' /\ BoundType'
    BY <1>22, Unchanged DEF HandleLeaveOfOther
  <2>2. ClientType'
    <3> DEFINE d == Head(toClient[c]).client
               old == table[c]
               new == [players |-> old.players \ {d}, accepted |-> {}, options |-> old.options]
    <3>1. old \in Slots
      BY DEF ClientType
    <3>2. new \in Slots
      <4> HIDE DEF old, d
      <4> QED
        BY <3>1 DEF Slots
    <3>3. table' = [table EXCEPT ![c] = new]
      BY <1>22 DEF HandleLeaveOfOther
    <3>4. UNCHANGED <<screen, pendingAction>>
      BY <1>22 DEF HandleLeaveOfOther
    <3> HIDE DEF new
    <3> QED
      BY <3>2, <3>3, <3>4 DEF ClientType
  <2>3. ChannelType'
    BY <1>22, DoneType DEF HandleLeaveOfOther, ChannelType, Arrives
  <2> QED
    BY <2>1, <2>2, <2>3
<1>23. ASSUME NEW c \in Client, OnHostLeave(c)
      PROVE  HostType' /\ ClientType' /\ ChannelType' /\ BoundType'
  <2>1. HostType' /\ BoundType'
    BY <1>23, Unchanged DEF OnHostLeave
  <2>2. ClientType'
    BY <1>23, PopType DEF OnHostLeave, ClientType, ChannelType
  <2>3. ChannelType'
    BY <1>23, PopType DEF OnHostLeave, ChannelType, ClientType
  <2> QED
    BY <2>1, <2>2, <2>3
<1>24. ASSUME NEW c \in Client, IgnoreMessage(c)
      PROVE  HostType' /\ ClientType' /\ ChannelType' /\ BoundType'
  <2>1. HostType' /\ ClientType' /\ BoundType'
    BY <1>24, Unchanged DEF IgnoreMessage
  <2>2. ChannelType'
    BY <1>24, DoneType DEF IgnoreMessage, ChannelType
  <2> QED
    BY <2>1, <2>2
<1>25. ASSUME NEW c \in Client, HandleGameAnnounce(c)
      PROVE  HostType' /\ ClientType' /\ ChannelType' /\ BoundType'
  <2>1. HostType' /\ BoundType'
    BY <1>25, Unchanged DEF HandleGameAnnounce
  <2>2. ClientType'
    BY <1>25 DEF HandleGameAnnounce, ClientType, Screen, HostType
  <2>3. ChannelType'
    BY <1>25 DEF HandleGameAnnounce, ChannelType
  <2> QED
    BY <2>1, <2>2, <2>3
<1>26. ASSUME NEW c \in Client, DropPlayer(c)
      PROVE  HostType' /\ ClientType' /\ ChannelType' /\ BoundType'
  <2>1. ClientType' /\ BoundType'
    BY <1>26, Unchanged DEF DropPlayer
  <2>2. HostType'
    BY <1>26, PlayerLeaveType DEF DropPlayer, ChannelType
  <2>3. ChannelType'
    BY <1>26, PlayerLeaveType DEF DropPlayer, ChannelType
  <2> QED
    BY <2>1, <2>2, <2>3
<1>27. ASSUME NEW c \in Client, Resend(c)
      PROVE  HostType' /\ ClientType' /\ ChannelType' /\ BoundType'
  <2>1. HostType' /\ ClientType' /\ BoundType'
    BY <1>27, Unchanged DEF Resend
  <2>2. ChannelType'
    BY <1>27, MessageTypes DEF Resend, ChannelType, HostType
  <2> QED
    BY <2>1, <2>2
<1>28. ASSUME NEW c \in Client, TimeOut(c)
      PROVE  HostType' /\ ClientType' /\ ChannelType' /\ BoundType'
  <2>1. HostType' /\ BoundType'
    BY <1>28, Unchanged DEF TimeOut
  <2>2. ClientType'
    <3>1. CASE PopToLobby(c)
      BY <3>1, PopType DEF ClientType, ChannelType
    <3>2. CASE /\ pendingAction' = [pendingAction EXCEPT ![c] = "NONE"]
               /\ screen' = IF screen[c] = "STARTED" THEN [screen EXCEPT ![c] = "ADRIFT"] ELSE screen
               /\ UNCHANGED table
      BY <3>2 DEF ClientType, Screen, Pending
    <3> QED
      BY <1>28, <3>1, <3>2 DEF TimeOut
  <2>3. ChannelType'
    BY <1>28, PopType DEF TimeOut, ChannelType, ClientType
  <2> QED
    BY <2>1, <2>2, <2>3
<1>29. ASSUME NEW c \in Client, BailOut(c)
      PROVE  HostType' /\ ClientType' /\ ChannelType' /\ BoundType'
  <2>1. HostType' /\ BoundType'
    BY <1>29, Unchanged DEF BailOut
  <2>2. ClientType'
    BY <1>29, PopType DEF BailOut, ClientType, ChannelType
  <2>3. ChannelType'
    BY <1>29, PopType DEF BailOut, ChannelType, ClientType
  <2> QED
    BY <2>1, <2>2, <2>3
<1>30. ASSUME NEW c \in Client, Lose(c)
      PROVE  HostType' /\ ClientType' /\ ChannelType' /\ BoundType'
  <2>1. HostType' /\ ClientType'
    BY <1>30, Unchanged DEF Lose
  <2>2. ChannelType'
    <3>1. CASE toHost[c] # <<>> /\ toHost' = [toHost EXCEPT ![c] = Tail(@)] /\ UNCHANGED toClient
      BY <3>1 DEF ChannelType
    <3>2. CASE toClient[c] # <<>> /\ Done(c) /\ UNCHANGED toHost
      BY <3>2, DoneType DEF ChannelType
    <3> QED
      BY <1>30, <3>1, <3>2 DEF Lose
  <2>3. BoundType'
    BY <1>30, Bounds DEF Lose, BoundType
  <2> QED
    BY <2>1, <2>2, <2>3
<1>31. CASE UNCHANGED vars
  BY <1>31, Unchanged DEF vars, hostVars, clientVars, boundVars, ChannelType
<1> QED
  BY <1>1, <1>2, <1>3, <1>4, <1>5, <1>6, <1>7, <1>8, <1>9, <1>10, <1>11, <1>12, <1>13, <1>14, <1>15, <1>16, <1>17, <1>18, <1>19, <1>20, <1>21, <1>22, <1>23, <1>24, <1>25, <1>26, <1>27, <1>28, <1>29, <1>30, <1>31
  DEF Next, HostUser, ClientUser, HostHandles, ClientHandles, Update, Works

(* Every variable of LANAPI keeps its type, and the host never has more    *)
(* players and open slots than slots, nor the accept of one who is not     *)
(* there, whatever was sent, lost or asked for in between.                 *)
THEOREM TypeCorrect == Spec => []TypeOK
<1> QED
  BY TypeInit, TypeNext, PTL DEF Spec

----------------------------------------------------------------------------
(* Accepts are taken back with the countdown ended.                        *)
LEMMA ResetEnds ==
  ASSUME NEW s, ResetAccepted(s)
  PROVE  timer' = FALSE
BY DEF ResetAccepted

(* Every step keeps CountdownAccepted.                                     *)
LEMMA CountdownNext == TypeOK /\ CountdownAccepted /\ [Next]_vars => CountdownAccepted'
<1> SUFFICES ASSUME HostType, CountdownAccepted, [Next]_vars, timer'
             PROVE  game' = "OPTIONS" /\ slots'.accepted = slots'.players
  BY TypeParts DEF CountdownAccepted
<1>1. CASE UNCHANGED hostVars
  BY <1>1 DEF hostVars, CountdownAccepted
<1>2. CASE HostChanges \/ RequestGameStart \/ HostLeaves \/ \E c \in Client : Kick(c)
  BY <1>2, ResetEnds DEF HostChanges, RequestGameStart, HostLeaves, Kick
<1>3. CASE OpenOrClose
  BY <1>3 DEF OpenOrClose, CountdownAccepted
<1>4. CASE StartPressed
  BY <1>4 DEF StartPressed
<1>5. ASSUME NEW c \in Client, HandleRequestJoin(c) \/ HandleGameOptions(c)
      PROVE  game' = "OPTIONS" /\ slots'.accepted = slots'.players
  BY <1>5, ResetEnds DEF HandleRequestJoin, HandleGameOptions, CountdownAccepted
<1>6. ASSUME NEW c \in Client, HandleSetAccept(c)
      PROVE  game' = "OPTIONS" /\ slots'.accepted = slots'.players
  <2>1. timer /\ game' = "OPTIONS" /\ c \in slots.players
    BY <1>6 DEF HandleSetAccept, Heeded
  <2>2. slots' = [slots EXCEPT !.accepted = slots.accepted \cup {c}]
    BY <1>6 DEF HandleSetAccept
  <2>3. slots'.players = slots.players /\ slots'.accepted = slots.accepted \cup {c}
    BY <2>2 DEF HostType, Slots
  <2> QED
    BY <2>1, <2>3 DEF CountdownAccepted
<1>7. ASSUME NEW c \in Client, HandleInActive(c)
      PROVE  FALSE
  BY <1>7 DEF HandleInActive, Unaccepts
<1>8. ASSUME NEW c \in Client, HandleRequestGameLeave(c) \/ DropPlayer(c)
      PROVE  FALSE
  BY <1>8, ResetEnds DEF HandleRequestGameLeave, DropPlayer, OnPlayerLeave
<1>9. ASSUME NEW c \in Client, ClientUser(c) \/ ClientHandles(c) \/ Lose(c)
      PROVE  UNCHANGED hostVars
  BY <1>9
  DEF ClientUser, RequestGameJoin, RequestAccept, ClientChanges, SetInactive, RequestGameLeave,
      ClientHandles, HandleJoinAccept, HandleJoinDeny, OnGameOptions, HandleGameStart,
      HandleLeaveOfOther, OnHostLeave, IgnoreMessage, HandleGameAnnounce, Lose
<1>10. ASSUME NEW c \in Client, HandleNothing(c) \/ Resend(c) \/ TimeOut(c) \/ BailOut(c)
       PROVE  UNCHANGED hostVars
  BY <1>10 DEF HandleNothing, Resend, TimeOut, BailOut
<1>11. CASE UNCHANGED vars
  BY <1>1, <1>11 DEF vars, hostVars
<1> QED
  BY <1>1, <1>2, <1>3, <1>4, <1>5, <1>6, <1>7, <1>8, <1>9, <1>10, <1>11
  DEF Next, HostUser, HostHandles, Update, Works

(* While the host counts down every player's accept stands, however many   *)
(* players join, leave, change their minds or are thrown out meanwhile.    *)
THEOREM CountdownIsAccepted == Spec => []CountdownAccepted
<1>1. Init => CountdownAccepted
  BY DEF Init, CountdownAccepted
<1> QED
  BY <1>1, TypeCorrect, CountdownNext, PTL DEF Spec

----------------------------------------------------------------------------
(* Why those who start together agree.  A message of the host that is      *)
(* followed by its next options no longer matters to the one it is sent    *)
(* to, nor does what follows the START: of the others, the options are     *)
(* those of the host, and whoever has left is leaving.  The same holds of  *)
(* the table of one to whom no options are under way.                      *)
Positions(c) == 1 .. Len(toClient[c])
Has(c, i, type) == toClient[c][i].type = type
Starts(c) == \E i \in Positions(c) : Has(c, i, "START")
Before(c) == {i \in Positions(c) : \A j \in 1 .. i : ~Has(c, j, "START")}
Outdated(c, i) == \E j \in Before(c) : i < j /\ Has(c, j, "OPTIONS")
MayStart(c) == game = "OPTIONS" \/ Starts(c)

(* d is out of the game, or on its way, and does not come back unless the  *)
(* host takes its slot and gives it one anew.                              *)
Quits(d) ==
  \/ screen[d] \in {"FLAGGED", "ADRIFT"}
  \/ pendingAction[d] = "LEAVE"
  \/ screen[d] = "LOBBY" /\ \A i \in Positions(d) : ~Has(d, i, "ACCEPT")

(* An accept may have been taken back that s still has.                    *)
CurrentIn(s, t) == s.players = t.players /\ s.options = t.options /\ t.accepted \subseteq s.accepted

(* c sees the players but for those who quit, and either knows that it has *)
(* accepted and the options it has accepted, or that somebody has left.    *)
Agrees(c) ==
  /\ c \in table[c].players /\ table[c].players \subseteq slots.players
  /\ \A d \in slots.players \ table[c].players : Quits(d)
  /\ table[c].players = slots.players /\ c \in slots.accepted
     => c \in table[c].accepted /\ table[c].options = slots.options

(* Who is asking to join is in the lobby, who is leaving is not, and only  *)
(* a game that has started is anywhere else than in its menu.              *)
ScreenFits(c) ==
  /\ pendingAction[c] = "JOIN" => screen[c] = "LOBBY"
  /\ pendingAction[c] = "LEAVE" => screen[c] # "LOBBY"
  /\ screen[c] \in {"FLAGGED", "STARTED", "ADRIFT"} => game = "STARTED"

(* The options follow each JOIN_ACCEPT, and the start is sent once.        *)
MessagesFit(c) ==
  \A i \in Positions(c) :
    /\ Has(c, i, "ACCEPT") => i + 1 \in Positions(c) /\ Has(c, i + 1, "OPTIONS")
    /\ Has(c, i, "START") => game = "STARTED" /\ \A j \in Positions(c) : Has(c, j, "START") => j = i

MessageAgrees(c, m) ==
  /\ m.type = "OPTIONS" => CurrentIn(m.slots, slots)
  /\ m.type = "LEAVE" => m.client # c /\ (m.client \in slots.players => Quits(m.client))
MessagesAgree(c) ==
  MayStart(c) => \A i \in Before(c) : ~Outdated(c, i) => MessageAgrees(c, toClient[c][i])
TableAgrees(c) ==
  c \notin missed =>
    /\ screen[c] = "OPTIONS" /\ MayStart(c) /\ ~Outdated(c, 0) => Agrees(c)
    /\ screen[c] = "STARTED" => Agrees(c)

StartAccepted == game = "STARTED" => slots.accepted = slots.players
ClientInv(c) == ScreenFits(c) /\ MessagesFit(c) /\ MessagesAgree(c) /\ TableAgrees(c)
AgreeInv == StartAccepted /\ \A c \in Client : ClientInv(c)

(* Once it has started everybody's accept stands for good.                 *)
LEMMA AgreeEnough == TypeOK /\ AgreeInv => StartedAgree
<1> SUFFICES ASSUME TypeOK, AgreeInv, NEW c \in Client, screen[c] = "STARTED", c \notin missed
             PROVE  /\ table[c].players \subseteq slots.players
                    /\ \A d \in slots.players \ table[c].players :
                         screen[d] \in {"LOBBY", "FLAGGED", "ADRIFT"} \/ pendingAction[d] = "LEAVE"
                    /\ table[c].players = slots.players => table[c].options = slots.options
  BY DEF StartedAgree
<1>1. Agrees(c) /\ ScreenFits(c)
  BY DEF AgreeInv, ClientInv, TableAgrees
<1>2. slots.accepted = slots.players
  BY <1>1 DEF AgreeInv, StartAccepted, ScreenFits
<1>3. \A d \in slots.players \ table[c].players :
        screen[d] \in {"LOBBY", "FLAGGED", "ADRIFT"} \/ pendingAction[d] = "LEAVE"
  BY <1>1 DEF Agrees, Quits
<1> QED
  BY <1>1, <1>2, <1>3 DEF Agrees

(* At first all know the slots.                                            *)
LEMMA AgreeInit == Init => AgreeInv
<1> SUFFICES ASSUME Init PROVE AgreeInv
  OBVIOUS
<1>1. PICK P \in SUBSET Client : \E A \in SUBSET P :
        /\ slots = [players |-> P, accepted |-> A, options |-> 0]
        /\ screen = [c \in Client |-> IF c \in P THEN "OPTIONS" ELSE "LOBBY"]
        /\ table = [c \in Client |-> IF c \in P THEN slots ELSE NoTable]
  BY DEF Init
<1>2. game = "OPTIONS" /\ pendingAction = [c \in Client |-> "NONE"] /\ toClient = [c \in Client |-> <<>>]
  BY DEF Init
<1>3. \A c \in Client : Positions(c) = {} /\ Before(c) = {}
  BY <1>2 DEF Positions, Before
<1>4. ASSUME NEW c \in Client PROVE ScreenFits(c) /\ MessagesFit(c) /\ MessagesAgree(c)
  BY <1>1, <1>2, <1>3 DEF ScreenFits, MessagesFit, MessagesAgree
<1>5. ASSUME NEW c \in Client PROVE TableAgrees(c)
  <2>1. screen[c] # "STARTED" /\ (screen[c] = "OPTIONS" => c \in P /\ table[c] = slots)
    BY <1>1
  <2>2. slots.players = P
    BY <1>1
  <2> QED
    BY <2>1, <2>2 DEF TableAgrees, Agrees
<1> QED
  BY <1>2, <1>4, <1>5 DEF AgreeInv, ClientInv, StartAccepted

----------------------------------------------------------------------------
(* The steps of the host that change the slots: all who can hear are told. *)
Told(c) ==
  /\ Len(toClient[c]) < Len(toClient'[c])
  /\ \A i \in Positions(c) : toClient'[c][i] = toClient[c][i]
  /\ \A i \in Len(toClient[c]) + 1 .. Len(toClient'[c]) :
       /\ toClient'[c][i].type \notin {"START", "LEAVE"}
       /\ toClient'[c][i].type = "ACCEPT" => i + 1 = Len(toClient'[c])
  /\ LET m == toClient'[c][Len(toClient'[c])]
     IN m.type = "OPTIONS" /\ CurrentIn(m.slots, slots')

(* Or cannot hear, and may hear that it is not let in.                     *)
Unheard(c) == ~Hears(c) /\ toClient'[c] \in {<<>>, <<Note("DENY")>>}

(* One who is told, or cannot hear, agrees.                                *)
LEMMA ToldAgrees ==
  ASSUME TypeOK, TypeOK', NEW c \in Client, ClientInv(c), Told(c) \/ Unheard(c),
         game = "OPTIONS", UNCHANGED <<game, screen, pendingAction>>
  PROVE  ClientInv(c)'
<1>1. ScreenFits(c)'
  BY DEF ClientInv, ScreenFits
<1>2. screen'[c] # "STARTED" /\ \A i \in Positions(c) : ~Has(c, i, "START")
  BY DEF ClientInv, ScreenFits, MessagesFit
<1>3. CASE Told(c)
  <2>0. PICK n \in Nat, k \in Nat : n = Len(toClient[c]) /\ k = Len(toClient'[c])
    BY DEF TypeOK
  <2>1. n < k /\ Positions(c) = 1 .. n /\ Positions(c)' = 1 .. k
    BY <1>3, <2>0 DEF Told, Positions
  <2>2. \A i \in 1 .. n : \A t : Has(c, i, t)' <=> Has(c, i, t)
    BY <1>3, <2>1 DEF Told, Has
  <2>3. \A i \in n + 1 .. k : /\ ~Has(c, i, "START")'
                              /\ Has(c, i, "ACCEPT")' => i + 1 = k
    BY <1>3, <2>0 DEF Told, Has
  <2>4. Has(c, k, "OPTIONS")' /\ CurrentIn(toClient'[c][k].slots, slots')
    BY <1>3, <2>0 DEF Told, Has
  <2>5. \A i \in 1 .. k : ~Has(c, i, "START")'
    BY <1>2, <2>1, <2>2, <2>3
  <2>6. k \in Before(c)'
    BY <2>1, <2>5 DEF Before
  <2>7. \A i \in 0 .. k : i # k => Outdated(c, i)'
    BY <2>1, <2>4, <2>6 DEF Outdated
  <2>8. MessagesFit(c)'
    <3>1. ASSUME NEW i \in 1 .. k, Has(c, i, "ACCEPT")'
          PROVE  i + 1 \in 1 .. k /\ Has(c, i + 1, "OPTIONS")'
      <4>1. CASE i \in 1 .. n
        <5>1. i + 1 \in 1 .. n /\ Has(c, i + 1, "OPTIONS")
          BY <2>1, <2>2, <3>1, <4>1 DEF ClientInv, MessagesFit
        <5> QED
          BY <2>1, <2>2, <5>1
      <4>2. CASE i \in n + 1 .. k
        BY <2>1, <2>3, <2>4, <3>1, <4>2
      <4> QED
        BY <2>1, <4>1, <4>2
    <3> QED
      BY <2>1, <2>5, <3>1 DEF MessagesFit
  <2>9. MessagesAgree(c)'
    <3>1. \A i \in Before(c)' : i \in 0 .. k
      BY <2>1 DEF Before
    <3>2. ASSUME NEW i \in Before(c)', i = k PROVE MessageAgrees(c, toClient[c][i])'
      BY <2>4, <3>2 DEF MessageAgrees, Has
    <3> QED
      BY <2>7, <3>1, <3>2 DEF MessagesAgree
  <2>10. TableAgrees(c)'
    BY <1>2, <2>1, <2>7 DEF TableAgrees
  <2> QED
    BY <1>1, <2>8, <2>9, <2>10 DEF ClientInv
<1>4. CASE Unheard(c)
  <2>1. screen'[c] # "OPTIONS"
    BY <1>4 DEF Unheard, Hears
  <2>2. \A i \in Positions(c)' : toClient'[c][i].type = "DENY"
    BY <1>4 DEF Unheard, Positions, Note
  <2>3. MessagesFit(c)'
    BY <2>2 DEF MessagesFit, Has
  <2>4. MessagesAgree(c)'
    BY <2>2 DEF MessagesAgree, Before, MessageAgrees
  <2>5. TableAgrees(c)'
    BY <1>2, <2>1 DEF TableAgrees
  <2> QED
    BY <1>1, <2>3, <2>4, <2>5 DEF ClientInv
<1> QED
  BY <1>3, <1>4

ToldStep ==
  /\ game = "OPTIONS" /\ UNCHANGED game /\ UNCHANGED clientVars
  /\ \A c \in Client : Told(c) \/ Unheard(c)

LEMMA ToldAgree == TypeOK /\ TypeOK' /\ AgreeInv /\ ToldStep => AgreeInv'
BY ToldAgrees DEF ToldStep, clientVars, AgreeInv, StartAccepted

(* A broadcast of options that are the new ones.                           *)
LEMMA BroadcastTells ==
  ASSUME toClient \in [Client -> Seq(ToClient)], NEW s \in Slots, CurrentIn(s, slots'),
         NEW c \in Client, toClient'[c] = Broadcast(toClient, Options(s))[c]
  PROVE  Told(c) \/ Unheard(c)
<1>1. PICK n \in Nat : n = Len(toClient[c])
  OBVIOUS
<1>2. CASE Hears(c)
  <2>1. toClient'[c] = Append(toClient[c], Options(s)) /\ Options(s) \in ToClient
    BY <1>2, MessageTypes DEF Broadcast
  <2>2. Len(toClient'[c]) = n + 1 /\ toClient'[c][n + 1] = Options(s)
    BY <1>1, <2>1
  <2>3. \A i \in 1 .. n : toClient'[c][i] = toClient[c][i]
    BY <1>1, <2>1
  <2> QED
    BY <1>1, <2>2, <2>3 DEF Told, Positions, Options
<1>3. CASE ~Hears(c)
  <2>1. toClient[c] = <<>> /\ toClient'[c] = toClient[c]
    BY <1>3 DEF Broadcast, Hears
  <2> QED
    BY <1>3, <2>1 DEF Unheard
<1> QED
  BY <1>2, <1>3

(* c is sent two messages, the second of them with the new options.        *)
LEMMA TwoTell ==
  ASSUME NEW c \in Client, toClient[c] \in Seq(ToClient), NEW m \in ToClient, NEW s \in Slots,
         m.type \notin {"START", "LEAVE"}, CurrentIn(s, slots'),
         \/ toClient'[c] = Append(Append(toClient[c], m), Options(s))
         \/ toClient'[c] = toClient[c] \o <<m, Options(s)>>
  PROVE  Told(c)
<1>1. PICK n \in Nat : n = Len(toClient[c])
  OBVIOUS
<1>2. PICK o \in ToClient : o = Options(s)
  BY MessageTypes
<1>3. /\ Len(toClient'[c]) = n + 2 /\ \A i \in 1 .. n : toClient'[c][i] = toClient[c][i]
      /\ toClient'[c][n + 1] = m /\ toClient'[c][n + 2] = o
  <2>1. CASE toClient'[c] = Append(Append(toClient[c], m), o)
    BY <1>1, <2>1
  <2>2. CASE toClient'[c] = toClient[c] \o <<m, o>>
    BY <1>1, <2>2
  <2> QED
    BY <1>2, <2>1, <2>2
<1> QED
  BY <1>1, <1>2, <1>3 DEF Told, Positions, Options

LEMMA TakenBack ==
  ASSUME NEW s \in Slots, ResetAccepted(s)
  PROVE  slots'.players = s.players /\ slots'.options = s.options /\ slots'.accepted = {}
BY DEF ResetAccepted, Slots

LEMMA OptionsTold ==
  ASSUME TypeOK, TypeOK', RequestGameOptions, game = "OPTIONS", UNCHANGED <<game, clientVars>>
  PROVE  ToldStep
<1>1. CurrentIn(slots', slots') /\ slots' \in Slots
  BY DEF CurrentIn, TypeOK
<1> QED
  BY <1>1, BroadcastTells DEF TypeOK, RequestGameOptions, ToldStep

LEMMA PlayerLeaveTold ==
  ASSUME TypeOK, TypeOK', NEW c \in Client, OnPlayerLeave(c), game = "OPTIONS", UNCHANGED <<game, clientVars>>
  PROVE  ToldStep
<1> DEFINE others == [slots EXCEPT !.players = @ \ {c}, !.accepted = @ \ {c}]
           sent == Broadcast(toClient, Options(others))
<1>1. others \in Slots
  BY DEF TypeOK, Slots
<1>2. CurrentIn(others, slots') /\ CurrentIn(slots', slots') /\ slots' \in Slots
  BY <1>1, TakenBack DEF OnPlayerLeave, CurrentIn, TypeOK
<1>3. toClient' = IF Hears(c) THEN [sent EXCEPT ![c] = Append(@, Options(slots'))] ELSE sent
  BY DEF OnPlayerLeave
<1>4. sent \in [Client -> Seq(ToClient)] /\ toClient[c] \in Seq(ToClient)
  BY <1>1, MessageTypes, BroadcastType DEF TypeOK
<1>5. ASSUME NEW e \in Client PROVE Told(e) \/ Unheard(e)
  <2>1. CASE e = c /\ Hears(c)
    <3>1. toClient'[c] = Append(sent[c], Options(slots'))
      BY <1>3, <1>4, <2>1
    <3>2. sent[c] = Append(toClient[c], Options(others))
      BY <2>1 DEF Broadcast
    <3>3. Options(others).type = "OPTIONS" /\ Options(others) \in ToClient
      BY <1>1, MessageTypes DEF Options
    <3> HIDE DEF sent, others
    <3> QED
      BY <1>2, <1>4, <2>1, <3>1, <3>2, <3>3, TwoTell
  <2>2. CASE ~(e = c /\ Hears(c))
    <3>1. toClient'[e] = sent[e]
      BY <1>3, <1>4, <2>2
    <3> HIDE DEF others
    <3> QED
      BY <1>1, <1>2, <3>1, BroadcastTells DEF TypeOK
  <2> QED
    BY <2>1, <2>2
<1> QED
  BY <1>5 DEF ToldStep

LEMMA JoinTold ==
  ASSUME TypeOK, TypeOK', NEW c \in Client, HandleRequestJoin(c), game = "OPTIONS"
  PROVE  ToldStep
<1>0. toClient \in [Client -> Seq(ToClient)] /\ toClient[c] \in Seq(ToClient) /\ slots \in Slots
  BY DEF TypeOK
<1>1. /\ CurrentIn(slots', slots') /\ slots' \in Slots /\ UNCHANGED <<game, clientVars>>
      /\ \A t \in {"ACCEPT", "DENY"} : Note(t) \in ToClient
  BY MessageTypes DEF CurrentIn, HandleRequestJoin, TypeOK
<1>2. ASSUME NEW e \in Client PROVE Told(e) \/ Unheard(e)
  <2>1. CASE CanJoin(c)
    <3> DEFINE sent == Broadcast(toClient, Options(slots'))
    <3>1. toClient' = [sent EXCEPT ![c] = toClient[c] \o <<Note("ACCEPT"), Options(slots')>>]
      BY <2>1 DEF HandleRequestJoin
    <3>2. CASE e = c
      <4>1. toClient'[c] = toClient[c] \o <<Note("ACCEPT"), Options(slots')>>
        BY <3>1 DEF Broadcast
      <4> QED
        BY <1>0, <1>1, <3>2, <4>1, TwoTell DEF Note
    <3>3. CASE e # c
      <4>1. toClient'[e] = sent[e]
        BY <3>1, <3>3 DEF Broadcast
      <4> QED
        BY <1>0, <1>1, <4>1, BroadcastTells
    <3> QED
      BY <3>2, <3>3
  <2>2. CASE ~CanJoin(c)
    <3> DEFINE denied == [toClient EXCEPT ![c] = Append(@, Note("DENY"))]
    <3>1. toClient' = Broadcast(denied, Options(slots)) /\ slots' = slots
      BY <2>2 DEF HandleRequestJoin
    <3>2. CASE e = c
      <4>1. denied[c] = Append(toClient[c], Note("DENY"))
        BY <1>0
      <4>2. CASE Hears(c)
        <5>1. toClient'[c] = Append(Append(toClient[c], Note("DENY")), Options(slots'))
          BY <3>1, <4>1, <4>2 DEF Broadcast
        <5> QED
          BY <1>0, <1>1, <3>2, <5>1, TwoTell DEF Note
      <4>3. CASE ~Hears(c)
        <5>1. toClient[c] = <<>> /\ toClient'[c] = Append(toClient[c], Note("DENY"))
          BY <3>1, <4>1, <4>3 DEF Broadcast, Hears
        <5> QED
          BY <3>2, <4>3, <5>1 DEF Unheard
      <4> QED
        BY <4>2, <4>3
    <3>3. CASE e # c
      <4>1. toClient'[e] = Broadcast(toClient, Options(slots'))[e]
        BY <1>0, <3>1, <3>3 DEF Broadcast
      <4> QED
        BY <1>0, <1>1, <4>1, BroadcastTells
    <3> QED
      BY <3>2, <3>3
  <2> QED
    BY <2>1, <2>2
<1> QED
  BY <1>1, <1>2 DEF ToldStep

----------------------------------------------------------------------------
(* The other steps leave the slots alone, and who quits goes on to.        *)
StillQuits(d) == d \in slots.players /\ Quits(d) => Quits(d)'
SameSlots == UNCHANGED slots /\ \A d \in Client : StillQuits(d)

(* Nothing has changed for c.                                              *)
Untouched(c) ==
  screen'[c] = screen[c] /\ pendingAction'[c] = pendingAction[c] /\ toClient'[c] = toClient[c]
Aside(c) == Untouched(c) /\ table'[c] = table[c] /\ (c \in missed => c \in missed')

LEMMA UntouchedQuits == \A d : Untouched(d) => StillQuits(d)
BY DEF Untouched, StillQuits, Quits, Positions, Has

(* d is sent something else than a JOIN_ACCEPT.                            *)
LEMMA SentQuits ==
  ASSUME NEW d \in Client, toClient[d] \in Seq(ToClient),
         screen'[d] = screen[d], pendingAction'[d] = pendingAction[d],
         NEW m \in ToClient, m.type # "ACCEPT", toClient'[d] = Append(toClient[d], m)
  PROVE  StillQuits(d)
<1>1. PICK n \in Nat : n = Len(toClient[d])
  OBVIOUS
<1>2. Len(toClient'[d]) = n + 1 /\ toClient'[d][n + 1] = m
  BY <1>1
<1>3. \A i \in 1 .. n : toClient'[d][i] = toClient[d][i]
  BY <1>1
<1>4. \A i \in 1 .. n + 1 : i \in 1 .. n \/ i = n + 1
  BY <1>1
<1> QED
  BY <1>1, <1>2, <1>3, <1>4 DEF StillQuits, Quits, Positions, Has

(* d has handled a message and is still where it was, or has lost it.      *)
LEMMA DoneQuits ==
  ASSUME NEW d \in Client, toClient[d] \in Seq(ToClient), toClient[d] # <<>>,
         screen'[d] = screen[d], pendingAction[d] # "LEAVE" \/ pendingAction'[d] = "LEAVE",
         toClient'[d] = Tail(toClient[d])
  PROVE  StillQuits(d)
BY DEF StillQuits, Quits, Positions, Has

(* Who quits keeps the table of c in agreement as long as c keeps it.      *)
LEMMA AgreesKept ==
  ASSUME TypeOK, NEW c \in Client, SameSlots, table'[c] = table[c], Agrees(c)
  PROVE  Agrees(c)'
<1>1. \A d \in slots.players : Quits(d) => Quits(d)'
  BY DEF SameSlots, StillQuits, TypeOK, Slots
<1> QED
  BY <1>1 DEF Agrees, SameSlots

LEMMA MessageKept ==
  ASSUME TypeOK, NEW c \in Client, SameSlots, NEW m, MessageAgrees(c, m)
  PROVE  MessageAgrees(c, m)'
<1>1. \A d \in slots.players : Quits(d) => Quits(d)'
  BY DEF SameSlots, StillQuits, TypeOK, Slots
<1> QED
  BY <1>1 DEF MessageAgrees, SameSlots

(* The messages to c are what they were.                                   *)
LEMMA ChannelKept ==
  ASSUME TypeOK, NEW c \in Client, ClientInv(c), SameSlots, UNCHANGED game,
         toClient'[c] = toClient[c]
  PROVE  /\ MessagesFit(c)' /\ MessagesAgree(c)'
         /\ MayStart(c)' = MayStart(c) /\ Outdated(c, 0)' = Outdated(c, 0)
<1>1. Positions(c)' = Positions(c) /\ Before(c)' = Before(c) /\ MayStart(c)' = MayStart(c)
  BY DEF Positions, Before, Has, MayStart, Starts
<1>2. \A i : Outdated(c, i)' = Outdated(c, i)
  BY <1>1 DEF Outdated, Has
<1>3. MessagesFit(c)'
  BY <1>1 DEF ClientInv, MessagesFit, Has
<1>4. MessagesAgree(c)'
  <2> SUFFICES ASSUME MayStart(c)', NEW i \in Before(c)', ~Outdated(c, i)'
               PROVE  MessageAgrees(c, toClient[c][i])'
    BY DEF MessagesAgree
  <2>1. MessageAgrees(c, toClient[c][i])
    BY <1>1, <1>2 DEF ClientInv, MessagesAgree
  <2>2. ASSUME NEW m, m = toClient[c][i] PROVE MessageAgrees(c, toClient[c][i])'
    <3>1. MessageAgrees(c, m)'
      BY <2>1, <2>2, MessageKept
    <3> QED
      BY <2>2, <3>1 DEF MessageAgrees
  <2> QED
    BY <2>2
<1> QED
  BY <1>1, <1>2, <1>3, <1>4

LEMMA AsideAgrees ==
  ASSUME TypeOK, NEW c \in Client, ClientInv(c), SameSlots, UNCHANGED game, Aside(c)
  PROVE  ClientInv(c)'
<1>1. ScreenFits(c)'
  BY DEF ClientInv, ScreenFits, Aside, Untouched
<1>2. TableAgrees(c)'
  BY ChannelKept, AgreesKept DEF ClientInv, TableAgrees, Aside, Untouched
<1> QED
  BY <1>1, <1>2, ChannelKept DEF ClientInv, Aside, Untouched

(* The first message to c is gone.                                         *)
Taken(c) == toClient[c] # <<>> /\ toClient'[c] = Tail(toClient[c])

LEMMA TakenView ==
  ASSUME TypeOK, NEW c \in Client, MessagesFit(c), UNCHANGED game, Taken(c)
  PROVE  /\ \A i \in Positions(c)' : i + 1 \in Positions(c) /\ toClient'[c][i] = toClient[c][i + 1]
         /\ 1 \in Positions(c) /\ \A i \in Positions(c) : i # 1 => i - 1 \in Positions(c)'
         /\ MayStart(c)' => /\ MayStart(c) /\ ~Has(c, 1, "START")
                            /\ \A i \in Nat : i \in Before(c)' <=> i + 1 \in Before(c) /\ i # 0
                            /\ \A i \in Nat : Outdated(c, i)' <=> Outdated(c, i + 1)
<1>1. PICK n \in Nat : n = Len(toClient[c]) /\ n > 0 /\ toClient[c] \in Seq(ToClient)
  BY DEF TypeOK, Taken
<1>2. Positions(c) = 1 .. n /\ Positions(c)' = 1 .. n - 1
  BY <1>1 DEF Positions, Taken
<1>3. \A i \in 1 .. n - 1 : toClient'[c][i] = toClient[c][i + 1]
  BY <1>1 DEF Taken
<1>4. \A i \in 1 .. n - 1 : \A t : Has(c, i, t)' <=> Has(c, i + 1, t)
  BY <1>3 DEF Has
<1>5. ASSUME MayStart(c)' PROVE MayStart(c) /\ ~Has(c, 1, "START")
  <2>1. CASE game = "OPTIONS"
    BY <1>1, <1>2, <2>1 DEF MayStart, MessagesFit
  <2>2. CASE game # "OPTIONS"
    <3>1. PICK i \in 1 .. n - 1 : Has(c, i, "START")'
      BY <1>2, <1>5, <2>2 DEF MayStart, Starts
    <3>2. i + 1 \in 1 .. n /\ Has(c, i + 1, "START") /\ i + 1 # 1 /\ 1 \in 1 .. n
      BY <1>1, <1>4, <3>1
    <3> QED
      BY <1>2, <3>2 DEF MayStart, Starts, MessagesFit
  <2> QED
    BY <2>1, <2>2
<1>6. ASSUME MayStart(c)', NEW i \in Nat PROVE i \in Before(c)' <=> i + 1 \in Before(c) /\ i # 0
  <2>1. CASE i \in 1 .. n - 1
    <3>1. (\A j \in 1 .. i : ~Has(c, j, "START")') <=> \A j \in 1 .. i + 1 : ~Has(c, j, "START")
      <4>1. ASSUME \A j \in 1 .. i : ~Has(c, j, "START")', NEW j \in 1 .. i + 1
            PROVE  ~Has(c, j, "START")
        <5>1. j = 1 \/ (j - 1 \in 1 .. i /\ j - 1 \in 1 .. n - 1 /\ (j - 1) + 1 = j)
          BY <1>1, <2>1
        <5> QED
          BY <1>4, <1>5, <1>6, <4>1, <5>1
      <4>2. ASSUME \A j \in 1 .. i + 1 : ~Has(c, j, "START"), NEW j \in 1 .. i
            PROVE  ~Has(c, j, "START")'
        <5>1. j + 1 \in 1 .. i + 1 /\ j \in 1 .. n - 1
          BY <1>1, <2>1
        <5> QED
          BY <1>4, <4>2, <5>1
      <4> QED
        BY <4>1, <4>2
    <3> QED
      BY <1>1, <1>2, <2>1, <3>1 DEF Before
  <2>2. CASE i \notin 1 .. n - 1
    BY <1>1, <1>2, <2>2 DEF Before
  <2> QED
    BY <2>1, <2>2
<1>7. ASSUME MayStart(c)', NEW i \in Nat PROVE Outdated(c, i)' <=> Outdated(c, i + 1)
  <2>1. ASSUME Outdated(c, i)' PROVE Outdated(c, i + 1)
    <3>1. PICK j \in Before(c)' : i < j /\ Has(c, j, "OPTIONS")'
      BY <2>1 DEF Outdated
    <3>2. j \in 1 .. n - 1
      BY <1>2 DEF Before
    <3>3. j + 1 \in Before(c) /\ i + 1 < j + 1 /\ Has(c, j + 1, "OPTIONS")
      BY <1>1, <1>4, <1>6, <1>7, <3>1, <3>2
    <3> QED
      BY <3>3 DEF Outdated
  <2>2. ASSUME Outdated(c, i + 1) PROVE Outdated(c, i)'
    <3>1. PICK j \in Before(c) : i + 1 < j /\ Has(c, j, "OPTIONS")
      BY <2>2 DEF Outdated
    <3>2. j \in 1 .. n
      BY <1>2 DEF Before
    <3>3. PICK k \in 1 .. n - 1 : k + 1 = j /\ i < k
      BY <1>1, <3>1, <3>2
    <3>4. k \in Before(c)' /\ Has(c, k, "OPTIONS")'
      BY <1>1, <1>4, <1>6, <1>7, <3>1, <3>3
    <3> QED
      BY <3>3, <3>4 DEF Outdated
  <2> QED
    BY <2>1, <2>2
<1> QED
  BY <1>1, <1>2, <1>3, <1>5, <1>6, <1>7

(* What remains still agrees; the options c has been sent last are those   *)
(* it has just taken, or are still to come.                                *)
LEMMA TakenAgrees ==
  ASSUME TypeOK, NEW c \in Client, ClientInv(c), SameSlots, UNCHANGED game, Taken(c)
  PROVE  /\ MessagesFit(c)' /\ MessagesAgree(c)'
         /\ MayStart(c)' /\ ~Outdated(c, 0)' =>
              /\ MayStart(c) /\ ~Outdated(c, 1) /\ MessageAgrees(c, Head(toClient[c]))
              /\ ~Has(c, 1, "ACCEPT") /\ (~Has(c, 1, "OPTIONS") => ~Outdated(c, 0))
<1>0. MessagesFit(c) /\ MessagesAgree(c)
  BY DEF ClientInv
<1>1. MessagesFit(c)'
  <2> SUFFICES ASSUME NEW i \in Positions(c)'
               PROVE  /\ Has(c, i, "ACCEPT")' => (i + 1 \in Positions(c)' /\ Has(c, i + 1, "OPTIONS")')
                      /\ Has(c, i, "START")' =>
                           game' = "STARTED" /\ \A j \in Positions(c)' : Has(c, j, "START")' => j = i
    BY DEF MessagesFit
  <2>1. i \in Nat /\ i + 1 # 1
    BY DEF Positions
  <2>2. \A j \in Positions(c)' : \A t : Has(c, j, t)' <=> Has(c, j + 1, t)
    BY <1>0, TakenView DEF Has
  <2>3. i + 1 \in Positions(c)
    BY <1>0, TakenView
  <2>4. ASSUME Has(c, i, "ACCEPT")' PROVE i + 1 \in Positions(c)' /\ Has(c, i + 1, "OPTIONS")'
    <3>1. (i + 1) + 1 \in Positions(c) /\ Has(c, (i + 1) + 1, "OPTIONS")
      BY <1>0, <2>2, <2>3, <2>4 DEF MessagesFit
    <3>2. (i + 1) + 1 # 1 /\ ((i + 1) + 1) - 1 = i + 1
      BY <2>1
    <3>3. i + 1 \in Positions(c)'
      BY <1>0, <3>1, <3>2, TakenView
    <3> QED
      BY <2>2, <3>1, <3>3
  <2>5. ASSUME Has(c, i, "START")', NEW j \in Positions(c)', Has(c, j, "START")'
        PROVE  j = i
    <3>1. j + 1 \in Positions(c) /\ Has(c, j + 1, "START") /\ Has(c, i + 1, "START")
      BY <1>0, <2>2, <2>5, TakenView
    <3>2. j + 1 = i + 1 /\ j \in Nat
      BY <1>0, <2>3, <3>1 DEF MessagesFit, Positions
    <3> QED
      BY <2>1, <3>2
  <2>6. Has(c, i, "START")' => game' = "STARTED"
    BY <1>0, <2>2, <2>3 DEF MessagesFit
  <2> QED
    BY <2>4, <2>5, <2>6
<1>2. MessagesAgree(c)'
  <2> SUFFICES ASSUME MayStart(c)', NEW i \in Before(c)', ~Outdated(c, i)'
               PROVE  MessageAgrees(c, toClient[c][i])'
    BY DEF MessagesAgree
  <2>1. i \in Nat /\ i \in Positions(c)'
    BY DEF Before, Positions
  <2>2. MayStart(c) /\ i + 1 \in Before(c) /\ ~Outdated(c, i + 1) /\ toClient'[c][i] = toClient[c][i + 1]
    BY <1>0, <2>1, TakenView
  <2>3. MessageAgrees(c, toClient[c][i + 1])
    BY <1>0, <2>2 DEF MessagesAgree
  <2>4. ASSUME NEW m, m = toClient[c][i + 1] PROVE MessageAgrees(c, toClient[c][i])'
    <3>1. MessageAgrees(c, m)'
      BY <2>3, <2>4, MessageKept
    <3> QED
      BY <2>2, <2>4, <3>1 DEF MessageAgrees
  <2> QED
    BY <2>4
<1>3. ASSUME MayStart(c)', ~Outdated(c, 0)'
      PROVE  /\ MayStart(c) /\ ~Outdated(c, 1) /\ MessageAgrees(c, Head(toClient[c]))
             /\ ~Has(c, 1, "ACCEPT") /\ (~Has(c, 1, "OPTIONS") => ~Outdated(c, 0))
  <2>0. 0 \in Nat /\ 0 + 1 = 1
    OBVIOUS
  <2>1. MayStart(c) /\ ~Outdated(c, 1) /\ ~Has(c, 1, "START") /\ 1 \in Positions(c)
    BY <1>0, <1>3, <2>0, TakenView
  <2>2. 1 \in Before(c)
    BY <2>1 DEF Before
  <2>3. MessageAgrees(c, toClient[c][1])
    BY <1>0, <2>1, <2>2 DEF MessagesAgree
  <2>4. toClient[c][1] = Head(toClient[c])
    BY DEF TypeOK, Taken
  <2>5. ~Has(c, 1, "ACCEPT")
    <3> SUFFICES ASSUME Has(c, 1, "ACCEPT") PROVE FALSE
      OBVIOUS
    <3>1. 2 \in Positions(c) /\ Has(c, 2, "OPTIONS") /\ \A j \in 1 .. 2 : j = 1 \/ j = 2
      BY <1>0, <2>1 DEF MessagesFit
    <3>2. 2 \in Before(c)
      BY <2>1, <3>1 DEF Before, Has
    <3> QED
      BY <2>1, <3>1, <3>2 DEF Outdated
  <2>6. ASSUME ~Has(c, 1, "OPTIONS"), Outdated(c, 0) PROVE FALSE
    <3>1. PICK j \in Before(c) : 0 < j /\ Has(c, j, "OPTIONS")
      BY <2>6 DEF Outdated
    <3>2. 1 < j
      BY <2>6, <3>1 DEF Before, Positions
    <3> QED
      BY <2>1, <3>1, <3>2 DEF Outdated
  <2> QED
    BY <2>1, <2>3, <2>4, <2>5, <2>6
<1> QED
  BY <1>1, <1>2, <1>3

(* c has been sent what it cannot heed any more, or that others leave.     *)
Sent(c) ==
  /\ Len(toClient[c]) <= Len(toClient'[c])
  /\ \A i \in Positions(c) : toClient'[c][i] = toClient[c][i]
  /\ \A i \in Len(toClient[c]) + 1 .. Len(toClient'[c]) :
       /\ toClient'[c][i].type \notin {"START", "ACCEPT"}
       /\ game = "OPTIONS" => toClient'[c][i].type = "LEAVE" /\ MessageAgrees(c, toClient[c][i])'

LEMMA SentAgrees ==
  ASSUME TypeOK, TypeOK', NEW c \in Client, ClientInv(c), SameSlots, UNCHANGED game, Sent(c)
  PROVE  /\ MessagesFit(c)' /\ MessagesAgree(c)'
         /\ MayStart(c)' => MayStart(c) /\ (Outdated(c, 0) => Outdated(c, 0)')
<1>0. PICK n \in Nat, k \in Nat : n = Len(toClient[c]) /\ k = Len(toClient'[c])
  BY DEF TypeOK
<1>1. n <= k /\ Positions(c) = 1 .. n /\ Positions(c)' = 1 .. k
  BY <1>0 DEF Sent, Positions
<1>2. \A i \in 1 .. n : toClient'[c][i] = toClient[c][i] /\ \A t : Has(c, i, t)' <=> Has(c, i, t)
  BY <1>1 DEF Sent, Has
<1>3. \A i \in n + 1 .. k : ~Has(c, i, "START")' /\ ~Has(c, i, "ACCEPT")'
  BY <1>0 DEF Sent, Has
<1>4. \A i \in n + 1 .. k : game = "OPTIONS" => ~Has(c, i, "OPTIONS")' /\ MessageAgrees(c, toClient[c][i])'
  BY <1>0 DEF Sent, Has
<1>5. \A i \in 1 .. k : i \in 1 .. n \/ i \in n + 1 .. k
  BY <1>1
<1>6. MessagesFit(c) /\ MessagesAgree(c)
  BY DEF ClientInv
<1>7. MayStart(c)' => MayStart(c)
  BY <1>1, <1>2, <1>3, <1>5 DEF MayStart, Starts
<1>8. \A i \in 1 .. n : i \in Before(c)' <=> i \in Before(c)
  <2> SUFFICES ASSUME NEW i \in 1 .. n PROVE i \in Before(c)' <=> i \in Before(c)
    OBVIOUS
  <2>1. \A j \in 1 .. i : j \in 1 .. n
    BY <1>1
  <2> QED
    BY <1>1, <1>2, <2>1 DEF Before
<1>9. ASSUME MayStart(c)', NEW i \in n + 1 .. k, i \in Before(c)' PROVE game = "OPTIONS"
  <2> SUFFICES ASSUME game # "OPTIONS" PROVE FALSE
    OBVIOUS
  <2>1. PICK j \in 1 .. n : Has(c, j, "START")
    BY <1>1, <1>7, <1>9 DEF MayStart, Starts
  <2>2. j \in 1 .. i /\ Has(c, j, "START")'
    BY <1>1, <1>2, <2>1
  <2> QED
    BY <1>9, <2>2 DEF Before
<1>10. MessagesFit(c)'
  <2>1. ASSUME NEW i \in 1 .. k, Has(c, i, "ACCEPT")'
        PROVE  i + 1 \in 1 .. k /\ Has(c, i + 1, "OPTIONS")'
    <3>1. i \in 1 .. n
      BY <1>3, <1>5, <2>1
    <3>2. i + 1 \in 1 .. n /\ Has(c, i + 1, "OPTIONS")
      BY <1>1, <1>2, <1>6, <2>1, <3>1 DEF MessagesFit
    <3> QED
      BY <1>1, <1>2, <3>2
  <2>2. ASSUME NEW i \in 1 .. k, Has(c, i, "START")'
        PROVE  game' = "STARTED" /\ \A j \in 1 .. k : Has(c, j, "START")' => j = i
    <3>1. i \in 1 .. n /\ \A j \in 1 .. k : Has(c, j, "START")' => j \in 1 .. n
      BY <1>3, <1>5, <2>2
    <3> QED
      BY <1>1, <1>2, <1>6, <2>2, <3>1 DEF MessagesFit
  <2> QED
    BY <1>1, <2>1, <2>2 DEF MessagesFit
<1>11. ASSUME MayStart(c)', NEW i \in 0 .. n, Outdated(c, i) PROVE Outdated(c, i)'
  <2>1. PICK j \in Before(c) : i < j /\ Has(c, j, "OPTIONS")
    BY <1>11 DEF Outdated
  <2>2. j \in 1 .. n
    BY <1>1 DEF Before
  <2> QED
    BY <1>2, <1>8, <2>1, <2>2 DEF Outdated
<1>12. MessagesAgree(c)'
  <2> SUFFICES ASSUME MayStart(c)', NEW i \in Before(c)', ~Outdated(c, i)'
               PROVE  MessageAgrees(c, toClient[c][i])'
    BY DEF MessagesAgree
  <2>0. i \in 1 .. k
    BY <1>1 DEF Before
  <2>1. CASE i \in n + 1 .. k
    BY <1>4, <1>9, <2>1
  <2>2. CASE i \in 1 .. n
    <3>1. i \in 0 .. n /\ i \in Before(c)
      BY <1>1, <1>8, <2>2
    <3>2. MessageAgrees(c, toClient[c][i])
      BY <1>6, <1>7, <1>11, <3>1 DEF MessagesAgree
    <3>3. ASSUME NEW m, m = toClient[c][i] PROVE MessageAgrees(c, toClient[c][i])'
      <4>1. MessageAgrees(c, m)'
        BY <3>2, <3>3, MessageKept
      <4> QED
        BY <1>2, <2>2, <3>3, <4>1 DEF MessageAgrees
    <3> QED
      BY <3>3
  <2> QED
    BY <1>5, <2>0, <2>1, <2>2
<1>13. 0 \in 0 .. n
  OBVIOUS
<1> QED
  BY <1>7, <1>10, <1>11, <1>12, <1>13

(* Those who have been sent something keep everything else.                *)
LEMMA SentKeeps ==
  ASSUME TypeOK, TypeOK', NEW c \in Client, ClientInv(c), SameSlots, UNCHANGED game, Sent(c),
         screen'[c] = screen[c], table'[c] = table[c], ScreenFits(c)', c \in missed => c \in missed'
  PROVE  ClientInv(c)'
<1>1. TableAgrees(c)'
  BY SentAgrees, AgreesKept DEF ClientInv, TableAgrees
<1> QED
  BY <1>1, SentAgrees DEF ClientInv

(* Back in the lobby there is nothing to agree on.                         *)
LEMMA PoppedAgrees ==
  ASSUME TypeOK, NEW c \in Client, PopToLobby(c)
  PROVE  ClientInv(c)' /\ StillQuits(c) /\ \A e \in Client \ {c} : Untouched(e) /\ table'[e] = table[e]
<1>1. toClient'[c] = <<>> /\ screen'[c] = "LOBBY" /\ pendingAction'[c] = "NONE"
  BY DEF PopToLobby, TypeOK
<1>2. Positions(c)' = {} /\ Before(c)' = {}
  BY <1>1 DEF Positions, Before
<1>3. ClientInv(c)'
  BY <1>1, <1>2 DEF ClientInv, ScreenFits, MessagesFit, MessagesAgree, TableAgrees
<1>4. StillQuits(c)
  BY <1>1, <1>2 DEF StillQuits, Quits
<1> QED
  BY <1>3, <1>4 DEF PopToLobby, Untouched, TypeOK

(* A step of c alone.                                                      *)
Only(c) == UNCHANGED <<game, slots>> /\ \A e \in Client \ {c} : Aside(e)

LEMMA OnlyAgree ==
  ASSUME TypeOK, AgreeInv, NEW c \in Client, Only(c), StillQuits(c), SameSlots => ClientInv(c)'
  PROVE  AgreeInv'
<1>1. \A e \in Client \ {c} : StillQuits(e)
  BY UntouchedQuits DEF Only, Aside
<1>2. SameSlots /\ UNCHANGED game
  BY <1>1 DEF SameSlots, Only
<1>3. \A e \in Client \ {c} : ClientInv(e)'
  BY <1>2, AsideAgrees DEF AgreeInv, Only
<1>4. StartAccepted'
  BY DEF AgreeInv, StartAccepted, Only
<1> QED
  BY <1>2, <1>3, <1>4 DEF AgreeInv

(* A step that changes nothing that anybody agrees on.                     *)
LEMMA NothingAgrees ==
  ASSUME TypeOK, AgreeInv, UNCHANGED <<game, slots, clientVars, toClient, missed>>
  PROVE  AgreeInv'
<1>1. \A e \in Client : Aside(e) /\ StillQuits(e)
  BY UntouchedQuits DEF Aside, Untouched, clientVars
<1>2. SameSlots
  BY <1>1 DEF SameSlots
<1> QED
  BY <1>1, <1>2, AsideAgrees DEF AgreeInv, StartAccepted

(* c takes its first message.                                              *)
LEMMA DoneTakes ==
  ASSUME TypeOK, NEW c \in Client, toClient[c] # <<>>, Done(c)
  PROVE  /\ Taken(c) /\ \A e \in Client \ {c} : toClient'[e] = toClient[e]
         /\ 1 \in Positions(c) /\ toClient[c][1] = Head(toClient[c])
BY DEF TypeOK, Done, Taken, Positions

LEMMA JoinAcceptAgrees ==
  ASSUME TypeOK, AgreeInv, NEW c \in Client, HandleJoinAccept(c)
  PROVE  AgreeInv'
<1>1. /\ toClient[c] # <<>> /\ Done(c) /\ Head(toClient[c]).type = "ACCEPT" /\ pendingAction[c] = "JOIN"
      /\ screen' = [screen EXCEPT ![c] = "OPTIONS"] /\ pendingAction' = [pendingAction EXCEPT ![c] = "NONE"]
      /\ table' = [table EXCEPT ![c] = [NoTable EXCEPT !.players = {c}]]
      /\ UNCHANGED <<game, slots, missed>>
  BY DEF HandleJoinAccept, Arrives, hostVars, boundVars
<1>2. Taken(c) /\ Has(c, 1, "ACCEPT") /\ 1 \in Positions(c)
  BY <1>1, DoneTakes DEF Has
<1>3. Only(c)
  BY <1>1, DoneTakes DEF Only, Aside, Untouched, TypeOK
<1>4. StillQuits(c)
  BY <1>1, <1>2 DEF StillQuits, Quits, AgreeInv, ClientInv, ScreenFits
<1>5. screen'[c] = "OPTIONS" /\ pendingAction'[c] = "NONE"
  BY <1>1 DEF TypeOK
<1>6. ASSUME SameSlots PROVE ClientInv(c)'
  <2>1. ClientInv(c)
    BY DEF AgreeInv
  <2>2. MessagesFit(c)' /\ MessagesAgree(c)' /\ (MayStart(c)' => Outdated(c, 0)')
    BY <1>1, <1>2, <1>6, <2>1, TakenAgrees
  <2> QED
    BY <1>5, <2>2 DEF ClientInv, ScreenFits, TableAgrees
<1> QED
  BY <1>3, <1>4, <1>6, OnlyAgree

(* A message is ignored, lost, or changes neither screen nor table.        *)
LEMMA TakenKeeps ==
  ASSUME TypeOK, AgreeInv, NEW c \in Client, toClient[c] # <<>>, Done(c),
         UNCHANGED <<game, slots, screen, table>>, \A e \in Client : e \in missed => e \in missed',
         \A e \in Client \ {c} : pendingAction'[e] = pendingAction[e],
         pendingAction'[c] \in {pendingAction[c], "NONE"},
         pendingAction[c] # "LEAVE" \/ pendingAction'[c] = "LEAVE",
         Head(toClient[c]).type = "OPTIONS" /\ screen[c] = "OPTIONS" => c \in missed'
  PROVE  AgreeInv'
<1>1. Taken(c) /\ (Has(c, 1, "OPTIONS") /\ screen[c] = "OPTIONS" => c \in missed')
  BY DoneTakes DEF Has
<1>2. Only(c)
  BY DoneTakes DEF Only, Aside, Untouched
<1>3. StillQuits(c)
  BY <1>1, DoneQuits DEF Taken, TypeOK
<1>4. ASSUME SameSlots PROVE ClientInv(c)'
  <2>1. ClientInv(c)
    BY DEF AgreeInv
  <2>2. /\ MessagesFit(c)' /\ MessagesAgree(c)'
        /\ MayStart(c)' /\ ~Outdated(c, 0)' => MayStart(c) /\ (~Has(c, 1, "OPTIONS") => ~Outdated(c, 0))
    BY <1>1, <1>4, <2>1, TakenAgrees
  <2>3. TableAgrees(c)'
    BY <1>1, <1>4, <2>1, <2>2, AgreesKept DEF ClientInv, TableAgrees
  <2>4. ScreenFits(c)'
    BY <2>1 DEF ClientInv, ScreenFits
  <2> QED
    BY <2>2, <2>3, <2>4 DEF ClientInv
<1> QED
  BY <1>2, <1>3, <1>4, OnlyAgree

LEMMA OnGameOptionsAgrees ==
  ASSUME TypeOK, AgreeInv, NEW c \in Client, OnGameOptions(c)
  PROVE  AgreeInv'
<1> DEFINE s == Head(toClient[c]).slots
<1>1. /\ toClient[c] # <<>> /\ Head(toClient[c]).type = "OPTIONS" /\ screen[c] = "OPTIONS"
      /\ missed' = missed \ {c} /\ UNCHANGED <<game, slots>>
  BY DEF OnGameOptions, Arrives, hostVars
<1>2. CASE Booted(c, s)
  <2>1. PopToLobby(c)
    BY <1>2 DEF OnGameOptions
  <2>2. Only(c)
    BY <1>1, <2>1, PoppedAgrees DEF Only, Aside
  <2> QED
    BY <2>1, <2>2, PoppedAgrees, OnlyAgree
<1>3. CASE ~Booted(c, s)
  <2>1. table' = [table EXCEPT ![c] = s] /\ Done(c) /\ UNCHANGED <<screen, pendingAction>> /\ c \in s.players
    BY <1>3 DEF OnGameOptions, Booted
  <2>2. Taken(c) /\ table'[c] = s
    BY <1>1, <2>1, DoneTakes DEF TypeOK
  <2>3. Only(c)
    BY <1>1, <2>1, DoneTakes DEF Only, Aside, Untouched, TypeOK
  <2>4. StillQuits(c)
    BY <1>1, <2>1, <2>2, DoneQuits DEF Taken, TypeOK
  <2>5. ASSUME SameSlots PROVE ClientInv(c)'
    <3>1. ClientInv(c)
      BY DEF AgreeInv
    <3>2. /\ MessagesFit(c)' /\ MessagesAgree(c)'
          /\ MayStart(c)' /\ ~Outdated(c, 0)' => MessageAgrees(c, Head(toClient[c]))
      BY <1>1, <2>2, <2>5, <3>1, TakenAgrees
    <3>3. ASSUME MessageAgrees(c, Head(toClient[c])) PROVE Agrees(c)'
      BY <1>1, <2>1, <2>2, <3>3 DEF MessageAgrees, CurrentIn, Agrees
    <3>4. TableAgrees(c)'
      BY <1>1, <2>1, <3>2, <3>3 DEF TableAgrees
    <3>5. ScreenFits(c)'
      BY <1>1, <2>1, <3>1 DEF ClientInv, ScreenFits
    <3> QED
      BY <3>2, <3>4, <3>5 DEF ClientInv
  <2> QED
    BY <2>3, <2>4, <2>5, OnlyAgree
<1> QED
  BY <1>2, <1>3

LEMMA GameStartAgrees ==
  ASSUME TypeOK, AgreeInv, NEW c \in Client, HandleGameStart(c)
  PROVE  AgreeInv'
<1>1. /\ toClient[c] # <<>> /\ Done(c) /\ Head(toClient[c]).type = "START" /\ screen[c] = "OPTIONS"
      /\ screen' = [screen EXCEPT ![c] = "STARTED"] /\ UNCHANGED <<game, slots, pendingAction, table, missed>>
  BY DEF HandleGameStart, Arrives, hostVars, boundVars
<1>2. Taken(c) /\ Has(c, 1, "START") /\ 1 \in Positions(c)
  BY <1>1, DoneTakes DEF Has
<1>3. Only(c) /\ screen'[c] = "STARTED" /\ pendingAction'[c] = pendingAction[c]
  BY <1>1, DoneTakes DEF Only, Aside, Untouched, TypeOK
<1>4. ClientInv(c) /\ game = "STARTED"
  BY <1>2 DEF AgreeInv, ClientInv, MessagesFit
<1>5. StillQuits(c)
  BY <1>1, <1>3 DEF StillQuits, Quits
<1>6. ASSUME SameSlots PROVE ClientInv(c)'
  <2>1. MessagesFit(c)' /\ MessagesAgree(c)'
    BY <1>1, <1>2, <1>4, <1>6, TakenAgrees
  <2>2. MayStart(c) /\ Before(c) = {}
    BY <1>2 DEF MayStart, Starts, Before, Positions
  <2>3. c \notin missed => Agrees(c)
    BY <1>1, <1>4, <2>2 DEF ClientInv, TableAgrees, Outdated
  <2>4. TableAgrees(c)'
    BY <1>1, <1>3, <1>6, <2>3, AgreesKept DEF TableAgrees
  <2>5. ScreenFits(c)'
    BY <1>1, <1>3, <1>4 DEF ClientInv, ScreenFits
  <2> QED
    BY <2>1, <2>4, <2>5 DEF ClientInv
<1> QED
  BY <1>3, <1>5, <1>6, OnlyAgree

LEMMA LeaveOfOtherAgrees ==
  ASSUME TypeOK, AgreeInv, NEW c \in Client, HandleLeaveOfOther(c)
  PROVE  AgreeInv'
<1> DEFINE d == Head(toClient[c]).client
<1>1. /\ toClient[c] # <<>> /\ Done(c) /\ Head(toClient[c]).type = "LEAVE" /\ screen[c] = "OPTIONS"
      /\ d \in table[c].players
      /\ table' = [table EXCEPT ![c] = [players |-> table[c].players \ {d}, accepted |-> {},
                                        options |-> table[c].options]]
      /\ UNCHANGED <<game, slots, screen, pendingAction, missed>>
  BY DEF HandleLeaveOfOther, Arrives, hostVars, boundVars
<1>2. Taken(c) /\ ~Has(c, 1, "OPTIONS")
  BY <1>1, DoneTakes DEF Has
<1>3. Only(c)
  BY <1>1, DoneTakes DEF Only, Aside, Untouched, TypeOK
<1>4. StillQuits(c)
  BY <1>1, <1>2, DoneQuits DEF Taken, TypeOK
<1>5. table'[c].players = table[c].players \ {d}
  BY <1>1 DEF TypeOK
<1>6. ASSUME SameSlots PROVE ClientInv(c)'
  <2>1. ClientInv(c)
    BY DEF AgreeInv
  <2>2. /\ MessagesFit(c)' /\ MessagesAgree(c)'
        /\ MayStart(c)' /\ ~Outdated(c, 0)' =>
             MayStart(c) /\ MessageAgrees(c, Head(toClient[c])) /\ ~Outdated(c, 0)
    BY <1>1, <1>2, <1>6, <2>1, TakenAgrees
  <2>3. ASSUME MayStart(c)', ~Outdated(c, 0)', c \notin missed PROVE Agrees(c)'
    <3>1. Agrees(c) /\ d # c /\ (d \in slots.players => Quits(d))
      BY <1>1, <2>1, <2>2, <2>3 DEF ClientInv, TableAgrees, MessageAgrees
    <3>2. \A e \in slots.players : Quits(e) => Quits(e)'
      BY <1>6 DEF SameSlots, StillQuits, TypeOK, Slots
    <3> QED
      BY <1>1, <1>5, <3>1, <3>2 DEF Agrees
  <2>4. TableAgrees(c)'
    BY <1>1, <2>3 DEF TableAgrees
  <2>5. ScreenFits(c)'
    BY <1>1, <2>1 DEF ClientInv, ScreenFits
  <2> QED
    BY <2>2, <2>4, <2>5 DEF ClientInv
<1> QED
  BY <1>3, <1>4, <1>6, OnlyAgree

(* c goes back to the lobby, whatever makes it.                            *)
LEMMA PopAgrees ==
  ASSUME TypeOK, AgreeInv, NEW c \in Client, PopToLobby(c), UNCHANGED <<game, slots, missed>>
  PROVE  AgreeInv'
<1>1. Only(c)
  BY PoppedAgrees DEF Only, Aside
<1> QED
  BY <1>1, PoppedAgrees, OnlyAgree

(* c does something in its menu and hears nothing: what it sees then.      *)
LEMMA AloneAgrees ==
  ASSUME TypeOK, AgreeInv, NEW c \in Client, UNCHANGED <<game, slots, toClient, missed>>,
         \A e \in Client \ {c} : screen'[e] = screen[e] /\ pendingAction'[e] = pendingAction[e]
                                 /\ table'[e] = table[e],
         StillQuits(c), ScreenFits(c)', SameSlots => TableAgrees(c)'
  PROVE  AgreeInv'
<1>1. Only(c)
  BY DEF Only, Aside, Untouched
<1> QED
  BY <1>1, OnlyAgree, ChannelKept DEF AgreeInv, ClientInv

LEMMA ClientUserAgrees ==
  ASSUME TypeOK, AgreeInv, NEW c \in Client,
         RequestGameJoin(c) \/ RequestAccept(c) \/ ClientChanges(c) \/ SetInactive(c)
  PROVE  AgreeInv'
<1>0. ClientInv(c)
  BY DEF AgreeInv
<1>1. CASE RequestGameJoin(c)
  <2>1. /\ UNCHANGED <<game, slots, screen, table, toClient, missed>>
        /\ pendingAction' = [pendingAction EXCEPT ![c] = "JOIN"]
        /\ screen[c] = "LOBBY" /\ pendingAction[c] = "NONE"
    BY <1>1 DEF RequestGameJoin, Move, hostVars
  <2>2. pendingAction'[c] = "JOIN" /\ \A e \in Client \ {c} : pendingAction'[e] = pendingAction[e]
    BY <2>1 DEF TypeOK
  <2>3. StillQuits(c)
    BY <2>1, <2>2 DEF StillQuits, Quits, Positions, Has
  <2>4. ScreenFits(c)' /\ TableAgrees(c)'
    BY <2>1, <2>2 DEF ScreenFits, TableAgrees
  <2> QED
    BY <2>1, <2>2, <2>3, <2>4, AloneAgrees
<1>2. CASE RequestAccept(c) \/ SetInactive(c)
  BY <1>2, NothingAgrees DEF RequestAccept, SetInactive, Move, hostVars
<1>3. CASE ClientChanges(c)
  <2>1. /\ UNCHANGED <<game, slots, screen, pendingAction, toClient, missed>>
        /\ table' = [table EXCEPT ![c] = [@ EXCEPT !.accepted = {}, !.options = Unknown]]
        /\ screen[c] = "OPTIONS" /\ c \notin table[c].accepted
    BY <1>3 DEF ClientChanges, Undecided, Move, hostVars
  <2>2. table'[c].players = table[c].players /\ \A e \in Client \ {c} : table'[e] = table[e]
    BY <2>1 DEF TypeOK, Slots
  <2>3. StillQuits(c)
    BY <2>1, UntouchedQuits DEF Untouched
  <2>4. ScreenFits(c)'
    BY <1>0, <2>1 DEF ClientInv, ScreenFits
  <2>5. ASSUME SameSlots PROVE TableAgrees(c)'
    <3>1. \A d \in slots.players : Quits(d) => Quits(d)'
      BY <2>5 DEF SameSlots, StillQuits, TypeOK, Slots
    <3>2. Agrees(c) => Agrees(c)'
      BY <2>1, <2>2, <3>1 DEF Agrees
    <3>3. MayStart(c)' = MayStart(c) /\ Outdated(c, 0)' = Outdated(c, 0)
      BY <1>0, <2>1, <2>5, ChannelKept
    <3> QED
      BY <1>0, <2>1, <3>2, <3>3 DEF ClientInv, TableAgrees
  <2> QED
    BY <2>1, <2>2, <2>3, <2>4, <2>5, AloneAgrees
<1> QED
  BY <1>1, <1>2, <1>3

(* c asks to leave: from now on it quits, as those it tells will see.      *)
LEMMA LeaveAgrees ==
  ASSUME TypeOK, TypeOK', AgreeInv, NEW c \in Client, RequestGameLeave(c)
  PROVE  AgreeInv'
<1>1. /\ UNCHANGED <<game, slots, screen, table, missed>> /\ screen[c] \in {"OPTIONS", "FLAGGED"}
      /\ pendingAction' = [pendingAction EXCEPT ![c] = "LEAVE"]
      /\ toClient' = [Broadcast(toClient, LeaveOf(c)) EXCEPT ![c] = toClient[c]]
  BY DEF RequestGameLeave, Move, hostVars
<1>2. pendingAction'[c] = "LEAVE" /\ \A e \in Client \ {c} : pendingAction'[e] = pendingAction[e]
  BY <1>1 DEF TypeOK
<1>3. toClient'[c] = toClient[c]
  BY <1>1 DEF Broadcast
<1>4. Quits(c)'
  BY <1>2 DEF Quits
<1>5. \A e \in Client \ {c} : toClient'[e] = IF Hears(e) THEN Append(toClient[e], LeaveOf(c)) ELSE toClient[e]
  BY <1>1 DEF Broadcast
<1>6. LeaveOf(c).type = "LEAVE" /\ LeaveOf(c).client = c /\ LeaveOf(c) \in ToClient
  BY MessageTypes DEF LeaveOf
<1>7. \A e \in Client \ {c} : StillQuits(e)
  <2> SUFFICES ASSUME NEW e \in Client \ {c} PROVE StillQuits(e)
    OBVIOUS
  <2>1. CASE toClient'[e] = toClient[e]
    BY <1>1, <1>2, <2>1, UntouchedQuits DEF Untouched
  <2>2. CASE toClient'[e] = Append(toClient[e], LeaveOf(c))
    BY <1>1, <1>2, <1>6, <2>2, SentQuits DEF TypeOK
  <2> QED
    BY <1>5, <2>1, <2>2
<1>8. SameSlots
  BY <1>1, <1>4, <1>7 DEF SameSlots, StillQuits
<1>9. \A e \in Client : ScreenFits(e)'
  BY <1>1, <1>2 DEF AgreeInv, ClientInv, ScreenFits
<1>10. ClientInv(c)'
  <2>1. ClientInv(c)
    BY DEF AgreeInv
  <2>2. TableAgrees(c)'
    BY <1>1, <1>3, <1>8, <2>1, ChannelKept, AgreesKept DEF ClientInv, TableAgrees
  <2> QED
    BY <1>1, <1>3, <1>8, <1>9, <2>1, <2>2, ChannelKept DEF ClientInv
<1>11. ASSUME NEW e \in Client \ {c} PROVE ClientInv(e)'
  <2>1. PICK n \in Nat : n = Len(toClient[e])
    BY DEF TypeOK
  <2>2. Sent(e)
    <3>1. CASE toClient'[e] = toClient[e]
      BY <2>1, <3>1 DEF Sent, TypeOK
    <3>2. CASE toClient'[e] = Append(toClient[e], LeaveOf(c))
      <4>1. Len(toClient'[e]) = n + 1 /\ toClient'[e][n + 1] = LeaveOf(c)
        BY <1>6, <2>1, <3>2 DEF TypeOK
      <4>2. \A i \in 1 .. n : toClient'[e][i] = toClient[e][i]
        BY <1>6, <2>1, <3>2 DEF TypeOK
      <4>3. ASSUME NEW i, i = n + 1 PROVE MessageAgrees(e, toClient[e][i])'
        BY <1>4, <1>6, <1>11, <4>1, <4>3 DEF MessageAgrees
      <4> QED
        BY <1>6, <2>1, <4>1, <4>2, <4>3 DEF Sent, Positions
    <3> QED
      BY <1>5, <3>1, <3>2
  <2>3. ClientInv(e)
    BY DEF AgreeInv
  <2> QED
    BY <1>1, <1>8, <1>9, <2>2, <2>3, SentKeeps
<1> QED
  BY <1>1, <1>10, <1>11 DEF AgreeInv, StartAccepted

(* Nothing comes of a request, or too late, and c gives up.                *)
LEMMA TimeOutAgrees ==
  ASSUME TypeOK, AgreeInv, NEW c \in Client, TimeOut(c)
  PROVE  AgreeInv'
<1>1. UNCHANGED <<game, slots, missed>> /\ ClientInv(c) /\ pendingAction[c] # "NONE"
  BY DEF TimeOut, hostVars, boundVars, AgreeInv
<1>2. CASE pendingAction[c] = "LEAVE" /\ screen[c] = "OPTIONS"
  BY <1>1, <1>2, PopAgrees DEF TimeOut
<1>3. CASE ~(pendingAction[c] = "LEAVE" /\ screen[c] = "OPTIONS")
  <2>1. /\ pendingAction' = [pendingAction EXCEPT ![c] = "NONE"]
        /\ screen' = IF screen[c] = "STARTED" THEN [screen EXCEPT ![c] = "ADRIFT"] ELSE screen
        /\ UNCHANGED <<table, toClient>>
    BY <1>3 DEF TimeOut
  <2>2. /\ pendingAction'[c] = "NONE" /\ screen'[c] = IF screen[c] = "STARTED" THEN "ADRIFT" ELSE screen[c]
        /\ \A e \in Client \ {c} : pendingAction'[e] = pendingAction[e] /\ screen'[e] = screen[e]
    BY <2>1 DEF TypeOK
  <2>3. screen[c] \in Screen \ {"OPTIONS"} /\ (pendingAction[c] = "LEAVE" => screen[c] # "LOBBY")
    BY <1>1, <1>3 DEF ClientInv, ScreenFits, TypeOK, Pending
  <2>4. StillQuits(c)
    BY <1>1, <2>1, <2>2, <2>3 DEF StillQuits, Quits, Positions, Has, Screen
  <2>5. ScreenFits(c)' /\ TableAgrees(c)'
    BY <1>1, <2>2, <2>3 DEF ClientInv, ScreenFits, TableAgrees
  <2> QED
    BY <1>1, <2>1, <2>2, <2>4, <2>5, AloneAgrees
<1> QED
  BY <1>2, <1>3

LEMMA AnnounceAgrees ==
  ASSUME TypeOK, AgreeInv, NEW c \in Client, HandleGameAnnounce(c)
  PROVE  AgreeInv'
<1>1. /\ UNCHANGED <<game, slots, missed, pendingAction, toClient>>
      /\ game = "STARTED" /\ screen[c] = "OPTIONS"
      /\ screen' = [screen EXCEPT ![c] = "FLAGGED"] /\ table' = [table EXCEPT ![c] = slots]
  BY DEF HandleGameAnnounce, hostVars, boundVars
<1>2. /\ screen'[c] = "FLAGGED"
      /\ \A e \in Client \ {c} : screen'[e] = screen[e] /\ table'[e] = table[e]
  BY <1>1 DEF TypeOK
<1>3. StillQuits(c)
  BY <1>2 DEF StillQuits, Quits
<1>4. ScreenFits(c)' /\ TableAgrees(c)'
  BY <1>1, <1>2 DEF AgreeInv, ClientInv, ScreenFits, TableAgrees
<1> QED
  BY <1>1, <1>2, <1>3, <1>4, AloneAgrees

(* c is sent the slots again.                                              *)
LEMMA ResendAgrees ==
  ASSUME TypeOK, TypeOK', AgreeInv, NEW c \in Client, Resend(c)
  PROVE  AgreeInv'
<1>1. /\ UNCHANGED <<game, slots, missed, screen, pendingAction, table>> /\ game = "OPTIONS"
      /\ toClient[c] = <<>> /\ toClient' = [toClient EXCEPT ![c] = <<Options(slots)>>]
      /\ screen[c] = "OPTIONS"
  BY DEF Resend, hostVars, clientVars, boundVars
<1>2. toClient'[c] = <<Options(slots)>> /\ \A e \in Client \ {c} : toClient'[e] = toClient[e]
  BY <1>1 DEF TypeOK
<1>3. Told(c)
  BY <1>1, <1>2 DEF Told, Positions, Options, CurrentIn
<1>4. ClientInv(c)'
  BY <1>1, <1>3, ToldAgrees DEF AgreeInv
<1>5. \A e \in Client \ {c} : Aside(e) /\ StillQuits(e)
  BY <1>1, <1>2, UntouchedQuits DEF Aside, Untouched
<1>6. StillQuits(c)
  BY <1>1 DEF StillQuits, Quits
<1>7. Only(c)
  BY <1>1, <1>5 DEF Only
<1> QED
  BY <1>4, <1>6, <1>7, OnlyAgree

(* The host's game begins, with everybody's accept.                        *)
LEMMA RequestStartAgrees ==
  ASSUME TypeOK, CountdownAccepted, AgreeInv, RequestGameStart
  PROVE  AgreeInv'
<1>1. /\ game = "OPTIONS" /\ game' = "STARTED" /\ slots.accepted = slots.players
      /\ UNCHANGED <<slots, screen, pendingAction, table, missed>>
      /\ toClient' = Broadcast(toClient, Note("START"))
  BY DEF RequestGameStart, CountdownAccepted, clientVars, boundVars
<1>2. Note("START") \in ToClient /\ Note("START").type = "START"
  BY MessageTypes DEF Note
<1>3. \A c \in Client : toClient'[c] = IF Hears(c) THEN Append(toClient[c], Note("START")) ELSE toClient[c]
  BY <1>1 DEF Broadcast
<1>4. ASSUME NEW c \in Client PROVE StillQuits(c)
  <2>1. CASE toClient'[c] = toClient[c]
    BY <1>1, <2>1, UntouchedQuits DEF Untouched
  <2>2. CASE toClient'[c] = Append(toClient[c], Note("START"))
    BY <1>1, <1>2, <2>2, SentQuits DEF TypeOK
  <2> QED
    BY <1>3, <2>1, <2>2
<1>5. SameSlots
  BY <1>1, <1>4 DEF SameSlots
<1>6. ASSUME NEW c \in Client PROVE ClientInv(c)'
  <2>0. ClientInv(c)
    BY DEF AgreeInv
  <2>1. ScreenFits(c)'
    BY <1>1, <2>0 DEF ClientInv, ScreenFits
  <2>2. PICK n \in Nat : n = Len(toClient[c]) /\ Positions(c) = 1 .. n
    BY DEF TypeOK, Positions
  <2>3. screen[c] # "STARTED" /\ MayStart(c) /\ \A i \in 1 .. n : ~Has(c, i, "START")
    BY <1>1, <2>0, <2>2 DEF ClientInv, ScreenFits, MessagesFit, MayStart
  <2>4. Before(c) = 1 .. n
    BY <2>2, <2>3 DEF Before
  <2>5. CASE Hears(c)
    <3>1. toClient'[c] = Append(toClient[c], Note("START"))
      BY <1>3, <2>5
    <3>2. /\ Positions(c)' = 1 .. n + 1 /\ Has(c, n + 1, "START")'
          /\ \A i \in 1 .. n : toClient'[c][i] = toClient[c][i]
      BY <1>2, <2>2, <3>1 DEF Positions, Has, TypeOK
    <3>3. \A i \in 1 .. n : \A t : Has(c, i, t)' <=> Has(c, i, t)
      BY <3>2 DEF Has
    <3>4. \A i \in 1 .. n + 1 : i \in 1 .. n \/ i = n + 1
      BY <2>2
    <3>5. ~Has(c, n + 1, "ACCEPT")'
      BY <3>2 DEF Has
    <3>6. Before(c)' = 1 .. n
      <4>1. \A i \in 1 .. n : \A j \in 1 .. i : j \in 1 .. n
        BY <2>2
      <4>2. n + 1 \in 1 .. n + 1
        BY <2>2
      <4> QED
        BY <2>2, <2>3, <3>2, <3>3, <3>4, <4>1, <4>2 DEF Before
    <3>7. \A i : Outdated(c, i)' <=> Outdated(c, i)
      BY <2>4, <3>3, <3>6 DEF Outdated
    <3>8. MessagesFit(c)'
      <4>1. \A i \in 1 .. n : i + 1 \in 1 .. n => i + 1 \in 1 .. n + 1
        BY <2>2
      <4>2. \A i \in 1 .. n : Has(c, i, "ACCEPT") => i + 1 \in 1 .. n /\ Has(c, i + 1, "OPTIONS")
        BY <2>0, <2>2 DEF ClientInv, MessagesFit
      <4> QED
        BY <1>1, <2>3, <3>2, <3>3, <3>4, <3>5, <4>1, <4>2 DEF MessagesFit
    <3>9. MessagesAgree(c)'
      <4> SUFFICES ASSUME NEW i \in 1 .. n, ~Outdated(c, i) PROVE MessageAgrees(c, toClient[c][i])'
        BY <3>6, <3>7 DEF MessagesAgree
      <4>1. MessageAgrees(c, toClient[c][i])
        BY <2>0, <2>3, <2>4 DEF ClientInv, MessagesAgree
      <4>2. ASSUME NEW m, m = toClient[c][i] PROVE MessageAgrees(c, toClient[c][i])'
        <5>1. MessageAgrees(c, m)'
          BY <1>5, <4>1, <4>2, MessageKept
        <5> QED
          BY <3>2, <4>2, <5>1 DEF MessageAgrees
      <4> QED
        BY <4>2
    <3>10. TableAgrees(c)'
      BY <1>1, <1>5, <2>0, <2>3, <3>7, AgreesKept DEF ClientInv, TableAgrees
    <3> QED
      BY <2>1, <3>8, <3>9, <3>10 DEF ClientInv
  <2>6. CASE ~Hears(c)
    <3>1. toClient'[c] = <<>> /\ screen'[c] # "OPTIONS" /\ screen'[c] # "STARTED"
      BY <1>1, <1>3, <2>3, <2>6 DEF Hears
    <3>2. Positions(c)' = {} /\ Before(c)' = {}
      BY <3>1 DEF Positions, Before
    <3> QED
      BY <2>1, <3>1, <3>2 DEF ClientInv, MessagesFit, MessagesAgree, TableAgrees
  <2> QED
    BY <2>5, <2>6
<1> QED
  BY <1>1, <1>6 DEF AgreeInv, StartAccepted

(* The host leaves: nobody will start.                                     *)
LEMMA HostLeavesAgrees ==
  ASSUME TypeOK, AgreeInv, HostLeaves
  PROVE  AgreeInv'
<1>1. /\ game = "OPTIONS" /\ game' = "GONE" /\ UNCHANGED <<screen, pendingAction>>
      /\ toClient' = Broadcast(toClient, Note("HOSTLEAVE"))
  BY DEF HostLeaves, clientVars
<1>2. Note("HOSTLEAVE") \in ToClient /\ Note("HOSTLEAVE").type = "HOSTLEAVE"
  BY MessageTypes DEF Note
<1>3. ASSUME NEW c \in Client PROVE ClientInv(c)'
  <2>0. ClientInv(c)
    BY DEF AgreeInv
  <2>1. PICK n \in Nat : n = Len(toClient[c]) /\ Positions(c) = 1 .. n
    BY DEF TypeOK, Positions
  <2>2. PICK k \in Nat : /\ n <= k /\ Positions(c)' = 1 .. k
                         /\ \A i \in 1 .. n : toClient'[c][i] = toClient[c][i]
                         /\ \A i \in 1 .. k : i \in 1 .. n \/ toClient'[c][i].type = "HOSTLEAVE"
    <3>1. CASE Hears(c)
      <4>1. toClient'[c] = Append(toClient[c], Note("HOSTLEAVE")) /\ toClient[c] \in Seq(ToClient)
        BY <1>1, <3>1 DEF Broadcast, TypeOK
      <4>2. Positions(c)' = 1 .. n + 1 /\ toClient'[c][n + 1] = Note("HOSTLEAVE")
        BY <1>2, <2>1, <4>1 DEF Positions
      <4>3. \A i \in 1 .. n : toClient'[c][i] = toClient[c][i]
        BY <1>2, <2>1, <4>1
      <4>4. n <= n + 1 /\ \A i \in 1 .. n + 1 : i \in 1 .. n \/ i = n + 1
        BY <2>1
      <4> QED
        BY <1>2, <4>2, <4>3, <4>4
    <3>2. CASE ~Hears(c)
      <4>1. toClient'[c] = toClient[c]
        BY <1>1, <3>2 DEF Broadcast
      <4> QED
        BY <2>1, <4>1 DEF Positions
    <3> QED
      BY <3>1, <3>2
  <2>3. screen'[c] \notin {"STARTED", "FLAGGED", "ADRIFT"} /\ \A i \in 1 .. n : ~Has(c, i, "START")
    BY <1>1, <2>0, <2>1 DEF ClientInv, ScreenFits, MessagesFit
  <2>4. \A i \in 1 .. k : ~Has(c, i, "START")'
    BY <2>2, <2>3 DEF Has
  <2>5. ~MayStart(c)'
    BY <1>1, <2>2, <2>4 DEF MayStart, Starts
  <2>6. MessagesFit(c)'
    <3>1. ASSUME NEW i \in 1 .. k, Has(c, i, "ACCEPT")' PROVE i + 1 \in 1 .. k /\ Has(c, i + 1, "OPTIONS")'
      <4>1. i \in 1 .. n /\ Has(c, i, "ACCEPT")
        BY <2>2, <3>1 DEF Has
      <4>2. i + 1 \in 1 .. n /\ Has(c, i + 1, "OPTIONS")
        BY <2>0, <2>1, <4>1 DEF ClientInv, MessagesFit
      <4> QED
        BY <2>1, <2>2, <4>2 DEF Has
    <3> QED
      BY <2>2, <2>4, <3>1 DEF MessagesFit
  <2>7. ScreenFits(c)'
    BY <1>1, <2>0, <2>3 DEF ClientInv, ScreenFits
  <2> QED
    BY <2>3, <2>5, <2>6, <2>7 DEF ClientInv, MessagesAgree, TableAgrees
<1> QED
  BY <1>1, <1>3 DEF AgreeInv, StartAccepted

(* Who asks to join too late is sent away, and all are told once more.     *)
LEMMA LateJoinAgrees ==
  ASSUME TypeOK, TypeOK', AgreeInv, NEW c \in Client, HandleRequestJoin(c), game # "OPTIONS"
  PROVE  AgreeInv'
<1> DEFINE denied == [toClient EXCEPT ![c] = Append(@, Note("DENY"))]
<1>1. /\ UNCHANGED <<game, slots, screen, pendingAction, table, missed>>
      /\ toClient' = IF game = "GONE" THEN denied ELSE Broadcast(denied, Options(slots))
  BY DEF HandleRequestJoin, CanJoin, clientVars, boundVars
<1>2. /\ Note("DENY") \in ToClient /\ Note("DENY").type = "DENY"
      /\ Options(slots) \in ToClient /\ Options(slots).type = "OPTIONS"
  BY MessageTypes DEF Note, Options, TypeOK
<1>3. ASSUME NEW e \in Client
      PROVE  \/ toClient'[e] = toClient[e]
             \/ \E m \in {Note("DENY"), Options(slots)} : toClient'[e] = Append(toClient[e], m)
             \/ toClient'[e] = Append(Append(toClient[e], Note("DENY")), Options(slots))
  <2>1. denied[e] = IF e = c THEN Append(toClient[e], Note("DENY")) ELSE toClient[e]
    BY DEF TypeOK
  <2>2. toClient'[e] = denied[e] \/ toClient'[e] = Append(denied[e], Options(slots))
    BY <1>1 DEF Broadcast, TypeOK
  <2> QED
    BY <2>1, <2>2
<1>4. ASSUME NEW e \in Client PROVE Sent(e) /\ StillQuits(e)
  <2>1. PICK n \in Nat : n = Len(toClient[e]) /\ Positions(e) = 1 .. n /\ toClient[e] \in Seq(ToClient)
    BY DEF TypeOK, Positions
  <2>2. PICK k \in Nat : /\ k = Len(toClient'[e]) /\ n <= k
                         /\ \A i \in 1 .. n : toClient'[e][i] = toClient[e][i]
                         /\ \A i \in n + 1 .. k : toClient'[e][i].type \in {"DENY", "OPTIONS"}
    <3>1. CASE toClient'[e] = toClient[e]
      BY <2>1, <3>1
    <3>2. ASSUME NEW m \in {Note("DENY"), Options(slots)}, toClient'[e] = Append(toClient[e], m)
          PROVE  /\ Len(toClient'[e]) = n + 1 /\ \A i \in 1 .. n : toClient'[e][i] = toClient[e][i]
                 /\ toClient'[e][n + 1].type \in {"DENY", "OPTIONS"}
      BY <1>2, <2>1, <3>2
    <3>3. ASSUME NEW m \in ToClient, NEW o \in ToClient, m.type = "DENY", o.type = "OPTIONS",
                 toClient'[e] = Append(Append(toClient[e], m), o)
          PROVE  /\ Len(toClient'[e]) = n + 2 /\ \A i \in 1 .. n : toClient'[e][i] = toClient[e][i]
                 /\ toClient'[e][n + 1].type = "DENY" /\ toClient'[e][n + 2].type = "OPTIONS"
      BY <2>1, <3>3
    <3>4. n + 1 \in Nat /\ n + 2 \in Nat /\ (\A i \in n + 1 .. n + 1 : i = n + 1)
          /\ \A i \in n + 1 .. n + 2 : i = n + 1 \/ i = n + 2
      BY <2>1
    <3>5. CASE \E m \in {Note("DENY"), Options(slots)} : toClient'[e] = Append(toClient[e], m)
      BY <2>1, <3>2, <3>4, <3>5
    <3>6. CASE toClient'[e] = Append(Append(toClient[e], Note("DENY")), Options(slots))
      <4>1. /\ Len(toClient'[e]) = n + 2 /\ \A i \in 1 .. n : toClient'[e][i] = toClient[e][i]
            /\ toClient'[e][n + 1].type = "DENY" /\ toClient'[e][n + 2].type = "OPTIONS"
        BY <1>2, <3>3, <3>6
      <4> QED
        BY <2>1, <3>4, <4>1
    <3> QED
      BY <1>3, <3>1, <3>5, <3>6
  <2>3. Sent(e)
    BY <2>1, <2>2 DEF Sent
  <2>5. \A i \in 1 .. k : Has(e, i, "ACCEPT")' => i \in 1 .. n /\ Has(e, i, "ACCEPT")
    <3>1. \A i \in 1 .. k : i \in 1 .. n \/ i \in n + 1 .. k
      BY <2>1, <2>2
    <3> QED
      BY <2>2, <3>1 DEF Has
  <2>6. StillQuits(e)
    BY <1>1, <2>1, <2>2, <2>5 DEF StillQuits, Quits, Positions
  <2> QED
    BY <2>3, <2>6
<1>5. SameSlots
  BY <1>1, <1>4 DEF SameSlots
<1>6. ASSUME NEW e \in Client PROVE ClientInv(e)'
  <2>1. ClientInv(e) /\ ScreenFits(e)'
    BY <1>1 DEF AgreeInv, ClientInv, ScreenFits
  <2> QED
    BY <1>1, <1>4, <1>5, <2>1, SentKeeps
<1> QED
  BY <1>1, <1>6 DEF AgreeInv, StartAccepted

(* Every step keeps what they agree on.                                    *)
LEMMA AgreeNext ==
  TypeOK /\ TypeOK' /\ CountdownAccepted /\ AgreeInv /\ [Next]_vars => AgreeInv'
<1> SUFFICES ASSUME TypeOK, TypeOK', CountdownAccepted, AgreeInv, [Next]_vars PROVE AgreeInv'
  OBVIOUS
<1>1. CASE HostChanges \/ OpenOrClose \/ \E c \in Client : Kick(c)
  BY <1>1, OptionsTold, ToldAgree DEF HostChanges, OpenOrClose, Kick
<1>2. CASE StartPressed
  BY <1>2, NothingAgrees DEF StartPressed, Move
<1>3. CASE HostLeaves
  BY <1>3, HostLeavesAgrees
<1>4. CASE RequestGameStart
  BY <1>4, RequestStartAgrees
<1>5. ASSUME NEW c \in Client, HandleRequestJoin(c) PROVE AgreeInv'
  BY <1>5, JoinTold, ToldAgree, LateJoinAgrees
<1>6. ASSUME NEW c \in Client, HandleSetAccept(c) \/ HandleInActive(c) PROVE AgreeInv'
  BY <1>6, OptionsTold, ToldAgree DEF HandleSetAccept, HandleInActive, Unaccepts, Heeded
<1>7. ASSUME NEW c \in Client, HandleGameOptions(c) PROVE AgreeInv'
  <2>1. CASE RequestGameOptions
    BY <1>7, <2>1, OptionsTold, ToldAgree DEF HandleGameOptions, Heeded
  <2>2. CASE UNCHANGED <<slots, timer, toClient>>
    BY <1>7, <2>2, NothingAgrees DEF HandleGameOptions, boundVars
  <2> QED
    BY <1>7, <2>1, <2>2 DEF HandleGameOptions
<1>8. ASSUME NEW c \in Client, HandleRequestGameLeave(c) \/ DropPlayer(c) PROVE AgreeInv'
  BY <1>8, PlayerLeaveTold, ToldAgree DEF HandleRequestGameLeave, DropPlayer, Heeded
<1>9. ASSUME NEW c \in Client, HandleNothing(c) PROVE AgreeInv'
  BY <1>9, NothingAgrees DEF HandleNothing, hostVars, boundVars
<1>10. ASSUME NEW c \in Client, ClientUser(c) PROVE AgreeInv'
  BY <1>10, ClientUserAgrees, LeaveAgrees DEF ClientUser
<1>11. ASSUME NEW c \in Client, HandleJoinDeny(c) PROVE AgreeInv'
  <2>1. /\ toClient[c] # <<>> /\ Done(c) /\ Head(toClient[c]).type = "DENY" /\ pendingAction[c] = "JOIN"
        /\ pendingAction' = [pendingAction EXCEPT ![c] = "NONE"]
        /\ UNCHANGED <<game, slots, screen, table, missed>>
    BY <1>11 DEF HandleJoinDeny, Arrives, hostVars, boundVars
  <2>2. pendingAction'[c] = "NONE" /\ \A e \in Client \ {c} : pendingAction'[e] = pendingAction[e]
    BY <2>1 DEF TypeOK
  <2> QED
    BY <2>1, <2>2, TakenKeeps
<1>12. ASSUME NEW c \in Client, IgnoreMessage(c) PROVE AgreeInv'
  <2>1. /\ toClient[c] # <<>> /\ Done(c) /\ ~(Head(toClient[c]).type = "OPTIONS" /\ screen[c] = "OPTIONS")
        /\ UNCHANGED <<game, slots, screen, table, pendingAction, missed>>
    BY <1>12 DEF IgnoreMessage, hostVars, clientVars, boundVars
  <2> QED
    BY <2>1, TakenKeeps
<1>13. ASSUME NEW c \in Client, Lose(c) PROVE AgreeInv'
  <2>1. UNCHANGED <<game, slots, clientVars, screen, table, pendingAction>>
    BY <1>13 DEF Lose, hostVars, clientVars
  <2>2. CASE UNCHANGED <<toClient, missed>>
    BY <2>1, <2>2, NothingAgrees
  <2>3. CASE /\ toClient[c] # <<>> /\ Done(c)
             /\ missed' = IF Arrives(c, "OPTIONS") THEN missed \cup {c} ELSE missed
    <3>1. Head(toClient[c]).type = "OPTIONS" /\ screen[c] = "OPTIONS" => c \in missed'
      BY <2>3 DEF Arrives
    <3> QED
      BY <2>1, <2>3, <3>1, TakenKeeps
  <2> QED
    BY <1>13, <2>2, <2>3 DEF Lose
<1>14. ASSUME NEW c \in Client, HandleJoinAccept(c) \/ OnGameOptions(c) \/ HandleGameStart(c)
                                \/ HandleLeaveOfOther(c) \/ HandleGameAnnounce(c)
       PROVE  AgreeInv'
  BY <1>14, JoinAcceptAgrees, OnGameOptionsAgrees, GameStartAgrees, LeaveOfOtherAgrees, AnnounceAgrees
<1>15. ASSUME NEW c \in Client, OnHostLeave(c) \/ BailOut(c) PROVE AgreeInv'
  BY <1>15, PopAgrees DEF OnHostLeave, BailOut, hostVars, boundVars
<1>16. ASSUME NEW c \in Client, TimeOut(c) \/ Resend(c) PROVE AgreeInv'
  BY <1>16, TimeOutAgrees, ResendAgrees
<1>17. CASE UNCHANGED vars
  BY <1>17, NothingAgrees DEF vars, clientVars
<1> QED
  BY <1>1, <1>2, <1>3, <1>4, <1>5, <1>6, <1>7, <1>8, <1>9, <1>10, <1>11, <1>12, <1>13, <1>14,
     <1>15, <1>16, <1>17
  DEF Next, HostUser, HostHandles, ClientHandles, Update, Works

(* Whoever has not missed the host's last options starts with its players, *)
(* but for those who are leaving, and with its options if all are there:   *)
(* for any number of players, however joins, leaves, accepts, changes and  *)
(* the start cross, and whatever else is lost.                             *)
THEOREM StartAgrees == Spec => []StartedAgree
<1>1. Spec => []AgreeInv
  BY AgreeInit, AgreeNext, TypeCorrect, CountdownIsAccepted, PTL DEF Spec
<1> QED
  BY <1>1, TypeCorrect, AgreeEnough, PTL
================================================================================
