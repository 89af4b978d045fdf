------------------------------- MODULE Delivery -------------------------------
(***************************************************************************)
(* How a command reaches every player over UDP: the send queue, acks and   *)
(* retries of each Connection, and the ConnectionManager's two-stage       *)
(* acknowledgement through the packet router.                              *)
(*                                                                         *)
(* A client sends its command to the router only, and keeps a copy among   *)
(* its pending commands.  The router acks at once (stage 1: stop resending)*)
(* and relays; when all the players it relayed to have acked, it tells the *)
(* client so (stage 2: no longer pending).  The pending commands are what  *)
(* a client would give a new router, should this one fail.                 *)
(*                                                                         *)
(* Packets are lost, delayed, reordered and, through retries, duplicated.  *)
(* A connection's send queue is a set here; its order, and the retry time  *)
(* before a command is sent once more, only delay.  Acks are not queued:   *)
(* they are sent once and never acked themselves.                          *)
(***************************************************************************)
EXTENDS Naturals, FiniteSets

CONSTANTS Player,       \* the slots taken
          Router,       \* m_packetRouterSlot
          Cmd,          \* the commands that may be sent
          MaxSent,      \* bound: commands sent
          MaxLost,      \* bound: packets lost
          MaxAgain      \* bound: packets received of which another copy was under way

ASSUME PlayerAssumption == IsFiniteSet(Player) /\ Router \in Player
(* direct: CommandRequiresDirectSend - sent to each player without relaying*)
ASSUME CmdAssumption ==
  Cmd \subseteq [player : Player, id : Nat, direct : BOOLEAN]
ASSUME BoundAssumption == MaxSent \in Nat /\ MaxLost \in Nat /\ MaxAgain \in Nat

VARIABLES
  sent,     \* history: the commands sent
  held,     \* [player -> the commands it has taken in]
  queue,    \* m_connections[q]->m_netCommandList: [p -> [q -> commands p sends to q until acked]]
  pending,  \* m_pendingCommands: [player -> its own commands not yet known to have arrived]
  relayed,  \* the router's m_relayedCommands: [command -> who has not acked it, {}: not listed]
  net,      \* the packets under way
  lost,     \* the packets lost so far
  again     \* the packets received so far of which another copy is under way

vars == <<sent, held, queue, pending, relayed, net, lost, again>>

(* An ack names the command it acks.                                       *)
Packet == [kind : {"COMMAND", "ACKSTAGE1", "ACKSTAGE2", "ACKBOTH"},
           from : Player, to : Player, cmd : Cmd]
Pack(kind, p, q, c) == [kind |-> kind, from |-> p, to |-> q, cmd |-> c]

Relayable(c) == ~c.direct /\ c.player # Router

Promise == INSTANCE Broadcast WITH got <- held

Init ==
  /\ sent = {}
  /\ held = [p \in Player |-> {}]
  /\ queue = [p \in Player |-> [q \in Player |-> {}]]
  /\ pending = [p \in Player |-> {}]
  /\ relayed = [c \in Cmd |-> {}]
  /\ net = {}
  /\ lost = 0
  /\ again = 0

----------------------------------------------------------------------------
Enqueue(p, targets, c) ==
  queue' = [queue EXCEPT ![p] =
              [q \in Player |-> IF q \in targets THEN @[q] \cup {c} ELSE @[q]]]

(* sendLocalCommand, sendLocalCommandDirect.                               *)
SendLocalCommand(c) ==
  /\ c \notin sent /\ Cardinality(sent) < MaxSent
  /\ sent' = sent \cup {c}
  /\ held' = [held EXCEPT ![c.player] = @ \cup {c}]
  /\ IF Relayable(c)
     THEN /\ Enqueue(c.player, {Router}, c)
          /\ pending' = [pending EXCEPT ![c.player] = @ \cup {c}]
     ELSE /\ Enqueue(c.player, Player \ {c.player}, c)
          /\ UNCHANGED pending
  /\ UNCHANGED <<relayed, net, lost, again>>

(* A mutant: a command is sent once, as those that need no ack are.        *)
DoSendOnce(p, q, c) ==
  /\ c \in queue[p][q]
  /\ net' = net \cup {Pack("COMMAND", p, q, c)}
  /\ queue' = [queue EXCEPT ![p][q] = @ \ {c}]
  /\ UNCHANGED <<sent, held, pending, relayed, lost, again>>
(* Connection::doSend: a command stays in the queue until it is acked.     *)
DoSend(p, q, c) ==
  /\ c \in queue[p][q]
  /\ net' = net \cup {Pack("COMMAND", p, q, c)}
  /\ UNCHANGED <<sent, held, queue, pending, relayed, lost, again>>

----------------------------------------------------------------------------
(* m leaves the network, unless another copy of it is still under way, and *)
(* sends enter it.                                                         *)
Exchange(m, copy, sends) ==
  /\ copy => again < MaxAgain
  /\ again' = IF copy THEN again + 1 ELSE again
  /\ net' = (IF copy THEN net ELSE net \ {m}) \cup sends
  /\ UNCHANGED lost

(* A mutant: the relay field's bit of the receiver is not cleared.         *)
RelayToSelf(m) ==
  IF Relayable(m.cmd) /\ m.to = Router THEN Player \ {m.from} ELSE {}
(* The relay field of a received command, less the receiver: the players   *)
(* it is to be relayed to.                                                 *)
RelayTo(m) ==
  IF Relayable(m.cmd) /\ m.to = Router THEN Player \ {m.from, Router} ELSE {}

(* A mutant: both stages are acked at once.                                *)
AckCommandBoth(m) ==
  Pack("ACKBOTH", m.to,
       IF m.cmd.direct \/ m.to = Router THEN m.cmd.player ELSE Router, m.cmd)
(* ackCommand: the ack goes to the router, unless the command came without *)
(* relaying, or the router itself acks.                                    *)
AckCommand(m) ==
  Pack(IF RelayTo(m) = {} THEN "ACKBOTH" ELSE "ACKSTAGE1", m.to,
       IF m.cmd.direct \/ m.to = Router THEN m.cmd.player ELSE Router, m.cmd)

(* sendRemoteCommand: take the command in and relay it.                    *)
SendRemoteCommand(m) ==
  LET c == m.cmd
  IN  /\ held' = [held EXCEPT ![m.to] = @ \cup {c}]
      /\ Enqueue(m.to, RelayTo(m), c)
      /\ relayed' = [relayed EXCEPT ![c] = IF @ = {} THEN RelayTo(m) ELSE @]

(* processNetCommand drops a command whose frame has been executed: then   *)
(* it had been taken in.  It has been acked all the same.                  *)
OutOfDate(m) == m.cmd \in held[m.to] /\ UNCHANGED <<held, queue, relayed>>

ReceiveCommand(m, copy) ==
  /\ m \in net /\ m.kind = "COMMAND"
  /\ Exchange(m, copy, {AckCommand(m)})
  /\ SendRemoteCommand(m) \/ OutOfDate(m)
  /\ UNCHANGED <<sent, pending>>

(* Mutants: a stage 1 ack does not end the resending; the first ack of a   *)
(* relayed command is taken for the last one.                              *)
StillQueuedAfterStage1(m) ==
  IF m.kind # "ACKBOTH" THEN queue ELSE [queue EXCEPT ![m.to][m.from] = @ \ {m.cmd}]
StillToAckNobody(m) == {}
(* processAckStage1: stop sending it to the player who acked.              *)
StillQueuedAfter(m) ==
  IF m.kind = "ACKSTAGE2" THEN queue ELSE [queue EXCEPT ![m.to][m.from] = @ \ {m.cmd}]

(* processAckStage2: the command is no longer pending; when nobody else it *)
(* was relayed to is left, the player it came from is told so.             *)
StillToAck(m) == relayed[m.cmd] \ {m.from}

ReceiveAckStage1(m, copy) ==
  /\ m \in net /\ m.kind = "ACKSTAGE1"
  /\ queue' = StillQueuedAfter(m)
  /\ Exchange(m, copy, {})
  /\ UNCHANGED <<sent, held, pending, relayed>>

ReceiveAckStage2(m, copy) ==
  /\ m \in net /\ m.kind \in {"ACKSTAGE2", "ACKBOTH"}
  /\ queue' = StillQueuedAfter(m)
  /\ pending' = [pending EXCEPT ![m.to] = @ \ {m.cmd}]
  /\ IF m.to = Router /\ relayed[m.cmd] # {}
     THEN /\ relayed' = [relayed EXCEPT ![m.cmd] = StillToAck(m)]
          /\ Exchange(m, copy, IF StillToAck(m) = {}
                               THEN {Pack("ACKSTAGE2", Router, m.cmd.player, m.cmd)} ELSE {})
     ELSE Exchange(m, copy, {}) /\ UNCHANGED relayed
  /\ UNCHANGED <<sent, held>>

Receive(m, copy) ==
  ReceiveCommand(m, copy) \/ ReceiveAckStage1(m, copy) \/ ReceiveAckStage2(m, copy)

Lose(m) ==
  /\ lost < MaxLost
  /\ lost' = lost + 1
  /\ net' = net \ {m}
  /\ UNCHANGED <<sent, held, queue, pending, relayed, again>>

Next ==
  \/ \E c \in Cmd : SendLocalCommand(c)
  \/ \E p, q \in Player : \E c \in queue[p][q] : DoSend(p, q, c)
  \/ \E m \in net : \E copy \in BOOLEAN : ReceiveCommand(m, copy)
  \/ \E m \in net : \E copy \in BOOLEAN : ReceiveAckStage1(m, copy)
  \/ \E m \in net : \E copy \in BOOLEAN : ReceiveAckStage2(m, copy)
  \/ \E m \in net : Lose(m)

(* update calls doSend on every connection of every machine, so a command  *)
(* is sent again until acked; a packet that is not lost arrives.           *)
Fairness ==
  /\ \A p, q \in Player : \A c \in Cmd : WF_vars(DoSend(p, q, c))
  /\ \A m \in Packet : WF_vars(Receive(m, FALSE))

Spec == Init /\ [][Next]_vars
FairSpec == Spec /\ Fairness

----------------------------------------------------------------------------
(* Properties.                                                             *)

TypeOK ==
  /\ sent \in SUBSET Cmd
  /\ held \in [Player -> SUBSET Cmd]
  /\ queue \in [Player -> [Player -> SUBSET Cmd]]
  /\ \A p \in Player : queue[p][p] = {}
  /\ pending \in [Player -> SUBSET {c \in Cmd : Relayable(c)}]
  /\ relayed \in [Cmd -> SUBSET (Player \ {Router})]
  /\ net \subseteq Packet
  /\ lost \in 0 .. MaxLost
  /\ again \in 0 .. MaxAgain

(* As long as somebody lacks a relayed command, the player it came from    *)
(* keeps it among its pending commands, whatever acks were lost, repeated  *)
(* or late: a new router could still be given it.                          *)
NothingForgotten ==
  \A c \in sent : Relayable(c) =>
    \A q \in Player : c \notin held[q] => c \in pending[c.player]

(* And somebody is still sending it: on each leg of its way the command is *)
(* in the send queue until it has been taken in at the other end, and the  *)
(* router still waits for that player's ack.                               *)
StillOnItsWay ==
  \A c \in sent : \A q \in Player : c \notin held[q] =>
    IF ~Relayable(c) THEN c \in queue[c.player][q]
    ELSE IF c \in held[Router] THEN c \in queue[Router][q] /\ q \in relayed[c]
    ELSE c \in queue[c.player][Router]

(* Every command gets to every player, once.                               *)
KeepsThePromise == Promise!FairSpec

(* The queues empty: nothing is sent for ever, and no relayed command is   *)
(* waited for in vain - also when a late copy makes the router relay again.*)
ResendingStops ==
  <>[](/\ \A p, q \in Player : queue[p][q] = {}
       /\ \A c \in Cmd : relayed[c] = {})
=============================================================================
