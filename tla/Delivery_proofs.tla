--------------------------- MODULE Delivery_proofs ---------------------------
(***************************************************************************)
(* That the two-stage acknowledgement loses nothing, for any number of     *)
(* players, commands, losses and repeated packets.                         *)
(*                                                                         *)
(* What makes it inductive: an ack under way is true (whoever it is from   *)
(* has the command; a stage 2 ack says that everybody has it), and a       *)
(* command not yet taken in at the end of a leg is still in the queue of   *)
(* that leg, where only a true ack could have removed it.                  *)
(***************************************************************************)
EXTENDS Delivery, TLAPS

(* The legs a command travels: to the router and on, or straight.          *)
Leg(p, q, c) ==
  /\ p # q
  /\ IF Relayable(c) THEN \/ p = c.player /\ q = Router
                          \/ p = Router /\ q # c.player
     ELSE p = c.player

Holders ==
  /\ \A p \in Player : held[p] \subseteq sent
  /\ \A c \in sent : c \in held[c.player]

Queues ==
  \A p, q \in Player : \A c \in Cmd : c \in queue[p][q] => c \in held[p] /\ Leg(p, q, c)

Ledger == \A c \in Cmd : relayed[c] # {} => Relayable(c) /\ c \in held[Router]

Everywhere(c) == \A q \in Player : c \in held[q]

True(m) ==
  /\ m.cmd \in held[m.from]
  /\ m.kind = "COMMAND" => Leg(m.from, m.to, m.cmd)
  /\ m.kind = "ACKBOTH" /\ Relayable(m.cmd) /\ m.to # Router => Everywhere(m.cmd)
  /\ m.kind = "ACKSTAGE2" => Everywhere(m.cmd)

Packets == \A m \in net : True(m)

(* StillOnItsWay, leg by leg.                                              *)
StraightLeg ==
  \A c \in sent : \A q \in Player :
    ~Relayable(c) /\ c \notin held[q] => c \in queue[c.player][q]
FirstLeg ==
  \A c \in sent : Relayable(c) /\ c \notin held[Router] => c \in queue[c.player][Router]
SecondLeg ==
  \A c \in sent : \A q \in Player :
    Relayable(c) /\ c \in held[Router] /\ c \notin held[q] =>
      c \in queue[Router][q] /\ q \in relayed[c]

IInv ==
  /\ TypeOK
  /\ Holders /\ Queues /\ Ledger /\ Packets
  /\ StraightLeg /\ FirstLeg /\ SecondLeg /\ NothingForgotten

(* The players of a command and the ends of a packet are players.          *)
LEMMA Players ==
  ASSUME TypeOK
  PROVE  /\ Router \in Player
         /\ \A c \in Cmd : c.player \in Player
         /\ \A m \in net : m.cmd \in Cmd /\ m.from \in Player /\ m.to \in Player
BY PlayerAssumption, CmdAssumption DEF TypeOK, Packet

(* In the beginning nothing has been sent.                                 *)
LEMMA InitIInv == Init => IInv
<1> SUFFICES ASSUME Init PROVE IInv
  OBVIOUS
<1> USE DEF Init
<1>1. TypeOK
  BY BoundAssumption DEF TypeOK
<1>2. Holders /\ Queues /\ Ledger /\ Packets
  BY PlayerAssumption DEF Holders, Queues, Ledger, Packets
<1>3. StraightLeg /\ FirstLeg /\ SecondLeg /\ NothingForgotten
  BY DEF StraightLeg, FirstLeg, SecondLeg, NothingForgotten
<1> QED
  BY <1>1, <1>2, <1>3 DEF IInv

(* What a player has taken in it keeps, so a true packet stays true.       *)
LEMMA TrueStays ==
  ASSUME TypeOK, \A p \in Player : held[p] \subseteq held'[p], NEW m \in net, True(m)
  PROVE  True(m)'
BY Players DEF True, Everywhere, Leg, Relayable

(* Enqueue adds the command to the queues of p to the targets.             *)
LEMMA Enqueued ==
  ASSUME TypeOK, NEW p \in Player, NEW targets, NEW c \in Cmd, Enqueue(p, targets, c)
  PROVE  /\ queue' \in [Player -> [Player -> SUBSET Cmd]]
         /\ \A a, q \in Player :
              /\ a = p /\ q \in targets => queue'[a][q] = queue[a][q] \cup {c}
              /\ a # p \/ q \notin targets => queue'[a][q] = queue[a][q]
<1> DEFINE row == [q \in Player |-> IF q \in targets THEN queue[p][q] \cup {c} ELSE queue[p][q]]
<1>1. queue \in [Player -> [Player -> SUBSET Cmd]]
  BY DEF TypeOK
<1>2. queue' = [queue EXCEPT ![p] = row]
  BY <1>1 DEF Enqueue
<1>3. row \in [Player -> SUBSET Cmd]
  BY <1>1
<1>4. \A q \in Player : row[q] = IF q \in targets THEN queue[p][q] \cup {c} ELSE queue[p][q]
  OBVIOUS
<1> HIDE DEF row
<1>5. queue' \in [Player -> [Player -> SUBSET Cmd]]
  BY <1>1, <1>2, <1>3
<1>6. \A a \in Player : queue'[a] = IF a = p THEN row ELSE queue[a]
  BY <1>1, <1>2
<1> QED
  BY <1>4, <1>5, <1>6

(* A command sent: only its sender has it, so it is on its first leg.      *)
LEMMA SendKeepsIInv ==
  ASSUME IInv, NEW c \in Cmd, SendLocalCommand(c)
  PROVE  IInv'
<1>1. TypeOK /\ Holders /\ Queues /\ Ledger /\ Packets
  BY DEF IInv
<1>2. StraightLeg /\ FirstLeg /\ SecondLeg /\ NothingForgotten
  BY DEF IInv
<1>3. Router \in Player /\ \A d \in Cmd : d.player \in Player
  BY <1>1, Players
<1>4. c.player \in Player
  BY <1>3
<1>5. sent' = sent \cup {c} /\ c \notin sent
  BY DEF SendLocalCommand
<1>6. \A p \in Player : held'[p] = IF p = c.player THEN held[p] \cup {c} ELSE held[p]
  BY <1>1, <1>4 DEF SendLocalCommand, TypeOK
<1>7. relayed' = relayed /\ net' = net /\ lost' = lost /\ again' = again
  BY DEF SendLocalCommand
<1> DEFINE targets == IF Relayable(c) THEN {Router} ELSE Player \ {c.player}
<1>a. Enqueue(c.player, targets, c)
  BY DEF SendLocalCommand
<1>b. \A q \in Player : q \in targets <=> \/ Relayable(c) /\ q = Router
                                          \/ ~Relayable(c) /\ q # c.player
  OBVIOUS
<1> HIDE DEF targets
<1>8. \A p, q \in Player :
        /\ p = c.player /\ q \in targets => queue'[p][q] = queue[p][q] \cup {c}
        /\ p # c.player \/ q \notin targets => queue'[p][q] = queue[p][q]
  BY <1>1, <1>4, <1>a, Enqueued
<1>9. \A p \in Player :
        pending'[p] = IF p = c.player /\ Relayable(c) THEN pending[p] \cup {c} ELSE pending[p]
  BY <1>1, <1>4 DEF SendLocalCommand, TypeOK
<1>10. \A d \in sent' : d \in Cmd /\ d.player \in Player
  BY <1>1, <1>3, <1>5 DEF TypeOK
<1>11. \A d \in Cmd : Relayable(d) => d.player # Router
  BY DEF Relayable
<1>12. TypeOK'
  <2>1. sent' \in SUBSET Cmd /\ held' \in [Player -> SUBSET Cmd]
    BY <1>1, <1>5 DEF SendLocalCommand, TypeOK
  <2>2. queue' \in [Player -> [Player -> SUBSET Cmd]]
    BY <1>1, <1>4, <1>a, Enqueued
  <2>3. \A p \in Player : queue'[p][p] = {}
    BY <1>1, <1>8, <1>11, <1>b DEF TypeOK
  <2>4. pending' \in [Player -> SUBSET {d \in Cmd : Relayable(d)}]
    BY <1>1 DEF SendLocalCommand, TypeOK
  <2> QED
    BY <1>1, <1>7, <2>1, <2>2, <2>3, <2>4 DEF TypeOK, Relayable
<1>13. Holders'
  BY <1>1, <1>5, <1>6, <1>10 DEF Holders
<1>14. Queues'
  <2> SUFFICES ASSUME NEW p \in Player, NEW q \in Player, NEW d \in Cmd, d \in queue'[p][q]
               PROVE  d \in held'[p] /\ Leg(p, q, d)
    BY DEF Queues, Leg, Relayable
  <2>1. CASE d \in queue[p][q]
    BY <1>1, <1>6, <2>1 DEF Queues
  <2>2. CASE d \notin queue[p][q]
    <3>1. d = c /\ p = c.player /\ q \in targets
      BY <1>8, <2>2
    <3> QED
      BY <1>6, <1>11, <1>b, <3>1 DEF Leg
  <2> QED
    BY <2>1, <2>2
<1>15. Ledger'
  BY <1>1, <1>3, <1>6, <1>7 DEF Ledger, Relayable
<1>16. Packets'
  BY <1>1, <1>6, <1>7, TrueStays DEF Packets
<1>17. ASSUME NEW d \in sent', NEW q \in Player, d \notin held'[q]
       PROVE  /\ ~Relayable(d) => d \in queue'[d.player][q]
              /\ Relayable(d) /\ q = Router => d \in queue'[d.player][Router]
              /\ Relayable(d) /\ d \in held'[Router] => d \in queue'[Router][q] /\ q \in relayed'[d]
              /\ Relayable(d) => d \in pending'[d.player]
  <2>1. CASE d = c
    <3>1. q # c.player /\ (Relayable(c) => c \notin held'[Router])
      BY <1>1, <1>3, <1>5, <1>6, <1>11, <1>17, <2>1 DEF Holders
    <3>2. Relayable(c) => c \in pending'[c.player]
      BY <1>4, <1>9
    <3>3. Relayable(c) => c \in queue'[c.player][Router]
      BY <1>3, <1>4, <1>8, <1>b
    <3>4. ~Relayable(c) => c \in queue'[c.player][q]
      BY <1>4, <1>8, <1>b, <3>1
    <3> QED
      BY <2>1, <3>1, <3>2, <3>3, <3>4
  <2>2. CASE d # c
    <3>1. d \in sent /\ d \notin held[q] /\ (d \in held'[Router] => d \in held[Router])
      BY <1>3, <1>5, <1>6, <1>17, <2>2
    <3>2. \A p, r \in Player : d \in queue[p][r] => d \in queue'[p][r]
      BY <1>8
    <3>3. d \in pending[d.player] => d \in pending'[d.player]
      BY <1>9, <1>10
    <3> QED
      BY <1>2, <1>3, <1>7, <1>10, <3>1, <3>2, <3>3
      DEF StraightLeg, FirstLeg, SecondLeg, NothingForgotten
  <2> QED
    BY <2>1, <2>2
<1>18. StraightLeg' /\ FirstLeg' /\ SecondLeg' /\ NothingForgotten'
  BY <1>3, <1>17 DEF StraightLeg, FirstLeg, SecondLeg, NothingForgotten, Relayable
<1> QED
  BY <1>12, <1>13, <1>14, <1>15, <1>16, <1>18 DEF IInv

(* A queue emptied into the network.                                       *)
LEMMA DoSendKeepsIInv ==
  ASSUME IInv, NEW p \in Player, NEW q \in Player, NEW c \in queue[p][q], DoSend(p, q, c)
  PROVE  IInv'
<1> USE DEF IInv
<1> DEFINE m == Pack("COMMAND", p, q, c)
<1>a. UNCHANGED <<sent, held, queue, pending, relayed, lost, again>> /\ net' = net \cup {m}
  BY DEF DoSend
<1>b. c \in Cmd
  BY DEF TypeOK
<1>c. m \in Packet
  BY <1>b DEF Pack, Packet
<1>1. TypeOK'
  BY <1>a, <1>c DEF TypeOK
<1>2. c \in held[p] /\ Leg(p, q, c)
  BY <1>b DEF Queues
<1>3. True(m)'
  BY <1>a, <1>2 DEF True, Pack, Leg, Relayable
<1>4. Packets'
  BY <1>a, <1>3, TrueStays DEF Packets
<1>5. Holders' /\ Queues' /\ Ledger'
  BY <1>a DEF Holders, Queues, Ledger, Leg, Relayable
<1>6. StraightLeg' /\ FirstLeg' /\ SecondLeg' /\ NothingForgotten'
  BY <1>a DEF StraightLeg, FirstLeg, SecondLeg, NothingForgotten, Relayable
<1> QED
  BY <1>1, <1>4, <1>5, <1>6 DEF IInv

(* What an exchange leaves in the network was there, or is sent.           *)
LEMMA Exchanged ==
  ASSUME TypeOK, NEW m \in net, NEW copy \in BOOLEAN, NEW sends \in SUBSET Packet,
         Exchange(m, copy, sends)
  PROVE  /\ net' \subseteq net \cup sends
         /\ net' \subseteq Packet /\ lost' \in 0 .. MaxLost /\ again' \in 0 .. MaxAgain
BY BoundAssumption DEF TypeOK, Exchange

(* A lost packet.                                                          *)
LEMMA LoseKeepsIInv ==
  ASSUME IInv, NEW m \in net, Lose(m)
  PROVE  IInv'
<1>1. UNCHANGED <<sent, held, queue, pending, relayed, again>> /\ net' = net \ {m}
  BY DEF Lose
<1>2. TypeOK'
  BY <1>1, BoundAssumption DEF IInv, TypeOK, Lose, Relayable
<1>3. Packets'
  BY <1>1, TrueStays DEF IInv, Packets
<1>4. Holders' /\ Queues' /\ Ledger'
  BY <1>1 DEF IInv, Holders, Queues, Ledger, Leg, Relayable
<1>5. StraightLeg' /\ FirstLeg' /\ SecondLeg' /\ NothingForgotten'
  BY <1>1 DEF IInv, StraightLeg, FirstLeg, SecondLeg, NothingForgotten, Relayable
<1> QED
  BY <1>2, <1>3, <1>4, <1>5 DEF IInv

(* An ack received: what it removes, whoever sent it already has.          *)
LEMMA AckKeepsIInv ==
  ASSUME IInv, NEW m \in net, m.kind # "COMMAND",
         NEW copy \in BOOLEAN, NEW sends \in SUBSET Packet, Exchange(m, copy, sends),
         \A s \in sends : True(s),
         UNCHANGED <<sent, held>>,
         queue' = StillQueuedAfter(m),
         \/ UNCHANGED pending
         \/ /\ m.kind \in {"ACKSTAGE2", "ACKBOTH"}
            /\ pending' = [pending EXCEPT ![m.to] = @ \ {m.cmd}],
         \/ UNCHANGED relayed
         \/ relayed' = [relayed EXCEPT ![m.cmd] = @ \ {m.from}]
  PROVE  IInv'
<1>1. TypeOK /\ Holders /\ Queues /\ Ledger /\ Packets
  BY DEF IInv
<1>2. StraightLeg /\ FirstLeg /\ SecondLeg /\ NothingForgotten
  BY DEF IInv
<1>3. m.cmd \in Cmd /\ m.from \in Player /\ m.to \in Player /\ m.cmd \in held[m.from]
  BY <1>1, Players DEF Packets, True
<1>4. Router \in Player /\ \A d \in sent : d \in Cmd /\ d.player \in Player
  BY <1>1, Players DEF TypeOK
<1>5. \A p, q \in Player :
        /\ queue'[p][q] \subseteq queue[p][q]
        /\ \A d \in queue[p][q] : d \in queue'[p][q] \/ (q = m.from /\ d = m.cmd)
  BY <1>1, <1>3 DEF StillQueuedAfter, TypeOK
<1>6. \A p \in Player :
        /\ pending'[p] \subseteq pending[p]
        /\ \A d \in pending[p] :
             d \in pending'[p] \/ (d = m.cmd /\ p = m.to /\ m.kind \in {"ACKSTAGE2", "ACKBOTH"})
  BY <1>1, <1>3 DEF TypeOK
<1>7. \A d \in Cmd :
        /\ relayed'[d] \subseteq relayed[d]
        /\ \A q \in relayed[d] : q \in relayed'[d] \/ (d = m.cmd /\ q = m.from)
  BY <1>1, <1>3 DEF TypeOK
<1>8. \A s \in net' : s \in net \/ s \in sends
  BY <1>1, Exchanged
<1>9. TypeOK'
  <2>1. queue' \in [Player -> [Player -> SUBSET Cmd]]
    BY <1>1, <1>3 DEF StillQueuedAfter, TypeOK
  <2>2. \A p \in Player : queue'[p][p] = {}
    BY <1>1, <1>5 DEF TypeOK
  <2>3. pending' \in [Player -> SUBSET {c \in Cmd : Relayable(c)}]
    BY <1>1 DEF TypeOK
  <2>4. relayed' \in [Cmd -> SUBSET (Player \ {Router})]
    BY <1>1 DEF TypeOK
  <2> QED
    BY <1>1, Exchanged, <2>1, <2>2, <2>3, <2>4 DEF TypeOK, Relayable
<1>10. Holders' /\ Queues' /\ Ledger'
  BY <1>1, <1>5, <1>7 DEF Holders, Queues, Ledger, Leg, Relayable
<1>11. Packets'
  <2>1. \A s : True(s) => True(s)'
    BY DEF True, Everywhere, Leg, Relayable
  <2> QED
    BY <1>1, <1>8, <2>1 DEF Packets
<1>12. ASSUME NEW d \in sent, NEW q \in Player, d \notin held[q]
       PROVE  /\ \A p \in Player : d \in queue[p][q] => d \in queue'[p][q]
              /\ q \in relayed[d] => q \in relayed'[d]
              /\ Relayable(d) /\ d \in pending[d.player] => d \in pending'[d.player]
  <2>1. d # m.cmd \/ q # m.from
    BY <1>3, <1>12
  <2>2. \A p \in Player : d \in queue[p][q] => d \in queue'[p][q]
    BY <1>5, <2>1
  <2>3. q \in relayed[d] => q \in relayed'[d]
    BY <1>4, <1>7, <2>1
  <2>4. ASSUME Relayable(d), d \in pending[d.player], d \notin pending'[d.player]
        PROVE  FALSE
    <3>1. d = m.cmd /\ d.player = m.to /\ m.kind \in {"ACKSTAGE2", "ACKBOTH"}
      BY <1>4, <1>6, <2>4
    <3>2. m.to # Router
      BY <2>4, <3>1 DEF Relayable
    <3>3. Everywhere(d)
      BY <1>1, <2>4, <3>1, <3>2 DEF Packets, True
    <3> QED
      BY <1>12, <3>3 DEF Everywhere
  <2> QED
    BY <2>2, <2>3, <2>4
<1>13. StraightLeg' /\ FirstLeg'
  BY <1>2, <1>4, <1>12 DEF StraightLeg, FirstLeg, Relayable
<1>14. SecondLeg' /\ NothingForgotten'
  BY <1>2, <1>4, <1>12 DEF SecondLeg, NothingForgotten, Relayable
<1> QED
  BY <1>9, <1>10, <1>11, <1>13, <1>14 DEF IInv

LEMMA ReceiveAckStage1KeepsIInv ==
  ASSUME IInv, NEW m \in net, NEW copy \in BOOLEAN, ReceiveAckStage1(m, copy)
  PROVE  IInv'
BY AckKeepsIInv DEF ReceiveAckStage1

(* The stage 2 ack the router sends is true: whoever lacked the command    *)
(* would still be in the ledger, and the last one there has just acked.    *)
LEMMA ReceiveAckStage2KeepsIInv ==
  ASSUME IInv, NEW m \in net, NEW copy \in BOOLEAN, ReceiveAckStage2(m, copy)
  PROVE  IInv'
<1> DEFINE c == m.cmd
           last == Pack("ACKSTAGE2", Router, c.player, c)
           sends == IF m.to = Router /\ relayed[c] # {} /\ StillToAck(m) = {} THEN {last} ELSE {}
<1>1. TypeOK /\ Ledger /\ Packets /\ Holders /\ FirstLeg /\ SecondLeg /\ StraightLeg /\ Queues
  BY DEF IInv
<1>2. c \in Cmd /\ c \in held[m.from] /\ m.from \in Player /\ m.to \in Player
      /\ Router \in Player /\ c.player \in Player
  BY <1>1, Players DEF Packets, True
<1>3. c \in sent
  BY <1>1, <1>2 DEF Holders
<1>4. ASSUME relayed[c] # {}, StillToAck(m) = {}
      PROVE  Everywhere(c)
  <2>1. c \in held[Router]
    BY <1>1, <1>2, <1>4 DEF Ledger
  <2>2. CASE Relayable(c)
    BY <1>1, <1>2, <1>3, <1>4, <2>1, <2>2 DEF SecondLeg, StillToAck, Everywhere
  <2>3. CASE ~Relayable(c)
    BY <1>1, <1>2, <1>4, <2>3 DEF Ledger
  <2> QED
    BY <2>2, <2>3
<1>5. last \in Packet
  BY <1>2 DEF Pack, Packet
<1>6. ASSUME NEW s \in sends PROVE s \in Packet /\ True(s)
  <2>1. s = last /\ relayed[c] # {} /\ StillToAck(m) = {}
    BY <1>6
  <2>2. Everywhere(c)
    BY <1>4, <2>1
  <2>3. last.cmd = c /\ last.from = Router /\ last.to = c.player /\ last.kind = "ACKSTAGE2"
    BY DEF Pack
  <2> QED
    BY <1>2, <1>5, <2>1, <2>2, <2>3 DEF True, Everywhere
<1>7. Exchange(m, copy, sends)
  BY DEF ReceiveAckStage2
<1>8. UNCHANGED relayed \/ relayed' = [relayed EXCEPT ![c] = @ \ {m.from}]
  BY DEF ReceiveAckStage2, StillToAck
<1>9. /\ m.kind \in {"ACKSTAGE2", "ACKBOTH"}
      /\ pending' = [pending EXCEPT ![m.to] = @ \ {c}]
      /\ queue' = StillQueuedAfter(m)
      /\ UNCHANGED <<sent, held>>
  BY DEF ReceiveAckStage2
<1> HIDE DEF sends
<1>10. sends \in SUBSET Packet /\ \A s \in sends : True(s)
  BY <1>6
<1> QED
  BY <1>7, <1>8, <1>9, <1>10, AckKeepsIInv

(* A command received: the router that takes it in enters everybody else   *)
(* but its sender in its queues and its ledger.                            *)
LEMMA ReceiveCommandKeepsIInv ==
  ASSUME IInv, NEW m \in net, NEW copy \in BOOLEAN, ReceiveCommand(m, copy)
  PROVE  IInv'
<1> DEFINE c == m.cmd
           ack == AckCommand(m)
<1>1. TypeOK /\ Holders /\ Queues /\ Ledger /\ Packets
  BY DEF IInv
<1>2. StraightLeg /\ FirstLeg /\ SecondLeg /\ NothingForgotten
  BY DEF IInv
<1>3. c \in Cmd /\ m.from \in Player /\ m.to \in Player /\ Router \in Player /\ c.player \in Player
  BY <1>1, Players
<1>4. c \in held[m.from] /\ Leg(m.from, m.to, c) /\ c \in sent
  BY <1>1, <1>3 DEF ReceiveCommand, Packets, True, Holders
<1>5. \A d \in sent : d \in Cmd /\ d.player \in Player
  BY <1>1, Players DEF TypeOK
<1>6. UNCHANGED <<sent, pending>> /\ Exchange(m, copy, {ack})
  BY DEF ReceiveCommand
<1>7. /\ RelayTo(m) \subseteq Player \ {Router}
      /\ RelayTo(m) # {} => Relayable(c) /\ m.to = Router /\ m.from = c.player
      /\ Relayable(c) /\ m.to = Router => RelayTo(m) = Player \ {c.player, Router}
  BY <1>4 DEF RelayTo, Leg
<1>8. /\ held' \in [Player -> SUBSET Cmd]
      /\ \A p \in Player : /\ held[p] \subseteq held'[p]
                           /\ held'[p] \subseteq (IF p = m.to THEN held[p] \cup {c} ELSE held[p])
      /\ c \in held'[m.to]
  BY <1>1, <1>3 DEF ReceiveCommand, SendRemoteCommand, OutOfDate, TypeOK
<1>9. /\ queue' \in [Player -> [Player -> SUBSET Cmd]]
      /\ \A p, q \in Player : \A d \in Cmd :
           /\ d \in queue[p][q] => d \in queue'[p][q]
           /\ d \in queue'[p][q] => d \in queue[p][q] \/ (d = c /\ p = m.to /\ q \in RelayTo(m))
  <2>1. CASE UNCHANGED queue
    BY <1>1, <2>1 DEF TypeOK
  <2>2. CASE Enqueue(m.to, RelayTo(m), c)
    BY <1>1, <1>3, <2>2, Enqueued
  <2> QED
    BY <2>1, <2>2 DEF ReceiveCommand, SendRemoteCommand, OutOfDate
<1>10. relayed' \in [Cmd -> SUBSET (Player \ {Router})]
       /\ \A d \in Cmd : \/ relayed'[d] = relayed[d]
                         \/ d = c /\ relayed[d] = {} /\ relayed'[d] = RelayTo(m)
  BY <1>1, <1>3, <1>7 DEF ReceiveCommand, SendRemoteCommand, OutOfDate, TypeOK
<1>11. ack.cmd = c /\ ack.from = m.to /\ ack \in Packet
       /\ ack.kind \in {"ACKBOTH", "ACKSTAGE1"} /\ (ack.kind = "ACKBOTH" => RelayTo(m) = {})
       /\ (ack.to = Router \/ c.direct \/ m.to = Router)
  BY <1>3 DEF AckCommand, Pack, Packet
<1>12. TypeOK'
  <2>1. \A p \in Player : queue'[p][p] = {}
    BY <1>1, <1>7, <1>9 DEF TypeOK
  <2>2. net' \subseteq Packet /\ lost' \in 0 .. MaxLost /\ again' \in 0 .. MaxAgain
    BY <1>1, <1>6, <1>11, Exchanged
  <2> QED
    BY <1>1, <1>6, <1>8, <1>9, <1>10, <2>1, <2>2 DEF TypeOK, Relayable
<1>13. Holders'
  BY <1>1, <1>3, <1>4, <1>5, <1>6, <1>8 DEF Holders
<1>14. Queues'
  <2> SUFFICES ASSUME NEW p \in Player, NEW q \in Player, NEW d \in Cmd, d \in queue'[p][q]
               PROVE  d \in held'[p] /\ Leg(p, q, d)
    BY DEF Queues, Leg, Relayable
  <2>1. CASE d \in queue[p][q]
    BY <1>1, <1>8, <2>1 DEF Queues
  <2>2. CASE d = c /\ p = m.to /\ q \in RelayTo(m)
    <3>1. Relayable(c) /\ m.to = Router /\ q # Router /\ q # c.player
      BY <1>7, <2>2
    <3> QED
      BY <1>8, <2>2, <3>1 DEF Leg
  <2> QED
    BY <1>9, <2>1, <2>2
<1>15. Ledger'
  BY <1>1, <1>3, <1>7, <1>8, <1>10 DEF Ledger, Relayable
<1>16. True(ack)'
  <2>1. ASSUME Relayable(c), ack.kind = "ACKBOTH", ack.to # Router
        PROVE  Everywhere(c)'
    <3>1. m.to = Router /\ RelayTo(m) = {} /\ RelayTo(m) = Player \ {c.player, Router}
      BY <1>7, <1>11, <2>1 DEF Relayable
    <3> QED
      BY <1>3, <1>8, <1>13, <1>4, <1>6, <3>1 DEF Everywhere, Holders
  <2>2. ack' = ack
    BY DEF AckCommand, RelayTo, Relayable, Pack
  <2> HIDE DEF ack
  <2>3. ack.cmd \in held'[ack.from]
    BY <1>8, <1>11
  <2>4. ack.kind # "COMMAND" /\ ack.kind # "ACKSTAGE2"
    BY <1>11
  <2> QED
    BY <1>11, <2>1, <2>2, <2>3, <2>4 DEF True, Everywhere, Relayable
<1>17. Packets'
  BY <1>1, <1>6, <1>8, <1>11, <1>16, Exchanged, TrueStays DEF Packets
<1>18. ASSUME NEW d \in sent, NEW q \in Player, d \notin held'[q]
       PROVE  /\ ~Relayable(d) => d \in queue'[d.player][q]
              /\ Relayable(d) /\ q = Router => d \in queue'[d.player][Router]
              /\ Relayable(d) /\ d \in held'[Router] => d \in queue'[Router][q] /\ q \in relayed'[d]
              /\ Relayable(d) => d \in pending'[d.player]
  <2>1. d \in Cmd /\ d.player \in Player /\ d \notin held[q]
    BY <1>5, <1>8, <1>18
  <2>2. Relayable(d) => d \in pending'[d.player]
    BY <1>2, <1>6, <2>1 DEF NothingForgotten
  <2>3. ~Relayable(d) => d \in queue'[d.player][q]
    BY <1>2, <1>9, <2>1 DEF StraightLeg
  <2>4. Relayable(d) /\ q = Router => d \in queue'[d.player][Router]
    BY <1>2, <1>3, <1>9, <2>1 DEF FirstLeg
  <2>5. ASSUME Relayable(d), d \in held'[Router]
        PROVE  d \in queue'[Router][q] /\ q \in relayed'[d]
    <3>1. CASE d \in held[Router]
      <4>1. d \in queue[Router][q] /\ q \in relayed[d]
        BY <1>2, <2>1, <2>5, <3>1 DEF SecondLeg
      <4> QED
        BY <1>3, <1>9, <1>10, <2>1, <4>1
    <3>2. CASE d \notin held[Router]
      <4>1. d = c /\ m.to = Router
        BY <1>3, <1>8, <2>5, <3>2
      <4>2. q \in RelayTo(m)
        BY <1>3, <1>7, <1>8, <1>13, <1>6, <1>18, <2>5, <4>1 DEF Holders
      <4>3. SendRemoteCommand(m)
        BY <3>2, <4>1 DEF ReceiveCommand, OutOfDate
      <4>4. d \in queue'[Router][q]
        BY <1>1, <1>3, <4>1, <4>2, <4>3, Enqueued DEF SendRemoteCommand
      <4>5. relayed'[d] = RelayTo(m)
        BY <1>1, <1>3, <3>2, <4>1, <4>3 DEF SendRemoteCommand, Ledger, TypeOK
      <4> QED
        BY <4>2, <4>4, <4>5
    <3> QED
      BY <3>1, <3>2
  <2> QED
    BY <2>2, <2>3, <2>4, <2>5
<1>19. StraightLeg' /\ FirstLeg' /\ SecondLeg' /\ NothingForgotten'
  BY <1>3, <1>6, <1>18 DEF StraightLeg, FirstLeg, SecondLeg, NothingForgotten, Relayable
<1> QED
  BY <1>12, <1>13, <1>14, <1>15, <1>17, <1>19 DEF IInv

(* The inductive invariant.                                                *)
THEOREM Invariance == Spec => []IInv
<1>1. IInv /\ [Next]_vars => IInv'
  <2> SUFFICES ASSUME IInv, [Next]_vars PROVE IInv'
    OBVIOUS
  <2>1. ASSUME NEW c \in Cmd, SendLocalCommand(c) PROVE IInv'
    BY <2>1, SendKeepsIInv
  <2>2. ASSUME NEW p \in Player, NEW q \in Player, NEW c \in queue[p][q], DoSend(p, q, c)
        PROVE  IInv'
    BY <2>2, DoSendKeepsIInv
  <2>3. ASSUME NEW m \in net, NEW copy \in BOOLEAN, ReceiveCommand(m, copy) PROVE IInv'
    BY <2>3, ReceiveCommandKeepsIInv
  <2>4. ASSUME NEW m \in net, NEW copy \in BOOLEAN, ReceiveAckStage1(m, copy) PROVE IInv'
    BY <2>4, ReceiveAckStage1KeepsIInv
  <2>5. ASSUME NEW m \in net, NEW copy \in BOOLEAN, ReceiveAckStage2(m, copy) PROVE IInv'
    BY <2>5, ReceiveAckStage2KeepsIInv
  <2>6. ASSUME NEW m \in net, Lose(m) PROVE IInv'
    BY <2>6, LoseKeepsIInv
  <2>7. CASE UNCHANGED vars
    BY <2>7 DEF vars, IInv, TypeOK, Holders, Queues, Ledger, Packets, True, Everywhere, Leg,
                StraightLeg, FirstLeg, SecondLeg, NothingForgotten, Relayable
  <2> QED
    BY <2>1, <2>2, <2>3, <2>4, <2>5, <2>6, <2>7 DEF Next
<1> QED
  BY InitIInv, <1>1, PTL DEF Spec

(* Type correctness, and with it that only relayed commands are ever       *)
(* pending and that the router never waits for itself.                     *)
THEOREM TypeCorrect == Spec => []TypeOK
<1>1. IInv => TypeOK
  BY DEF IInv
<1> QED
  BY <1>1, Invariance, PTL

(* A command somebody lacks is pending where it came from (processAckStage2*)
(* clears it no earlier), so a new router could be given it.               *)
THEOREM NoneForgotten == Spec => []NothingForgotten
<1>1. IInv => NothingForgotten
  BY DEF IInv
<1> QED
  BY <1>1, Invariance, PTL

(* A command somebody lacks is still being sent on the leg it has reached, *)
(* and the router's ledger still waits for that player.                    *)
THEOREM OnItsWay == Spec => []StillOnItsWay
<1>1. IInv => StillOnItsWay
  BY DEF IInv, StillOnItsWay, StraightLeg, FirstLeg, SecondLeg
<1> QED
  BY <1>1, Invariance, PTL

(* Whatever the network does, nobody takes in a command nobody sent, and a *)
(* sender has its own at once: the safety half of the broadcast promise.   *)
THEOREM DeliveryIsBroadcast == Spec => Promise!Spec
<1>1. Init => Promise!Init
  BY DEF Init, Promise!Init
<1>2. IInv /\ [Next]_vars => [Promise!Next]_Promise!vars
  <2> SUFFICES ASSUME IInv, [Next]_vars PROVE [Promise!Next]_Promise!vars
    OBVIOUS
  <2>1. ASSUME NEW c \in Cmd, SendLocalCommand(c) PROVE Promise!Send(c)
    BY <2>1 DEF SendLocalCommand, Promise!Send
  <2>2. ASSUME NEW m \in net, NEW copy \in BOOLEAN, ReceiveCommand(m, copy)
        PROVE  Promise!Deliver(m.to, m.cmd) \/ UNCHANGED Promise!vars
    <3>1. TypeOK /\ Holders /\ Packets
      BY DEF IInv
    <3>2. m.cmd \in sent
      BY <3>1, Players DEF Holders, Packets, True
    <3>3. UNCHANGED sent
      BY <2>2 DEF ReceiveCommand
    <3>4. CASE OutOfDate(m)
      BY <3>3, <3>4 DEF OutOfDate, Promise!vars
    <3>5. CASE SendRemoteCommand(m) /\ m.cmd \notin held[m.to]
      BY <3>2, <3>3, <3>5 DEF SendRemoteCommand, Promise!Deliver
    <3>6. CASE SendRemoteCommand(m) /\ m.cmd \in held[m.to]
      <4>1. held' = held
        BY <3>1, <3>6 DEF SendRemoteCommand, TypeOK
      <4> QED
        BY <3>3, <4>1 DEF Promise!vars
    <3> QED
      BY <2>2, <3>4, <3>5, <3>6 DEF ReceiveCommand
  <2>3. ASSUME UNCHANGED <<sent, held>> PROVE UNCHANGED Promise!vars
    BY <2>3 DEF Promise!vars
  <2>4. ASSUME NEW m \in net, m.cmd \in Cmd, m.to \in Player, Promise!Deliver(m.to, m.cmd)
        PROVE  Promise!Next
    BY <2>4 DEF Promise!Next
  <2>5. \A m \in net : m.cmd \in Cmd /\ m.to \in Player
    BY Players DEF IInv
  <2>6. ASSUME NEW c \in Cmd, Promise!Send(c) PROVE Promise!Next
    BY <2>6 DEF Promise!Next
  <2>7. CASE \E c \in Cmd : SendLocalCommand(c)
    BY <2>1, <2>6, <2>7
  <2>8. CASE \E m \in net : \E copy \in BOOLEAN : ReceiveCommand(m, copy)
    BY <2>2, <2>4, <2>5, <2>8
  <2>9. CASE UNCHANGED <<sent, held>>
    BY <2>3, <2>9
  <2> QED
    BY <2>7, <2>8, <2>9 DEF Next, vars, DoSend, ReceiveAckStage1, ReceiveAckStage2, Lose
<1> QED
  BY <1>1, <1>2, Invariance, PTL DEF Spec, Promise!Spec
===============================================================================
