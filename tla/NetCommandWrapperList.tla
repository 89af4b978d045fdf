------------------------- MODULE NetCommandWrapperList -------------------------
(***************************************************************************)
(* Commands too big for a packet: the sender cuts one into wrapper         *)
(* commands, each with a chunk of it, and every receiver puts the chunks   *)
(* together again in a NetCommandWrapperListNode.  Chunks arrive in any    *)
(* order and may arrive again after the command has been taken out, as the *)
(* sender repeats a chunk until it is acked.                               *)
(*                                                                         *)
(* A node is found by the wrapped command's ID alone.                      *)
(***************************************************************************)
EXTENDS Integers, FiniteSets

CONSTANTS Players,      \* the senders
          ID_SPAN,      \* the number of command IDs: 65536, an UnsignedShort
          Gap,          \* how far apart the players' command IDs are
          NumChunks,    \* the sizes of big commands, in chunks
          MaxCommands   \* bound: big commands per player

ASSUME ChunksAssumption == NumChunks \subseteq Nat \ {0}

VARIABLES nextID,   \* [player -> the number of big commands it has sent]
          net,      \* chunks on their way to the receiver
          m_list,   \* the receiver's nodes: [IDs in reassembly -> node]
          sent,     \* history: the big commands sent
          ready     \* history: what getReadyCommands has handed out

vars == <<nextID, net, m_list, sent, ready>>

Command == [player : Players, serial : 0 .. MaxCommands - 1, numChunks : NumChunks]

CommandID(c) == (Gap * c.player + c.serial) % ID_SPAN

(* ConstructBigCommandPacketList.                                          *)
Wrapped(c) ==
  {[wrappedCommandID |-> CommandID(c), chunkNumber |-> k, numChunks |-> c.numChunks, data |-> c] :
     k \in 0 .. c.numChunks - 1}

Missing == [player |-> -1, serial |-> 0, numChunks |-> 0]

(* A node: whose chunk is at each place, and how many are there.           *)
NewNode(msg) ==
  [m_data |-> [k \in 0 .. msg.numChunks - 1 |-> Missing],
   m_numChunks |-> msg.numChunks,
   m_numChunksPresent |-> 0]

IsComplete(node) == node.m_numChunksPresent = node.m_numChunks

(* Mutants: a chunk received twice counts twice; the last one is refused.  *)
CopyChunkDataAgain(node, msg) ==
  IF msg.chunkNumber >= node.m_numChunks THEN node
  ELSE [node EXCEPT !.m_data[msg.chunkNumber] = msg.data, !.m_numChunksPresent = @ + 1]
CopyChunkDataButLast(node, msg) ==
  IF \/ msg.chunkNumber >= node.m_numChunks - 1
     \/ node.m_data[msg.chunkNumber] # Missing
  THEN node
  ELSE [node EXCEPT !.m_data[msg.chunkNumber] = msg.data, !.m_numChunksPresent = @ + 1]

(* The checks of offsets and lengths against the node's data come down to  *)
(* the first: a chunk's offset is its number times a chunk's size.         *)
CopyChunkData(node, msg) ==
  IF \/ msg.chunkNumber >= node.m_numChunks
     \/ node.m_data[msg.chunkNumber] # Missing
  THEN node
  ELSE [node EXCEPT !.m_data[msg.chunkNumber] = msg.data, !.m_numChunksPresent = @ + 1]

Init ==
  /\ nextID = [p \in Players |-> 0]
  /\ net = {}
  /\ m_list = [i \in {} |-> Missing]
  /\ sent = {}
  /\ ready = {}

SendBigCommand(p, n) ==
  LET c == [player |-> p, serial |-> nextID[p], numChunks |-> n]
  IN  /\ nextID[p] < MaxCommands
      /\ nextID' = [nextID EXCEPT ![p] = @ + 1]
      /\ net' = net \cup Wrapped(c)
      /\ sent' = sent \cup {c}
      /\ UNCHANGED <<m_list, ready>>

(* `again': the sender has not had the ack yet, the chunk comes once more. *)
ProcessWrapper(msg, again) ==
  LET id == msg.wrappedCommandID
      node == IF id \in DOMAIN m_list THEN m_list[id] ELSE NewNode(msg)
  IN  /\ m_list' = [i \in DOMAIN m_list \cup {id} |->
                      IF i = id THEN CopyChunkData(node, msg) ELSE m_list[i]]
      /\ net' = IF again THEN net ELSE net \ {msg}
      /\ UNCHANGED <<nextID, sent, ready>>

(* At the end of doRelay, after all the packets that have arrived.         *)
GetReadyCommands ==
  LET complete == {i \in DOMAIN m_list : IsComplete(m_list[i])}
  IN  /\ complete # {}
      /\ ready' = ready \cup {m_list[i].m_data : i \in complete}
      /\ m_list' = [i \in DOMAIN m_list \ complete |-> m_list[i]]
      /\ UNCHANGED <<nextID, net, sent>>

Receive(again) == \E msg \in net : ProcessWrapper(msg, again)

Next ==
  \/ \E p \in Players : \E n \in NumChunks : SendBigCommand(p, n)
  \/ \E again \in BOOLEAN : Receive(again)
  \/ GetReadyCommands

(* The sender repeats every chunk until it is acked, and update never      *)
(* stops calling doRelay.                                                  *)
Fairness ==
  /\ \A c \in Command : \A k \in 0 .. c.numChunks - 1 :
       WF_vars(\E msg \in net : msg.data = c /\ msg.chunkNumber = k /\ ProcessWrapper(msg, FALSE))
  /\ WF_vars(GetReadyCommands)

Spec == Init /\ [][Next]_vars /\ Fairness

----------------------------------------------------------------------------
(* Properties.                                                             *)

Whole(c) == [k \in 0 .. c.numChunks - 1 |-> c]

(* As long as no two big commands under way share an ID: what comes out is *)
(* a command that was sent, whole, however its chunks came in.             *)
OnlyWhatWasSent == ready \subseteq {Whole(c) : c \in sent}

(* Every big command is put together, also when chunks of one already      *)
(* taken out arrive again and start a node of their own.                   *)
EveryBigCommandArrives == \A c \in Command : c \in sent ~> Whole(c) \in ready
=============================================================================
