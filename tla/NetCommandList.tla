---------------------------- MODULE NetCommandList ----------------------------
(***************************************************************************)
(* The sorted list of network commands: type first, then player, then      *)
(* command ID, oldest first.  The commands of one frame are executed in    *)
(* the order of this list, so two players who received them in different   *)
(* orders must still have equal lists.                                     *)
(*                                                                         *)
(* addMessage is an insertion sort that remembers where it inserted last   *)
(* and tries that place first.  Its shortcuts for a type beyond either end *)
(* of the list find the place the search finds, so they are not told apart.*)
(***************************************************************************)
EXTENDS Integers, FiniteSets, Sequences, SequencesExt

CONSTANTS ID_SPAN,   \* the number of command IDs: 65536, an UnsignedShort
          Types,     \* the values of NetCommandType of the commands with an ID
          MAX_SLOTS, \* the number of slots: 8
          Players,   \* the slots taken
          Ids        \* [player -> the command IDs it uses]

ASSUME KindAssumption == Types \subseteq Nat /\ MAX_SLOTS \in Nat /\ Players \subseteq 0 .. MAX_SLOTS - 1
(* Each player counts up its own IDs, and those of the commands in one list*)
(* are less than half a span apart.                                        *)
ASSUME IdAssumption ==
  /\ ID_SPAN \in Nat \ {0}
  /\ \A p \in Players :
       /\ Ids[p] \subseteq 0 .. ID_SPAN - 1
       /\ \E first \in 0 .. ID_SPAN - 1 :
            \A id \in Ids[p] : (id - first) % ID_SPAN < ID_SPAN \div 2

VARIABLES list,                  \* the commands from m_first to m_last
          m_lastMessageInserted, \* its place in the list, 0 for a null pointer
          held                   \* history: the set of commands added and not removed

vars == <<list, m_lastMessageInserted, held>>

(* Acks, which have no ID of their own, are left out: what the players     *)
(* execute holds none.  Every other command is sorted by its ID.           *)
Commands ==
  {c \in [type : Types, player : Players, id : 0 .. ID_SPAN - 1] : c.id \in Ids[c.player]}

(* A mutant: IDs compared as numbers, as retail does.                      *)
IsCommandIdNewerRetail(newVal, oldVal) == newVal > oldVal

IsCommandIdNewer(newVal, oldVal) ==
  (newVal - oldVal) % ID_SPAN \in 1 .. (ID_SPAN \div 2) - 1

IsEqualCommandMsg(a, b) == a.player = b.player /\ a.id = b.id

----------------------------------------------------------------------------
(* addMessage *)

(* A mutant: only the last command inserted is looked at, not the next one.*)
FollowsLastInsertedBlindly(l, hint, c) ==
  /\ hint # 0
  /\ l[hint].type = c.type /\ l[hint].player = c.player
  /\ IsCommandIdNewer(c.id, l[hint].id)

(* The command goes right behind the one inserted last.                    *)
FollowsLastInserted(l, hint, c) ==
  /\ hint # 0
  /\ l[hint].type = c.type /\ l[hint].player = c.player
  /\ IsCommandIdNewer(c.id, l[hint].id)
  /\ \/ hint = Len(l)
     \/ l[hint + 1].type > c.type
     \/ l[hint + 1].player > c.player
     \/ IsCommandIdNewer(l[hint + 1].id, c.id)

(* The first place from `from' on whose command does not satisfy P; one    *)
(* past the end if there is none.                                          *)
SkipWhile(l, from, P(_)) ==
  CHOOSE i \in from .. Len(l) + 1 :
    /\ i = Len(l) + 1 \/ ~P(l[i])
    /\ \A j \in from .. i - 1 : P(l[j])

(* Type, then player, then ID.                                             *)
Place(l, c) ==
  LET start == SkipWhile(l, 1, LAMBDA d : c.type > d.type)
      player == SkipWhile(l, start, LAMBDA d : c.type = d.type /\ c.player > d.player)
  IN  SkipWhile(l, player,
                LAMBDA d : /\ c.type = d.type /\ c.player = d.player
                           /\ IsCommandIdNewer(c.id, d.id))

(* "Make sure this command isn't already in the list": the command it would*)
(* stand in front of, or the last one, is looked at.                       *)
AlreadyThere(l, place, c) ==
  l # <<>> /\ IsEqualCommandMsg(l[IF place > Len(l) THEN Len(l) ELSE place], c)

(* The list and the place of the command; place 0: it was not inserted.    *)
Added(l, hint, c) ==
  LET place == IF FollowsLastInserted(l, hint, c) THEN hint + 1 ELSE Place(l, c)
  IN  IF ~FollowsLastInserted(l, hint, c) /\ AlreadyThere(l, place, c)
      THEN [list |-> l, place |-> 0]
      ELSE [list |-> InsertAt(l, place, c), place |-> place]

AddMessage(c) ==
  LET added == Added(list, m_lastMessageInserted, c)
  IN  /\ list' = added.list
      /\ m_lastMessageInserted' = IF added.place = 0 THEN m_lastMessageInserted ELSE added.place
      /\ held' = held \cup {c}

----------------------------------------------------------------------------
(* A mutant: the last command is removed, but remembered.                  *)
RemoveMessageRemembered(i) ==
  /\ list' = RemoveAt(list, i)
  /\ held' = held \ {list[i]}
  /\ UNCHANGED m_lastMessageInserted
(* removeMessage; the place remembered moves on to the next command.       *)
RemoveMessage(i) ==
  /\ list' = RemoveAt(list, i)
  /\ m_lastMessageInserted' =
       IF m_lastMessageInserted = i THEN (IF i = Len(list) THEN 0 ELSE i)
       ELSE IF m_lastMessageInserted > i THEN m_lastMessageInserted - 1
       ELSE m_lastMessageInserted
  /\ held' = held \ {list[i]}

(* appendList of the list of p's frame data, which here is what `list'     *)
(* holds of p: its commands are added to l one by one.                     *)
AppendList(l, p) ==
  LET after[n \in 0 .. Len(list)] ==
        IF n = 0 THEN l
        ELSE LET added == Added(after[n - 1].list, after[n - 1].place, list[n])
             IN  IF list[n].player # p \/ added.place = 0 THEN after[n - 1] ELSE added
  IN  after[Len(list)]

(* getFrameCommandList: the lists of the slots that have frame data, from  *)
(* the lowest slot on, appended to an empty one.                           *)
GetFrameCommandList ==
  LET joined[n \in 0 .. MAX_SLOTS] ==
        IF n = 0 THEN [list |-> <<>>, place |-> 0]
        ELSE IF n - 1 \in Players THEN AppendList(joined[n - 1], n - 1) ELSE joined[n - 1]
  IN  joined[MAX_SLOTS].list

Init == list = <<>> /\ m_lastMessageInserted = 0 /\ held = {}

(* Command IDs are unique: a player uses one for a single command.         *)
Next ==
  \/ \E c \in Commands :
       /\ \A d \in held : d.player = c.player /\ d.id = c.id => d.type = c.type
       /\ AddMessage(c)
  \/ \E i \in 1 .. Len(list) : RemoveMessage(i)

Spec == Init /\ [][Next]_vars

----------------------------------------------------------------------------
(* Properties.                                                             *)

TypeOK ==
  /\ list \in Seq(Commands)
  /\ m_lastMessageInserted \in 0 .. Len(list)
  /\ held \subseteq Commands

(* The order commands are executed in; a player's IDs count up and wrap.   *)
Before(c, d) ==
  \/ c.type < d.type
  \/ c.type = d.type /\ c.player < d.player
  \/ /\ c.type = d.type /\ c.player = d.player
     /\ \E later \in 1 .. (ID_SPAN \div 2) - 1 : d.id = (c.id + later) % ID_SPAN

(* The commands S in this order.                                           *)
Ordered(S) ==
  CHOOSE s \in [1 .. Cardinality(S) -> S] : \A i, j \in DOMAIN s : i < j => Before(s[i], s[j])

(* Whatever the order in which commands arrived, how often, and what was   *)
(* removed in between: the list is the sorted sequence of the commands it  *)
(* holds, so equal sets of commands mean equal lists (no desync by order). *)
SameSetSameOrder == list = Ordered(held)

(* getFrameCommandList joins the lists of the slots one after the other;   *)
(* the result is the list all the commands would have made in one.         *)
JoiningKeepsTheOrder == GetFrameCommandList = Ordered(held)
=============================================================================
