--------------------------- MODULE Disconnect_proofs ---------------------------
(***************************************************************************)
(* Proofs about Disconnect, for any number of players and of troubles of   *)
(* any kind, any run ahead and any length of the game: the types, that     *)
(* whoever is gone is destroyed, that votes do not outlive their frame,    *)
(* that no two living players issue the command to disconnect, and that    *)
(* whoever issues it is right about where the others stand; and that of up *)
(* to three players those who stay execute the same.                       *)
(***************************************************************************)
EXTENDS Disconnect, FiniteSetTheorems, SequenceTheorems, WellFoundedInduction, TLAPS

(* Proof by the least counterexample takes a set of numbers.               *)
LEMMA LeastNumber ==
  ASSUME NEW T \in SUBSET Nat, T # {}
  PROVE  \E x \in T : \A y \in T : x <= y
<1>1. PICK x \in T : \A y \in T : <<y, x>> \notin OpToRel(<, Nat)
  BY NatLessThanWellFounded, WFMin
<1>2. \A y \in T : ~(y < x)
  BY <1>1 DEF OpToRel
<1> QED
  BY <1>2

LEMMA GreatestNumber ==
  ASSUME NEW T \in SUBSET Nat, T # {}, NEW n \in Nat, \A y \in T : y <= n
  PROVE  \E x \in T : \A y \in T : y <= x
<1> DEFINE U == {k \in Nat : \A y \in T : y <= k}
<1>1. n \in U /\ U \in SUBSET Nat
  OBVIOUS
<1>2. PICK k \in U : \A l \in U : k <= l
  <2> HIDE DEF U
  <2> QED
    BY <1>1, LeastNumber
<1>3. k \in T
  <2> SUFFICES ASSUME k \notin T PROVE FALSE
    OBVIOUS
  <2>1. \A y \in T : y \in Nat /\ y <= k /\ y # k
    OBVIOUS
  <2>2. k \in Nat /\ \A y \in T : y <= k - 1
    BY <2>1
  <2>3. k - 1 \in Nat
    <3>1. PICK y \in T : TRUE
      OBVIOUS
    <3> QED
      BY <2>1, <3>1
  <2>4. k - 1 \in U
    BY <2>2, <2>3
  <2> QED
    BY <1>2, <2>2, <2>4
<1> QED
  BY <1>2, <1>3

(* The set, as a sequence.                                                 *)
LEMMA SetToSeqType ==
  ASSUME NEW T, IsFiniteSet(T)
  PROVE  SetToSeq(T) \in Seq(T)
<1>1. Cardinality(T) \in Nat /\ ExistsBijection(1 .. Cardinality(T), T)
  BY FS_CardinalityType
<1>2. PICK f \in [1 .. Cardinality(T) -> T] : IsInjective(f)
  BY <1>1 DEF ExistsBijection, Bijection, Injection, IsInjective
<1>3. SetToSeq(T) \in [1 .. Cardinality(T) -> T]
  BY <1>2 DEF SetToSeq
<1> QED
  BY <1>1, <1>3, IsASeq

LEMMA Constants ==
  /\ MAX_SLOTS \in Nat /\ IsFiniteSet(Player) /\ Player # {}
  /\ Player \subseteq 0 .. MAX_SLOTS - 1 /\ Player \subseteq Nat
  /\ RunAhead \in Nat /\ RunAhead >= 1 /\ FirstFrame \in Nat /\ FirstFrame >= 1
  /\ MaxFrame \in Nat /\ FirstFrame <= MaxFrame
<1>1. IsFiniteSet(0 .. MAX_SLOTS - 1) /\ MAX_SLOTS \in Nat
  BY PlayerAssumption, FS_Interval
<1>2. IsFiniteSet(Player)
  BY <1>1, PlayerAssumption, FS_Subset
<1>3. Player \subseteq Nat
  BY PlayerAssumption
<1> QED
  BY <1>1, <1>2, <1>3, PlayerAssumption, FrameAssumption

LEMMA Frames == \A f \in Frame : f \in Nat /\ FirstFrame <= f /\ f <= MaxFrame
BY Constants DEF Frame

(* The lowest of some players is one of them.                              *)
LEMMA LowestIs ==
  ASSUME NEW S \in SUBSET Player, S # {}
  PROVE  Lowest(S) \in S /\ \A t \in S : Lowest(S) <= t
<1>1. \E s \in S : \A t \in S : s <= t
  BY Constants, LeastNumber
<1> QED
  BY <1>1 DEF Lowest

----------------------------------------------------------------------------
(* Sequences of messages.                                                  *)

(* t is s with elements of New added at the end.                           *)
Grown(s, t, New) ==
  /\ t \in Seq(Message) /\ Len(s) <= Len(t)
  /\ \A i \in 1 .. Len(s) : t[i] = s[i]
  /\ \A i \in 1 .. Len(t) : i > Len(s) => t[i] \in New

LEMMA GrownBy ==
  ASSUME NEW New, New \subseteq Message, NEW s \in Seq(Message), NEW t, NEW o \in Seq(New), Grown(s, t, New)
  PROVE  Grown(s, t \o o, New)
<1>1. o \in Seq(Message)
  BY SeqMonotonic
<1>2. t \in Seq(Message)
  BY DEF Grown
<1>3. /\ t \o o \in Seq(Message) /\ Len(t \o o) = Len(t) + Len(o)
      /\ \A i \in 1 .. Len(t \o o) : (t \o o)[i] = IF i <= Len(t) THEN t[i] ELSE o[i - Len(t)]
  BY <1>1, <1>2, ConcatProperties
<1>4. \A i \in 1 .. Len(t \o o) : i > Len(t) => (t \o o)[i] \in New
  <2> SUFFICES ASSUME NEW i \in 1 .. Len(t \o o), i > Len(t) PROVE (t \o o)[i] \in New
    OBVIOUS
  <2>1. i - Len(t) \in 1 .. Len(o) /\ (t \o o)[i] = o[i - Len(t)]
    BY <1>1, <1>2, <1>3, LenProperties
  <2> QED
    BY <2>1, ElementOfSeq
<1> QED
  BY <1>1, <1>2, <1>3, <1>4, LenProperties DEF Grown

LEMMA GrownSame ==
  ASSUME NEW s \in Seq(Message), NEW New
  PROVE  Grown(s, s, New)
BY LenProperties DEF Grown

LEMMA GrownFromNothing ==
  ASSUME NEW New, New \subseteq Message, NEW o \in Seq(New)
  PROVE  Grown(<<>>, o, New)
BY SeqMonotonic, LenProperties, ElementOfSeq DEF Grown

LEMMA GrownMore ==
  ASSUME NEW s, NEW t, NEW New, NEW More, New \subseteq More, Grown(s, t, New)
  PROVE  Grown(s, t, More)
BY DEF Grown

(* What is left when the k-th message is taken out.                        *)
LEMMA Removed ==
  ASSUME NEW s \in Seq(Message), NEW k \in 1 .. Len(s)
  PROVE  /\ RemoveAt(s, k) \in Seq(Message) /\ Len(RemoveAt(s, k)) = Len(s) - 1
         /\ \A i \in 1 .. Len(s) - 1 :
              RemoveAt(s, k)[i] = IF i < k THEN s[i] ELSE s[i + 1]
<1>1. Len(s) \in Nat
  BY LenProperties
<1>2. /\ SubSeq(s, 1, k - 1) \in Seq(Message) /\ Len(SubSeq(s, 1, k - 1)) = k - 1
      /\ \A i \in 1 .. k - 1 : SubSeq(s, 1, k - 1)[i] = s[i]
  BY <1>1
<1>3. /\ SubSeq(s, k + 1, Len(s)) \in Seq(Message) /\ Len(SubSeq(s, k + 1, Len(s))) = Len(s) - k
      /\ \A i \in 1 .. Len(s) - k : SubSeq(s, k + 1, Len(s))[i] = s[k + i]
  BY <1>1
<1> DEFINE a == SubSeq(s, 1, k - 1)
           b == SubSeq(s, k + 1, Len(s))
<1>4. RemoveAt(s, k) = a \o b
  BY DEF RemoveAt
<1>5. a \in Seq(Message) /\ Len(a) = k - 1 /\ \A i \in 1 .. k - 1 : a[i] = s[i]
  BY <1>2
<1>6. b \in Seq(Message) /\ Len(b) = Len(s) - k /\ \A i \in 1 .. Len(s) - k : b[i] = s[k + i]
  BY <1>3
<1> HIDE DEF a, b
<1>7. /\ a \o b \in Seq(Message) /\ Len(a \o b) = Len(a) + Len(b)
      /\ \A i \in 1 .. Len(a) + Len(b) : (a \o b)[i] = IF i <= Len(a) THEN a[i] ELSE b[i - Len(a)]
  BY <1>5, <1>6, ConcatProperties
<1>8. Len(a) + Len(b) = Len(s) - 1
  BY <1>1, <1>5, <1>6
<1>9. ASSUME NEW i \in 1 .. Len(s) - 1
      PROVE  (a \o b)[i] = IF i < k THEN s[i] ELSE s[i + 1]
  <2>1. CASE i < k
    BY <1>1, <1>5, <1>7, <1>8, <2>1
  <2>2. CASE ~(i < k)
    <3>1. i - (k - 1) \in 1 .. Len(s) - k /\ ~(i <= k - 1)
      BY <1>1, <2>2
    <3>2. b[i - (k - 1)] = s[k + (i - (k - 1))] /\ k + (i - (k - 1)) = i + 1
      BY <1>1, <1>6, <3>1
    <3> QED
      BY <1>5, <1>7, <1>8, <2>2, <3>1, <3>2
  <2> QED
    BY <2>1, <2>2
<1> QED
  BY <1>4, <1>7, <1>8, <1>9
----------------------------------------------------------------------------
(* What is sent.                                                           *)
Nets == [Player -> [Player -> Seq(Message)]]
DataMsg == {m \in Message : m.type = "FRAMEDATA"}

LEMMA MsgIs ==
  ASSUME NEW p \in Player, NEW f \in Nat, NEW s \in Player,
         NEW type \in {"DISCONNECTFRAME", "DISCONNECTSCREENOFF", "DISCONNECTVOTE", "DISCONNECTPLAYER"}
  PROVE  /\ Msg(type, p, f, s) \in Message /\ Msg(type, p, f, s).type = type
         /\ Msg(type, p, f, s).player = p /\ Msg(type, p, f, s).frame = f
         /\ Msg(type, p, f, s).slot = s
BY DEF Msg, Message

LEMMA MessageHas ==
  ASSUME NEW m \in Message
  PROVE  /\ m.player \in Player /\ m.slot \in Player /\ m.frame \in Nat /\ m.relay \in SUBSET Player
         /\ m.type \in {"FRAMEDATA", "DISCONNECTFRAME", "DISCONNECTSCREENOFF", "DISCONNECTVOTE",
                         "DISCONNECTPLAYER"}
BY DEF Message

LEMMA DataIs ==
  ASSUME NEW s \in Player, NEW f \in Nat, NEW R \in SUBSET Player
  PROVE  Data(s, f, R) \in DataMsg
BY DEF Data, DataMsg, Message

(* One player's data of some frames.                                       *)
LEMMA BatchIs ==
  ASSUME NEW s \in Player, NEW F \in SUBSET Nat, IsFiniteSet(F), NEW R \in SUBSET Player
  PROVE  SetToSeq({Data(s, f, R) : f \in F}) \in Seq(DataMsg)
<1> DEFINE T == {Data(s, f, R) : f \in F}
           g == [f \in F |-> Data(s, f, R)]
<1>1. g \in Surjection(F, T)
  BY DEF Surjection
<1>2. IsFiniteSet(T)
  <2> HIDE DEF T, g
  <2> QED
    BY <1>1, FS_Surjection
<1>3. T \subseteq DataMsg
  BY DataIs
<1> HIDE DEF T
<1> QED
  BY <1>2, <1>3, SetToSeqType, SeqMonotonic DEF T

LEMMA SendLocalIs ==
  ASSUME NEW p \in Player, NEW S, NEW F \in SUBSET Nat, IsFiniteSet(F)
  PROVE  SendLocalCommand(p, S, F) \in [Player -> Seq(DataMsg)] /\ SendLocalCommand(p, S, F)[p] = <<>>
<1> DEFINE one(q) == SendLocalCommand(p, S, F)[q]
<1>1. ASSUME NEW q \in Player
      PROVE  one(q) \in Seq(DataMsg)
  <2>1. one(q) \in {<<>>, SetToSeq({Data(p, f, {q}) : f \in F}), SetToSeq({Data(p, f, Player \ {p}) : f \in F})}
    BY DEF SendLocalCommand
  <2>2. SetToSeq({Data(p, f, {q}) : f \in F}) \in Seq(DataMsg)
    BY BatchIs
  <2>3. SetToSeq({Data(p, f, Player \ {p}) : f \in F}) \in Seq(DataMsg)
    BY BatchIs
  <2>4. <<>> \in Seq(DataMsg)
    BY EmptySeq
  <2> QED
    BY <2>1, <2>2, <2>3, <2>4
<1>2. SendLocalCommand(p, S, F) = [q \in Player |-> one(q)] /\ one(p) = <<>>
  BY DEF SendLocalCommand
<1> QED
  BY <1>1, <1>2

LEMMA SendFrameDataIs ==
  ASSUME NEW p \in Player, NEW q \in Player, NEW start \in Nat, conn[p] \subseteq Player, frame[p] \in Nat
  PROVE  SendFrameData(p, q, start) \in Seq(DataMsg)
<1> DEFINE F == {f \in start .. frame[p] - 1 : ~TooFarInThePast(p, f)}
           S == conn[p] \ {q}
           T == {Data(s, f, {q}) : s \in S, f \in F}
           g == [d \in S \X F |-> Data(d[1], d[2], {q})]
<1>1. F \subseteq Nat /\ IsFiniteSet(F)
  <2>1. IsFiniteSet(start .. frame[p] - 1)
    BY FS_Interval
  <2>2. F \subseteq start .. frame[p] - 1 /\ F \subseteq Nat
    OBVIOUS
  <2> HIDE DEF F
  <2> QED
    BY <2>1, <2>2, FS_Subset
<1>2. S \subseteq Player /\ IsFiniteSet(S)
  BY Constants, FS_Subset
<1> HIDE DEF F, S
<1>3. g \in Surjection(S \X F, T)
  <2>1. \A d \in S \X F : g[d] \in T
    OBVIOUS
  <2>2. ASSUME NEW s \in S, NEW f \in F
        PROVE  \E d \in S \X F : g[d] = Data(s, f, {q})
    <3>1. <<s, f>> \in S \X F /\ g[<<s, f>>] = Data(s, f, {q})
      OBVIOUS
    <3> QED
      BY <3>1
  <2>3. ASSUME NEW t \in T
        PROVE  \E d \in S \X F : g[d] = t
    <3>1. PICK s \in S, f \in F : t = Data(s, f, {q})
      OBVIOUS
    <3> HIDE DEF g, T
    <3> QED
      BY <2>2, <3>1
  <2>4. g \in [S \X F -> T]
    BY <2>1
  <2> HIDE DEF g, T
  <2> QED
    BY <2>3, <2>4 DEF Surjection
<1>4. IsFiniteSet(S \X F)
  BY <1>1, <1>2, FS_Product
<1>5. IsFiniteSet(T)
  <2> HIDE DEF T, g
  <2> QED
    BY <1>3, <1>4, FS_Surjection
<1>6. T \subseteq DataMsg
  <2>1. ASSUME NEW s \in S, NEW f \in F
        PROVE  Data(s, f, {q}) \in DataMsg
    BY <1>1, <1>2, DataIs
  <2> QED
    BY <2>1
<1>7. SetToSeq(T) \in Seq(DataMsg)
  <2> HIDE DEF T
  <2> QED
    BY <1>5, <1>6, SetToSeqType, SeqMonotonic
<1> QED
  BY <1>7 DEF SendFrameData, T, F, S

LEMMA OneMessage ==
  ASSUME NEW New, NEW m \in New
  PROVE  <<m>> \in Seq(New) /\ Len(<<m>>) = 1 /\ <<m>>[1] = m
OBVIOUS

LEMMA ToAllIs ==
  ASSUME NEW S, NEW New, NEW m \in New
  PROVE  ToAll(S, m) \in [Player -> Seq(New)] /\ \A q \in Player : q = m.player => ToAll(S, m)[q] = <<>>
BY OneMessage, EmptySeq DEF ToAll

(* p has added elements of New to its links.                               *)
Extended(net, new, p, New) ==
  /\ new \in Nets
  /\ \A a, b \in Player : a # p => new[a][b] = net[a][b]
  /\ \A b \in Player : Grown(net[p][b], new[p][b], New)

(* What a player sends is put at the end of its links.                     *)
LEMMA SentIs ==
  ASSUME NEW net \in Nets, NEW p \in Player, NEW New, New \subseteq Message,
         NEW out \in [Player -> Seq(New)]
  PROVE  Extended(net, Sent(net, p, out), p, New)
<1> DEFINE row == [q \in Player |-> IF Alive(q) THEN net[p][q] \o out[q] ELSE net[p][q]]
<1>1. Sent(net, p, out) = [net EXCEPT ![p] = row]
  BY DEF Sent, Nets
<1>2. ASSUME NEW b \in Player
      PROVE  row[b] \in Seq(Message) /\ Grown(net[p][b], row[b], New)
  <2>1. net[p][b] \in Seq(Message) /\ out[b] \in Seq(New)
    BY DEF Nets
  <2>2. Grown(net[p][b], net[p][b], New) /\ Grown(net[p][b], net[p][b] \o out[b], New)
    BY <2>1, GrownSame, GrownBy
  <2> QED
    BY <2>1, <2>2 DEF Grown
<1>3. row \in [Player -> Seq(Message)]
  BY <1>2
<1> HIDE DEF row
<1>4. Sent(net, p, out) \in Nets /\ Sent(net, p, out)[p] = row
  BY <1>1, <1>3 DEF Nets
<1>5. \A a, b \in Player : a # p => Sent(net, p, out)[a][b] = net[a][b]
  BY <1>1 DEF Nets
<1> QED
  BY <1>2, <1>4, <1>5 DEF Extended

LEMMA SentTo ==
  ASSUME NEW net \in Nets, NEW p \in Player, NEW New, NEW out \in [Player -> Seq(New)], New \subseteq Message,
         NEW b \in Player
  PROVE  /\ out[b] = <<>> => Sent(net, p, out)[p][b] = net[p][b]
         /\ Alive(b) => Sent(net, p, out)[p][b] = net[p][b] \o out[b]
<1>1. net[p][b] \in Seq(Message)
  BY DEF Nets
<1>2. net[p][b] \o <<>> = net[p][b]
  BY <1>1, ConcatEmptySeq
<1>3. Sent(net, p, out)[p][b] = IF Alive(b) THEN net[p][b] \o out[b] ELSE net[p][b]
  BY DEF Sent, Nets
<1> QED
  BY <1>2, <1>3

----------------------------------------------------------------------------
(* The strengthened invariant, part by part.                               *)

(* What may be under way from q: only data speak for others; whom q is     *)
(* disconnecting it has destroyed, or it is q itself.                      *)
Legit(q) ==
  {m \in Message :
     /\ m.type # "FRAMEDATA" => m.player = q
     /\ m.type \notin {"FRAMEDATA", "DISCONNECTPLAYER"} => m.frame \in Frame
     /\ m.type = "DISCONNECTPLAYER" /\ m.slot # q => \E d \in destruct[q] : d[2] = m.slot
     /\ orderly /\ m.type \in {"DISCONNECTVOTE", "DISCONNECTPLAYER"} => m.slot \in silent}
LinkInv ==
  \A q \in Player : link[q][q] = <<>> /\ \A p \in Player : \A i \in 1 .. Len(link[q][p]) : link[q][p][i] \in Legit(q)

(* What is known of the others' frames are frames.                         *)
KnownInv == \A p, q \in Player : frames[p][q] <= MaxFrame

(* Nobody is given up who has not fallen silent.                           *)
SilentInv ==
  /\ \A s \in silent : ~Alive(s)
  /\ \A p \in Player : timedOut[p] \subseteq silent
  /\ orderly => \A p \in Player : Player \ conn[p] \subseteq silent /\ \A v \in votes[p] : v.slot \in silent

(* Whoever has told the others to disconnect somebody has done so itself,  *)
(* and is the lowest of those who live.                                    *)
IssuedInv ==
  /\ \A i \in issued : i[2] \notin conn[i[1]]
  /\ orderly => \A i \in issued : i[2] \in silent /\ (Alive(i[1]) => \A q \in Player : Alive(q) => i[1] <= q)

(* What a player has told of its own frame, and what others make of it.  A *)
(* message with Key k says that its sender is past all frames below k.     *)
News == {m \in Message : m.type \in {"DISCONNECTFRAME", "DISCONNECTSCREENOFF", "DISCONNECTVOTE"}}
Key(m) == IF m.type = "DISCONNECTSCREENOFF" THEN m.frame + 1 ELSE m.frame
Heard(p, q) == IF q \in received[p] THEN frames[p][q] ELSE frames[p][q] + 1
Leaving(q) == frames[q][q] = frame[q] /\ q \notin received[q]
Bound(q) == IF Leaving(q) THEN frame[q] + 1 ELSE frame[q]
Sorted(lo, hi) ==
  {s \in Seq(Message) :
     /\ \A i \in 1 .. Len(s) : s[i] \in News => lo <= Key(s[i]) /\ Key(s[i]) <= hi
     /\ \A i, j \in 1 .. Len(s) : i < j /\ s[i] \in News /\ s[j] \in News => Key(s[i]) <= Key(s[j])}

(* A player is leaving a frame only when it is ready.                      *)
OwnInv == \A q \in Player : frames[q][q] <= frame[q] /\ (Leaving(q) => Ready(q))
(* News come in order and are never ahead of their sender.                 *)
Fresh(p, q) == Heard(p, q) <= Bound(q) /\ link[q][p] \in Sorted(Heard(p, q), Bound(q))
NewsInv == inOrder => \A p, q \in Player : p # q => Fresh(p, q)
VoteInv == inOrder => \A p \in Player : \A v \in votes[p] : v.frame >= Heard(p, v.by)
(* Who has notified the others has been heard, or will be.                 *)
Tells(s, f) == \E i \in 1 .. Len(s) : s[i].type = "DISCONNECTFRAME" /\ s[i].frame = f
Told(q) ==
  Alive(q) /\ screen[q] /\ notified[q] =>
    /\ frames[q][q] >= frame[q]
    /\ \A p \in Player : Alive(p) /\ p \in conn[q] /\ q \in conn[p] /\ p # q =>
         frames[p][q] >= frame[q] \/ Tells(link[q][p], frame[q])
ToldInv == \A q \in Player : Told(q)
(* Once the one who is lost has been silent for a minute, and until it is  *)
(* disconnected, everything stands still.                                  *)
Still ==
  /\ \A p, q \in Player : \A i \in 1 .. Len(link[q][p]) : link[q][p][i].type = "DISCONNECTVOTE"
  /\ \A p \in Player : Alive(p) => Stuck(p) /\ notified[p]
  /\ \A p, q \in Player : Alive(p) /\ Alive(q) => frames[p][q] = frame[q]
StillInv == inOrder /\ orderly /\ AtMostOneGone /\ silent # {} /\ issued = {} => Still

----------------------------------------------------------------------------
LEMMA TypeFacts ==
  ASSUME TypeOK, NEW p \in Player
  PROVE  /\ frame[p] \in Frame /\ frame[p] \in Nat /\ frame[p] <= MaxFrame
         /\ conn[p] \in SUBSET Player /\ p \in conn[p]
         /\ data[p] \in SUBSET (Player \X Nat) /\ destruct[p] \in SUBSET (Nat \X Player)
         /\ frames[p] \in [Player -> Nat] /\ received[p] \in SUBSET Player
         /\ votes[p] \in SUBSET Vote /\ timedOut[p] \in SUBSET Player
         /\ executed[p] \in SUBSET (Frame \X Player)
         /\ link \in Nets /\ link[p] \in [Player -> Seq(Message)]
BY Frames DEF TypeOK, Nets

LEMMA VoteHas ==
  ASSUME NEW v \in Vote
  PROVE  v.slot \in Player /\ v.by \in Player /\ v.frame \in Frame /\ v.frame \in Nat
BY Frames DEF Vote

LEMMA GrownTrans ==
  ASSUME NEW s \in Seq(Message), NEW t, NEW u, NEW New, Grown(s, t, New), Grown(t, u, New)
  PROVE  Grown(s, u, New)
<1>1. t \in Seq(Message) /\ u \in Seq(Message)
  BY DEF Grown
<1>2. Len(s) \in Nat /\ Len(t) \in Nat /\ Len(u) \in Nat
  BY <1>1, LenProperties
<1>3. Len(s) <= Len(t) /\ Len(t) <= Len(u)
  BY DEF Grown
<1>4. ASSUME NEW i \in 1 .. Len(s)
      PROVE  u[i] = s[i]
  BY <1>2, <1>3 DEF Grown
<1>5. ASSUME NEW i \in 1 .. Len(u), i > Len(s)
      PROVE  u[i] \in New
  <2>1. CASE i > Len(t)
    BY <1>5, <2>1 DEF Grown
  <2>2. CASE ~(i > Len(t))
    <3>1. i \in 1 .. Len(t) /\ u[i] = t[i]
      BY <1>2, <2>2 DEF Grown
    <3> QED
      BY <1>5, <3>1 DEF Grown
  <2> QED
    BY <2>1, <2>2
<1> QED
  BY <1>1, <1>2, <1>3, <1>4, <1>5 DEF Grown

(* The latest frame of which p knows is a frame.                           *)
LEMMA MaxDisconnectFrame ==
  ASSUME TypeOK, KnownInv, NEW p \in Player
  PROVE  GetMaxDisconnectFrame(p) \in Nat
<1> DEFINE T == {frames[p][q] : q \in Player}
<1>1. T \in SUBSET Nat /\ T # {}
  BY TypeFacts, Constants
<1>2. MaxFrame \in Nat /\ \A y \in T : y <= MaxFrame
  BY Constants DEF KnownInv
<1>3. \E x \in T : \A y \in T : y <= x
  <2> HIDE DEF T
  <2> QED
    BY <1>1, <1>2, GreatestNumber
<1>4. \E x \in T : \A q \in Player : frames[p][q] <= x
  BY <1>3
<1>5. GetMaxDisconnectFrame(p) \in T
  BY <1>4 DEF GetMaxDisconnectFrame
<1> QED
  BY <1>1, <1>5

(* Whoever is out has timed out or has been voted against.                 *)
LEMMA OutIsSilent ==
  ASSUME TypeOK, SilentInv, orderly, NEW p \in Player, NEW S \in SUBSET Player, p \in S, NEW s \in Out(p, S)
  PROVE  s \in silent
<1>1. CASE s \in timedOut[p]
  BY <1>1 DEF SilentInv
<1>2. CASE CountVotes(p, s) >= Cardinality(S) - 1
  <2>1. s \in S /\ s # p /\ IsFiniteSet(S) /\ IsFiniteSet({p})
    BY Constants, FS_Subset, FS_Singleton DEF Out
  <2>2. {p} \in SUBSET S /\ {p} # S /\ Cardinality({p}) = 1
    BY <2>1, FS_Singleton
  <2>3. Cardinality({p}) <= Cardinality(S) /\ Cardinality({p}) # Cardinality(S) /\ Cardinality(S) \in Nat
    BY <2>1, <2>2, FS_Subset, FS_CardinalityType
  <2>4. CountVotes(p, s) # 0
    BY <1>2, <2>2, <2>3
  <2>5. {v \in votes[p] : v.slot = s /\ v.frame = frame[p]} # {}
    BY <2>4, FS_EmptySet DEF CountVotes
  <2> QED
    BY <2>5 DEF SilentInv
<1> QED
  BY <1>1, <1>2 DEF Out
----------------------------------------------------------------------------
(* Disconnecting.                                                          *)
PeersSet == [conn : SUBSET Player, data : SUBSET (Player \X Nat),
             destruct : SUBSET (Nat \X Player), link : Nets]

LEMMA PeersIs ==
  ASSUME TypeOK, NEW p \in Player, NEW net \in Nets
  PROVE  /\ Peers(p, net) \in PeersSet /\ Peers(p, net).conn = conn[p] /\ Peers(p, net).data = data[p]
         /\ Peers(p, net).destruct = destruct[p] /\ Peers(p, net).link = net
BY TypeFacts DEF Peers, PeersSet

LEMMA PendingIs ==
  ASSUME TypeOK, NEW p \in Player, NEW S
  PROVE  PendingCommands(p, S) \in SUBSET Nat /\ IsFiniteSet(PendingCommands(p, S))
<1> DEFINE I == FirstFrame .. frame[p] + RunAhead - 1
<1>1. I \in SUBSET Nat /\ IsFiniteSet(I)
  <2>1. FirstFrame \in Int /\ frame[p] + RunAhead - 1 \in Int /\ FirstFrame \in Nat
    BY TypeFacts, Constants
  <2> QED
    BY <2>1, FS_Interval
<1>2. PendingCommands(p, S) \in SUBSET I
  BY DEF PendingCommands
<1> HIDE DEF I
<1> QED
  BY <1>1, <1>2, FS_Subset

(* p has lost s: st was before, end is now.                                *)
Lost(p, s, st, end) ==
  /\ end \in PeersSet /\ p \in end.conn
  /\ end.conn = IF s = p THEN st.conn ELSE st.conn \ {s}
  /\ end.destruct = st.destruct
  /\ end.data \subseteq st.data
  /\ \A d \in st.data : d[1] \in end.conn => d \in end.data
  /\ \A a, b \in Player : a # p => end.link[a][b] = st.link[a][b]
  /\ \A b \in Player : \/ Grown(st.link[p][b], end.link[p][b], DataMsg)
                       \/ b \notin end.conn /\ Grown(<<>>, end.link[p][b], DataMsg)
  /\ end.link[p][p] = st.link[p][p]

LEMMA DisconnectPlayerIs ==
  ASSUME TypeOK, NEW p \in Player, NEW s \in Player, NEW st \in PeersSet, p \in st.conn
  PROVE  Lost(p, s, st, DisconnectPlayer(p, s, st))
<1> DEFINE end == DisconnectPlayer(p, s, st)
           rest == st.conn \ {s}
           resent == IF s \in st.conn /\ Router(st.conn) = s
                     THEN SendLocalCommand(p, rest, PendingCommands(p, rest)) ELSE Nothing
           net == Sent(st.link, p, resent)
<1>1. st.conn \in SUBSET Player /\ st.data \in SUBSET (Player \X Nat)
      /\ st.destruct \in SUBSET (Nat \X Player) /\ st.link \in Nets
  BY DEF PeersSet
<1>2. CASE s = p
  <2>1. end = st
    BY <1>2 DEF DisconnectPlayer
  <2>2. \A b \in Player : Grown(st.link[p][b], st.link[p][b], DataMsg)
    BY <1>1, GrownSame DEF Nets
  <2> HIDE DEF end
  <2>3. \A d \in st.data : d \in end.data
    BY <2>1
  <2> QED
    BY <1>2, <2>1, <2>2, <2>3 DEF end, Lost
<1>3. CASE s # p
  <2>1. resent \in [Player -> Seq(DataMsg)] /\ resent[p] = <<>>
    <3>1. SendLocalCommand(p, rest, PendingCommands(p, rest)) \in [Player -> Seq(DataMsg)]
          /\ SendLocalCommand(p, rest, PendingCommands(p, rest))[p] = <<>>
      BY PendingIs, SendLocalIs
    <3>2. Nothing \in [Player -> Seq(DataMsg)] /\ Nothing[p] = <<>>
      BY EmptySeq DEF Nothing
    <3> QED
      BY <3>1, <3>2
  <2> HIDE DEF resent
  <2>2. /\ net \in Nets
        /\ \A a, b \in Player : a # p => net[a][b] = st.link[a][b]
        /\ \A b \in Player : Grown(st.link[p][b], net[p][b], DataMsg)
        /\ net[p][p] = st.link[p][p]
    <3>1. DataMsg \subseteq Message
      BY DEF DataMsg
    <3>2. Extended(st.link, net, p, DataMsg)
      BY <1>1, <2>1, <3>1, SentIs
    <3>3. net[p][p] = st.link[p][p]
      BY <1>1, <2>1, <3>1, SentTo
    <3> HIDE DEF net
    <3> QED
      BY <3>2, <3>3 DEF Extended
  <2>3. end = [st EXCEPT !.conn = rest, !.data = {d \in @ : d[1] # s},
                         !.link = [net EXCEPT ![p][s] = <<>>]]
    BY <1>3 DEF DisconnectPlayer, resent
  <2> HIDE DEF net, end
  <2> DEFINE cut == [net EXCEPT ![p][s] = <<>>]
  <2>4. /\ cut \in Nets /\ \A a, b \in Player : a # p => cut[a][b] = st.link[a][b]
        /\ \A b \in Player : b # s => cut[p][b] = net[p][b]
        /\ cut[p][s] = <<>>
    BY <1>3, <2>2, EmptySeq DEF Nets
  <2> HIDE DEF cut
  <2>5. /\ end.conn = rest /\ end.data = {d \in st.data : d[1] # s}
        /\ end.destruct = st.destruct /\ end.link = cut /\ end \in PeersSet
    BY <1>1, <2>3, <2>4 DEF PeersSet, cut
  <2>6. Grown(<<>>, <<>>, DataMsg)
    BY GrownSame, EmptySeq
  <2>7. ASSUME NEW b \in Player
        PROVE  \/ Grown(st.link[p][b], end.link[p][b], DataMsg)
               \/ b \notin end.conn /\ Grown(<<>>, end.link[p][b], DataMsg)
    BY <2>2, <2>4, <2>5, <2>6
  <2>8. \A d \in st.data : d[1] \in end.conn => d \in end.data
    BY <2>5
  <2> QED
    BY <1>3, <2>2, <2>4, <2>5, <2>7, <2>8 DEF end, Lost
<1> QED
  BY <1>2, <1>3

(* What p says while it passes over the slots and disconnects those in D.  *)
PassMsg(p, D) == DataMsg \cup {m \in Message : m.type = "DISCONNECTPLAYER" /\ m.player = p /\ m.slot \in D}
(* The states the pass can be in.                                          *)
Passed(p) ==
  {st \in PeersSet :
     LET lost == conn[p] \ st.conn
     IN  /\ p \in st.conn /\ st.conn \subseteq conn[p]
         /\ destruct[p] \subseteq st.destruct
         /\ \A s \in lost : \E d \in st.destruct : d[2] = s
         /\ orderly => lost \subseteq silent
         /\ \A d \in data[p] : d[1] \in st.conn => d \in st.data
         /\ \A a, b \in Player : a # p => st.link[a][b] = link[a][b]
         /\ \A b \in Player : \/ Grown(link[p][b], st.link[p][b], PassMsg(p, lost))
                              \/ b \notin st.conn /\ Grown(<<>>, st.link[p][b], PassMsg(p, lost))
         /\ st.link[p][p] = link[p][p]
         /\ lost = {} => st = Peers(p, link)}

LEMMA PassMsgIs ==
  ASSUME NEW p \in Player, NEW D, NEW E, D \subseteq E
  PROVE  PassMsg(p, D) \subseteq PassMsg(p, E) /\ DataMsg \subseteq PassMsg(p, D) /\ PassMsg(p, D) \subseteq Message
BY DEF PassMsg, DataMsg

LEMMA PassStarts ==
  ASSUME TypeOK, NEW p \in Player
  PROVE  Peers(p, link) \in Passed(p)
<1>1. /\ Peers(p, link) \in PeersSet /\ Peers(p, link).conn = conn[p] /\ Peers(p, link).data = data[p]
      /\ Peers(p, link).destruct = destruct[p] /\ Peers(p, link).link = link /\ p \in conn[p]
  BY PeersIs, TypeFacts
<1>2. \A b \in Player : Grown(link[p][b], link[p][b], PassMsg(p, {}))
  BY TypeFacts, GrownSame DEF Nets
<1>3. conn[p] \ conn[p] = {}
  OBVIOUS
<1> QED
  BY <1>1, <1>2, <1>3 DEF Passed

LEMMA PassGoesOn ==
  ASSUME TypeOK, KnownInv, SilentInv, NEW p \in Player, NEW s, NEW st \in Passed(p)
  PROVE  Disconnect(p, s, st) \in Passed(p)
<1>1. CASE s \notin Out(p, st.conn)
  BY <1>1 DEF Disconnect
<1>2. CASE s \in Out(p, st.conn)
  <2> DEFINE m == Msg("DISCONNECTPLAYER", p, GetMaxDisconnectFrame(p), s)
             told == SendDisconnectCommand(p, s, st)
             cut == DisconnectPlayer(p, s, told)
             end == SendPlayerDestruct(p, s, cut)
             lost == conn[p] \ st.conn
             more == conn[p] \ end.conn
  <2>1. /\ st \in PeersSet /\ p \in st.conn /\ st.conn \subseteq conn[p] /\ destruct[p] \subseteq st.destruct
        /\ \A t \in lost : \E d \in st.destruct : d[2] = t
        /\ orderly => lost \subseteq silent
        /\ \A d \in data[p] : d[1] \in st.conn => d \in st.data
        /\ \A a, b \in Player : a # p => st.link[a][b] = link[a][b]
        /\ \A b \in Player : \/ Grown(link[p][b], st.link[p][b], PassMsg(p, lost))
                             \/ b \notin st.conn /\ Grown(<<>>, st.link[p][b], PassMsg(p, lost))
        /\ st.link[p][p] = link[p][p]
    BY DEF Passed
  <2>2. s \in st.conn /\ s # p /\ s \in Player /\ conn[p] \subseteq Player
    BY <1>2, <2>1, TypeFacts DEF Out
  <2>3. m \in Message /\ m.type = "DISCONNECTPLAYER" /\ m.player = p /\ m.slot = s
    BY <2>2, MaxDisconnectFrame, MsgIs
  <2> HIDE DEF m
  <2> DEFINE New == PassMsg(p, lost \cup {s})
  <2>4. m \in New /\ New \subseteq Message /\ DataMsg \subseteq New /\ PassMsg(p, lost) \subseteq New
    BY <2>3, PassMsgIs DEF PassMsg
  <2> HIDE DEF New
  <2>5. st.link \in Nets /\ st.conn \in SUBSET Player
        /\ st.data \in SUBSET (Player \X Nat) /\ st.destruct \in SUBSET (Nat \X Player)
    BY <2>1 DEF PeersSet
  <2>6. ToAll(st.conn, m) \in [Player -> Seq(New)] /\ ToAll(st.conn, m)[p] = <<>>
    BY <2>3, <2>4, ToAllIs
  <2>7. /\ told \in PeersSet /\ told.conn = st.conn /\ told.data = st.data /\ told.destruct = st.destruct
        /\ \A a, b \in Player : a # p => told.link[a][b] = st.link[a][b]
        /\ \A b \in Player : Grown(st.link[p][b], told.link[p][b], New)
        /\ told.link[p][p] = st.link[p][p]
    <3> DEFINE net == Sent(st.link, p, ToAll(st.conn, m))
    <3>1. told = [st EXCEPT !.link = net]
      BY DEF SendDisconnectCommand, m
    <3>2. /\ net \in Nets
          /\ \A a, b \in Player : a # p => net[a][b] = st.link[a][b]
          /\ \A b \in Player : Grown(st.link[p][b], net[p][b], New)
          /\ net[p][p] = st.link[p][p]
      <4>1. Extended(st.link, net, p, New)
        BY <2>4, <2>5, <2>6, SentIs
      <4>2. net[p][p] = st.link[p][p]
        BY <2>4, <2>5, <2>6, SentTo
      <4> HIDE DEF net
      <4> QED
        BY <4>1, <4>2 DEF Extended
    <3> HIDE DEF net, told
    <3>3. /\ told \in PeersSet /\ told.conn = st.conn /\ told.data = st.data
          /\ told.destruct = st.destruct /\ told.link = net
      BY <2>1, <2>5, <3>1, <3>2 DEF PeersSet
    <3> QED
      BY <3>2, <3>3
  <2> HIDE DEF told
  <2>8. /\ cut \in PeersSet /\ p \in cut.conn /\ cut.conn = st.conn \ {s}
        /\ cut.destruct = st.destruct
        /\ \A d \in st.data : d[1] \in cut.conn => d \in cut.data
        /\ \A a, b \in Player : a # p => cut.link[a][b] = told.link[a][b]
        /\ \A b \in Player : \/ Grown(told.link[p][b], cut.link[p][b], DataMsg)
                             \/ b \notin cut.conn /\ Grown(<<>>, cut.link[p][b], DataMsg)
        /\ cut.link[p][p] = told.link[p][p]
    <3>1. told \in PeersSet /\ p \in told.conn
      BY <2>1, <2>7
    <3>2. Lost(p, s, told, cut)
      BY <2>2, <3>1, DisconnectPlayerIs
    <3> HIDE DEF cut
    <3> QED
      BY <2>2, <2>7, <3>2 DEF Lost
  <2> HIDE DEF cut
  <2>9. /\ end \in PeersSet /\ end.conn = cut.conn /\ end.data = cut.data /\ end.link = cut.link
        /\ end.destruct = st.destruct \cup {<<frame[p] + RunAhead + 1, s>>}
    <3>1. frame[p] + RunAhead + 1 \in Nat
      BY TypeFacts, Constants
    <3> QED
      BY <2>2, <2>8, <3>1 DEF SendPlayerDestruct, PeersSet
  <2> HIDE DEF end
  <2>10. more = lost \cup {s} /\ s \notin lost
    BY <2>1, <2>2, <2>8, <2>9
  <2>11. \A t \in more : \E d \in end.destruct : d[2] = t
    <3>1. <<frame[p] + RunAhead + 1, s>> \in end.destruct /\ <<frame[p] + RunAhead + 1, s>>[2] = s
      BY <2>9
    <3> QED
      BY <2>1, <2>9, <2>10, <3>1
  <2>12. orderly => more \subseteq silent
    BY <1>2, <2>1, <2>5, <2>10, OutIsSilent
  <2>13. ASSUME NEW b \in Player
         PROVE  \/ Grown(link[p][b], end.link[p][b], PassMsg(p, more))
                \/ b \notin end.conn /\ Grown(<<>>, end.link[p][b], PassMsg(p, more))
    <3>1. PassMsg(p, more) = New
      BY <2>10 DEF New
    <3>2. link[p][b] \in Seq(Message) /\ <<>> \in Seq(Message)
      BY TypeFacts, EmptySeq DEF Nets
    <3>3. CASE Grown(<<>>, cut.link[p][b], DataMsg) /\ b \notin cut.conn
      BY <2>4, <2>9, <3>1, <3>3, GrownMore
    <3>4. CASE Grown(told.link[p][b], cut.link[p][b], DataMsg)
      <4>1. Grown(told.link[p][b], end.link[p][b], New) /\ Grown(st.link[p][b], told.link[p][b], New)
        BY <2>4, <2>7, <2>9, <3>4, GrownMore
      <4>2. st.link[p][b] \in Seq(Message)
        BY <2>5 DEF Nets
      <4>3. Grown(st.link[p][b], end.link[p][b], New)
        BY <4>1, <4>2, GrownTrans
      <4>4. CASE Grown(link[p][b], st.link[p][b], PassMsg(p, lost))
        <5>1. Grown(link[p][b], st.link[p][b], New)
          BY <2>4, <4>4, GrownMore
        <5> QED
          BY <3>1, <3>2, <4>3, <5>1, GrownTrans
      <4>5. CASE b \notin st.conn /\ Grown(<<>>, st.link[p][b], PassMsg(p, lost))
        <5>1. Grown(<<>>, st.link[p][b], New)
          BY <2>4, <4>5, GrownMore
        <5>2. Grown(<<>>, end.link[p][b], New)
          BY <3>2, <4>3, <5>1, GrownTrans
        <5> QED
          BY <2>8, <2>9, <3>1, <4>5, <5>2
      <4> QED
        BY <2>1, <4>4, <4>5
    <3> QED
      BY <2>8, <3>3, <3>4
  <2>14. \A d \in data[p] : d[1] \in end.conn => d \in end.data
    BY <2>1, <2>8, <2>9
  <2>15. \A a, b \in Player : a # p => end.link[a][b] = link[a][b]
    BY <2>1, <2>7, <2>8, <2>9
  <2>16. end.link[p][p] = link[p][p]
    BY <2>1, <2>7, <2>8, <2>9
  <2>17. p \in end.conn /\ end.conn \subseteq conn[p] /\ destruct[p] \subseteq end.destruct /\ more # {}
    BY <2>1, <2>8, <2>9, <2>10
  <2>18. end \in Passed(p)
    BY <2>9, <2>11, <2>12, <2>13, <2>14, <2>15, <2>16, <2>17 DEF Passed
  <2> QED
    BY <1>2, <2>18 DEF Disconnect, end, cut, told
<1> QED
  BY <1>1, <1>2
(* The pass has looked at n slots: it exists, by the least n for which it  *)
(* would not.                                                              *)
PassOf(p, n, g) ==
  g = [i \in 0 .. n |-> IF i = 0 THEN Peers(p, link) ELSE Disconnect(p, i - 1, g[i - 1])]

LEMMA PassExists ==
  ASSUME NEW p, NEW N \in Nat
  PROVE  \E g : PassOf(p, N, g)
<1> DEFINE Bad == {n \in 0 .. N : ~\E g : PassOf(p, n, g)}
<1>1. Bad = {}
  <2> SUFFICES ASSUME Bad # {} PROVE FALSE
    OBVIOUS
  <2>1. Bad \in SUBSET Nat
    OBVIOUS
  <2>2. PICK n \in Bad : \A k \in Bad : n <= k
    <3> HIDE DEF Bad
    <3> QED
      BY <2>1, LeastNumber
  <2>3. CASE n = 0
    <3> DEFINE g == [i \in 0 .. 0 |-> Peers(p, link)]
    <3>1. PassOf(p, 0, g)
      BY DEF PassOf
    <3> QED
      BY <2>2, <2>3, <3>1
  <2>4. CASE n # 0
    <3>1. n - 1 \in 0 .. N /\ n \in 0 .. N /\ n \in Nat
      BY <2>2, <2>4
    <3>2. n - 1 \notin Bad
      BY <2>2, <3>1
    <3>3. PICK h : PassOf(p, n - 1, h)
      BY <3>1, <3>2
    <3> DEFINE g == [i \in 0 .. n |-> IF i = n THEN Disconnect(p, n - 1, h[n - 1]) ELSE h[i]]
    <3>4. ASSUME NEW i \in 0 .. n
          PROVE  g[i] = IF i = 0 THEN Peers(p, link) ELSE Disconnect(p, i - 1, g[i - 1])
      <4>1. CASE i = n
        BY <2>4, <3>1, <4>1
      <4>2. CASE i # n
        <5>1. i \in 0 .. n - 1 /\ g[i] = h[i]
          BY <3>1, <4>2
        <5>2. h[i] = IF i = 0 THEN Peers(p, link) ELSE Disconnect(p, i - 1, h[i - 1])
          BY <3>3, <5>1 DEF PassOf
        <5>3. i # 0 => g[i - 1] = h[i - 1]
          BY <3>1, <5>1
        <5> QED
          BY <5>1, <5>2, <5>3
      <4> QED
        BY <4>1, <4>2
    <3>5. g = [i \in 0 .. n |-> g[i]]
      OBVIOUS
    <3> HIDE DEF g
    <3>6. PassOf(p, n, g)
      BY <3>4, <3>5 DEF PassOf
    <3> QED
      BY <2>2, <3>6
  <2> QED
    BY <2>3, <2>4
<1> QED
  BY <1>1

LEMMA PassEnds ==
  ASSUME TypeOK, KnownInv, SilentInv, NEW p \in Player
  PROVE  AfterSlots(p)[MAX_SLOTS] \in Passed(p)
<1> DEFINE g == AfterSlots(p)
           Bad == {n \in 0 .. MAX_SLOTS : g[n] \notin Passed(p)}
<1>1. MAX_SLOTS \in Nat
  BY Constants
<1>2. PassOf(p, MAX_SLOTS, g)
  <2>1. \E f : PassOf(p, MAX_SLOTS, f)
    BY <1>1, PassExists
  <2> QED
    BY <2>1 DEF AfterSlots, PassOf
<1> HIDE DEF g
<1>3. Bad = {}
  <2> SUFFICES ASSUME Bad # {} PROVE FALSE
    OBVIOUS
  <2>1. Bad \in SUBSET Nat
    BY <1>1
  <2>2. PICK n \in Bad : \A k \in Bad : n <= k
    <3> HIDE DEF Bad
    <3> QED
      BY <2>1, LeastNumber
  <2>3. g[n] = IF n = 0 THEN Peers(p, link) ELSE Disconnect(p, n - 1, g[n - 1])
    BY <1>2 DEF PassOf
  <2>4. CASE n = 0
    BY <2>3, <2>4, PassStarts
  <2>5. CASE n # 0
    <3>1. n - 1 \in 0 .. MAX_SLOTS
      BY <1>1, <2>5
    <3>2. g[n - 1] \in Passed(p)
      BY <1>1, <2>2, <3>1
    <3> QED
      BY <2>3, <2>5, <3>2, PassGoesOn
  <2> QED
    BY <2>4, <2>5
<1> QED
  BY <1>1, <1>3 DEF g
(* The links after a step in which p has sent messages of New; net is what *)
(* the links were without the message p has received, if any.              *)
FromNet(net, p, New) ==
  /\ link' \in Nets
  /\ \A a, b \in Player :
       \/ link'[a][b] = net[a][b]
       \/ link'[a][b] = <<>> /\ (status'[a] # "PLAYING" \/ status'[b] # "PLAYING")
       \/ a = p /\ a # b /\ Grown(net[a][b], link'[a][b], New)
       \/ a = p /\ a # b /\ b \notin conn'[p] /\ Grown(<<>>, link'[a][b], New)

(* The k-th message from q to p is taken out, or left there.               *)
Taken(net, p, q, k, again) ==
  /\ net \in Nets /\ q # p /\ k \in 1 .. Len(link[q][p])
  /\ \A a, b \in Player : a # q \/ b # p => net[a][b] = link[a][b]
  /\ net[q][p] = IF again THEN link[q][p] ELSE RemoveAt(link[q][p], k)

LEMMA TypeLinks ==
  ASSUME TypeOK
  PROVE  link \in Nets /\ \A a, b \in Player : link[a][b] \in Seq(Message)
BY DEF TypeOK, Nets

LEMMA SameNet == link' = link /\ TypeOK => \A p, New : FromNet(link, p, New)
BY TypeLinks DEF FromNet

LEMMA SentNet ==
  ASSUME NEW net \in Nets, NEW p \in Player, NEW New, New \subseteq Message,
         NEW out \in [Player -> Seq(New)], out[p] = <<>>, link' = Sent(net, p, out)
  PROVE  FromNet(net, p, New)
<1>1. Extended(net, link', p, New)
  BY SentIs
<1>2. link'[p][p] = net[p][p]
  BY SentTo
<1> QED
  BY <1>1, <1>2 DEF FromNet, Extended

LEMMA LocalIs ==
  ASSUME NEW p \in Player, NEW f \in Nat, NEW s \in Player, NEW S,
         NEW type, type \in {"DISCONNECTFRAME", "DISCONNECTSCREENOFF", "DISCONNECTVOTE", "DISCONNECTPLAYER"}
  PROVE  /\ ToAll(S, Msg(type, p, f, s)) \in [Player -> Seq({Msg(type, p, f, s)})]
         /\ ToAll(S, Msg(type, p, f, s))[p] = <<>>
         /\ {Msg(type, p, f, s)} \subseteq Message
<1> DEFINE m == Msg(type, p, f, s)
<1>1. m.player = p /\ m \in Message /\ m \in {m}
  BY MsgIs
<1> HIDE DEF m
<1> QED
  BY <1>1, ToAllIs DEF m

(* p sends everybody in S one message that speaks for itself.              *)
LEMMA LocalNet ==
  ASSUME TypeOK, NEW p \in Player, NEW s \in Player, NEW S,
         NEW type, type \in {"DISCONNECTFRAME", "DISCONNECTSCREENOFF", "DISCONNECTVOTE", "DISCONNECTPLAYER"},
         link' = Sent(link, p, ToAll(S, Msg(type, p, frame[p], s)))
  PROVE  FromNet(link, p, {Msg(type, p, frame[p], s)})
<1> DEFINE m == Msg(type, p, frame[p], s)
<1>1. frame[p] \in Nat
  BY TypeFacts
<1>2. ToAll(S, m) \in [Player -> Seq({m})] /\ ToAll(S, m)[p] = <<>> /\ {m} \subseteq Message
  <2>1. m.player = p /\ m \in Message /\ m \in {m}
    BY <1>1, MsgIs
  <2> HIDE DEF m
  <2> QED
    BY <2>1, ToAllIs
<1>3. link' = Sent(link, p, ToAll(S, m))
  OBVIOUS
<1> HIDE DEF m
<1>4. FromNet(link, p, {m})
  BY <1>2, <1>3, SentNet, TypeLinks
<1> QED
  BY <1>4 DEF m

LEMMA ExecuteLinks ==
  ASSUME TypeOK, NEW p \in Player, ExecuteFrame(p)
  PROVE  FromNet(link, p, DataMsg)
<1> DEFINE F == {f \in {frame[p] + RunAhead} : f < MaxFrame}
<1>1. F \in SUBSET Nat /\ IsFiniteSet(F)
  <2>1. frame[p] + RunAhead \in Nat
    BY TypeFacts, Constants
  <2>2. IsFiniteSet({frame[p] + RunAhead})
    BY FS_Singleton
  <2> QED
    BY <2>1, <2>2, FS_Subset
<1>2. link' = Sent(link, p, SendLocalCommand(p, conn[p], F))
  BY DEF ExecuteFrame
<1> HIDE DEF F
<1>3. SendLocalCommand(p, conn[p], F) \in [Player -> Seq(DataMsg)] /\ SendLocalCommand(p, conn[p], F)[p] = <<>>
  BY <1>1, SendLocalIs
<1> QED
  BY <1>2, <1>3, SentNet, TypeLinks DEF DataMsg

LEMMA ReadyLinks ==
  ASSUME TypeOK, NEW p \in Player, AllCommandsReady(p)
  PROVE  FromNet(link, p, {Msg("DISCONNECTSCREENOFF", p, frame[p], p)})
<1>1. link' = Sent(link, p, ToAll(conn[p], Msg("DISCONNECTSCREENOFF", p, frame[p], p)))
  BY DEF AllCommandsReady
<1> QED
  BY <1>1, LocalNet

LEMMA VoteLinks ==
  ASSUME TypeOK, NEW p \in Player, NEW s \in Player, VoteForPlayerDisconnect(p, s)
  PROVE  FromNet(link, p, {Msg("DISCONNECTVOTE", p, frame[p], s)})
<1>1. link' = Sent(link, p, ToAll(conn[p], Msg("DISCONNECTVOTE", p, frame[p], s)))
  BY DEF VoteForPlayerDisconnect
<1> QED
  BY <1>1, LocalNet

LEMMA NotifyLinks ==
  ASSUME TypeOK, NEW p \in Player, NotifyOthersOfCurrentFrame(p)
  PROVE  FromNet(link, p, DataMsg \cup {Msg("DISCONNECTFRAME", p, frame[p], p)})
<1> DEFINE m == Msg("DISCONNECTFRAME", p, frame[p], p)
           news == ToAll(conn[p], m)
           behind == {q \in InGame(p) \cap received[p] : q # p /\ frames[p][q] < frame[p]}
           help == [q \in Player |->
                      IF q \in behind THEN SendFrameData(p, q, frames[p][q]) ELSE <<>>]
           New == DataMsg \cup {m}
<1>1. link' = Sent(link, p, news) \/ link' = Sent(link, p, Both(news, help))
  BY DEF NotifyOthersOfCurrentFrame
<1>2. news \in [Player -> Seq({m})] /\ news[p] = <<>> /\ {m} \subseteq Message
  <2>1. frame[p] \in Nat
    BY TypeFacts
  <2> QED
    BY <2>1, LocalIs
<1>3. help \in [Player -> Seq(DataMsg)] /\ help[p] = <<>>
  <2>1. \A q \in Player : SendFrameData(p, q, frames[p][q]) \in Seq(DataMsg)
    BY TypeFacts, SendFrameDataIs
  <2> QED
    BY <2>1, EmptySeq
<1>4. New \subseteq Message /\ {m} \subseteq New /\ DataMsg \subseteq New
  BY <1>2 DEF DataMsg
<1> HIDE DEF m, news, help, New
<1>5. news \in [Player -> Seq(New)] /\ help \in [Player -> Seq(New)]
  BY <1>2, <1>3, <1>4, SeqMonotonic
<1>6. Both(news, help) \in [Player -> Seq(New)] /\ Both(news, help)[p] = <<>>
  <2>1. \A q \in Player : news[q] \o help[q] \in Seq(New)
    BY <1>5, ConcatProperties
  <2>2. <<>> \o <<>> = <<>>
    BY EmptySeq, ConcatEmptySeq
  <2> QED
    BY <1>2, <1>3, <2>1, <2>2 DEF Both
<1>7. FromNet(link, p, New)
  BY <1>1, <1>2, <1>4, <1>5, <1>6, SentNet, TypeLinks
<1> QED
  BY <1>7 DEF New, m

LEMMA UpdateLinks ==
  ASSUME TypeOK, KnownInv, SilentInv, NEW p \in Player, UpdateDisconnectStatus(p)
  PROVE  FromNet(link, p, PassMsg(p, conn[p] \ conn'[p]))
<1> DEFINE st == AfterSlots(p)[MAX_SLOTS]
<1>1. st \in Passed(p)
  BY PassEnds
<1>2. conn'[p] = st.conn /\ link' = st.link /\ st.link \in Nets
  BY <1>1 DEF UpdateDisconnectStatus, Become, TypeOK, Passed, PeersSet
<1> HIDE DEF st
<1>3. \A a, b \in Player : a # p => link'[a][b] = link[a][b]
  BY <1>1, <1>2 DEF Passed
<1>4. \A b \in Player : \/ Grown(link[p][b], link'[p][b], PassMsg(p, conn[p] \ conn'[p]))
                        \/ b \notin conn'[p] /\ Grown(<<>>, link'[p][b], PassMsg(p, conn[p] \ conn'[p]))
  BY <1>1, <1>2 DEF Passed
<1>5. link'[p][p] = link[p][p]
  BY <1>1, <1>2 DEF Passed
<1> QED
  BY <1>2, <1>3, <1>4, <1>5 DEF FromNet

LEMMA QuitLinks ==
  ASSUME TypeOK, NEW p \in Player, QuitGame(p)
  PROVE  FromNet(link, p, {Msg("DISCONNECTPLAYER", p, frame[p], p)})
<1> DEFINE m == Msg("DISCONNECTPLAYER", p, frame[p], p)
           net == Sent(link, p, ToAll(conn[p], m))
<1>1. ToAll(conn[p], m) \in [Player -> Seq({m})] /\ ToAll(conn[p], m)[p] = <<>> /\ {m} \subseteq Message
  <2>1. frame[p] \in Nat
    BY TypeFacts
  <2> QED
    BY <2>1, LocalIs
<1>2. link' = [q \in Player |-> [net[q] EXCEPT ![p] = <<>>]]
  BY DEF QuitGame
<1> HIDE DEF m
<1>3. Extended(link, net, p, {m})
  BY <1>1, SentIs, TypeLinks
<1> HIDE DEF net
<1>4. net \in Nets
  BY <1>3 DEF Extended
<1>5. status'[p] # "PLAYING"
  BY DEF QuitGame, TypeOK
<1>6. link' \in Nets /\ \A a, b \in Player : link'[a][b] = IF b = p THEN <<>> ELSE net[a][b]
  BY <1>2, <1>4, EmptySeq DEF Nets
<1>7. FromNet(link, p, {m})
  BY <1>3, <1>5, <1>6 DEF FromNet, Extended
<1> QED
  BY <1>7 DEF m

LEMMA DieLinks ==
  ASSUME TypeOK, NEW p \in Player, Die(p)
  PROVE  FromNet(link, p, {})
<1>1. link' = [q \in Player |-> [link[q] EXCEPT ![p] = <<>>]]
  BY DEF Die
<1>2. status'[p] # "PLAYING"
  BY DEF Die, TypeOK
<1>3. link' \in Nets /\ \A a, b \in Player : link'[a][b] = IF b = p THEN <<>> ELSE link[a][b]
  BY <1>1, TypeLinks, EmptySeq DEF Nets
<1> QED
  BY <1>2, <1>3 DEF FromNet

LEMMA LoseLinks ==
  ASSUME TypeOK, NEW p \in Player, NEW q \in Player, Lose(q, p)
  PROVE  FromNet(link, p, {})
<1>1. link' = [link EXCEPT ![q][p] = <<>>]
  BY DEF Lose
<1>2. status'[q] # "PLAYING"
  BY DEF Lose, local, TypeOK, Alive
<1>3. link' \in Nets /\ \A a, b \in Player : link'[a][b] = IF a = q /\ b = p THEN <<>> ELSE link[a][b]
  BY <1>1, TypeLinks, EmptySeq DEF Nets
<1> QED
  BY <1>2, <1>3 DEF FromNet
----------------------------------------------------------------------------
(* What becomes of connections, frame data and destructions when p loses   *)
(* no more than those in D.                                                *)
PeersGo(p, D) ==
  /\ conn' \in [Player -> SUBSET Player] /\ data' \in [Player -> SUBSET (Player \X Nat)]
  /\ destruct' \in [Player -> SUBSET (Nat \X Player)]
  /\ \A a \in Player : a # p => conn'[a] = conn[a] /\ data'[a] = data[a]
  /\ p \in conn'[p] /\ conn'[p] \subseteq conn[p] /\ conn[p] \ conn'[p] \subseteq D
  /\ \A a \in Player : destruct[a] \subseteq destruct'[a]
  /\ \A d \in data[p] : d[1] \in conn'[p] => d \in data'[p]

LEMMA SamePeers ==
  ASSUME TypeOK, UNCHANGED peers, NEW p \in Player, NEW D
  PROVE  PeersGo(p, D)
BY DEF TypeOK, peers, PeersGo

LEMMA ExecutePeers ==
  ASSUME TypeOK, NEW p \in Player, ExecuteFrame(p)
  PROVE  PeersGo(p, {})
<1> DEFINE F == {f \in {frame[p] + RunAhead} : f < MaxFrame}
<1>1. F \subseteq Nat
  BY TypeFacts, Constants
<1>2. conn' = conn /\ destruct' = destruct /\ data' = [data EXCEPT ![p] = @ \cup ({p} \X F)]
  BY DEF ExecuteFrame
<1> HIDE DEF F
<1>3. data' \in [Player -> SUBSET (Player \X Nat)]
  BY <1>1, <1>2 DEF TypeOK
<1> QED
  BY <1>2, <1>3 DEF TypeOK, PeersGo

LEMMA UpdatePeers ==
  ASSUME TypeOK, KnownInv, SilentInv, NEW p \in Player, UpdateDisconnectStatus(p)
  PROVE  /\ PeersGo(p, conn[p] \ conn'[p])
         /\ \A s \in conn[p] \ conn'[p] : \E d \in destruct'[p] : d[2] = s
         /\ orderly => conn[p] \ conn'[p] \subseteq silent
         /\ issued' = issued \cup ({p} \X (conn[p] \ conn'[p]))
         /\ conn[p] \ conn'[p] = {} => UNCHANGED <<peers, link>>
<1> DEFINE st == AfterSlots(p)[MAX_SLOTS]
<1>1. st \in Passed(p)
  BY PassEnds
<1>2. /\ conn' = [conn EXCEPT ![p] = st.conn] /\ data' = [data EXCEPT ![p] = st.data]
      /\ destruct' = [destruct EXCEPT ![p] = st.destruct] /\ link' = st.link
      /\ issued' = issued \cup ({p} \X (conn[p] \ st.conn))
  BY DEF UpdateDisconnectStatus, Become
<1> HIDE DEF st
<1>3. /\ st.conn \in SUBSET Player /\ st.data \in SUBSET (Player \X Nat)
      /\ st.destruct \in SUBSET (Nat \X Player)
      /\ p \in st.conn /\ st.conn \subseteq conn[p] /\ destruct[p] \subseteq st.destruct
      /\ \A s \in conn[p] \ st.conn : \E d \in st.destruct : d[2] = s
      /\ orderly => conn[p] \ st.conn \subseteq silent
      /\ \A d \in data[p] : d[1] \in st.conn => d \in st.data
  BY <1>1 DEF Passed, PeersSet
<1>4. conn[p] \ st.conn = {} => st = Peers(p, link)
  BY <1>1 DEF Passed
<1>5. conn'[p] = st.conn /\ data'[p] = st.data /\ destruct'[p] = st.destruct
  BY <1>2 DEF TypeOK
<1>6. PeersGo(p, conn[p] \ conn'[p])
  BY <1>2, <1>3, <1>5 DEF TypeOK, PeersGo
<1>7. conn[p] \ conn'[p] = {} => UNCHANGED <<peers, link>>
  BY <1>2, <1>4, <1>5 DEF Peers, peers, TypeOK
<1> QED
  BY <1>2, <1>3, <1>5, <1>6, <1>7

LEMMA QuitPeers ==
  ASSUME TypeOK, NEW p \in Player, QuitGame(p)
  PROVE  PeersGo(p, Player)
<1>1. /\ conn' = [conn EXCEPT ![p] = {p}] /\ data' = [data EXCEPT ![p] = {d \in @ : d[1] \in {p}}]
      /\ destruct' = destruct
  BY DEF QuitGame, DisconnectLocalPlayer
<1> QED
  BY <1>1 DEF TypeOK, PeersGo

----------------------------------------------------------------------------
(* A message from q is received by p.                                      *)
Without(q, p, k, again) == IF again THEN link ELSE [link EXCEPT ![q][p] = RemoveAt(@, k)]

LEMMA WithoutIs ==
  ASSUME TypeOK, LinkInv, NEW p \in Player, NEW q \in Player, NEW k \in DOMAIN link[q][p], NEW again
  PROVE  /\ Taken(Without(q, p, k, again), p, q, k, again)
         /\ link[q][p][k] \in Legit(q) /\ link[q][p][k] \in Message
<1>1. link[q][p] \in Seq(Message) /\ DOMAIN link[q][p] = 1 .. Len(link[q][p]) /\ Len(link[q][p]) \in Nat
  BY TypeLinks, LenProperties
<1>2. q # p
  BY <1>1 DEF LinkInv
<1>3. RemoveAt(link[q][p], k) \in Seq(Message)
  BY <1>1, Removed
<1>4. Taken(Without(q, p, k, again), p, q, k, again)
  <2>1. CASE again
    BY <1>1, <1>2, <2>1, TypeLinks DEF Without, Taken
  <2>2. CASE ~again
    <3>1. Without(q, p, k, again) = [link EXCEPT ![q][p] = RemoveAt(link[q][p], k)]
      BY <2>2, TypeLinks DEF Without
    <3>2. /\ Without(q, p, k, again) \in Nets
          /\ \A a, b \in Player : a # q \/ b # p => Without(q, p, k, again)[a][b] = link[a][b]
          /\ Without(q, p, k, again)[q][p] = RemoveAt(link[q][p], k)
      BY <1>3, <3>1, TypeLinks DEF Nets
    <3> QED
      BY <1>1, <1>2, <2>2, <3>2 DEF Taken
  <2> QED
    BY <2>1, <2>2
<1> QED
  BY <1>1, <1>4 DEF LinkInv, Legit

(* What p makes of it.                                                     *)
LearntFrame(p, q, m) ==
  /\ m.type = "DISCONNECTFRAME" /\ frames[p][q] < m.frame
  /\ frames' = [frames EXCEPT ![p][q] = m.frame]
  /\ received' = [received EXCEPT ![p] = @ \cup {q}]
  /\ votes' = [votes EXCEPT ![p] = VotesReset(@, q, m.frame - 1)]
LearntScreenOff(p, q, m) ==
  /\ m.type = "DISCONNECTSCREENOFF" /\ frames[p][q] <= m.frame
  /\ frames' = [frames EXCEPT ![p][q] = m.frame]
  /\ received' = [received EXCEPT ![p] = @ \ {q}]
  /\ votes' = [votes EXCEPT ![p] = VotesReset(@, q, m.frame)]
LearntVote(p, q, m) ==
  /\ m.type = "DISCONNECTVOTE" /\ UNCHANGED <<frames, received>>
  /\ votes' = [votes EXCEPT ![p] = VoteApplied(@, m.slot, q, m.frame)]
Learnt(p, q, m) ==
  UNCHANGED known \/ LearntFrame(p, q, m) \/ LearntScreenOff(p, q, m) \/ LearntVote(p, q, m)
Dropped(p, m) == IF m.type = "DISCONNECTPLAYER" THEN {m.slot} \ {p} ELSE {}

Got(p, q, m, net) ==
  /\ FromNet(net, p, DataMsg) /\ PeersGo(p, Dropped(p, m)) /\ Learnt(p, q, m)
  /\ m.slot = q /\ conn'[p] # conn[p] => \E d \in destruct'[p] : d[2] = q
  /\ m.type = "DISCONNECTFRAME" /\ q \in conn[p] => frames'[p][q] >= m.frame
  /\ m.type = "DISCONNECTVOTE" => link' = net /\ UNCHANGED <<frames, peers>>

LEMMA NetStays ==
  ASSUME NEW net \in Nets, link' = net, NEW p, NEW New
  PROVE  FromNet(net, p, New)
BY DEF FromNet

LEMMA FrameDataGot ==
  ASSUME TypeOK, NEW p \in Player, NEW q \in Player, NEW m \in Message, m.type = "FRAMEDATA",
         NEW net \in Nets, ReceiveFrameData(p, m, net)
  PROVE  Got(p, q, m, net)
<1>1. UNCHANGED <<conn, destruct, known>>
  BY DEF ReceiveFrameData
<1>2. CASE m.frame < frame[p]
  BY <1>1, <1>2, NetStays, SamePeers DEF ReceiveFrameData, Got, Learnt, peers
<1>3. CASE ~(m.frame < frame[p])
  <2> DEFINE out == [a \in Player |->
                       IF a \in m.relay \cap Others(p) THEN <<Data(m.player, m.frame, {a})>> ELSE <<>>]
  <2>1. link' = Sent(net, p, out) /\ data' = [data EXCEPT ![p] = @ \cup {<<m.player, m.frame>>}]
    BY <1>3 DEF ReceiveFrameData
  <2>2. out \in [Player -> Seq(DataMsg)]
    <3>1. ASSUME NEW a \in Player
          PROVE  <<Data(m.player, m.frame, {a})>> \in Seq(DataMsg)
      <4>1. Data(m.player, m.frame, {a}) \in DataMsg
        BY MessageHas, DataIs
      <4> QED
        BY <4>1, OneMessage
    <3> QED
      BY <3>1, EmptySeq
  <2>3. out[p] = <<>>
    BY DEF Others
  <2> HIDE DEF out
  <2>4. FromNet(net, p, DataMsg)
    <3>1. DataMsg \subseteq Message
      BY DEF DataMsg
    <3> QED
      BY <2>1, <2>2, <2>3, <3>1, SentNet
  <2>5. PeersGo(p, {})
    <3>1. <<m.player, m.frame>> \in Player \X Nat
      BY MessageHas
    <3> QED
      BY <1>1, <2>1, <3>1 DEF TypeOK, PeersGo
  <2>6. Dropped(p, m) = {}
    BY DEF Dropped
  <2> QED
    BY <1>1, <2>4, <2>5, <2>6 DEF Got, Learnt
<1> QED
  BY <1>2, <1>3

LEMMA FrameGot ==
  ASSUME TypeOK, NEW p \in Player, NEW q \in Player, NEW m \in Message, m.type = "DISCONNECTFRAME",
         m.player = q, q # p, NEW net \in Nets, ProcessDisconnectFrame(p, m, net)
  PROVE  Got(p, q, m, net)
<1>1. UNCHANGED peers /\ PeersGo(p, Dropped(p, m)) /\ m.frame \in Nat /\ frames[p][q] \in Nat
  BY SamePeers, TypeFacts, MessageHas DEF ProcessDisconnectFrame
<1>2. CASE frames[p][q] >= m.frame
  BY <1>1, <1>2, NetStays DEF ProcessDisconnectFrame, Got, Learnt, peers, known
<1>3. CASE ~(frames[p][q] >= m.frame)
  <2> DEFINE out == [Nothing EXCEPT ![q] = SendFrameData(p, q, m.frame)]
  <2>1. out \in [Player -> Seq(DataMsg)] /\ out[p] = <<>>
    <3>1. SendFrameData(p, q, m.frame) \in Seq(DataMsg)
      BY <1>1, TypeFacts, SendFrameDataIs
    <3> QED
      BY <3>1, EmptySeq DEF Nothing
  <2>2. link' = net \/ link' = Sent(net, p, out)
    BY <1>3 DEF ProcessDisconnectFrame
  <2> HIDE DEF out
  <2>3. FromNet(net, p, DataMsg)
    <3>1. DataMsg \subseteq Message
      BY DEF DataMsg
    <3> QED
      BY <2>1, <2>2, <3>1, SentNet, NetStays
  <2>4. LearntFrame(p, q, m)
    BY <1>1, <1>3 DEF ProcessDisconnectFrame, LearntFrame
  <2>5. frames'[p][q] = m.frame
    BY <2>4 DEF TypeOK, LearntFrame
  <2> QED
    BY <1>1, <1>3, <2>3, <2>4, <2>5 DEF Got, Learnt, peers
<1> QED
  BY <1>2, <1>3

LEMMA ScreenOffGot ==
  ASSUME TypeOK, NEW p \in Player, NEW q \in Player, NEW m \in Message, m.type = "DISCONNECTSCREENOFF",
         m.player = q, q # p, NEW net \in Nets, ProcessDisconnectScreenOff(p, m, net)
  PROVE  Got(p, q, m, net)
<1>1. UNCHANGED peers /\ PeersGo(p, Dropped(p, m)) /\ m.frame \in Nat /\ frames[p][q] \in Nat
  BY SamePeers, TypeFacts, MessageHas DEF ProcessDisconnectScreenOff
<1>2. FromNet(net, p, DataMsg)
  BY NetStays DEF ProcessDisconnectScreenOff
<1>3. Learnt(p, q, m)
  BY <1>1 DEF ProcessDisconnectScreenOff, Learnt, LearntScreenOff
<1> QED
  BY <1>1, <1>2, <1>3 DEF Got, peers

LEMMA VoteGot ==
  ASSUME TypeOK, NEW p \in Player, NEW q \in Player, NEW m \in Message, m.type = "DISCONNECTVOTE",
         m.player = q, q # p, NEW net \in Nets, ProcessDisconnectVote(p, m, net)
  PROVE  Got(p, q, m, net)
<1>1. UNCHANGED peers /\ PeersGo(p, Dropped(p, m))
  BY SamePeers DEF ProcessDisconnectVote
<1>2. FromNet(net, p, DataMsg)
  BY NetStays DEF ProcessDisconnectVote
<1>3. link' = net /\ frames' = frames
  BY DEF ProcessDisconnectVote
<1>4. Learnt(p, q, m)
  <2>1. CASE q \in InGame(p)
    BY <2>1 DEF ProcessDisconnectVote, Learnt, LearntVote
  <2>2. CASE q \notin InGame(p)
    BY <2>2 DEF ProcessDisconnectVote, Learnt, known, TypeOK
  <2> QED
    BY <2>1, <2>2
<1> QED
  BY <1>1, <1>2, <1>3, <1>4 DEF Got, peers

LEMMA DisconnectGot ==
  ASSUME TypeOK, NEW p \in Player, NEW q \in Player, NEW m \in Message, m.type = "DISCONNECTPLAYER",
         m.player = q, q # p, NEW net \in Nets, net[p][p] = <<>>, ProcessDisconnectPlayer(p, m, net)
  PROVE  Got(p, q, m, net)
<1> DEFINE st == Peers(p, net)
           mid == IF q = m.slot THEN SendPlayerDestruct(p, m.slot, st) ELSE st
           end == DisconnectPlayer(p, m.slot, mid)
<1>1. m.slot \in Player /\ p \in conn[p]
  BY MessageHas, TypeFacts
<1>2. st \in PeersSet /\ st.conn = conn[p] /\ st.data = data[p] /\ st.destruct = destruct[p] /\ st.link = net
  BY PeersIs
<1>3. UNCHANGED known /\ Become(p, end)
  BY DEF ProcessDisconnectPlayer
<1> HIDE DEF st
<1>4. /\ mid \in PeersSet /\ mid.conn = conn[p] /\ mid.data = data[p] /\ destruct[p] \subseteq mid.destruct
      /\ mid.link = net /\ (m.slot = q => \E d \in mid.destruct : d[2] = q)
  <2>1. CASE q # m.slot
    BY <1>2, <2>1
  <2>2. CASE q = m.slot
    <3>1. frame[p] + RunAhead + 1 \in Nat
      BY TypeFacts, Constants
    <3> DEFINE d == <<frame[p] + RunAhead + 1, m.slot>>
    <3>2. mid = [st EXCEPT !.destruct = @ \cup {d}]
      BY <2>2 DEF SendPlayerDestruct
    <3>3. d \in Nat \X Player /\ d[2] = m.slot
      BY <1>1, <3>1
    <3> HIDE DEF d, mid
    <3>4. /\ mid \in PeersSet /\ mid.conn = st.conn /\ mid.data = st.data /\ mid.link = st.link
          /\ mid.destruct = st.destruct \cup {d}
      BY <1>2, <3>2, <3>3 DEF PeersSet
    <3> QED
      BY <1>2, <2>2, <3>3, <3>4
  <2> QED
    BY <2>1, <2>2
<1> HIDE DEF mid
<1>5. Lost(p, m.slot, mid, end)
  BY <1>1, <1>4, DisconnectPlayerIs
<1> HIDE DEF end
<1>6. /\ end.conn \in SUBSET Player /\ end.data \in SUBSET (Player \X Nat)
      /\ end.destruct \in SUBSET (Nat \X Player) /\ end.link \in Nets /\ p \in end.conn
      /\ end.conn = IF m.slot = p THEN conn[p] ELSE conn[p] \ {m.slot}
      /\ end.destruct = mid.destruct
      /\ \A d \in data[p] : d[1] \in end.conn => d \in end.data
      /\ \A a, b \in Player : a # p => end.link[a][b] = net[a][b]
      /\ \A b \in Player : \/ Grown(net[p][b], end.link[p][b], DataMsg)
                           \/ b \notin end.conn /\ Grown(<<>>, end.link[p][b], DataMsg)
      /\ end.link[p][p] = net[p][p]
  BY <1>4, <1>5 DEF Lost, PeersSet
<1>7. /\ conn' = [conn EXCEPT ![p] = end.conn] /\ data' = [data EXCEPT ![p] = end.data]
      /\ destruct' = [destruct EXCEPT ![p] = end.destruct] /\ link' = end.link
  BY <1>3 DEF Become
<1>8. PeersGo(p, Dropped(p, m))
  <2>1. conn[p] \ end.conn \subseteq Dropped(p, m)
    BY <1>6 DEF Dropped
  <2> QED
    BY <1>4, <1>6, <1>7, <2>1 DEF TypeOK, PeersGo
<1>9. FromNet(net, p, DataMsg)
  <2>1. conn'[p] = end.conn
    BY <1>7 DEF TypeOK
  <2> QED
    BY <1>6, <1>7, <2>1 DEF FromNet
<1>10. m.slot = q => \E d \in destruct'[p] : d[2] = q
  BY <1>4, <1>6, <1>7 DEF TypeOK
<1> QED
  BY <1>3, <1>8, <1>9, <1>10 DEF Got, Learnt

LEMMA ReceiveIs ==
  ASSUME TypeOK, LinkInv, NEW p \in Player, NEW q \in Player, NEW k \in DOMAIN link[q][p], NEW again,
         Receive(p, q, k, again)
  PROVE  /\ Taken(Without(q, p, k, again), p, q, k, again)
         /\ link[q][p][k] \in Legit(q) /\ link[q][p][k] \in Message
         /\ Got(p, q, link[q][p][k], Without(q, p, k, again))
         /\ Alive(p) /\ UNCHANGED <<local, menu, silent, issued>>
<1> DEFINE m == link[q][p][k]
           net == Without(q, p, k, again)
<1>1. Taken(net, p, q, k, again) /\ m \in Legit(q) /\ m \in Message
  BY WithoutIs
<1>2. /\ Alive(p)
      /\ \/ m.player \notin conn[p] /\ link' = net /\ UNCHANGED <<peers, known>>
         \/ /\ m.player \in conn[p]
            /\ \/ m.type = "FRAMEDATA" /\ ReceiveFrameData(p, m, net)
               \/ m.type = "DISCONNECTFRAME" /\ ProcessDisconnectFrame(p, m, net)
               \/ m.type = "DISCONNECTSCREENOFF" /\ ProcessDisconnectScreenOff(p, m, net)
               \/ m.type = "DISCONNECTVOTE" /\ ProcessDisconnectVote(p, m, net)
               \/ m.type = "DISCONNECTPLAYER" /\ ProcessDisconnectPlayer(p, m, net)
      /\ UNCHANGED <<local, menu, silent, issued>>
  BY DEF Receive, Without
<1>3. q # p /\ net \in Nets /\ net[p][p] = <<>>
  BY <1>1 DEF Taken, LinkInv
<1>4. m.type # "FRAMEDATA" => m.player = q
  BY <1>1 DEF Legit
<1> HIDE DEF m, net
<1>5. Got(p, q, m, net)
  <2>1. CASE m.player \notin conn[p] /\ link' = net /\ UNCHANGED <<peers, known>>
    BY <1>3, <1>4, <2>1, NetStays, SamePeers DEF Got, Learnt, peers, known
  <2>2. CASE m.type = "FRAMEDATA" /\ ReceiveFrameData(p, m, net)
    BY <1>1, <1>3, <2>2, FrameDataGot
  <2>3. CASE m.type = "DISCONNECTFRAME" /\ ProcessDisconnectFrame(p, m, net)
    BY <1>1, <1>3, <1>4, <2>3, FrameGot
  <2>4. CASE m.type = "DISCONNECTSCREENOFF" /\ ProcessDisconnectScreenOff(p, m, net)
    BY <1>1, <1>3, <1>4, <2>4, ScreenOffGot
  <2>5. CASE m.type = "DISCONNECTVOTE" /\ ProcessDisconnectVote(p, m, net)
    BY <1>1, <1>3, <1>4, <2>5, VoteGot
  <2>6. CASE m.type = "DISCONNECTPLAYER" /\ ProcessDisconnectPlayer(p, m, net)
    BY <1>1, <1>3, <1>4, <2>6, DisconnectGot
  <2> QED
    BY <1>2, <2>1, <2>2, <2>3, <2>4, <2>5, <2>6
<1> QED
  BY <1>1, <1>2, <1>5 DEF m, net
----------------------------------------------------------------------------
(* The types.                                                              *)

(* Some message, the k-th from q, is received by p.                        *)
Arrives(p, q, k, again) ==
  /\ Receive(p, q, k, again)
  /\ trouble' \in Nat /\ inOrder' \in BOOLEAN /\ (inOrder' => inOrder /\ k = 1 /\ ~again)
  /\ orderly' = orderly

LEMMA SomethingArrives ==
  ASSUME TypeOK, NEW p \in Player, NEW q \in Player, ReceiveNext(p, q) \/ ReceiveOutOfOrder(p, q)
  PROVE  \E k \in DOMAIN link[q][p] : \E again \in BOOLEAN : Arrives(p, q, k, again)
<1>1. CASE ReceiveNext(p, q)
  <2>1. Receive(p, q, 1, FALSE) /\ UNCHANGED <<trouble, inOrder, orderly>> /\ link[q][p] # <<>>
    BY <1>1 DEF ReceiveNext
  <2>2. 1 \in DOMAIN link[q][p]
    BY <2>1, TypeLinks, EmptySeq, LenProperties
  <2>3. Arrives(p, q, 1, FALSE)
    BY <2>1 DEF Arrives, TypeOK
  <2> QED
    BY <2>2, <2>3
<1>2. CASE ReceiveOutOfOrder(p, q)
  <2>1. PICK k \in DOMAIN link[q][p], again \in BOOLEAN : Receive(p, q, k, again)
    BY <1>2 DEF ReceiveOutOfOrder
  <2>2. trouble' = trouble + 1 /\ inOrder' = FALSE /\ orderly' = orderly
    BY <1>2 DEF ReceiveOutOfOrder, Trouble
  <2>3. trouble' \in Nat
    BY <2>2 DEF TypeOK
  <2>4. inOrder' \in BOOLEAN /\ ~inOrder'
    BY <2>2, Zenon
  <2>5. Arrives(p, q, k, again)
    BY <2>1, <2>2, <2>3, <2>4 DEF Arrives
  <2> QED
    BY <2>5
<1> QED
  BY <1>1, <1>2

(* The votes are fewer, or there is another one.                           *)
LEMMA VotesType ==
  ASSUME TypeOK, NEW p \in Player, NEW R \in SUBSET Vote
  PROVE  [votes EXCEPT ![p] = R] \in [Player -> SUBSET Vote]
BY DEF TypeOK

LEMMA VotesKept ==
  ASSUME TypeOK, NEW p \in Player, NEW q \in Player, NEW f \in Int
  PROVE  VotesReset(votes[p], q, f) \in SUBSET Vote
BY TypeFacts DEF VotesReset

LEMMA VotesMore ==
  ASSUME TypeOK, NEW p \in Player, NEW s \in Player, NEW q \in Player, NEW f \in Frame
  PROVE  VoteApplied(votes[p], s, q, f) \in SUBSET Vote
<1>1. [slot |-> s, by |-> q, frame |-> f] \in Vote
  BY DEF Vote
<1> QED
  BY <1>1, TypeFacts DEF VoteApplied

LEMMA LearntType ==
  ASSUME TypeOK, NEW p \in Player, NEW q \in Player, NEW m \in Legit(q), Learnt(p, q, m)
  PROVE  /\ frames' \in [Player -> [Player -> Nat]] /\ received' \in [Player -> SUBSET Player]
         /\ votes' \in [Player -> SUBSET Vote]
<1>1. m \in Message /\ m.frame \in Nat /\ m.slot \in Player /\ m.frame - 1 \in Int
  BY MessageHas DEF Legit
<1>2. CASE UNCHANGED known
  BY <1>2 DEF known, TypeOK
<1>3. CASE LearntFrame(p, q, m)
  <2>1. VotesReset(votes[p], q, m.frame - 1) \in SUBSET Vote
    BY <1>1, VotesKept
  <2>2. votes' \in [Player -> SUBSET Vote]
    BY <1>3, <2>1 DEF LearntFrame, TypeOK
  <2>3. received' \in [Player -> SUBSET Player]
    BY <1>3 DEF LearntFrame, TypeOK
  <2>4. frames' \in [Player -> [Player -> Nat]]
    BY <1>1, <1>3 DEF LearntFrame, TypeOK
  <2> QED
    BY <2>2, <2>3, <2>4
<1>4. CASE LearntScreenOff(p, q, m)
  <2>1. VotesReset(votes[p], q, m.frame) \in SUBSET Vote
    BY <1>1, VotesKept
  <2>2. votes' \in [Player -> SUBSET Vote]
    BY <1>4, <2>1 DEF LearntScreenOff, TypeOK
  <2> QED
    BY <1>1, <1>4, <2>2 DEF LearntScreenOff, TypeOK
<1>5. CASE LearntVote(p, q, m)
  <2>1. m.frame \in Frame
    BY <1>5 DEF Legit, LearntVote
  <2> QED
    BY <1>1, <1>5, <2>1, VotesMore, VotesType DEF LearntVote, TypeOK
<1> QED
  BY <1>2, <1>3, <1>4, <1>5 DEF Learnt

Inv0 == TypeOK /\ LinkInv /\ KnownInv /\ SilentInv

LEMMA NetsTyped == \A net, p, New : FromNet(net, p, New) => link' \in [Player -> [Player -> Seq(Message)]]
BY DEF FromNet, Nets

LEMMA PeersTyped ==
  ASSUME TypeOK, NEW p \in Player, NEW D, PeersGo(p, D)
  PROVE  /\ conn' \in [Player -> SUBSET Player] /\ \A a \in Player : a \in conn'[a]
         /\ data' \in [Player -> SUBSET (Player \X Nat)] /\ destruct' \in [Player -> SUBSET (Nat \X Player)]
BY DEF PeersGo, TypeOK

LEMMA UnderWayIs == UnderWay \in SUBSET Nat /\ IsFiniteSet(UnderWay)
<1>1. FirstFrame \in Int /\ FirstFrame + RunAhead - 1 \in Int /\ FirstFrame \in Nat
  BY Constants
<1>2. IsFiniteSet(FirstFrame .. FirstFrame + RunAhead - 1)
  BY <1>1, FS_Interval
<1>3. UnderWay \in SUBSET (FirstFrame .. FirstFrame + RunAhead - 1)
  BY DEF UnderWay
<1>4. UnderWay \in SUBSET Nat
  BY <1>1, <1>3
<1> QED
  BY <1>2, <1>3, <1>4, FS_Subset

LEMMA TypeInit == Init => TypeOK
<1> SUFFICES ASSUME Init PROVE TypeOK
  OBVIOUS
<1>1. FirstFrame \in Frame /\ FirstFrame \in Nat
  BY Constants DEF Frame
<1>2. UnderWay \in SUBSET Nat /\ IsFiniteSet(UnderWay)
  BY UnderWayIs
<1>3. link \in [Player -> [Player -> Seq(Message)]]
  <2>1. \A p \in Player : SendLocalCommand(p, Player, UnderWay) \in [Player -> Seq(DataMsg)]
    BY <1>2, SendLocalIs
  <2>2. Seq(DataMsg) \subseteq Seq(Message)
    BY SeqMonotonic DEF DataMsg
  <2> QED
    BY <2>1, <2>2 DEF Init
<1>4. data \in [Player -> SUBSET (Player \X Nat)]
  <2>1. (1 .. FirstFrame - 1) \in SUBSET Nat
    BY <1>1
  <2>2. \A p \in Player : (Player \X (1 .. FirstFrame - 1)) \cup ({p} \X UnderWay) \in SUBSET (Player \X Nat)
    BY <1>2, <2>1
  <2> QED
    BY <2>2 DEF Init
<1> QED
  BY <1>1, <1>3, <1>4 DEF Init, TypeOK

LEMMA TypeStep ==
  ASSUME Inv0, [Next]_vars
  PROVE  TypeOK'
<1> USE DEF Inv0
<1>1. ASSUME NEW p \in Player, ExecuteFrame(p)
      PROVE  TypeOK'
  <2>1. FromNet(link, p, DataMsg) /\ PeersGo(p, {})
    BY <1>1, ExecuteLinks, ExecutePeers
  <2>2. frame[p] + 1 \in Frame
    BY <1>1, Constants, Frames, TypeFacts DEF ExecuteFrame, Ready, Frame
  <2>3. executed' \in [Player -> SUBSET (Frame \X Player)]
    BY <1>1 DEF ExecuteFrame, TypeOK
  <2>4. frame' \in [Player -> Frame] /\ timedOut' \in [Player -> SUBSET Player]
    BY <1>1, <2>2 DEF ExecuteFrame, TypeOK
  <2>5. UNCHANGED <<status, screen, notified, known, history>>
    BY <1>1 DEF ExecuteFrame
  <2> QED
    BY <2>1, <2>3, <2>4, <2>5, NetsTyped, PeersTyped DEF TypeOK, known, history
<1>2. ASSUME NEW p \in Player, AllCommandsReady(p)
      PROVE  TypeOK'
  <2>1. link' \in [Player -> [Player -> Seq(Message)]]
    BY <1>2, ReadyLinks, NetsTyped
  <2>2. frame[p] \in Nat
    BY TypeFacts
  <2> QED
    BY <1>2, <2>1, <2>2 DEF AllCommandsReady, TypeOK, local, peers, history
<1>3. ASSUME NEW p \in Player, TurnOnScreen(p)
      PROVE  TypeOK'
  <2>1. trouble' \in Nat
    BY <1>3 DEF TurnOnScreen, Trouble, TypeOK
  <2> QED
    BY <1>3, <2>1 DEF TurnOnScreen, TypeOK, local, known, peers
<1>4. ASSUME NEW p \in Player, NotifyOthersOfCurrentFrame(p)
      PROVE  TypeOK'
  <2>1. link' \in [Player -> [Player -> Seq(Message)]]
    BY <1>4, NotifyLinks, NetsTyped
  <2>2. frame[p] \in Nat
    BY TypeFacts
  <2>3. /\ frames' \in [Player -> [Player -> Nat]] /\ received' \in [Player -> SUBSET Player]
        /\ votes' \in [Player -> SUBSET Vote]
    <3>1. CASE frames[p][p] >= frame[p]
      BY <1>4, <3>1 DEF NotifyOthersOfCurrentFrame, TypeOK, known
    <3>2. CASE ~(frames[p][p] >= frame[p])
      <4>1. /\ frames' = [frames EXCEPT ![p][p] = frame[p]]
            /\ received' = [received EXCEPT ![p] = @ \cup {p}]
            /\ votes' = [votes EXCEPT ![p] = VotesReset(@, p, frame[p] - 1)]
        BY <1>4, <3>2 DEF NotifyOthersOfCurrentFrame
      <4>2. frame[p] - 1 \in Int
        BY <2>2
      <4>3. VotesReset(votes[p], p, frame[p] - 1) \in SUBSET Vote
        BY <4>2, VotesKept
      <4>4. votes' \in [Player -> SUBSET Vote]
        BY <4>1, <4>3 DEF TypeOK
      <4> QED
        BY <2>2, <4>1, <4>4 DEF TypeOK
    <3> QED
      BY <3>1, <3>2
  <2>4. UNCHANGED <<local, screen, timedOut, peers, history>> /\ notified' \in [Player -> BOOLEAN]
    BY <1>4 DEF NotifyOthersOfCurrentFrame, TypeOK
  <2> QED
    BY <2>1, <2>3, <2>4 DEF TypeOK, local, peers, history
<1>5. ASSUME NEW p \in Player, UpdateDisconnectStatus(p)
      PROVE  TypeOK'
  <2>1. /\ link' \in [Player -> [Player -> Seq(Message)]] /\ PeersGo(p, conn[p] \ conn'[p])
        /\ issued' = issued \cup ({p} \X (conn[p] \ conn'[p]))
    BY <1>5, UpdateLinks, UpdatePeers, NetsTyped
  <2>2. UNCHANGED <<local, menu, known, silent, trouble, inOrder, orderly>>
    BY <1>5 DEF UpdateDisconnectStatus
  <2>3. issued' \in SUBSET (Player \X Player)
    BY <2>1, TypeFacts DEF TypeOK
  <2> QED
    BY <2>1, <2>2, <2>3, PeersTyped DEF TypeOK, local, menu, known
<1>6. ASSUME NEW p \in Player, QuitGame(p)
      PROVE  TypeOK'
  <2>1. link' \in [Player -> [Player -> Seq(Message)]] /\ PeersGo(p, Player)
    BY <1>6, QuitLinks, QuitPeers, NetsTyped
  <2>2. trouble' \in Nat /\ status' \in [Player -> {"PLAYING", "DEAD", "QUIT"}] /\ orderly' = FALSE
        /\ UNCHANGED <<frame, executed, menu, known, destruct, silent, issued, inOrder>>
    BY <1>6 DEF QuitGame, Trouble, TypeOK
  <2> QED
    BY <2>1, <2>2, PeersTyped DEF TypeOK, menu, known
<1>7. ASSUME NEW p \in Player, Die(p)
      PROVE  TypeOK'
  <2>1. link' \in [Player -> [Player -> Seq(Message)]]
    BY <1>7, DieLinks, NetsTyped
  <2>2. trouble' \in Nat /\ status' \in [Player -> {"PLAYING", "DEAD", "QUIT"}]
        /\ UNCHANGED <<frame, executed, menu, known, peers, silent, issued, inOrder, orderly>>
    BY <1>7 DEF Die, Trouble, TypeOK
  <2> QED
    BY <2>1, <2>2 DEF TypeOK, menu, known, peers
<1>8. ASSUME NEW p \in Player, MinutePasses(p)
      PROVE  TypeOK'
  BY <1>8 DEF MinutePasses, TypeOK, local, menu, known, peers
<1>9. ASSUME NEW p \in Player, NEW q \in Player, TimeOut(p, q)
      PROVE  TypeOK'
  BY <1>9 DEF TimeOut, TypeOK, local, known, peers, history
<1>10. ASSUME NEW p \in Player, NEW s \in Player, VoteForPlayerDisconnect(p, s)
       PROVE  TypeOK'
  <2>1. link' \in [Player -> [Player -> Seq(Message)]]
    BY <1>10, VoteLinks, NetsTyped
  <2>2. [slot |-> s, by |-> p, frame |-> frame[p]] \in Vote
    BY TypeFacts DEF Vote
  <2>3. votes' \in [Player -> SUBSET Vote]
    BY <1>10, <2>2 DEF VoteForPlayerDisconnect, TypeOK, VoteApplied
  <2>4. /\ trouble' \in Nat /\ orderly' \in BOOLEAN
        /\ UNCHANGED <<local, menu, frames, received, peers, silent, issued, inOrder>>
    BY <1>10 DEF VoteForPlayerDisconnect, Trouble, TypeOK
  <2> QED
    BY <2>1, <2>3, <2>4 DEF TypeOK, local, menu, peers
<1>11. ASSUME NEW p \in Player, NEW q \in Player, NEW k \in DOMAIN link[q][p], NEW again,
              Arrives(p, q, k, again)
       PROVE  TypeOK'
  <2> DEFINE m == link[q][p][k]
             net == Without(q, p, k, again)
  <2>1. Receive(p, q, k, again)
    BY <1>11 DEF Arrives
  <2>2. m \in Legit(q) /\ Got(p, q, m, net) /\ UNCHANGED <<local, menu, silent, issued>>
    BY <2>1, ReceiveIs
  <2> HIDE DEF m, net
  <2>3. /\ frames' \in [Player -> [Player -> Nat]] /\ received' \in [Player -> SUBSET Player]
        /\ votes' \in [Player -> SUBSET Vote]
    BY <2>2, LearntType DEF Got
  <2>4. /\ conn' \in [Player -> SUBSET Player] /\ \A a \in Player : a \in conn'[a]
        /\ data' \in [Player -> SUBSET (Player \X Nat)] /\ destruct' \in [Player -> SUBSET (Nat \X Player)]
        /\ link' \in [Player -> [Player -> Seq(Message)]]
    BY <2>2, NetsTyped, PeersTyped DEF Got
  <2>5. trouble' \in Nat /\ inOrder' \in BOOLEAN /\ orderly' = orderly
    BY <1>11 DEF Arrives
  <2> QED
    BY <2>2, <2>3, <2>4, <2>5 DEF TypeOK, local, menu
<1>12. ASSUME NEW p \in Player, NEW q \in Player, Lose(p, q)
       PROVE  TypeOK'
  <2>1. link' \in [Player -> [Player -> Seq(Message)]]
    BY <1>12, LoseLinks, NetsTyped
  <2> QED
    BY <1>12, <2>1 DEF Lose, TypeOK, local, menu, known, peers, history
<1>13. CASE UNCHANGED vars
  BY <1>13 DEF vars, local, menu, known, peers, history, TypeOK
<1> QED
  BY <1>1, <1>2, <1>3, <1>4, <1>5, <1>6, <1>7, <1>8, <1>9, <1>10, <1>11, <1>12, <1>13, SomethingArrives
     DEF Next
----------------------------------------------------------------------------
(* What is under way.                                                      *)
Within(net) ==
  /\ net \in Nets /\ \A a \in Player : net[a][a] = <<>>
  /\ \A a, b \in Player : \A i \in 1 .. Len(net[a][b]) :
       \E j \in 1 .. Len(link[a][b]) : net[a][b][i] = link[a][b][j]

LEMMA LinkWithin == TypeOK /\ LinkInv => Within(link)
BY TypeLinks DEF Within, LinkInv

LEMMA TakenWithin ==
  ASSUME TypeOK, LinkInv, NEW p \in Player, NEW q \in Player, NEW k, NEW again, NEW net,
         Taken(net, p, q, k, again)
  PROVE  Within(net)
<1>1. net \in Nets /\ \A a \in Player : net[a][a] = <<>>
  BY DEF Taken, LinkInv
<1>2. ASSUME NEW a \in Player, NEW b \in Player, NEW i \in 1 .. Len(net[a][b])
      PROVE  \E j \in 1 .. Len(link[a][b]) : net[a][b][i] = link[a][b][j]
  <2>1. CASE a # q \/ b # p \/ again
    <3>1. net[a][b] = link[a][b]
      BY <2>1 DEF Taken
    <3> QED
      BY <3>1
  <2>2. CASE a = q /\ b = p /\ ~again
    <3>1. link[q][p] \in Seq(Message) /\ k \in 1 .. Len(link[q][p]) /\ net[q][p] = RemoveAt(link[q][p], k)
      BY <2>2, TypeLinks DEF Taken
    <3>2. /\ Len(net[q][p]) = Len(link[q][p]) - 1
          /\ \A n \in 1 .. Len(link[q][p]) - 1 :
               net[q][p][n] = IF n < k THEN link[q][p][n] ELSE link[q][p][n + 1]
      BY <3>1, Removed
    <3>3. Len(link[q][p]) \in Nat
      BY <3>1, LenProperties
    <3>4. i \in 1 .. Len(link[q][p]) /\ i + 1 \in 1 .. Len(link[q][p])
      BY <2>2, <3>2, <3>3
    <3> QED
      BY <2>2, <3>2, <3>3, <3>4
  <2> QED
    BY <2>1, <2>2
<1> QED
  BY <1>1, <1>2 DEF Within

(* What is under way after a step has been so before, or is new.           *)
LEMMA MessagesFrom ==
  ASSUME TypeOK, NEW p \in Player, NEW net, Within(net), NEW New, FromNet(net, p, New),
         NEW a \in Player, NEW b \in Player, NEW i \in 1 .. Len(link'[a][b])
  PROVE  \/ a = p /\ link'[a][b][i] \in New
         \/ \E j \in 1 .. Len(link[a][b]) : link'[a][b][i] = link[a][b][j]
<1>1. CASE link'[a][b] = <<>>
  BY <1>1, EmptySeq
<1>2. CASE link'[a][b] = net[a][b]
  BY <1>2 DEF Within
<1>3. CASE a = p /\ Grown(<<>>, link'[a][b], New)
  <2>1. link'[a][b] \in Seq(Message) /\ Len(<<>>) = 0 /\ i > 0
    BY <1>3, EmptySeq DEF Grown
  <2> QED
    BY <1>3, <2>1 DEF Grown
<1>4. CASE a = p /\ Grown(net[a][b], link'[a][b], New)
  <2>1. Len(net[a][b]) \in Nat /\ Len(link'[a][b]) \in Nat
    BY <1>4, LenProperties DEF Within, Nets, Grown
  <2>2. CASE i <= Len(net[a][b])
    <3>1. i \in 1 .. Len(net[a][b])
      BY <2>1, <2>2
    <3>2. link'[a][b][i] = net[a][b][i]
      BY <1>4, <3>1 DEF Grown
    <3> QED
      BY <3>1, <3>2 DEF Within
  <2>3. CASE ~(i <= Len(net[a][b]))
    <3>1. i > Len(net[a][b])
      BY <2>1, <2>3
    <3> QED
      BY <1>4, <3>1 DEF Grown
  <2> QED
    BY <2>2, <2>3
<1> QED
  BY <1>1, <1>2, <1>3, <1>4 DEF FromNet

LEMMA LinksKept ==
  ASSUME TypeOK, LinkInv, NEW p \in Player, NEW net, Within(net), NEW New, FromNet(net, p, New),
         New \subseteq Legit(p)', \A a \in Player : destruct[a] \subseteq destruct'[a],
         silent \subseteq silent', orderly' => orderly
  PROVE  LinkInv'
<1>1. \A a \in Player : Legit(a) \subseteq Legit(a)'
  BY DEF Legit
<1>2. \A a \in Player : link'[a][a] = <<>>
  BY DEF FromNet, Within
<1>3. ASSUME NEW a \in Player, NEW b \in Player, NEW i \in 1 .. Len(link'[a][b])
      PROVE  link'[a][b][i] \in Legit(a)'
  <2>1. CASE a = p /\ link'[a][b][i] \in New
    BY <2>1
  <2>2. CASE \E j \in 1 .. Len(link[a][b]) : link'[a][b][i] = link[a][b][j]
    BY <1>1, <2>2 DEF LinkInv
  <2> QED
    BY <2>1, <2>2, MessagesFrom
<1> QED
  BY <1>2, <1>3 DEF LinkInv

LEMMA DataLegit == \A q : DataMsg \subseteq Legit(q) /\ DataMsg \subseteq Legit(q)'
BY DEF DataMsg, Legit

LEMMA LinkInit == Init => LinkInv
<1> SUFFICES ASSUME Init PROVE LinkInv
  OBVIOUS
<1>1. \A q \in Player : link[q] \in [Player -> Seq(DataMsg)] /\ link[q][q] = <<>>
  BY UnderWayIs, SendLocalIs DEF Init
<1>2. ASSUME NEW q \in Player, NEW p \in Player, NEW i \in 1 .. Len(link[q][p])
      PROVE  link[q][p][i] \in Legit(q)
  <2>1. link[q][p] \in Seq(DataMsg)
    BY <1>1
  <2>2. link[q][p][i] \in DataMsg
    BY <2>1, ElementOfSeq
  <2> QED
    BY <2>2, DataLegit
<1> QED
  BY <1>1, <1>2 DEF LinkInv

LEMMA LinkStep ==
  ASSUME Inv0, [Next]_vars
  PROVE  LinkInv'
<1> USE DEF Inv0
<1>0. Within(link)
  BY LinkWithin
<1>1. ASSUME NEW p \in Player, ExecuteFrame(p)
      PROVE  LinkInv'
  <2>1. FromNet(link, p, DataMsg) /\ DataMsg \subseteq Legit(p)'
    BY <1>1, ExecuteLinks, DataLegit
  <2>2. UNCHANGED <<destruct, silent, orderly>>
    BY <1>1 DEF ExecuteFrame, history
  <2> QED
    BY <1>0, <2>1, <2>2, LinksKept
<1>2. ASSUME NEW p \in Player, AllCommandsReady(p)
      PROVE  LinkInv'
  <2>1. FromNet(link, p, {Msg("DISCONNECTSCREENOFF", p, frame[p], p)})
    BY <1>2, ReadyLinks
  <2>2. {Msg("DISCONNECTSCREENOFF", p, frame[p], p)} \subseteq Legit(p)'
    BY TypeFacts, MsgIs DEF Legit
  <2>3. UNCHANGED <<destruct, silent, orderly>>
    BY <1>2 DEF AllCommandsReady, history, peers
  <2> QED
    BY <1>0, <2>1, <2>2, <2>3, LinksKept
<1>3. ASSUME NEW p \in Player, NotifyOthersOfCurrentFrame(p)
      PROVE  LinkInv'
  <2>1. FromNet(link, p, DataMsg \cup {Msg("DISCONNECTFRAME", p, frame[p], p)})
    BY <1>3, NotifyLinks
  <2>2. Msg("DISCONNECTFRAME", p, frame[p], p) \in Legit(p)' /\ DataMsg \subseteq Legit(p)'
    BY TypeFacts, MsgIs, DataLegit DEF Legit
  <2>3. UNCHANGED <<destruct, silent, orderly>>
    BY <1>3 DEF NotifyOthersOfCurrentFrame, history, peers
  <2> QED
    BY <1>0, <2>1, <2>2, <2>3, LinksKept
<1>4. ASSUME NEW p \in Player, UpdateDisconnectStatus(p)
      PROVE  LinkInv'
  <2> DEFINE lost == conn[p] \ conn'[p]
  <2>1. FromNet(link, p, PassMsg(p, lost))
    BY <1>4, UpdateLinks
  <2>2. /\ PeersGo(p, lost) /\ \A s \in lost : \E d \in destruct'[p] : d[2] = s
        /\ orderly => lost \subseteq silent
    BY <1>4, UpdatePeers
  <2>3. silent' = silent /\ orderly' = orderly
    BY <1>4 DEF UpdateDisconnectStatus
  <2> HIDE DEF lost
  <2>4. PassMsg(p, lost) \subseteq Legit(p)'
    BY <2>2, <2>3, DataLegit DEF PassMsg, Legit
  <2> QED
    BY <1>0, <2>1, <2>2, <2>3, <2>4, LinksKept DEF PeersGo
<1>5. ASSUME NEW p \in Player, QuitGame(p)
      PROVE  LinkInv'
  <2>1. FromNet(link, p, {Msg("DISCONNECTPLAYER", p, frame[p], p)})
    BY <1>5, QuitLinks
  <2>2. orderly' = FALSE /\ destruct' = destruct /\ silent' = silent
    BY <1>5 DEF QuitGame
  <2>3. {Msg("DISCONNECTPLAYER", p, frame[p], p)} \subseteq Legit(p)'
    BY <2>2, TypeFacts, MsgIs DEF Legit
  <2> QED
    BY <1>0, <2>1, <2>2, <2>3, LinksKept
<1>6. ASSUME NEW p \in Player, Die(p)
      PROVE  LinkInv'
  <2>1. FromNet(link, p, {}) /\ UNCHANGED <<destruct, silent, orderly>>
    BY <1>6, DieLinks DEF Die, peers
  <2> QED
    BY <1>0, <2>1, LinksKept
<1>7. ASSUME NEW p \in Player, NEW s \in Player, VoteForPlayerDisconnect(p, s)
      PROVE  LinkInv'
  <2>1. FromNet(link, p, {Msg("DISCONNECTVOTE", p, frame[p], s)})
    BY <1>7, VoteLinks
  <2>2. /\ destruct' = destruct /\ silent' = silent /\ (orderly' => orderly)
        /\ (orderly' => s \in silent')
    BY <1>7 DEF VoteForPlayerDisconnect, peers
  <2>3. {Msg("DISCONNECTVOTE", p, frame[p], s)} \subseteq Legit(p)'
    BY <2>2, TypeFacts, MsgIs DEF Legit
  <2> QED
    BY <1>0, <2>1, <2>2, <2>3, LinksKept
<1>8. ASSUME NEW p \in Player, NEW q \in Player, NEW k \in DOMAIN link[q][p], NEW again,
             Arrives(p, q, k, again)
      PROVE  LinkInv'
  <2> DEFINE m == link[q][p][k]
             net == Without(q, p, k, again)
  <2>1. Receive(p, q, k, again) /\ orderly' = orderly
    BY <1>8 DEF Arrives
  <2>2. Taken(net, p, q, k, again) /\ Got(p, q, m, net) /\ silent' = silent
    BY <2>1, ReceiveIs
  <2> HIDE DEF m, net
  <2>3. Within(net) /\ DataMsg \subseteq Legit(p)'
    BY <2>2, TakenWithin, DataLegit
  <2>4. FromNet(net, p, DataMsg) /\ \A a \in Player : destruct[a] \subseteq destruct'[a]
    BY <2>2 DEF Got, PeersGo
  <2> QED
    BY <2>1, <2>2, <2>3, <2>4, LinksKept
<1>9. ASSUME NEW p \in Player, NEW q \in Player, Lose(p, q)
      PROVE  LinkInv'
  <2>1. FromNet(link, q, {}) /\ UNCHANGED <<destruct, silent, orderly>>
    BY <1>9, LoseLinks DEF Lose, peers, history
  <2> QED
    BY <1>0, <2>1, LinksKept
<1>10. ASSUME UNCHANGED <<destruct, link, orderly>>, silent \subseteq silent'
       PROVE  LinkInv'
  <2>1. \A q \in Player : Legit(q) \subseteq Legit(q)'
    BY <1>10 DEF Legit
  <2> QED
    BY <1>10, <2>1 DEF LinkInv
<1>11. ASSUME NEW p \in Player, TurnOnScreen(p) \/ MinutePasses(p) \/ \E q \in Player : TimeOut(p, q)
       PROVE  LinkInv'
  BY <1>10, <1>11 DEF TurnOnScreen, MinutePasses, TimeOut, peers, history
<1>12. CASE UNCHANGED vars
  BY <1>10, <1>12 DEF vars, peers, history
<1> QED
  BY <1>1, <1>2, <1>3, <1>4, <1>5, <1>6, <1>7, <1>8, <1>9, <1>11, <1>12, SomethingArrives DEF Next

----------------------------------------------------------------------------
LEMMA KnownStep ==
  ASSUME Inv0, TypeOK', [Next]_vars
  PROVE  KnownInv'
<1> USE DEF Inv0
<1>1. ASSUME frames' = frames
      PROVE  KnownInv'
  BY <1>1 DEF KnownInv
<1>2. ASSUME NEW p \in Player, NEW q \in Player, NEW f, f <= MaxFrame, frames' = [frames EXCEPT ![p][q] = f]
      PROVE  KnownInv'
  BY <1>2 DEF KnownInv, TypeOK
<1>3. ASSUME NEW p \in Player, AllCommandsReady(p) \/ NotifyOthersOfCurrentFrame(p)
      PROVE  KnownInv'
  <2>1. frames' = frames \/ frames' = [frames EXCEPT ![p][p] = frame[p]]
    BY <1>3 DEF AllCommandsReady, NotifyOthersOfCurrentFrame, known
  <2> QED
    BY <1>1, <1>2, <2>1, TypeFacts
<1>4. ASSUME NEW p \in Player, NEW q \in Player, NEW k \in DOMAIN link[q][p], NEW again,
             Arrives(p, q, k, again)
      PROVE  KnownInv'
  <2> DEFINE m == link[q][p][k]
             net == Without(q, p, k, again)
  <2>1. Receive(p, q, k, again)
    BY <1>4 DEF Arrives
  <2>2. m \in Legit(q) /\ Got(p, q, m, net)
    BY <2>1, ReceiveIs
  <2> HIDE DEF m, net
  <2>3. frames' = frames \/ (m.frame <= MaxFrame /\ frames' = [frames EXCEPT ![p][q] = m.frame])
    BY <2>2, Frames DEF Got, Learnt, LearntFrame, LearntScreenOff, LearntVote, known, Legit
  <2> QED
    BY <1>1, <1>2, <2>3
<1>5. ASSUME NEW p \in Player,
             \/ ExecuteFrame(p) \/ TurnOnScreen(p) \/ UpdateDisconnectStatus(p) \/ QuitGame(p) \/ Die(p)
             \/ MinutePasses(p)
             \/ \E q \in Player : TimeOut(p, q) \/ VoteForPlayerDisconnect(p, q) \/ Lose(p, q)
      PROVE  KnownInv'
  BY <1>1, <1>5 DEF ExecuteFrame, TurnOnScreen, UpdateDisconnectStatus, QuitGame, Die, MinutePasses,
                    TimeOut, VoteForPlayerDisconnect, Lose, known
<1>6. CASE UNCHANGED vars
  BY <1>1, <1>6 DEF vars, known
<1> QED
  BY <1>3, <1>4, <1>5, <1>6, SomethingArrives DEF Next
----------------------------------------------------------------------------
(* Who is given up.                                                        *)
LEMMA StatusStep ==
  ASSUME TypeOK, [Next]_vars, NEW p \in Player, Alive(p)'
  PROVE  Alive(p)
<1>1. ASSUME NEW q \in Player, QuitGame(q) \/ Die(q)
      PROVE  Alive(p)
  <2>1. status' = [status EXCEPT ![q] = "QUIT"] \/ status' = [status EXCEPT ![q] = "DEAD"]
    BY <1>1 DEF QuitGame, Die
  <2> QED
    BY <2>1 DEF Alive, TypeOK
<1>2. ASSUME NEW q \in Player, NEW r \in Player, ReceiveNext(q, r) \/ ReceiveOutOfOrder(q, r)
      PROVE  UNCHANGED status
  BY <1>2 DEF ReceiveNext, ReceiveOutOfOrder, Receive, local
<1>3. ASSUME NEW q \in Player,
             \/ ExecuteFrame(q) \/ AllCommandsReady(q) \/ TurnOnScreen(q) \/ NotifyOthersOfCurrentFrame(q)
             \/ UpdateDisconnectStatus(q) \/ MinutePasses(q)
             \/ \E r \in Player : TimeOut(q, r) \/ VoteForPlayerDisconnect(q, r) \/ Lose(q, r)
      PROVE  UNCHANGED status
  BY <1>3 DEF ExecuteFrame, AllCommandsReady, TurnOnScreen, NotifyOthersOfCurrentFrame,
              UpdateDisconnectStatus, MinutePasses, TimeOut, VoteForPlayerDisconnect, Lose, local
<1>4. CASE UNCHANGED status
  BY <1>4 DEF Alive
<1>5. CASE UNCHANGED vars
  BY <1>4, <1>5 DEF vars, local
<1> QED
  BY <1>1, <1>2, <1>3, <1>4, <1>5 DEF Next

LEMMA SilentStep ==
  ASSUME Inv0, TypeOK', [Next]_vars
  PROVE  SilentInv'
<1> USE DEF Inv0
<1>1. ASSUME silent \subseteq silent', \A s \in silent' \ silent : ~Alive(s),
             \A a \in Player : timedOut'[a] \subseteq silent',
             orderly' => orderly,
             orderly' => \A a \in Player : Player \ conn'[a] \subseteq silent',
             orderly' => \A a \in Player : \A v \in votes'[a] : v.slot \in silent'
      PROVE  SilentInv'
  <2>1. \A s \in silent' : s \in Player /\ ~Alive(s)
    BY <1>1 DEF SilentInv, TypeOK
  <2>2. \A s \in silent' : ~Alive(s)'
    BY <2>1, StatusStep
  <2> QED
    BY <1>1, <2>2 DEF SilentInv
<1>2. \A a \in Player : timedOut[a] \subseteq silent
  BY DEF SilentInv
<1>3. orderly => \A a \in Player : Player \ conn[a] \subseteq silent /\ \A v \in votes[a] : v.slot \in silent
  BY DEF SilentInv
<1>4. ASSUME NEW p \in Player, ExecuteFrame(p)
      PROVE  SilentInv'
  <2>1. /\ timedOut' = [timedOut EXCEPT ![p] = {}]
        /\ UNCHANGED <<conn, votes, silent, orderly>>
    BY <1>4 DEF ExecuteFrame, known, history
  <2>2. \A a \in Player : timedOut'[a] \subseteq silent'
    BY <1>2, <2>1 DEF TypeOK
  <2> QED
    BY <1>1, <1>3, <2>1, <2>2
<1>5. ASSUME NEW p \in Player, AllCommandsReady(p)
      PROVE  SilentInv'
  <2>1. votes' = [votes EXCEPT ![p] = {v \in @ : v.by # p}] /\ UNCHANGED <<timedOut, conn, silent, orderly>>
    BY <1>5 DEF AllCommandsReady, peers, history
  <2>2. \A a \in Player : votes'[a] \subseteq votes[a]
    BY <2>1 DEF TypeOK
  <2> QED
    BY <1>1, <1>2, <1>3, <2>1, <2>2
<1>6. ASSUME NEW p \in Player, TurnOnScreen(p)
      PROVE  SilentInv'
  <2>1. timedOut' = [timedOut EXCEPT ![p] = {}] /\ UNCHANGED <<conn, votes, silent, orderly>>
    BY <1>6 DEF TurnOnScreen, known, peers
  <2>2. \A a \in Player : timedOut'[a] \subseteq silent'
    BY <1>2, <2>1 DEF TypeOK
  <2> QED
    BY <1>1, <1>3, <2>1, <2>2
<1>7. ASSUME NEW p \in Player, NotifyOthersOfCurrentFrame(p)
      PROVE  SilentInv'
  <2>1. /\ votes' = votes \/ votes' = [votes EXCEPT ![p] = VotesReset(@, p, frame[p] - 1)]
        /\ UNCHANGED <<timedOut, conn, silent, orderly>>
    BY <1>7 DEF NotifyOthersOfCurrentFrame, known, peers, history
  <2>2. \A a \in Player : votes'[a] \subseteq votes[a]
    <3>1. VotesReset(votes[p], p, frame[p] - 1) \subseteq votes[p]
      BY DEF VotesReset
    <3>2. ASSUME votes' = [votes EXCEPT ![p] = VotesReset(@, p, frame[p] - 1)], NEW a \in Player
          PROVE  votes'[a] \subseteq votes[a]
      BY <3>1, <3>2 DEF TypeOK
    <3> QED
      BY <2>1, <3>2
  <2> QED
    BY <1>1, <1>2, <1>3, <2>1, <2>2
<1>8. ASSUME NEW p \in Player, UpdateDisconnectStatus(p)
      PROVE  SilentInv'
  <2>1. PeersGo(p, conn[p] \ conn'[p]) /\ (orderly => conn[p] \ conn'[p] \subseteq silent)
    BY <1>8, UpdatePeers
  <2>2. UNCHANGED <<timedOut, votes, silent, orderly>>
    BY <1>8 DEF UpdateDisconnectStatus, menu, known
  <2>3. orderly => \A a \in Player : Player \ conn'[a] \subseteq silent
    BY <1>3, <2>1 DEF PeersGo
  <2> QED
    BY <1>1, <1>2, <1>3, <2>2, <2>3
<1>9. ASSUME NEW p \in Player, QuitGame(p)
      PROVE  SilentInv'
  <2>1. orderly' = FALSE /\ UNCHANGED <<timedOut, silent>>
    BY <1>9 DEF QuitGame, menu
  <2> QED
    BY <1>1, <1>2, <2>1
<1>10. ASSUME NEW p \in Player, Die(p) \/ \E q \in Player : Lose(p, q)
       PROVE  SilentInv'
  <2>1. UNCHANGED <<timedOut, conn, votes, silent, orderly>>
    BY <1>10 DEF Die, Lose, menu, known, peers, history
  <2> QED
    BY <1>1, <1>2, <1>3, <2>1
<1>11. ASSUME NEW q \in Player, MinutePasses(q)
       PROVE  SilentInv'
  <2>1. ~Alive(q) /\ silent' = silent \cup {q} /\ UNCHANGED <<timedOut, conn, votes, orderly>>
    BY <1>11 DEF MinutePasses, menu, known, peers
  <2> QED
    BY <1>1, <1>2, <1>3, <2>1
<1>12. ASSUME NEW p \in Player, NEW q \in Player, TimeOut(p, q)
       PROVE  SilentInv'
  <2>1. /\ q \in silent /\ timedOut' = [timedOut EXCEPT ![p] = @ \cup {q}]
        /\ UNCHANGED <<conn, votes, silent, orderly>>
    BY <1>12 DEF TimeOut, known, peers, history
  <2>2. \A a \in Player : timedOut'[a] \subseteq silent'
    BY <1>2, <2>1 DEF TypeOK
  <2> QED
    BY <1>1, <1>3, <2>1, <2>2
<1>13. ASSUME NEW p \in Player, NEW s \in Player, VoteForPlayerDisconnect(p, s)
       PROVE  SilentInv'
  <2>1. /\ votes' = [votes EXCEPT ![p] = VoteApplied(@, s, p, frame[p])]
        /\ (orderly' => orderly /\ s \in silent) /\ UNCHANGED <<timedOut, conn, silent>>
    BY <1>13 DEF VoteForPlayerDisconnect, menu, peers
  <2>2. \A a \in Player : \A v \in votes'[a] : v \in votes[a] \/ v.slot = s
    BY <2>1 DEF TypeOK, VoteApplied
  <2> QED
    BY <1>1, <1>2, <1>3, <2>1, <2>2
<1>14. ASSUME NEW p \in Player, NEW q \in Player, NEW k \in DOMAIN link[q][p], NEW again,
              Arrives(p, q, k, again)
       PROVE  SilentInv'
  <2> DEFINE m == link[q][p][k]
             net == Without(q, p, k, again)
  <2>1. Receive(p, q, k, again) /\ orderly' = orderly
    BY <1>14 DEF Arrives
  <2>2. m \in Legit(q) /\ Got(p, q, m, net) /\ UNCHANGED <<timedOut, silent>>
    BY <2>1, ReceiveIs DEF menu
  <2> HIDE DEF m, net
  <2>3. orderly => \A a \in Player : Player \ conn'[a] \subseteq silent
    <3>1. orderly => Dropped(p, m) \subseteq silent
      BY <2>2 DEF Dropped, Legit
    <3> QED
      BY <1>3, <2>2, <3>1 DEF Got, PeersGo
  <2>4. ASSUME orderly, NEW a \in Player, NEW v \in votes'[a]
        PROVE  v.slot \in silent
    <3>1. CASE v \in votes[a]
      BY <1>3, <2>4, <3>1
    <3>2. CASE v \notin votes[a]
      <4>1. LearntVote(p, q, m)
        <5>1. ASSUME NEW f, votes' = [votes EXCEPT ![p] = VotesReset(@, q, f)]
              PROVE  v \in votes[a]
          BY <2>4, <5>1 DEF TypeOK, VotesReset
        <5> QED
          BY <2>2, <2>4, <3>2, <5>1 DEF Got, Learnt, LearntFrame, LearntScreenOff, known
      <4>2. a = p /\ v.slot = m.slot
        BY <3>2, <4>1 DEF LearntVote, TypeOK, VoteApplied
      <4> QED
        BY <2>2, <2>4, <4>1, <4>2 DEF LearntVote, Legit
    <3> QED
      BY <3>1, <3>2
  <2> QED
    BY <1>1, <1>2, <2>1, <2>2, <2>3, <2>4
<1>15. CASE UNCHANGED vars
  BY <1>15 DEF vars, local, menu, known, peers, history, SilentInv, Alive
<1> QED
  BY <1>4, <1>5, <1>6, <1>7, <1>8, <1>9, <1>10, <1>11, <1>12, <1>13, <1>14, <1>15, SomethingArrives
     DEF Next

LEMMA Inv0Init == Init => Inv0
<1> SUFFICES ASSUME Init PROVE Inv0
  OBVIOUS
<1>1. KnownInv
  BY Constants DEF Init, KnownInv
<1>2. SilentInv
  BY DEF Init, SilentInv
<1> QED
  BY <1>1, <1>2, TypeInit, LinkInit DEF Inv0

LEMMA Inv0Step == Inv0 /\ [Next]_vars => Inv0'
<1> SUFFICES ASSUME Inv0, [Next]_vars PROVE Inv0'
  OBVIOUS
<1> QED
  BY TypeStep, LinkStep, KnownStep, SilentStep DEF Inv0

LEMMA Inv0Always == Spec => []Inv0
BY Inv0Init, Inv0Step, PTL DEF Spec

(* The types of all variables, in every state: what arrives, what is known *)
(* of the others, who is connected to whom and what has been announced.    *)
THEOREM TypeCorrect == Spec => []TypeOK
<1>1. Inv0 => TypeOK
  BY DEF Inv0
<1> QED
  BY <1>1, Inv0Always, PTL

----------------------------------------------------------------------------
(* Whoever is gone is destroyed.                                           *)
LEMMA DestroyedStep ==
  ASSUME Inv0, GoneAreDestroyed, [Next]_vars
  PROVE  GoneAreDestroyed'
<1> USE DEF Inv0
<1>1. ASSUME NEW p \in Player, NEW D, PeersGo(p, D),
             Alive(p)' => \A s \in Player \cap (conn[p] \ conn'[p]) : \E q \in Player : \E d \in destruct'[q] : d[2] = s
      PROVE  GoneAreDestroyed'
  <2> SUFFICES ASSUME NEW a \in Player, Alive(a)', NEW s \in Player \ conn'[a]
               PROVE  \E q \in Player : \E d \in destruct'[q] : d[2] = s
    BY DEF GoneAreDestroyed
  <2>1. CASE s \in conn[a]
    BY <1>1, <2>1 DEF PeersGo
  <2>2. CASE s \notin conn[a]
    <3>1. Alive(a)
      BY StatusStep
    <3>2. PICK q \in Player : \E d \in destruct[q] : d[2] = s
      BY <2>2, <3>1 DEF GoneAreDestroyed
    <3> QED
      BY <1>1, <3>2 DEF PeersGo
  <2> QED
    BY <2>1, <2>2
<1>2. ASSUME UNCHANGED peers
      PROVE  GoneAreDestroyed'
  BY <1>2, StatusStep DEF GoneAreDestroyed, peers
<1>3. ASSUME NEW p \in Player, ExecuteFrame(p)
      PROVE  GoneAreDestroyed'
  BY <1>1, <1>3, ExecutePeers DEF PeersGo
<1>4. ASSUME NEW p \in Player, UpdateDisconnectStatus(p)
      PROVE  GoneAreDestroyed'
  <2>1. PeersGo(p, conn[p] \ conn'[p]) /\ \A s \in conn[p] \ conn'[p] : \E d \in destruct'[p] : d[2] = s
    BY <1>4, UpdatePeers
  <2> QED
    BY <1>1, <2>1
<1>5. ASSUME NEW p \in Player, QuitGame(p)
      PROVE  GoneAreDestroyed'
  <2>1. ~Alive(p)'
    BY <1>5 DEF QuitGame, Alive, TypeOK
  <2> QED
    BY <1>1, <1>5, <2>1, QuitPeers
<1>6. ASSUME NEW p \in Player, NEW q \in Player, NEW k \in DOMAIN link[q][p], NEW again,
             Arrives(p, q, k, again)
      PROVE  GoneAreDestroyed'
  <2> DEFINE m == link[q][p][k]
             net == Without(q, p, k, again)
  <2>1. Receive(p, q, k, again)
    BY <1>6 DEF Arrives
  <2>2. m \in Legit(q) /\ Got(p, q, m, net)
    BY <2>1, ReceiveIs
  <2> HIDE DEF m, net
  <2>3. PeersGo(p, Dropped(p, m))
    BY <2>2 DEF Got
  <2>4. ASSUME NEW s \in conn[p] \ conn'[p]
        PROVE  \E a \in Player : \E d \in destruct'[a] : d[2] = s
    <3>1. m.type = "DISCONNECTPLAYER" /\ s = m.slot
      BY <2>3 DEF PeersGo, Dropped
    <3>2. CASE m.slot = q
      BY <2>2, <2>4, <3>1, <3>2 DEF Got
    <3>3. CASE m.slot # q
      <4>1. \E d \in destruct[q] : d[2] = s
        BY <2>2, <3>1, <3>3 DEF Legit
      <4> QED
        BY <2>3, <4>1 DEF PeersGo
    <3> QED
      BY <3>2, <3>3
  <2> QED
    BY <1>1, <2>3, <2>4
<1>7. ASSUME NEW p \in Player,
             \/ AllCommandsReady(p) \/ TurnOnScreen(p) \/ NotifyOthersOfCurrentFrame(p) \/ Die(p)
             \/ MinutePasses(p)
             \/ \E q \in Player : TimeOut(p, q) \/ VoteForPlayerDisconnect(p, q) \/ Lose(p, q)
      PROVE  GoneAreDestroyed'
  <2>1. UNCHANGED peers
    BY <1>7 DEF AllCommandsReady, TurnOnScreen, NotifyOthersOfCurrentFrame, Die, MinutePasses,
                TimeOut, VoteForPlayerDisconnect, Lose
  <2> QED
    BY <1>2, <2>1
<1>8. CASE UNCHANGED vars
  BY <1>2, <1>8 DEF vars
<1> QED
  BY <1>3, <1>4, <1>5, <1>6, <1>7, <1>8, SomethingArrives DEF Next

(* Whoever is gone for a player who lives, by vote, time-out or its own    *)
(* leaving, is destroyed by a command of somebody.                         *)
THEOREM AllGoneAreDestroyed == Spec => []GoneAreDestroyed
<1>1. Init => GoneAreDestroyed
  BY DEF Init, GoneAreDestroyed
<1>2. Inv0 /\ GoneAreDestroyed /\ [Next]_vars => GoneAreDestroyed'
  BY DestroyedStep
<1> QED
  BY <1>1, <1>2, Inv0Always, PTL DEF Spec

----------------------------------------------------------------------------
(* Who disconnects.                                                        *)

(* A living player is in the game of every other one, if nobody is given   *)
(* up who has not fallen silent.                                           *)
LEMMA LivingInGame ==
  ASSUME TypeOK, SilentInv, orderly, NEW p \in Player, NEW q \in Player, Alive(q)
  PROVE  q \in InGame(p)
<1>1. q \notin silent
  BY DEF SilentInv
<1>2. q \in conn[p]
  BY <1>1 DEF SilentInv
<1>3. q \notin Out(p, conn[p])
  BY <1>1, TypeFacts, OutIsSilent
<1> QED
  BY <1>2, <1>3 DEF InGame

LEMMA IssuedStep ==
  ASSUME Inv0, IssuedInv, [Next]_vars
  PROVE  IssuedInv'
<1> USE DEF Inv0
<1>1. ASSUME issued' = issued, silent \subseteq silent', orderly' => orderly,
             \A a \in Player : conn'[a] \subseteq conn[a]
      PROVE  IssuedInv'
  <2>1. \A i \in issued : i[1] \in Player
    BY DEF TypeOK
  <2>2. \A i \in issued' : i[2] \notin conn'[i[1]]
    BY <1>1, <2>1 DEF IssuedInv
  <2>3. \A q \in Player : Alive(q)' => Alive(q)
    BY StatusStep
  <2>4. orderly' => \A i \in issued' : i[2] \in silent' /\ (Alive(i[1])' => \A q \in Player : Alive(q)' => i[1] <= q)
    BY <1>1, <2>1, <2>3 DEF IssuedInv
  <2> QED
    BY <2>2, <2>4 DEF IssuedInv
<1>2. ASSUME NEW p \in Player, NEW D, PeersGo(p, D)
      PROVE  \A a \in Player : conn'[a] \subseteq conn[a]
  BY <1>2 DEF PeersGo
<1>3. ASSUME NEW p \in Player, UpdateDisconnectStatus(p)
      PROVE  IssuedInv'
  <2> DEFINE lost == conn[p] \ conn'[p]
  <2>1. PeersGo(p, lost) /\ (orderly => lost \subseteq silent) /\ issued' = issued \cup ({p} \X lost)
    BY <1>3, UpdatePeers
  <2>2. UNCHANGED <<status, silent, orderly>> /\ IsLocalPlayerNextPacketRouter(p)
    BY <1>3 DEF UpdateDisconnectStatus, local
  <2>3. \A i \in issued' : i \in issued \/ (i[1] = p /\ i[2] \in lost)
    <3> HIDE DEF lost
    <3>1. \A i \in {p} \X lost : i[1] = p /\ i[2] \in lost
      OBVIOUS
    <3> QED
      BY <2>1, <3>1
  <2>4. \A a \in Player : conn'[a] \subseteq conn[a]
    BY <1>2, <2>1
  <2>5. \A i \in issued : i[1] \in Player
    BY DEF TypeOK
  <2>6. \A i \in issued' : i[2] \notin conn'[i[1]]
    BY <2>3, <2>4, <2>5 DEF IssuedInv
  <2>7. ASSUME orderly, NEW q \in Player, Alive(q)
        PROVE  p <= q
    <3>1. q \in InGame(p) /\ InGame(p) \in SUBSET Player
      BY <2>7, LivingInGame, TypeFacts DEF InGame
    <3>2. Lowest(InGame(p)) <= q
      BY <3>1, LowestIs
    <3> QED
      BY <2>2, <3>2 DEF IsLocalPlayerNextPacketRouter, Router
  <2> HIDE DEF lost
  <2>8. \A q : Alive(q)' <=> Alive(q)
    BY <2>2 DEF Alive
  <2>9. orderly' => \A i \in issued' : i[2] \in silent' /\ (Alive(i[1])' => \A q \in Player : Alive(q)' => i[1] <= q)
    BY <2>1, <2>2, <2>3, <2>7, <2>8 DEF IssuedInv
  <2> QED
    BY <2>6, <2>9 DEF IssuedInv
<1>4. ASSUME NEW p \in Player, ExecuteFrame(p)
      PROVE  IssuedInv'
  BY <1>1, <1>4 DEF ExecuteFrame, history
<1>5. ASSUME NEW p \in Player, QuitGame(p)
      PROVE  IssuedInv'
  <2>1. issued' = issued /\ silent' = silent /\ orderly' = FALSE
    BY <1>5 DEF QuitGame
  <2> QED
    BY <1>1, <1>2, <1>5, <2>1, QuitPeers
<1>6. ASSUME NEW p \in Player, NEW q \in Player, NEW k \in DOMAIN link[q][p], NEW again,
             Arrives(p, q, k, again)
      PROVE  IssuedInv'
  <2>1. Receive(p, q, k, again) /\ orderly' = orderly
    BY <1>6 DEF Arrives
  <2>2. /\ PeersGo(p, Dropped(p, link[q][p][k])) /\ UNCHANGED <<silent, issued>>
    BY <2>1, ReceiveIs DEF Got
  <2> QED
    BY <1>1, <1>2, <2>1, <2>2
<1>7. ASSUME NEW p \in Player,
             \/ AllCommandsReady(p) \/ TurnOnScreen(p) \/ NotifyOthersOfCurrentFrame(p) \/ Die(p)
             \/ MinutePasses(p)
             \/ \E q \in Player : TimeOut(p, q) \/ VoteForPlayerDisconnect(p, q) \/ Lose(p, q)
      PROVE  IssuedInv'
  <2>1. conn' = conn /\ issued' = issued /\ silent \subseteq silent' /\ (orderly' => orderly)
    <3>1. \A q \in Player : VoteForPlayerDisconnect(p, q) =>
            conn' = conn /\ issued' = issued /\ silent = silent' /\ (orderly' => orderly)
      BY DEF VoteForPlayerDisconnect, peers
    <3>2. MinutePasses(p) =>
            conn' = conn /\ issued' = issued /\ silent \subseteq silent' /\ orderly' = orderly
      BY DEF MinutePasses, peers
    <3>3. Die(p) \/ TurnOnScreen(p) => conn' = conn /\ issued' = issued /\ silent = silent' /\ orderly' = orderly
      BY DEF Die, TurnOnScreen, peers
    <3>4. AllCommandsReady(p) \/ NotifyOthersOfCurrentFrame(p) \/ (\E q \in Player : TimeOut(p, q) \/ Lose(p, q)) =>
            conn' = conn /\ issued' = issued /\ silent = silent' /\ orderly' = orderly
      BY DEF AllCommandsReady, NotifyOthersOfCurrentFrame, TimeOut, Lose, peers, history
    <3> QED
      BY <1>7, <3>1, <3>2, <3>3, <3>4
  <2> QED
    BY <1>1, <2>1
<1>8. CASE UNCHANGED vars
  BY <1>1, <1>8 DEF vars, peers, history
<1> QED
  BY <1>3, <1>4, <1>5, <1>6, <1>7, <1>8, SomethingArrives DEF Next

LEMMA IssuedAlways == Spec => []IssuedInv
<1>1. Init => IssuedInv
  BY DEF Init, IssuedInv
<1>2. Inv0 /\ IssuedInv /\ [Next]_vars => IssuedInv'
  BY IssuedStep
<1> QED
  BY <1>1, <1>2, Inv0Always, PTL DEF Spec

(* No two living players each disconnect and destroy the same player: who- *)
(* ever does it is the lowest of those alive, and remains so.              *)
THEOREM OnlyOneIssues == Spec => []OneIssuer
<1>1. TypeOK /\ IssuedInv => OneIssuer
  <2> SUFFICES ASSUME TypeOK, IssuedInv, orderly, NEW i \in issued, NEW j \in issued,
                      Alive(i[1]), Alive(j[1]), i[2] = j[2]
               PROVE  i = j
    BY DEF OneIssuer
  <2>1. i \in Player \X Player /\ j \in Player \X Player
    BY DEF TypeOK
  <2>2. i[1] <= j[1] /\ j[1] <= i[1] /\ i[1] \in Nat /\ j[1] \in Nat
    BY <2>1, Constants DEF IssuedInv
  <2> QED
    BY <2>1, <2>2
<1> QED
  BY <1>1, TypeCorrect, IssuedAlways, PTL
----------------------------------------------------------------------------
(* What a player tells of its own frame.                                   *)
LEMMA HeardBound ==
  ASSUME TypeOK, NEW p \in Player, NEW q \in Player
  PROVE  Heard(p, q) \in Nat /\ Bound(q) \in Nat /\ frames[p][q] \in Nat /\ frame[q] \in Nat
<1>1. frames[p][q] \in Nat /\ frame[q] \in Nat
  BY TypeFacts
<1> QED
  BY <1>1 DEF Heard, Bound

LEMMA ReadyKept ==
  ASSUME TypeOK, NEW p \in Player, NEW D, PeersGo(p, D), frame' = frame, NEW a \in Player, Ready(a)
  PROVE  Ready(a)'
<1>1. conn'[a] \subseteq conn[a]
  BY DEF PeersGo
<1>2. \A q \in conn'[a] : <<q, frame[a]>> \in data'[a]
  <2> SUFFICES ASSUME NEW q \in conn'[a] PROVE <<q, frame[a]>> \in data'[a]
    OBVIOUS
  <2>1. <<q, frame[a]>> \in data[a]
    BY <1>1 DEF Ready
  <2>2. CASE a # p
    BY <2>1, <2>2 DEF PeersGo
  <2>3. CASE a = p
    <3>1. <<q, frame[a]>>[1] = q
      OBVIOUS
    <3> QED
      BY <2>1, <2>3, <3>1 DEF PeersGo
  <2> QED
    BY <2>2, <2>3
<1> QED
  BY <1>2 DEF Ready

(* Whoever is stuck is not leaving its frame.                              *)
LEMMA StuckStays ==
  ASSUME TypeOK, OwnInv, NEW p \in Player, Stuck(p)
  PROVE  ~Leaving(p) /\ Bound(p) = frame[p] /\ Heard(p, p) <= frame[p]
<1>1. ~Leaving(p) /\ frames[p][p] <= frame[p]
  BY DEF OwnInv, Stuck
<1> QED
  BY <1>1, HeardBound DEF Bound, Heard, Leaving

LEMMA OwnKept ==
  ASSUME TypeOK, OwnInv, NEW p \in Player, NEW D, PeersGo(p, D), frame' = frame,
         \A a \in Player : frames'[a][a] = frames[a][a] /\ (a \in received'[a] <=> a \in received[a])
  PROVE  OwnInv'
BY ReadyKept DEF OwnInv, Leaving

(* What p learns of q says nothing about others.                           *)
LEMMA OneEntry ==
  ASSUME TypeOK, NEW p \in Player, NEW q \in Player, NEW f, frames' = [frames EXCEPT ![p][q] = f],
         received' = [received EXCEPT ![p] = @ \cup {q}] \/ received' = [received EXCEPT ![p] = @ \ {q}],
         NEW a \in Player, NEW b \in Player, a # p \/ b # q
  PROVE  frames'[a][b] = frames[a][b] /\ (b \in received'[a] <=> b \in received[a])
<1>1. frames'[a][b] = frames[a][b]
  BY DEF TypeOK
<1>2. b \in received'[a] <=> b \in received[a]
  <2>1. CASE a # p
    BY <2>1 DEF TypeOK
  <2>2. CASE a = p
    <3>1. received'[p] = received[p] \cup {q} \/ received'[p] = received[p] \ {q}
      BY DEF TypeOK
    <3> QED
      BY <2>2, <3>1
  <2> QED
    BY <2>1, <2>2
<1> QED
  BY <1>1, <1>2

LEMMA LearntOthers ==
  ASSUME TypeOK, NEW p \in Player, NEW q \in Player, NEW m, Learnt(p, q, m), NEW a \in Player, NEW b \in Player,
         a # p \/ b # q
  PROVE  frames'[a][b] = frames[a][b] /\ (b \in received'[a] <=> b \in received[a])
<1>1. CASE UNCHANGED known \/ LearntVote(p, q, m)
  BY <1>1 DEF known, LearntVote
<1>2. CASE LearntFrame(p, q, m) \/ LearntScreenOff(p, q, m)
  BY <1>2, OneEntry DEF LearntFrame, LearntScreenOff
<1> QED
  BY <1>1, <1>2 DEF Learnt

LEMMA OwnStep ==
  ASSUME Inv0, TypeOK', OwnInv, [Next]_vars
  PROVE  OwnInv'
<1> USE DEF Inv0
<1>1. ASSUME NEW p \in Player, ExecuteFrame(p)
      PROVE  OwnInv'
  <2>1. frame' = [frame EXCEPT ![p] = @ + 1] /\ UNCHANGED <<frames, received>> /\ PeersGo(p, {})
    BY <1>1, ExecutePeers DEF ExecuteFrame, known
  <2>2. frame'[p] = frame[p] + 1 /\ frame[p] \in Nat /\ frames[p][p] \in Nat
    <3>1. frame'[p] = frame[p] + 1
      BY <2>1 DEF TypeOK
    <3> QED
      BY <3>1, TypeFacts
  <2>3. \A a \in Player : a # p => frame'[a] = frame[a] /\ conn'[a] = conn[a] /\ data'[a] = data[a]
    BY <2>1 DEF PeersGo, TypeOK
  <2>4. frames'[p][p] < frame'[p]
    BY <2>1, <2>2 DEF OwnInv
  <2>5. ASSUME NEW a \in Player
        PROVE  frames'[a][a] <= frame'[a] /\ (Leaving(a)' => Ready(a)')
    <3>1. CASE a = p
      BY <2>1, <2>2, <2>4, <3>1 DEF Leaving
    <3>2. CASE a # p
      BY <2>1, <2>3, <3>2 DEF Leaving, OwnInv, Ready
    <3> QED
      BY <3>1, <3>2
  <2> QED
    BY <2>5 DEF OwnInv
<1>2. ASSUME NEW p \in Player, AllCommandsReady(p)
      PROVE  OwnInv'
  <2>1. /\ frames' = [frames EXCEPT ![p][p] = frame[p]] /\ received' = [received EXCEPT ![p] = @ \ {p}]
        /\ UNCHANGED <<frame, conn, data>> /\ Ready(p)
    BY <1>2 DEF AllCommandsReady, local, peers
  <2>2. \A a \in Player : Ready(a)' <=> Ready(a)
    BY <2>1 DEF Ready
  <2>3. ASSUME NEW a \in Player
        PROVE  frames'[a][a] <= frame'[a] /\ (Leaving(a)' => Ready(a)')
    <3>1. CASE a = p
      BY <2>1, <2>2, <3>1, TypeFacts DEF TypeOK
    <3>2. CASE a # p
      <4>1. frames'[a][a] = frames[a][a] /\ received'[a] = received[a]
        BY <2>1, <3>2 DEF TypeOK
      <4> QED
        BY <2>1, <2>2, <4>1 DEF OwnInv, Leaving
    <3> QED
      BY <3>1, <3>2
  <2> QED
    BY <2>3 DEF OwnInv
<1>3. ASSUME NEW p \in Player, NotifyOthersOfCurrentFrame(p)
      PROVE  OwnInv'
  <2>1. UNCHANGED <<frame, peers>> /\ PeersGo(p, {})
    BY <1>3, SamePeers DEF NotifyOthersOfCurrentFrame, local
  <2>2. CASE UNCHANGED known
    BY <2>1, <2>2, OwnKept DEF known
  <2>3. CASE /\ frames' = [frames EXCEPT ![p][p] = frame[p]]
             /\ received' = [received EXCEPT ![p] = @ \cup {p}]
    <3>1. ASSUME NEW a \in Player
          PROVE  frames'[a][a] <= frame'[a] /\ (Leaving(a)' => Ready(a)')
      <4>1. CASE a = p
        <5>1. p \in received'[p] /\ frames'[p][p] = frame[p] /\ frame[p] \in Nat
          BY <2>3, TypeFacts DEF TypeOK
        <5> QED
          BY <2>1, <4>1, <5>1 DEF Leaving
      <4>2. CASE a # p
        <5>1. frames'[a][a] = frames[a][a] /\ received'[a] = received[a]
          BY <2>3, <4>2 DEF TypeOK
        <5> QED
          BY <2>1, <5>1 DEF OwnInv, Leaving, Ready, peers
      <4> QED
        BY <4>1, <4>2
    <3> QED
      BY <3>1 DEF OwnInv
  <2> QED
    BY <1>3, <2>2, <2>3 DEF NotifyOthersOfCurrentFrame
<1>4. ASSUME NEW p \in Player, NEW q \in Player, NEW k \in DOMAIN link[q][p], NEW again,
             Arrives(p, q, k, again)
      PROVE  OwnInv'
  <2> DEFINE m == link[q][p][k]
             net == Without(q, p, k, again)
  <2>1. Receive(p, q, k, again)
    BY <1>4 DEF Arrives
  <2>2. Taken(net, p, q, k, again) /\ Got(p, q, m, net) /\ frame' = frame
    BY <2>1, ReceiveIs DEF local
  <2> HIDE DEF m, net
  <2>3. PeersGo(p, Dropped(p, m)) /\ Learnt(p, q, m) /\ q # p
    BY <2>2 DEF Got, Taken
  <2>4. \A a \in Player : frames'[a][a] = frames[a][a] /\ (a \in received'[a] <=> a \in received[a])
    BY <2>3, LearntOthers
  <2> QED
    BY <2>2, <2>3, <2>4, OwnKept
<1>5. ASSUME NEW p \in Player, UpdateDisconnectStatus(p)
      PROVE  OwnInv'
  <2>1. PeersGo(p, conn[p] \ conn'[p]) /\ UNCHANGED <<frame, frames, received>>
    BY <1>5, UpdatePeers DEF UpdateDisconnectStatus, local, known
  <2> QED
    BY <2>1, OwnKept
<1>6. ASSUME NEW p \in Player, QuitGame(p)
      PROVE  OwnInv'
  <2>1. PeersGo(p, Player) /\ UNCHANGED <<frame, frames, received>>
    BY <1>6, QuitPeers DEF QuitGame, known
  <2> QED
    BY <2>1, OwnKept
<1>7. ASSUME UNCHANGED <<frame, frames, received, peers>>
      PROVE  OwnInv'
  BY <1>7 DEF OwnInv, Leaving, Ready, peers
<1>8. ASSUME NEW p \in Player,
             \/ TurnOnScreen(p) \/ Die(p) \/ MinutePasses(p)
             \/ \E q \in Player : TimeOut(p, q) \/ VoteForPlayerDisconnect(p, q) \/ Lose(p, q)
      PROVE  OwnInv'
  <2>1. UNCHANGED <<frame, frames, received, peers>>
    BY <1>8 DEF TurnOnScreen, Die, MinutePasses, TimeOut, VoteForPlayerDisconnect, Lose, local, known, peers
  <2> QED
    BY <1>7, <2>1
<1>9. CASE UNCHANGED vars
  BY <1>7, <1>9 DEF vars, local, known
<1> QED
  BY <1>1, <1>2, <1>3, <1>4, <1>5, <1>6, <1>8, <1>9, SomethingArrives DEF Next

----------------------------------------------------------------------------
(* News come in order.                                                     *)
LEMMA KeyIs ==
  ASSUME NEW m \in Message
  PROVE  Key(m) \in Nat
BY MessageHas DEF Key

LEMMA SortedHas ==
  ASSUME NEW lo, NEW hi, NEW s \in Sorted(lo, hi)
  PROVE  /\ s \in Seq(Message) /\ Len(s) \in Nat
         /\ \A i \in 1 .. Len(s) : s[i] \in News => lo <= Key(s[i]) /\ Key(s[i]) <= hi
         /\ \A i, j \in 1 .. Len(s) : i < j /\ s[i] \in News /\ s[j] \in News => Key(s[i]) <= Key(s[j])
BY LenProperties DEF Sorted

LEMMA SortedEmpty ==
  ASSUME NEW lo, NEW hi
  PROVE  <<>> \in Sorted(lo, hi)
BY EmptySeq DEF Sorted

LEMMA SortedGrown ==
  ASSUME NEW lo \in Int, NEW hi \in Int, NEW k \in Int, lo <= k, hi <= k,
         NEW s \in Sorted(lo, hi), NEW t, NEW New, Grown(s, t, New),
         \A m \in New : m \in News => Key(m) = k
  PROVE  t \in Sorted(lo, k)
<1>1. t \in Seq(Message) /\ Len(t) \in Nat /\ Len(s) \in Nat /\ Len(s) <= Len(t)
  BY SortedHas, LenProperties DEF Grown
<1>2. \A i \in 1 .. Len(t) : t[i] \in Message /\ Key(t[i]) \in Nat
  BY <1>1, ElementOfSeq, KeyIs
<1>3. ASSUME NEW i \in 1 .. Len(t), t[i] \in News
      PROVE  /\ lo <= Key(t[i]) /\ Key(t[i]) <= k
             /\ i <= Len(s) => i \in 1 .. Len(s) /\ t[i] = s[i]
             /\ ~(i <= Len(s)) => Key(t[i]) = k
  <2>1. CASE i <= Len(s)
    <3>1. i \in 1 .. Len(s) /\ t[i] = s[i]
      BY <1>1, <2>1 DEF Grown
    <3>2. lo <= Key(s[i]) /\ Key(s[i]) <= hi
      BY <1>3, <3>1, SortedHas
    <3> QED
      BY <1>2, <2>1, <3>1, <3>2
  <2>2. CASE ~(i <= Len(s))
    <3>1. t[i] \in New
      BY <1>1, <2>2 DEF Grown
    <3> QED
      BY <1>3, <2>2, <3>1
  <2> QED
    BY <2>1, <2>2
<1>4. ASSUME NEW i \in 1 .. Len(t), NEW j \in 1 .. Len(t), i < j, t[i] \in News, t[j] \in News
      PROVE  Key(t[i]) <= Key(t[j])
  <2>1. CASE j <= Len(s)
    <3>1. i \in 1 .. Len(s) /\ j \in 1 .. Len(s) /\ t[i] = s[i] /\ t[j] = s[j]
      BY <1>1, <1>3, <1>4, <2>1
    <3> QED
      BY <1>4, <3>1, SortedHas
  <2>2. CASE ~(j <= Len(s))
    BY <1>3, <1>4, <2>2
  <2> QED
    BY <2>1, <2>2
<1> QED
  BY <1>1, <1>3, <1>4 DEF Sorted

(* Nothing but the first message is taken out.                             *)
LEMMA SortedTail ==
  ASSUME NEW lo \in Int, NEW hi \in Int, NEW s \in Sorted(lo, hi), s # <<>>,
         NEW low \in Int, low = lo \/ (s[1] \in News /\ low = Key(s[1]))
  PROVE  RemoveAt(s, 1) \in Sorted(low, hi)
<1>1. s \in Seq(Message) /\ Len(s) \in Nat /\ Len(s) >= 1 /\ 1 \in 1 .. Len(s)
  BY SortedHas, EmptySeq, LenProperties
<1> DEFINE t == RemoveAt(s, 1)
<1>2. t \in Seq(Message) /\ Len(t) = Len(s) - 1 /\ \A i \in 1 .. Len(s) - 1 : t[i] = s[i + 1]
  BY <1>1, Removed
<1> HIDE DEF t
<1>3. \A i \in 1 .. Len(t) : i + 1 \in 1 .. Len(s) /\ t[i] = s[i + 1] /\ 1 < i + 1
  BY <1>1, <1>2
<1>4. ASSUME NEW i \in 1 .. Len(t), t[i] \in News
      PROVE  low <= Key(t[i]) /\ Key(t[i]) <= hi
  <2>1. lo <= Key(s[i + 1]) /\ Key(s[i + 1]) <= hi
    BY <1>3, <1>4, SortedHas
  <2>2. s[1] \in News => Key(s[1]) <= Key(s[i + 1])
    BY <1>1, <1>3, <1>4, SortedHas
  <2> QED
    BY <1>3, <2>1, <2>2
<1>5. ASSUME NEW i \in 1 .. Len(t), NEW j \in 1 .. Len(t), i < j, t[i] \in News, t[j] \in News
      PROVE  Key(t[i]) <= Key(t[j])
  <2>1. i + 1 < j + 1
    BY <1>5
  <2> QED
    BY <1>3, <1>5, <2>1, SortedHas
<1> QED
  BY <1>2, <1>4, <1>5 DEF Sorted, t

(* What is sent in a step is the latest news.                              *)
LEMMA SortedNet ==
  ASSUME NEW net \in Nets, NEW p \in Player, NEW New, FromNet(net, p, New),
         NEW a \in Player, NEW b \in Player, NEW lo \in Int, NEW hi \in Int, NEW k \in Int,
         net[a][b] \in Sorted(lo, hi), lo <= hi, hi <= k,
         a = p => \A m \in New : m \in News => Key(m) = k
  PROVE  link'[a][b] \in Sorted(lo, k)
<1>1. net[a][b] \in Seq(Message)
  BY DEF Nets
<1>2. CASE link'[a][b] = <<>>
  BY <1>2, SortedEmpty
<1>3. CASE link'[a][b] = net[a][b]
  <2>1. Grown(net[a][b], link'[a][b], {})
    BY <1>1, <1>3, GrownSame
  <2> QED
    BY <2>1, SortedGrown
<1>4. CASE a = p /\ Grown(net[a][b], link'[a][b], New)
  BY <1>4, SortedGrown
<1>5. CASE a = p /\ Grown(<<>>, link'[a][b], New)
  <2>1. <<>> \in Sorted(lo, hi)
    BY SortedEmpty
  <2> QED
    BY <1>5, <2>1, SortedGrown
<1> QED
  BY <1>2, <1>3, <1>4, <1>5 DEF FromNet
----------------------------------------------------------------------------
LEMMA BoundNext ==
  ASSUME TypeOK', NEW q \in Player
  PROVE  Bound(q)' \in Nat
<1>1. frame'[q] \in Nat
  BY Frames DEF TypeOK
<1> QED
  BY <1>1 DEF Bound

(* A step in which p tells of its frame, or says nothing.                  *)
LEMMA NewsKept ==
  ASSUME TypeOK, TypeOK', LinkInv, NewsInv, NEW p \in Player, NEW New, FromNet(link, p, New), inOrder' => inOrder,
         \A a, b \in Player : a # b => Heard(a, b)' = Heard(a, b),
         \A a \in Player : Bound(a) <= Bound(a)' /\ (a # p => Bound(a)' = Bound(a)),
         \A m \in New : m \in News => Key(m) = Bound(p)'
  PROVE  NewsInv'
<1> SUFFICES ASSUME inOrder', NEW a \in Player, NEW b \in Player, a # b PROVE Fresh(a, b)'
  BY DEF NewsInv
<1>1. Fresh(a, b)
  BY DEF NewsInv
<1>2. Heard(a, b) \in Int /\ Bound(b) \in Int /\ Bound(b)' \in Int
  BY HeardBound, BoundNext
<1>3. Heard(a, b)' = Heard(a, b) /\ Bound(b) <= Bound(b)'
  OBVIOUS
<1>4. b = p => \A m \in New : m \in News => Key(m) = Bound(b)'
  OBVIOUS
<1>5. link \in Nets
  BY TypeLinks
<1>6. link'[b][a] \in Sorted(Heard(a, b), Bound(b)')
  BY <1>1, <1>2, <1>3, <1>4, <1>5, SortedNet DEF Fresh
<1> QED
  BY <1>1, <1>2, <1>3, <1>6 DEF Fresh

LEMMA SameBound ==
  ASSUME UNCHANGED <<frame, frames, received>>, TypeOK
  PROVE  /\ \A a, b \in Player : Heard(a, b)' = Heard(a, b)
         /\ \A a \in Player : Bound(a) <= Bound(a)' /\ Bound(a)' = Bound(a)
BY HeardBound DEF Heard, Bound, Leaving

LEMMA NoNews == \A p, D : \A m \in PassMsg(p, D) : m \notin News
BY DEF PassMsg, DataMsg, News

LEMMA DataNoNews == \A m \in DataMsg : m \notin News
BY DEF DataMsg, News

(* p learns from q what it says.                                           *)
LEMMA HeardFrom ==
  ASSUME TypeOK, TypeOK', NEW p \in Player, NEW q \in Player, NEW m \in Message, Learnt(p, q, m)
  PROVE  Heard(p, q)' = Heard(p, q) \/ (m \in News /\ Heard(p, q)' = Key(m))
<1>1. CASE UNCHANGED known \/ LearntVote(p, q, m)
  BY <1>1 DEF known, LearntVote, Heard
<1>2. CASE LearntFrame(p, q, m)
  <2>1. q \in received'[p] /\ frames'[p][q] = m.frame
    BY <1>2 DEF LearntFrame, TypeOK
  <2> QED
    BY <1>2, <2>1 DEF LearntFrame, Heard, Key, News
<1>3. CASE LearntScreenOff(p, q, m)
  <2>1. q \notin received'[p] /\ frames'[p][q] = m.frame
    BY <1>3 DEF LearntScreenOff, TypeOK
  <2> QED
    BY <1>3, <2>1 DEF LearntScreenOff, Heard, Key, News
<1> QED
  BY <1>1, <1>2, <1>3 DEF Learnt

LEMMA NewsArrive ==
  ASSUME Inv0, TypeOK', NewsInv, NEW p \in Player, NEW q \in Player, NEW k \in DOMAIN link[q][p], NEW again,
         Arrives(p, q, k, again)
  PROVE  NewsInv'
<1> USE DEF Inv0
<1> DEFINE m == link[q][p][k]
           net == Without(q, p, k, again)
<1>1. Receive(p, q, k, again) /\ (inOrder' => inOrder /\ k = 1 /\ ~again)
  BY DEF Arrives
<1>2. Taken(net, p, q, k, again) /\ Got(p, q, m, net) /\ m \in Message /\ frame' = frame
  BY <1>1, ReceiveIs DEF local
<1> HIDE DEF net
<1>3. Learnt(p, q, m) /\ FromNet(net, p, DataMsg) /\ net \in Nets /\ q # p
  BY <1>2 DEF Got, Taken
<1> SUFFICES ASSUME inOrder', NEW a \in Player, NEW b \in Player, a # b PROVE Fresh(a, b)'
  BY DEF NewsInv
<1>4. Fresh(a, b) /\ k = 1 /\ ~again
  BY <1>1 DEF NewsInv
<1>5. Heard(a, b) \in Int /\ Bound(b) \in Int
  BY HeardBound
<1>6. Bound(b)' = Bound(b)
  <2>1. frames'[b][b] = frames[b][b] /\ (b \in received'[b] <=> b \in received[b])
    BY <1>3, LearntOthers
  <2> QED
    BY <1>2, <2>1 DEF Bound, Leaving
<1>7. CASE a # p \/ b # q
  <2>1. Heard(a, b)' = Heard(a, b)
    <3>1. frames'[a][b] = frames[a][b] /\ (b \in received'[a] <=> b \in received[a])
      BY <1>3, <1>7, LearntOthers
    <3> QED
      BY <3>1 DEF Heard
  <2>2. net[b][a] = link[b][a]
    BY <1>2, <1>7 DEF Taken
  <2>3. link'[b][a] \in Sorted(Heard(a, b), Bound(b))
    <3>1. \A x \in DataMsg : x \in News => Key(x) = Bound(b)
      BY DataNoNews
    <3> QED
      BY <1>3, <1>4, <1>5, <2>2, <3>1, SortedNet DEF Fresh
  <2> QED
    BY <1>4, <1>6, <2>1, <2>3 DEF Fresh
<1>8. CASE a = p /\ b = q
  <2>1. link[q][p] \in Sorted(Heard(p, q), Bound(q)) /\ Heard(p, q) <= Bound(q) /\ link[q][p] # <<>>
    BY <1>2, <1>4, <1>8, EmptySeq DEF Fresh, Taken
  <2>2. 1 \in 1 .. Len(link[q][p]) /\ m = link[q][p][1]
    BY <1>2, <1>4 DEF Taken
  <2>3. m \in News => Heard(p, q) <= Key(m) /\ Key(m) <= Bound(q) /\ Key(m) \in Int
    BY <1>2, <2>1, <2>2, SortedHas, KeyIs
  <2>4. Heard(p, q)' = Heard(p, q) \/ (m \in News /\ Heard(p, q)' = Key(m))
    BY <1>2, <1>3, HeardFrom
  <2>5. Heard(p, q)' \in Int /\ Heard(p, q)' <= Bound(q)
    BY <1>5, <1>8, <2>1, <2>3, <2>4
  <2>6. net[q][p] \in Sorted(Heard(p, q)', Bound(q))
    <3>1. net[q][p] = RemoveAt(link[q][p], 1)
      BY <1>2, <1>4 DEF Taken
    <3>2. \/ Heard(p, q)' = Heard(p, q)
          \/ link[q][p][1] \in News /\ Heard(p, q)' = Key(link[q][p][1])
      BY <2>2, <2>4
    <3> HIDE DEF m
    <3> QED
      BY <1>5, <1>8, <2>1, <2>5, <3>1, <3>2, SortedTail
  <2>7. link'[q][p] \in Sorted(Heard(p, q)', Bound(q))
    <3>1. \A x \in DataMsg : x \in News => Key(x) = Bound(q)
      BY DataNoNews
    <3> QED
      BY <1>3, <1>5, <1>8, <2>5, <2>6, <3>1, SortedNet
  <2> QED
    BY <1>6, <1>8, <2>5, <2>7 DEF Fresh
<1> QED
  BY <1>7, <1>8

LEMMA NewsStep ==
  ASSUME Inv0, TypeOK', OwnInv, NewsInv, [Next]_vars
  PROVE  NewsInv'
<1> USE DEF Inv0
<1>1. ASSUME NEW p \in Player, ExecuteFrame(p)
      PROVE  NewsInv'
  <2>1. /\ FromNet(link, p, DataMsg) /\ frame' = [frame EXCEPT ![p] = @ + 1]
        /\ UNCHANGED <<frames, received, inOrder>>
    BY <1>1, ExecuteLinks DEF ExecuteFrame, known, history
  <2>2. \A a, b \in Player : Heard(a, b)' = Heard(a, b)
    BY <2>1 DEF Heard
  <2>3. frame'[p] = frame[p] + 1 /\ Bound(p)' = frame[p] + 1
    <3>1. frame'[p] = frame[p] + 1
      BY <2>1 DEF TypeOK
    <3>2. frame[p] \in Nat /\ frames[p][p] <= frame[p] /\ frames[p][p] \in Nat
      BY TypeFacts DEF OwnInv
    <3> QED
      BY <2>1, <3>1, <3>2 DEF Bound, Leaving
  <2>4. \A a \in Player : Bound(a) <= Bound(a)' /\ (a # p => Bound(a)' = Bound(a))
    <3> SUFFICES ASSUME NEW a \in Player PROVE Bound(a) <= Bound(a)' /\ (a # p => Bound(a)' = Bound(a))
      OBVIOUS
    <3>1. CASE a = p
      BY <2>3, <3>1, HeardBound DEF Bound
    <3>2. CASE a # p
      <4>1. frame'[a] = frame[a]
        BY <2>1, <3>2 DEF TypeOK
      <4> QED
        BY <2>1, <4>1, HeardBound DEF Bound, Leaving
    <3> QED
      BY <3>1, <3>2
  <2> QED
    BY <2>1, <2>2, <2>4, NewsKept, DataNoNews
<1>2. ASSUME NEW p \in Player, AllCommandsReady(p)
      PROVE  NewsInv'
  <2> DEFINE m == Msg("DISCONNECTSCREENOFF", p, frame[p], p)
  <2>1. /\ FromNet(link, p, {m}) /\ frames' = [frames EXCEPT ![p][p] = frame[p]]
        /\ received' = [received EXCEPT ![p] = @ \ {p}] /\ UNCHANGED <<frame, inOrder>>
    BY <1>2, ReadyLinks DEF AllCommandsReady, local, history
  <2>2. Bound(p)' = frame[p] + 1 /\ frame[p] \in Nat
    <3>1. frames'[p][p] = frame[p] /\ p \notin received'[p]
      BY <2>1 DEF TypeOK
    <3> QED
      BY <2>1, <3>1, TypeFacts DEF Bound, Leaving
  <2>3. m.type = "DISCONNECTSCREENOFF" /\ m.frame = frame[p]
    BY <2>2, MsgIs
  <2> HIDE DEF m
  <2>4. ASSUME NEW a \in Player, NEW b \in Player, a # p \/ b # p
        PROVE  frames'[a][b] = frames[a][b] /\ (b \in received'[a] <=> b \in received[a])
    BY <2>1, <2>4, OneEntry
  <2>5. \A a, b \in Player : a # b => Heard(a, b)' = Heard(a, b)
    BY <2>4 DEF Heard
  <2>6. \A a \in Player : a # p => Bound(a)' = Bound(a) /\ Bound(a) <= Bound(a)'
    BY <2>1, <2>4, HeardBound DEF Bound, Leaving
  <2>7. Bound(p) <= Bound(p)'
    BY <2>2 DEF Bound
  <2> QED
    BY <2>1, <2>2, <2>3, <2>5, <2>6, <2>7, NewsKept DEF Key
<1>3. ASSUME NEW p \in Player, NotifyOthersOfCurrentFrame(p)
      PROVE  NewsInv'
  <2> DEFINE m == Msg("DISCONNECTFRAME", p, frame[p], p)
             New == DataMsg \cup {m}
  <2>1. /\ FromNet(link, p, New) /\ Stuck(p) /\ UNCHANGED <<frame, inOrder>>
    BY <1>3, NotifyLinks DEF NotifyOthersOfCurrentFrame, local, history
  <2>2. frame[p] \in Nat /\ Bound(p) = frame[p] /\ m.type = "DISCONNECTFRAME" /\ m.frame = frame[p]
    BY <2>1, TypeFacts, MsgIs, StuckStays
  <2> HIDE DEF m
  <2>3. Key(m) = frame[p]
    BY <2>2 DEF Key
  <2>4. \A x \in New : x \in News => Key(x) = frame[p]
    BY <2>3, DataNoNews
  <2> HIDE DEF New
  <2>5. CASE UNCHANGED known
    <3>1. UNCHANGED <<frame, frames, received>>
      BY <2>1, <2>5 DEF known
    <3> QED
      BY <2>1, <2>2, <2>4, <3>1, SameBound, NewsKept
  <2>6. CASE /\ frames' = [frames EXCEPT ![p][p] = frame[p]]
             /\ received' = [received EXCEPT ![p] = @ \cup {p}]
    <3>1. ASSUME NEW a \in Player, NEW b \in Player, a # p \/ b # p
          PROVE  frames'[a][b] = frames[a][b] /\ (b \in received'[a] <=> b \in received[a])
      BY <2>6, <3>1, OneEntry
    <3>2. \A a, b \in Player : a # b => Heard(a, b)' = Heard(a, b)
      BY <3>1 DEF Heard
    <3>3. \A a \in Player : a # p => Bound(a)' = Bound(a) /\ Bound(a) <= Bound(a)'
      BY <2>1, <3>1, HeardBound DEF Bound, Leaving
    <3>4. Bound(p)' = frame[p]
      <4>1. p \in received'[p]
        BY <2>6 DEF TypeOK
      <4> QED
        BY <2>1, <4>1 DEF Bound, Leaving
    <3> QED
      BY <2>1, <2>2, <2>4, <3>2, <3>3, <3>4, NewsKept
  <2> QED
    BY <1>3, <2>5, <2>6 DEF NotifyOthersOfCurrentFrame
<1>4. ASSUME NEW p \in Player, NEW s \in Player, VoteForPlayerDisconnect(p, s)
      PROVE  NewsInv'
  <2> DEFINE m == Msg("DISCONNECTVOTE", p, frame[p], s)
  <2>1. FromNet(link, p, {m}) /\ Stuck(p) /\ UNCHANGED <<frame, frames, received, inOrder>>
    BY <1>4, VoteLinks DEF VoteForPlayerDisconnect, local
  <2>2. frame[p] \in Nat /\ Bound(p) = frame[p] /\ m.type = "DISCONNECTVOTE" /\ m.frame = frame[p]
    BY <2>1, TypeFacts, MsgIs, StuckStays
  <2> HIDE DEF m
  <2>3. \A x \in {m} : x \in News => Key(x) = Bound(p)
    BY <2>2 DEF Key
  <2> QED
    BY <2>1, <2>3, SameBound, NewsKept
<1>5. ASSUME NEW p \in Player, NEW New, \A m \in New : m \notin News, FromNet(link, p, New),
             UNCHANGED <<frame, frames, received, inOrder>>
      PROVE  NewsInv'
  BY <1>5, SameBound, NewsKept
<1>6. ASSUME NEW p \in Player, UpdateDisconnectStatus(p)
      PROVE  NewsInv'
  <2>1. FromNet(link, p, PassMsg(p, conn[p] \ conn'[p])) /\ UNCHANGED <<frame, frames, received, inOrder>>
    BY <1>6, UpdateLinks DEF UpdateDisconnectStatus, local, known
  <2> QED
    BY <1>5, <2>1, NoNews
<1>7. ASSUME NEW p \in Player, QuitGame(p)
      PROVE  NewsInv'
  <2> DEFINE m == Msg("DISCONNECTPLAYER", p, frame[p], p)
  <2>1. FromNet(link, p, {m}) /\ UNCHANGED <<frame, frames, received, inOrder>>
    BY <1>7, QuitLinks DEF QuitGame, known
  <2>2. m \notin News
    BY TypeFacts, MsgIs DEF News
  <2> HIDE DEF m
  <2> QED
    BY <1>5, <2>1, <2>2
<1>8. ASSUME NEW p \in Player, NEW q \in Player, Die(p) \/ Lose(q, p)
      PROVE  NewsInv'
  <2>1. FromNet(link, p, {}) /\ UNCHANGED <<frame, frames, received, inOrder>>
    BY <1>8, DieLinks, LoseLinks DEF Die, Lose, local, known, history
  <2> QED
    BY <1>5, <2>1
<1>9. ASSUME NEW p \in Player, TurnOnScreen(p) \/ MinutePasses(p) \/ \E q \in Player : TimeOut(p, q)
      PROVE  NewsInv'
  <2>1. UNCHANGED <<link, frame, frames, received, inOrder>>
    BY <1>9 DEF TurnOnScreen, MinutePasses, TimeOut, local, known, history
  <2>2. FromNet(link, p, {})
    BY <2>1, SameNet
  <2> QED
    BY <1>5, <2>1, <2>2
<1>10. CASE UNCHANGED vars
  <2>1. UNCHANGED <<link, frame, frames, received, inOrder>>
    BY <1>10 DEF vars, local, known, history
  <2>2. PICK p \in Player : TRUE
    BY Constants
  <2>3. FromNet(link, p, {})
    BY <2>1, SameNet
  <2> QED
    BY <1>5, <2>1, <2>3
<1> QED
  BY <1>1, <1>2, <1>3, <1>4, <1>6, <1>7, <1>8, <1>9, <1>10, NewsArrive, SomethingArrives DEF Next
----------------------------------------------------------------------------
(* Votes.                                                                  *)
LEMMA VoteBy ==
  ASSUME TypeOK, NEW p \in Player, NEW v \in votes[p]
  PROVE  v.by \in Player /\ v.frame \in Nat /\ v.slot \in Player
<1>1. v \in Vote
  BY TypeFacts
<1> QED
  BY <1>1, VoteHas

(* Only what p makes of q changes, and the votes of q that it outdates go. *)
LEMMA VotesOutdated ==
  ASSUME TypeOK, TypeOK', VoteInv, inOrder' => inOrder, NEW p \in Player, NEW q \in Player,
         \A a, b \in Player : a # p \/ b # q => Heard(a, b)' = Heard(a, b),
         \A a \in Player : votes'[a] \subseteq votes[a],
         \A v \in votes'[p] : v.by = q => v.frame >= Heard(p, q)'
  PROVE  VoteInv'
<1> SUFFICES ASSUME inOrder', NEW a \in Player, NEW v \in votes'[a] PROVE v.frame >= Heard(a, v.by)'
  BY DEF VoteInv
<1>1. v \in votes[a] /\ v.by \in Player /\ v.frame \in Nat
  BY VoteBy
<1>2. v.frame >= Heard(a, v.by)
  BY <1>1 DEF VoteInv
<1>3. CASE a # p \/ v.by # q
  BY <1>1, <1>2, <1>3
<1>4. CASE a = p /\ v.by = q
  BY <1>4
<1> QED
  BY <1>3, <1>4

LEMMA VoteCast ==
  ASSUME TypeOK, VoteInv, inOrder' => inOrder, NEW p \in Player, NEW q \in Player, NEW s, NEW f,
         UNCHANGED <<frames, received>>, votes' = [votes EXCEPT ![p] = VoteApplied(@, s, q, f)],
         inOrder => f >= Heard(p, q)
  PROVE  VoteInv'
<1> SUFFICES ASSUME inOrder', NEW a \in Player, NEW v \in votes'[a] PROVE v.frame >= Heard(a, v.by)'
  BY DEF VoteInv
<1>1. \A b : Heard(a, b)' = Heard(a, b)
  BY DEF Heard
<1>2. CASE v \in votes[a]
  BY <1>1, <1>2 DEF VoteInv
<1>3. CASE v \notin votes[a]
  <2>1. a = p /\ v = [slot |-> s, by |-> q, frame |-> f]
    BY <1>3 DEF TypeOK, VoteApplied
  <2> QED
    BY <1>1, <2>1
<1> QED
  BY <1>2, <1>3

LEMMA VoteStep ==
  ASSUME Inv0, TypeOK', OwnInv, NewsInv, VoteInv, [Next]_vars
  PROVE  VoteInv'
<1> USE DEF Inv0
<1>1. ASSUME NEW p \in Player, AllCommandsReady(p)
      PROVE  VoteInv'
  <2>1. /\ frames' = [frames EXCEPT ![p][p] = frame[p]] /\ received' = [received EXCEPT ![p] = @ \ {p}]
        /\ votes' = [votes EXCEPT ![p] = {v \in @ : v.by # p}] /\ inOrder' = inOrder
    BY <1>1 DEF AllCommandsReady, history
  <2>2. \A a, b \in Player : a # p \/ b # p => Heard(a, b)' = Heard(a, b)
    BY <2>1, OneEntry DEF Heard
  <2>3. (\A a \in Player : votes'[a] \subseteq votes[a]) /\ \A v \in votes'[p] : v.by # p
    BY <2>1 DEF TypeOK
  <2> QED
    BY <2>1, <2>2, <2>3, VotesOutdated
<1>2. ASSUME NEW p \in Player, NEW q \in Player, NEW f \in Int, inOrder' => inOrder,
             frames' = [frames EXCEPT ![p][q] = f],
             received' = [received EXCEPT ![p] = @ \cup {q}] \/ received' = [received EXCEPT ![p] = @ \ {q}],
             NEW g \in Int, votes' = [votes EXCEPT ![p] = VotesReset(@, q, g)], Heard(p, q)' = g + 1
      PROVE  VoteInv'
  <2>1. \A a, b \in Player : a # p \/ b # q => Heard(a, b)' = Heard(a, b)
    <3> SUFFICES ASSUME NEW a \in Player, NEW b \in Player, a # p \/ b # q PROVE Heard(a, b)' = Heard(a, b)
      OBVIOUS
    <3>1. frames'[a][b] = frames[a][b] /\ (b \in received'[a] <=> b \in received[a])
      BY <1>2, OneEntry
    <3> QED
      BY <3>1 DEF Heard
  <2>2. (\A a \in Player : votes'[a] \subseteq votes[a]) /\ \A v \in votes'[p] : v \in votes[p] /\ (v.by # q \/ v.frame > g)
    BY <1>2 DEF TypeOK, VotesReset
  <2>3. \A v \in votes'[p] : v.by = q => v.frame >= g + 1
    BY <2>2, VoteBy
  <2> QED
    BY <1>2, <2>1, <2>2, <2>3, VotesOutdated
<1>3. ASSUME UNCHANGED <<frames, received, votes>>, inOrder' => inOrder
      PROVE  VoteInv'
  BY <1>3 DEF VoteInv, Heard
<1>4. ASSUME NEW p \in Player, NotifyOthersOfCurrentFrame(p)
      PROVE  VoteInv'
  <2>1. inOrder' = inOrder /\ frame' = frame /\ frame[p] \in Nat
    BY <1>4, TypeFacts DEF NotifyOthersOfCurrentFrame, history, local
  <2>2. CASE UNCHANGED known
    BY <1>3, <2>1, <2>2 DEF known
  <2>3. CASE /\ frames' = [frames EXCEPT ![p][p] = frame[p]]
             /\ received' = [received EXCEPT ![p] = @ \cup {p}]
             /\ votes' = [votes EXCEPT ![p] = VotesReset(@, p, frame[p] - 1)]
    <3>1. Heard(p, p)' = frame[p]
      <4>1. frames'[p][p] = frame[p] /\ p \in received'[p]
        BY <2>3 DEF TypeOK
      <4> QED
        BY <4>1 DEF Heard
    <3> DEFINE g == frame[p] - 1
    <3>2. g \in Int /\ frame[p] \in Int /\ Heard(p, p)' = g + 1
      BY <2>1, <3>1
    <3>3. votes' = [votes EXCEPT ![p] = VotesReset(@, p, g)]
      BY <2>3
    <3> HIDE DEF g
    <3> QED
      BY <1>2, <2>1, <2>3, <3>2, <3>3
  <2> QED
    BY <1>4, <2>2, <2>3 DEF NotifyOthersOfCurrentFrame
<1>5. ASSUME NEW p \in Player, NEW s \in Player, VoteForPlayerDisconnect(p, s)
      PROVE  VoteInv'
  <2>1. /\ votes' = [votes EXCEPT ![p] = VoteApplied(@, s, p, frame[p])] /\ Stuck(p)
        /\ UNCHANGED <<frames, received, inOrder>>
    BY <1>5 DEF VoteForPlayerDisconnect
  <2>2. frame[p] >= Heard(p, p)
    BY <2>1, StuckStays, HeardBound
  <2> QED
    BY <2>1, <2>2, VoteCast
<1>6. ASSUME NEW p \in Player, NEW q \in Player, NEW k \in DOMAIN link[q][p], NEW again,
             Arrives(p, q, k, again)
      PROVE  VoteInv'
  <2> DEFINE m == link[q][p][k]
             net == Without(q, p, k, again)
  <2>1. Receive(p, q, k, again) /\ (inOrder' => inOrder)
    BY <1>6 DEF Arrives
  <2>2. /\ Taken(net, p, q, k, again) /\ Got(p, q, m, net) /\ m \in Message
    BY <2>1, ReceiveIs
  <2>3. inOrder /\ m \in News => Heard(p, q) <= Key(m)
    <3> SUFFICES ASSUME inOrder, m \in News PROVE Heard(p, q) <= Key(m)
      OBVIOUS
    <3>1. link[q][p] \in Sorted(Heard(p, q), Bound(q)) /\ k \in 1 .. Len(link[q][p])
      BY <2>2 DEF NewsInv, Fresh, Taken
    <3> QED
      BY <3>1, SortedHas
  <2> HIDE DEF m, net
  <2>4. Learnt(p, q, m) /\ m.frame \in Nat /\ m.slot \in Player
    BY <2>2, MessageHas DEF Got
  <2>5. CASE UNCHANGED known
    BY <1>3, <2>1, <2>5 DEF known
  <2>6. CASE LearntFrame(p, q, m)
    <3>1. Heard(p, q)' = m.frame
      <4>1. q \in received'[p] /\ frames'[p][q] = m.frame
        BY <2>6 DEF LearntFrame, TypeOK
      <4> QED
        BY <4>1 DEF Heard
    <3>2. m.frame - 1 \in Int /\ (m.frame - 1) + 1 = m.frame /\ m.frame \in Int
      BY <2>4
    <3> QED
      BY <1>2, <2>1, <2>6, <3>1, <3>2 DEF LearntFrame
  <2>7. CASE LearntScreenOff(p, q, m)
    <3>1. Heard(p, q)' = m.frame + 1
      <4>1. q \notin received'[p] /\ frames'[p][q] = m.frame
        BY <2>7 DEF LearntScreenOff, TypeOK
      <4> QED
        BY <4>1 DEF Heard
    <3>2. m.frame \in Int
      BY <2>4
    <3> QED
      BY <1>2, <2>1, <2>7, <3>1, <3>2 DEF LearntScreenOff
  <2>8. CASE LearntVote(p, q, m)
    <3>1. m \in News /\ Key(m) = m.frame
      BY <2>2, <2>8 DEF LearntVote, News, Key
    <3>2. inOrder => m.frame >= Heard(p, q)
      BY <2>3, <2>4, <3>1, HeardBound
    <3> QED
      BY <2>1, <2>8, <3>2, VoteCast DEF LearntVote
  <2> QED
    BY <2>4, <2>5, <2>6, <2>7, <2>8 DEF Learnt
<1>7. ASSUME NEW p \in Player,
             \/ ExecuteFrame(p) \/ TurnOnScreen(p) \/ UpdateDisconnectStatus(p) \/ QuitGame(p) \/ Die(p)
             \/ MinutePasses(p)
             \/ \E q \in Player : TimeOut(p, q) \/ Lose(p, q)
      PROVE  VoteInv'
  <2>1. UNCHANGED <<frames, received, votes, inOrder>>
    BY <1>7 DEF ExecuteFrame, TurnOnScreen, UpdateDisconnectStatus, QuitGame, Die, MinutePasses, TimeOut,
                Lose, known, history
  <2> QED
    BY <1>3, <2>1
<1>8. CASE UNCHANGED vars
  BY <1>3, <1>8 DEF vars, known, history
<1> QED
  BY <1>1, <1>4, <1>5, <1>6, <1>7, <1>8, SomethingArrives DEF Next

Inv1 == OwnInv /\ NewsInv /\ VoteInv

LEMMA Inv1Init == Init => Inv1
<1> SUFFICES ASSUME Init PROVE Inv1
  OBVIOUS
<1>1. \A p, q \in Player : frames[p][q] = 0 /\ q \notin received[p] /\ frame[q] = FirstFrame /\ votes[p] = {}
  BY DEF Init
<1>2. \A p \in Player : ~Leaving(p)
  BY <1>1, Constants DEF Leaving
<1>3. OwnInv
  <2>1. \A q \in Player : frames[q][q] <= frame[q]
    BY <1>1, Constants
  <2> QED
    BY <1>2, <2>1 DEF OwnInv
<1>4. \A p, q \in Player : Heard(p, q) = 1 /\ Bound(q) = FirstFrame
  BY <1>1, <1>2 DEF Heard, Bound
<1>5. ASSUME NEW p \in Player, NEW q \in Player
      PROVE  link[q][p] \in Sorted(1, FirstFrame)
  <2>1. link[q] \in [Player -> Seq(DataMsg)]
    BY UnderWayIs, SendLocalIs DEF Init
  <2>2. Grown(<<>>, link[q][p], DataMsg)
    BY <2>1, GrownFromNothing DEF DataMsg
  <2>3. 1 \in Int /\ FirstFrame \in Int /\ 1 <= FirstFrame /\ <<>> \in Sorted(1, FirstFrame)
    BY Constants, SortedEmpty
  <2> QED
    BY <2>2, <2>3, DataNoNews, SortedGrown
<1>6. NewsInv
  BY <1>4, <1>5, Constants DEF NewsInv, Fresh
<1>7. VoteInv
  BY <1>1 DEF VoteInv
<1> QED
  BY <1>3, <1>6, <1>7 DEF Inv1

LEMMA Inv1Step == Inv0 /\ Inv1 /\ [Next]_vars => Inv1'
BY TypeStep, OwnStep, NewsStep, VoteStep DEF Inv1

LEMMA Inv1Always == Spec => []Inv1
BY Inv0Always, Inv1Init, Inv1Step, PTL DEF Spec

(* A vote is off the record once it is known that the voter is past the    *)
(* frame it has voted in, or has turned its screen off there.              *)
THEOREM VotesAreFresh == Spec => []NoStaleVote
<1>1. TypeOK /\ Inv1 => NoStaleVote
  <2> SUFFICES ASSUME TypeOK, Inv1, inOrder, NEW p \in Player, NEW v \in votes[p]
               PROVE  v.frame >= frames[p][v.by] + (IF v.by \in received[p] THEN 0 ELSE 1)
    BY DEF NoStaleVote
  <2>1. v.by \in Player /\ v.frame >= Heard(p, v.by)
    BY VoteBy DEF Inv1, VoteInv
  <2>2. frames[p][v.by] \in Nat
    BY <2>1, TypeFacts
  <2> QED
    BY <2>1, <2>2 DEF Heard
<1> QED
  BY <1>1, TypeCorrect, Inv1Always, PTL
----------------------------------------------------------------------------
(* Whoever has notified the others has been heard, or will be.             *)
LEMMA TellsKept ==
  ASSUME NEW net \in Nets, NEW p, NEW New, FromNet(net, p, New), NEW a \in Player, NEW b \in Player, NEW f,
         Tells(net[a][b], f), Alive(a)', Alive(b)', b \in conn'[a]
  PROVE  Tells(link'[a][b], f)
<1>1. CASE link'[a][b] = net[a][b]
  BY <1>1
<1>2. CASE Grown(net[a][b], link'[a][b], New)
  <2>1. PICK i \in 1 .. Len(net[a][b]) : net[a][b][i].type = "DISCONNECTFRAME" /\ net[a][b][i].frame = f
    BY DEF Tells
  <2>2. link'[a][b][i] = net[a][b][i] /\ Len(net[a][b]) <= Len(link'[a][b])
    BY <1>2 DEF Grown
  <2>3. Len(net[a][b]) \in Nat /\ Len(link'[a][b]) \in Nat
    BY <1>2, LenProperties DEF Grown, Nets
  <2>4. i \in 1 .. Len(link'[a][b])
    BY <2>2, <2>3
  <2> QED
    BY <2>1, <2>2, <2>4 DEF Tells
<1> QED
  BY <1>1, <1>2 DEF FromNet, Alive

LEMMA ToldKept ==
  ASSUME TypeOK, TypeOK', ToldInv, [Next]_vars, NEW p, NEW D, NEW net \in Nets, NEW New, FromNet(net, p, New),
         \A a \in Player : conn'[a] \subseteq conn[a],
         \A a, b \in Player : frames'[a][b] >= frames[a][b],
         \A a, b \in Player : Tells(link[a][b], frame[a]) /\ a \in conn'[b] =>
                                Tells(net[a][b], frame[a]) \/ frames'[b][a] >= frame[a],
         NEW q \in Player,
         screen'[q] /\ notified'[q] => screen[q] /\ notified[q] /\ frame'[q] = frame[q]
  PROVE  Told(q)'
<1> SUFFICES ASSUME Alive(q)', screen'[q], notified'[q]
             PROVE  /\ frames'[q][q] >= frame'[q]
                    /\ \A b \in Player : Alive(b)' /\ b \in conn'[q] /\ q \in conn'[b] /\ b # q =>
                         frames'[b][q] >= frame'[q] \/ Tells(link'[q][b], frame'[q])
  BY DEF Told
<1>1. Alive(q) /\ screen[q] /\ notified[q] /\ frame'[q] = frame[q] /\ frame[q] \in Nat
  BY StatusStep, TypeFacts
<1>2. Told(q)
  BY DEF ToldInv
<1>3. \A a \in Player : frames'[a][q] \in Nat /\ frames[a][q] \in Nat
  BY DEF TypeOK
<1>4. frames'[q][q] >= frame'[q]
  BY <1>1, <1>2, <1>3 DEF Told
<1>5. ASSUME NEW b \in Player, Alive(b)', b \in conn'[q], q \in conn'[b], b # q
      PROVE  frames'[b][q] >= frame'[q] \/ Tells(link'[q][b], frame'[q])
  <2>1. Alive(b) /\ b \in conn[q] /\ q \in conn[b]
    BY <1>5, StatusStep
  <2>2. frames[b][q] >= frame[q] \/ Tells(link[q][b], frame[q])
    BY <1>1, <1>2, <1>5, <2>1 DEF Told
  <2>3. CASE frames[b][q] >= frame[q]
    BY <1>1, <1>3, <2>3
  <2>4. CASE Tells(net[q][b], frame[q])
    BY <1>1, <1>5, <2>4, TellsKept
  <2> QED
    BY <1>1, <1>5, <2>2, <2>3, <2>4
<1> QED
  BY <1>4, <1>5

LEMMA ToldSame ==
  ASSUME TypeOK, TypeOK', ToldInv, [Next]_vars, NEW p, NEW New, FromNet(link, p, New),
         \A a \in Player : conn'[a] \subseteq conn[a],
         \A a, b \in Player : frames'[a][b] >= frames[a][b],
         \A q \in Player : screen'[q] /\ notified'[q] => screen[q] /\ notified[q] /\ frame'[q] = frame[q]
  PROVE  ToldInv'
<1>1. link \in Nets
  BY TypeLinks
<1>2. ASSUME NEW q \in Player
      PROVE  Told(q)'
  BY <1>1, ToldKept
<1> QED
  BY <1>2 DEF ToldInv

(* What p has told everybody is under way.                                 *)
LEMMA NotifyTells ==
  ASSUME TypeOK, NEW p \in Player, NotifyOthersOfCurrentFrame(p), NEW b \in conn[p], b # p, Alive(b)
  PROVE  Tells(link'[p][b], frame[p])
<1> DEFINE m == Msg("DISCONNECTFRAME", p, frame[p], p)
           news == ToAll(conn[p], m)
           behind == {q \in InGame(p) \cap received[p] : q # p /\ frames[p][q] < frame[p]}
           help == [q \in Player |->
                      IF q \in behind THEN SendFrameData(p, q, frames[p][q]) ELSE <<>>]
<1>1. link' = Sent(link, p, news) \/ link' = Sent(link, p, Both(news, help))
  BY DEF NotifyOthersOfCurrentFrame
<1>2. frame[p] \in Nat /\ b \in Player /\ link[p][b] \in Seq(Message)
  BY TypeFacts, TypeLinks
<1>3. m \in Message /\ m.type = "DISCONNECTFRAME" /\ m.frame = frame[p] /\ m.player = p
  BY <1>2, MsgIs
<1> HIDE DEF m
<1>4. news[b] = <<m>>
  BY <1>2, <1>3 DEF ToAll
<1>5. help[b] \in Seq(Message)
  <2>1. SendFrameData(p, b, frames[p][b]) \in Seq(DataMsg)
    BY <1>2, TypeFacts, SendFrameDataIs
  <2>2. SendFrameData(p, b, frames[p][b]) \in Seq(Message)
    BY <2>1, SeqMonotonic DEF DataMsg
  <2> QED
    BY <1>2, <2>2, EmptySeq
<1> HIDE DEF help, news
<1>6. PICK o \in Seq(Message) : link'[p][b] = link[p][b] \o o /\ o # <<>> /\ o[1] = m
  <2>1. <<m>> \in Seq(Message) /\ <<m>> # <<>> /\ <<m>>[1] = m
    BY <1>3
  <2>2. <<m>> \o help[b] \in Seq(Message) /\ <<m>> \o help[b] # <<>> /\ (<<m>> \o help[b])[1] = m
    BY <1>3, <1>5
  <2>3. link'[p][b] = link[p][b] \o <<m>> \/ link'[p][b] = link[p][b] \o (<<m>> \o help[b])
    <3>1. ASSUME NEW out, link' = Sent(link, p, out)
          PROVE  link'[p][b] = link[p][b] \o out[b]
      BY <1>2, <3>1, TypeLinks DEF Sent, Nets
    <3>2. Both(news, help)[b] = news[b] \o help[b]
      BY <1>2 DEF Both
    <3> QED
      BY <1>1, <1>4, <3>1, <3>2
  <2> QED
    BY <2>1, <2>2, <2>3
<1>7. /\ Len(link'[p][b]) = Len(link[p][b]) + Len(o)
      /\ link'[p][b][Len(link[p][b]) + 1] = o[1]
      /\ Len(link[p][b]) \in Nat /\ Len(o) \in Nat /\ Len(o) >= 1
  BY <1>2, <1>6
<1>8. Len(link[p][b]) + 1 \in 1 .. Len(link'[p][b])
  BY <1>7
<1> QED
  BY <1>3, <1>6, <1>7, <1>8 DEF Tells

LEMMA ToldStep ==
  ASSUME Inv0, TypeOK', OwnInv, ToldInv, [Next]_vars
  PROVE  ToldInv'
<1> USE DEF Inv0
<1>0. \A a, b \in Player : frames[a][b] \in Nat /\ frames[a][b] >= frames[a][b]
  BY TypeFacts
<1>1. ASSUME NEW p \in Player, ExecuteFrame(p)
      PROVE  ToldInv'
  <2>1. /\ FromNet(link, p, DataMsg) /\ frame' = [frame EXCEPT ![p] = @ + 1] /\ ~screen[p]
        /\ UNCHANGED <<conn, frames, screen, notified>>
    BY <1>1, ExecuteLinks DEF ExecuteFrame, known
  <2>2. \A q \in Player : screen'[q] /\ notified'[q] => screen[q] /\ notified[q] /\ frame'[q] = frame[q]
    BY <2>1 DEF TypeOK
  <2> QED
    BY <1>0, <2>1, <2>2, ToldSame
<1>2. ASSUME NEW p \in Player, AllCommandsReady(p)
      PROVE  ToldInv'
  <2>1. /\ FromNet(link, p, {Msg("DISCONNECTSCREENOFF", p, frame[p], p)})
        /\ frames' = [frames EXCEPT ![p][p] = frame[p]] /\ screen' = [screen EXCEPT ![p] = FALSE]
        /\ UNCHANGED <<frame, conn, notified>>
    BY <1>2, ReadyLinks DEF AllCommandsReady, local, peers
  <2>2. \A q \in Player : screen'[q] => screen[q]
    BY <2>1 DEF TypeOK
  <2>3. \A a, b \in Player : frames'[a][b] >= frames[a][b]
    <3> SUFFICES ASSUME NEW a \in Player, NEW b \in Player PROVE frames'[a][b] >= frames[a][b]
      OBVIOUS
    <3>1. CASE a = p /\ b = p
      <4>1. frames'[p][p] = frame[p]
        BY <2>1 DEF TypeOK
      <4> QED
        BY <1>0, <3>1, <4>1, TypeFacts DEF OwnInv
    <3>2. CASE a # p \/ b # p
      <4>1. frames'[a][b] = frames[a][b]
        BY <2>1, <3>2 DEF TypeOK
      <4> QED
        BY <1>0, <4>1
    <3> QED
      BY <3>1, <3>2
  <2> QED
    BY <2>1, <2>2, <2>3, ToldSame
<1>3. ASSUME NEW p \in Player, TurnOnScreen(p)
      PROVE  ToldInv'
  <2>1. /\ link' = link /\ notified' = [notified EXCEPT ![p] = FALSE] /\ screen' = [screen EXCEPT ![p] = TRUE]
        /\ UNCHANGED <<frame, conn, frames>>
    BY <1>3 DEF TurnOnScreen, local, peers, known
  <2>2. \A q \in Player : screen'[q] /\ notified'[q] => screen[q] /\ notified[q]
    BY <2>1 DEF TypeOK
  <2>3. FromNet(link, p, {})
    BY <2>1, SameNet
  <2> QED
    BY <1>0, <2>1, <2>2, <2>3, ToldSame
<1>4. ASSUME NEW p \in Player, NotifyOthersOfCurrentFrame(p)
      PROVE  ToldInv'
  <2> DEFINE New == DataMsg \cup {Msg("DISCONNECTFRAME", p, frame[p], p)}
  <2>1. /\ FromNet(link, p, New)
        /\ frames' = frames \/ frames' = [frames EXCEPT ![p][p] = frame[p]]
        /\ notified' = [notified EXCEPT ![p] = TRUE] /\ UNCHANGED <<status, frame, conn, screen>>
    BY <1>4, NotifyLinks DEF NotifyOthersOfCurrentFrame, local, peers, known
  <2> HIDE DEF New
  <2>2. frames'[p][p] >= frame[p]
    <3>1. frames[p][p] >= frame[p] \/ frames' = [frames EXCEPT ![p][p] = frame[p]]
      BY <1>4 DEF NotifyOthersOfCurrentFrame
    <3>2. frame[p] \in Nat /\ frames[p][p] \in Nat
      BY TypeFacts
    <3> QED
      BY <2>1, <3>1, <3>2 DEF TypeOK
  <2>3. \A a, b \in Player : frames'[a][b] >= frames[a][b]
    <3> SUFFICES ASSUME NEW a \in Player, NEW b \in Player PROVE frames'[a][b] >= frames[a][b]
      OBVIOUS
    <3>1. CASE a = p /\ b = p
      <4>1. frames'[p][p] \in Nat /\ frame[p] \in Nat /\ frames[p][p] <= frame[p]
        <5>1. frames'[p][p] \in Nat
          BY DEF TypeOK
        <5> QED
          BY <5>1, TypeFacts DEF OwnInv
      <4> QED
        BY <1>0, <2>2, <3>1, <4>1
    <3>2. CASE a # p \/ b # p
      <4>1. frames'[a][b] = frames[a][b]
        <5>1. ASSUME frames' = [frames EXCEPT ![p][p] = frame[p]]
              PROVE  frames'[a][b] = frames[a][b]
          BY <3>2, <5>1 DEF TypeOK
        <5> QED
          BY <2>1, <5>1
      <4> QED
        BY <1>0, <4>1
    <3> QED
      BY <3>1, <3>2
  <2>4. ASSUME NEW q \in Player
        PROVE  Told(q)'
    <3>1. CASE q # p
      <4>1. notified'[q] = notified[q]
        BY <2>1, <3>1 DEF TypeOK
      <4>2. link \in Nets
        BY TypeLinks
      <4> QED
        BY <2>1, <2>3, <4>1, <4>2, ToldKept
    <3>2. CASE q = p
      <4>1. \A b \in Player : Alive(b)' /\ b \in conn'[p] /\ b # p => Tells(link'[p][b], frame'[p])
        BY <1>4, <2>1, NotifyTells DEF Alive
      <4> QED
        BY <2>1, <2>2, <3>2, <4>1 DEF Told
    <3> QED
      BY <3>1, <3>2
  <2> QED
    BY <2>4 DEF ToldInv
<1>5. ASSUME NEW p \in Player, NEW New, FromNet(link, p, New), UNCHANGED <<frame, frames, screen, notified>>,
             \A a \in Player : conn'[a] \subseteq conn[a]
      PROVE  ToldInv'
  BY <1>0, <1>5, ToldSame
<1>6. ASSUME NEW p \in Player, UpdateDisconnectStatus(p)
      PROVE  ToldInv'
  <2>1. /\ FromNet(link, p, PassMsg(p, conn[p] \ conn'[p])) /\ PeersGo(p, conn[p] \ conn'[p])
        /\ UNCHANGED <<frame, frames, screen, notified>>
    BY <1>6, UpdateLinks, UpdatePeers DEF UpdateDisconnectStatus, local, known, menu
  <2>2. \A a \in Player : conn'[a] \subseteq conn[a]
    BY <2>1 DEF PeersGo
  <2> QED
    BY <1>5, <2>1, <2>2
<1>7. ASSUME NEW p \in Player, QuitGame(p)
      PROVE  ToldInv'
  <2>1. /\ FromNet(link, p, {Msg("DISCONNECTPLAYER", p, frame[p], p)}) /\ PeersGo(p, Player)
        /\ UNCHANGED <<frame, frames, screen, notified>>
    BY <1>7, QuitLinks, QuitPeers DEF QuitGame, known, menu
  <2>2. \A a \in Player : conn'[a] \subseteq conn[a]
    BY <2>1 DEF PeersGo
  <2> QED
    BY <1>5, <2>1, <2>2
<1>8. ASSUME NEW p \in Player, NEW q \in Player, Die(p) \/ Lose(q, p)
      PROVE  ToldInv'
  <2>1. FromNet(link, p, {}) /\ UNCHANGED <<frame, frames, screen, notified, conn>>
    BY <1>8, DieLinks, LoseLinks DEF Die, Lose, local, known, menu, peers
  <2> QED
    BY <1>5, <2>1
<1>9. ASSUME NEW p \in Player, NEW q \in Player, MinutePasses(p) \/ TimeOut(p, q)
      PROVE  ToldInv'
  <2>1. UNCHANGED <<link, frame, frames, screen, notified, conn>>
    BY <1>9 DEF MinutePasses, TimeOut, local, known, menu, peers
  <2>2. FromNet(link, p, {})
    BY <2>1, SameNet
  <2> QED
    BY <1>5, <2>1, <2>2
<1>10. ASSUME NEW p \in Player, NEW s \in Player, VoteForPlayerDisconnect(p, s)
       PROVE  ToldInv'
  <2>1. /\ FromNet(link, p, {Msg("DISCONNECTVOTE", p, frame[p], s)})
        /\ UNCHANGED <<frame, frames, screen, notified, conn>>
    BY <1>10, VoteLinks DEF VoteForPlayerDisconnect, local, menu, peers
  <2> QED
    BY <1>5, <2>1
<1>11. ASSUME NEW p \in Player, NEW q \in Player, NEW k \in DOMAIN link[q][p], NEW again,
              Arrives(p, q, k, again)
       PROVE  ToldInv'
  <2> DEFINE m == link[q][p][k]
             net == Without(q, p, k, again)
  <2>1. Receive(p, q, k, again)
    BY <1>11 DEF Arrives
  <2>2. /\ Taken(net, p, q, k, again) /\ Got(p, q, m, net) /\ m \in Message
        /\ UNCHANGED <<frame, screen, notified>>
    BY <2>1, ReceiveIs DEF local, menu
  <2> HIDE DEF net
  <2>3. /\ Learnt(p, q, m) /\ FromNet(net, p, DataMsg) /\ net \in Nets /\ q # p
        /\ \A a \in Player : conn'[a] \subseteq conn[a]
    BY <2>2 DEF Got, Taken, PeersGo
  <2>4. m.type = "DISCONNECTFRAME" /\ q \in conn'[p] => frames'[p][q] >= m.frame
    BY <2>2, <2>3 DEF Got
  <2>5. ASSUME NEW a \in Player, NEW b \in Player
        PROVE  frames'[a][b] >= frames[a][b]
    <3>1. CASE a # p \/ b # q
      BY <1>0, <2>3, <3>1, LearntOthers
    <3>2. CASE a = p /\ b = q
      <4>1. ASSUME NEW f \in Nat, frames[p][q] <= f, frames' = [frames EXCEPT ![p][q] = f]
            PROVE  frames'[p][q] >= frames[p][q]
        BY <1>0, <4>1 DEF TypeOK
      <4>2. m.frame \in Nat /\ frames[p][q] \in Nat
        BY <1>0, <2>2, MessageHas
      <4>3. frames' = frames \/ (frames[p][q] <= m.frame /\ frames' = [frames EXCEPT ![p][q] = m.frame])
        BY <2>3, <4>2 DEF Learnt, LearntFrame, LearntScreenOff, LearntVote, known
      <4> QED
        BY <1>0, <3>2, <4>1, <4>2, <4>3
    <3> QED
      BY <3>1, <3>2
  <2>6. ASSUME NEW a \in Player, NEW b \in Player, Tells(link[a][b], frame[a]), a \in conn'[b]
        PROVE  Tells(net[a][b], frame[a]) \/ frames'[b][a] >= frame[a]
    <3>1. CASE a # q \/ b # p \/ again
      <4>1. net[a][b] = link[a][b]
        BY <2>2, <3>1 DEF Taken
      <4> QED
        BY <2>6, <4>1
    <3>2. CASE a = q /\ b = p /\ ~again
      <4>1. PICK i \in 1 .. Len(link[q][p]) :
              link[q][p][i].type = "DISCONNECTFRAME" /\ link[q][p][i].frame = frame[q]
        BY <2>6, <3>2 DEF Tells
      <4>2. CASE i = k
        BY <2>4, <2>6, <3>2, <4>1, <4>2
      <4>3. CASE i # k
        <5>1. link[q][p] \in Seq(Message) /\ k \in 1 .. Len(link[q][p]) /\ net[q][p] = RemoveAt(link[q][p], k)
          BY <2>2, <3>2, TypeLinks DEF Taken
        <5>2. /\ Len(net[q][p]) = Len(link[q][p]) - 1
              /\ \A n \in 1 .. Len(link[q][p]) - 1 :
                   net[q][p][n] = IF n < k THEN link[q][p][n] ELSE link[q][p][n + 1]
          BY <5>1, Removed
        <5>3. Len(link[q][p]) \in Nat
          BY <5>1, LenProperties
        <5>4. \E j \in 1 .. Len(net[q][p]) : net[q][p][j] = link[q][p][i]
          <6>1. CASE i < k
            <7>1. i \in 1 .. Len(link[q][p]) - 1
              BY <5>1, <5>3, <6>1
            <7> QED
              BY <5>2, <6>1, <7>1
          <6>2. CASE i > k
            <7>1. i - 1 \in 1 .. Len(link[q][p]) - 1 /\ ~(i - 1 < k) /\ (i - 1) + 1 = i
              BY <5>1, <5>3, <6>2
            <7> QED
              BY <5>2, <7>1
          <6> QED
            BY <4>3, <5>1, <6>1, <6>2
        <5> QED
          BY <3>2, <4>1, <5>4 DEF Tells
      <4> QED
        BY <4>2, <4>3
    <3> QED
      BY <3>1, <3>2
  <2> HIDE DEF m
  <2>7. ASSUME NEW a \in Player
        PROVE  Told(a)'
    BY <2>2, <2>3, <2>5, <2>6, ToldKept
  <2> QED
    BY <2>7 DEF ToldInv
<1>12. CASE UNCHANGED vars
  BY <1>12 DEF vars, local, menu, known, peers, ToldInv, Told, Alive
<1> QED
  BY <1>1, <1>2, <1>3, <1>4, <1>6, <1>7, <1>8, <1>9, <1>10, <1>11, <1>12, SomethingArrives DEF Next
----------------------------------------------------------------------------
(* Everything stands still until the lost player is disconnected.          *)
Quiet == inOrder /\ orderly /\ AtMostOneGone /\ silent # {} /\ issued = {}

LEMMA StillFrom ==
  ASSUME TypeOK, TypeOK', LinkInv, Still, [Next]_vars, NEW p \in Player, NEW New, FromNet(link, p, New),
         \A m \in New : m.type = "DISCONNECTVOTE", UNCHANGED <<frame, conn, data, screen, notified, frames>>
  PROVE  Still'
<1>1. ASSUME NEW a \in Player, NEW b \in Player, NEW i \in 1 .. Len(link'[a][b])
      PROVE  link'[a][b][i].type = "DISCONNECTVOTE"
  <2>1. link'[a][b][i] \in New \/ \E j \in 1 .. Len(link[a][b]) : link'[a][b][i] = link[a][b][j]
    BY LinkWithin, MessagesFrom
  <2> QED
    BY <2>1 DEF Still
<1>2. \A a \in Player : Ready(a)' <=> Ready(a)
  BY DEF Ready
<1>3. \A a \in Player : Alive(a)' => Alive(a)
  BY StatusStep
<1>4. \A a \in Player : Alive(a)' => Stuck(a)' /\ notified'[a]
  BY <1>2, <1>3 DEF Still, Stuck
<1>5. \A a, b \in Player : Alive(a)' /\ Alive(b)' => frames'[a][b] = frame'[b]
  BY <1>3 DEF Still
<1> QED
  BY <1>1, <1>4, <1>5 DEF Still

LEMMA StillBegins ==
  ASSUME Inv0, OwnInv, NewsInv, ToldInv, inOrder, orderly, silent = {}, NEW q \in Player, MinutePasses(q)
  PROVE  Still'
<1> USE DEF Inv0
<1>1. Settled /\ ~Alive(q) /\ UNCHANGED <<local, menu, known, peers, link>>
  BY DEF MinutePasses
<1>2. ASSUME NEW a \in Player, Alive(a)
      PROVE  Stuck(a) /\ notified[a] /\ conn[a] = Player
  <2>1. conn[a] = Player
    <3>1. conn[a] \subseteq Player
      BY TypeFacts
    <3>2. Player \ conn[a] \subseteq {}
      BY <1>2 DEF SilentInv
    <3> QED
      BY <3>1, <3>2
  <2>2. Others(a) # {}
    BY <1>1, <1>2, <2>1 DEF Others
  <2> QED
    BY <1>1, <1>2, <2>1, <2>2 DEF Settled
<1>3. ASSUME NEW a \in Player, NEW b \in Player, Alive(a), Alive(b)
      PROVE  frames[a][b] = frame[b]
  <2>1. Stuck(b) /\ notified[b] /\ conn[b] = Player /\ conn[a] = Player
    BY <1>2, <1>3
  <2>2. Bound(b) = frame[b] /\ Heard(a, b) \in Nat /\ frames[a][b] \in Nat /\ frame[b] \in Nat
    BY <2>1, StuckStays, HeardBound
  <2>3. frames[a][b] >= frame[b]
    <3>1. Told(b) /\ screen[b]
      BY <2>1 DEF ToldInv, Stuck
    <3>2. CASE a = b
      BY <1>3, <2>1, <3>1, <3>2 DEF Told
    <3>3. CASE a # b
      <4>1. ~Tells(link[b][a], frame[b])
        <5>1. link[b][a] = <<>>
          BY <1>1 DEF Settled
        <5> QED
          BY <5>1, EmptySeq DEF Tells
      <4> QED
        BY <1>3, <2>1, <3>1, <3>3, <4>1 DEF Told
    <3> QED
      BY <3>2, <3>3
  <2>4. frames[a][b] <= frame[b]
    <3>1. CASE a = b
      BY <3>1 DEF OwnInv
    <3>2. CASE a # b
      <4>1. Heard(a, b) <= Bound(b)
        BY <3>2 DEF NewsInv, Fresh
      <4>2. frames[a][b] <= Heard(a, b)
        BY <2>2 DEF Heard
      <4> QED
        BY <2>2, <4>1, <4>2
    <3> QED
      BY <3>1, <3>2
  <2> QED
    BY <2>2, <2>3, <2>4
<1>4. \A a, b \in Player : link[a][b] = <<>>
  BY <1>1 DEF Settled
<1>5. \A a \in Player : (Alive(a)' <=> Alive(a)) /\ (Stuck(a)' <=> Stuck(a))
  BY <1>1 DEF local, menu, peers, Alive, Stuck, Ready
<1>6. \A a, b \in Player : \A i \in 1 .. Len(link'[a][b]) : link'[a][b][i].type = "DISCONNECTVOTE"
  BY <1>1, <1>4, EmptySeq
<1> QED
  BY <1>1, <1>2, <1>3, <1>5, <1>6 DEF local, menu, known, Still

LEMMA StillStep ==
  ASSUME Inv0, Inv0', OwnInv, NewsInv, ToldInv, StillInv, [Next]_vars
  PROVE  StillInv'
<1> USE DEF Inv0
<1> SUFFICES ASSUME Quiet' PROVE Still'
  BY DEF StillInv, Quiet
<1>1. inOrder' /\ orderly' /\ AtMostOneGone' /\ silent' # {} /\ issued' = {}
  BY DEF Quiet
<1>2. \A a \in Player : Alive(a)' => Alive(a)
  BY StatusStep
<1>3. AtMostOneGone
  BY <1>1, <1>2 DEF AtMostOneGone
<1>4. \A s \in silent' : s \in Player /\ ~Alive(s)'
  BY DEF SilentInv, TypeOK
<1>5. ASSUME inOrder, orderly, issued = {}, silent # {}
      PROVE  Still
  BY <1>3, <1>5 DEF StillInv
<1>6. ASSUME NEW p \in Player, Alive(p), Still
      PROVE  ~Ready(p) /\ screen[p] /\ notified[p]
  BY <1>6 DEF Still, Stuck
<1>7. ASSUME NEW p \in Player, NEW q \in Player,
             ExecuteFrame(p) \/ AllCommandsReady(p) \/ TurnOnScreen(p) \/ NotifyOthersOfCurrentFrame(p)
      PROVE  FALSE
  <2>1. UNCHANGED <<inOrder, orderly, silent, issued>>
    BY <1>7 DEF ExecuteFrame, AllCommandsReady, TurnOnScreen, NotifyOthersOfCurrentFrame, history
  <2> QED
    BY <1>1, <1>5, <1>6, <1>7, <2>1 DEF ExecuteFrame, AllCommandsReady, TurnOnScreen, NotifyOthersOfCurrentFrame
<1>8. ASSUME NEW p \in Player, UpdateDisconnectStatus(p)
      PROVE  Still'
  <2>1. /\ issued' = issued \cup ({p} \X (conn[p] \ conn'[p]))
        /\ conn[p] \ conn'[p] = {} => UNCHANGED <<peers, link>>
    BY <1>8, UpdatePeers
  <2>2. conn[p] \ conn'[p] = {}
    <3> SUFFICES ASSUME NEW s \in conn[p] \ conn'[p] PROVE FALSE
      OBVIOUS
    <3>1. <<p, s>> \in issued'
      BY <2>1
    <3> QED
      BY <1>1, <3>1
  <2>3. UNCHANGED <<inOrder, orderly, silent, frame, status, screen, notified, frames>> /\ issued = {}
    BY <1>1, <1>8, <2>1 DEF UpdateDisconnectStatus, local, menu, known
  <2>4. Still
    BY <1>1, <1>5, <2>3
  <2>5. UNCHANGED <<conn, data, link>>
    BY <2>1, <2>2 DEF peers
  <2>6. FromNet(link, p, {})
    BY <2>5, SameNet
  <2> QED
    BY <2>3, <2>4, <2>5, <2>6, StillFrom
<1>9. ASSUME NEW p \in Player, QuitGame(p)
      PROVE  FALSE
  BY <1>1, <1>9 DEF QuitGame
<1>10. ASSUME NEW p \in Player, Die(p)
       PROVE  FALSE
  <2>1. /\ Alive(p) /\ UNCHANGED <<silent, orderly>> /\ ~Alive(p)'
    BY <1>10 DEF Die, Alive, TypeOK
  <2>2. PICK s \in silent : s \in Player /\ ~Alive(s)' /\ ~Alive(s)
    BY <1>1, <1>4, <2>1 DEF SilentInv
  <2> QED
    BY <1>1, <2>1, <2>2 DEF AtMostOneGone
<1>11. ASSUME NEW q \in Player, MinutePasses(q)
       PROVE  Still'
  <2>1. ~Alive(q) /\ q \notin silent /\ inOrder /\ orderly
    BY <1>1, <1>11 DEF MinutePasses
  <2>2. silent = {}
    BY <1>3, <2>1 DEF SilentInv, TypeOK, AtMostOneGone
  <2> QED
    BY <1>11, <2>1, <2>2, StillBegins
<1>12. ASSUME NEW p \in Player, NEW q \in Player, TimeOut(p, q)
       PROVE  Still'
  <2>1. UNCHANGED <<inOrder, orderly, silent, issued, frame, conn, data, screen, notified, frames, link>>
    BY <1>12 DEF TimeOut, local, known, peers, history
  <2>2. Still
    BY <1>1, <1>5, <2>1
  <2>3. FromNet(link, p, {})
    BY <2>1, SameNet
  <2> QED
    BY <2>1, <2>2, <2>3, StillFrom
<1>13. ASSUME NEW p \in Player, NEW s \in Player, VoteForPlayerDisconnect(p, s)
       PROVE  Still'
  <2>1. /\ UNCHANGED <<inOrder, silent, issued, frame, conn, data, screen, notified, frames>>
        /\ (orderly' => orderly)
        /\ FromNet(link, p, {Msg("DISCONNECTVOTE", p, frame[p], s)})
    BY <1>13, VoteLinks DEF VoteForPlayerDisconnect, local, menu, peers
  <2>2. Still
    BY <1>1, <1>5, <2>1
  <2>3. Msg("DISCONNECTVOTE", p, frame[p], s).type = "DISCONNECTVOTE"
    BY DEF Msg
  <2> QED
    BY <2>1, <2>2, <2>3, StillFrom
<1>14. ASSUME NEW p \in Player, NEW q \in Player, Lose(q, p)
       PROVE  Still'
  <2>1. /\ UNCHANGED <<inOrder, orderly, silent, issued, frame, conn, data, screen, notified, frames>>
        /\ FromNet(link, p, {})
    BY <1>14, LoseLinks DEF Lose, local, menu, known, peers, history
  <2>2. Still
    BY <1>1, <1>5, <2>1
  <2> QED
    BY <2>1, <2>2, StillFrom
<1>15. ASSUME NEW p \in Player, NEW q \in Player, NEW k \in DOMAIN link[q][p], NEW again,
              Arrives(p, q, k, again)
       PROVE  Still'
  <2> DEFINE m == link[q][p][k]
             net == Without(q, p, k, again)
  <2>1. Receive(p, q, k, again) /\ inOrder /\ orderly' = orderly
    BY <1>1, <1>15 DEF Arrives
  <2>2. /\ Taken(net, p, q, k, again) /\ Got(p, q, m, net)
        /\ UNCHANGED <<status, frame, screen, notified, silent, issued>>
    BY <2>1, ReceiveIs DEF local, menu
  <2>3. Still
    BY <1>1, <1>5, <2>1, <2>2
  <2>4. m.type = "DISCONNECTVOTE"
    BY <2>2, <2>3 DEF Still, Taken
  <2>5. Within(net)
    BY <2>2, TakenWithin
  <2> HIDE DEF m, net
  <2>6. link' = net /\ UNCHANGED <<frames, conn, data>>
    BY <2>2, <2>4 DEF Got, peers
  <2>7. \A a, b \in Player : \A i \in 1 .. Len(link'[a][b]) : link'[a][b][i].type = "DISCONNECTVOTE"
    <3> SUFFICES ASSUME NEW a \in Player, NEW b \in Player, NEW i \in 1 .. Len(link'[a][b])
                 PROVE  link'[a][b][i].type = "DISCONNECTVOTE"
      OBVIOUS
    <3>1. PICK j \in 1 .. Len(link[a][b]) : net[a][b][i] = link[a][b][j]
      BY <2>5, <2>6 DEF Within
    <3> QED
      BY <2>3, <2>6, <3>1 DEF Still
  <2>8. \A a \in Player : (Alive(a)' <=> Alive(a)) /\ (Stuck(a)' <=> Stuck(a))
    BY <2>2, <2>6 DEF Alive, Stuck, Ready
  <2> QED
    BY <2>2, <2>3, <2>6, <2>7, <2>8 DEF Still
<1>16. CASE UNCHANGED vars
  <2>1. UNCHANGED <<inOrder, orderly, silent, issued, frame, conn, data, screen, notified, frames, link>>
    BY <1>16 DEF vars, local, menu, known, peers, history
  <2>2. Still
    BY <1>1, <1>5, <2>1
  <2>3. PICK p \in Player : FromNet(link, p, {})
    BY <2>1, SameNet, Constants
  <2> QED
    BY <2>1, <2>2, <2>3, StillFrom
<1> QED
  BY <1>7, <1>8, <1>9, <1>10, <1>11, <1>12, <1>13, <1>14, <1>15, <1>16, SomethingArrives DEF Next

Inv2 == ToldInv /\ StillInv

LEMMA Inv2Always == Spec => []Inv2
<1>1. Init => Inv2
  BY DEF Init, Inv2, ToldInv, Told, StillInv
<1>2. Inv0 /\ Inv0' /\ Inv1 /\ Inv2 /\ [Next]_vars => Inv2'
  BY ToldStep, StillStep DEF Inv0, Inv1, Inv2
<1> QED
  BY <1>1, <1>2, Inv0Always, Inv1Always, PTL DEF Spec

----------------------------------------------------------------------------
(* Only the next packet router's pass over the slots disconnects.          *)
LEMMA WhoIssues ==
  ASSUME TypeOK, LinkInv, [Next]_vars, issued' # issued
  PROVE  \E p \in Player : UpdateDisconnectStatus(p)
<1>1. ASSUME NEW p \in Player, NEW q \in Player, NEW k \in DOMAIN link[q][p], NEW again, Arrives(p, q, k, again)
      PROVE  issued' = issued
  BY <1>1 DEF Arrives, Receive
<1>2. ASSUME NEW p \in Player, QuitGame(p) \/ Die(p) \/ MinutePasses(p) \/ TurnOnScreen(p)
      PROVE  issued' = issued
  BY <1>2 DEF QuitGame, Die, MinutePasses, TurnOnScreen
<1>3. ASSUME NEW p \in Player, NEW q \in Player,
             \/ ExecuteFrame(p) \/ AllCommandsReady(p) \/ NotifyOthersOfCurrentFrame(p)
             \/ TimeOut(p, q) \/ Lose(p, q)
      PROVE  issued' = issued
  BY <1>3 DEF ExecuteFrame, AllCommandsReady, NotifyOthersOfCurrentFrame, TimeOut, Lose, history
<1>4. ASSUME NEW p \in Player, NEW q \in Player, VoteForPlayerDisconnect(p, q)
      PROVE  issued' = issued
  BY <1>4 DEF VoteForPlayerDisconnect
<1>5. UNCHANGED vars => issued' = issued
  BY DEF vars, history
<1> QED
  BY <1>1, <1>2, <1>3, <1>4, <1>5, SomethingArrives DEF Next

LEMMA TogetherStep ==
  ASSUME Inv0, IssuedInv, Inv2, [Next]_vars, inOrder, orderly, AtMostOneGone,
         NEW i \in issued' \ issued, NEW q \in conn'[i[1]], Alive(q)
  PROVE  frame[q] = frame[i[1]]
<1> USE DEF Inv0
<1>1. PICK p \in Player : UpdateDisconnectStatus(p)
  BY WhoIssues
<1> DEFINE lost == conn[p] \ conn'[p]
<1>2. /\ issued' = issued \cup ({p} \X lost) /\ lost \subseteq silent /\ PeersGo(p, lost)
  BY <1>1, UpdatePeers
<1>3. Alive(p) /\ AllOnSameFrame(p) /\ Router(InGame(p)) = p
  BY <1>1 DEF UpdateDisconnectStatus, IsLocalPlayerNextPacketRouter
<1> HIDE DEF lost
<1>4. i[1] = p /\ i[2] \in lost
  BY <1>2
<1>5. i[2] \in silent /\ i[2] \in Player /\ ~Alive(i[2]) /\ i[2] \in conn[p]
  BY <1>2, <1>4 DEF SilentInv, TypeOK, lost
<1>6. q \in Player /\ q \in InGame(p) /\ InGame(p) \in SUBSET Player
  BY <1>2, <1>4, LivingInGame, TypeFacts DEF PeersGo, InGame
<1>7. issued = {}
  <2> SUFFICES ASSUME NEW j \in issued PROVE FALSE
    OBVIOUS
  <2>1. j[1] \in Player /\ j[2] \in Player /\ j[2] \notin conn[j[1]] /\ j[2] \in silent
    BY DEF TypeOK, IssuedInv
  <2>2. j[1] # j[2] /\ ~Alive(j[2])
    BY <2>1, TypeFacts DEF SilentInv
  <2>3. j[2] = i[2] /\ Alive(j[1])
    BY <1>5, <2>1, <2>2 DEF AtMostOneGone
  <2>4. j[1] <= p
    BY <1>3, <2>3 DEF IssuedInv
  <2>5. p <= j[1]
    <3>1. j[1] \in InGame(p)
      BY <2>1, <2>3, LivingInGame
    <3>2. Lowest(InGame(p)) <= j[1]
      BY <1>6, <3>1, LowestIs
    <3> QED
      BY <1>3, <3>2 DEF Router
  <2>6. j[1] = p
    <3>1. p \in Nat /\ j[1] \in Nat
      BY <2>1, Constants
    <3> QED
      BY <2>4, <2>5, <3>1
  <2> QED
    BY <1>5, <2>1, <2>3, <2>6
<1>8. Still
  BY <1>5, <1>7 DEF Inv2, StillInv
<1>9. frames[p][q] = frame[q] /\ frames[p][p] = frame[p]
  BY <1>3, <1>6, <1>8 DEF Still
<1> QED
  BY <1>3, <1>4, <1>6, <1>9 DEF AllOnSameFrame

(* Whoever disconnects a player who has been lost is right about where the *)
(* others stand: none has gone on meanwhile, for nothing is under way that *)
(* could let it.                                                           *)
THEOREM DisconnectsTogether == Spec => DisconnectedTogether
<1>1. Inv0 /\ IssuedInv /\ Inv2 /\ [Next]_vars =>
        [inOrder /\ orderly /\ AtMostOneGone =>
           \A i \in issued' \ issued : \A q \in conn'[i[1]] : Alive(q) => frame[q] = frame[i[1]]]_vars
  BY TogetherStep
<1> QED
  BY <1>1, Inv0Always, IssuedAlways, Inv2Always, PTL DEF Spec, DisconnectedTogether

----------------------------------------------------------------------------
(* Players of up to three execute the same.                                *)

(* Until somebody disconnects a player, nobody has been told to.           *)
NoCommandInv ==
  orderly /\ issued = {} =>
    \A a, b \in Player : \A i \in 1 .. Len(link[a][b]) : link[a][b][i].type # "DISCONNECTPLAYER"

(* What has been executed before frame n: the commands of all; or those of *)
(* all before frame g, and of all but s from there on.                     *)
Through(n) == (FirstFrame .. n - 1) \X Player
Parted(g, n, s) == Through(g) \cup ((g .. n - 1) \X (Player \ {s}))

(* In t, p's command to disconnect s comes before anything but votes.      *)
Announces(t, p, s) ==
  \E k \in 1 .. Len(t) :
    /\ t[k].type = "DISCONNECTPLAYER" /\ t[k].player = p /\ t[k].slot = s
    /\ \A j \in 1 .. Len(t) : j < k => t[j].type = "DISCONNECTVOTE"
OnlyVotes(t) == \A i \in 1 .. Len(t) : t[i].type = "DISCONNECTVOTE"

(* q stands still until it is told by p to disconnect s: before that, not  *)
(* even a command of some other player can come.                           *)
Waits(p, q, s) ==
  /\ Stuck(q) /\ notified[q] /\ Announces(link[p][q], p, s)
  /\ \A a, b \in Player : a # p => OnlyVotes(link[a][b])

(* Of p and q, neither has disconnected anybody; or p has disconnected s   *)
(* and q has yet to; or both have, on the same frame.                      *)
Unparted(p, q) ==
  /\ conn[p] = Player /\ executed[p] = Through(frame[p])
  /\ conn[q] = Player /\ executed[q] = Through(frame[q])
Parts(p, q, s) ==
  /\ conn[p] = Player \ {s} /\ conn[q] = Player /\ frame[q] <= frame[p]
  /\ executed[p] = Parted(frame[q], frame[p], s) /\ executed[q] = Through(frame[q])
  /\ Waits(p, q, s)
HaveParted(p, q, s) ==
  /\ conn[p] = Player \ {s} /\ conn[q] = Player \ {s}
  /\ \E g \in Frame : /\ g <= frame[p] /\ executed[p] = Parted(g, frame[p], s)
                      /\ g <= frame[q] /\ executed[q] = Parted(g, frame[q], s)
Pair(p, q) ==
  Unparted(p, q) \/ \E s \in silent : Parts(p, q, s) \/ Parts(q, p, s) \/ HaveParted(p, q, s)
PairInv ==
  inOrder /\ orderly /\ Cardinality(Player) <= 3 =>
    \A p, q \in Player : p # q /\ Alive(p) /\ Alive(q) => Pair(p, q)

(* What has got out of order stays so; who is silent or disconnected too.  *)
LEMMA HistoryStep ==
  ASSUME TypeOK, LinkInv, KnownInv, SilentInv, [Next]_vars
  PROVE  /\ inOrder' => inOrder
         /\ orderly' => orderly
         /\ silent \subseteq silent' /\ issued \subseteq issued'
<1>1. ASSUME NEW p \in Player, NEW q \in Player, NEW k \in DOMAIN link[q][p], NEW again, Arrives(p, q, k, again)
      PROVE  (inOrder' => inOrder) /\ orderly' = orderly /\ UNCHANGED <<silent, issued>>
  BY <1>1 DEF Arrives, Receive
<1>2. ASSUME NEW p \in Player, QuitGame(p) \/ Die(p) \/ MinutePasses(p) \/ TurnOnScreen(p)
      PROVE  /\ inOrder' = inOrder /\ (orderly' => orderly)
             /\ silent \subseteq silent' /\ issued' = issued
  BY <1>2 DEF QuitGame, Die, MinutePasses, TurnOnScreen
<1>3. ASSUME NEW p \in Player, NEW q \in Player,
             \/ ExecuteFrame(p) \/ AllCommandsReady(p) \/ NotifyOthersOfCurrentFrame(p)
             \/ TimeOut(p, q) \/ Lose(p, q)
      PROVE  UNCHANGED <<inOrder, orderly, silent, issued>>
  BY <1>3 DEF ExecuteFrame, AllCommandsReady, NotifyOthersOfCurrentFrame, TimeOut, Lose, history
<1>4. ASSUME NEW p \in Player, NEW q \in Player, VoteForPlayerDisconnect(p, q)
      PROVE  UNCHANGED <<inOrder, silent, issued>> /\ (orderly' => orderly)
  BY <1>4 DEF VoteForPlayerDisconnect
<1>5. ASSUME NEW p \in Player, UpdateDisconnectStatus(p)
      PROVE  UNCHANGED <<inOrder, orderly, silent>> /\ issued \subseteq issued'
  BY <1>5 DEF UpdateDisconnectStatus
<1>6. UNCHANGED vars => UNCHANGED <<inOrder, orderly, silent, issued>>
  BY DEF vars, history
<1> QED
  BY <1>1, <1>2, <1>3, <1>4, <1>5, <1>6, SomethingArrives DEF Next

(* A frame is executed, or nobody's frame changes.                         *)
LEMMA FramesStep ==
  ASSUME TypeOK, [Next]_vars, NEW a \in Player
  PROVE  \/ UNCHANGED <<frame[a], executed[a]>>
         \/ /\ ExecuteFrame(a) /\ conn' = conn /\ frame'[a] = frame[a] + 1
            /\ executed'[a] = executed[a] \cup ({frame[a]} \X conn[a])
            /\ \A b \in Player : b # a => frame'[b] = frame[b]
<1>1. ASSUME NEW p \in Player, ExecuteFrame(p)
      PROVE  /\ conn' = conn /\ frame'[p] = frame[p] + 1
             /\ executed'[p] = executed[p] \cup ({frame[p]} \X conn[p])
             /\ \A b \in Player : b # p => frame'[b] = frame[b] /\ executed'[b] = executed[b]
  BY <1>1 DEF ExecuteFrame, TypeOK
<1>2. ASSUME NEW q \in Player, NEW r \in Player, ReceiveNext(q, r) \/ ReceiveOutOfOrder(q, r)
      PROVE  UNCHANGED <<frame, executed>>
  BY <1>2 DEF ReceiveNext, ReceiveOutOfOrder, Receive, local
<1>3. ASSUME NEW q \in Player,
             \/ AllCommandsReady(q) \/ TurnOnScreen(q) \/ NotifyOthersOfCurrentFrame(q)
             \/ UpdateDisconnectStatus(q) \/ MinutePasses(q) \/ QuitGame(q) \/ Die(q)
             \/ \E r \in Player : TimeOut(q, r) \/ VoteForPlayerDisconnect(q, r) \/ Lose(q, r)
      PROVE  UNCHANGED <<frame, executed>>
  BY <1>3 DEF AllCommandsReady, TurnOnScreen, NotifyOthersOfCurrentFrame, QuitGame, Die,
              UpdateDisconnectStatus, MinutePasses, TimeOut, VoteForPlayerDisconnect, Lose, local
<1>4. UNCHANGED vars => UNCHANGED <<frame, executed>>
  BY DEF vars, local
<1> QED
  BY <1>1, <1>2, <1>3, <1>4 DEF Next

(* Somebody's connections change when it passes over the slots or is told  *)
(* to; everybody else's stay as they are.                                  *)
LEMMA ConnStep ==
  ASSUME Inv0, [Next]_vars, orderly', NEW a \in Player, conn'[a] # conn[a]
  PROVE  \/ UpdateDisconnectStatus(a)
         \/ \E q \in Player : \E k \in DOMAIN link[q][a] : \E again :
              Arrives(a, q, k, again) /\ link[q][a][k].type = "DISCONNECTPLAYER"
<1> USE DEF Inv0
<1>1. ASSUME NEW p \in Player, NEW q \in Player, NEW k \in DOMAIN link[q][p], NEW again,
             Arrives(p, q, k, again), ~(p = a /\ link[q][p][k].type = "DISCONNECTPLAYER")
      PROVE  FALSE
  <2> DEFINE m == link[q][p][k]
  <2>1. PeersGo(p, Dropped(p, m))
    BY <1>1, ReceiveIs DEF Arrives, Got
  <2>2. p = a
    BY <2>1 DEF PeersGo
  <2> QED
    BY <1>1, <2>1, <2>2 DEF PeersGo, Dropped
<1>2. ASSUME NEW p \in Player, UpdateDisconnectStatus(p)
      PROVE  p = a
  BY <1>2, UpdatePeers DEF PeersGo
<1>3. ASSUME NEW p \in Player, QuitGame(p)
      PROVE  FALSE
  BY <1>3 DEF QuitGame
<1>4. ASSUME NEW p \in Player, NEW q \in Player,
             \/ ExecuteFrame(p) \/ AllCommandsReady(p) \/ TurnOnScreen(p) \/ NotifyOthersOfCurrentFrame(p)
             \/ Die(p) \/ MinutePasses(p) \/ TimeOut(p, q) \/ VoteForPlayerDisconnect(p, q) \/ Lose(p, q)
      PROVE  FALSE
  BY <1>4 DEF ExecuteFrame, AllCommandsReady, TurnOnScreen, NotifyOthersOfCurrentFrame, Die, MinutePasses,
              TimeOut, VoteForPlayerDisconnect, Lose, peers
<1>5. UNCHANGED vars => FALSE
  BY DEF vars, peers
<1> QED
  BY <1>1, <1>2, <1>3, <1>4, <1>5, SomethingArrives DEF Next

LEMMA NoCommandStep ==
  ASSUME Inv0, NoCommandInv, [Next]_vars
  PROVE  NoCommandInv'
<1> USE DEF Inv0
<1> SUFFICES ASSUME orderly', issued' = {}
             PROVE  \A a, b \in Player : \A i \in 1 .. Len(link'[a][b]) : link'[a][b][i].type # "DISCONNECTPLAYER"
  BY DEF NoCommandInv
<1>1. \A a, b \in Player : \A i \in 1 .. Len(link[a][b]) : link[a][b][i].type # "DISCONNECTPLAYER"
  BY HistoryStep DEF NoCommandInv
<1>2. ASSUME NEW p \in Player, NEW net, Within(net), NEW New, FromNet(net, p, New),
             \A m \in New : m.type # "DISCONNECTPLAYER"
      PROVE  \A a, b \in Player : \A i \in 1 .. Len(link'[a][b]) : link'[a][b][i].type # "DISCONNECTPLAYER"
  <2> SUFFICES ASSUME NEW a \in Player, NEW b \in Player, NEW i \in 1 .. Len(link'[a][b])
               PROVE  link'[a][b][i].type # "DISCONNECTPLAYER"
    OBVIOUS
  <2> QED
    BY <1>1, <1>2, MessagesFrom
<1>3. Within(link) /\ \A m \in DataMsg : m.type # "DISCONNECTPLAYER"
  BY LinkWithin DEF DataMsg
<1>4. ASSUME link' = link
      PROVE  \A a, b \in Player : \A i \in 1 .. Len(link'[a][b]) : link'[a][b][i].type # "DISCONNECTPLAYER"
  BY <1>1, <1>4
<1>5. ASSUME NEW p \in Player, ExecuteFrame(p)
      PROVE  \A a, b \in Player : \A i \in 1 .. Len(link'[a][b]) : link'[a][b][i].type # "DISCONNECTPLAYER"
  <2>1. FromNet(link, p, DataMsg)
    BY <1>5, ExecuteLinks
  <2> QED
    BY <1>2, <1>3, <2>1
<1>6. ASSUME NEW p \in Player, AllCommandsReady(p)
      PROVE  \A a, b \in Player : \A i \in 1 .. Len(link'[a][b]) : link'[a][b][i].type # "DISCONNECTPLAYER"
  <2>1. FromNet(link, p, {Msg("DISCONNECTSCREENOFF", p, frame[p], p)})
    BY <1>6, ReadyLinks
  <2>2. \A m \in {Msg("DISCONNECTSCREENOFF", p, frame[p], p)} : m.type # "DISCONNECTPLAYER"
    BY DEF Msg
  <2> QED
    BY <1>2, <1>3, <2>1, <2>2
<1>7. ASSUME NEW p \in Player, NotifyOthersOfCurrentFrame(p)
      PROVE  \A a, b \in Player : \A i \in 1 .. Len(link'[a][b]) : link'[a][b][i].type # "DISCONNECTPLAYER"
  <2>1. FromNet(link, p, DataMsg \cup {Msg("DISCONNECTFRAME", p, frame[p], p)})
    BY <1>7, NotifyLinks
  <2>2. \A m \in DataMsg \cup {Msg("DISCONNECTFRAME", p, frame[p], p)} : m.type # "DISCONNECTPLAYER"
    BY <1>3 DEF Msg
  <2> QED
    BY <1>2, <1>3, <2>1, <2>2
<1>8. ASSUME NEW p \in Player, NEW s \in Player, VoteForPlayerDisconnect(p, s)
      PROVE  \A a, b \in Player : \A i \in 1 .. Len(link'[a][b]) : link'[a][b][i].type # "DISCONNECTPLAYER"
  <2>1. FromNet(link, p, {Msg("DISCONNECTVOTE", p, frame[p], s)})
    BY <1>8, VoteLinks
  <2>2. \A m \in {Msg("DISCONNECTVOTE", p, frame[p], s)} : m.type # "DISCONNECTPLAYER"
    BY DEF Msg
  <2> QED
    BY <1>2, <1>3, <2>1, <2>2
<1>9. ASSUME NEW p \in Player, UpdateDisconnectStatus(p)
      PROVE  link' = link
  <2>1. /\ issued' = issued \cup ({p} \X (conn[p] \ conn'[p]))
        /\ conn[p] \ conn'[p] = {} => UNCHANGED <<peers, link>>
    BY <1>9, UpdatePeers
  <2>2. conn[p] \ conn'[p] = {}
    <3> SUFFICES ASSUME NEW s \in conn[p] \ conn'[p] PROVE FALSE
      OBVIOUS
    <3>1. <<p, s>> \in {p} \X (conn[p] \ conn'[p])
      OBVIOUS
    <3> QED
      BY <2>1, <3>1
  <2> QED
    BY <2>1, <2>2
<1>10. ASSUME NEW p \in Player, QuitGame(p)
       PROVE  FALSE
  BY <1>10 DEF QuitGame
<1>11. ASSUME NEW p \in Player, NEW q \in Player, Die(p) \/ Lose(q, p)
       PROVE  \A a, b \in Player : \A i \in 1 .. Len(link'[a][b]) : link'[a][b][i].type # "DISCONNECTPLAYER"
  <2>1. FromNet(link, p, {})
    BY <1>11, DieLinks, LoseLinks
  <2> QED
    BY <1>2, <1>3, <2>1
<1>12. ASSUME NEW p \in Player, NEW q \in Player, TurnOnScreen(p) \/ MinutePasses(p) \/ TimeOut(p, q)
       PROVE  link' = link
  BY <1>12 DEF TurnOnScreen, MinutePasses, TimeOut
<1>13. ASSUME NEW p \in Player, NEW q \in Player, NEW k \in DOMAIN link[q][p], NEW again,
              Arrives(p, q, k, again)
       PROVE  \A a, b \in Player : \A i \in 1 .. Len(link'[a][b]) : link'[a][b][i].type # "DISCONNECTPLAYER"
  <2> DEFINE net == Without(q, p, k, again)
  <2>1. Taken(net, p, q, k, again) /\ FromNet(net, p, DataMsg)
    BY <1>13, ReceiveIs DEF Arrives, Got
  <2> HIDE DEF net
  <2>2. Within(net)
    BY <2>1, TakenWithin
  <2> QED
    BY <1>2, <1>3, <2>1, <2>2
<1>14. UNCHANGED vars => link' = link
  BY DEF vars
<1> QED
  BY <1>4, <1>5, <1>6, <1>7, <1>8, <1>9, <1>10, <1>11, <1>12, <1>13, <1>14, SomethingArrives DEF Next

LEMMA NoCommandInit == Init => NoCommandInv
<1> SUFFICES ASSUME Init PROVE NoCommandInv
  OBVIOUS
<1>1. \A q \in Player : link[q] \in [Player -> Seq(DataMsg)]
  BY UnderWayIs, SendLocalIs DEF Init
<1>2. ASSUME NEW q \in Player, NEW p \in Player, NEW i \in 1 .. Len(link[q][p])
      PROVE  link[q][p][i] \in DataMsg
  <2>1. link[q][p] \in Seq(DataMsg)
    BY <1>1
  <2> QED
    BY <2>1, ElementOfSeq
<1> QED
  BY <1>2 DEF NoCommandInv, DataMsg

(* A command stays announced when more is sent.                            *)
LEMMA AnnouncesGrown ==
  ASSUME NEW s \in Seq(Message), NEW t, NEW New, Grown(s, t, New), NEW p, NEW x, Announces(s, p, x)
  PROVE  Announces(t, p, x)
<1>1. Len(s) \in Nat /\ Len(t) \in Nat /\ Len(s) <= Len(t) /\ \A i \in 1 .. Len(s) : t[i] = s[i]
  BY LenProperties DEF Grown
<1>2. PICK k \in 1 .. Len(s) :
        /\ s[k].type = "DISCONNECTPLAYER" /\ s[k].player = p /\ s[k].slot = x
        /\ \A j \in 1 .. Len(s) : j < k => s[j].type = "DISCONNECTVOTE"
  BY DEF Announces
<1>3. k \in 1 .. Len(t) /\ t[k] = s[k]
  BY <1>1, <1>2
<1>4. ASSUME NEW j \in 1 .. Len(t), j < k
      PROVE  t[j].type = "DISCONNECTVOTE"
  <2>1. j \in 1 .. Len(s)
    BY <1>1, <1>4
  <2> QED
    BY <1>1, <1>2, <1>4, <2>1
<1> QED
  BY <1>2, <1>3, <1>4 DEF Announces

LEMMA AnnouncesLast ==
  ASSUME NEW s \in Seq(Message), OnlyVotes(s), NEW m \in Message, m.type = "DISCONNECTPLAYER"
  PROVE  Announces(s \o <<m>>, m.player, m.slot)
<1>1. Len(s) \in Nat /\ <<m>> \in Seq(Message) /\ Len(<<m>>) = 1 /\ <<m>>[1] = m
  BY LenProperties
<1> DEFINE o == <<m>>
           t == s \o o
<1>2. o \in Seq(Message) /\ Len(o) = 1 /\ o[1] = m
  BY <1>1
<1> HIDE DEF o
<1>3. /\ Len(t) = Len(s) + Len(o)
      /\ \A i \in 1 .. Len(s) + Len(o) : t[i] = IF i <= Len(s) THEN s[i] ELSE o[i - Len(s)]
  BY <1>2, ConcatProperties
<1> DEFINE k == Len(s) + 1
<1>4. k \in 1 .. Len(t) /\ t[k] = m
  <2>1. k \in 1 .. Len(s) + Len(o) /\ ~(k <= Len(s)) /\ k - Len(s) = 1
    BY <1>1, <1>2
  <2> QED
    BY <1>2, <1>3, <2>1
<1>5. ASSUME NEW j \in 1 .. Len(t), j < k
      PROVE  t[j].type = "DISCONNECTVOTE"
  <2>1. j \in 1 .. Len(s) /\ t[j] = s[j]
    BY <1>1, <1>2, <1>3, <1>5
  <2> QED
    BY <2>1 DEF OnlyVotes
<1> HIDE DEF k, t
<1>6. Announces(t, m.player, m.slot)
  BY <1>4, <1>5 DEF Announces
<1> QED
  BY <1>6 DEF t, o

(* As soon as p's pass over the slots has disconnected somebody, the first *)
(* command of it is on its way to q.                                       *)
Announced(p, q, st) ==
  conn[p] \ st.conn # {} => \E s \in conn[p] \ st.conn : Announces(st.link[p][q], p, s)

LEMMA AnnouncedGoesOn ==
  ASSUME TypeOK, KnownInv, SilentInv, orderly, NEW p \in Player, NEW q \in Player, q # p, Alive(q),
         OnlyVotes(link[p][q]), NEW s, NEW st \in Passed(p), Announced(p, q, st)
  PROVE  Announced(p, q, Disconnect(p, s, st))
<1>1. CASE s \notin Out(p, st.conn)
  BY <1>1 DEF Disconnect
<1>2. CASE s \in Out(p, st.conn)
  <2> DEFINE m == Msg("DISCONNECTPLAYER", p, GetMaxDisconnectFrame(p), s)
             out == ToAll(st.conn, m)
             told == SendDisconnectCommand(p, s, st)
             cut == DisconnectPlayer(p, s, told)
             end == SendPlayerDestruct(p, s, cut)
             lost == conn[p] \ st.conn
  <2>1. /\ st \in PeersSet /\ p \in st.conn /\ st.conn \subseteq conn[p] /\ lost \subseteq silent
        /\ lost = {} => st = Peers(p, link)
    BY DEF Passed
  <2>2. st.link \in Nets /\ st.conn \in SUBSET Player /\ conn[p] \subseteq Player
    BY <2>1, TypeFacts DEF PeersSet
  <2>3. s \in st.conn /\ s # p /\ s \in Player /\ s \in silent
    BY <1>2, <2>1, <2>2, OutIsSilent DEF Out
  <2>4. q \in st.conn /\ q # s
    <3>1. q \notin silent /\ Player \ conn[p] \subseteq silent
      BY DEF SilentInv
    <3> QED
      BY <2>1, <2>3, <3>1
  <2>5. m \in Message /\ m.type = "DISCONNECTPLAYER" /\ m.player = p /\ m.slot = s
    BY <2>3, MaxDisconnectFrame, MsgIs
  <2> HIDE DEF m
  <2> DEFINE New == {m}
  <2>6. out \in [Player -> Seq(New)] /\ New \subseteq Message /\ out[q] = <<m>>
    <3>1. out \in [Player -> Seq(New)]
      BY ToAllIs
    <3>2. out[q] = <<m>>
      BY <2>4, <2>5 DEF ToAll
    <3> QED
      BY <2>5, <3>1, <3>2
  <2>7. told = [st EXCEPT !.link = Sent(@, p, out)]
    BY DEF SendDisconnectCommand, m
  <2> DEFINE net == Sent(st.link, p, out)
  <2> HIDE DEF out, New
  <2>8. net \in Nets /\ net[p][q] = st.link[p][q] \o <<m>> /\ Grown(st.link[p][q], net[p][q], New)
    <3>1. Extended(st.link, net, p, New)
      BY <2>2, <2>6, SentIs
    <3>2. Sent(st.link, p, out)[p][q] = st.link[p][q] \o out[q]
      BY <2>2 DEF Sent, Nets
    <3> QED
      BY <2>6, <3>1, <3>2 DEF Extended
  <2>9. told = [st EXCEPT !.link = net]
    BY <2>7
  <2> HIDE DEF net, told
  <2>10. told \in PeersSet /\ told.conn = st.conn /\ told.link = net
    BY <2>1, <2>8, <2>9 DEF PeersSet
  <2>11. Lost(p, s, told, cut)
    BY <2>1, <2>3, <2>10, DisconnectPlayerIs
  <2> HIDE DEF cut
  <2>12. cut \in PeersSet /\ cut.conn = st.conn \ {s} /\ Grown(net[p][q], cut.link[p][q], DataMsg)
    BY <2>3, <2>4, <2>10, <2>11 DEF Lost
  <2>13. end.conn = cut.conn /\ end.link = cut.link
    BY <2>12 DEF SendPlayerDestruct, PeersSet
  <2> HIDE DEF end
  <2>14. st.link[p][q] \in Seq(Message) /\ net[p][q] \in Seq(Message)
    BY <2>2, <2>8 DEF Nets
  <2>15. ASSUME NEW x, Announces(net[p][q], p, x)
         PROVE  Announces(end.link[p][q], p, x)
    BY <2>12, <2>13, <2>14, <2>15, AnnouncesGrown
  <2>16. \E x \in lost \cup {s} : Announces(net[p][q], p, x)
    <3>1. CASE lost = {}
      <4>1. st.link = link
        BY <2>1, <3>1, TypeFacts, PeersIs
      <4>2. Announces(net[p][q], m.player, m.slot)
        BY <2>5, <2>8, <2>14, <4>1, AnnouncesLast
      <4> QED
        BY <2>5, <4>2
    <3>2. CASE lost # {}
      <4>1. PICK x \in lost : Announces(st.link[p][q], p, x)
        BY <3>2 DEF Announced
      <4>2. Announces(net[p][q], p, x)
        BY <2>8, <2>14, <4>1, AnnouncesGrown
      <4> QED
        BY <4>2
    <3> QED
      BY <3>1, <3>2
  <2>17. lost \cup {s} \subseteq conn[p] \ end.conn
    BY <2>1, <2>3, <2>12, <2>13
  <2>18. Announced(p, q, end)
    BY <2>15, <2>16, <2>17 DEF Announced
  <2> QED
    BY <1>2, <2>18 DEF Disconnect, end, cut, told
<1> QED
  BY <1>1, <1>2

LEMMA UpdateAnnounces ==
  ASSUME TypeOK, KnownInv, SilentInv, orderly, NEW p \in Player, NEW q \in Player, q # p, Alive(q),
         OnlyVotes(link[p][q]), UpdateDisconnectStatus(p), conn'[p] # conn[p]
  PROVE  \E s \in conn[p] \ conn'[p] : Announces(link'[p][q], p, s)
<1> DEFINE g == AfterSlots(p)
           Bad == {n \in 0 .. MAX_SLOTS : ~(g[n] \in Passed(p) /\ Announced(p, q, g[n]))}
<1>1. MAX_SLOTS \in Nat
  BY Constants
<1>2. PassOf(p, MAX_SLOTS, g)
  <2>1. \E f : PassOf(p, MAX_SLOTS, f)
    BY <1>1, PassExists
  <2> QED
    BY <2>1 DEF AfterSlots, PassOf
<1>3. conn'[p] = g[MAX_SLOTS].conn /\ link' = g[MAX_SLOTS].link
  BY DEF UpdateDisconnectStatus, Become, TypeOK
<1>4. conn'[p] \subseteq conn[p]
  BY UpdatePeers DEF PeersGo
<1> HIDE DEF g
<1>5. Bad = {}
  <2> SUFFICES ASSUME Bad # {} PROVE FALSE
    OBVIOUS
  <2>1. Bad \in SUBSET Nat
    BY <1>1
  <2>2. PICK n \in Bad : \A k \in Bad : n <= k
    <3> HIDE DEF Bad
    <3> QED
      BY <2>1, LeastNumber
  <2>3. g[n] = IF n = 0 THEN Peers(p, link) ELSE Disconnect(p, n - 1, g[n - 1])
    BY <1>2 DEF PassOf
  <2>4. CASE n = 0
    <3>1. Announced(p, q, Peers(p, link))
      BY TypeFacts, PeersIs DEF Announced
    <3> QED
      BY <2>3, <2>4, <3>1, PassStarts
  <2>5. CASE n # 0
    <3>1. n - 1 \in 0 .. MAX_SLOTS
      BY <1>1, <2>5
    <3>2. g[n - 1] \in Passed(p) /\ Announced(p, q, g[n - 1])
      BY <1>1, <2>2, <3>1
    <3> QED
      BY <2>3, <2>5, <3>2, PassGoesOn, AnnouncedGoesOn
  <2> QED
    BY <2>4, <2>5
<1>6. Announced(p, q, g[MAX_SLOTS])
  BY <1>1, <1>5
<1> QED
  BY <1>3, <1>4, <1>6 DEF Announced

(* Among three players, with two of them alive.                            *)
LEMMA TheThird ==
  ASSUME Cardinality(Player) <= 3, NEW p \in Player, NEW q \in Player, NEW s \in Player, p # q, s # p, s # q
  PROVE  Player = {p, q, s}
<1>1. IsFiniteSet({p}) /\ Cardinality({p}) = 1
  BY FS_Singleton
<1>2. IsFiniteSet({p} \cup {q}) /\ Cardinality({p} \cup {q}) = 2
  BY <1>1, FS_AddElement
<1>3. IsFiniteSet(({p} \cup {q}) \cup {s}) /\ Cardinality(({p} \cup {q}) \cup {s}) = 3
  BY <1>2, FS_AddElement
<1>4. ({p} \cup {q}) \cup {s} = {p, q, s} /\ {p, q, s} \in SUBSET Player
  OBVIOUS
<1>5. Cardinality({p, q, s}) <= Cardinality(Player) /\ Cardinality(Player) \in Nat
  BY <1>4, Constants, FS_Subset, FS_CardinalityType
<1>6. Cardinality({p, q, s}) = Cardinality(Player)
  BY <1>3, <1>4, <1>5
<1> QED
  BY <1>4, <1>6, Constants, FS_Subset

LEMMA OneGone ==
  ASSUME Cardinality(Player) <= 3, NEW p \in Player, NEW q \in Player, p # q, Alive(p), Alive(q)
  PROVE  AtMostOneGone
<1> SUFFICES ASSUME NEW s \in Player, NEW t \in Player, ~Alive(s), ~Alive(t), s # t
             PROVE  FALSE
  BY DEF AtMostOneGone
<1>1. Player = {p, q, s}
  BY TheThird
<1> QED
  BY <1>1

(* One more frame is executed.                                             *)
LEMMA ThroughNext ==
  ASSUME NEW n \in Nat, FirstFrame <= n
  PROVE  Through(n + 1) = Through(n) \cup ({n} \X Player)
<1>1. FirstFrame .. (n + 1) - 1 = (FirstFrame .. n - 1) \cup {n}
  BY Constants
<1> QED
  BY <1>1 DEF Through

LEMMA PartedNext ==
  ASSUME NEW n \in Nat, NEW g \in Nat, g <= n, NEW s
  PROVE  Parted(g, n + 1, s) = Parted(g, n, s) \cup ({n} \X (Player \ {s}))
<1>1. g .. (n + 1) - 1 = (g .. n - 1) \cup {n}
  OBVIOUS
<1> QED
  BY <1>1 DEF Parted

LEMMA PartedNone ==
  ASSUME NEW g \in Nat, NEW s
  PROVE  Parted(g, g, s) = Through(g)
<1>1. g .. g - 1 = {}
  OBVIOUS
<1> QED
  BY <1>1 DEF Parted

(* p and q live on, and nothing has got out of order.                      *)
Undisturbed(p, q) ==
  /\ inOrder /\ orderly /\ Cardinality(Player) <= 3
  /\ p # q /\ Alive(p) /\ Alive(q)

LEMMA Gone ==
  ASSUME TypeOK, SilentInv, NEW p \in Player, NEW q \in Player, Undisturbed(p, q), NEW s \in silent
  PROVE  /\ s \in Player /\ ~Alive(s) /\ s # p /\ s # q /\ Player = {p, q, s} /\ silent = {s}
         /\ \A a \in Player : Player \ {s} \subseteq conn[a]
<1>1. s \in Player /\ \A t \in silent : t \in Player /\ ~Alive(t)
  BY DEF TypeOK, SilentInv
<1>2. p # q /\ s # p /\ s # q /\ ~Alive(s)
  BY <1>1 DEF Undisturbed
<1>3. Player = {p, q, s}
  BY <1>1, <1>2, TheThird DEF Undisturbed
<1>4. silent = {s}
  BY <1>1, <1>3 DEF Undisturbed
<1>5. ASSUME NEW a \in Player
      PROVE  Player \ {s} \subseteq conn[a]
  BY <1>4 DEF SilentInv, Undisturbed
<1> QED
  BY <1>1, <1>2, <1>3, <1>4, <1>5

(* All that can happen to connections is that s is lost.                   *)
LEMMA ConnLost ==
  ASSUME Inv0, Inv0', [Next]_vars, NEW p \in Player, NEW q \in Player, Undisturbed(p, q)', NEW s \in silent',
         NEW a \in Player, conn'[a] # conn[a]
  PROVE  conn'[a] = Player \ {s} /\ s \in conn[a]
<1> USE DEF Inv0
<1>1. conn'[a] \subseteq conn[a]
  <2>1. CASE UpdateDisconnectStatus(a)
    BY <2>1, UpdatePeers DEF PeersGo
  <2>2. ASSUME NEW r \in Player, NEW k \in DOMAIN link[r][a], NEW again, Arrives(a, r, k, again)
        PROVE  conn'[a] \subseteq conn[a]
    BY <2>2, ReceiveIs DEF Arrives, Got, PeersGo
  <2>3. orderly'
    BY DEF Undisturbed
  <2> QED
    BY <2>1, <2>2, <2>3, ConnStep
<1>2. Player \ {s} \subseteq conn'[a] /\ conn[a] \subseteq Player
  <2>1. \A t \in silent' : t \in Player /\ ~Alive(t)'
    BY DEF TypeOK, SilentInv
  <2>2. p # q /\ s # p /\ s # q /\ s \in Player
    BY <2>1 DEF Undisturbed
  <2>3. Player = {p, q, s}
    BY <2>2, TheThird DEF Undisturbed
  <2>4. silent' \subseteq {s}
    BY <2>1, <2>3 DEF Undisturbed
  <2>5. Player \ conn'[a] \subseteq silent'
    BY DEF SilentInv, Undisturbed
  <2> QED
    BY <2>4, <2>5, TypeFacts
<1> QED
  BY <1>1, <1>2

(* As long as it has not been told, q stands still.                        *)
LEMMA WaitsKept ==
  ASSUME Inv0, NEW p \in Player, NEW q \in Player, p # q, Alive(p)', Alive(q)', q \in conn'[p],
         NEW s, Waits(p, q, s), Stuck(q)', notified'[q], NEW a \in Player, NEW New, FromNet(link, a, New),
         a = p \/ \A m \in New : m.type = "DISCONNECTVOTE"
  PROVE  Waits(p, q, s)'
<1> USE DEF Inv0
<1>1. link[p][q] \in Seq(Message) /\ Announces(link[p][q], p, s)
  BY TypeLinks DEF Waits
<1>2. status'[p] = "PLAYING" /\ status'[q] = "PLAYING"
  BY DEF Alive
<1>3. link'[p][q] = link[p][q] \/ Grown(link[p][q], link'[p][q], New)
  BY <1>2 DEF FromNet
<1>4. Announces(link'[p][q], p, s)
  BY <1>1, <1>3, AnnouncesGrown
<1>5. ASSUME NEW x \in Player, NEW b \in Player, x # p
      PROVE  OnlyVotes(link'[x][b])
  <2> SUFFICES ASSUME NEW i \in 1 .. Len(link'[x][b]) PROVE link'[x][b][i].type = "DISCONNECTVOTE"
    BY DEF OnlyVotes
  <2>1. \/ x = a /\ link'[x][b][i] \in New
        \/ \E j \in 1 .. Len(link[x][b]) : link'[x][b][i] = link[x][b][j]
    BY LinkWithin, MessagesFrom
  <2>2. CASE x = a /\ link'[x][b][i] \in New
    BY <1>5, <2>2
  <2>3. CASE \E j \in 1 .. Len(link[x][b]) : link'[x][b][i] = link[x][b][j]
    BY <1>5, <2>3 DEF Waits, OnlyVotes
  <2> QED
    BY <2>1, <2>2, <2>3
<1> QED
  BY <1>4, <1>5 DEF Waits

(* The first message on p's link to q, a vote, has been received.          *)
LEMMA AnnouncesNext ==
  ASSUME NEW t \in Seq(Message), NEW p, NEW s, Announces(t, p, s), Len(t) >= 1, t[1].type # "DISCONNECTPLAYER"
  PROVE  Announces(RemoveAt(t, 1), p, s)
<1> DEFINE u == RemoveAt(t, 1)
<1>1. Len(t) \in Nat /\ 1 \in 1 .. Len(t)
  BY LenProperties
<1>2. Len(u) = Len(t) - 1 /\ \A i \in 1 .. Len(t) - 1 : u[i] = t[i + 1]
  <2>1. /\ Len(u) = Len(t) - 1
        /\ \A i \in 1 .. Len(t) - 1 : u[i] = IF i < 1 THEN t[i] ELSE t[i + 1]
    BY <1>1, Removed
  <2> HIDE DEF u
  <2> QED
    BY <1>1, <2>1
<1> HIDE DEF u
<1>3. PICK k \in 1 .. Len(t) :
        /\ t[k].type = "DISCONNECTPLAYER" /\ t[k].player = p /\ t[k].slot = s
        /\ \A j \in 1 .. Len(t) : j < k => t[j].type = "DISCONNECTVOTE"
  BY DEF Announces
<1>4. k # 1
  BY <1>3
<1>5. k - 1 \in 1 .. Len(u) /\ u[k - 1] = t[k]
  <2>1. k - 1 \in 1 .. Len(t) - 1 /\ (k - 1) + 1 = k
    BY <1>1, <1>4
  <2> QED
    BY <1>2, <2>1
<1>6. ASSUME NEW j \in 1 .. Len(u), j < k - 1
      PROVE  u[j].type = "DISCONNECTVOTE"
  <2>1. u[j] = t[j + 1] /\ j + 1 \in 1 .. Len(t) /\ j + 1 < k
    BY <1>1, <1>2, <1>6
  <2> QED
    BY <1>3, <2>1
<1> QED
  BY <1>3, <1>5, <1>6 DEF Announces, u

(* Whoever is told to disconnect somebody does so.                         *)
LEMMA ToldDisconnects ==
  ASSUME Inv0, NEW p \in Player, NEW q \in Player, NEW k \in DOMAIN link[q][p], NEW again,
         Receive(p, q, k, again), link[q][p][k].type = "DISCONNECTPLAYER", q \in conn[p],
         link[q][p][k].slot # p
  PROVE  link[q][p][k].slot \notin conn'[p]
<1> USE DEF Inv0
<1> DEFINE m == link[q][p][k]
           net == Without(q, p, k, again)
           st == Peers(p, net)
           mid == IF m.player = m.slot THEN SendPlayerDestruct(p, m.slot, st) ELSE st
           end == DisconnectPlayer(p, m.slot, mid)
<1>1. Taken(net, p, q, k, again) /\ m \in Legit(q) /\ m \in Message
  BY WithoutIs
<1>2. m.player = q /\ m.slot \in Player
  BY <1>1, MessageHas DEF Legit
<1>3. ProcessDisconnectPlayer(p, m, net)
  BY <1>2 DEF Receive, Without
<1>4. conn' = [conn EXCEPT ![p] = end.conn]
  BY <1>3 DEF ProcessDisconnectPlayer, Become
<1> HIDE DEF m, net
<1>5. net \in Nets
  BY <1>1 DEF Taken
<1>6. st \in PeersSet /\ st.conn = conn[p]
  BY <1>5, PeersIs
<1> HIDE DEF st
<1>7. mid \in PeersSet /\ mid.conn = conn[p]
  <2>1. frame[p] + RunAhead + 1 \in Nat
    BY TypeFacts, Constants
  <2> DEFINE d == <<frame[p] + RunAhead + 1, m.slot>>
  <2>2. d \in Nat \X Player
    BY <1>2, <2>1
  <2>3. SendPlayerDestruct(p, m.slot, st) = [st EXCEPT !.destruct = @ \cup {d}]
    BY DEF SendPlayerDestruct
  <2> HIDE DEF d
  <2> QED
    BY <1>6, <2>2, <2>3 DEF PeersSet
<1> HIDE DEF mid
<1>8. Lost(p, m.slot, mid, end)
  BY <1>2, <1>7, TypeFacts, DisconnectPlayerIs
<1> HIDE DEF end
<1>9. end.conn = conn[p] \ {m.slot}
  BY <1>7, <1>8 DEF Lost, m
<1>10. conn'[p] = end.conn
  BY <1>4 DEF TypeOK
<1> QED
  BY <1>9, <1>10 DEF m

LEMMA WaitsStep ==
  ASSUME Inv0, [Next]_vars, NEW p \in Player, NEW q \in Player, Undisturbed(p, q), Undisturbed(p, q)',
         NEW s \in silent, q \in conn[p], q \in conn'[p], conn[q] = Player, conn'[q] = conn[q], Waits(p, q, s)
  PROVE  Waits(p, q, s)' /\ UNCHANGED <<frame[q], executed[q]>>
<1> USE DEF Inv0
<1>1. /\ screen[q] /\ ~Ready(q) /\ notified[q] /\ Announces(link[p][q], p, s)
      /\ \A a, b \in Player : a # p => OnlyVotes(link[a][b])
  BY DEF Waits, Stuck
<1>2. /\ p # q /\ Alive(p) /\ Alive(q) /\ Alive(p)' /\ Alive(q)' /\ inOrder' /\ orderly'
      /\ Player = {p, q, s} /\ ~Alive(s) /\ s # p /\ s # q
  BY Gone DEF Undisturbed
<1>3. ~ExecuteFrame(q)
  BY <1>1 DEF ExecuteFrame
<1>4. UNCHANGED <<frame[q], executed[q]>>
  BY <1>3, FramesStep
<1>5. ASSUME UNCHANGED <<screen[q], notified[q], data[q]>>
      PROVE  Stuck(q)' /\ notified'[q]
  BY <1>1, <1>4, <1>5 DEF Stuck, Ready
<1>6. ASSUME NEW a \in Player, NEW New, FromNet(link, a, New), a = p \/ \A m \in New : m.type = "DISCONNECTVOTE",
             UNCHANGED <<screen[q], notified[q], data[q]>>
      PROVE  Waits(p, q, s)'
  BY <1>2, <1>5, <1>6, WaitsKept
<1>7. ASSUME link' = link, UNCHANGED <<screen[q], notified[q], data[q]>>
      PROVE  Waits(p, q, s)'
  BY <1>6, <1>7, SameNet
<1>8. ASSUME NEW x \in Player, ExecuteFrame(x)
      PROVE  Waits(p, q, s)'
  <2>1. x = p
    BY <1>2, <1>3, <1>8 DEF ExecuteFrame
  <2>2. FromNet(link, p, DataMsg) /\ PeersGo(p, {}) /\ UNCHANGED <<screen, notified>>
    BY <1>8, <2>1, ExecuteLinks, ExecutePeers DEF ExecuteFrame
  <2> QED
    BY <1>2, <1>6, <2>2 DEF PeersGo
<1>9. ASSUME NEW x \in Player, AllCommandsReady(x)
      PROVE  Waits(p, q, s)'
  <2>1. x = p
    BY <1>1, <1>2, <1>9 DEF AllCommandsReady
  <2>2. FromNet(link, p, {Msg("DISCONNECTSCREENOFF", p, frame[p], p)})
    BY <1>9, <2>1, ReadyLinks
  <2>3. screen' = [screen EXCEPT ![p] = FALSE] /\ UNCHANGED <<notified, data>>
    BY <1>9, <2>1 DEF AllCommandsReady, peers
  <2>4. screen'[q] = screen[q]
    BY <1>2, <2>3 DEF TypeOK
  <2> QED
    BY <1>6, <2>2, <2>3, <2>4
<1>10. ASSUME NEW x \in Player, TurnOnScreen(x)
       PROVE  Waits(p, q, s)'
  <2>1. x # q
    BY <1>1, <1>10 DEF TurnOnScreen
  <2>2. /\ screen' = [screen EXCEPT ![x] = TRUE] /\ notified' = [notified EXCEPT ![x] = FALSE]
        /\ link' = link /\ UNCHANGED data
    BY <1>10 DEF TurnOnScreen, peers
  <2>3. screen'[q] = screen[q] /\ notified'[q] = notified[q]
    BY <2>1, <2>2 DEF TypeOK
  <2> QED
    BY <1>7, <2>2, <2>3
<1>11. ASSUME NEW x \in Player, NotifyOthersOfCurrentFrame(x)
       PROVE  Waits(p, q, s)'
  <2>1. x = p
    BY <1>1, <1>2, <1>11 DEF NotifyOthersOfCurrentFrame
  <2>2. FromNet(link, p, DataMsg \cup {Msg("DISCONNECTFRAME", p, frame[p], p)})
    BY <1>11, <2>1, NotifyLinks
  <2>3. notified' = [notified EXCEPT ![p] = TRUE] /\ UNCHANGED <<screen, data>>
    BY <1>11, <2>1 DEF NotifyOthersOfCurrentFrame, peers
  <2>4. notified'[q] = notified[q]
    BY <1>2, <2>3 DEF TypeOK
  <2> QED
    BY <1>6, <2>2, <2>3, <2>4
<1>12. ASSUME NEW x \in Player, UpdateDisconnectStatus(x)
       PROVE  Waits(p, q, s)'
  <2>1. UNCHANGED <<screen, notified>> /\ Alive(x)
    BY <1>12 DEF UpdateDisconnectStatus, menu
  <2>2. CASE x = q
    <3>1. UNCHANGED <<peers, link>>
      BY <1>12, <2>2, UpdatePeers
    <3> QED
      BY <1>7, <2>1, <3>1 DEF peers
  <2>3. CASE x = p
    <3>1. FromNet(link, p, PassMsg(p, conn[p] \ conn'[p])) /\ PeersGo(p, conn[p] \ conn'[p])
      BY <1>12, <2>3, UpdateLinks, UpdatePeers
    <3>2. data'[q] = data[q]
      BY <1>2, <3>1 DEF PeersGo
    <3> QED
      BY <1>6, <2>1, <3>1, <3>2
  <2> QED
    BY <1>2, <2>1, <2>2, <2>3
<1>13. ASSUME NEW x \in Player, QuitGame(x)
       PROVE  FALSE
  BY <1>2, <1>13 DEF QuitGame
<1>14. ASSUME NEW x \in Player, NEW y \in Player, Die(x) \/ Lose(y, x)
       PROVE  Waits(p, q, s)'
  <2>1. FromNet(link, x, {}) /\ UNCHANGED <<screen, notified, data>>
    BY <1>14, DieLinks, LoseLinks DEF Die, Lose, menu, peers
  <2> QED
    BY <1>6, <2>1
<1>15. ASSUME NEW x \in Player, NEW y \in Player, MinutePasses(x) \/ TimeOut(x, y)
       PROVE  Waits(p, q, s)'
  <2>1. link' = link /\ UNCHANGED <<screen, notified, data>>
    BY <1>15 DEF MinutePasses, TimeOut, menu, peers
  <2> QED
    BY <1>7, <2>1
<1>16. ASSUME NEW x \in Player, NEW y \in Player, VoteForPlayerDisconnect(x, y)
       PROVE  Waits(p, q, s)'
  <2>1. FromNet(link, x, {Msg("DISCONNECTVOTE", x, frame[x], y)}) /\ UNCHANGED <<screen, notified, data>>
    BY <1>16, VoteLinks DEF VoteForPlayerDisconnect, menu, peers
  <2>2. \A m \in {Msg("DISCONNECTVOTE", x, frame[x], y)} : m.type = "DISCONNECTVOTE"
    BY DEF Msg
  <2> QED
    BY <1>6, <2>1, <2>2
<1>17. ASSUME NEW x \in Player, NEW y \in Player, NEW k \in DOMAIN link[y][x], NEW again, Arrives(x, y, k, again)
       PROVE  Waits(p, q, s)'
  <2> DEFINE m == link[y][x][k]
             net == Without(y, x, k, again)
  <2>1. Receive(x, y, k, again) /\ k = 1 /\ ~again
    BY <1>2, <1>17 DEF Arrives
  <2>2. /\ Taken(net, x, y, k, again) /\ Got(x, y, m, net) /\ Alive(x)
        /\ UNCHANGED <<screen, notified>>
    BY <2>1, ReceiveIs DEF menu
  <2>3. 1 \in 1 .. Len(link[y][x]) /\ link[y][x] \in Seq(Message)
    BY <2>1, <2>2, TypeLinks DEF Taken
  <2>4. m.type = "DISCONNECTVOTE"
    <3>1. CASE y # p
      BY <1>1, <2>1, <2>3, <3>1 DEF OnlyVotes
    <3>2. CASE y = p
      <4>1. x = q
        BY <1>2, <2>2, <3>2 DEF Taken
      <4>2. PICK i \in 1 .. Len(link[p][q]) :
              /\ link[p][q][i].type = "DISCONNECTPLAYER" /\ link[p][q][i].player = p /\ link[p][q][i].slot = s
              /\ \A j \in 1 .. Len(link[p][q]) : j < i => link[p][q][j].type = "DISCONNECTVOTE"
        BY <1>1 DEF Announces
      <4>3. CASE i = 1
        <5>1. m.type = "DISCONNECTPLAYER" /\ m.slot = s
          BY <2>1, <3>2, <4>1, <4>2, <4>3
        <5>2. s \notin conn'[q]
          BY <1>2, <2>1, <3>2, <4>1, <5>1, ToldDisconnects
        <5> QED
          BY <1>2, <5>2
      <4>4. CASE i # 1
        <5>1. 1 < i
          BY <4>4
        <5> QED
          BY <2>1, <2>3, <3>2, <4>1, <4>2, <5>1
      <4> QED
        BY <4>3, <4>4
    <3> QED
      BY <3>1, <3>2
  <2>5. Within(net)
    BY <2>2, TakenWithin
  <2>6. net[y][x] = RemoveAt(link[y][x], 1) /\ \A a, b \in Player : a # y \/ b # x => net[a][b] = link[a][b]
    BY <2>1, <2>2 DEF Taken
  <2>7. link' = net /\ UNCHANGED data
    BY <2>2, <2>4 DEF Got, peers
  <2> HIDE DEF net
  <2>8. Announces(link'[p][q], p, s)
    <3>1. CASE y = p /\ x = q
      <4>1. Len(link[p][q]) >= 1 /\ link[p][q][1].type # "DISCONNECTPLAYER"
        BY <2>1, <2>3, <2>4, <3>1
      <4> QED
        BY <1>1, <2>3, <2>6, <2>7, <3>1, <4>1, AnnouncesNext
    <3>2. CASE ~(y = p /\ x = q)
      BY <1>1, <2>6, <2>7, <3>2
    <3> QED
      BY <3>1, <3>2
  <2>9. ASSUME NEW a \in Player, NEW b \in Player, a # p
        PROVE  OnlyVotes(link'[a][b])
    <3> SUFFICES ASSUME NEW i \in 1 .. Len(link'[a][b]) PROVE link'[a][b][i].type = "DISCONNECTVOTE"
      BY DEF OnlyVotes
    <3>1. PICK j \in 1 .. Len(link[a][b]) : link'[a][b][i] = link[a][b][j]
      BY <2>5, <2>7 DEF Within
    <3> QED
      BY <1>1, <2>9, <3>1 DEF OnlyVotes
  <2>10. Stuck(q)' /\ notified'[q]
    BY <1>5, <2>2, <2>7
  <2> QED
    BY <2>8, <2>9, <2>10 DEF Waits
<1>18. CASE UNCHANGED vars
  <2>1. link' = link /\ UNCHANGED <<screen, notified, data>>
    BY <1>18 DEF vars, menu, peers
  <2> QED
    BY <1>4, <1>7, <2>1
<1>19. Waits(p, q, s)'
  BY <1>8, <1>9, <1>10, <1>11, <1>12, <1>13, <1>14, <1>15, <1>16, <1>17, <1>18, SomethingArrives DEF Next
<1> QED
  BY <1>4, <1>19

(* How far p and q have got when a step has been taken.                    *)
LEMMA ThroughStep ==
  ASSUME TypeOK, [Next]_vars, NEW a \in Player, conn[a] = Player, executed[a] = Through(frame[a])
  PROVE  executed'[a] = Through(frame'[a])
<1>1. frame[a] \in Nat /\ FirstFrame <= frame[a]
  BY TypeFacts, Frames
<1>2. CASE UNCHANGED <<frame[a], executed[a]>>
  BY <1>2
<1>3. CASE frame'[a] = frame[a] + 1 /\ executed'[a] = executed[a] \cup ({frame[a]} \X conn[a])
  BY <1>1, <1>3, ThroughNext
<1> QED
  BY <1>2, <1>3, FramesStep

LEMMA PartedStep ==
  ASSUME TypeOK, [Next]_vars, NEW a \in Player, NEW s, NEW g \in Nat, g <= frame[a],
         conn[a] = Player \ {s}, executed[a] = Parted(g, frame[a], s)
  PROVE  executed'[a] = Parted(g, frame'[a], s) /\ frame[a] <= frame'[a]
<1>1. frame[a] \in Nat
  BY TypeFacts
<1>2. CASE UNCHANGED <<frame[a], executed[a]>>
  BY <1>1, <1>2
<1>3. CASE frame'[a] = frame[a] + 1 /\ executed'[a] = executed[a] \cup ({frame[a]} \X conn[a])
  BY <1>1, <1>3, PartedNext
<1> QED
  BY <1>2, <1>3, FramesStep

LEMMA NobodyIssued ==
  ASSUME Inv0, IssuedInv, NEW p \in Player, NEW q \in Player, Undisturbed(p, q), Unparted(p, q)
  PROVE  issued = {}
<1> USE DEF Inv0
<1> SUFFICES ASSUME NEW i \in issued PROVE FALSE
  OBVIOUS
<1>1. i[1] \in Player /\ i[2] \notin conn[i[1]] /\ i[2] \in silent
  BY DEF TypeOK, IssuedInv, Undisturbed
<1>2. i[2] \in Player /\ Player = {p, q, i[2]}
  BY <1>1, Gone
<1>3. i[1] \in conn[i[1]]
  BY <1>1, TypeFacts
<1> QED
  BY <1>1, <1>2, <1>3 DEF Unparted

(* p passes over the slots and is the first to disconnect somebody: q is on*)
(* the same frame and stands still.                                        *)
LEMMA PartingBegins ==
  ASSUME Inv0, IssuedInv, Inv2, [Next]_vars, NEW p \in Player, NEW q \in Player,
         Undisturbed(p, q), Undisturbed(p, q)', Unparted(p, q), UpdateDisconnectStatus(p), conn'[p] # conn[p],
         Inv0'
  PROVE  \E s \in silent' : Parts(p, q, s)'
<1> USE DEF Inv0
<1>1. p # q /\ Alive(p) /\ Alive(q) /\ inOrder /\ orderly /\ AtMostOneGone
  BY OneGone DEF Undisturbed
<1>2. /\ PeersGo(p, conn[p] \ conn'[p]) /\ conn[p] \ conn'[p] \subseteq silent
      /\ issued' = issued \cup ({p} \X (conn[p] \ conn'[p]))
      /\ FromNet(link, p, PassMsg(p, conn[p] \ conn'[p]))
  BY <1>1, UpdatePeers, UpdateLinks
<1>3. UNCHANGED <<frame, executed, screen, notified, silent>>
  BY DEF UpdateDisconnectStatus, local, menu
<1>4. issued = {}
  BY NobodyIssued
<1>5. PICK s \in conn[p] \ conn'[p] : TRUE
  BY <1>2 DEF PeersGo
<1>6. s \in silent /\ silent = {s} /\ s # p /\ s # q /\ s \in Player /\ Player \ {s} \subseteq conn[q]
  BY <1>2, <1>5, Gone
<1>7. Still
  BY <1>1, <1>4, <1>6 DEF Inv2, StillInv
<1>8. conn'[p] = Player \ {s} /\ conn'[q] = Player /\ conn'[q] = conn[q] /\ data'[q] = data[q]
  BY <1>1, <1>2, <1>5, <1>6 DEF PeersGo, Unparted
<1>9. frame[q] = frame[p]
  <2> DEFINE i == <<p, s>>
  <2>1. i \in issued' \ issued /\ i[1] = p
    <3>1. i \in {p} \X (conn[p] \ conn'[p])
      BY <1>5
    <3> QED
      BY <1>2, <1>4, <3>1
  <2> HIDE DEF i
  <2>2. q \in conn'[i[1]]
    BY <1>6, <1>8, <2>1
  <2> QED
    BY <1>1, <2>1, <2>2, TogetherStep
<1>10. frame[p] \in Nat /\ frame[q] \in Nat
  BY TypeFacts
<1>11. executed'[p] = Parted(frame'[q], frame'[p], s) /\ executed'[q] = Through(frame'[q]) /\ frame'[q] <= frame'[p]
  BY <1>3, <1>9, <1>10, PartedNone DEF Unparted
<1>12. Stuck(q)' /\ notified'[q]
  BY <1>1, <1>3, <1>7, <1>8 DEF Still, Stuck, Ready
<1>13. Announces(link'[p][q], p, s)
  <2>1. OnlyVotes(link[p][q])
    BY <1>7 DEF Still, OnlyVotes
  <2>2. PICK t \in conn[p] \ conn'[p] : Announces(link'[p][q], p, t)
    BY <1>1, <2>1, UpdateAnnounces
  <2> QED
    BY <1>2, <1>6, <2>2
<1>14. ASSUME NEW a \in Player, NEW b \in Player, a # p
       PROVE  OnlyVotes(link'[a][b])
  <2>1. link'[a][b] = link[a][b] \/ link'[a][b] = <<>>
    BY <1>2, <1>14 DEF FromNet
  <2> QED
    BY <1>7, <2>1, EmptySeq DEF Still, OnlyVotes
<1>15. Waits(p, q, s)'
  BY <1>12, <1>13, <1>14 DEF Waits
<1> QED
  BY <1>3, <1>6, <1>8, <1>11, <1>15 DEF Parts

LEMMA UnpartedStep ==
  ASSUME Inv0, Inv0', IssuedInv, Inv2, NoCommandInv, [Next]_vars, NEW p \in Player, NEW q \in Player,
         Undisturbed(p, q), Undisturbed(p, q)', Unparted(p, q)
  PROVE  Unparted(p, q)' \/ \E s \in silent' : Parts(p, q, s)' \/ Parts(q, p, s)'
<1> USE DEF Inv0
<1>1. orderly' /\ orderly /\ issued = {}
  BY NobodyIssued DEF Undisturbed
<1>2. ASSUME NEW a \in Player, conn'[a] # conn[a]
      PROVE  UpdateDisconnectStatus(a)
  <2>1. ASSUME NEW r \in Player, NEW k \in DOMAIN link[r][a], NEW again, Arrives(a, r, k, again),
               link[r][a][k].type = "DISCONNECTPLAYER"
        PROVE  FALSE
    <3>1. k \in 1 .. Len(link[r][a])
      BY <2>1, ReceiveIs DEF Arrives, Taken
    <3> QED
      BY <1>1, <2>1, <3>1 DEF NoCommandInv
  <2> QED
    BY <1>1, <1>2, <2>1, ConnStep
<1>3. CASE conn'[p] # conn[p]
  BY <1>2, <1>3, PartingBegins
<1>4. CASE conn'[q] # conn[q]
  <2>1. Undisturbed(q, p) /\ Undisturbed(q, p)' /\ Unparted(q, p)
    BY DEF Undisturbed, Unparted
  <2> QED
    BY <1>2, <1>4, <2>1, PartingBegins
<1>5. CASE conn'[p] = conn[p] /\ conn'[q] = conn[q]
  BY <1>5, ThroughStep DEF Unparted
<1> QED
  BY <1>3, <1>4, <1>5

LEMMA PartsStep ==
  ASSUME Inv0, Inv0', [Next]_vars, NEW p \in Player, NEW q \in Player,
         Undisturbed(p, q), Undisturbed(p, q)', NEW s \in silent, s \in silent', Parts(p, q, s)
  PROVE  Parts(p, q, s)' \/ HaveParted(p, q, s)'
<1> USE DEF Inv0
<1>1. /\ conn[p] = Player \ {s} /\ conn[q] = Player /\ frame[q] <= frame[p]
      /\ executed[p] = Parted(frame[q], frame[p], s) /\ executed[q] = Through(frame[q])
      /\ Waits(p, q, s)
  BY DEF Parts
<1>2. frame[p] \in Nat /\ frame[q] \in Nat /\ frame[q] \in Frame
  BY TypeFacts
<1>3. conn'[p] = conn[p]
  BY <1>1, ConnLost
<1>4. q \in conn[p]
  BY <1>1, Gone
<1>5. CASE conn'[q] = conn[q]
  <2>1. Waits(p, q, s)' /\ UNCHANGED <<frame[q], executed[q]>>
    BY <1>1, <1>3, <1>4, <1>5, WaitsStep
  <2>2. executed'[p] = Parted(frame[q], frame'[p], s) /\ frame[p] <= frame'[p]
    BY <1>1, <1>2, PartedStep
  <2>3. frame'[p] \in Nat
    BY Frames DEF TypeOK
  <2>4. frame'[q] <= frame'[p]
    BY <1>1, <1>2, <2>1, <2>2, <2>3
  <2> QED
    BY <1>1, <1>3, <1>5, <2>1, <2>2, <2>4 DEF Parts
<1>6. CASE conn'[q] # conn[q]
  <2>1. conn'[q] = Player \ {s}
    BY <1>6, ConnLost
  <2>2. UNCHANGED <<frame[p], executed[p], frame[q], executed[q]>>
    BY <1>6, FramesStep
  <2>3. executed'[q] = Parted(frame[q], frame'[q], s)
    BY <1>1, <1>2, <2>2, PartedNone
  <2>4. frame[q] <= frame'[q] /\ frame[q] <= frame'[p] /\ executed'[p] = Parted(frame[q], frame'[p], s)
    BY <1>1, <1>2, <2>2
  <2> QED
    BY <1>1, <1>2, <1>3, <2>1, <2>3, <2>4 DEF HaveParted
<1> QED
  BY <1>5, <1>6

LEMMA HavePartedStep ==
  ASSUME Inv0, Inv0', [Next]_vars, NEW p \in Player, NEW q \in Player,
         Undisturbed(p, q)', NEW s \in silent, s \in silent', HaveParted(p, q, s)
  PROVE  HaveParted(p, q, s)'
<1> USE DEF Inv0
<1>1. /\ conn[p] = Player \ {s} /\ conn[q] = Player \ {s}
      /\ \E g \in Frame : /\ g <= frame[p] /\ executed[p] = Parted(g, frame[p], s)
                          /\ g <= frame[q] /\ executed[q] = Parted(g, frame[q], s)
  BY DEF HaveParted
<1>2. conn'[p] = conn[p] /\ conn'[q] = conn[q]
  BY <1>1, ConnLost
<1>3. PICK g \in Frame : /\ g <= frame[p] /\ executed[p] = Parted(g, frame[p], s)
                         /\ g <= frame[q] /\ executed[q] = Parted(g, frame[q], s)
  BY <1>1
<1>4. /\ g \in Nat /\ frame[p] \in Nat /\ frame[q] \in Nat /\ frame'[p] \in Nat /\ frame'[q] \in Nat
  BY TypeFacts, Frames DEF TypeOK
<1>5. executed'[p] = Parted(g, frame'[p], s) /\ frame[p] <= frame'[p]
  BY <1>1, <1>3, <1>4, PartedStep
<1>6. executed'[q] = Parted(g, frame'[q], s) /\ frame[q] <= frame'[q]
  BY <1>1, <1>3, <1>4, PartedStep
<1>7. g <= frame'[p] /\ g <= frame'[q]
  BY <1>3, <1>4, <1>5, <1>6
<1> QED
  BY <1>1, <1>2, <1>5, <1>6, <1>7 DEF HaveParted

LEMMA PairStep ==
  ASSUME Inv0, Inv0', IssuedInv, Inv2, NoCommandInv, PairInv, [Next]_vars
  PROVE  PairInv'
<1> USE DEF Inv0
<1> SUFFICES ASSUME NEW p \in Player, NEW q \in Player, Undisturbed(p, q)'
             PROVE  Pair(p, q)'
  BY DEF PairInv, Undisturbed
<1>1. Undisturbed(p, q) /\ silent \subseteq silent'
  BY HistoryStep, StatusStep DEF Undisturbed
<1>2. Pair(p, q)
  BY <1>1 DEF PairInv, Undisturbed
<1>3. CASE Unparted(p, q)
  BY <1>1, <1>3, UnpartedStep DEF Pair
<1>4. ASSUME NEW s \in silent, Parts(p, q, s)
      PROVE  Pair(p, q)'
  BY <1>1, <1>4, PartsStep DEF Pair
<1>5. ASSUME NEW s \in silent, Parts(q, p, s)
      PROVE  Pair(p, q)'
  <2>1. Undisturbed(q, p) /\ Undisturbed(q, p)'
    BY <1>1 DEF Undisturbed
  <2>2. Parts(q, p, s)' \/ HaveParted(q, p, s)'
    BY <1>1, <1>5, <2>1, PartsStep
  <2> QED
    BY <1>1, <2>2 DEF Pair, HaveParted
<1>6. ASSUME NEW s \in silent, HaveParted(p, q, s)
      PROVE  Pair(p, q)'
  BY <1>1, <1>6, HavePartedStep DEF Pair
<1> QED
  BY <1>2, <1>3, <1>4, <1>5, <1>6 DEF Pair

(* Whatever the three have executed of a frame, they agree on it.          *)
LEMMA PairAgrees ==
  ASSUME TypeOK, NEW p \in Player, NEW q \in Player, Pair(p, q), NEW f \in Frame, f < frame[p], f < frame[q],
         NEW s \in Player
  PROVE  <<f, s>> \in executed[p] <=> <<f, s>> \in executed[q]
<1>1. f \in Nat /\ FirstFrame <= f /\ frame[p] \in Nat /\ frame[q] \in Nat /\ FirstFrame \in Nat
  BY TypeFacts, Frames, Constants
<1>2. ASSUME NEW n \in Nat, f < n
      PROVE  <<f, s>> \in Through(n)
  BY <1>1, <1>2 DEF Through
<1>3. ASSUME NEW n \in Nat, f < n, NEW g \in Nat, NEW t
      PROVE  <<f, s>> \in Parted(g, n, t) <=> f < g \/ s # t
  BY <1>1, <1>3 DEF Parted, Through
<1>4. CASE Unparted(p, q)
  BY <1>1, <1>2, <1>4 DEF Unparted
<1>5. ASSUME NEW t \in silent, Parts(p, q, t) \/ Parts(q, p, t)
      PROVE  <<f, s>> \in executed[p] <=> <<f, s>> \in executed[q]
  BY <1>1, <1>2, <1>3, <1>5 DEF Parts
<1>6. ASSUME NEW t \in silent, HaveParted(p, q, t)
      PROVE  <<f, s>> \in executed[p] <=> <<f, s>> \in executed[q]
  <2>1. PICK g \in Frame : executed[p] = Parted(g, frame[p], t) /\ executed[q] = Parted(g, frame[q], t)
    BY <1>6 DEF HaveParted
  <2>2. g \in Nat
    BY Frames
  <2> QED
    BY <1>1, <1>3, <2>1, <2>2
<1> QED
  BY <1>4, <1>5, <1>6 DEF Pair

(* No desync among three: the one who is told to disconnect the lost player*)
(* has stood still since the other did, and both have executed the lost    *)
(* player's commands of the same frames - as long as no message overtakes  *)
(* another, and whatever the frames, the run ahead and the troubles.       *)
THEOREM SameAmongThree == Spec => []SameExecution
<1>1. Init => NoCommandInv /\ PairInv
  <2> SUFFICES ASSUME Init PROVE PairInv
    BY NoCommandInit
  <2>1. ASSUME NEW a \in Player
        PROVE  conn[a] = Player /\ executed[a] = Through(frame[a])
    <3>1. FirstFrame .. FirstFrame - 1 = {}
      BY Constants
    <3> QED
      BY <3>1 DEF Init, Through
  <2> QED
    BY <2>1 DEF PairInv, Pair, Unparted
<1>2. /\ Inv0 /\ Inv0' /\ IssuedInv /\ Inv2 /\ NoCommandInv /\ PairInv /\ [Next]_vars
      => NoCommandInv' /\ PairInv'
  BY NoCommandStep, PairStep
<1>3. Inv0 /\ PairInv => SameExecution
  <2> SUFFICES ASSUME Inv0, PairInv, inOrder, orderly, Cardinality(Player) <= 3,
                      NEW p \in Player, NEW q \in Player, Together(p, q), NEW f \in Frame,
                      f < frame[p], f < frame[q], NEW s \in Player
               PROVE  <<f, s>> \in executed[p] <=> <<f, s>> \in executed[q]
    BY DEF SameExecution
  <2>1. CASE p = q
    BY <2>1
  <2>2. CASE p # q
    <3>1. Pair(p, q)
      BY <2>2 DEF PairInv, Together
    <3> QED
      BY <3>1, PairAgrees DEF Inv0
  <2> QED
    BY <2>1, <2>2
<1> QED
  BY <1>1, <1>2, <1>3, Inv0Always, IssuedAlways, Inv2Always, PTL DEF Spec
===============================================================================
