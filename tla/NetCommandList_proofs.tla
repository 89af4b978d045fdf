------------------------ MODULE NetCommandList_proofs ------------------------
(***************************************************************************)
(* Proofs about NetCommandList, for any number of types and players and any*)
(* command IDs of which each player's are less than half a span apart: the *)
(* list always is the commands it holds in their order, and so are the     *)
(* lists of the slots joined to one.  The recursive functions are dealt    *)
(* with by the least number of steps after which something would be wrong. *)
(* And about NetCommandWrapperList, the list in which the commands too big *)
(* for a packet become whole before they are added: it puts together what  *)
(* was sent and nothing else.                                              *)
(***************************************************************************)
EXTENDS NetCommandList, FiniteSetTheorems, FunctionTheorems, SequenceTheorems, WellFoundedInduction, TLAPS

LEMMA LeastNumber ==
  ASSUME NEW T \in SUBSET Nat, T # {}
  PROVE  \E x \in T : \A y \in T : x <= y
<1>1. PICK x \in T : \A y \in T : <<y, x>> \notin OpToRel(<, Nat)
  BY NatLessThanWellFounded, WFMin
<1>2. \A y \in T : ~(y < x)
  BY <1>1 DEF OpToRel
<1> QED
  BY <1>2

LEMMA DivMod ==
  ASSUME NEW L \in Nat \ {0}, NEW x \in Int
  PROVE  x = L * (x \div L) + (x % L) /\ x \div L \in Int /\ x % L \in 0 .. L - 1
OBVIOUS

LEMMA SmallMultiple ==
  ASSUME NEW L \in Nat \ {0}, NEW a \in Int, L * a < L, -L < L * a
  PROVE  a = 0
OBVIOUS

LEMMA ModIs ==
  ASSUME NEW L \in Nat \ {0}, NEW x \in Int, NEW q \in Int, NEW r \in 0 .. L - 1, x = L * q + r
  PROVE  x % L = r
<1> DEFINE d == x \div L
           m == x % L
<1>1. x = L * d + m /\ d \in Int /\ m \in 0 .. L - 1
  BY DivMod
<1> HIDE DEF d, m
<1>2. L * (d - q) = r - m
  BY <1>1
<1>3. d - q = 0
  BY <1>1, <1>2, SmallMultiple
<1>4. r - m = 0
  BY <1>1, <1>2, <1>3
<1>5. m = r
  BY <1>1, <1>4
<1> QED
  BY <1>5 DEF m

(* Within one turn to either side.                                         *)
LEMMA ModNear ==
  ASSUME NEW L \in Nat \ {0}, NEW x \in Int, -L < x, x < 2 * L
  PROVE  x % L = IF x < 0 THEN x + L ELSE IF x < L THEN x ELSE x - L
<1>1. CASE x < 0
  <2>1. x + L \in 0 .. L - 1 /\ x = L * (-1) + (x + L)
    BY <1>1
  <2> QED
    BY <1>1, <2>1, ModIs
<1>2. CASE 0 <= x /\ x < L
  <2>1. x \in 0 .. L - 1 /\ x = L * 0 + x
    BY <1>2
  <2> QED
    BY <1>2, <2>1, ModIs
<1>3. CASE L <= x
  <2>1. x - L \in 0 .. L - 1 /\ x = L * 1 + (x - L)
    BY <1>3
  <2> QED
    BY <1>3, <2>1, ModIs
<1> QED
  BY <1>1, <1>2, <1>3

----------------------------------------------------------------------------
(* The order.  A player's IDs are numbered from one behind which they all  *)
(* lie.                                                                    *)
Half == ID_SPAN \div 2
First(p) == CHOOSE first \in 0 .. ID_SPAN - 1 : \A id \in Ids[p] : (id - first) % ID_SPAN < Half
Age(c) == (c.id - First(c.player)) % ID_SPAN

LEMMA SpanIs == ID_SPAN \in Nat \ {0} /\ Half \in Nat /\ 2 * Half <= ID_SPAN
BY IdAssumption DEF Half

LEMMA CommandHas ==
  ASSUME NEW c \in Commands
  PROVE  /\ c.type \in Types /\ c.type \in Nat /\ c.player \in Players /\ c.player \in Nat
         /\ c.id \in 0 .. ID_SPAN - 1 /\ c.id \in Ids[c.player]
<1>1. c.type \in Types /\ c.player \in Players /\ c.id \in 0 .. ID_SPAN - 1 /\ c.id \in Ids[c.player]
  BY DEF Commands
<1>2. Types \subseteq Nat /\ Players \subseteq Nat
  BY KindAssumption
<1> QED
  BY <1>1, <1>2

LEMMA SameCommand ==
  ASSUME NEW c \in Commands, NEW d \in Commands, c.type = d.type, c.player = d.player, c.id = d.id
  PROVE  c = d
BY DEF Commands

LEMMA FirstIs ==
  ASSUME NEW p \in Players
  PROVE  First(p) \in 0 .. ID_SPAN - 1 /\ \A id \in Ids[p] : (id - First(p)) % ID_SPAN < Half
<1>1. \E first \in 0 .. ID_SPAN - 1 : \A id \in Ids[p] : (id - first) % ID_SPAN < Half
  BY IdAssumption DEF Half
<1> QED
  BY <1>1 DEF First

LEMMA AgeIs ==
  ASSUME NEW c \in Commands
  PROVE  /\ Age(c) \in Nat /\ Age(c) < Half
         /\ Age(c) = IF c.id < First(c.player) THEN c.id - First(c.player) + ID_SPAN
                     ELSE c.id - First(c.player)
<1>1. First(c.player) \in 0 .. ID_SPAN - 1 /\ Age(c) < Half
  BY CommandHas, FirstIs DEF Age
<1>2. c.id \in 0 .. ID_SPAN - 1 /\ ID_SPAN \in Nat \ {0}
  BY CommandHas, SpanIs
<1> DEFINE x == c.id - First(c.player)
<1>3. x \in Int /\ -ID_SPAN < x /\ x < ID_SPAN /\ x < 2 * ID_SPAN
  BY <1>1, <1>2
<1>4. Age(c) = x % ID_SPAN
  BY DEF Age
<1>5. x % ID_SPAN = IF x < 0 THEN x + ID_SPAN ELSE x
  <2> HIDE DEF x
  <2> QED
    BY <1>2, <1>3, ModNear
<1> QED
  BY <1>1, <1>2, <1>4, <1>5

(* Of two commands of a player, the one issued later is newer.             *)
LEMMA NewerIs ==
  ASSUME NEW c \in Commands, NEW d \in Commands, c.player = d.player
  PROVE  /\ IsCommandIdNewer(d.id, c.id) <=> Age(c) < Age(d)
         /\ (\E later \in 1 .. Half - 1 : d.id = (c.id + later) % ID_SPAN) <=> Age(c) < Age(d)
         /\ Age(c) = Age(d) => c.id = d.id
<1> DEFINE L == ID_SPAN
           f == First(c.player)
           a == Age(c)
           b == Age(d)
<1>1. L \in Nat \ {0} /\ Half \in Nat /\ 2 * Half <= L
  BY SpanIs
<1>2. c.id \in 0 .. L - 1 /\ d.id \in 0 .. L - 1 /\ f \in 0 .. L - 1
  BY CommandHas, FirstIs
<1>3. a \in Nat /\ a < Half /\ a = IF c.id < f THEN c.id - f + L ELSE c.id - f
  BY AgeIs
<1>4. b \in Nat /\ b < Half /\ b = IF d.id < f THEN d.id - f + L ELSE d.id - f
  BY AgeIs
<1> HIDE DEF f, a, b
<1>5. IsCommandIdNewer(d.id, c.id) <=> a < b
  <2> DEFINE x == d.id - c.id
  <2>1. x \in Int /\ -L < x /\ x < L /\ x < 2 * L
    BY <1>1, <1>2
  <2>2. x % L = IF x < 0 THEN x + L ELSE x
    <3> HIDE DEF x
    <3> QED
      BY <1>1, <2>1, ModNear
  <2>3. IsCommandIdNewer(d.id, c.id) <=> x % L \in 1 .. Half - 1
    BY DEF IsCommandIdNewer, Half
  <2> QED
    BY <1>1, <1>2, <1>3, <1>4, <2>1, <2>2, <2>3
<1>6. ASSUME NEW later \in 1 .. Half - 1
      PROVE  (c.id + later) % L = IF c.id + later < L THEN c.id + later ELSE c.id + later - L
  <2> DEFINE x == c.id + later
  <2>1. x \in Int /\ 0 <= x /\ -L < x /\ x < 2 * L
    BY <1>1, <1>2
  <2> HIDE DEF x
  <2>2. x % L = IF x < 0 THEN x + L ELSE IF x < L THEN x ELSE x - L
    BY <1>1, <2>1, ModNear
  <2> QED
    BY <1>1, <1>2, <2>1, <2>2 DEF x
<1>7. ASSUME NEW later \in 1 .. Half - 1, d.id = (c.id + later) % L
      PROVE  a < b
  <2>1. d.id = IF c.id + later < L THEN c.id + later ELSE c.id + later - L
    BY <1>6, <1>7
  <2> QED
    BY <1>1, <1>2, <1>3, <1>4, <2>1
<1>8. ASSUME a < b
      PROVE  \E later \in 1 .. Half - 1 : d.id = (c.id + later) % L
  <2>1. b - a \in 1 .. Half - 1
    BY <1>1, <1>3, <1>4, <1>8
  <2>2. d.id = IF c.id + (b - a) < L THEN c.id + (b - a) ELSE c.id + (b - a) - L
    BY <1>1, <1>2, <1>3, <1>4, <1>8
  <2>3. d.id = (c.id + (b - a)) % L
    BY <1>6, <2>1, <2>2
  <2> QED
    BY <2>1, <2>3
<1>9. a = b => c.id = d.id
  BY <1>1, <1>2, <1>3, <1>4
<1> QED
  BY <1>5, <1>7, <1>8, <1>9 DEF a, b

LEMMA BeforeIs ==
  ASSUME NEW c \in Commands, NEW d \in Commands
  PROVE  Before(c, d) <=> \/ c.type < d.type
                          \/ c.type = d.type /\ c.player < d.player
                          \/ c.type = d.type /\ c.player = d.player /\ Age(c) < Age(d)
BY NewerIs DEF Before, Half

LEMMA BeforeIsTotal ==
  ASSUME NEW c \in Commands, NEW d \in Commands
  PROVE  ~Before(c, c) /\ (Before(c, d) \/ Before(d, c) \/ c = d)
<1>1. ~Before(c, c)
  BY BeforeIs, CommandHas, AgeIs
<1>2. Before(c, d) \/ Before(d, c) \/ (c.type = d.type /\ c.player = d.player /\ Age(c) = Age(d))
  BY BeforeIs, CommandHas, AgeIs
<1>3. c.type = d.type /\ c.player = d.player /\ Age(c) = Age(d) => c = d
  BY NewerIs, SameCommand
<1> QED
  BY <1>1, <1>2, <1>3

LEMMA BeforeTrans ==
  ASSUME NEW c \in Commands, NEW d \in Commands, NEW e \in Commands, Before(c, d), Before(d, e)
  PROVE  Before(c, e)
BY BeforeIs, CommandHas, AgeIs

----------------------------------------------------------------------------
(* Sorted lists.                                                           *)
Sorted(l) == \A i, j \in 1 .. Len(l) : i < j => Before(l[i], l[j])
Elems(l) == {l[i] : i \in 1 .. Len(l)}

LEMMA ListHas ==
  ASSUME NEW l \in Seq(Commands)
  PROVE  Len(l) \in Nat /\ \A i \in 1 .. Len(l) : l[i] \in Commands
BY LenProperties, ElementOfSeq

(* Two sorted lists of the same commands are the same.                     *)
LEMMA SortedUnique ==
  ASSUME NEW s \in Seq(Commands), NEW l \in Seq(Commands), Sorted(s), Sorted(l),
         Len(s) = Len(l), Elems(s) = Elems(l)
  PROVE  s = l
<1> DEFINE n == Len(s)
           D == {i \in 1 .. n : s[i] # l[i]}
<1>1. n \in Nat /\ n = Len(l) /\ \A i \in 1 .. n : s[i] \in Commands /\ l[i] \in Commands
  BY ListHas
<1>2. D = {}
  <2> SUFFICES ASSUME D # {} PROVE FALSE
    OBVIOUS
  <2>1. PICK i \in D : \A k \in D : i <= k
    <3>1. D \in SUBSET Nat
      BY <1>1
    <3> HIDE DEF D
    <3> QED
      BY <3>1, LeastNumber
  <2>2. i \in 1 .. n /\ s[i] # l[i] /\ \A k \in 1 .. n : k < i => s[k] = l[k]
    BY <1>1, <2>1
  <2>3. Before(l[i], s[i])
    <3>1. PICK j \in 1 .. n : l[j] = s[i]
      BY <1>1, <2>2 DEF Elems
    <3>2. ~(j < i)
      BY <1>1, <2>2, <3>1, BeforeIsTotal DEF Sorted
    <3>3. i < j
      BY <1>1, <2>2, <3>1, <3>2
    <3> QED
      BY <1>1, <2>2, <3>1, <3>3 DEF Sorted
  <2>4. Before(s[i], l[i])
    <3>1. PICK j \in 1 .. n : s[j] = l[i]
      BY <1>1, <2>2 DEF Elems
    <3>2. ~(j < i)
      BY <1>1, <2>2, <3>1, BeforeIsTotal DEF Sorted
    <3>3. i < j
      BY <1>1, <2>2, <3>1, <3>2
    <3> QED
      BY <1>1, <2>2, <3>1, <3>3 DEF Sorted
  <2> QED
    BY <1>1, <2>2, <2>3, <2>4, BeforeTrans, BeforeIsTotal
<1>3. \A i \in 1 .. n : s[i] = l[i]
  BY <1>2
<1> QED
  BY <1>1, <1>3, SeqEqual

LEMMA SortedInjective ==
  ASSUME NEW l \in Seq(Commands), Sorted(l), NEW i \in 1 .. Len(l), NEW j \in 1 .. Len(l), l[i] = l[j]
  PROVE  i = j
<1>1. Len(l) \in Nat /\ l[i] \in Commands /\ l[j] \in Commands
  BY ListHas
<1>2. ~(i < j) /\ ~(j < i)
  BY <1>1, BeforeIsTotal DEF Sorted
<1> QED
  BY <1>1, <1>2

(* So a sorted list is the one there is of what it holds.                  *)
LEMMA SortedIsOrdered ==
  ASSUME NEW l \in Seq(Commands), Sorted(l)
  PROVE  l = Ordered(Elems(l))
<1> DEFINE S == Elems(l)
           n == Len(l)
<1>1. n \in Nat /\ S \in SUBSET Commands /\ l \in [1 .. n -> S] /\ \A x \in S : \E i \in 1 .. n : l[i] = x
  BY ListHas, LenProperties DEF Elems
<1>2. l \in Bijection(1 .. n, S)
  <2>1. \A i, j \in 1 .. n : l[i] = l[j] => i = j
    BY SortedInjective
  <2> HIDE DEF S, n
  <2> QED
    BY <1>1, <2>1, Fun_IsBij
<1> HIDE DEF S
<1>3. Cardinality(S) = n /\ IsFiniteSet(S)
  <2>1. ExistsBijection(1 .. n, S)
    BY <1>2 DEF ExistsBijection
  <2> HIDE DEF n
  <2> QED
    BY <1>1, <2>1, FS_CountingElements, FS_NatBijection
<1>4. DOMAIN l = 1 .. n /\ \A i, j \in DOMAIN l : i < j => Before(l[i], l[j])
  BY <1>1 DEF Sorted
<1>5. PICK s : s = Ordered(S)
  OBVIOUS
<1>6. s \in [1 .. n -> S] /\ \A i, j \in DOMAIN s : i < j => Before(s[i], s[j])
  <2>1. \E t \in [1 .. n -> S] : \A i, j \in DOMAIN t : i < j => Before(t[i], t[j])
    BY <1>1, <1>4
  <2> HIDE DEF n
  <2> QED
    BY <1>3, <1>5, <2>1 DEF Ordered
<1>7. s \in Seq(Commands) /\ Len(s) = n /\ Sorted(s)
  <2>1. s \in [1 .. n -> Commands]
    BY <1>1, <1>6
  <2>2. s \in Seq(Commands)
    BY <1>1, <2>1, IsASeq
  <2>3. Len(s) = n
    BY <1>1, <2>1, <2>2, LenProperties
  <2> QED
    BY <1>6, <2>2, <2>3 DEF Sorted
<1>8. Elems(s) = S
  <2>1. s \in Injection(1 .. n, S)
    <3>1. \A i, j \in 1 .. n : s[i] = s[j] => i = j
      BY <1>7, SortedInjective
    <3> HIDE DEF n
    <3> QED
      BY <1>6, <3>1, Fun_IsInj
  <2>2. Cardinality(1 .. n) = n
    <3> HIDE DEF n
    <3>1. Cardinality(1 .. n) = IF 1 > n THEN 0 ELSE n - 1 + 1
      BY <1>1, FS_Interval
    <3> QED
      BY <1>1, <3>1
  <2>3. s \in Surjection(1 .. n, S)
    <3> HIDE DEF n
    <3> QED
      BY <1>3, <2>1, <2>2, FS_Injection
  <2>4. \A x \in S : \E i \in 1 .. n : s[i] = x
    BY <2>3 DEF Surjection
  <2> QED
    BY <1>6, <1>7, <2>4 DEF Elems
<1> QED
  BY <1>5, <1>7, <1>8, SortedUnique DEF S
----------------------------------------------------------------------------
(* The places of addMessage.                                               *)
LEMMA SkipTo ==
  ASSUME NEW l \in Seq(Commands), NEW from \in 1 .. Len(l) + 1, NEW S
  PROVE  \E i \in from .. Len(l) + 1 :
           (i = Len(l) + 1 \/ l[i] \notin S) /\ \A j \in from .. i - 1 : l[j] \in S
<1> DEFINE T == {i \in from .. Len(l) + 1 : i = Len(l) + 1 \/ l[i] \notin S}
<1>1. Len(l) \in Nat
  BY ListHas
<1>2. T \in SUBSET Nat /\ T # {}
  BY <1>1
<1>3. PICK i \in T : \A j \in T : i <= j
  <2> HIDE DEF T
  <2> QED
    BY <1>2, LeastNumber
<1>4. ASSUME NEW j \in from .. i - 1
      PROVE  l[j] \in S
  BY <1>1, <1>3
<1> QED
  BY <1>3, <1>4

(* Behind all that stand before the command, in front of all others.       *)
Fits(l, p, c) ==
  /\ p \in 1 .. Len(l) + 1
  /\ \A j \in 1 .. p - 1 : Before(l[j], c)
  /\ p # Len(l) + 1 => ~Before(l[p], c)

LEMMA PlaceFits ==
  ASSUME NEW l \in Seq(Commands), Sorted(l), NEW c \in Commands
  PROVE  Fits(l, Place(l, c), c)
<1> DEFINE n == Len(l)
           start == SkipWhile(l, 1, LAMBDA d : c.type > d.type)
           player == SkipWhile(l, start, LAMBDA d : c.type = d.type /\ c.player > d.player)
           place == SkipWhile(l, player, LAMBDA d : /\ c.type = d.type /\ c.player = d.player
                                                    /\ IsCommandIdNewer(c.id, d.id))
<1>1. n \in Nat /\ \A i \in 1 .. n : l[i] \in Commands
  BY ListHas
<1>2. /\ start \in 1 .. n + 1 /\ (start = n + 1 \/ ~(c.type > l[start].type))
      /\ \A j \in 1 .. start - 1 : c.type > l[j].type
  <2> DEFINE S == {d \in Commands : c.type > d.type}
  <2>1. PICK i \in 1 .. n + 1 : (i = n + 1 \/ l[i] \notin S) /\ \A j \in 1 .. i - 1 : l[j] \in S
    <3>1. 1 \in 1 .. n + 1
      BY <1>1
    <3> HIDE DEF S
    <3> QED
      BY <3>1, SkipTo
  <2>2. \E k \in 1 .. n + 1 : /\ k = n + 1 \/ ~(c.type > l[k].type)
                              /\ \A j \in 1 .. k - 1 : c.type > l[j].type
    BY <1>1, <2>1
  <2> QED
    BY <2>2 DEF SkipWhile
<1> HIDE DEF start
<1>3. /\ player \in start .. n + 1
      /\ player = n + 1 \/ ~(c.type = l[player].type /\ c.player > l[player].player)
      /\ \A j \in start .. player - 1 : c.type = l[j].type /\ c.player > l[j].player
  <2> DEFINE S == {d \in Commands : c.type = d.type /\ c.player > d.player}
  <2>1. PICK i \in start .. n + 1 : (i = n + 1 \/ l[i] \notin S) /\ \A j \in start .. i - 1 : l[j] \in S
    <3> HIDE DEF S
    <3> QED
      BY <1>2, SkipTo
  <2>2. \E k \in start .. n + 1 :
          /\ k = n + 1 \/ ~(c.type = l[k].type /\ c.player > l[k].player)
          /\ \A j \in start .. k - 1 : c.type = l[j].type /\ c.player > l[j].player
    BY <1>1, <1>2, <2>1
  <2> QED
    BY <2>2 DEF SkipWhile
<1> HIDE DEF player
<1>4. /\ place \in player .. n + 1
      /\ \/ place = n + 1
         \/ ~(c.type = l[place].type /\ c.player = l[place].player /\ IsCommandIdNewer(c.id, l[place].id))
      /\ \A j \in player .. place - 1 :
           c.type = l[j].type /\ c.player = l[j].player /\ IsCommandIdNewer(c.id, l[j].id)
  <2> DEFINE S == {d \in Commands : c.type = d.type /\ c.player = d.player /\ IsCommandIdNewer(c.id, d.id)}
  <2>1. PICK i \in player .. n + 1 : (i = n + 1 \/ l[i] \notin S) /\ \A j \in player .. i - 1 : l[j] \in S
    <3>1. player \in 1 .. n + 1
      BY <1>1, <1>2, <1>3
    <3> HIDE DEF S
    <3> QED
      BY <3>1, SkipTo
  <2>2. \E k \in player .. n + 1 :
          /\ \/ k = n + 1
             \/ ~(c.type = l[k].type /\ c.player = l[k].player /\ IsCommandIdNewer(c.id, l[k].id))
          /\ \A j \in player .. k - 1 :
               c.type = l[j].type /\ c.player = l[j].player /\ IsCommandIdNewer(c.id, l[j].id)
    BY <1>1, <1>2, <1>3, <2>1
  <2> QED
    BY <2>2 DEF SkipWhile
<1> HIDE DEF place
<1>5. ASSUME NEW j \in 1 .. place - 1
      PROVE  Before(l[j], c)
  <2>1. j \in 1 .. n /\ l[j] \in Commands
    BY <1>1, <1>2, <1>3, <1>4
  <2>2. CASE j < start
    <3>1. l[j].type < c.type
      BY <1>1, <1>2, <2>1, <2>2, CommandHas
    <3> QED
      BY <2>1, <3>1, BeforeIs
  <2>3. CASE start <= j /\ j < player
    <3>1. l[j].type = c.type /\ l[j].player < c.player
      BY <1>1, <1>2, <1>3, <2>1, <2>3, CommandHas
    <3> QED
      BY <2>1, <3>1, BeforeIs
  <2>4. CASE player <= j
    <3>1. l[j].type = c.type /\ l[j].player = c.player /\ IsCommandIdNewer(c.id, l[j].id)
      BY <1>1, <1>2, <1>3, <1>4, <2>1, <2>4
    <3> QED
      BY <2>1, <3>1, BeforeIs, NewerIs
  <2> QED
    BY <1>1, <1>2, <1>3, <1>4, <2>1, <2>2, <2>3, <2>4
<1>6. ASSUME place # n + 1
      PROVE  ~Before(l[place], c)
  <2>1. /\ place \in 1 .. n /\ start \in 1 .. n /\ player \in 1 .. n
        /\ start <= player /\ player <= place
    BY <1>1, <1>2, <1>3, <1>4, <1>6
  <2>2. l[place] \in Commands /\ l[start] \in Commands /\ l[player] \in Commands
    BY <1>1, <2>1
  <2>3. l[start].type >= c.type
    BY <1>1, <1>2, <2>1, <2>2, CommandHas
  <2>4. l[player] = l[start] \/ Before(l[start], l[player])
    BY <1>1, <2>1 DEF Sorted
  <2>5. l[place] = l[player] \/ Before(l[player], l[place])
    BY <1>1, <2>1 DEF Sorted
  <2>6. l[player].type >= c.type
    BY <2>2, <2>3, <2>4, BeforeIs, CommandHas
  <2>7. l[player].type > c.type \/ l[player].player >= c.player
    BY <1>3, <2>1, <2>2, <2>6, CommandHas
  <2>8. l[place].type > c.type \/ (l[place].type = c.type /\ l[place].player >= c.player)
    BY <2>2, <2>5, <2>6, <2>7, BeforeIs, CommandHas
  <2>9. CASE l[place].type = c.type /\ l[place].player = c.player
    <3>1. ~IsCommandIdNewer(c.id, l[place].id)
      BY <1>4, <1>6, <2>9
    <3> QED
      BY <2>2, <2>9, <3>1, BeforeIs, NewerIs, CommandHas
  <2> QED
    BY <2>2, <2>8, <2>9, BeforeIs, CommandHas
<1>7. place \in 1 .. n + 1
  BY <1>1, <1>2, <1>3, <1>4
<1>8. Place(l, c) = place
  BY DEF Place, place, player, start
<1> QED
  BY <1>5, <1>6, <1>7, <1>8 DEF Fits

----------------------------------------------------------------------------
(* A command goes in.                                                      *)
LEMMA InsertedIs ==
  ASSUME NEW s \in Seq(Commands), NEW k \in 1 .. Len(s) + 1, NEW c \in Commands
  PROVE  /\ InsertAt(s, k, c) \in Seq(Commands) /\ Len(InsertAt(s, k, c)) = Len(s) + 1
         /\ \A i \in 1 .. Len(s) + 1 :
              InsertAt(s, k, c)[i] = IF i < k THEN s[i] ELSE IF i = k THEN c ELSE s[i - 1]
<1> DEFINE n == Len(s)
           a == SubSeq(s, 1, k - 1)
           b == SubSeq(s, k, n)
           ac == a \o <<c>>
<1>1. n \in Nat
  BY ListHas
<1>2. a \in Seq(Commands) /\ Len(a) = k - 1 /\ \A i \in 1 .. k - 1 : a[i] = s[i]
  BY <1>1
<1>3. b \in Seq(Commands) /\ Len(b) = n - k + 1 /\ \A i \in 1 .. n - k + 1 : b[i] = s[k + i - 1]
  BY <1>1
<1> HIDE DEF a, b
<1>4. ac \in Seq(Commands) /\ Len(ac) = k /\ \A i \in 1 .. k : ac[i] = IF i < k THEN s[i] ELSE c
  <2>1. <<c>> \in Seq(Commands) /\ Len(<<c>>) = 1 /\ <<c>>[1] = c
    OBVIOUS
  <2>2. /\ ac \in Seq(Commands) /\ Len(ac) = Len(a) + 1
        /\ \A i \in 1 .. Len(a) + 1 : ac[i] = IF i <= Len(a) THEN a[i] ELSE <<c>>[i - Len(a)]
    BY <1>2, <2>1, ConcatProperties
  <2>3. ASSUME NEW i \in 1 .. k
        PROVE  ac[i] = IF i < k THEN s[i] ELSE c
    <3>1. CASE i < k
      BY <1>1, <1>2, <2>2, <3>1
    <3>2. CASE i = k
      <4>1. i - Len(a) = 1 /\ ~(i <= Len(a)) /\ i \in 1 .. Len(a) + 1
        BY <1>1, <1>2, <3>2
      <4> QED
        BY <2>1, <2>2, <3>2, <4>1
    <3>3. i < k \/ i = k
      BY <1>1
    <3> QED
      BY <3>1, <3>2, <3>3
  <2> QED
    BY <1>1, <1>2, <2>2, <2>3
<1> HIDE DEF ac
<1>5. /\ ac \o b \in Seq(Commands) /\ Len(ac \o b) = n + 1
      /\ \A i \in 1 .. n + 1 : (ac \o b)[i] = IF i <= k THEN ac[i] ELSE b[i - k]
  <2>1. /\ ac \o b \in Seq(Commands) /\ Len(ac \o b) = Len(ac) + Len(b)
        /\ \A i \in 1 .. Len(ac) + Len(b) : (ac \o b)[i] = IF i <= Len(ac) THEN ac[i] ELSE b[i - Len(ac)]
    BY <1>3, <1>4, ConcatProperties
  <2>2. Len(ac) + Len(b) = n + 1
    BY <1>1, <1>3, <1>4
  <2> QED
    BY <1>4, <2>1, <2>2
<1>6. ASSUME NEW i \in 1 .. n + 1
      PROVE  (ac \o b)[i] = IF i < k THEN s[i] ELSE IF i = k THEN c ELSE s[i - 1]
  <2>1. CASE i <= k
    BY <1>1, <1>4, <1>5, <2>1
  <2>2. CASE k < i
    <3>1. i - k \in 1 .. n - k + 1 /\ k + (i - k) - 1 = i - 1 /\ ~(i <= k)
      BY <1>1, <2>2
    <3>2. b[i - k] = s[i - 1]
      BY <1>3, <3>1
    <3> QED
      BY <1>1, <1>5, <2>2, <3>1, <3>2
  <2>3. i <= k \/ k < i
    BY <1>1
  <2> QED
    BY <2>1, <2>2, <2>3
<1>7. InsertAt(s, k, c) = ac \o b
  BY DEF InsertAt, ac, a, b
<1> QED
  BY <1>5, <1>6, <1>7

LEMMA InsertSorted ==
  ASSUME NEW l \in Seq(Commands), Sorted(l), NEW c \in Commands, NEW k \in 1 .. Len(l) + 1,
         \A j \in 1 .. k - 1 : Before(l[j], c), \A j \in k .. Len(l) : Before(c, l[j])
  PROVE  /\ InsertAt(l, k, c) \in Seq(Commands) /\ Sorted(InsertAt(l, k, c))
         /\ Elems(InsertAt(l, k, c)) = Elems(l) \cup {c} /\ Len(InsertAt(l, k, c)) = Len(l) + 1
<1> DEFINE n == Len(l)
           t == InsertAt(l, k, c)
<1>1. n \in Nat /\ \A i \in 1 .. n : l[i] \in Commands
  BY ListHas
<1>2. /\ t \in Seq(Commands) /\ Len(t) = n + 1
      /\ \A i \in 1 .. n + 1 : t[i] = IF i < k THEN l[i] ELSE IF i = k THEN c ELSE l[i - 1]
  BY InsertedIs
<1> HIDE DEF t
<1>3. ASSUME NEW i \in 1 .. n + 1, NEW j \in 1 .. n + 1, i < j
      PROVE  Before(t[i], t[j])
  <2>1. CASE j < k
    <3>1. i \in 1 .. n /\ j \in 1 .. n /\ t[i] = l[i] /\ t[j] = l[j]
      BY <1>1, <1>2, <1>3, <2>1
    <3> QED
      BY <1>3, <3>1 DEF Sorted
  <2>2. CASE j = k
    <3>1. i \in 1 .. k - 1 /\ t[i] = l[i] /\ t[j] = c
      BY <1>1, <1>2, <1>3, <2>2
    <3> QED
      BY <3>1
  <2>3. CASE k < j /\ i < k
    <3>1. i \in 1 .. n /\ j - 1 \in 1 .. n /\ i < j - 1 /\ t[i] = l[i] /\ t[j] = l[j - 1]
      BY <1>1, <1>2, <1>3, <2>3
    <3> QED
      BY <3>1 DEF Sorted
  <2>4. CASE k < j /\ i = k
    <3>1. j - 1 \in k .. n /\ ~(j < k) /\ j # k /\ ~(k < k)
      BY <1>1, <1>3, <2>4
    <3>2. t[i] = c /\ t[j] = l[j - 1]
      BY <1>2, <2>4, <3>1
    <3> QED
      BY <3>1, <3>2
  <2>5. CASE k < j /\ k < i
    <3>1. i - 1 \in 1 .. n /\ j - 1 \in 1 .. n /\ i - 1 < j - 1 /\ t[i] = l[i - 1] /\ t[j] = l[j - 1]
      BY <1>1, <1>2, <1>3, <2>5
    <3> QED
      BY <3>1 DEF Sorted
  <2> QED
    BY <1>1, <2>1, <2>2, <2>3, <2>4, <2>5
<1>4. Elems(t) \subseteq Elems(l) \cup {c}
  <2> SUFFICES ASSUME NEW i \in 1 .. n + 1 PROVE t[i] \in Elems(l) \cup {c}
    BY <1>2 DEF Elems
  <2>1. (i < k => i \in 1 .. n) /\ (i > k => i - 1 \in 1 .. n)
    BY <1>1
  <2> QED
    BY <1>1, <1>2, <2>1 DEF Elems
<1>5. c \in Elems(t)
  <2>1. k \in 1 .. n + 1 /\ t[k] = c
    BY <1>1, <1>2
  <2> QED
    BY <1>2, <2>1 DEF Elems
<1>6. ASSUME NEW i \in 1 .. n
      PROVE  l[i] \in Elems(t)
  <2>1. CASE i < k
    <3>1. i \in 1 .. n + 1 /\ t[i] = l[i]
      BY <1>1, <1>2, <2>1
    <3> QED
      BY <1>2, <3>1 DEF Elems
  <2>2. CASE ~(i < k)
    <3>1. i + 1 \in 1 .. n + 1 /\ ~(i + 1 < k) /\ i + 1 # k /\ (i + 1) - 1 = i
      BY <1>1, <2>2
    <3>2. t[i + 1] = l[i]
      BY <1>2, <3>1
    <3> QED
      BY <1>2, <3>1, <3>2 DEF Elems
  <2> QED
    BY <2>1, <2>2
<1>7. Elems(t) = Elems(l) \cup {c}
  BY <1>4, <1>5, <1>6 DEF Elems
<1>8. Sorted(t)
  BY <1>2, <1>3 DEF Sorted
<1> QED
  BY <1>2, <1>7, <1>8 DEF t

(* The command goes in at its place, unless it is there.                   *)
LEMMA AddedIs ==
  ASSUME NEW l \in Seq(Commands), Sorted(l), NEW hint \in 0 .. Len(l), NEW c \in Commands,
         \A d \in Elems(l) : d.player = c.player /\ d.id = c.id => d.type = c.type
  PROVE  /\ Added(l, hint, c).list \in Seq(Commands) /\ Sorted(Added(l, hint, c).list)
         /\ Elems(Added(l, hint, c).list) = Elems(l) \cup {c}
         /\ Added(l, hint, c).place \in 0 .. Len(Added(l, hint, c).list)
         /\ Added(l, hint, c).place = 0 => Added(l, hint, c).list = l
<1> DEFINE n == Len(l)
<1>1. n \in Nat /\ \A i \in 1 .. n : l[i] \in Commands
  BY ListHas
<1>2. ASSUME NEW k \in 1 .. n + 1, Added(l, hint, c) = [list |-> InsertAt(l, k, c), place |-> k],
             \A j \in 1 .. k - 1 : Before(l[j], c), \A j \in k .. n : Before(c, l[j])
      PROVE  /\ Added(l, hint, c).list \in Seq(Commands) /\ Sorted(Added(l, hint, c).list)
             /\ Elems(Added(l, hint, c).list) = Elems(l) \cup {c}
             /\ Added(l, hint, c).place \in 0 .. Len(Added(l, hint, c).list)
             /\ Added(l, hint, c).place # 0
  <2>1. Added(l, hint, c).list = InsertAt(l, k, c) /\ Added(l, hint, c).place = k
    BY <1>2
  <2>2. /\ InsertAt(l, k, c) \in Seq(Commands) /\ Sorted(InsertAt(l, k, c))
        /\ Elems(InsertAt(l, k, c)) = Elems(l) \cup {c} /\ Len(InsertAt(l, k, c)) = n + 1
    BY <1>2, InsertSorted
  <2>3. k \in 0 .. n + 1 /\ k # 0
    BY <1>1
  <2> QED
    BY <2>1, <2>2, <2>3
<1>3. CASE FollowsLastInserted(l, hint, c)
  <2>1. hint \in 1 .. n /\ hint + 1 \in 1 .. n + 1 /\ l[hint] \in Commands
    BY <1>1, <1>3 DEF FollowsLastInserted
  <2>2. Before(l[hint], c)
    <3>1. l[hint].type = c.type /\ l[hint].player = c.player /\ IsCommandIdNewer(c.id, l[hint].id)
      BY <1>3 DEF FollowsLastInserted
    <3> QED
      BY <2>1, <3>1, BeforeIs, NewerIs
  <2>3. ASSUME NEW j \in 1 .. (hint + 1) - 1
        PROVE  Before(l[j], c)
    <3>1. j \in 1 .. n /\ l[j] \in Commands /\ (j = hint \/ j < hint)
      BY <1>1, <2>1
    <3>2. j = hint \/ Before(l[j], l[hint])
      BY <2>1, <3>1 DEF Sorted
    <3> QED
      BY <2>1, <2>2, <3>1, <3>2, BeforeTrans
  <2>4. ASSUME NEW j \in hint + 1 .. n
        PROVE  Before(c, l[j])
    <3>1. hint # n /\ hint + 1 \in 1 .. n /\ l[hint + 1] \in Commands
      BY <1>1, <2>1
    <3>2. \/ l[hint + 1].type > c.type \/ l[hint + 1].player > c.player
          \/ IsCommandIdNewer(l[hint + 1].id, c.id)
      BY <1>3, <3>1 DEF FollowsLastInserted
    <3>3. l[hint].type = c.type /\ l[hint].player = c.player
      BY <1>3 DEF FollowsLastInserted
    <3>4. Before(l[hint], l[hint + 1])
      BY <1>1, <2>1, <3>1 DEF Sorted
    <3>5. Before(c, l[hint + 1])
      <4>1. \/ c.type < l[hint + 1].type
            \/ c.type = l[hint + 1].type /\ c.player < l[hint + 1].player
            \/ c.type = l[hint + 1].type /\ c.player = l[hint + 1].player
        BY <2>1, <3>1, <3>3, <3>4, BeforeIs
      <4>2. CASE c.type = l[hint + 1].type /\ c.player = l[hint + 1].player
        <5>1. IsCommandIdNewer(l[hint + 1].id, c.id)
          BY <3>1, <3>2, <4>2, CommandHas
        <5> QED
          BY <3>1, <4>2, <5>1, BeforeIs, NewerIs
      <4> QED
        BY <3>1, <4>1, <4>2, BeforeIs
    <3>6. j \in 1 .. n /\ l[j] \in Commands /\ (j = hint + 1 \/ hint + 1 < j)
      BY <1>1, <2>1
    <3>7. j = hint + 1 \/ Before(l[hint + 1], l[j])
      BY <3>1, <3>6 DEF Sorted
    <3> QED
      BY <3>1, <3>5, <3>6, <3>7, BeforeTrans
  <2>5. Added(l, hint, c) = [list |-> InsertAt(l, hint + 1, c), place |-> hint + 1]
    BY <1>3 DEF Added
  <2> QED
    BY <1>2, <2>1, <2>3, <2>4, <2>5
<1> DEFINE place == Place(l, c)
<1>4. Fits(l, place, c)
  BY PlaceFits
<1>5. CASE ~FollowsLastInserted(l, hint, c) /\ AlreadyThere(l, place, c)
  <2>1. Added(l, hint, c) = [list |-> l, place |-> 0]
    BY <1>5 DEF Added
  <2>2. n \in 1 .. n
    <3>1. n # 0
      BY <1>5, EmptySeq DEF AlreadyThere
    <3> QED
      BY <1>1, <3>1
  <2>3. PICK i \in 1 .. n : IsEqualCommandMsg(l[i], c)
    BY <1>1, <1>4, <1>5, <2>2 DEF AlreadyThere, Fits
  <2>4. l[i] \in Elems(l) /\ l[i] \in Commands
    BY <1>1 DEF Elems
  <2>5. l[i] = c
    BY <2>3, <2>4, SameCommand DEF IsEqualCommandMsg
  <2>6. Elems(l) = Elems(l) \cup {c}
    BY <2>4, <2>5
  <2>7. Added(l, hint, c).list = l /\ Added(l, hint, c).place = 0
    BY <2>1
  <2> QED
    BY <1>1, <2>6, <2>7
<1>6. CASE ~FollowsLastInserted(l, hint, c) /\ ~AlreadyThere(l, place, c)
  <2>1. Added(l, hint, c) = [list |-> InsertAt(l, place, c), place |-> place]
    BY <1>6 DEF Added
  <2>2. place \in 1 .. n + 1 /\ \A j \in 1 .. place - 1 : Before(l[j], c)
    BY <1>4 DEF Fits
  <2>3. ASSUME NEW j \in place .. n
        PROVE  Before(c, l[j])
    <3>1. place \in 1 .. n /\ place # n + 1 /\ ~(place > n) /\ l[place] \in Commands
      BY <1>1, <2>2
    <3>2. ~Before(l[place], c)
      BY <1>4, <3>1 DEF Fits
    <3>3. l[place] # c
      <4>1. l # <<>>
        BY <1>1, <3>1, EmptySeq
      <4> QED
        BY <1>6, <3>1, <4>1 DEF AlreadyThere, IsEqualCommandMsg
    <3>4. Before(c, l[place])
      BY <3>1, <3>2, <3>3, BeforeIsTotal
    <3>5. j \in 1 .. n /\ l[j] \in Commands /\ (j = place \/ place < j)
      BY <1>1, <3>1
    <3>6. j = place \/ Before(l[place], l[j])
      BY <3>1, <3>5 DEF Sorted
    <3> QED
      BY <3>1, <3>4, <3>5, <3>6, BeforeTrans
  <2> HIDE DEF place
  <2> QED
    BY <1>2, <2>1, <2>2, <2>3
<1> QED
  BY <1>2, <1>3, <1>5, <1>6

(* A command is taken out.                                                 *)
LEMMA Removed ==
  ASSUME NEW s \in Seq(Commands), NEW k \in 1 .. Len(s)
  PROVE  /\ RemoveAt(s, k) \in Seq(Commands) /\ Len(RemoveAt(s, k)) = Len(s) - 1
         /\ \A i \in 1 .. Len(s) - 1 :
              RemoveAt(s, k)[i] = IF i < k THEN s[i] ELSE s[i + 1]
<1>1. Len(s) \in Nat
  BY LenProperties
<1>2. /\ SubSeq(s, 1, k - 1) \in Seq(Commands) /\ Len(SubSeq(s, 1, k - 1)) = k - 1
      /\ \A i \in 1 .. k - 1 : SubSeq(s, 1, k - 1)[i] = s[i]
  BY <1>1
<1>3. /\ SubSeq(s, k + 1, Len(s)) \in Seq(Commands) /\ Len(SubSeq(s, k + 1, Len(s))) = Len(s) - k
      /\ \A i \in 1 .. Len(s) - k : SubSeq(s, k + 1, Len(s))[i] = s[k + i]
  BY <1>1
<1> DEFINE a == SubSeq(s, 1, k - 1)
           b == SubSeq(s, k + 1, Len(s))
<1>4. RemoveAt(s, k) = a \o b
  BY DEF RemoveAt
<1>5. a \in Seq(Commands) /\ Len(a) = k - 1 /\ \A i \in 1 .. k - 1 : a[i] = s[i]
  BY <1>2
<1>6. b \in Seq(Commands) /\ Len(b) = Len(s) - k /\ \A i \in 1 .. Len(s) - k : b[i] = s[k + i]
  BY <1>3
<1> HIDE DEF a, b
<1>7. /\ a \o b \in Seq(Commands) /\ Len(a \o b) = Len(a) + Len(b)
      /\ \A i \in 1 .. Len(a) + Len(b) : (a \o b)[i] = IF i <= Len(a) THEN a[i] ELSE b[i - Len(a)]
  BY <1>5, <1>6, ConcatProperties
<1>8. Len(a) + Len(b) = Len(s) - 1
  BY <1>1, <1>5, <1>6
<1>9. ASSUME NEW i \in 1 .. Len(s) - 1
      PROVE  (a \o b)[i] = IF i < k THEN s[i] ELSE s[i + 1]
  <2>1. CASE i < k
    BY <1>1, <1>5, <1>7, <1>8, <2>1
  <2>2. CASE ~(i < k)
    <3>1. i - (k - 1) \in 1 .. Len(s) - k /\ ~(i <= k - 1)
      BY <1>1, <2>2
    <3>2. b[i - (k - 1)] = s[k + (i - (k - 1))] /\ k + (i - (k - 1)) = i + 1
      BY <1>1, <1>6, <3>1
    <3> QED
      BY <1>5, <1>7, <1>8, <2>2, <3>1, <3>2
  <2> QED
    BY <2>1, <2>2
<1> QED
  BY <1>4, <1>7, <1>8, <1>9

LEMMA RemoveSorted ==
  ASSUME NEW l \in Seq(Commands), Sorted(l), NEW k \in 1 .. Len(l)
  PROVE  /\ RemoveAt(l, k) \in Seq(Commands) /\ Sorted(RemoveAt(l, k))
         /\ Elems(RemoveAt(l, k)) = Elems(l) \ {l[k]} /\ Len(RemoveAt(l, k)) = Len(l) - 1
<1> DEFINE n == Len(l)
           t == RemoveAt(l, k)
<1>1. n \in Nat /\ \A i \in 1 .. n : l[i] \in Commands
  BY ListHas
<1>2. /\ t \in Seq(Commands) /\ Len(t) = n - 1
      /\ \A i \in 1 .. n - 1 : t[i] = IF i < k THEN l[i] ELSE l[i + 1]
  BY Removed
<1> HIDE DEF t
<1>3. ASSUME NEW i \in 1 .. n - 1, NEW j \in 1 .. n - 1, i < j
      PROVE  Before(t[i], t[j])
  <2>1. CASE j < k
    <3>1. i \in 1 .. n /\ j \in 1 .. n /\ i < k
      BY <1>1, <1>3, <2>1
    <3>2. t[i] = l[i] /\ t[j] = l[j]
      BY <1>2, <2>1, <3>1
    <3> QED
      BY <1>3, <3>1, <3>2 DEF Sorted
  <2>2. CASE ~(j < k) /\ i < k
    <3>1. i \in 1 .. n /\ j + 1 \in 1 .. n /\ i < j + 1
      BY <1>1, <1>3
    <3>2. t[i] = l[i] /\ t[j] = l[j + 1]
      BY <1>2, <2>2
    <3> QED
      BY <3>1, <3>2 DEF Sorted
  <2>3. CASE ~(j < k) /\ ~(i < k)
    <3>1. i + 1 \in 1 .. n /\ j + 1 \in 1 .. n /\ i + 1 < j + 1
      BY <1>1, <1>3
    <3>2. t[i] = l[i + 1] /\ t[j] = l[j + 1]
      BY <1>2, <2>3
    <3> QED
      BY <3>1, <3>2 DEF Sorted
  <2>4. i < k => j < k \/ ~(j < k)
    OBVIOUS
  <2>5. j < k => i < k
    BY <1>1, <1>3
  <2> QED
    BY <2>1, <2>2, <2>3, <2>5
<1>4. ASSUME NEW i \in 1 .. n - 1
      PROVE  t[i] \in Elems(l) \ {l[k]}
  <2>1. \E j \in 1 .. n : t[i] = l[j] /\ j # k
    <3>1. CASE i < k
      BY <1>1, <1>2, <3>1
    <3>2. CASE ~(i < k)
      <4>1. i + 1 \in 1 .. n /\ i + 1 # k /\ t[i] = l[i + 1]
        BY <1>1, <1>2, <3>2
      <4> QED
        BY <4>1
    <3> QED
      BY <3>1, <3>2
  <2>2. PICK j \in 1 .. n : t[i] = l[j] /\ j # k
    BY <2>1
  <2>3. l[j] # l[k]
    BY <2>2, SortedInjective
  <2> QED
    BY <2>2, <2>3 DEF Elems
<1>5. ASSUME NEW i \in 1 .. n, l[i] # l[k]
      PROVE  l[i] \in Elems(t)
  <2>1. \E j \in 1 .. n - 1 : t[j] = l[i]
    <3>1. CASE i < k
      <4>1. i \in 1 .. n - 1 /\ t[i] = l[i]
        BY <1>1, <1>2, <3>1
      <4> QED
        BY <4>1
    <3>2. CASE k < i
      <4>1. i - 1 \in 1 .. n - 1 /\ ~(i - 1 < k) /\ (i - 1) + 1 = i
        BY <1>1, <3>2
      <4>2. t[i - 1] = l[i]
        BY <1>2, <4>1
      <4> QED
        BY <4>1, <4>2
    <3>3. i < k \/ k < i
      BY <1>1, <1>5
    <3> QED
      BY <3>1, <3>2, <3>3
  <2> QED
    BY <1>2, <2>1 DEF Elems
<1>6. Elems(t) = Elems(l) \ {l[k]}
  <2>1. Elems(t) \subseteq Elems(l) \ {l[k]}
    <3>1. \A x \in Elems(t) : \E i \in 1 .. n - 1 : x = t[i]
      BY <1>2 DEF Elems
    <3> QED
      BY <1>4, <3>1
  <2>2. Elems(l) \ {l[k]} \subseteq Elems(t)
    <3>1. \A x \in Elems(l) : \E i \in 1 .. n : x = l[i]
      BY DEF Elems
    <3> QED
      BY <1>5, <3>1
  <2> QED
    BY <2>1, <2>2
<1>7. Sorted(t)
  BY <1>2, <1>3 DEF Sorted
<1> QED
  BY <1>2, <1>6, <1>7 DEF t

----------------------------------------------------------------------------
(* The list is sorted and holds what was added and not removed.            *)
Inv ==
  /\ list \in Seq(Commands) /\ Sorted(list) /\ Elems(list) = held
  /\ m_lastMessageInserted \in 0 .. Len(list)
  /\ \A c, d \in held : c.player = d.player /\ c.id = d.id => c.type = d.type

LEMMA InvAlways == Spec => []Inv
<1>1. Init => Inv
  <2>1. <<>> \in Seq(Commands) /\ Len(<<>>) = 0
    OBVIOUS
  <2>2. Sorted(<<>>) /\ Elems(<<>>) = {}
    BY <2>1 DEF Sorted, Elems
  <2>3. 0 \in 0 .. Len(<<>>)
    BY <2>1
  <2> QED
    BY <2>1, <2>2, <2>3 DEF Init, Inv
<1>2. Inv /\ [Next]_vars => Inv'
  <2> SUFFICES ASSUME Inv, [Next]_vars PROVE Inv'
    OBVIOUS
  <2> USE DEF Inv
  <2>1. Len(list) \in Nat
    BY ListHas
  <2>2. ASSUME NEW c \in Commands, \A d \in held : d.player = c.player /\ d.id = c.id => d.type = c.type,
               AddMessage(c)
        PROVE  Inv'
    <3> DEFINE added == Added(list, m_lastMessageInserted, c)
    <3>1. /\ list' = added.list /\ held' = held \cup {c}
          /\ m_lastMessageInserted' = IF added.place = 0 THEN m_lastMessageInserted ELSE added.place
      BY <2>2 DEF AddMessage
    <3>2. /\ added.list \in Seq(Commands) /\ Sorted(added.list) /\ Elems(added.list) = held \cup {c}
          /\ added.place \in 0 .. Len(added.list) /\ (added.place = 0 => added.list = list)
      BY <2>2, AddedIs
    <3>3. \A a, b \in held' : a.player = b.player /\ a.id = b.id => a.type = b.type
      BY <2>2, <3>1
    <3> HIDE DEF added
    <3> QED
      BY <3>1, <3>2, <3>3
  <2>3. ASSUME NEW i \in 1 .. Len(list), RemoveMessage(i)
        PROVE  Inv'
    <3>1. /\ list' \in Seq(Commands) /\ Sorted(list') /\ Elems(list') = held'
          /\ Len(list') = Len(list) - 1
      BY <2>3, RemoveSorted DEF RemoveMessage
    <3>2. m_lastMessageInserted' \in 0 .. Len(list) - 1
      BY <2>1, <2>3 DEF RemoveMessage
    <3>3. held' \subseteq held
      BY <2>3 DEF RemoveMessage
    <3> QED
      BY <3>1, <3>2, <3>3
  <2>4. CASE UNCHANGED vars
    BY <2>4 DEF vars, Sorted, Elems
  <2> QED
    BY <2>2, <2>3, <2>4 DEF Next
<1> QED
  BY <1>1, <1>2, PTL DEF Spec

(* Whatever is added and removed, the list is one of commands, and the     *)
(* place of the command inserted last is one of the list.                  *)
THEOREM TypeCorrect == Spec => []TypeOK
<1>1. Inv => TypeOK
  BY ListHas DEF Inv, TypeOK, Elems
<1> QED
  BY <1>1, InvAlways, PTL

(* Two players who hold the same commands of a frame execute them in the   *)
(* same order, in whatever order they have received them.                  *)
THEOREM OneOrder == Spec => []SameSetSameOrder
<1>1. Inv => SameSetSameOrder
  BY SortedIsOrdered DEF Inv, SameSetSameOrder
<1> QED
  BY <1>1, InvAlways, PTL

----------------------------------------------------------------------------
(* Joining.  A list and its hint, which holds the commands S.              *)
ListOf(acc, S) ==
  /\ acc.list \in Seq(Commands) /\ Sorted(acc.list) /\ Elems(acc.list) = S
  /\ acc.place \in 0 .. Len(acc.list)

(* One command more. *)
OneMore(acc, c) ==
  LET added == Added(acc.list, acc.place, c)
  IN  IF added.place = 0 THEN acc ELSE added

LEMMA OneMoreIs ==
  ASSUME Inv, NEW S \in SUBSET held, NEW acc, ListOf(acc, S), NEW c \in held
  PROVE  ListOf(OneMore(acc, c), S \cup {c})
<1> DEFINE added == Added(acc.list, acc.place, c)
<1>1. c \in Commands
  <2>1. c \in Elems(list)
    BY DEF Inv
  <2> QED
    BY <2>1, ListHas DEF Inv, Elems
<1>2. /\ added.list \in Seq(Commands) /\ Sorted(added.list) /\ Elems(added.list) = S \cup {c}
      /\ added.place \in 0 .. Len(added.list) /\ (added.place = 0 => added.list = acc.list)
  <2>1. \A d \in Elems(acc.list) : d.player = c.player /\ d.id = c.id => d.type = c.type
    BY DEF Inv, ListOf
  <2> QED
    BY <1>1, <2>1, AddedIs DEF ListOf
<1>3. OneMore(acc, c) = IF added.place = 0 THEN acc ELSE added
  BY DEF OneMore
<1> HIDE DEF added
<1> QED
  BY <1>2, <1>3 DEF ListOf

(* The first n commands of the list have been looked at for those of p.    *)
AppendedTo(l, p, n, g) ==
  g = [i \in 0 .. n |->
         IF i = 0 THEN l
         ELSE LET added == Added(g[i - 1].list, g[i - 1].place, list[i])
              IN  IF list[i].player # p \/ added.place = 0 THEN g[i - 1] ELSE added]

LEMMA AppendedExists ==
  ASSUME NEW l, NEW p, NEW N \in Nat
  PROVE  \E g : AppendedTo(l, p, N, g)
<1> DEFINE Bad == {n \in 0 .. N : ~\E g : AppendedTo(l, p, n, g)}
<1>1. Bad = {}
  <2> SUFFICES ASSUME Bad # {} PROVE FALSE
    OBVIOUS
  <2>1. Bad \in SUBSET Nat
    OBVIOUS
  <2>2. PICK n \in Bad : \A k \in Bad : n <= k
    <3> HIDE DEF Bad
    <3> QED
      BY <2>1, LeastNumber
  <2>3. CASE n = 0
    <3> DEFINE g == [i \in 0 .. 0 |-> l]
    <3>1. AppendedTo(l, p, 0, g)
      BY DEF AppendedTo
    <3> QED
      BY <2>2, <2>3, <3>1
  <2>4. CASE n # 0
    <3>1. n - 1 \in 0 .. N /\ n \in 0 .. N /\ n \in Nat
      BY <2>2, <2>4
    <3>2. n - 1 \notin Bad
      BY <2>2, <3>1
    <3>3. PICK h : AppendedTo(l, p, n - 1, h)
      BY <3>1, <3>2
    <3> DEFINE More(i, a) == LET added == Added(a.list, a.place, list[i])
                             IN  IF list[i].player # p \/ added.place = 0 THEN a ELSE added
               g == [i \in 0 .. n |-> IF i = n THEN More(n, h[n - 1]) ELSE h[i]]
    <3>4. ASSUME NEW i \in 0 .. n
          PROVE  g[i] = IF i = 0 THEN l ELSE More(i, g[i - 1])
      <4> HIDE DEF More
      <4>1. CASE i = n
        BY <2>4, <3>1, <4>1
      <4>2. CASE i # n
        <5>1. i \in 0 .. n - 1 /\ g[i] = h[i]
          BY <3>1, <4>2
        <5>2. h[i] = IF i = 0 THEN l ELSE More(i, h[i - 1])
          BY <3>3, <5>1 DEF AppendedTo, More
        <5>3. i # 0 => g[i - 1] = h[i - 1]
          BY <3>1, <5>1
        <5> QED
          BY <5>1, <5>2, <5>3
      <4> QED
        BY <4>1, <4>2
    <3>5. g = [i \in 0 .. n |-> g[i]]
      OBVIOUS
    <3> HIDE DEF g
    <3>6. AppendedTo(l, p, n, g)
      BY <3>4, <3>5 DEF AppendedTo
    <3> QED
      BY <2>2, <3>6
  <2> QED
    BY <2>3, <2>4
<1> QED
  BY <1>1

LEMMA AppendIs ==
  ASSUME Inv, NEW S \in SUBSET held, NEW l, ListOf(l, S), NEW p
  PROVE  ListOf(AppendList(l, p), S \cup {c \in held : c.player = p})
<1> DEFINE N == Len(list)
           g == CHOOSE f : AppendedTo(l, p, N, f)
           Seen(n) == S \cup {c \in held : c.player = p /\ \E i \in 1 .. n : c = list[i]}
           Bad == {n \in 0 .. N : ~ListOf(g[n], Seen(n))}
<1>1. N \in Nat /\ \A i \in 1 .. N : list[i] \in held
  BY ListHas DEF Inv, Elems
<1>2. AppendedTo(l, p, N, g)
  BY <1>1, AppendedExists
<1>3. AppendList(l, p) = g[N]
  BY DEF AppendList, AppendedTo
<1> HIDE DEF g
<1>4. Bad = {}
  <2> SUFFICES ASSUME Bad # {} PROVE FALSE
    OBVIOUS
  <2>1. Bad \in SUBSET Nat
    BY <1>1
  <2>2. PICK n \in Bad : \A k \in Bad : n <= k
    <3> HIDE DEF Bad
    <3> QED
      BY <2>1, LeastNumber
  <2>3. n \in 0 .. N /\ ~ListOf(g[n], Seen(n))
    BY <2>2
  <2>4. CASE n = 0
    <3>1. g[0] = l
      BY <1>1, <1>2 DEF AppendedTo
    <3>2. Seen(0) = S
      OBVIOUS
    <3> QED
      BY <2>3, <2>4, <3>1, <3>2
  <2>5. CASE n # 0
    <3>1. n - 1 \in 0 .. N /\ n \in 1 .. N /\ list[n] \in held
      BY <1>1, <2>3, <2>5
    <3>2. ListOf(g[n - 1], Seen(n - 1))
      <4>1. n - 1 \notin Bad
        <5> HIDE DEF Bad
        <5> QED
          BY <2>2, <3>1
      <4> QED
        BY <3>1, <4>1
    <3>3. g[n] = IF list[n].player # p THEN g[n - 1] ELSE OneMore(g[n - 1], list[n])
      BY <1>2, <2>3, <2>5 DEF AppendedTo, OneMore
    <3>4. Seen(n) = IF list[n].player # p THEN Seen(n - 1) ELSE Seen(n - 1) \cup {list[n]}
      BY <3>1
    <3>5. Seen(n - 1) \in SUBSET held
      OBVIOUS
    <3> HIDE DEF Seen
    <3>6. ListOf(OneMore(g[n - 1], list[n]), Seen(n - 1) \cup {list[n]})
      BY <3>1, <3>2, <3>5, OneMoreIs
    <3> QED
      BY <2>3, <3>2, <3>3, <3>4, <3>6
  <2> QED
    BY <2>4, <2>5
<1>5. Seen(N) = S \cup {c \in held : c.player = p}
  BY DEF Inv, Elems
<1>6. ListOf(g[N], Seen(N))
  <2>1. N \in 0 .. N
    BY <1>1
  <2>2. N \notin Bad
    <3> HIDE DEF Bad
    <3> QED
      BY <1>4
  <2> QED
    BY <2>1, <2>2
<1> HIDE DEF Seen
<1> QED
  BY <1>3, <1>5, <1>6

(* The first n slots have been joined.                                     *)
NoList == [list |-> <<>>, place |-> 0]
JoinedOf(n, g) ==
  g = [i \in 0 .. n |->
         IF i = 0 THEN NoList
         ELSE IF i - 1 \in Players THEN AppendList(g[i - 1], i - 1) ELSE g[i - 1]]

LEMMA JoinedExists ==
  ASSUME NEW N \in Nat
  PROVE  \E g : JoinedOf(N, g)
<1> DEFINE Bad == {n \in 0 .. N : ~\E g : JoinedOf(n, g)}
<1>1. Bad = {}
  <2> SUFFICES ASSUME Bad # {} PROVE FALSE
    OBVIOUS
  <2>1. Bad \in SUBSET Nat
    OBVIOUS
  <2>2. PICK n \in Bad : \A k \in Bad : n <= k
    <3> HIDE DEF Bad
    <3> QED
      BY <2>1, LeastNumber
  <2>3. CASE n = 0
    <3> DEFINE g == [i \in 0 .. 0 |-> NoList]
    <3>1. JoinedOf(0, g)
      BY DEF JoinedOf
    <3> QED
      BY <2>2, <2>3, <3>1
  <2>4. CASE n # 0
    <3>1. n - 1 \in 0 .. N /\ n \in 0 .. N /\ n \in Nat
      BY <2>2, <2>4
    <3>2. n - 1 \notin Bad
      BY <2>2, <3>1
    <3>3. PICK h : JoinedOf(n - 1, h)
      BY <3>1, <3>2
    <3> DEFINE More(i, a) == IF i - 1 \in Players THEN AppendList(a, i - 1) ELSE a
               g == [i \in 0 .. n |-> IF i = n THEN More(n, h[n - 1]) ELSE h[i]]
    <3>4. ASSUME NEW i \in 0 .. n
          PROVE  g[i] = IF i = 0 THEN NoList ELSE More(i, g[i - 1])
      <4> HIDE DEF More
      <4>1. CASE i = n
        BY <2>4, <3>1, <4>1
      <4>2. CASE i # n
        <5>1. i \in 0 .. n - 1 /\ g[i] = h[i]
          BY <3>1, <4>2
        <5>2. h[i] = IF i = 0 THEN NoList ELSE More(i, h[i - 1])
          BY <3>3, <5>1 DEF JoinedOf, More
        <5>3. i # 0 => g[i - 1] = h[i - 1]
          BY <3>1, <5>1
        <5> QED
          BY <5>1, <5>2, <5>3
      <4> QED
        BY <4>1, <4>2
    <3>5. g = [i \in 0 .. n |-> g[i]]
      OBVIOUS
    <3> HIDE DEF g
    <3>6. JoinedOf(n, g)
      BY <3>4, <3>5 DEF JoinedOf
    <3> QED
      BY <2>2, <3>6
  <2> QED
    BY <2>3, <2>4
<1> QED
  BY <1>1

LEMMA JoinedIs ==
  ASSUME Inv
  PROVE  \E l : ListOf(l, held) /\ GetFrameCommandList = l.list
<1> DEFINE g == CHOOSE f : JoinedOf(MAX_SLOTS, f)
           Seen(n) == {c \in held : c.player < n}
           Bad == {n \in 0 .. MAX_SLOTS : ~ListOf(g[n], Seen(n))}
<1>1. MAX_SLOTS \in Nat /\ Players \subseteq 0 .. MAX_SLOTS - 1
  BY KindAssumption
<1>2. JoinedOf(MAX_SLOTS, g)
  BY <1>1, JoinedExists
<1>3. GetFrameCommandList = g[MAX_SLOTS].list
  BY DEF GetFrameCommandList, JoinedOf, NoList
<1>4. \A c \in held : c.player \in Players /\ c.player \in 0 .. MAX_SLOTS - 1
  <2>1. \A c \in held : c \in Commands
    BY ListHas DEF Inv, Elems
  <2> QED
    BY <1>1, <2>1, CommandHas
<1> HIDE DEF g
<1>5. Bad = {}
  <2> SUFFICES ASSUME Bad # {} PROVE FALSE
    OBVIOUS
  <2>1. Bad \in SUBSET Nat
    BY <1>1
  <2>2. PICK n \in Bad : \A k \in Bad : n <= k
    <3> HIDE DEF Bad
    <3> QED
      BY <2>1, LeastNumber
  <2>3. n \in 0 .. MAX_SLOTS /\ ~ListOf(g[n], Seen(n))
    BY <2>2
  <2>4. CASE n = 0
    <3>1. g[0] = NoList
      BY <1>1, <1>2 DEF JoinedOf
    <3>2. Seen(0) = {}
      BY <1>4
    <3>3. <<>> \in Seq(Commands) /\ Len(<<>>) = 0
      OBVIOUS
    <3>4. ListOf(NoList, {})
      BY <3>3 DEF ListOf, NoList, Sorted, Elems
    <3> QED
      BY <2>3, <2>4, <3>1, <3>2, <3>4
  <2>5. CASE n # 0
    <3>1. n - 1 \in 0 .. MAX_SLOTS /\ n \in 1 .. MAX_SLOTS
      BY <1>1, <2>3, <2>5
    <3>2. ListOf(g[n - 1], Seen(n - 1))
      BY <2>2, <3>1
    <3>3. g[n] = IF n - 1 \in Players THEN AppendList(g[n - 1], n - 1) ELSE g[n - 1]
      BY <1>2, <2>3, <2>5 DEF JoinedOf
    <3>4. Seen(n) = Seen(n - 1) \cup {c \in held : c.player = n - 1}
      BY <1>4, <3>1
    <3>5. n - 1 \notin Players => Seen(n) = Seen(n - 1)
      BY <1>4, <3>4
    <3>6. Seen(n - 1) \in SUBSET held
      OBVIOUS
    <3> HIDE DEF Seen
    <3>7. ListOf(AppendList(g[n - 1], n - 1), Seen(n))
      BY <3>2, <3>4, <3>6, AppendIs
    <3> QED
      BY <2>3, <3>2, <3>3, <3>5, <3>7
  <2> QED
    BY <2>4, <2>5
<1>6. Seen(MAX_SLOTS) = held
  BY <1>1, <1>4
<1>7. ListOf(g[MAX_SLOTS], Seen(MAX_SLOTS))
  BY <1>1, <1>5
<1> HIDE DEF Seen
<1> QED
  BY <1>3, <1>6, <1>7

(* The lists of the slots, joined from the lowest slot on, are the list    *)
(* that all the commands would have made in one: the frame is executed in  *)
(* this order, with any number of slots, taken or not.                     *)
THEOREM JoinedInOrder == Spec => []JoiningKeepsTheOrder
<1>1. Inv => JoiningKeepsTheOrder
  <2> SUFFICES ASSUME Inv PROVE GetFrameCommandList = Ordered(held)
    BY DEF JoiningKeepsTheOrder
  <2>1. PICK l : ListOf(l, held) /\ GetFrameCommandList = l.list
    BY JoinedIs
  <2> QED
    BY <2>1, SortedIsOrdered DEF ListOf
<1> QED
  BY <1>1, InvAlways, PTL

----------------------------------------------------------------------------
(* Commands too big for a packet are put together before they are added:   *)
(* the list of their chunks has the players and the IDs in common with the *)
(* sorted list.                                                            *)
CONSTANTS Gap, NumChunks, MaxCommands
VARIABLES nextID, net, m_list, sent, ready
Wrapper == INSTANCE NetCommandWrapperList

(* Chunks of c are on their way or in a node.                              *)
UnderWay(c) ==
  \/ \E msg \in net : msg.data = c
  \/ \E i \in DOMAIN m_list : \E k \in DOMAIN m_list[i].m_data : m_list[i].m_data[k] = c

(* No two big commands under way share an ID.                              *)
IdsApart ==
  \A c, d \in sent : Wrapper!CommandID(c) = Wrapper!CommandID(d) /\ UnderWay(c) /\ UnderWay(d) => c = d

(* A node of c: nothing but chunks of c are in it, at least one, and they  *)
(* are counted.                                                            *)
Places(c) == 0 .. c.numChunks - 1
NodeOf(node, c) ==
  /\ node = [m_data |-> node.m_data, m_numChunks |-> c.numChunks,
             m_numChunksPresent |-> Cardinality({k \in Places(c) : node.m_data[k] = c})]
  /\ node.m_data \in [Places(c) -> {Wrapper!Missing, c}]
  /\ \E k \in Places(c) : node.m_data[k] = c

WrapperInv ==
  /\ sent \subseteq [player : Players, serial : Nat, numChunks : Nat \ {0}]
  /\ nextID \in [Players -> Nat]
  /\ \A msg \in net : \E c \in sent : msg \in Wrapper!Wrapped(c)
  /\ \A i \in DOMAIN m_list : \E c \in sent : NodeOf(m_list[i], c) /\ i = Wrapper!CommandID(c)
  /\ Wrapper!OnlyWhatWasSent

(* A command sent has chunks, and is not what is missing.                  *)
LEMMA SentIs ==
  ASSUME WrapperInv, NEW c \in sent
  PROVE  /\ c.numChunks \in Nat \ {0} /\ c # Wrapper!Missing
         /\ IsFiniteSet(Places(c)) /\ Cardinality(Places(c)) = c.numChunks
<1>1. c.numChunks \in Nat \ {0}
  BY DEF WrapperInv
<1>2. c # Wrapper!Missing
  BY <1>1 DEF Wrapper!Missing
<1>3. IsFiniteSet(0 .. c.numChunks - 1) /\ Cardinality(0 .. c.numChunks - 1) = c.numChunks
  <2>1. 0 \in Int /\ c.numChunks - 1 \in Int /\ ~(0 > c.numChunks - 1)
    BY <1>1
  <2>2. IsFiniteSet(0 .. c.numChunks - 1) /\ Cardinality(0 .. c.numChunks - 1) = c.numChunks - 1 - 0 + 1
    BY <2>1, FS_Interval
  <2> QED
    BY <1>1, <2>2
<1> QED
  BY <1>1, <1>2, <1>3 DEF Places

(* A chunk of c is put in a node of c, new or not.                         *)
LEMMA CopiedIs ==
  ASSUME WrapperInv, NEW c \in sent, NEW msg \in Wrapper!Wrapped(c), NEW node,
         NodeOf(node, c) \/ node = Wrapper!NewNode(msg)
  PROVE  NodeOf(Wrapper!CopyChunkData(node, msg), c)
<1> DEFINE Here(data) == {k \in Places(c) : data[k] = c}
           k0 == msg.chunkNumber
           new == Wrapper!CopyChunkData(node, msg)
<1>1. /\ c.numChunks \in Nat \ {0} /\ c # Wrapper!Missing
      /\ IsFiniteSet(Places(c)) /\ Cardinality(Places(c)) = c.numChunks
  BY SentIs
<1>2. k0 \in Places(c) /\ msg.data = c /\ msg.numChunks = c.numChunks /\ k0 < c.numChunks
  BY <1>1 DEF Wrapper!Wrapped, Places
<1>3. /\ node = [m_data |-> node.m_data, m_numChunks |-> c.numChunks,
                 m_numChunksPresent |-> Cardinality(Here(node.m_data))]
      /\ node.m_data \in [Places(c) -> {Wrapper!Missing, c}]
  <2>1. CASE NodeOf(node, c)
    BY <2>1 DEF NodeOf
  <2>2. CASE node = Wrapper!NewNode(msg)
    <3>1. node = [m_data |-> [k \in Places(c) |-> Wrapper!Missing], m_numChunks |-> c.numChunks,
                  m_numChunksPresent |-> 0]
      BY <1>2, <2>2 DEF Wrapper!NewNode, Places
    <3>2. Here([k \in Places(c) |-> Wrapper!Missing]) = {}
      BY <1>1
    <3>3. Cardinality({}) = 0
      BY FS_EmptySet
    <3> QED
      BY <3>1, <3>2, <3>3
  <2> QED
    BY <2>1, <2>2
<1>4. CASE node.m_data[k0] # Wrapper!Missing
  <2>1. new = node
    BY <1>4 DEF Wrapper!CopyChunkData
  <2>2. node.m_data[k0] = c
    BY <1>2, <1>3, <1>4
  <2> QED
    BY <1>2, <1>3, <2>1, <2>2 DEF NodeOf
<1>5. CASE node.m_data[k0] = Wrapper!Missing
  <2> DEFINE data == [node.m_data EXCEPT ![k0] = c]
             count == Cardinality(Here(node.m_data))
  <2>1. new = [m_data |-> data, m_numChunks |-> c.numChunks, m_numChunksPresent |-> count + 1]
    <3>0. node.m_numChunks = c.numChunks
      <4> HIDE DEF Here
      <4> QED
        BY <1>3
    <3>1. ~(k0 >= node.m_numChunks) /\ msg.data = c
      <4>1. k0 \in 0 .. c.numChunks - 1
        BY <1>2 DEF Places
      <4> QED
        BY <1>1, <1>2, <3>0, <4>1
    <3>2. new = [node EXCEPT !.m_data[k0] = c, !.m_numChunksPresent = @ + 1]
      BY <1>5, <3>1 DEF Wrapper!CopyChunkData
    <3>3. node = [m_data |-> node.m_data, m_numChunks |-> c.numChunks, m_numChunksPresent |-> count]
      BY <1>3
    <3>4. [node EXCEPT !.m_data[k0] = c, !.m_numChunksPresent = @ + 1]
            = [[node EXCEPT !.m_data[k0] = c] EXCEPT !.m_numChunksPresent = @ + 1]
      BY Zenon
    <3>5. [node EXCEPT !.m_data[k0] = c]
            = [m_data |-> data, m_numChunks |-> c.numChunks, m_numChunksPresent |-> count]
      <4> DEFINE d == node.m_data
      <4>1. node = [m_data |-> d, m_numChunks |-> c.numChunks, m_numChunksPresent |-> count]
        BY <3>3
      <4>2. data = [d EXCEPT ![k0] = c]
        OBVIOUS
      <4> HIDE DEF count, d, data
      <4> QED
        BY <4>1, <4>2
    <3> HIDE DEF new, count, data
    <3> QED
      BY <3>2, <3>4, <3>5
  <2>2. data \in [Places(c) -> {Wrapper!Missing, c}] /\ data[k0] = c
    BY <1>2, <1>3
  <2>3. Here(data) = Here(node.m_data) \cup {k0} /\ k0 \notin Here(node.m_data)
    BY <1>1, <1>2, <1>3, <1>5
  <2>4. IsFiniteSet(Here(node.m_data))
    BY <1>1, FS_Subset
  <2>5. Cardinality(Here(data)) = count + 1
    BY <2>3, <2>4, FS_AddElement
  <2> HIDE DEF data, count
  <2> QED
    BY <1>2, <2>1, <2>2, <2>5 DEF NodeOf
<1> QED
  BY <1>4, <1>5

(* A complete node is the whole command.                                   *)
LEMMA CompleteIs ==
  ASSUME WrapperInv, NEW c \in sent, NEW node, NodeOf(node, c), Wrapper!IsComplete(node)
  PROVE  node.m_data = Wrapper!Whole(c)
<1> DEFINE Here == {k \in Places(c) : node.m_data[k] = c}
<1>1. IsFiniteSet(Places(c)) /\ Cardinality(Places(c)) = c.numChunks
  BY SentIs
<1>2. Cardinality(Here) = c.numChunks /\ node.m_data \in [Places(c) -> {Wrapper!Missing, c}]
  BY DEF NodeOf, Wrapper!IsComplete
<1>3. Here = Places(c)
  <2>1. Here \in SUBSET Places(c)
    OBVIOUS
  <2> HIDE DEF Here
  <2> QED
    BY <1>1, <1>2, <2>1, FS_Subset
<1>4. \A k \in Places(c) : node.m_data[k] = c
  BY <1>3
<1>5. node.m_data = [k \in Places(c) |-> c]
  BY <1>2, <1>4
<1> QED
  BY <1>5 DEF Wrapper!Whole, Places

(* Each step keeps the invariant.                                          *)
LEMMA WrapperNext ==
  ASSUME WrapperInv, IdsApart, NumChunks \subseteq Nat \ {0}, [Wrapper!Next]_(Wrapper!vars)
  PROVE  WrapperInv'
<1>1. ASSUME NEW p \in Players, NEW n \in NumChunks, Wrapper!SendBigCommand(p, n)
      PROVE  WrapperInv'
  <2> DEFINE c == [player |-> p, serial |-> nextID[p], numChunks |-> n]
  <2>1. /\ nextID' = [nextID EXCEPT ![p] = @ + 1] /\ net' = net \cup Wrapper!Wrapped(c)
        /\ sent' = sent \cup {c} /\ m_list' = m_list /\ ready' = ready
    BY <1>1 DEF Wrapper!SendBigCommand
  <2>2. c \in [player : Players, serial : Nat, numChunks : Nat \ {0}]
    BY DEF WrapperInv
  <2>3. nextID' \in [Players -> Nat]
    BY <2>1 DEF WrapperInv
  <2> HIDE DEF c
  <2>4. sent' \subseteq [player : Players, serial : Nat, numChunks : Nat \ {0}]
    BY <2>1, <2>2 DEF WrapperInv
  <2>5. \A msg \in net' : \E d \in sent' : msg \in Wrapper!Wrapped(d)
    BY <2>1 DEF WrapperInv
  <2>6. \A i \in DOMAIN m_list' : \E d \in sent' : NodeOf(m_list'[i], d) /\ i = Wrapper!CommandID(d)
    BY <2>1 DEF WrapperInv
  <2>7. ready' \subseteq {Wrapper!Whole(d) : d \in sent'}
    BY <2>1 DEF WrapperInv, Wrapper!OnlyWhatWasSent
  <2> QED
    BY <2>3, <2>4, <2>5, <2>6, <2>7 DEF WrapperInv, Wrapper!OnlyWhatWasSent, Wrapper!Wrapped, NodeOf, Wrapper!CommandID, Wrapper!Whole, Places, Wrapper!Missing
<1>2. ASSUME NEW again \in BOOLEAN, NEW msg \in net, Wrapper!ProcessWrapper(msg, again)
      PROVE  WrapperInv'
  <2> DEFINE id == msg.wrappedCommandID
             node == IF id \in DOMAIN m_list THEN m_list[id] ELSE Wrapper!NewNode(msg)
  <2>1. /\ m_list' = [i \in DOMAIN m_list \cup {id} |->
                        IF i = id THEN Wrapper!CopyChunkData(node, msg) ELSE m_list[i]]
        /\ net' \subseteq net /\ nextID' = nextID /\ sent' = sent /\ ready' = ready
    BY <1>2 DEF Wrapper!ProcessWrapper
  <2>2. PICK c \in sent : msg \in Wrapper!Wrapped(c)
    BY DEF WrapperInv
  <2>3. id = Wrapper!CommandID(c) /\ msg.data = c
    BY <2>2 DEF Wrapper!Wrapped
  <2>4. NodeOf(node, c) \/ node = Wrapper!NewNode(msg)
    <3> SUFFICES ASSUME id \in DOMAIN m_list PROVE NodeOf(m_list[id], c)
      OBVIOUS
    <3>1. PICK d \in sent : NodeOf(m_list[id], d) /\ id = Wrapper!CommandID(d)
      BY DEF WrapperInv
    <3>2. UnderWay(c)
      BY <2>3 DEF UnderWay
    <3>3. UnderWay(d)
      BY <3>1 DEF UnderWay, NodeOf
    <3>4. c = d
      BY <2>3, <3>1, <3>2, <3>3 DEF IdsApart
    <3> QED
      BY <3>1, <3>4
  <2> HIDE DEF node
  <2>5. NodeOf(Wrapper!CopyChunkData(node, msg), c)
    BY <2>2, <2>4, CopiedIs
  <2>6. \A i \in DOMAIN m_list' : \E d \in sent : NodeOf(m_list'[i], d) /\ i = Wrapper!CommandID(d)
    <3> SUFFICES ASSUME NEW i \in DOMAIN m_list'
                 PROVE  \E d \in sent : NodeOf(m_list'[i], d) /\ i = Wrapper!CommandID(d)
      OBVIOUS
    <3>1. CASE i = id
      BY <2>1, <2>3, <2>5, <3>1
    <3>2. CASE i # id
      <4>1. i \in DOMAIN m_list /\ m_list'[i] = m_list[i]
        BY <2>1, <3>2
      <4> QED
        BY <4>1 DEF WrapperInv
    <3> QED
      BY <3>1, <3>2
  <2>7. \A m \in net' : \E d \in sent' : m \in Wrapper!Wrapped(d)
    BY <2>1 DEF WrapperInv
  <2>8. ready' \subseteq {Wrapper!Whole(d) : d \in sent'}
    BY <2>1 DEF WrapperInv, Wrapper!OnlyWhatWasSent
  <2> QED
    BY <2>1, <2>6, <2>7, <2>8 DEF WrapperInv, Wrapper!OnlyWhatWasSent, Wrapper!Wrapped, NodeOf, Wrapper!CommandID, Wrapper!Whole, Places, Wrapper!Missing
<1>3. ASSUME Wrapper!GetReadyCommands
      PROVE  WrapperInv'
  <2> DEFINE complete == {i \in DOMAIN m_list : Wrapper!IsComplete(m_list[i])}
  <2>1. /\ ready' = ready \cup {m_list[i].m_data : i \in complete}
        /\ m_list' = [i \in DOMAIN m_list \ complete |-> m_list[i]]
        /\ nextID' = nextID /\ net' = net /\ sent' = sent
    BY <1>3 DEF Wrapper!GetReadyCommands
  <2>2. ASSUME NEW i \in complete
        PROVE  \E c \in sent : m_list[i].m_data = Wrapper!Whole(c)
    <3>1. PICK c \in sent : NodeOf(m_list[i], c)
      BY DEF WrapperInv
    <3> QED
      BY <3>1, CompleteIs
  <2>3. ready' \subseteq {Wrapper!Whole(d) : d \in sent}
    BY <2>1, <2>2 DEF WrapperInv, Wrapper!OnlyWhatWasSent
  <2>4. \A i \in DOMAIN m_list' : i \in DOMAIN m_list /\ m_list'[i] = m_list[i]
    BY <2>1
  <2>5. \A i \in DOMAIN m_list' : \E d \in sent : NodeOf(m_list'[i], d) /\ i = Wrapper!CommandID(d)
    BY <2>4 DEF WrapperInv
  <2> QED
    BY <2>1, <2>3, <2>5 DEF WrapperInv, Wrapper!OnlyWhatWasSent, Wrapper!Wrapped, NodeOf, Wrapper!CommandID, Wrapper!Whole, Places, Wrapper!Missing
<1>4. CASE UNCHANGED Wrapper!vars
  BY <1>4 DEF Wrapper!vars, WrapperInv, Wrapper!OnlyWhatWasSent, Wrapper!Wrapped, NodeOf, Wrapper!CommandID, Wrapper!Whole, Places, Wrapper!Missing
<1> QED
  BY <1>1, <1>2, <1>3, <1>4 DEF Wrapper!Next, Wrapper!Receive

(* As long as no two big commands under way share an ID, what comes out is *)
(* a command that was sent, whole - in whatever order chunks arrive, how   *)
(* often, and however often the IDs have wrapped around.                   *)
THEOREM WholeCommands ==
  ASSUME NumChunks \subseteq Nat \ {0}
  PROVE  Wrapper!Spec /\ []IdsApart => []Wrapper!OnlyWhatWasSent
<1>1. Wrapper!Init => WrapperInv
  BY DEF Wrapper!Init, WrapperInv, Wrapper!OnlyWhatWasSent
<1>2. WrapperInv /\ IdsApart /\ [Wrapper!Next]_(Wrapper!vars) => WrapperInv'
  BY WrapperNext
<1>3. WrapperInv => Wrapper!OnlyWhatWasSent
  BY DEF WrapperInv
<1> QED
  BY <1>1, <1>2, <1>3, PTL DEF Wrapper!Spec

(* The IDs of all the commands sent are apart: none comes round, and the   *)
(* players' counters are not near each other.                              *)
AllIdsDiffer ==
  \A p, q \in Players : \A i, j \in 0 .. MaxCommands - 1 :
    (Gap * p + i) % ID_SPAN = (Gap * q + j) % ID_SPAN => p = q /\ i = j

(* A player numbers the commands it sends.                                 *)
Serials ==
  /\ nextID \in [Players -> 0 .. MaxCommands]
  /\ \A c \in sent : c.player \in Players /\ c.serial \in Nat /\ c.serial < nextID[c.player]
  /\ \A c, d \in sent : c.player = d.player /\ c.serial = d.serial => c = d

(* No number is used twice.                                                *)
LEMMA SerialsNext ==
  ASSUME MaxCommands \in Nat, Serials, [Wrapper!Next]_(Wrapper!vars)
  PROVE  Serials'
<1>1. CASE UNCHANGED <<nextID, sent>>
  BY <1>1 DEF Serials
<1>2. ASSUME NEW p \in Players, NEW n \in NumChunks, Wrapper!SendBigCommand(p, n) PROVE Serials'
  <2> DEFINE new == [player |-> p, serial |-> nextID[p], numChunks |-> n]
  <2>1. /\ nextID[p] < MaxCommands /\ nextID' = [nextID EXCEPT ![p] = nextID[p] + 1]
        /\ sent' = sent \cup {new} /\ new.player = p /\ new.serial = nextID[p]
    BY <1>2 DEF Wrapper!SendBigCommand
  <2> HIDE DEF new
  <2>2. nextID[p] \in Nat /\ nextID[p] \in 0 .. MaxCommands - 1 /\ \A q \in Players : nextID[q] \in Nat
    BY <2>1 DEF Serials
  <2>3. nextID' \in [Players -> 0 .. MaxCommands]
    BY <2>1, <2>2 DEF Serials
  <2>4. \A q \in Players : nextID'[q] = IF q = p THEN nextID[p] + 1 ELSE nextID[q]
    BY <2>1 DEF Serials
  <2>5. \A c \in sent' : c.player \in Players /\ c.serial \in Nat /\ c.serial < nextID'[c.player]
    BY <2>1, <2>2, <2>4 DEF Serials
  <2>6. \A c, d \in sent' : c.player = d.player /\ c.serial = d.serial => c = d
    BY <2>1, <2>2 DEF Serials
  <2> QED
    BY <2>3, <2>5, <2>6 DEF Serials
<1> QED
  BY <1>1, <1>2 DEF Wrapper!Next, Wrapper!Receive, Wrapper!ProcessWrapper, Wrapper!GetReadyCommands, Wrapper!vars

(* With the IDs of all commands apart whatever comes out is a command that *)
(* was sent, whole: any numbers of players, commands and chunks.           *)
THEOREM WholeWhileIdsDiffer ==
  ASSUME NumChunks \subseteq Nat \ {0}, MaxCommands \in Nat, AllIdsDiffer
  PROVE  Wrapper!Spec => []Wrapper!OnlyWhatWasSent
<1>1. Wrapper!Init => Serials
  BY DEF Wrapper!Init, Serials
<1>2. Serials /\ [Wrapper!Next]_(Wrapper!vars) => Serials'
  BY SerialsNext
<1>3. Serials => IdsApart
  <2> SUFFICES ASSUME Serials, NEW c \in sent, NEW d \in sent, Wrapper!CommandID(c) = Wrapper!CommandID(d)
               PROVE  c = d
    BY DEF IdsApart
  <2>1. /\ c.player \in Players /\ d.player \in Players
        /\ c.serial \in 0 .. MaxCommands - 1 /\ d.serial \in 0 .. MaxCommands - 1
    BY DEF Serials
  <2>2. (Gap * c.player + c.serial) % ID_SPAN = (Gap * d.player + d.serial) % ID_SPAN
    BY DEF Wrapper!CommandID
  <2> HIDE DEF IdsApart
  <2>3. c.player = d.player /\ c.serial = d.serial
    BY <2>1, <2>2 DEF AllIdsDiffer
  <2> QED
    BY <2>3 DEF Serials
<1>4. Wrapper!Spec /\ []IdsApart => []Wrapper!OnlyWhatWasSent
  BY WholeCommands
<1> QED
  BY <1>1, <1>2, <1>3, <1>4, PTL DEF Wrapper!Spec
==============================================================================
