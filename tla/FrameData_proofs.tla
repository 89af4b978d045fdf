--------------------------- MODULE FrameData_proofs ---------------------------
(***************************************************************************)
(* Lemmas about the operators of FrameData, cited by the proofs about the  *)
(* modules that use them.                                                  *)
(***************************************************************************)
EXTENDS FrameData, FiniteSetTheorems, TLAPS

----------------------------------------------------------------------------
(* Arithmetic: the remainder modulo L of two numbers less than L apart     *)
(* tells them apart.                                                       *)

(* The remainder is a remainder. *)
LEMMA ModRange ==
  ASSUME NEW L \in Nat \ {0}, NEW f \in Int
  PROVE  f % L \in 0 .. L - 1 /\ f % L \in Int
  OBVIOUS

(* Quotient and remainder make up the dividend. *)
LEMMA DivMod ==
  ASSUME NEW L \in Nat \ {0}, NEW f \in Int
  PROVE  f = L * (f \div L) + (f % L) /\ f \div L \in Int
  OBVIOUS

(* The only multiple of L closer to zero than L is zero. *)
LEMMA SmallMultiple ==
  ASSUME NEW L \in Nat \ {0}, NEW a \in Int, L * a < L, -L < L * a
  PROVE  a = 0
  OBVIOUS

(* Numbers with the same remainder and less than L apart are equal. *)
LEMMA ModInjective ==
  ASSUME NEW L \in Nat \ {0}, NEW f \in Int, NEW g \in Int,
         f % L = g % L, f - g < L, g - f < L
  PROVE  f = g
<1> DEFINE a == f \div L
           b == g \div L
<1>1. f = L * a + (f % L) /\ a \in Int
  BY DivMod
<1>2. g = L * b + (g % L) /\ b \in Int
  BY DivMod
<1> HIDE DEF a, b
<1>3. f - g = L * (a - b)
  BY <1>1, <1>2, ModRange
<1>4. a - b = 0
  BY <1>3, <1>1, <1>2, SmallMultiple
<1>5. L * (a - b) = 0
  BY <1>4
<1>6. QED
  BY <1>3, <1>5

(* Numbers a multiple of L apart have the same remainder. *)
LEMMA ModCongruent ==
  ASSUME NEW L \in Nat \ {0}, NEW f \in Int, NEW g \in Int, NEW k \in Int,
         f = g + L * k
  PROVE  f % L = g % L
<1> DEFINE a == f \div L
           b == g \div L
           r == f % L
           s == g % L
<1>1. f = L * a + r /\ a \in Int /\ r \in 0 .. L - 1
  BY DivMod, ModRange
<1>2. g = L * b + s /\ b \in Int /\ s \in 0 .. L - 1
  BY DivMod, ModRange
<1> HIDE DEF a, b, r, s
<1>3. r - s = L * (b + k - a)
  BY <1>1, <1>2
<1>4. b + k - a = 0
  BY <1>1, <1>2, <1>3, SmallMultiple
<1>5. L * (b + k - a) = 0
  BY <1>4
<1>6. r = s
  BY <1>1, <1>2, <1>3, <1>5
<1>7. QED
  BY <1>6 DEF r, s

----------------------------------------------------------------------------
(* The ring is long enough for the frames kept and the frames ahead.       *)
LEMMA RingSize ==
  /\ FRAME_DATA_LENGTH \in Nat \ {0}
  /\ FRAMES_TO_KEEP \in Nat \ {0}
  /\ MAX_FRAMES_AHEAD \in Nat \ {0}
  /\ MAX_FRAMES_AHEAD \div 2 \in Nat
  /\ FRAMES_TO_KEEP = (MAX_FRAMES_AHEAD \div 2) + 1
  /\ 2 * (MAX_FRAMES_AHEAD \div 2) <= MAX_FRAMES_AHEAD
  /\ FRAMES_TO_KEEP + MAX_FRAMES_AHEAD + 2 <= FRAME_DATA_LENGTH
  BY FramesAheadAssumption DEF FRAME_DATA_LENGTH, FRAMES_TO_KEEP

(* Every frame has an index in the ring. *)
LEMMA IndexType ==
  ASSUME NEW f \in Int
  PROVE  Index(f) \in Indices /\ Index(f) \in Int
  BY RingSize, ModRange DEF Index, Indices

(* Frames less than the length of the ring apart have different records. *)
LEMMA IndexInjective ==
  ASSUME NEW f \in Int, NEW g \in Int, Index(f) = Index(g),
         f - g < FRAME_DATA_LENGTH, g - f < FRAME_DATA_LENGTH
  PROVE  f = g
  BY RingSize, ModInjective DEF Index

(* A whole ring later comes the same record. *)
LEMMA IndexPeriod ==
  ASSUME NEW f \in Int
  PROVE  Index(f + FRAME_DATA_LENGTH) = Index(f)
<1>1. /\ FRAME_DATA_LENGTH \in Nat \ {0} /\ 1 \in Int
      /\ f + FRAME_DATA_LENGTH \in Int
      /\ f + FRAME_DATA_LENGTH = f + FRAME_DATA_LENGTH * 1
  BY RingSize
<1>2. (f + FRAME_DATA_LENGTH) % FRAME_DATA_LENGTH = f % FRAME_DATA_LENGTH
  BY <1>1, ModCongruent, Zenon
<1>3. QED
  BY <1>2 DEF Index

(* As many frames in a row as the ring is long use every record. *)
LEMMA IndexCovers ==
  ASSUME NEW i \in Indices, NEW lo \in Int
  PROVE  \E f \in lo .. lo + FRAME_DATA_LENGTH - 1 : Index(f) = i
<1> DEFINE L == FRAME_DATA_LENGTH
           r == (i - lo) % L
           k == (i - lo) \div L
<1>1. L \in Nat \ {0} /\ i \in Int /\ 0 <= i /\ i < L
  BY RingSize DEF Indices
<1>2. i - lo = L * k + r /\ k \in Int /\ r \in 0 .. L - 1
  BY <1>1, DivMod, ModRange
<1> HIDE DEF r, k
<1>3. /\ lo + r \in lo .. lo + L - 1 /\ lo + r \in Int
      /\ i = (lo + r) + L * k
  BY <1>1, <1>2
<1>4. i % L = (lo + r) % L
  BY <1>1, <1>2, <1>3, ModCongruent, Zenon
<1>5. i = 0 + i /\ i % L = i
  <2>1. i % L \in Int /\ 0 <= i % L /\ i % L < L
    BY <1>1, ModRange
  <2>2. i = L * (i \div L) + (i % L) /\ i \div L \in Int
    BY <1>1, DivMod
  <2> DEFINE a == i \div L
             s == i % L
  <2> HIDE DEF a, s, L
  <2>3. i - s = L * a /\ i - s < L /\ s - i < L
    BY <1>1, <2>1, <2>2 DEF a, s
  <2>4. a = 0
    BY <1>1, <2>1, <2>2, <2>3, SmallMultiple DEF a, s
  <2>5. L * a = 0
    BY <1>1, <2>4
  <2>6. QED
    BY <1>1, <2>1, <2>3, <2>5 DEF s
<1>6. QED
  BY <1>3, <1>4, <1>5 DEF Index

----------------------------------------------------------------------------
(* Records.                                                                *)

(* Counts are set without touching the commands. *)
LEMMA SetCountType ==
  ASSUME NEW S, NEW fd \in FrameDataType(S), NEW n \in Nat
  PROVE  /\ SetFrameCommandCount(fd, n) \in FrameDataType(S)
         /\ SetFrameCommandCount(fd, n).commandList = fd.commandList
         /\ SetFrameCommandCount(fd, n).commandCount = fd.commandCount
         /\ SetFrameCommandCount(fd, n).frameCommandCount = n
  BY DEF SetFrameCommandCount, FrameDataType

(* Settling touches only the announced count. *)
LEMMA SettleType ==
  ASSUME NEW S, NEW fd \in FrameDataType(S), NEW b \in BOOLEAN
  PROVE  /\ SettleLocal(b, fd) \in FrameDataType(S)
         /\ SettleLocal(b, fd).commandList = fd.commandList
         /\ SettleLocal(b, fd).commandCount = fd.commandCount
         /\ b => SettleLocal(b, fd).frameCommandCount = fd.commandCount
         /\ ~b => SettleLocal(b, fd) = fd
<1>1. CASE b = TRUE
  <2>1. fd.commandCount \in Nat
    BY DEF FrameDataType
  <2>2. SettleLocal(b, fd) = SetFrameCommandCount(fd, fd.commandCount)
    BY <1>1 DEF SettleLocal
  <2>3. QED
    BY <1>1, <2>1, <2>2, SetCountType
<1>2. CASE b = FALSE
  BY <1>2 DEF SettleLocal
<1>3. QED
  BY <1>1, <1>2

(* Adding a command adds it once. *)
LEMMA AddCommandType ==
  ASSUME NEW S, NEW fd \in FrameDataType(S), NEW c \in S
  PROVE  /\ AddCommand(fd, c) \in FrameDataType(S)
         /\ AddCommand(fd, c).commandList = fd.commandList \cup {c}
         /\ AddCommand(fd, c).frameCommandCount = fd.frameCommandCount
         /\ c \in fd.commandList => AddCommand(fd, c).commandCount = fd.commandCount
         /\ c \notin fd.commandList => AddCommand(fd, c).commandCount = fd.commandCount + 1
<1>1. CASE c \in fd.commandList
  BY <1>1 DEF AddCommand
<1>2. CASE c \notin fd.commandList
  <2>1. AddCommand(fd, c) = [fd EXCEPT !.commandList = @ \cup {c}, !.commandCount = @ + 1]
    BY <1>2 DEF AddCommand
  <2>2. /\ fd.commandList \cup {c} \in SUBSET S /\ fd.commandCount + 1 \in Nat
        /\ fd = [commandList |-> fd.commandList, commandCount |-> fd.commandCount,
                 frameCommandCount |-> fd.frameCommandCount]
        /\ fd.frameCommandCount \in Nat \cup {Unknown}
    BY DEF FrameDataType
  <2>3. AddCommand(fd, c) = [commandList |-> fd.commandList \cup {c},
                             commandCount |-> fd.commandCount + 1,
                             frameCommandCount |-> fd.frameCommandCount]
    BY <2>1, <2>2
  <2>4. QED
    BY <1>2, <2>2, <2>3 DEF FrameDataType
<1>3. QED
  BY <1>1, <1>2

(* The record of a frame nothing has arrived for. *)
LEMMA EmptyType ==
  ASSUME NEW S, NEW b \in BOOLEAN
  PROVE  /\ SettleLocal(b, EmptyFrame) \in FrameDataType(S)
         /\ SettleLocal(b, EmptyFrame).commandList = {}
         /\ SettleLocal(b, EmptyFrame).commandCount = 0
         /\ SettleLocal(b, EmptyFrame).frameCommandCount = IF b THEN 0 ELSE Unknown
         /\ DestroyGameMessages(SettleLocal(b, EmptyFrame)) = SettleLocal(b, EmptyFrame)
<1>1. /\ EmptyFrame \in FrameDataType(S) /\ EmptyFrame.commandList = {}
      /\ EmptyFrame.commandCount = 0 /\ EmptyFrame.frameCommandCount = Unknown
  BY DEF EmptyFrame, FrameDataType
<1> DEFINE fd == SettleLocal(b, EmptyFrame)
<1>2. fd \in FrameDataType(S) /\ fd.commandList = {} /\ fd.commandCount = 0
  BY <1>1, SettleType
<1>3. fd.frameCommandCount = IF b THEN 0 ELSE Unknown
  BY <1>1, SettleType
<1> HIDE DEF fd
<1>4. DestroyGameMessages(fd) = fd
  BY <1>2 DEF DestroyGameMessages, FrameDataType
<1>5. QED
  BY <1>2, <1>3, <1>4 DEF fd

(* The record of a frame known to be empty. *)
LEMMA ZeroType ==
  ASSUME NEW S, NEW fd \in FrameDataType(S)
  PROVE  /\ ZeroFrame(fd) \in FrameDataType(S)
         /\ ZeroFrame(fd).commandList = fd.commandList
         /\ ZeroFrame(fd).commandCount = 0
         /\ ZeroFrame(fd).frameCommandCount = 0
  BY DEF ZeroFrame, FrameDataType

(* The ring at the start: blank but for the frames known to be empty. *)
LEMMA StartRecords ==
  ASSUME NEW b \in BOOLEAN, NEW n \in Nat \ {0}, NEW i \in Indices
  PROVE  StartRing(b, n)[i] =
           IF \E k \in 0 .. (n - 1) - 1 : i = Index(1 + k)
           THEN ZeroFrame(SettleLocal(b, EmptyFrame)) ELSE SettleLocal(b, EmptyFrame)
  BY EmptyType DEF StartRing, RingZero, RingDestroy, InitRing

(* ... and it is a ring of records. *)
LEMMA StartType ==
  ASSUME NEW S, NEW b \in BOOLEAN, NEW n \in Nat \ {0}
  PROVE  StartRing(b, n) \in [Indices -> FrameDataType(S)]
<1>1. /\ SettleLocal(b, EmptyFrame) \in FrameDataType(S)
      /\ ZeroFrame(SettleLocal(b, EmptyFrame)) \in FrameDataType(S)
  BY EmptyType, ZeroType
<1>2. \A i \in Indices : StartRing(b, n)[i] \in FrameDataType(S)
  BY <1>1, StartRecords
<1>3. StartRing(b, n) = [i \in Indices |-> StartRing(b, n)[i]]
  BY DEF StartRing, RingZero
<1>4. QED
  BY <1>2, <1>3
=============================================================================
