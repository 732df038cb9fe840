-------------------------- MODULE HistoryIndexProofs ---------------------------
(***************************************************************************)
(* The theorems about the index of the history, for every history, every   *)
(* set of commands and every sorter limit that prioritized_history_create  *)
(* can come up with. The sorter is RadixSort and what RadixSortProofs      *)
(* proves of it is used here: the chains are right, and dump follows them. *)
(* The invariant follows the loop over the lines: what the rankmap says of *)
(* the lines read, where the sorter has filed it, which of two commands of *)
(* one rank was used last, and what the raw view has recorded.             *)
(***************************************************************************)
EXTENDS HistoryIndex, OperatorProofs

\* RadixSort as RadixSortProofs knows it: the sorter of HistoryIndex, with its theorems.
P == INSTANCE RadixSortProofs WITH Item <- Command, Keys <- Nat

\* The parameters of the sorter are what its theorems assume (radixsort_init), and
\* so is the one that comes with OperatorProofs.
LEMMA SorterConstants ==
    /\ P!IsFiniteSet(Command) /\ Nat \subseteq Nat
    /\ SlotSize \in Nat \ {0} /\ KeyLimit \in Nat /\ KeyLimit >= SlotSize
    /\ PageJump \in Nat \ {0}
BY CommandAssumption, LimitAssumption, PageJumpAssumption DEF IsFiniteSet, P!IsFiniteSet

\* The two instances of RadixSort are one.
LEMMA SameOperators ==
    /\ P!Tops = Sorter!Tops /\ P!Lows = Sorter!Lows
    /\ P!Filed = Sorter!Filed
    /\ P!Running = Sorter!Running
    /\ \A k : P!FiledKey(k) = Sorter!FiledKey(k)
    /\ \A c, k : P!CutOutcome(c, k) = Sorter!CutOutcome(c, k)
<1>1. P!Tops = Sorter!Tops /\ P!Lows = Sorter!Lows
  BY DEF P!Top, Sorter!Top, P!Tops, Sorter!Tops, P!Lows, Sorter!Lows
<1>2. P!Filed = Sorter!Filed
  BY <1>1 DEF P!Filed, Sorter!Filed, P!Chain, Sorter!Chain, P!Top, Sorter!Top, P!Low, Sorter!Low,
       P!ToSet, Sorter!ToSet
<1>3. P!Running = Sorter!Running /\ \A k : P!FiledKey(k) = Sorter!FiledKey(k)
  BY DEF P!Running, Sorter!Running, P!FiledKey, Sorter!FiledKey
<1>4. ASSUME NEW c, NEW k PROVE P!CutOutcome(c, k) = Sorter!CutOutcome(c, k)
  BY <1>1 DEF P!CutOutcome, Sorter!CutOutcome, P!Chain, Sorter!Chain, P!Top, Sorter!Top, P!Low, Sorter!Low,
       P!ToSet, Sorter!ToSet
<1> QED BY <1>1, <1>2, <1>3, <1>4

\* radixsort_init
LEMMA SameInit == Sorter!Init => P!Init
<1>1. P!Tops = Sorter!Tops /\ P!Lows = Sorter!Lows
  BY SameOperators
<1> QED BY <1>1 DEF Sorter!Init, P!Init

\* radixsort_add
LEMMA SameAdd ==
    ASSUME NEW c, NEW k, SorterAdd(c, k)
    PROVE  P!AddFiled(c, k) \/ P!AddRefused(c, k)
<1>1. CASE Sorter!AddFiled(c, k)
  <2>1. P!Filed = Sorter!Filed /\ P!Running = Sorter!Running /\ P!FiledKey(k) = Sorter!FiledKey(k)
        /\ P!Tops = Sorter!Tops
    BY SameOperators
  <2>2. P!File(c, P!FiledKey(k))
    <3>1. Sorter!File(c, P!FiledKey(k))
      BY <1>1, <2>1 DEF Sorter!AddFiled
    <3> DEFINE q == P!FiledKey(k)
    <3> HIDE DEF q
    <3>2. Sorter!File(c, q) => P!File(c, q)
      BY <2>1 DEF Sorter!File, P!File, P!Top, Sorter!Top, P!Low, Sorter!Low, P!Linked, Sorter!Linked,
         P!Described, Sorter!Described, P!EmptySlot, Sorter!EmptySlot, P!Smaller, Sorter!Smaller, P!Larger, Sorter!Larger
    <3> QED BY <3>1, <3>2 DEF q
  <2> QED BY <1>1, <2>1, <2>2 DEF Sorter!AddFiled, P!AddFiled, Sorter!SetKey, P!SetKey, P!dumpVars, Sorter!dumpVars
<1>2. CASE Sorter!AddRefused(c, k)
  BY <1>2, SameOperators DEF Sorter!AddRefused, P!AddRefused, Sorter!SetKey, P!SetKey, P!dumpVars, Sorter!dumpVars
<1> QED BY <1>1, <1>2 DEF SorterAdd

\* radix_cut
LEMMA SameCut ==
    ASSUME NEW c, NEW k
    PROVE  /\ Sorter!CutFound(c, k) => P!CutFound(c, k)
           /\ Sorter!CutMissed(c, k) => P!CutMissed(c, k)
<1>1. P!Running = Sorter!Running /\ P!CutOutcome(c, k) = Sorter!CutOutcome(c, k)
  BY SameOperators
<1>2. Sorter!CutFound(c, k) => P!CutFound(c, k)
  BY <1>1 DEF Sorter!CutFound, P!CutFound, P!Top, Sorter!Top, P!Low, Sorter!Low, P!Unlinked, Sorter!Unlinked,
     P!RemoveAt, Sorter!RemoveAt, P!Decremented, Sorter!Decremented, P!EmptySlot, Sorter!EmptySlot, P!dumpVars, Sorter!dumpVars
<1>3. Sorter!CutMissed(c, k) => P!CutMissed(c, k)
  BY <1>1 DEF Sorter!CutMissed, P!CutMissed, P!dumpVars, Sorter!dumpVars
<1> QED BY <1>2, <1>3

\* radixsort_dump
LEMMA SameDump ==
    ASSUME Sorter!Dump
    PROVE  P!Dump
<1>1. P!Running = Sorter!Running /\ (Sorter!NextSlot => P!NextSlot)
  BY SameOperators DEF P!NextSlot, Sorter!NextSlot
<1> QED BY <1>1 DEF Sorter!Dump, P!Dump, Sorter!DumpBegin, P!DumpBegin, Sorter!DumpSlot, P!DumpSlot,
       Sorter!DumpChain, P!DumpChain, P!store, Sorter!store, P!Top, Sorter!Top, P!Low, Sorter!Low

\* The keys that have a slot are those below the limit, which is a multiple of the slot size.
LEMMA LimitOfSlots ==
    ASSUME NEW k \in Nat
    PROVE  /\ P!Top(k) \in P!Tops <=> k < KeyLimit
           /\ P!Top(k) = P!Top(KeyLimit) /\ k <= KeyLimit => k = KeyLimit
<1>1. KeyLimit \in Nat /\ P!Low(KeyLimit) = 0
  BY LimitAssumption DEF P!Low
<1>2. k < KeyLimit => P!Top(k) < P!Top(KeyLimit)
  <2>1. P!Top(k) \in Nat /\ P!Low(k) \in P!Lows /\ k = SlotSize * P!Top(k) + P!Low(k)
    BY SorterConstants, P!IndexesOfKey
  <2>2. P!Top(KeyLimit) \in Nat /\ KeyLimit = SlotSize * P!Top(KeyLimit) + P!Low(KeyLimit)
    BY <1>1, SorterConstants, P!IndexesOfKey
  <2>3. P!Low(k) \in Nat
    BY <2>1, SorterConstants DEF P!Lows
  <2>4. k <= KeyLimit => P!Top(k) <= P!Top(KeyLimit)
    BY <1>1, SorterConstants, P!IndexesOrderKeys
  <2>5. P!Top(k) = P!Top(KeyLimit) => k >= KeyLimit
    <3> SUFFICES ASSUME P!Top(k) = P!Top(KeyLimit) PROVE k >= KeyLimit
      OBVIOUS
    <3> DEFINE a == SlotSize * P!Top(k)
    <3>1. a \in Int
      BY <2>1, SorterConstants
    <3>2. k = a + P!Low(k) /\ KeyLimit = a + P!Low(KeyLimit)
      BY <2>1, <2>2
    <3> HIDE DEF a
    <3> QED BY <1>1, <2>3, <3>1, <3>2
  <2> QED BY <1>1, <2>1, <2>2, <2>4, <2>5
<1>3. k >= KeyLimit => P!Top(k) >= P!Top(KeyLimit)
  BY <1>1, SorterConstants, P!IndexesOrderKeys
<1>4. P!Top(k) \in P!Tops <=> P!Top(k) < P!Top(KeyLimit)
  BY SorterConstants, P!SlotsExist
<1>5. P!Top(k) \in Nat /\ P!Top(KeyLimit) \in Nat
  BY <1>1, SorterConstants, P!IndexesOfKey
<1> QED BY <1>1, <1>2, <1>3, <1>4, <1>5

\* The ranks that end up in the sorter: below the limit, or floored.
Fits(k) == k < KeyLimit \/ (k > KeyLimit /\ optionBigKeys = "floor")

\* What radixsort_add needs, and the key it files under.
LEMMA SorterAdds ==
    ASSUME NEW c \in Command, NEW k \in Nat, SorterAdd(c, k)
    PROVE  /\ P!AddFiled(c, k) \/ P!AddRefused(c, k)
           /\ c \notin P!Filed /\ fault = "none" /\ pc = "open"
           /\ optionBigKeys' = optionBigKeys /\ pc' = pc
           /\ P!FiledKey(k) = IF k > KeyLimit /\ optionBigKeys = "floor" THEN KeyLimit - 1 ELSE k
<1>1. P!AddFiled(c, k) \/ P!AddRefused(c, k)
  BY SameAdd
<1>2. /\ c \notin P!Filed /\ fault = "none" /\ pc = "open"
      /\ optionBigKeys' = optionBigKeys /\ pc' = pc
  BY <1>1 DEF P!AddFiled, P!AddRefused, P!Running, P!dumpVars
<1> QED BY <1>1, <1>2 DEF P!FiledKey

\* It files a rank that fits at the head of the chain of its key ...
LEMMA SorterFiles ==
    ASSUME P!IInv, NEW c \in Command, NEW k \in Nat, SorterAdd(c, k), Fits(k),
           NEW q, q = P!FiledKey(k)
    PROVE  /\ q \in Nat /\ q < KeyLimit
           /\ q = IF k > KeyLimit THEN KeyLimit - 1 ELSE k
           /\ P!Filed' = P!Filed \cup {c} /\ fault' = fault
           /\ key' = [key EXCEPT ![c] = q]
           /\ \A j \in Nat : P!Top(j) \in P!Tops =>
                 topDigits'[P!Top(j)][P!Low(j)] =
                    IF j = q THEN P!Linked(P!Chain(j), c) ELSE P!Chain(j)
<1>0. KeyLimit \in Nat /\ KeyLimit > 0
  BY LimitAssumption
<1>1. q \in Nat /\ q < KeyLimit /\ q = IF k > KeyLimit THEN KeyLimit - 1 ELSE k
  BY <1>0, SorterAdds DEF Fits
<1>2. P!AddFiled(c, k)
  BY <1>0, SorterAdds DEF P!AddRefused, Fits
<1>3. P!Top(q) \in P!Tops
  BY <1>1, LimitOfSlots
<1> QED BY <1>1, <1>2, <1>3, SorterConstants, P!ItemLinked

\* ... leaves topDigits with the limit itself ...
LEMMA SorterOverruns ==
    ASSUME NEW c \in Command, SorterAdd(c, KeyLimit)
    PROVE  fault' = "overrun"
<1>0. KeyLimit \in Nat
  BY LimitAssumption
<1>1. P!AddFiled(c, KeyLimit) /\ P!FiledKey(KeyLimit) = KeyLimit
  BY <1>0, SorterAdds DEF P!AddRefused
<1>2. P!Top(KeyLimit) \notin P!Tops
  BY <1>0, LimitOfSlots
<1> QED BY <1>1, <1>2 DEF P!AddFiled, P!File

\* ... and does not touch the chains with a rank over the limit.
LEMMA SorterRefuses ==
    ASSUME P!IInv, NEW c \in Command, NEW k \in Nat, SorterAdd(c, k),
           k > KeyLimit, optionBigKeys # "floor"
    PROVE  /\ P!Filed' = P!Filed /\ fault' \in {"none", "exit"}
           /\ \A d \in P!Filed : key'[d] = key[d]
           /\ topDigits' = topDigits
<1>1. P!AddRefused(c, k)
  BY SorterAdds DEF P!AddFiled
<1>2. key' = [key EXCEPT ![c] = k] /\ topDigits' = topDigits /\ fault' \in {"none", "exit"}
  BY <1>1, SorterAdds DEF P!AddRefused, P!SetKey
<1>3. P!TypeOK /\ P!ChainsWellFormed /\ c \in Command \ P!Filed
  BY SorterAdds DEF P!IInv
<1> QED BY <1>2, <1>3, SorterConstants, P!KeyOfUnfiled

\* The index takes the sorter through steps of its own only.
LEMMA SorterSteps ==
    ASSUME P!IInv, P!DumpFollowsChains,
           \/ \E c \in Command, k \in Nat : SorterAdd(c, k) \/ Sorter!CutFound(c, k) \/ Sorter!CutMissed(c, k)
           \/ Sorter!Dump
           \/ UNCHANGED sorter
    PROVE  P!IInv' /\ P!DumpFollowsChains'
<1>1. P!Next \/ UNCHANGED P!vars
  <2>1. CASE \E c \in Command, k \in Nat : SorterAdd(c, k) \/ Sorter!CutFound(c, k) \/ Sorter!CutMissed(c, k)
    BY <2>1, SameAdd, SameCut DEF P!Next
  <2>2. CASE Sorter!Dump
    BY <2>2, SameDump DEF P!Next
  <2>3. CASE UNCHANGED sorter
    BY <2>3 DEF sorter, P!vars, P!store, P!dumpVars
  <2> QED BY <2>1, <2>2, <2>3
<1> QED BY <1>1, SorterConstants, P!NextIInv, P!NextFollowsChains

\* radix_cut by the rank a command is filed under takes it out of its chain ...
LEMMA SorterCuts ==
    ASSUME P!IInv, NEW c \in Command, NEW k \in Nat, Sorter!CutFound(c, k)
    PROVE  /\ c \in P!Filed /\ key[c] = k /\ k < KeyLimit
           /\ P!Filed' = P!Filed \ {c}
           /\ key' = key /\ fault' = fault /\ fault = "none"
           /\ optionBigKeys' = optionBigKeys /\ pc' = pc
           /\ \A j \in Nat : P!Top(j) \in P!Tops =>
                 topDigits'[P!Top(j)][P!Low(j)] =
                     IF j = k THEN P!Unlinked(P!Chain(j), c) ELSE P!Chain(j)
<1>1. P!CutFound(c, k)
  BY SameCut
<1>2. /\ optionBigKeys' = optionBigKeys /\ pc' = pc /\ fault = "none"
  BY <1>1 DEF P!CutFound, P!dumpVars, P!Running
<1>3. /\ c \in P!Filed /\ key[c] = k /\ P!Filed' = P!Filed \ {c}
      /\ key' = key /\ fault' = fault
      /\ \A j \in Nat : P!Top(j) \in P!Tops =>
            topDigits'[P!Top(j)][P!Low(j)] =
                IF j = k THEN P!Unlinked(P!Chain(j), c) ELSE P!Chain(j)
  BY <1>1, SorterConstants, P!ItemCut
<1>4. k < KeyLimit
  <2>1. P!Top(k) \in P!Tops
    BY <1>3 DEF P!Filed
  <2> QED BY <2>1, LimitOfSlots
<1> QED BY <1>2, <1>3, <1>4

\* ... and what it does not find is not filed there.  A rank over the limit does no harm.
LEMMA SorterMisses ==
    ASSUME P!IInv, NEW c \in Command, NEW k \in Nat, Sorter!CutMissed(c, k)
    PROVE  /\ UNCHANGED <<optionBigKeys, topDigits, key, pc>>
           /\ P!Filed' = P!Filed
           /\ c \in P!Filed => key[c] # k
           /\ k > KeyLimit => fault' = fault
<1>1. P!CutMissed(c, k)
  BY SameCut
<1>2. UNCHANGED <<optionBigKeys, topDigits, key, pc>>
  BY <1>1 DEF P!CutMissed, P!dumpVars
<1>3. P!Filed' = P!Filed
  BY <1>2 DEF P!Filed, P!Chain
<1>4. c \in P!Filed => key[c] # k
  <2> SUFFICES ASSUME c \in P!Filed, key[c] = k PROVE FALSE
    OBVIOUS
  <2>1. P!CutOutcome(c, k) # "found"
    BY <1>1 DEF P!CutMissed
  <2>2. P!Top(k) \in P!Tops /\ c \in P!ToSet(P!Chain(k))
    BY DEF P!Filed
  <2>3. k <= maxKey /\ maxKey \in Nat /\ P!Top(k) \in slots
    BY DEF P!IInv, P!BoundsCoverItems, P!TypeOK
  <2>4. P!Chain(k) # <<>>
    BY <2>2 DEF P!ToSet
  <2> QED BY <2>1, <2>2, <2>3, <2>4 DEF P!CutOutcome
<1>5. k > KeyLimit => fault' = fault
  <2> SUFFICES ASSUME k > KeyLimit PROVE fault' = fault
    OBVIOUS
  <2>1. P!Top(maxKey) \in P!Tops /\ maxKey \in Nat
    BY DEF P!IInv, P!SizesExact, P!TypeOK
  <2>2. maxKey < KeyLimit
    BY <2>1, LimitOfSlots
  <2>3. P!CutOutcome(c, k) = "absent"
    BY <2>1, <2>2, LimitAssumption DEF P!CutOutcome
  <2> QED BY <1>1, <2>3 DEF P!CutMissed
<1> QED BY <1>2, <1>3, <1>4, <1>5

-----------------------------------------------------------------------------
\* The history has a line: prioritized_history_create makes no index of an empty one.
HistoryType == historyList \in Seq(Command \cup {Timestamp}) /\ Length0 \in 1 .. MaxLength

\* What one occurrence adds to a rank (history_ranking_function).
Points(c, n) == IF n = 0 THEN 0 ELSE LogOrder[n] + Length[c]

\* It is never negative.
LEMMA PointsType ==
    ASSUME NEW c \in Command, NEW n \in 0 .. MaxLength
    PROVE  Points(c, n) \in Nat
BY LengthAssumption, LogOrderAssumption, MaxLengthAssumption DEF Points

\* What it is for F to have the ranks after the first lines ...
IsRanks(F, list, c) ==
    /\ F \in [0 .. Len(list) -> Nat]
    /\ F[0] = 0
    /\ \A m \in 1 .. Len(list) :
          F[m] = IF list[m] = c THEN F[m - 1] + Points(c, m - 1) ELSE F[m - 1]

\* ... and there is such an F, which ends in the rank by the whole history.
LEMMA RankSteps ==
    ASSUME HistoryType, NEW c \in Command
    PROVE  \E F : IsRanks(F, historyList, c) /\ RankOf(c) = F[Length0]
<1> DEFINE n == Length0
           T == Nat
           op(s, m) == IF historyList[m] = c THEN s + Points(c, m - 1) ELSE s
           step == [a \in T \X (1 .. n) |-> op(a[1], a[2])]
           places == [m \in DOMAIN historyList |-> m]
<1>1. /\ n \in Nat /\ DOMAIN historyList = 1 .. n /\ DOMAIN places = 1 .. n
      /\ \A m \in 1 .. n : places[m] = m /\ m - 1 \in 0 .. MaxLength
  BY MaxLengthAssumption DEF HistoryType, Length0
<1>0. ASSUME NEW s \in T, NEW m \in 1 .. n PROVE op(s, m) \in T
  <2>1. Points(c, m - 1) \in Nat
    BY <1>1, PointsType
  <2> QED BY <2>1
<1>2. 0 \in T /\ step \in Steps(n, T)
  <2>1. 0 \in T
    OBVIOUS
  <2> HIDE DEF op, T, n
  <2> QED BY <1>0, <2>1 DEF Steps
<1>3. PICK g \in [SUBSET (1 .. n) -> T] :
          \A s \in SUBSET (1 .. n) :
             g[s] = IF s = {} THEN 0 ELSE step[<<g[s \ {Max(s)}], Max(s)>>]
  <2>1. \E g : IsFold(g, n, T, 0, step)
    <3> HIDE DEF step, n, T
    <3> QED BY <1>1, <1>2, FoldExists
  <2> HIDE DEF T, step, n
  <2> QED BY <2>1 DEF IsFold
<1> DEFINE Is(h) == h = [s \in SUBSET (1 .. n) |-> IF s = {} THEN 0 ELSE op(h[s \ {Max(s)}], places[Max(s)])]
           iter == CHOOSE h : Is(h)
<1> HIDE DEF places
<1>4. Is(g)
  <2>1. ASSUME NEW s \in SUBSET (1 .. n), s # {}
        PROVE  step[<<g[s \ {Max(s)}], Max(s)>>] = op(g[s \ {Max(s)}], places[Max(s)])
    <3>1. Max(s) \in 1 .. n /\ g[s \ {Max(s)}] \in T
      <4> HIDE DEF T, n
      <4> QED BY <1>1, <2>1, MaxIsInside
    <3>2. places[Max(s)] = Max(s)
      BY <1>1, <3>1
    <3> HIDE DEF op, T, n
    <3> QED BY <3>1, <3>2
  <2> HIDE DEF step, op, T, n
  <2> QED BY <1>3, <2>1
<1>5. Is(iter)
  <2> HIDE DEF Is
  <2> QED BY <1>4
<1>6. RankOf(c) = iter[1 .. n]
  BY <1>1 DEF RankOf, FoldLeftDomain, FoldLeft, MapThenFoldSet, Points, places
<1> DEFINE F == [k \in 0 .. n |-> iter[1 .. k]]
<1> HIDE DEF iter, n
<1>7. F[0] = 0
  <2> HIDE DEF op, T
  <2> QED BY <1>1, <1>5
<1>8. ASSUME NEW k \in 1 .. n PROVE F[k] = op(F[k - 1], k)
  <2>1. /\ 1 .. k \in SUBSET (1 .. n) /\ 1 .. k # {}
        /\ (1 .. k) \ {Max(1 .. k)} = 1 .. k - 1 /\ Max(1 .. k) = k
    BY <1>1, InitialSegments
  <2>2. iter[1 .. k] = op(iter[(1 .. k) \ {Max(1 .. k)}], places[Max(1 .. k)])
    <3> HIDE DEF op
    <3> QED BY <1>5, <2>1
  <2>3. iter[1 .. k] = op(iter[1 .. k - 1], k)
    <3> HIDE DEF op
    <3> QED BY <1>1, <2>1, <2>2
  <2>4. k - 1 \in 0 .. n /\ k \in 0 .. n
    BY <1>1
  <2> HIDE DEF op
  <2> QED BY <2>3, <2>4
<1>9. \A k \in 0 .. n : F[k] \in T
  <2> HIDE DEF F
  <2>1. ASSUME NEW k \in 1 .. n, F[k - 1] \in T PROVE F[k] \in T
    <3> HIDE DEF op, T
    <3> QED BY <1>0, <1>8, <2>1
  <2> HIDE DEF T
  <2> QED BY <1>1, <1>2, <1>7, <2>1, FoldInduction
<1>10. F \in [0 .. n -> T] /\ RankOf(c) = F[n]
  <2> HIDE DEF T
  <2> QED BY <1>1, <1>6, <1>9
<1> HIDE DEF F
<1> QED BY <1>7, <1>8, <1>10 DEF IsRanks, n, Length0

\* The rank of a command by the first n lines.
RanksIn(list, c) == CHOOSE F : IsRanks(F, list, c)
RankUpTo(c, n) == RanksIn(historyList, c)[n]

\* It grows with the occurrences of the command and with nothing else.
LEMMA RankUpToProperties ==
    ASSUME HistoryType, NEW c \in Command
    PROVE  /\ RankUpTo(c, 0) = 0
           /\ \A m \in 0 .. Length0 : RankUpTo(c, m) \in Nat
           /\ \A m \in 1 .. Length0 :
                 RankUpTo(c, m) = IF historyList[m] = c THEN RankUpTo(c, m - 1) + Points(c, m - 1)
                                                        ELSE RankUpTo(c, m - 1)
           /\ RankOf(c) = RankUpTo(c, Length0)
<1> DEFINE E == RanksIn(historyList, c)
<1>1. PICK F : IsRanks(F, historyList, c) /\ RankOf(c) = F[Length0]
  BY RankSteps
<1>2. IsRanks(E, historyList, c) /\ \A m : RankUpTo(c, m) = E[m]
  BY <1>1 DEF RankUpTo, RanksIn
<1> HIDE DEF E
<1>3. F[Length0] = E[Length0]
  <2>1. Length0 \in Nat /\ F[0] = E[0]
    BY <1>1, <1>2 DEF IsRanks, HistoryType
  <2>2. \A k \in 1 .. Length0 : F[k - 1] = E[k - 1] => F[k] = E[k]
    BY <1>1, <1>2 DEF IsRanks, Length0
  <2> QED BY <2>1, <2>2, SameSteps
<1> QED BY <1>1, <1>2, <1>3 DEF IsRanks, Length0

\* The history is not written to.
LEMMA SameHistory ==
    ASSUME historyList' = historyList
    PROVE  /\ \A c, n : RankUpTo(c, n)' = RankUpTo(c, n)
           /\ Length0' = Length0
           /\ HistoryType => HistoryType'
BY DEF RankUpTo, Length0, HistoryType

\* The commands among the first n lines.
Met(n) == {c \in Command \ Blacklist : \E m \in 1 .. n : historyList[m] = c}

\* The lines rawHistory has, the current one included once it has been recorded.
LinesRead == IF phase = "readd" THEN i + 1 ELSE i

\* The types.
Types ==
    /\ HistoryType /\ TypeOK
    /\ rankmap \in [DOMAIN rankmap -> Nat]

\* A command cut from the sorter is added again before the loop goes on.
Pending ==
    phase = "readd" =>
        /\ i < Length0 /\ fault = "none"
        /\ Line \in DOMAIN rankmap /\ rankmap[Line] < KeyLimit

\* The dump comes after the last line, and only if nothing went wrong.
Ended ==
    /\ phase \in {"dump", "done"} => i = Length0 /\ fault = "none"
    /\ phase = "done" => pc = "done"

\* A command is in the rankmap from its first line on.
MetAreRanked == DOMAIN rankmap = Met(i)

\* rankmap has the rank by the lines read, or one over the limit that no longer grows:
\* what radix_cut does not find is not ranked again.
RanksAddUp ==
    fault = "none" =>
        \A c \in DOMAIN rankmap :
            IF rankmap[c] > KeyLimit THEN RankUpTo(c, i) > KeyLimit
                                     ELSE rankmap[c] = RankUpTo(c, i)

\* The sorter has exactly the commands whose rank fits, under that rank.
FiledAsRanked ==
    fault = "none" =>
        /\ \A c \in P!Filed :
              /\ c \in DOMAIN rankmap
              /\ key[c] = IF rankmap[c] > KeyLimit THEN KeyLimit - 1 ELSE rankmap[c]
        /\ \A c \in DOMAIN rankmap :
              c \in P!Filed <=> Fits(rankmap[c]) /\ ~(phase = "readd" /\ c = Line)
        /\ \A c \in DOMAIN rankmap : rankmap[c] # KeyLimit

\* The command x was used after y was used last.
UsedAfter(x, y) ==
    \E m \in 1 .. i : historyList[m] = x /\ \A n \in 1 .. i : historyList[n] = y => n < m

\* Of two commands in one chain the one ahead was used last.
NewestFirst ==
    fault = "none" =>
        \A x, y \in P!Filed :
            /\ key[x] = key[y] /\ rankmap[x] < KeyLimit /\ rankmap[y] < KeyLimit
            /\ P!Ahead(x, y, P!Chain(key[x]))
            => UsedAfter(x, y)

\* rawHistory has the lines read, backwards, NULL for a timestamp.
RawRecorded ==
    phase \in {"rank", "readd"} =>
        \A m \in 1 .. LinesRead :
            rawHistory[Length0 - m] = IF historyList[m] = Timestamp THEN NULL ELSE historyList[m]

\* rawTimestamps counts the timestamps read.
TimestampsCounted == rawTimestamps = Cardinality({m \in 1 .. i : historyList[m] = Timestamp})

\* After the loop over rawHistory the raw view is ready.
RawReady ==
    phase \in {"dump", "done"} =>
        [n \in 1 .. rawCount |-> rawHistory[n - 1]] = Reverse(Without(historyList, Timestamp))

\* The inductive invariant.
IInv ==
    /\ P!IInv /\ P!DumpFollowsChains
    /\ Types /\ Pending /\ Ended
    /\ MetAreRanked /\ RanksAddUp /\ FiledAsRanked /\ NewestFirst
    /\ RawRecorded /\ TimestampsCounted /\ RawReady
    /\ FaultOnlyAtLimit

-----------------------------------------------------------------------------
\* A command not met has no rank yet,
LEMMA UnmetHasNoRank ==
    ASSUME Types, NEW c \in Command \ Blacklist, c \notin Met(i)
    PROVE  RankUpTo(c, i) = 0
<1> DEFINE F == [m \in 0 .. i |-> RankUpTo(c, m)]
<1>1. i \in Nat /\ i <= Length0 /\ Length0 \in Nat
  BY DEF Types, TypeOK, HistoryType
<1>2. F[0] = 0
  BY <1>1, RankUpToProperties DEF Types
<1>3. ASSUME NEW m \in 1 .. i, F[m - 1] \in {0} PROVE F[m] \in {0}
  <2>1. historyList[m] # c
    BY DEF Met
  <2>2. m \in 1 .. Length0 /\ m - 1 \in 0 .. i
    BY <1>1
  <2>3. RankUpTo(c, m) = RankUpTo(c, m - 1)
    BY <2>1, <2>2, RankUpToProperties DEF Types
  <2> QED BY <1>3, <2>2, <2>3
<1>4. \A m \in 0 .. i : F[m] \in {0}
  <2> HIDE DEF F
  <2> QED BY <1>1, <1>2, <1>3, FoldInduction
<1> QED BY <1>1, <1>4

\* The line the loop is at is a command or a timestamp.
LEMMA LineType ==
    ASSUME Types, i < Length0
    PROVE  /\ i \in Nat /\ i + 1 \in 1 .. Length0 /\ i \in 0 .. MaxLength
           /\ Line = historyList[i + 1] /\ Line \in Command \cup {Timestamp}
BY MaxLengthAssumption DEF Types, TypeOK, HistoryType, Line, Length0

\* ... and history_ranking_function takes a rank from one line to the next.
LEMMA NextRank ==
    ASSUME Types, i < Length0, Line \in Command,
           NEW r \in Nat, r = RankUpTo(Line, i)
    PROVE  /\ Rank(r, i, Line) = RankUpTo(Line, i + 1)
           /\ RankUpTo(Line, i + 1) \in Nat
           /\ RankUpTo(Line, i + 1) >= r
<1>1. /\ i \in Nat /\ i + 1 \in 1 .. Length0 /\ i \in 0 .. MaxLength
      /\ Line = historyList[i + 1]
  BY LineType
<1>2. RankUpTo(Line, i + 1) = r + Points(Line, i) /\ (i = 0 => r = 0)
  BY <1>1, RankUpToProperties DEF Types
<1>3. Points(Line, i) \in Nat
  BY <1>1, PointsType
<1>4. Rank(r, i, Line) = r + Points(Line, i)
  <2>1. CASE i = 0
    BY <1>2, <2>1 DEF Rank, Points
  <2>2. CASE i # 0
    <3>1. LogOrder[i] \in Nat /\ Length[Line] \in Nat
      BY <1>1, <2>2, LogOrderAssumption, LengthAssumption, MaxLengthAssumption
    <3> QED BY <2>2, <3>1 DEF Rank, Points
  <2> QED BY <2>1, <2>2
<1> QED BY <1>2, <1>3, <1>4

\* A command is filed, the first time or again, under its rank by the lines up to this one.
Filing(c, k) ==
    /\ c = Line /\ c \in Command \ Blacklist
    /\ k \in Nat /\ k = RankUpTo(c, i + 1)
    /\ SorterAdd(c, k)
    /\ DOMAIN rankmap' = DOMAIN rankmap \cup {c} /\ rankmap' \in [DOMAIN rankmap' -> Nat]
    /\ rankmap'[c] = k
    /\ \A d \in DOMAIN rankmap : d # c => rankmap'[d] = rankmap[d]
    /\ i < Length0 /\ i' = i + 1 /\ phase' = "rank" /\ historyList' = historyList
    /\ fault = "none" /\ UNCHANGED rawTimestamps

\* That is what ReadNew and ReAdd do.
LEMMA BothFile ==
    ASSUME IInv, ReadNew \/ ReAdd
    PROVE  Filing(Line, RankUpTo(Line, i + 1))
<1>0. Types /\ DOMAIN rankmap = Met(i) /\ DOMAIN rankmap \subseteq Command \ Blacklist
  BY DEF IInv, Types, TypeOK, MetAreRanked
<1>1. CASE ReadNew
  <2>1. /\ i < Length0 /\ fault = "none" /\ phase = "rank" /\ Line \in Command \ Blacklist
        /\ Line \notin DOMAIN rankmap
    BY <1>1 DEF ReadNew, Reading
  <2>2. RankUpTo(Line, i) = 0
    BY <1>0, <2>1, UnmetHasNoRank
  <2>3. /\ Rank(0, i, Line) = RankUpTo(Line, i + 1) /\ RankUpTo(Line, i + 1) \in Nat
    BY <1>0, <2>1, <2>2, NextRank
  <2>4. rankmap' = [d \in DOMAIN rankmap \cup {Line} |->
                       IF d = Line THEN Rank(0, i, Line) ELSE rankmap[d]]
    BY <1>1 DEF ReadNew
  <2>5. /\ DOMAIN rankmap' = DOMAIN rankmap \cup {Line} /\ rankmap' \in [DOMAIN rankmap' -> Nat]
        /\ rankmap'[Line] = Rank(0, i, Line)
        /\ \A d \in DOMAIN rankmap : d # Line => rankmap'[d] = rankmap[d]
    BY <1>0, <2>1, <2>3, <2>4 DEF Types
  <2> QED BY <1>1, <2>1, <2>3, <2>5 DEF Filing, ReadNew
<1>2. CASE ReAdd
  <2>1. /\ i < Length0 /\ fault = "none" /\ Line \in DOMAIN rankmap /\ rankmap[Line] < KeyLimit
    BY <1>2 DEF ReAdd, IInv, Pending
  <2>2. /\ rankmap[Line] \in Nat /\ Line \in Command \ Blacklist
    BY <1>0, <2>1 DEF Types
  <2>3. rankmap[Line] = RankUpTo(Line, i)
    BY <2>1, <2>2, LimitAssumption DEF IInv, RanksAddUp
  <2>4. /\ Rank(rankmap[Line], i, Line) = RankUpTo(Line, i + 1) /\ RankUpTo(Line, i + 1) \in Nat
    BY <1>0, <2>1, <2>2, <2>3, NextRank
  <2>5. rankmap' = [rankmap EXCEPT ![Line] = Rank(rankmap[Line], i, Line)]
        /\ SorterAdd(Line, Rank(rankmap[Line], i, Line))
    BY <1>2 DEF ReAdd, Reranked
  <2>6. /\ DOMAIN rankmap' = DOMAIN rankmap \cup {Line} /\ rankmap' \in [DOMAIN rankmap' -> Nat]
        /\ rankmap'[Line] = Rank(rankmap[Line], i, Line)
        /\ \A d \in DOMAIN rankmap : d # Line => rankmap'[d] = rankmap[d]
    BY <1>0, <2>1, <2>4, <2>5 DEF Types
  <2> QED BY <1>2, <2>1, <2>2, <2>4, <2>5, <2>6 DEF Filing, ReAdd
<1> QED BY <1>1, <1>2

-----------------------------------------------------------------------------
\* No chain, key or rank changes.
StoreKept == UNCHANGED <<historyList, rankmap, optionBigKeys, topDigits, key, fault>>

\* A step that files and cuts nothing: past a line that is not ranked, or past none.
Passing ==
    /\ StoreKept
    /\ \/ /\ i < Length0 /\ i' = i + 1 /\ phase = "rank" /\ phase' = "rank" /\ fault = "none"
          /\ \/ Line \notin Command \ Blacklist
             \/ Line \in DOMAIN rankmap /\ rankmap[Line] > KeyLimit
       \/ i' = i /\ (phase' = "readd" <=> phase = "readd")

\* A command is cut from the sorter, and the loop stays at its line.
Cutting(c) ==
    /\ c = Line /\ c \in DOMAIN rankmap /\ fault = "none" /\ i < Length0
    /\ Sorter!CutFound(c, rankmap[c])
    /\ phase = "rank" /\ phase' = "readd"
    /\ UNCHANGED <<historyList, i, rankmap>>

\* What radix_cut does not find has a rank over the limit: nothing else is ever lost, and
\* the walk through the chains meets no NULL.
LEMMA LostIsOverLimit ==
    ASSUME IInv, ReadLost
    PROVE  /\ rankmap[Line] > KeyLimit /\ fault' = fault
           /\ Line \in Command /\ rankmap[Line] \in Nat
           /\ UNCHANGED <<optionBigKeys, topDigits, key, pc>>
<1> DEFINE k == rankmap[Line]
<1>1. /\ Line \in DOMAIN rankmap /\ fault = "none" /\ phase = "rank"
      /\ Sorter!CutMissed(Line, k)
  BY DEF ReadLost, Reading
<1>2. Line \in Command /\ k \in Nat
  BY <1>1 DEF IInv, Types, TypeOK
<1> HIDE DEF k
<1>3. P!IInv
  BY DEF IInv
<1>4. /\ UNCHANGED <<optionBigKeys, topDigits, key, pc>>
      /\ Line \in P!Filed => key[Line] # k
      /\ k > KeyLimit => fault' = fault
  BY <1>1, <1>2, <1>3, SorterMisses
<1>5. k > KeyLimit
  <2>1. k # KeyLimit /\ (Line \in P!Filed <=> Fits(k))
    BY <1>1 DEF IInv, FiledAsRanked, k
  <2>2. Line \in P!Filed => key[Line] = IF k > KeyLimit THEN KeyLimit - 1 ELSE k
    BY <1>1 DEF IInv, FiledAsRanked, k
  <2>3. KeyLimit \in Nat
    BY LimitAssumption
  <2> QED BY <1>2, <1>4, <2>1, <2>2, <2>3 DEF Fits
<1> QED BY <1>2, <1>4, <1>5 DEF k

\* Every step files, cuts or passes.
LEMMA StepKinds ==
    ASSUME IInv, [Next]_vars
    PROVE  Passing \/ Cutting(Line) \/ Filing(Line, RankUpTo(Line, i + 1))
<1>1. CASE ReadTimestamp \/ ReadBlacklisted
  BY <1>1, TimestampAssumption DEF ReadTimestamp, ReadBlacklisted, Reading, Passing, StoreKept, sorter
<1>2. CASE ReadNew \/ ReAdd
  BY <1>2, BothFile
<1>3. CASE ReadSeen
  BY <1>3 DEF ReadSeen, Reading, Cutting
<1>4. CASE ReadLost
  <2>1. rankmap[Line] > KeyLimit /\ fault' = fault /\ UNCHANGED <<optionBigKeys, topDigits, key>>
    BY <1>4, LostIsOverLimit
  <2> QED BY <1>4, <2>1 DEF ReadLost, Reading, Passing, StoreKept
<1>5. CASE Compact
  BY <1>5 DEF Compact, Passing, StoreKept, sorter
<1>6. CASE Dump
  <2>1. UNCHANGED <<optionBigKeys, topDigits, key, fault>>
    BY <1>6, SameDump DEF Dump, P!Dump, P!DumpBegin, P!DumpSlot, P!DumpChain, P!store
  <2>2. phase = "dump" /\ phase' \in {"done", "dump"} /\ UNCHANGED <<historyList, i, rankmap>>
    BY <1>6 DEF Dump
  <2> QED BY <2>1, <2>2 DEF Passing, StoreKept
<1>7. CASE UNCHANGED vars
  BY <1>7 DEF vars, sorter, Passing, StoreKept
<1> QED BY <1>1, <1>2, <1>3, <1>4, <1>5, <1>6, <1>7 DEF Next

\* The sorter stays right.
LEMMA SorterKept ==
    ASSUME IInv, [Next]_vars
    PROVE  P!IInv' /\ P!DumpFollowsChains'
<1> DEFINE SorterStep == \/ \E c \in Command, k \in Nat :
                           SorterAdd(c, k) \/ Sorter!CutFound(c, k) \/ Sorter!CutMissed(c, k)
                     \/ Sorter!Dump
                     \/ UNCHANGED sorter
<1>1. ASSUME ReadNew \/ ReAdd PROVE SorterStep
  <2>1. Filing(Line, RankUpTo(Line, i + 1))
    BY <1>1, BothFile
  <2>2. Line \in Command /\ RankUpTo(Line, i + 1) \in Nat /\ SorterAdd(Line, RankUpTo(Line, i + 1))
    BY <2>1 DEF Filing
  <2> QED BY <2>2
<1>2. ASSUME ReadSeen \/ ReadLost PROVE SorterStep
  <2>1. /\ Line \in DOMAIN rankmap
        /\ Sorter!CutFound(Line, rankmap[Line]) \/ Sorter!CutMissed(Line, rankmap[Line])
    BY <1>2 DEF ReadSeen, ReadLost
  <2>2. Line \in Command /\ rankmap[Line] \in Nat
    BY <2>1 DEF IInv, Types, TypeOK
  <2> QED BY <2>1, <2>2
<1>3. ASSUME Dump PROVE SorterStep
  BY <1>3 DEF Dump
<1>4. ASSUME ReadTimestamp \/ ReadBlacklisted \/ Compact \/ UNCHANGED vars PROVE SorterStep
  BY <1>4 DEF ReadTimestamp, ReadBlacklisted, Compact, vars
<1>5. SorterStep
  BY <1>1, <1>2, <1>3, <1>4 DEF Next
<1>6. P!IInv /\ P!DumpFollowsChains
  BY DEF IInv
<1> QED BY <1>5, <1>6, SorterSteps

-----------------------------------------------------------------------------
\* One more line is one more command at most.
LEMMA MetNext ==
    ASSUME Types, i < Length0
    PROVE  Met(i + 1) = Met(i) \cup ({Line} \cap (Command \ Blacklist))
<1>1. i \in Nat /\ Line = historyList[i + 1] /\ 1 .. i + 1 = (1 .. i) \cup {i + 1}
  BY LineType
<1> QED BY <1>1 DEF Met

\* A line adds to the rank of its own command only.
LEMMA OtherRank ==
    ASSUME Types, i < Length0, NEW c \in Command, c # Line
    PROVE  RankUpTo(c, i + 1) = RankUpTo(c, i)
<1>1. i \in Nat /\ i + 1 \in 1 .. Length0 /\ Line = historyList[i + 1]
  BY LineType
<1>2. RankUpTo(c, i + 1) = RankUpTo(c, (i + 1) - 1)
  BY <1>1, RankUpToProperties DEF Types
<1> QED BY <1>1, <1>2

\* What cutting does to the sorter,
LEMMA Cuts ==
    ASSUME IInv, NEW c, Cutting(c)
    PROVE  /\ c \in P!Filed /\ key[c] = rankmap[c] /\ rankmap[c] < KeyLimit /\ c \in Command
           /\ rankmap[c] \in Nat
           /\ P!Filed' = P!Filed \ {c}
           /\ key' = key /\ fault' = "none" /\ optionBigKeys' = optionBigKeys
           /\ \A j \in Nat : P!Top(j) \in P!Tops =>
                 topDigits'[P!Top(j)][P!Low(j)] =
                     IF j = rankmap[c] THEN P!Unlinked(P!Chain(j), c) ELSE P!Chain(j)
<1> DEFINE k == rankmap[c]
<1>1. P!IInv /\ c \in Command /\ k \in Nat /\ Sorter!CutFound(c, k) /\ fault = "none"
  BY DEF IInv, Types, TypeOK, Cutting
<1> HIDE DEF k
<1> QED BY <1>1, SorterCuts DEF k

\* ... what filing does to it: files, leaves topDigits, or refuses.
LEMMA FilingOutcome ==
    ASSUME IInv, NEW c, NEW k, Filing(c, k)
    PROVE  \/ /\ k < KeyLimit \/ (k > KeyLimit /\ optionBigKeys = "floor")
              /\ P!Filed' = P!Filed \cup {c} /\ fault' = "none"
              /\ key' = [key EXCEPT ![c] = IF k > KeyLimit THEN KeyLimit - 1 ELSE k]
              /\ \A j \in Nat : P!Top(j) \in P!Tops =>
                   topDigits'[P!Top(j)][P!Low(j)] =
                      IF j = (IF k > KeyLimit THEN KeyLimit - 1 ELSE k)
                      THEN P!Linked(P!Chain(j), c) ELSE P!Chain(j)
           \/ k = KeyLimit /\ fault' = "overrun"
           \/ /\ k > KeyLimit /\ optionBigKeys # "floor"
              /\ P!Filed' = P!Filed /\ fault' \in {"none", "exit"}
              /\ \A d \in P!Filed : key'[d] = key[d]
              /\ topDigits' = topDigits
<1>1. /\ P!IInv /\ c \in Command /\ k \in Nat /\ SorterAdd(c, k) /\ fault = "none"
  BY DEF IInv, Filing
<1>2. CASE Fits(k)
  <2>1. PICK q : q = P!FiledKey(k)
    OBVIOUS
  <2>2. /\ q = IF k > KeyLimit THEN KeyLimit - 1 ELSE k
        /\ P!Filed' = P!Filed \cup {c} /\ fault' = fault
        /\ key' = [key EXCEPT ![c] = q]
        /\ \A j \in Nat : P!Top(j) \in P!Tops =>
              topDigits'[P!Top(j)][P!Low(j)] =
                 IF j = q THEN P!Linked(P!Chain(j), c) ELSE P!Chain(j)
    BY <1>1, <1>2, <2>1, SorterFiles
  <2> QED BY <1>1, <1>2, <2>2 DEF Fits
<1>3. CASE k = KeyLimit
  BY <1>1, <1>3, SorterOverruns
<1>4. CASE k > KeyLimit /\ optionBigKeys # "floor"
  BY <1>1, <1>4, SorterRefuses
<1> QED BY <1>1, <1>2, <1>3, <1>4, LimitAssumption DEF Fits

\* ... and passing does nothing.
LEMMA FiledKept ==
    ASSUME Passing
    PROVE  P!Filed' = P!Filed
BY DEF Passing, StoreKept, P!Filed, P!Chain

\* rankmap keeps up with the lines,
LEMMA KeepsRanks ==
    ASSUME IInv, Passing \/ Cutting(Line) \/ Filing(Line, RankUpTo(Line, i + 1))
    PROVE  MetAreRanked' /\ RanksAddUp'
<1> USE DEF IInv
<1>0. historyList' = historyList /\ i \in Nat
  BY DEF Passing, StoreKept, Cutting, Filing, Types, TypeOK
<1>1. /\ Met(i)' = Met(i')
      /\ \A c : RankUpTo(c, i)' = RankUpTo(c, i')
  BY <1>0, SameHistory DEF Met
<1>2. CASE i' = i /\ rankmap' = rankmap /\ (fault' = "none" => fault = "none")
  BY <1>1, <1>2 DEF MetAreRanked, RanksAddUp
<1>3. ASSUME Passing, i' = i + 1, i < Length0, fault = "none",
             \/ Line \notin Command \ Blacklist
             \/ Line \in DOMAIN rankmap /\ rankmap[Line] > KeyLimit
      PROVE  MetAreRanked' /\ RanksAddUp'
  <2>1. rankmap' = rankmap /\ DOMAIN rankmap \subseteq Command \ Blacklist
        /\ \A c \in DOMAIN rankmap : rankmap[c] \in Nat
    BY <1>3 DEF Passing, StoreKept, Types, TypeOK
  <2>2. MetAreRanked'
    BY <1>1, <1>3, <2>1, MetNext DEF MetAreRanked
  <2>3. ASSUME NEW c \in DOMAIN rankmap
        PROVE  IF rankmap[c] > KeyLimit THEN RankUpTo(c, i + 1) > KeyLimit
                                        ELSE rankmap[c] = RankUpTo(c, i + 1)
    <3>1. c # Line => RankUpTo(c, i + 1) = RankUpTo(c, i)
      BY <1>3, <2>1, OtherRank
    <3>2. CASE c # Line
      BY <1>3, <3>1, <3>2 DEF RanksAddUp
    <3>3. CASE c = Line
      <4>1. rankmap[c] > KeyLimit /\ RankUpTo(c, i) > KeyLimit
        BY <1>3, <2>1, <3>3 DEF RanksAddUp
      <4>2. RankUpTo(c, i) \in Nat
        <5>1. i \in 0 .. Length0
          BY DEF Types, TypeOK
        <5> QED BY <2>1, <5>1, RankUpToProperties DEF Types
      <4>3. RankUpTo(c, i + 1) \in Nat /\ RankUpTo(c, i + 1) >= RankUpTo(c, i)
        BY <1>3, <2>1, <3>3, <4>2, NextRank
      <4> QED BY <4>1, <4>2, <4>3, LimitAssumption
    <3> QED BY <3>2, <3>3
  <2> QED BY <1>1, <1>3, <2>1, <2>2, <2>3 DEF RanksAddUp
<1>4. CASE Passing
  BY <1>2, <1>3, <1>4 DEF Passing, StoreKept
<1>5. CASE Cutting(Line)
  BY <1>2, <1>5 DEF Cutting
<1>6. CASE Filing(Line, RankUpTo(Line, i + 1))
  <2> DEFINE k == RankUpTo(Line, i + 1)
  <2>1. /\ Line \in Command \ Blacklist /\ DOMAIN rankmap' = DOMAIN rankmap \cup {Line}
        /\ rankmap'[Line] = k /\ k \in Nat
        /\ \A d \in DOMAIN rankmap : d # Line => rankmap'[d] = rankmap[d]
        /\ i < Length0 /\ i' = i + 1 /\ fault = "none"
        /\ DOMAIN rankmap \subseteq Command
    BY <1>6 DEF Filing, Types, TypeOK
  <2>2. MetAreRanked'
    BY <1>1, <2>1, MetNext DEF MetAreRanked
  <2>3. ASSUME NEW c \in DOMAIN rankmap'
        PROVE  IF rankmap'[c] > KeyLimit THEN RankUpTo(c, i + 1) > KeyLimit
                                         ELSE rankmap'[c] = RankUpTo(c, i + 1)
    <3>1. CASE c # Line
      <4>1. RankUpTo(c, i + 1) = RankUpTo(c, i)
        BY <2>1, <3>1, OtherRank
      <4> QED BY <2>1, <3>1, <4>1 DEF RanksAddUp
    <3>2. CASE c = Line
      BY <2>1, <3>2
    <3> QED BY <3>1, <3>2
  <2> QED BY <1>1, <2>1, <2>2, <2>3 DEF RanksAddUp
<1> QED BY <1>4, <1>5, <1>6

\* ... the sorter with rankmap,
LEMMA KeepsFiled ==
    ASSUME IInv, Passing \/ Cutting(Line) \/ Filing(Line, RankUpTo(Line, i + 1))
    PROVE  FiledAsRanked'
<1> USE DEF IInv
<1>0. historyList' = historyList
  BY DEF Passing, StoreKept, Cutting, Filing
<1>1. CASE Passing
  <2>1. P!Filed' = P!Filed /\ UNCHANGED <<rankmap, key, fault, optionBigKeys>>
    BY <1>1, FiledKept DEF Passing, StoreKept
  <2>2. \A c : Fits(rankmap[c])' = Fits(rankmap[c])
    BY <2>1 DEF Fits
  <2>3. (phase' = "readd" <=> phase = "readd") /\ (phase' = "readd" => Line' = Line)
    BY <1>0, <1>1 DEF Passing, Line
  <2> QED BY <2>1, <2>2, <2>3 DEF FiledAsRanked
<1>2. CASE Cutting(Line)
  <2> DEFINE c == Line
  <2>1. /\ c \in P!Filed /\ P!Filed' = P!Filed \ {c} /\ key' = key /\ optionBigKeys' = optionBigKeys
        /\ rankmap[c] < KeyLimit
    BY <1>2, Cuts
  <2>2. /\ c \in DOMAIN rankmap /\ fault = "none" /\ phase = "rank" /\ phase' = "readd"
        /\ rankmap' = rankmap /\ Line' = Line
    BY <1>0, <1>2 DEF Cutting, Line
  <2>3. \A d : Fits(rankmap[d])' = Fits(rankmap[d])
    BY <2>1, <2>2 DEF Fits
  <2> HIDE DEF c
  <2> QED BY <2>1, <2>2, <2>3 DEF FiledAsRanked, c
<1>3. CASE Filing(Line, RankUpTo(Line, i + 1))
  <2>0. PICK c, k : c = Line /\ Filing(c, k)
    BY <1>3
  <2>1. /\ c = Line /\ c \in Command /\ k \in Nat /\ KeyLimit \in Nat
        /\ DOMAIN rankmap' = DOMAIN rankmap \cup {c}
        /\ rankmap'[c] = k
        /\ \A d \in DOMAIN rankmap : d # c => rankmap'[d] = rankmap[d]
        /\ phase' = "rank" /\ fault = "none" /\ optionBigKeys' = optionBigKeys
        /\ c \notin P!Filed
    BY <2>0, SorterAdds, LimitAssumption DEF Filing
  <2>2. /\ key \in [Command -> Nat] /\ P!Filed \subseteq Command
    BY DEF P!IInv, P!TypeOK, P!Filed
  <2>3. /\ \A d \in P!Filed : d \in DOMAIN rankmap
              /\ key[d] = IF rankmap[d] > KeyLimit THEN KeyLimit - 1 ELSE rankmap[d]
        /\ \A d \in DOMAIN rankmap : d # c => (d \in P!Filed <=> Fits(rankmap[d]))
        /\ \A d \in DOMAIN rankmap : rankmap[d] # KeyLimit
    BY <2>1 DEF FiledAsRanked
  <2>4. \A n : Fits(n)' = Fits(n)
    BY <2>1 DEF Fits
  <2>5. CASE Fits(k)
    <3>1. /\ P!Filed' = P!Filed \cup {c}
          /\ key' = [key EXCEPT ![c] = IF k > KeyLimit THEN KeyLimit - 1 ELSE k]
      BY <2>0, <2>1, <2>5, FilingOutcome DEF Fits
    <3>2. \A d \in P!Filed' : d \in DOMAIN rankmap'
              /\ key'[d] = IF rankmap'[d] > KeyLimit THEN KeyLimit - 1 ELSE rankmap'[d]
      BY <2>1, <2>2, <2>3, <3>1
    <3>3. \A d \in DOMAIN rankmap' : d \in P!Filed' <=> Fits(rankmap'[d])
      BY <2>1, <2>3, <2>5, <3>1
    <3>4. \A d \in DOMAIN rankmap' : rankmap'[d] # KeyLimit
      BY <2>1, <2>3, <2>5 DEF Fits
    <3> QED BY <2>1, <2>4, <3>2, <3>3, <3>4 DEF FiledAsRanked
  <2>6. CASE k = KeyLimit
    <3>1. fault' # "none"
      BY <2>0, <2>1, <2>6, FilingOutcome
    <3> QED BY <3>1 DEF FiledAsRanked
  <2>7. CASE k > KeyLimit /\ optionBigKeys # "floor"
    <3>1. P!Filed' = P!Filed /\ \A d \in P!Filed : key'[d] = key[d]
      BY <2>0, <2>1, <2>7, FilingOutcome
    <3>2. \A d \in P!Filed' : d \in DOMAIN rankmap'
              /\ key'[d] = IF rankmap'[d] > KeyLimit THEN KeyLimit - 1 ELSE rankmap'[d]
      BY <2>1, <2>2, <2>3, <3>1
    <3>3. \A d \in DOMAIN rankmap' : d \in P!Filed' <=> Fits(rankmap'[d])
      <4>1. ~Fits(k)
        BY <2>1, <2>7 DEF Fits
      <4> QED BY <2>1, <2>3, <3>1, <4>1
    <3>4. \A d \in DOMAIN rankmap' : rankmap'[d] # KeyLimit
      BY <2>1, <2>3, <2>7
    <3> QED BY <2>1, <2>4, <3>2, <3>3, <3>4 DEF FiledAsRanked
  <2> QED BY <2>1, <2>5, <2>6, <2>7 DEF Fits
<1> QED BY <1>1, <1>2, <1>3

\* (a command just used was used last,)
LEMMA UsedLater ==
    ASSUME Types, i < Length0, historyList' = historyList, i' = i + 1,
           NEW x, NEW y, y # Line,
           x = Line \/ UsedAfter(x, y)
    PROVE  UsedAfter(x, y)'
<1>1. i \in Nat /\ Line = historyList[i + 1] /\ 1 .. i + 1 = (1 .. i) \cup {i + 1}
      /\ \A n \in 1 .. i : n < i + 1
  BY LineType
<1>2. \A n \in 1 .. i + 1 : historyList[n] = y => n \in 1 .. i
  BY <1>1
<1>3. CASE x = Line
  <2>1. i + 1 \in 1 .. i + 1 /\ historyList[i + 1] = x
    BY <1>1, <1>3
  <2>2. \A n \in 1 .. i + 1 : historyList[n] = y => n < i + 1
    BY <1>1, <1>2
  <2> QED BY <2>1, <2>2 DEF UsedAfter
<1>4. CASE UsedAfter(x, y)
  <2>1. PICK m \in 1 .. i : historyList[m] = x /\ \A n \in 1 .. i : historyList[n] = y => n < m
    BY <1>4 DEF UsedAfter
  <2>2. m \in 1 .. i + 1 /\ \A n \in 1 .. i + 1 : historyList[n] = y => n < m
    BY <1>1, <1>2, <2>1
  <2> QED BY <2>1, <2>2 DEF UsedAfter
<1> QED BY <1>3, <1>4

\* ... and the chains with the order of use.
LEMMA KeepsOrder ==
    ASSUME IInv, Passing \/ Cutting(Line) \/ Filing(Line, RankUpTo(Line, i + 1))
    PROVE  NewestFirst'
<1> USE DEF IInv
<1>0. historyList' = historyList
  BY DEF Passing, StoreKept, Cutting, Filing
<1>1. CASE Passing
  <2>1. P!Filed' = P!Filed /\ UNCHANGED <<rankmap, key, fault, topDigits>>
    BY <1>1, FiledKept DEF Passing, StoreKept
  <2>2. \A x : P!Chain(key[x])' = P!Chain(key[x])
    BY <2>1 DEF P!Chain
  <2> SUFFICES ASSUME fault' = "none", NEW x \in P!Filed', NEW y \in P!Filed',
                      key'[x] = key'[y], rankmap'[x] < KeyLimit, rankmap'[y] < KeyLimit,
                      P!Ahead(x, y, P!Chain(key[x])')
               PROVE  UsedAfter(x, y)'
    BY DEF NewestFirst
  <2>3. UsedAfter(x, y)
    BY <2>1, <2>2 DEF NewestFirst
  <2>4. CASE i' = i
    BY <1>0, <2>3, <2>4 DEF UsedAfter
  <2>5. CASE i' = i + 1 /\ i < Length0 /\ (Line \notin Command \ Blacklist \/ rankmap[Line] > KeyLimit)
    <3>1. y \in Command \ Blacklist /\ rankmap[y] \in Nat
      BY <2>1 DEF FiledAsRanked, Types, TypeOK
    <3>2. y # Line
      BY <2>1, <2>5, <3>1, LimitAssumption
    <3> QED BY <1>0, <2>3, <2>5, <3>2, UsedLater
  <2> QED BY <1>1, <2>4, <2>5 DEF Passing
<1>2. CASE Cutting(Line)
  <2> DEFINE c == Line
             k == rankmap[c]
  <2>1. /\ c \in P!Filed /\ key[c] = k /\ k \in Nat /\ P!Filed' = P!Filed \ {c} /\ key' = key
        /\ \A j \in Nat : P!Top(j) \in P!Tops =>
              topDigits'[P!Top(j)][P!Low(j)] =
                     IF j = k THEN P!Unlinked(P!Chain(j), c) ELSE P!Chain(j)
        /\ UNCHANGED <<i, rankmap>> /\ fault = "none"
    BY <1>2, Cuts DEF Cutting
  <2> HIDE DEF c, k
  <2> SUFFICES ASSUME fault' = "none", NEW x \in P!Filed', NEW y \in P!Filed',
                      key'[x] = key'[y], rankmap'[x] < KeyLimit, rankmap'[y] < KeyLimit,
                      P!Ahead(x, y, P!Chain(key[x])')
               PROVE  UsedAfter(x, y)'
    BY DEF NewestFirst
  <2>2. x \in P!Filed /\ y \in P!Filed /\ key[x] = key[y] /\ rankmap[x] < KeyLimit /\ rankmap[y] < KeyLimit
    BY <2>1
  <2>3. key[x] \in Nat /\ P!Top(key[x]) \in P!Tops
    BY <2>2 DEF P!Filed, P!IInv, P!TypeOK
  <2>4. P!Chain(key[x])' = IF key[x] = k THEN P!Unlinked(P!Chain(k), c) ELSE P!Chain(key[x])
    BY <2>1, <2>3 DEF P!Chain
  <2>5. P!Ahead(x, y, P!Chain(key[x]))
    <3>1. P!Chain(k) \in Seq(Command) /\ c \in P!ToSet(P!Chain(k))
      <4>1. P!Top(k) \in P!Tops /\ P!Low(k) \in P!Lows
        BY <2>1, SorterConstants, P!IndexesOfKey DEF P!Filed
      <4> QED BY <2>1, <4>1 DEF P!Filed, P!IInv, P!TypeOK, P!Chain
    <3>2. CASE key[x] = k
      BY <2>4, <3>1, <3>2, SorterConstants, P!AheadWhenUnlinked
    <3> QED BY <2>4, <3>2
  <2>6. UsedAfter(x, y)
    BY <2>1, <2>2, <2>5 DEF NewestFirst
  <2> QED BY <1>0, <2>1, <2>6 DEF UsedAfter
<1>3. CASE Filing(Line, RankUpTo(Line, i + 1))
  <2>0. PICK c, k : c = Line /\ Filing(c, k)
    BY <1>3
  <2>1. /\ c = Line /\ c \in Command /\ k \in Nat /\ KeyLimit \in Nat
        /\ rankmap'[c] = k
        /\ \A d \in DOMAIN rankmap : d # c => rankmap'[d] = rankmap[d]
        /\ fault = "none" /\ i < Length0 /\ i' = i + 1
        /\ c \notin P!Filed
    BY <2>0, SorterAdds, LimitAssumption DEF Filing
  <2>2. /\ key \in [Command -> Nat] /\ P!Filed \subseteq Command /\ P!Filed \subseteq DOMAIN rankmap
    BY <2>1 DEF P!IInv, P!TypeOK, P!Filed, FiledAsRanked
  <2> SUFFICES ASSUME fault' = "none", NEW x \in P!Filed', NEW y \in P!Filed',
                      key'[x] = key'[y], rankmap'[x] < KeyLimit, rankmap'[y] < KeyLimit,
                      P!Ahead(x, y, P!Chain(key[x])')
               PROVE  UsedAfter(x, y)'
    BY DEF NewestFirst
  <2>3. ASSUME x # c, y # c, x \in P!Filed, y \in P!Filed, key'[x] = key[x], key'[y] = key[y],
               P!Ahead(x, y, P!Chain(key[x]))
        PROVE  UsedAfter(x, y)'
    <3>1. UsedAfter(x, y)
      BY <2>1, <2>2, <2>3 DEF NewestFirst
    <3> QED BY <1>0, <2>1, <2>3, <3>1, UsedLater
  <2>4. CASE \/ k > KeyLimit /\ optionBigKeys # "floor"
             \/ k = KeyLimit
    <3>1. /\ P!Filed' = P!Filed /\ topDigits' = topDigits
          /\ \A d \in P!Filed : key'[d] = key[d]
      BY <2>0, <2>1, <2>4, FilingOutcome
    <3>2. P!Chain(key[x])' = P!Chain(key[x])
      BY <3>1 DEF P!Chain
    <3> QED BY <2>1, <2>3, <3>1, <3>2
  <2>5. CASE Fits(k)
    <3> DEFINE q == IF k > KeyLimit THEN KeyLimit - 1 ELSE k
    <3>0. k < KeyLimit \/ (k > KeyLimit /\ optionBigKeys = "floor")
      BY <2>5 DEF Fits
    <3>1. /\ P!Filed' = P!Filed \cup {c} /\ key' = [key EXCEPT ![c] = q]
          /\ \A j \in Nat : P!Top(j) \in P!Tops =>
               topDigits'[P!Top(j)][P!Low(j)] =
                  IF j = q THEN P!Linked(P!Chain(j), c) ELSE P!Chain(j)
      BY <2>0, <2>1, <3>0, FilingOutcome
    <3>2. q \in Nat /\ q < KeyLimit
      BY <2>1, <3>0, LimitAssumption
    <3> HIDE DEF q
    <3>3. /\ key'[c] = q /\ \A d \in P!Filed : d # c /\ key'[d] = key[d]
      BY <2>1, <2>2, <3>1
    <3>4. key'[x] \in Nat /\ P!Top(key'[x]) \in P!Tops
      <4>1. P!Top(q) \in P!Tops
        BY <3>2, LimitOfSlots
      <4>2. \A d \in P!Filed : key[d] \in Nat /\ P!Top(key[d]) \in P!Tops
        BY <2>2 DEF P!Filed
      <4> QED BY <3>1, <3>2, <3>3, <4>1, <4>2
    <3>5. P!Chain(key[x])' = IF key'[x] = q THEN P!Linked(P!Chain(q), c) ELSE P!Chain(key'[x])
      BY <3>1, <3>4 DEF P!Chain
    <3>6. /\ P!Chain(q) \in Seq(Command) /\ c \notin P!ToSet(P!Chain(q))
      <4>1. P!Top(q) \in P!Tops /\ P!Low(q) \in P!Lows
        BY <3>2, SorterConstants, P!IndexesOfKey, LimitOfSlots
      <4>2. P!TypeOK /\ P!ChainsWellFormed
        BY DEF P!IInv
      <4>3. P!Chain(q) \in Seq(Command)
        BY <4>1, <4>2 DEF P!TypeOK, P!Chain
      <4>4. c \in P!ToSet(P!Chain(q)) => c \in P!Filed
        BY <2>1, <4>1, <4>2 DEF P!ChainsWellFormed, P!Chain, P!Filed
      <4> QED BY <2>1, <4>3, <4>4
    <3>7. CASE key'[x] = q
      <4>1. P!Ahead(x, y, P!Linked(P!Chain(q), c))
        BY <3>5, <3>7
      <4>2. y # c /\ (x # c => P!Ahead(x, y, P!Chain(q)))
        BY <2>1, <3>6, <4>1, SorterConstants, P!AheadWhenLinked
      <4>3. CASE x = c
        BY <1>0, <2>1, <4>2, <4>3, UsedLater
      <4>4. CASE x # c
        BY <2>3, <3>1, <3>3, <3>7, <4>2, <4>4
      <4> QED BY <4>3, <4>4
    <3>8. CASE key'[x] # q
      BY <2>3, <3>1, <3>3, <3>5, <3>8
    <3> QED BY <3>7, <3>8
  <2> QED BY <2>1, <2>4, <2>5 DEF Fits
<1> QED BY <1>1, <1>2, <1>3

\* Only the limit makes the sorter fail.
LEMMA KeepsFault ==
    ASSUME IInv, Passing \/ Cutting(Line) \/ Filing(Line, RankUpTo(Line, i + 1))
    PROVE  Pending' /\ FaultOnlyAtLimit'
<1> USE DEF IInv
<1>1. CASE Passing
  <2>1. UNCHANGED <<historyList, rankmap, fault>>
    BY <1>1 DEF Passing, StoreKept
  <2>2. FaultOnlyAtLimit'
    BY <2>1 DEF FaultOnlyAtLimit
  <2>3. Pending'
    BY <1>1, <2>1 DEF Passing, Pending, Line, Length0
  <2> QED BY <2>2, <2>3
<1>2. CASE Cutting(Line)
  <2>1. fault' = "none" /\ rankmap[Line] < KeyLimit
    BY <1>2, Cuts
  <2> QED BY <1>2, <2>1 DEF Cutting, Pending, FaultOnlyAtLimit, Line, Length0
<1>3. CASE Filing(Line, RankUpTo(Line, i + 1))
  <2>0. PICK c, k : c = Line /\ Filing(c, k)
    BY <1>3
  <2>1. phase' = "rank" /\ c \in DOMAIN rankmap' /\ rankmap'[c] = k
    BY <2>0 DEF Filing
  <2>2. fault' \in {"none", "exit"} \/ (k = KeyLimit /\ fault' = "overrun")
    BY <2>0, FilingOutcome
  <2> QED BY <2>1, <2>2 DEF Pending, FaultOnlyAtLimit
<1> QED BY <1>1, <1>2, <1>3

\* The phases come in their order.
LEMMA KeepsEnd ==
    ASSUME IInv, [Next]_vars
    PROVE  Ended'
<1>1. CASE ReadTimestamp \/ ReadBlacklisted \/ ReadNew \/ ReadSeen \/ ReAdd \/ ReadLost
  BY <1>1 DEF ReadTimestamp, ReadBlacklisted, ReadNew, ReadSeen, ReAdd, ReadLost, Reading, Ended
<1>2. CASE Compact
  BY <1>2 DEF Compact, Ended, Length0, sorter
<1>3. CASE Dump
  <2>1. fault' = fault
    BY <1>3, SameDump DEF Dump, P!Dump, P!DumpBegin, P!DumpSlot, P!DumpChain, P!store
  <2> QED BY <1>3, <2>1 DEF IInv, Dump, Ended, Length0
<1>4. CASE UNCHANGED vars
  BY <1>4 DEF IInv, vars, sorter, Ended, Length0
<1> QED BY <1>1, <1>2, <1>3, <1>4 DEF Next

-----------------------------------------------------------------------------
\* How many of the places K lie before m.
CountBelow(K, m) == Cardinality({k \in K : k < m})

\* It grows by one at every place of K, from none to all of them.
LEMMA Counting ==
    ASSUME NEW n \in Nat, NEW K \in SUBSET (0 .. n - 1)
    PROVE  /\ IsFiniteSet(K) /\ Cardinality(K) \in Nat
           /\ CountBelow(K, 0) = 0 /\ CountBelow(K, n) = Cardinality(K)
           /\ \A m \in 0 .. n - 1 :
                 /\ CountBelow(K, m) \in Nat
                 /\ CountBelow(K, m + 1) = IF m \in K THEN CountBelow(K, m) + 1 ELSE CountBelow(K, m)
<1> DEFINE B(p) == {k \in K : k < p}
<1>0. \A k \in K : k \in Nat /\ k < n
  OBVIOUS
<1>1. IsFiniteSet(K) /\ Cardinality(K) \in Nat
  <2>1. IsFiniteSet(0 .. n - 1)
    BY FS_Interval
  <2> QED BY <2>1, FS_Subset, FS_CardinalityType
<1>2. \A p : IsFiniteSet(B(p)) /\ Cardinality(B(p)) \in Nat
  BY <1>1, FS_Subset, FS_CardinalityType
<1>3. B(0) = {} /\ B(n) = K
  <2>1. \A k \in K : ~(k < 0) /\ k < n
    BY <1>0
  <2> QED BY <2>1
<1>4. Cardinality({}) = 0
  BY FS_EmptySet
<1>5. ASSUME NEW m \in 0 .. n - 1
      PROVE  Cardinality(B(m + 1)) = IF m \in K THEN Cardinality(B(m)) + 1 ELSE Cardinality(B(m))
  <2>1. \A k \in K : k < m + 1 <=> k < m \/ k = m
    BY <1>0
  <2>2. B(m + 1) = IF m \in K THEN B(m) \cup {m} ELSE B(m)
    BY <2>1
  <2>3. m \notin B(m)
    OBVIOUS
  <2>4. Cardinality(B(m) \cup {m}) = Cardinality(B(m)) + 1
    BY <1>2, <2>3, FS_AddElement
  <2> HIDE DEF B
  <2> QED BY <2>2, <2>4
<1>6. \A p : CountBelow(K, p) = Cardinality(B(p))
  BY DEF CountBelow
<1> HIDE DEF B
<1> QED BY <1>1, <1>2, <1>3, <1>4, <1>5, <1>6

\* There is a place of K before which lie any number of them,
LEMMA CountReaches ==
    ASSUME NEW n \in Nat, NEW K \in SUBSET (0 .. n - 1), NEW r \in Nat, r < Cardinality(K)
    PROVE  \E m \in K : CountBelow(K, m) = r
<1> DEFINE F == [m \in 0 .. n |-> CountBelow(K, m)]
<1> SUFFICES ASSUME \A m \in K : CountBelow(K, m) # r PROVE FALSE
  OBVIOUS
<1>0. CASE n = 0
  <2>1. K = {}
    BY <1>0
  <2> QED BY <2>1, FS_EmptySet
<1>1. CASE n # 0
  <2>1. /\ F[0] = 0 /\ F[n] = Cardinality(K) /\ Cardinality(K) \in Nat
        /\ \A m \in 0 .. n - 1 : /\ F[m] \in Nat /\ F[m] = CountBelow(K, m)
                                 /\ F[m + 1] = IF m \in K THEN F[m] + 1 ELSE F[m]
    <3>1. CountBelow(K, 0) = 0 /\ CountBelow(K, n) = Cardinality(K) /\ Cardinality(K) \in Nat
      BY Counting
    <3>2. \A m \in 0 .. n - 1 :
             /\ CountBelow(K, m) \in Nat
             /\ CountBelow(K, m + 1) = IF m \in K THEN CountBelow(K, m) + 1 ELSE CountBelow(K, m)
      BY Counting
    <3> QED BY <3>1, <3>2
  <2> HIDE DEF F
  <2>2. F[0] \in 0 .. r
    BY <2>1
  <2>3. ASSUME NEW k \in 1 .. n, F[k - 1] \in 0 .. r PROVE F[k] \in 0 .. r
    <3>1. k - 1 \in 0 .. n - 1 /\ (k - 1) + 1 = k
      OBVIOUS
    <3>2. F[k] = (IF k - 1 \in K THEN F[k - 1] + 1 ELSE F[k - 1]) /\ F[k - 1] \in Nat
          /\ F[k - 1] = CountBelow(K, k - 1)
      BY <2>1, <3>1
    <3>3. k - 1 \in K => F[k - 1] # r
      BY <3>2
    <3> QED BY <2>3, <3>2, <3>3
  <2>4. \A k \in 0 .. n : F[k] \in 0 .. r
    BY <2>2, <2>3, FoldInduction
  <2>5. F[n] \in 0 .. r
    BY <2>4
  <2> QED BY <2>1, <2>5
<1> QED BY <1>0, <1>1

\* ... and only one.
LEMMA CountGrows ==
    ASSUME NEW n \in Nat, NEW K \in SUBSET (0 .. n - 1), NEW a \in K, NEW b \in K, a < b
    PROVE  CountBelow(K, a) < CountBelow(K, b) /\ CountBelow(K, b) < Cardinality(K)
<1> DEFINE B(p) == {k \in K : k < p}
<1>0. K \in SUBSET (0 .. n - 1) /\ IsFiniteSet(0 .. n - 1) /\ a \in Nat /\ b \in Nat
      /\ \A k \in K : k \in Nat
  <2>1. IsFiniteSet(0 .. n - 1)
    BY FS_Interval
  <2> QED BY <2>1
<1>1. IsFiniteSet(K) /\ Cardinality(K) \in Nat
  BY <1>0, FS_Subset, FS_CardinalityType
<1>2. \A p : IsFiniteSet(B(p)) /\ Cardinality(B(p)) \in Nat
  BY <1>1, FS_Subset, FS_CardinalityType
<1>3. B(a) \in SUBSET B(b) /\ B(a) # B(b) /\ B(b) \in SUBSET K /\ B(b) # K
  <2>1. a \in B(b) /\ a \notin B(a) /\ b \notin B(b)
    BY <1>0
  <2>2. B(a) \in SUBSET B(b)
    <3>1. \A k \in K : k < a => k < b
      BY <1>0
    <3> QED BY <3>1
  <2> QED BY <2>1, <2>2
<1>4. /\ CountBelow(K, a) = Cardinality(B(a)) /\ CountBelow(K, b) = Cardinality(B(b))
  BY DEF CountBelow
<1> HIDE DEF B
<1>5. Cardinality(B(a)) <= Cardinality(B(b)) /\ Cardinality(B(a)) # Cardinality(B(b))
  BY <1>2, <1>3, FS_Subset
<1>6. Cardinality(B(b)) <= Cardinality(K) /\ Cardinality(B(b)) # Cardinality(K)
  BY <1>1, <1>3, FS_Subset
<1> QED BY <1>1, <1>2, <1>4, <1>5, <1>6

\* The places of a list that do not hold cmd.
KeptPlaces(list, cmd) == {p \in 0 .. Len(list) - 1 : list[p + 1] # cmd}

\* Without moves what is at a kept place to the number of kept places before it.
LEMMA WithoutPlaces ==
    ASSUME NEW S, NEW list \in Seq(S), NEW cmd
    PROVE  LET K == KeptPlaces(list, cmd)
           IN  /\ Len(Without(list, cmd)) = Cardinality(K)
               /\ \A p \in K : Without(list, cmd)[CountBelow(K, p) + 1] = list[p + 1]
<1> DEFINE n == Len(list)
           K == KeptPlaces(list, cmd)
           C(m) == CountBelow(K, m)
<1>1. n \in Nat /\ K \in SUBSET (0 .. n - 1) /\ \A p \in 0 .. n - 1 : p \in K <=> list[p + 1] # cmd
  BY DEF KeptPlaces
<1>2. PICK F : IsWithout(F, S, list, cmd)
  BY WithoutSteps
<1>3. /\ F[0] = <<>> /\ Without(list, cmd) = F[n]
      /\ \A k \in 0 .. n : F[k] \in Seq(S)
      /\ \A k \in 0 .. n - 1 :
           F[k + 1] = IF list[k + 1] # cmd THEN Append(F[k], list[k + 1]) ELSE F[k]
  <2>1. \A k \in 0 .. n - 1 : k + 1 \in 1 .. n /\ (k + 1) - 1 = k
    BY <1>1
  <2> QED BY <1>2, <2>1 DEF IsWithout
<1> HIDE DEF K, n
<1>11. \A m \in 0 .. n - 1 : /\ CountBelow(K, m) \in Nat
                             /\ CountBelow(K, m + 1) = IF m \in K THEN CountBelow(K, m) + 1 ELSE CountBelow(K, m)
  <2>1. n \in Nat /\ K \in SUBSET (0 .. n - 1)
    BY <1>1
  <2> QED BY <2>1, Counting, Zenon
<1>5. C(0) = 0 /\ C(n) = Cardinality(K)
  BY <1>1, Counting
<1> DEFINE Good(k) == /\ Len(F[k]) = C(k)
                      /\ \A p \in K : p < k => F[k][C(p) + 1] = list[p + 1] /\ C(p) + 1 \in 1 .. Len(F[k])
           T == {k \in Nat : k <= n => Good(k)}
<1>6. 0 \in T
  BY <1>1, <1>3, <1>5
<1>7. ASSUME NEW k \in Nat, k \in T PROVE k + 1 \in T
  <2> SUFFICES ASSUME k + 1 <= n PROVE Good(k + 1)
    OBVIOUS
  <2>1. k \in 0 .. n - 1 /\ k \in 0 .. n /\ k + 1 \in 0 .. n /\ Good(k)
    BY <1>1, <1>7
  <2>2. C(k) \in Nat /\ C(k + 1) = IF k \in K THEN C(k) + 1 ELSE C(k)
    BY <2>1, <1>11 DEF C
  <2>3. F[k] \in Seq(S) /\ (k \in K <=> list[k + 1] # cmd)
    BY <1>1, <1>3, <2>1
  <2>4. \A p \in K : p < k + 1 => p < k \/ p = k
    BY <1>1, <2>1
  <2> HIDE DEF C, Good
  <2>5. CASE k \notin K
    <3>1. F[k + 1] = F[k] /\ C(k + 1) = C(k)
      BY <1>3, <2>1, <2>2, <2>3, <2>5
    <3> QED BY <2>1, <2>4, <2>5, <3>1 DEF Good
  <2>6. CASE k \in K
    <3> DEFINE s == F[k]
               x == list[k + 1]
    <3>1. F[k + 1] = Append(s, x) /\ C(k + 1) = C(k) + 1 /\ s \in Seq(S) /\ Len(s) = C(k)
      BY <1>3, <2>1, <2>2, <2>3, <2>6 DEF Good
    <3>2. \A p \in K : p < k => s[C(p) + 1] = list[p + 1] /\ C(p) + 1 \in 1 .. Len(s)
      BY <2>1 DEF Good
    <3> HIDE DEF s
    <3>3. /\ Len(Append(s, x)) = C(k) + 1 /\ Append(s, x)[C(k) + 1] = x
          /\ \A j \in 1 .. Len(s) : Append(s, x)[j] = s[j] /\ j \in 1 .. C(k) + 1
      BY <2>2, <3>1
    <3>4. \A p \in K : p < k + 1 => /\ Append(s, x)[C(p) + 1] = list[p + 1]
                                    /\ C(p) + 1 \in 1 .. C(k) + 1
      BY <2>2, <2>4, <3>2, <3>3
    <3> QED BY <3>1, <3>3, <3>4 DEF Good
  <2> QED BY <2>5, <2>6
<1>8. n \in T
  <2> HIDE DEF T
  <2> QED BY <1>1, <1>6, <1>7, NatSetInduction
<1>9. Good(n)
  BY <1>1, <1>8
<1>10. \A p \in K : p < n
  BY <1>1
<1> HIDE DEF C
<1>12. Len(F[n]) = Cardinality(K) /\ \A p \in K : F[n][C(p) + 1] = list[p + 1]
  BY <1>5, <1>9, <1>10
<1> QED BY <1>3, <1>12 DEF K, C

\* The last of some places.
LEMMA MaxOfPlaces ==
    ASSUME NEW n \in Nat, NEW s \in SUBSET (0 .. n), s # {}
    PROVE  Max(s) \in s /\ \A y \in s : y <= Max(s)
<1> DEFINE t0 == {k \in 1 .. n + 1 : k - 1 \in s}
<1>1. t0 \in SUBSET (1 .. n + 1) /\ t0 # {} /\ n + 1 \in Nat
  <2>1. PICK y \in s : TRUE
    OBVIOUS
  <2>2. y \in 0 .. n /\ (y + 1) - 1 = y
    BY <2>1
  <2>3. y + 1 \in t0
    BY <2>1, <2>2
  <2>4. t0 \in SUBSET (1 .. n + 1)
    OBVIOUS
  <2>5. n + 1 \in Nat
    OBVIOUS
  <2> HIDE DEF t0
  <2> QED BY <2>3, <2>4, <2>5
<1>2. Max(t0) \in t0 /\ \A y \in t0 : Max(t0) >= y
  <2> HIDE DEF t0
  <2> QED BY <1>1, MaxIsInside
<1> DEFINE top == Max(t0)
<1> HIDE DEF top
<1>3. top \in t0 /\ \A y \in t0 : top >= y
  BY <1>2 DEF top
<1>4. top - 1 \in s /\ \A y \in s : top - 1 >= y
  <2>1. \A y \in s : y + 1 \in t0
    OBVIOUS
  <2>2. \A y \in s : top >= y + 1
    BY <1>3, <2>1
  <2> QED BY <1>3, <2>2
<1>5. \E x \in s : \A y \in s : x >= y
  BY <1>4
<1> QED BY <1>5 DEF Max

-----------------------------------------------------------------------------
\* The places of rawHistory that are not NULL.
Kept(raw) == {n \in DOMAIN raw : raw[n] # NULL}

\* Places are counted from 0.
LEMMA PlacesCounted ==
    ASSUME NEW n \in Nat
    PROVE  IsFiniteSet(0 .. n - 1) /\ Cardinality(0 .. n - 1) = n
<1>1. /\ IsFiniteSet(0 .. n - 1)
      /\ Cardinality(0 .. n - 1) = IF 0 > n - 1 THEN 0 ELSE (n - 1) - 0 + 1
  BY FS_Interval
<1> QED BY <1>1

\* The type of rawHistory.
RawType == Length0 \in Nat /\ rawHistory \in [0 .. Length0 - 1 -> Command \cup {NULL}]

\* The loop over rawHistory does the same: moving down, it overwrites nothing it still needs.
LEMMA CompactedProperties ==
    ASSUME RawType
    PROVE  LET raw == rawHistory
               K   == Kept(raw)
           IN  /\ Compacted(raw) \in [0 .. Length0 - 1 -> Command \cup {NULL}]
               /\ \A m \in K : Compacted(raw)[CountBelow(K, m)] = raw[m]
<1> DEFINE n == Length0
           T == Command \cup {NULL}
           raw == rawHistory
           K == Kept(raw)
           Source(r) == CHOOSE m \in K : CountBelow(K, m) = r
<1>0. n \in Nat /\ raw \in [0 .. n - 1 -> T]
  BY DEF RawType
<1> HIDE DEF n, T, raw
<1>1. /\ K \in SUBSET (0 .. n - 1) /\ DOMAIN raw = 0 .. n - 1
  BY <1>0 DEF Kept
<1>2. Compacted(raw) = [r \in 0 .. n - 1 |-> IF r < Cardinality(K) THEN raw[Source(r)] ELSE raw[r]]
  BY <1>1 DEF Compacted, Kept, CountBelow
<1> HIDE DEF K
<1>3. IsFiniteSet(K) /\ Cardinality(K) \in Nat /\ Cardinality(K) <= n
  <2>1. IsFiniteSet(0 .. n - 1) /\ Cardinality(0 .. n - 1) = n
    BY <1>0, PlacesCounted
  <2>2. Cardinality(K) <= Cardinality(0 .. n - 1)
    BY <1>0, <1>1, <2>1, FS_Subset
  <2> QED BY <1>0, <1>1, <2>1, <2>2, Counting
<1>4. ASSUME NEW r \in Nat, r < Cardinality(K)
      PROVE  Source(r) \in K /\ CountBelow(K, Source(r)) = r
  BY <1>0, <1>1, <1>4, CountReaches
<1>5. Compacted(raw) \in [0 .. n - 1 -> T]
  <2> HIDE DEF Source
  <2>1. ASSUME NEW r \in 0 .. n - 1, r < Cardinality(K)
        PROVE  Source(r) \in 0 .. n - 1
    <3>1. Source(r) \in K
      BY <1>0, <1>4, <2>1
    <3> QED BY <1>0, <1>1, <3>1
  <2> QED BY <1>0, <1>2, <2>1
<1>6. ASSUME NEW m \in K PROVE Compacted(raw)[CountBelow(K, m)] = raw[m]
  <2> DEFINE r == CountBelow(K, m)
  <2>1. r \in Nat /\ r < Cardinality(K)
    <3>1. m \in 0 .. n - 1 /\ m \in K
      BY <1>0, <1>1, <1>6
    <3>2. r \in Nat /\ CountBelow(K, m + 1) = r + 1
      BY <1>0, <1>1, <3>1, Counting
    <3>3. CountBelow(K, m + 1) <= Cardinality(K)
      <4>1. {k \in K : k < m + 1} \in SUBSET K
        OBVIOUS
      <4> QED BY <1>0, <1>3, <4>1, FS_Subset DEF CountBelow
    <3> QED BY <1>0, <1>3, <3>2, <3>3
  <2>2. Source(r) = m
    <3> DEFINE s == Source(r)
    <3>1. s \in K /\ CountBelow(K, s) = r
      BY <1>0, <1>4, <2>1
    <3> HIDE DEF s
    <3>2. s \in Nat /\ m \in Nat
      BY <1>0, <1>1, <3>1
    <3>3. s < m => CountBelow(K, s) < r
      BY <1>0, <1>1, <3>1, CountGrows
    <3>4. m < s => r < CountBelow(K, s)
      BY <1>0, <1>1, <3>1, CountGrows
    <3> QED BY <1>0, <2>1, <3>1, <3>2, <3>3, <3>4 DEF s
  <2>3. r \in 0 .. n - 1
    BY <1>0, <1>3, <2>1
  <2> HIDE DEF Source, r
  <2>4. Compacted(raw)[r] = raw[m]
    BY <1>0, <1>2, <2>1, <2>2, <2>3
  <2> QED BY <2>4 DEF r
<1> QED BY <1>5, <1>6 DEF n, T, raw, K

\* rawHistory is the history backwards when all lines are read.
LEMMA Backwards ==
    ASSUME Types, RawRecorded, phase = "rank", i = Length0
    PROVE  LET rev == Reverse(historyList)
           IN  /\ rev \in Seq(Command \cup {Timestamp}) /\ Len(rev) = Length0
               /\ \A p \in 0 .. Length0 - 1 :
                     rawHistory[p] = IF rev[p + 1] = Timestamp THEN NULL ELSE rev[p + 1]
               /\ Kept(rawHistory) = KeptPlaces(rev, Timestamp)
               /\ rawTimestamps = Cardinality({m \in 1 .. Length0 : historyList[m] = Timestamp}) =>
                     Cardinality(Kept(rawHistory)) = Length0 - rawTimestamps
<1> DEFINE rev == Reverse(historyList)
           n == Length0
           list == historyList
<1>1. /\ n \in Nat /\ list \in Seq(Command \cup {Timestamp}) /\ DOMAIN list = 1 .. n
      /\ rawHistory \in [0 .. n - 1 -> Command \cup {NULL}] /\ n = Len(list)
  BY DEF Types, TypeOK, HistoryType, Length0
<1>2. \A m \in 1 .. n : rawHistory[n - m] = IF list[m] = Timestamp THEN NULL ELSE list[m]
  BY DEF RawRecorded, LinesRead
<1>3. rev \in Seq(Command \cup {Timestamp}) /\ Len(rev) = n
  BY <1>1, ReverseProperties
<1>4. \A p \in 0 .. n - 1 : rev[p + 1] = list[n - p]
  <2>1. \A k \in 1 .. n : rev[k] = list[(n - k) + 1]
    BY <1>1 DEF Reverse
  <2>2. \A p \in 0 .. n - 1 : p + 1 \in 1 .. n /\ (n - (p + 1)) + 1 = n - p
    BY <1>1
  <2> HIDE DEF rev, n, list
  <2> QED BY <2>1, <2>2
<1> HIDE DEF rev, n, list
<1>5. ASSUME NEW p \in 0 .. n - 1
      PROVE  rawHistory[p] = IF rev[p + 1] = Timestamp THEN NULL ELSE rev[p + 1]
  <2>1. n - p \in 1 .. n /\ n - (n - p) = p
    BY <1>1
  <2> QED BY <1>2, <1>4, <2>1
<1>6. /\ \A p \in 0 .. n - 1 : rawHistory[p] # NULL <=> rev[p + 1] # Timestamp
      /\ \A m \in 1 .. n : rawHistory[n - m] # NULL <=> list[m] # Timestamp
  <2>1. \A m \in 1 .. n : list[m] \in Command \cup {Timestamp}
    BY <1>1
  <2>2. \A p \in 0 .. n - 1 : n - p \in 1 .. n
    BY <1>1
  <2> QED BY <1>2, <1>4, <1>5, <2>1, <2>2, NullAssumption
<1>7. Kept(rawHistory) = KeptPlaces(rev, Timestamp)
  <2>1. DOMAIN rawHistory = 0 .. n - 1
    BY <1>1
  <2> QED BY <1>3, <1>6, <2>1 DEF Kept, KeptPlaces
<1>8. Cardinality(Kept(rawHistory)) = n - Cardinality({m \in 1 .. n : list[m] = Timestamp})
  <2> DEFINE A == {m \in 1 .. n : list[m] = Timestamp}
             B == {p \in 0 .. n - 1 : rawHistory[p] = NULL}
             f == [m \in A |-> n - m]
  <2>1. f \in Bijection(A, B)
    <3>1. \A m \in A : n - m \in B
      <4>1. \A m \in 1 .. n : n - m \in 0 .. n - 1
        BY <1>1
      <4> QED BY <1>6, <4>1
    <3>2. \A p \in B : n - p \in A /\ n - (n - p) = p
      <4>1. \A p \in 0 .. n - 1 : n - p \in 1 .. n /\ n - (n - p) = p
        BY <1>1
      <4> QED BY <1>6, <4>1
    <3>3. \A x, y \in A : n - x = n - y => x = y
      BY <1>1
    <3>4. \A p \in B : \E m \in A : n - m = p
      BY <3>2
    <3> HIDE DEF A, B
    <3>5. f \in [A -> B]
      BY <3>1
    <3>6. f \in Injection(A, B)
      BY <3>3, <3>5 DEF Injection, IsInjective
    <3>7. f \in Surjection(A, B)
      BY <3>4, <3>5 DEF Surjection
    <3> QED BY <3>6, <3>7 DEF Bijection
  <2>2. IsFiniteSet(1 .. n) /\ IsFiniteSet(0 .. n - 1) /\ Cardinality(0 .. n - 1) = n
    <3>1. IsFiniteSet(1 .. n)
      BY <1>1, FS_Interval
    <3>2. IsFiniteSet(0 .. n - 1) /\ Cardinality(0 .. n - 1) = n
      BY <1>1, PlacesCounted
    <3> QED BY <3>1, <3>2
  <2>3. IsFiniteSet(A) /\ Cardinality(B) = Cardinality(A)
    <3>1. A \in SUBSET (1 .. n)
      OBVIOUS
    <3>2. IsFiniteSet(A)
      <4> HIDE DEF A
      <4> QED BY <2>2, <3>1, FS_Subset
    <3>3. ExistsBijection(A, B)
      <4> HIDE DEF A, B, f
      <4> QED BY <2>1 DEF ExistsBijection
    <3> HIDE DEF A, B
    <3> QED BY <3>2, <3>3, FS_Bijection
  <2>4. Kept(rawHistory) = (0 .. n - 1) \ B /\ (0 .. n - 1) \cap B = B
    BY <1>1 DEF Kept
  <2>5. Cardinality((0 .. n - 1) \ B) = Cardinality(0 .. n - 1) - Cardinality((0 .. n - 1) \cap B)
    <3> HIDE DEF B
    <3> QED BY <2>2, FS_Difference
  <2> HIDE DEF B
  <2> QED BY <2>2, <2>3, <2>4, <2>5
<1> QED BY <1>3, <1>5, <1>7, <1>8 DEF rev, n, list

\* A line read is recorded at its place.
LEMMA RecordedRaw ==
    ASSUME Types, RawRecorded, phase = "rank", i < Length0,
           NEW line \in Command \cup {NULL}, line = (IF Line = Timestamp THEN NULL ELSE Line),
           Recorded(line), historyList' = historyList,
           \/ i' = i + 1 /\ phase' = "rank"
           \/ i' = i /\ phase' = "readd"
    PROVE  RawRecorded' /\ rawHistory' \in [0 .. Length0 - 1 -> Command \cup {NULL}]
<1>1. /\ i \in Nat /\ Length0 \in Nat /\ Line = historyList[i + 1]
      /\ rawHistory \in [0 .. Length0 - 1 -> Command \cup {NULL}]
      /\ rawHistory' = [rawHistory EXCEPT ![Length0 - 1 - i] = line]
  BY LineType DEF Types, TypeOK, HistoryType, Recorded
<1>2. LinesRead' = i + 1 /\ Length0' = Length0 /\ historyList' = historyList
  BY SameHistory DEF LinesRead
<1>3. ASSUME NEW m \in 1 .. i + 1
      PROVE  rawHistory'[Length0 - m] = IF historyList[m] = Timestamp THEN NULL ELSE historyList[m]
  <2>1. Length0 - m \in 0 .. Length0 - 1 /\ (Length0 - m = Length0 - 1 - i <=> m = i + 1)
    BY <1>1
  <2>2. CASE m = i + 1
    BY <1>1, <2>1, <2>2
  <2>3. CASE m # i + 1
    <3>1. m \in 1 .. LinesRead
      BY <1>1, <2>3 DEF LinesRead
    <3>2. rawHistory[Length0 - m] = IF historyList[m] = Timestamp THEN NULL ELSE historyList[m]
      BY <3>1 DEF RawRecorded
    <3> QED BY <1>1, <2>1, <2>3, <3>2
  <2> QED BY <2>2, <2>3
<1>4. RawRecorded'
  BY <1>2, <1>3 DEF RawRecorded
<1> QED BY <1>1, <1>4

\* The raw view is made of rawHistory.
LEMMA CompactedRaw ==
    ASSUME Types, RawRecorded, TimestampsCounted, Compact
    PROVE  RawReady' /\ rawHistory' \in [0 .. Length0 - 1 -> Command \cup {NULL}]
<1> DEFINE rev == Reverse(historyList)
           kept == Without(rev, Timestamp)
           K == Kept(rawHistory)
           n == Length0
           S == Command \cup {Timestamp}
<1>1. /\ phase = "rank" /\ i = n /\ n \in Nat
      /\ rawHistory \in [0 .. n - 1 -> Command \cup {NULL}]
      /\ rawHistory' = IF rawTimestamps > 0 THEN Compacted(rawHistory) ELSE rawHistory
      /\ historyList' = historyList /\ rawTimestamps' = rawTimestamps
      /\ rawTimestamps \in Nat /\ historyList \in Seq(S)
  BY DEF Compact, Types, TypeOK, HistoryType
<1>2. /\ rev \in Seq(S) /\ Len(rev) = n
      /\ \A p \in 0 .. n - 1 :
            rawHistory[p] = IF rev[p + 1] = Timestamp THEN NULL ELSE rev[p + 1]
      /\ K = KeptPlaces(rev, Timestamp)
      /\ Cardinality(K) = n - rawTimestamps
  BY <1>1, Backwards DEF TimestampsCounted
<1>3. /\ kept = Reverse(Without(historyList, Timestamp)) /\ kept \in Seq(S)
      /\ rawCount' = n - rawTimestamps /\ Length0' = n
  BY <1>1, <1>2, WithoutReverse, WithoutProperties, SameHistory DEF rawCount
<1> HIDE DEF rev, kept, K, n, S
<1>4. /\ Len(kept) = Cardinality(K)
      /\ \A p \in K : kept[CountBelow(K, p) + 1] = rev[p + 1]
  BY <1>2, WithoutPlaces DEF kept
<1>5. /\ K \in SUBSET (0 .. n - 1) /\ \A p \in K : rawHistory[p] = rev[p + 1]
  <2>1. \A p \in K : p \in 0 .. n - 1 /\ rawHistory[p] # NULL
    BY <1>1 DEF K, Kept
  <2> QED BY <1>2, <2>1
<1>6. /\ Compacted(rawHistory) \in [0 .. n - 1 -> Command \cup {NULL}]
      /\ \A p \in K : Compacted(rawHistory)[CountBelow(K, p)] = rawHistory[p]
  <2>1. RawType
    BY <1>1 DEF RawType, n
  <2> QED BY <2>1, CompactedProperties DEF K, n
<1>7. ASSUME NEW m \in 1 .. n - rawTimestamps
      PROVE  rawHistory'[m - 1] = kept[m]
  <2>1. CASE rawTimestamps > 0
    <3>1. PICK p \in K : CountBelow(K, p) = m - 1
      <4>1. m - 1 \in Nat /\ m - 1 < Cardinality(K)
        BY <1>1, <1>2
      <4> QED BY <1>1, <1>5, <4>1, CountReaches
    <3>2. (m - 1) + 1 = m
      BY <1>1
    <3> QED BY <1>1, <1>4, <1>5, <1>6, <2>1, <3>1, <3>2
  <2>2. CASE ~(rawTimestamps > 0)
    <3>1. rawTimestamps = 0 /\ m \in 1 .. n /\ m - 1 \in 0 .. n - 1 /\ (m - 1) + 1 = m
      BY <1>1, <2>2
    <3>2. Timestamp \notin ToSet(rev)
      <4> SUFFICES ASSUME Timestamp \in ToSet(rev) PROVE FALSE
        OBVIOUS
      <4>1. Len(kept) < n
        BY <1>2, WithoutShorter DEF kept
      <4> QED BY <1>1, <1>2, <1>4, <3>1, <4>1
    <3>3. kept = rev
      BY <1>2, <3>2, WithoutShorter DEF kept
    <3>4. rev[m] # Timestamp
      <4>1. m \in DOMAIN rev
        BY <1>2, <3>1
      <4> QED BY <3>2, <4>1 DEF ToSet
    <3> QED BY <1>1, <1>2, <2>2, <3>1, <3>3, <3>4
  <2> QED BY <2>1, <2>2
<1>8. [m \in 1 .. n - rawTimestamps |-> rawHistory'[m - 1]] = kept
  <2>1. DOMAIN kept = 1 .. n - rawTimestamps
    BY <1>2, <1>3, <1>4
  <2>2. kept = [m \in 1 .. n - rawTimestamps |-> kept[m]]
    BY <1>3, <2>1
  <2> QED BY <1>7, <2>2
<1>9. RawReady'
  BY <1>1, <1>3, <1>8 DEF RawReady
<1> QED BY <1>1, <1>6, <1>9 DEF n

\* Every step keeps rawHistory as it should be,
LEMMA KeepsRaw ==
    ASSUME IInv, [Next]_vars
    PROVE  RawRecorded' /\ RawReady' /\ rawHistory' \in [0 .. Length0 - 1 -> Command \cup {NULL}]
<1> USE DEF IInv
<1>0. Types /\ RawRecorded /\ TimestampsCounted /\ RawReady
      /\ rawHistory \in [0 .. Length0 - 1 -> Command \cup {NULL}]
  BY DEF Types, TypeOK
<1>1. ASSUME phase = "rank", i < Length0, phase' \in {"rank", "readd"},
             NEW line \in Command \cup {NULL}, line = (IF Line = Timestamp THEN NULL ELSE Line),
             Recorded(line), historyList' = historyList,
             \/ i' = i + 1 /\ phase' = "rank"
             \/ i' = i /\ phase' = "readd"
      PROVE  RawRecorded' /\ RawReady' /\ rawHistory' \in [0 .. Length0 - 1 -> Command \cup {NULL}]
  <2>1. RawReady'
    BY <1>1 DEF RawReady
  <2> QED BY <1>0, <1>1, <2>1, RecordedRaw
<1>2. CASE ReadTimestamp
  BY <1>1, <1>2 DEF ReadTimestamp, Reading
<1>3. CASE ReadBlacklisted \/ ReadNew \/ ReadLost
  <2>1. Line \in Command
    BY <1>3, BlacklistAssumption DEF ReadBlacklisted, ReadNew, ReadLost, Types, TypeOK
  <2> QED BY <1>1, <1>3, <2>1, TimestampAssumption DEF ReadBlacklisted, ReadNew, ReadLost, Reading
<1>4. CASE ReadSeen
  <2>1. Line \in Command
    BY <1>4 DEF ReadSeen, Types, TypeOK
  <2> QED BY <1>1, <1>4, <2>1, TimestampAssumption DEF ReadSeen, Reading
<1>5. CASE ReAdd
  <2>1. LinesRead' = LinesRead /\ Length0' = Length0
    BY <1>5 DEF ReAdd, LinesRead, Length0
  <2> QED BY <1>0, <1>5, <2>1 DEF ReAdd, RawRecorded, RawReady
<1>6. CASE Compact
  <2>1. RawRecorded'
    BY <1>6 DEF Compact, RawRecorded
  <2> QED BY <1>0, <1>6, <2>1, CompactedRaw
<1>7. CASE Dump \/ UNCHANGED vars
  <2>1. /\ UNCHANGED <<historyList, i, rawHistory, rawTimestamps>>
        /\ phase' = phase \/ (phase = "dump" /\ phase' = "done")
    BY <1>7 DEF Dump, vars
  <2>2. Length0' = Length0 /\ rawCount' = rawCount /\ (phase' = phase => LinesRead' = LinesRead)
    BY <2>1 DEF Length0, rawCount, LinesRead
  <2>3. RawRecorded'
    BY <1>0, <2>1, <2>2 DEF RawRecorded
  <2>4. RawReady'
    BY <1>0, <2>1, <2>2 DEF RawReady
  <2> QED BY <1>0, <2>1, <2>3, <2>4
<1> QED BY <1>2, <1>3, <1>4, <1>5, <1>6, <1>7 DEF Next

-----------------------------------------------------------------------------
\* ... and the types.
LEMMA KeepsTypes ==
    ASSUME IInv, [Next]_vars
    PROVE  Types' /\ TimestampsCounted'
<1> USE DEF IInv
<1>1. /\ HistoryType /\ i \in Nat /\ i <= Length0 /\ Length0 \in Nat /\ historyList' = historyList
      /\ DOMAIN rankmap \subseteq Command \ Blacklist /\ rankmap \in [DOMAIN rankmap -> Nat]
      /\ rawTimestamps = Cardinality({m \in 1 .. i : historyList[m] = Timestamp})
  <2>1. historyList' = historyList
    BY DEF Next, ReadTimestamp, ReadBlacklisted, ReadNew, ReadSeen, ReAdd, ReadLost, Compact, Dump, vars
  <2> QED BY <2>1 DEF Types, TypeOK, HistoryType, TimestampsCounted
<1>2. HistoryType' /\ Length0' = Length0
  BY <1>1, SameHistory
<1>3. DOMAIN rankmap' \subseteq Command \ Blacklist /\ rankmap' \in [DOMAIN rankmap' -> Nat]
  <2>1. CASE rankmap' = rankmap
    BY <1>1, <2>1
  <2>2. CASE Filing(Line, RankUpTo(Line, i + 1))
    BY <1>1, <2>2 DEF Filing
  <2> QED BY <2>1, <2>2, StepKinds DEF Passing, StoreKept, Cutting
<1>4. /\ i' \in 0 .. Length0
      /\ phase' \in {"rank", "readd", "dump", "done"}
      /\ \/ i' = i /\ rawTimestamps' = rawTimestamps
         \/ i < Length0 /\ i' = i + 1 /\ rawTimestamps' = IF Line = Timestamp THEN rawTimestamps + 1 ELSE rawTimestamps
  <2>1. CASE ReadTimestamp
    BY <1>1, <2>1 DEF ReadTimestamp, Reading
  <2>2. CASE ReadBlacklisted
    BY <1>1, <2>2, TimestampAssumption, BlacklistAssumption DEF ReadBlacklisted, Reading
  <2>3. CASE ReadNew
    BY <1>1, <2>3, TimestampAssumption DEF ReadNew, Reading
  <2>4. CASE ReadSeen
    BY <1>1, <2>4 DEF ReadSeen
  <2>5. CASE ReAdd
    <3>1. i < Length0 /\ Line \in DOMAIN rankmap
      BY <2>5 DEF ReAdd, Pending
    <3> QED BY <1>1, <2>5, <3>1, TimestampAssumption DEF ReAdd
  <2>6. CASE ReadLost
    BY <1>1, <2>6, TimestampAssumption DEF ReadLost, Reading
  <2>7. CASE Compact
    BY <1>1, <2>7 DEF Compact
  <2>8. CASE Dump
    BY <1>1, <2>8 DEF Dump
  <2>9. CASE UNCHANGED vars
    BY <1>1, <2>9 DEF vars, Types, TypeOK
  <2> QED BY <2>1, <2>2, <2>3, <2>4, <2>5, <2>6, <2>7, <2>8, <2>9 DEF Next
<1>5. TimestampsCounted' /\ rawTimestamps' \in 0 .. Length0
  <2> DEFINE A(n) == {m \in 1 .. n : historyList[m] = Timestamp}
  <2>1. ASSUME NEW n \in 0 .. Length0
        PROVE  IsFiniteSet(A(n)) /\ Cardinality(A(n)) \in Nat /\ Cardinality(A(n)) <= n
    <3>1. IsFiniteSet(1 .. n) /\ Cardinality(1 .. n) = IF 1 > n THEN 0 ELSE n - 1 + 1
      BY FS_Interval
    <3>2. A(n) \in SUBSET (1 .. n) /\ Cardinality(1 .. n) = n
      BY <3>1
    <3> HIDE DEF A
    <3> QED BY <3>1, <3>2, FS_Subset, FS_CardinalityType
  <2>2. rawTimestamps' = Cardinality(A(i'))
    <3>1. CASE i' = i /\ rawTimestamps' = rawTimestamps
      BY <1>1, <3>1
    <3>2. CASE i < Length0 /\ i' = i + 1
               /\ rawTimestamps' = IF Line = Timestamp THEN rawTimestamps + 1 ELSE rawTimestamps
      <4>1. A(i + 1) = IF Line = Timestamp THEN A(i) \cup {i + 1} ELSE A(i)
        <5>1. 1 .. i + 1 = (1 .. i) \cup {i + 1} /\ Line = historyList[i + 1]
          BY <1>1, <3>2, LineType
        <5> QED BY <5>1
      <4>2. i + 1 \notin A(i)
        BY <1>1
      <4>3. IsFiniteSet(A(i)) /\ rawTimestamps = Cardinality(A(i))
        BY <1>1, <2>1
      <4> HIDE DEF A
      <4>4. Cardinality(A(i) \cup {i + 1}) = rawTimestamps + 1
        BY <4>2, <4>3, FS_AddElement
      <4> QED BY <3>2, <4>1, <4>3, <4>4
    <3> QED BY <1>4, <3>1, <3>2
  <2>3. rawTimestamps' \in 0 .. Length0
    <3>1. i' \in 0 .. Length0
      BY <1>4
    <3>2. Cardinality(A(i')) \in Nat /\ Cardinality(A(i')) <= i'
      <4> HIDE DEF A
      <4> QED BY <2>1, <3>1
    <3> HIDE DEF A
    <3> QED BY <1>1, <2>2, <3>1, <3>2
  <2> QED BY <1>1, <2>2, <2>3 DEF TimestampsCounted
<1>6. rawHistory' \in [0 .. Length0 - 1 -> Command \cup {NULL}]
  BY KeepsRaw
<1>7. \A c \in DOMAIN rankmap' : rankmap'[c] \in Nat
  BY <1>3
<1> HIDE DEF IInv
<1> QED BY <1>2, <1>3, <1>4, <1>5, <1>6, <1>7 DEF Types, TypeOK

\* Every step keeps the invariant,
LEMMA NextIInv ==
    ASSUME IInv, [Next]_vars
    PROVE  IInv'
<1>1. P!IInv' /\ P!DumpFollowsChains'
  BY SorterKept
<1>2. MetAreRanked' /\ RanksAddUp' /\ FiledAsRanked' /\ NewestFirst' /\ Pending' /\ FaultOnlyAtLimit'
  BY StepKinds, KeepsRanks, KeepsFiled, KeepsOrder, KeepsFault
<1>3. Ended' /\ RawRecorded' /\ RawReady' /\ Types' /\ TimestampsCounted'
  BY KeepsEnd, KeepsRaw, KeepsTypes
<1> QED BY <1>1, <1>2, <1>3 DEF IInv

\* ... which holds at the start.
LEMMA InitIInv ==
    ASSUME Init
    PROVE  IInv
<1>1. /\ historyList \in Seq(Command \cup {Timestamp}) /\ Length0 \in 1 .. MaxLength /\ i = 0
      /\ rankmap = [c \in {} |-> 0] /\ rawHistory = [n \in 0 .. Length0 - 1 |-> NULL]
      /\ rawTimestamps = 0 /\ phase = "rank"
      /\ P!Init
  <2>1. historyList \in BoundedSeq(Command \cup {Timestamp}, MaxLength) \ {<<>>}
    BY DEF Init
  <2>2. PICK m \in 0 .. MaxLength : historyList \in [1 .. m -> Command \cup {Timestamp}]
    BY <2>1 DEF BoundedSeq, SeqOf
  <2>3. historyList \in Seq(Command \cup {Timestamp}) /\ Len(historyList) = m /\ m \in Nat
    BY <2>2, MaxLengthAssumption
  <2>4. m # 0
    BY <2>1, <2>3
  <2>5. P!Init
    BY SameInit DEF Init
  <2> QED BY <2>2, <2>3, <2>4, <2>5, MaxLengthAssumption DEF Init, Length0
<1>2. P!IInv /\ P!DumpFollowsChains
  <2>1. result = <<>>
    BY <1>1 DEF P!Init
  <2> QED BY <1>1, <2>1, SorterConstants, P!InitIInv, P!InitFollowsChains
<1>3. P!Filed = {} /\ fault = "none"
  <2>1. \A j \in Nat : P!Top(j) \in P!Tops => P!Chain(j) = <<>>
    BY <1>1, SorterConstants, P!IndexesOfKey DEF P!Init, P!Chain
  <2>2. key \in [Command -> Nat]
    BY <1>1 DEF P!Init
  <2> QED BY <1>1, <2>1, <2>2 DEF P!Filed, P!ToSet, P!Init
<1>4. DOMAIN rankmap = {} /\ rankmap \in [DOMAIN rankmap -> Nat]
  BY <1>1
<1>5. Types
  BY <1>1, <1>4 DEF Types, TypeOK, HistoryType
<1>6. Pending /\ Ended /\ RawReady /\ FaultOnlyAtLimit
  BY <1>1, <1>3 DEF Pending, Ended, RawReady, FaultOnlyAtLimit
<1>7. MetAreRanked
  BY <1>1, <1>4 DEF MetAreRanked, Met
<1>8. RanksAddUp /\ FiledAsRanked /\ NewestFirst
  BY <1>3, <1>4 DEF RanksAddUp, FiledAsRanked, NewestFirst
<1>9. RawRecorded
  BY <1>1 DEF RawRecorded, LinesRead
<1>10. TimestampsCounted
  <2>1. {m \in 1 .. i : historyList[m] = Timestamp} = {}
    BY <1>1
  <2> QED BY <1>1, <2>1, FS_EmptySet DEF TimestampsCounted
<1> QED BY <1>2, <1>5, <1>6, <1>7, <1>8, <1>9, <1>10 DEF IInv

-----------------------------------------------------------------------------
\* The invariant holds in every state of prioritized_history_create.
THEOREM Invariant == Spec => []IInv
<1>1. Init => IInv
  BY InitIInv
<1>2. IInv /\ [Next]_vars => IInv'
  BY NextIInv
<1> QED BY <1>1, <1>2, PTL DEF Spec

\* The types hold.  No rank is negative, which the conversion in history_ranking_function would
\* turn into a huge one.
THEOREM TypeCorrect == Spec => []TypeOK
<1>1. IInv => TypeOK
  BY DEF IInv, Types
<1> QED BY <1>1, Invariant, PTL

\* Only a rank equal to the limit takes the sorter out of topDigits, and no chain is walked
\* through a NULL.
THEOREM OnlyTheLimitFails == Spec => []FaultOnlyAtLimit
<1>1. IInv => FaultOnlyAtLimit
  BY DEF IInv
<1> QED BY <1>1, Invariant, PTL

\* Between two lines rankmap and the sorter agree on every rank up to the limit.
THEOREM FiledUnderTheirRank == Spec => []FiledUnderRank
<1>1. IInv => FiledUnderRank
  <2> SUFFICES ASSUME IInv, phase = "rank", fault = "none", NEW c \in DOMAIN rankmap,
                      rankmap[c] <= KeyLimit
               PROVE  c \in Sorter!Filed /\ key[c] = rankmap[c]
    BY DEF FiledUnderRank
  <2>1. rankmap[c] \in Nat /\ rankmap[c] # KeyLimit
    BY DEF IInv, Types, TypeOK, FiledAsRanked
  <2>2. c \in P!Filed
    BY <2>1, LimitAssumption DEF IInv, FiledAsRanked, Fits
  <2>3. key[c] = rankmap[c]
    BY <2>1, <2>2, LimitAssumption DEF IInv, FiledAsRanked
  <2> QED BY <2>2, <2>3, SameOperators
<1> QED BY <1>1, Invariant, PTL

\* The raw view is the history backwards without its timestamps.
THEOREM RawViewIsHistory == Spec => []RawIsHistoryReversed
<1>1. IInv => RawIsHistoryReversed
  BY DEF IInv, RawReady, RawIsHistoryReversed
<1> QED BY <1>1, Invariant, PTL

\* The ranking view has every command once, by the rank its occurrences add up to,
LEMMA IndexComplete ==
    ASSUME IInv, phase = "done"
    PROVE  /\ RankedComplete
           /\ \A n \in DOMAIN items : items[n] \in P!Filed
           /\ \A c \in P!Filed : /\ RankOf(c) < KeyLimit => rankmap[c] = RankOf(c) /\ key[c] = RankOf(c)
                                 /\ c \in Command /\ RankOf(c) \in Nat
                                 /\ Occurrences(c) # {}
<1> USE DEF IInv
<1>1. /\ fault = "none" /\ i = Length0 /\ pc = "done" /\ KeyLimit \in Nat /\ Length0 \in 1 .. MaxLength
      /\ HistoryType /\ Length0 \in Nat
  BY LimitAssumption, MaxLengthAssumption DEF Ended, Types, HistoryType
<1>2. IsInjective(items) /\ ToSet(items) = P!Filed
  BY <1>1 DEF P!IInv, P!DumpProgress, P!Copied, P!IsInjective, IsInjective, P!ToSet, ToSet, items
<1>3. DOMAIN rankmap = Ranked /\ Ranked \subseteq Command
  <2>1. DOMAIN historyList = 1 .. Length0
    BY <1>1 DEF HistoryType, Length0
  <2> QED BY <1>1, <2>1 DEF MetAreRanked, Met, Ranked, ToSet
<1>4. ASSUME NEW c \in DOMAIN rankmap
      PROVE  /\ RankOf(c) \in Nat /\ rankmap[c] \in Nat
             /\ rankmap[c] # KeyLimit
             /\ IF rankmap[c] > KeyLimit THEN RankOf(c) > KeyLimit ELSE rankmap[c] = RankOf(c)
             /\ c \in P!Filed <=> Fits(rankmap[c])
  <2>1. RankOf(c) = RankUpTo(c, i) /\ RankOf(c) \in Nat
    BY <1>1, <1>3, RankUpToProperties
  <2>2. rankmap[c] \in Nat
    BY DEF Types, TypeOK
  <2> QED BY <1>1, <2>1, <2>2 DEF RanksAddUp, FiledAsRanked
<1>5. P!Filed = {c \in Ranked : RankOf(c) <= KeyLimit \/ optionBigKeys = "floor"}
  <2>1. P!Filed \subseteq Ranked
    BY <1>1, <1>3 DEF FiledAsRanked
  <2>2. ASSUME NEW c \in Ranked
        PROVE  c \in P!Filed <=> RankOf(c) <= KeyLimit \/ optionBigKeys = "floor"
    BY <1>1, <1>3, <1>4 DEF Fits
  <2> QED BY <2>1, <2>2
<1>6. RankedComplete
  BY <1>2, <1>5 DEF RankedComplete
<1>7. \A n \in DOMAIN items : items[n] \in P!Filed
  BY <1>2 DEF ToSet
<1>8. ASSUME NEW c \in P!Filed
      PROVE  /\ RankOf(c) < KeyLimit => rankmap[c] = RankOf(c) /\ key[c] = RankOf(c)
             /\ c \in Command /\ RankOf(c) \in Nat
             /\ Occurrences(c) # {}
  <2>1. c \in DOMAIN rankmap /\ c \in Command
        /\ key[c] = IF rankmap[c] > KeyLimit THEN KeyLimit - 1 ELSE rankmap[c]
    BY <1>1, <1>3 DEF FiledAsRanked
  <2>2. RankOf(c) \in Nat /\ (RankOf(c) < KeyLimit => rankmap[c] = RankOf(c) /\ key[c] = RankOf(c))
    BY <1>1, <1>4, <2>1
  <2>3. Occurrences(c) # {}
    <3>1. PICK m \in 1 .. Length0 : historyList[m] = c
      BY <1>1, <2>1 DEF MetAreRanked, Met
    <3>2. m - 1 \in 0 .. Length0 - 1 /\ (m - 1) + 1 = m
      BY <1>1
    <3>3. m - 1 \in Occurrences(c)
      BY <3>1, <3>2 DEF Occurrences
    <3> QED BY <3>3
  <2> QED BY <2>1, <2>2, <2>3
<1> QED BY <1>6, <1>7, <1>8

\* ... and in the order of the ranks, of equal ranks the one used last first.
LEMMA IndexOrdered ==
    ASSUME IInv, phase = "done"
    PROVE  RankedOrder
<1>1. /\ i = Length0 /\ fault = "none" /\ Length0 \in Nat /\ Length0 - 1 \in Nat
      /\ P!DumpOrdered /\ P!DumpFollowsChains /\ NewestFirst
  <2>1. Length0 \in 1 .. MaxLength /\ MaxLength \in Nat
    BY MaxLengthAssumption DEF IInv, Types, HistoryType
  <2> QED BY <2>1 DEF IInv, Ended, P!IInv
<1> SUFFICES ASSUME NEW m \in DOMAIN items, NEW n \in DOMAIN items, m < n,
                    RankOf(items[m]) < KeyLimit, RankOf(items[n]) < KeyLimit
             PROVE  \/ RankOf(items[m]) > RankOf(items[n])
                    \/ /\ RankOf(items[m]) = RankOf(items[n])
                       /\ Max(Occurrences(items[m])) > Max(Occurrences(items[n]))
  BY DEF RankedOrder
<1> DEFINE x == items[m]
           y == items[n]
<1>2. /\ x \in P!Filed /\ y \in P!Filed
      /\ rankmap[x] = RankOf(x) /\ key[x] = RankOf(x) /\ rankmap[y] = RankOf(y) /\ key[y] = RankOf(y)
      /\ RankOf(x) \in Nat /\ RankOf(y) \in Nat
      /\ Occurrences(x) # {} /\ Occurrences(y) # {}
  BY IndexComplete
<1>3. key[x] >= key[y]
  BY <1>1 DEF P!DumpOrdered, items
<1>4. ASSUME key[x] = key[y] PROVE Max(Occurrences(x)) > Max(Occurrences(y))
  <2>1. P!Ahead(x, y, P!Chain(key[x]))
    BY <1>1, <1>4 DEF P!DumpFollowsChains, items
  <2> HIDE DEF x, y
  <2>2. UsedAfter(x, y)
    BY <1>1, <1>2, <1>4, <2>1 DEF NewestFirst, x, y
  <2>3. PICK p \in 1 .. Length0 : historyList[p] = x /\ \A q \in 1 .. Length0 : historyList[q] = y => q < p
    BY <1>1, <2>2 DEF UsedAfter
  <2>4. p - 1 \in Occurrences(x)
    <3>1. p - 1 \in 0 .. Length0 - 1 /\ (p - 1) + 1 = p
      BY <1>1
    <3> QED BY <2>3, <3>1 DEF Occurrences
  <2>5. \A q \in Occurrences(y) : q < p - 1
    <3> SUFFICES ASSUME NEW q \in 0 .. Length0 - 1, historyList[q + 1] = y PROVE q < p - 1
      BY DEF Occurrences
    <3>1. q + 1 \in 1 .. Length0
      BY <1>1
    <3>2. q + 1 < p
      BY <2>3, <3>1
    <3> QED BY <3>2
  <2>6. \A c : Occurrences(c) \in SUBSET (0 .. Length0 - 1)
    BY DEF Occurrences
  <2>7. Max(Occurrences(y)) \in Occurrences(y) /\ Max(Occurrences(x)) \in Occurrences(x)
        /\ p - 1 <= Max(Occurrences(x))
    BY <1>1, <1>2, <2>4, <2>6, MaxOfPlaces
  <2>8. Max(Occurrences(y)) < p - 1
    BY <2>5, <2>7
  <2>9. Max(Occurrences(x)) \in Int /\ Max(Occurrences(y)) \in Int
    BY <1>1, <2>6, <2>7
  <2> QED BY <1>1, <2>7, <2>8, <2>9
<1> QED BY <1>2, <1>3, <1>4

\* The ranking view is what the metrics say, whatever the order of the lines.
THEOREM RankingIsCorrect == Spec => []RankingCorrect
<1>1. IInv => RankingCorrect
  BY IndexComplete, IndexOrdered DEF RankingCorrect
<1> QED BY <1>1, Invariant, PTL
=============================================================================
