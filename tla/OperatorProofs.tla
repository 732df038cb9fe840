----------------------------- MODULE OperatorProofs -----------------------------
(***************************************************************************)
(* Lemmas about the operators the models are built from: folds over        *)
(* sequences, the lists of favorites and of the history's views, and the   *)
(* selection cursor.                                                       *)
(*                                                                         *)
(* The provers cannot instantiate the library's theorems of induction,     *)
(* which take the predicate as a parameter.  Here a predicate is a set,    *)
(* and induction is that the set of the counterexamples has a least        *)
(* element.  A FoldLeft is a recursive function, that is, a CHOOSE: what   *)
(* it computes is known once there is a function that satisfies the        *)
(* recursion (FoldExists).                                                 *)
(***************************************************************************)
EXTENDS FavoriteItems, HistoryItems, SelectionCursor, WellFoundedInduction, FiniteSetTheorems,
        SequenceTheorems, TLAPS

-----------------------------------------------------------------------------
\* A set that has 0 and with every number its successor has all of them.
LEMMA NatSetInduction ==
    ASSUME NEW S, 0 \in S, \A n \in Nat : n \in S => n + 1 \in S
    PROVE  Nat \subseteq S
<1> DEFINE T == {0 .. n : n \in Nat \ S}
<1> SUFFICES ASSUME NEW bad \in Nat, bad \notin S PROVE FALSE
  OBVIOUS
<1>1. T # {} /\ T \subseteq FiniteSubsetsOf(Nat)
  <2>1. \A n \in Nat : 0 .. n \in SUBSET Nat /\ IsFiniteSet(0 .. n)
    BY FS_Interval
  <2> QED BY <2>1 DEF FiniteSubsetsOf
<1>2. PICK x \in T : \A y \in T : <<y, x>> \notin StrictSubsetOrdering(Nat)
  <2> HIDE DEF T
  <2> QED BY <1>1, FS_StrictSubsetOrderingWellFounded, WFMin
<1>3. PICK n \in Nat \ S : x = 0 .. n
  OBVIOUS
<1>4. n - 1 \in Nat \ S
  OBVIOUS
<1>5. 0 .. n - 1 \in T
  BY <1>4
<1>6. 0 .. n - 1 \subseteq 0 .. n /\ 0 .. n - 1 # 0 .. n /\ 0 .. n \subseteq Nat
  OBVIOUS
<1> QED BY <1>2, <1>3, <1>5, <1>6 DEF StrictSubsetOrdering

\* Which number of a set of positions is its greatest, which its least.
LEMMA MaxIsTop ==
    ASSUME NEW k \in Nat, NEW s \in SUBSET (1 .. k), k \in s
    PROVE  Max(s) = k
<1>1. \A y \in s : k >= y
  OBVIOUS
<1>2. \A x \in s : (\A y \in s : x >= y) => x = k
  BY <1>1
<1> QED BY <1>1, <1>2 DEF Max

\* A step of a fold over n places, and what it is for a function to be that fold:
\* its value for a set of places comes from the value for all but the last.
Steps(n, T) == [T \X (1 .. n) -> T]
IsFold(fold, n, T, base, step) ==
    /\ fold \in [SUBSET (1 .. n) -> T]
    /\ \A s \in SUBSET (1 .. n) :
          fold[s] = IF s = {} THEN base ELSE step[<<fold[s \ {Max(s)}], Max(s)>>]

\* There is a fold for every step, whatever the step computes.
LEMMA FoldExists ==
    ASSUME NEW n \in Nat, NEW T, NEW base \in T, NEW step \in Steps(n, T)
    PROVE  \E fold : IsFold(fold, n, T, base, step)
<1>0. step \in [T \X (1 .. n) -> T]
  BY DEF Steps
<1> DEFINE Is(fold, k) ==
              \A s \in SUBSET (1 .. k) :
                 fold[s] = IF s = {} THEN base ELSE step[<<fold[s \ {Max(s)}], Max(s)>>]
           Exists(k) == \E fold \in [SUBSET (1 .. k) -> T] : Is(fold, k)
           S == {k \in Nat : k <= n => Exists(k)}
<1>1. Exists(0)
  <2> DEFINE fold == [s \in SUBSET (1 .. 0) |-> base]
  <2>1. \A s \in SUBSET (1 .. 0) : s = {}
    OBVIOUS
  <2>2. fold \in [SUBSET (1 .. 0) -> T]
    OBVIOUS
  <2>3. Is(fold, 0)
    BY <2>1
  <2> HIDE DEF fold, Is
  <2> QED BY <2>2, <2>3
<1>2. ASSUME NEW k \in Nat, k + 1 <= n, Exists(k) PROVE Exists(k + 1)
  <2>1. PICK fold \in [SUBSET (1 .. k) -> T] : Is(fold, k)
    <3> HIDE DEF Is
    <3> QED BY <1>2
  <2> DEFINE more == [s \in SUBSET (1 .. k + 1) |->
                        IF k + 1 \in s THEN step[<<fold[s \ {k + 1}], k + 1>>] ELSE fold[s]]
  <2>2. \A s \in SUBSET (1 .. k + 1) :
           /\ s \ {k + 1} \in SUBSET (1 .. k)
           /\ k + 1 \notin s => s \in SUBSET (1 .. k)
    OBVIOUS
  <2>3. more \in [SUBSET (1 .. k + 1) -> T]
    <3>1. ASSUME NEW s \in SUBSET (1 .. k + 1)
          PROVE  (IF k + 1 \in s THEN step[<<fold[s \ {k + 1}], k + 1>>] ELSE fold[s]) \in T
      <4>1. CASE k + 1 \in s
        <5>1. fold[s \ {k + 1}] \in T /\ k + 1 \in 1 .. n
          BY <1>2, <2>2
        <5> QED BY <1>0, <4>1, <5>1
      <4>2. CASE k + 1 \notin s
        BY <4>2, <2>2
      <4> QED BY <4>1, <4>2
    <3> QED BY <3>1
  <2>4. ASSUME NEW s \in SUBSET (1 .. k + 1), k + 1 \in s
        PROVE  s # {} /\ more[s] = step[<<more[s \ {Max(s)}], Max(s)>>]
    <3>1. Max(s) = k + 1
      BY <2>4, MaxIsTop
    <3>2. s \ {k + 1} \in SUBSET (1 .. k + 1) /\ more[s \ {k + 1}] = fold[s \ {k + 1}]
      OBVIOUS
    <3>3. more[s] = step[<<fold[s \ {k + 1}], k + 1>>]
      BY <2>4
    <3> HIDE DEF more
    <3> QED BY <2>4, <3>1, <3>2, <3>3
  <2>5. ASSUME NEW s \in SUBSET (1 .. k + 1), k + 1 \notin s
        PROVE  more[s] = IF s = {} THEN base ELSE step[<<more[s \ {Max(s)}], Max(s)>>]
    <3>1. s \in SUBSET (1 .. k) /\ s \ {Max(s)} \in SUBSET (1 .. k + 1) /\ k + 1 \notin s \ {Max(s)}
      BY <2>2, <2>5
    <3>2. more[s] = fold[s] /\ more[s \ {Max(s)}] = fold[s \ {Max(s)}]
      BY <2>5, <3>1
    <3> HIDE DEF more
    <3> QED BY <2>1, <3>1, <3>2
  <2>6. Is(more, k + 1)
    <3> HIDE DEF more
    <3> QED BY <2>4, <2>5
  <2> HIDE DEF more, Is
  <2> QED BY <2>3, <2>6
<1>3. n \in S
  <2> HIDE DEF Exists
  <2>1. 0 \in S /\ \A k \in Nat : k \in S => k + 1 \in S
    BY <1>1, <1>2
  <2> HIDE DEF S
  <2> QED BY <2>1, NatSetInduction
<1>4. Exists(n)
  <2> HIDE DEF Exists
  <2> QED BY <1>3
<1> QED BY <1>4 DEF IsFold

\* ... and of a set that is not empty it is a member, and none is larger.
LEMMA MaxIsInside ==
    ASSUME NEW n \in Nat, NEW s \in SUBSET (1 .. n), s # {}
    PROVE  Max(s) \in s /\ \A y \in s : Max(s) >= y
<1> DEFINE Bounded(k) == \A r \in SUBSET (1 .. k) : r # {} => \E x \in r : \A y \in r : x >= y
           S == {k \in Nat : Bounded(k)}
<1>1. Bounded(0)
  <2>1. \A r \in SUBSET (1 .. 0) : r = {}
    OBVIOUS
  <2> QED BY <2>1
<1>2. ASSUME NEW k \in Nat, Bounded(k) PROVE Bounded(k + 1)
  <2> SUFFICES ASSUME NEW r \in SUBSET (1 .. k + 1), r # {}
               PROVE  \E x \in r : \A y \in r : x >= y
    OBVIOUS
  <2>1. CASE k + 1 \in r
    <3>1. \A y \in r : k + 1 >= y
      OBVIOUS
    <3> QED BY <2>1, <3>1
  <2>2. CASE k + 1 \notin r
    <3>1. r \in SUBSET (1 .. k)
      BY <2>2
    <3> QED BY <1>2, <3>1
  <2> QED BY <2>1, <2>2
<1>3. n \in S
  <2> HIDE DEF Bounded
  <2>1. 0 \in S /\ \A k \in Nat : k \in S => k + 1 \in S
    BY <1>1, <1>2
  <2> HIDE DEF S
  <2> QED BY <2>1, NatSetInduction
<1>4. \E x \in s : \A y \in s : x >= y
  BY <1>3
<1> QED BY <1>4 DEF Max

\* A fold over a sequence is taken from one initial segment to the next.
LEMMA InitialSegments ==
    ASSUME NEW n \in Nat, NEW k \in 1 .. n
    PROVE  /\ 1 .. k \in SUBSET (1 .. n) /\ 1 .. k # {}
           /\ Max(1 .. k) = k
           /\ (1 .. k) \ {k} = 1 .. k - 1
<1>1. k \in Nat /\ 1 .. k \in SUBSET (1 .. k) /\ k \in 1 .. k
  OBVIOUS
<1>2. Max(1 .. k) = k
  BY <1>1, MaxIsTop
<1> QED BY <1>2

\* What holds of the first value of a fold, and is kept by every step, holds of all.
LEMMA FoldInduction ==
    ASSUME NEW n \in Nat, NEW F, NEW T, F[0] \in T,
           \A k \in 1 .. n : F[k - 1] \in T => F[k] \in T
    PROVE  \A k \in 0 .. n : F[k] \in T
<1> DEFINE S == {k \in Nat : k <= n => F[k] \in T}
<1>1. 0 \in S
  OBVIOUS
<1>2. ASSUME NEW k \in Nat, k \in S PROVE k + 1 \in S
  <2>1. k + 1 <= n => F[k] \in T /\ k + 1 \in 1 .. n /\ (k + 1) - 1 = k
    BY <1>2
  <2> QED BY <2>1
<1>3. Nat \subseteq S
  <2> HIDE DEF S
  <2> QED BY <1>1, <1>2, NatSetInduction
<1> QED BY <1>3

\* Two folds that start alike and take the same steps end alike.
LEMMA SameSteps ==
    ASSUME NEW n \in Nat, NEW F, NEW E, F[0] = E[0],
           \A k \in 1 .. n : F[k - 1] = E[k - 1] => F[k] = E[k]
    PROVE  F[n] = E[n]
<1> DEFINE S == {k \in Nat : k <= n => F[k] = E[k]}
<1>1. 0 \in S
  OBVIOUS
<1>2. ASSUME NEW k \in Nat, k \in S PROVE k + 1 \in S
  <2>1. k + 1 <= n => F[k] = E[k] /\ k + 1 \in 1 .. n /\ (k + 1) - 1 = k
    BY <1>2
  <2> QED BY <2>1
<1>3. Nat \subseteq S
  <2> HIDE DEF S
  <2> QED BY <1>1, <1>2, NatSetInduction
<1> QED BY <1>3

\* What it is for F to have what history_mgmt_remove_from_raw has kept of the list,
\* place after place ...
IsWithout(F, S, list, cmd) ==
    /\ F \in [0 .. Len(list) -> Seq(S)]
    /\ F[0] = <<>>
    /\ \A k \in 1 .. Len(list) :
          F[k] = IF list[k] # cmd THEN Append(F[k - 1], list[k]) ELSE F[k - 1]
    /\ Without(list, cmd) = F[Len(list)]

\* ... and there is such an F.
LEMMA WithoutSteps ==
    ASSUME NEW S, NEW list \in Seq(S), NEW cmd
    PROVE  \E F : IsWithout(F, S, list, cmd)
<1> DEFINE n == Len(list)
           T == Seq(S)
           op(kept, m) == IF list[m] # cmd THEN Append(kept, list[m]) ELSE kept
           step == [a \in T \X (1 .. n) |-> op(a[1], a[2])]
<1>1. n \in Nat /\ DOMAIN list = 1 .. n /\ \A m \in 1 .. n : list[m] \in S
  OBVIOUS
<1>2. <<>> \in T /\ step \in [T \X (1 .. n) -> T]
  OBVIOUS
<1>3. PICK g \in [SUBSET (1 .. n) -> T] :
          \A s \in SUBSET (1 .. n) :
             g[s] = IF s = {} THEN <<>> ELSE step[<<g[s \ {Max(s)}], Max(s)>>]
  <2>1. n \in Nat /\ <<>> \in T /\ step \in Steps(n, T)
    BY <1>1, <1>2 DEF Steps
  <2>2. \E g : IsFold(g, n, T, <<>>, step)
    <3> HIDE DEF step, n, T
    <3> QED BY <2>1, FoldExists
  <2> QED BY <2>2 DEF IsFold
<1> DEFINE Is(h) == h = [s \in SUBSET (1 .. n) |-> IF s = {} THEN <<>> ELSE op(h[s \ {Max(s)}], Max(s))]
           iter == CHOOSE h : Is(h)
<1>4. Is(g)
  <2>1. ASSUME NEW s \in SUBSET (1 .. n), s # {}
        PROVE  step[<<g[s \ {Max(s)}], Max(s)>>] = op(g[s \ {Max(s)}], Max(s))
    <3>1. Max(s) \in 1 .. n /\ g[s \ {Max(s)}] \in T
      BY <1>1, <2>1, MaxIsInside
    <3> QED BY <3>1
  <2> HIDE DEF step, op
  <2> QED BY <1>3, <2>1
<1>5. Is(iter)
  <2> HIDE DEF Is
  <2> QED BY <1>4
<1>6. Without(list, cmd) = iter[1 .. n]
  BY <1>1 DEF Without, FoldLeft, MapThenFoldSet
<1> DEFINE F == [k \in 0 .. n |-> iter[1 .. k]]
<1> HIDE DEF iter
<1>7. F[0] = <<>>
  BY <1>1, <1>5
<1>8. ASSUME NEW k \in 1 .. n PROVE F[k] = op(F[k - 1], k)
  <2>1. /\ 1 .. k \in SUBSET (1 .. n) /\ 1 .. k # {}
        /\ (1 .. k) \ {Max(1 .. k)} = 1 .. k - 1 /\ Max(1 .. k) = k
    BY <1>1, InitialSegments
  <2>2. iter[1 .. k] = op(iter[(1 .. k) \ {Max(1 .. k)}], Max(1 .. k))
    <3> HIDE DEF op
    <3> QED BY <1>5, <2>1
  <2>3. iter[1 .. k] = op(iter[1 .. k - 1], k)
    <3> HIDE DEF op
    <3> QED BY <2>1, <2>2
  <2> QED BY <2>3
<1>9. \A k \in 0 .. n : F[k] \in T
  <2> HIDE DEF F
  <2>1. ASSUME NEW k \in 1 .. n, F[k - 1] \in T PROVE F[k] \in T
    <3>1. F[k] = op(F[k - 1], k) /\ list[k] \in S
      BY <1>1, <1>8
    <3> QED BY <2>1, <3>1
  <2> HIDE DEF n, T
  <2> QED BY <1>1, <1>2, <1>7, <2>1, FoldInduction
<1>10. F \in [0 .. n -> T] /\ Without(list, cmd) = F[n]
  BY <1>1, <1>6, <1>9
<1> HIDE DEF F
<1> QED BY <1>7, <1>8, <1>10 DEF IsWithout

\* A set of numbers has a least one, which Min is.
LEMMA MinIsLeast ==
    ASSUME NEW n \in Nat, NEW s \in SUBSET (1 .. n), s # {}
    PROVE  Min(s) \in s /\ \A y \in s : Min(s) <= y
<1> DEFINE Bounded(k) == \A r \in SUBSET (1 .. k) : r # {} => \E x \in r : \A y \in r : x <= y
           S == {k \in Nat : Bounded(k)}
<1>1. Bounded(0)
  <2>1. \A r \in SUBSET (1 .. 0) : r = {}
    OBVIOUS
  <2> QED BY <2>1
<1>2. ASSUME NEW k \in Nat, Bounded(k) PROVE Bounded(k + 1)
  <2> SUFFICES ASSUME NEW r \in SUBSET (1 .. k + 1), r # {}
               PROVE  \E x \in r : \A y \in r : x <= y
    OBVIOUS
  <2> DEFINE below == r \ {k + 1}
  <2>1. below \in SUBSET (1 .. k)
    OBVIOUS
  <2>2. CASE below = {}
    <3>1. r = {k + 1}
      BY <2>2
    <3> QED BY <3>1
  <2>3. CASE below # {}
    <3>1. PICK x \in below : \A y \in below : x <= y
      BY <1>2, <2>1, <2>3
    <3>2. x <= k + 1
      BY <2>1
    <3> QED BY <3>1, <3>2
  <2> QED BY <2>2, <2>3
<1>3. n \in S
  <2> HIDE DEF Bounded
  <2>1. 0 \in S /\ \A k \in Nat : k \in S => k + 1 \in S
    BY <1>1, <1>2
  <2> HIDE DEF S
  <2> QED BY <2>1, NatSetInduction
<1>4. \E x \in s : \A y \in s : x <= y
  BY <1>3
<1> QED BY <1>4 DEF Min

-----------------------------------------------------------------------------
\* RemoveAt keeps the items before the place and moves up those behind it.
LEMMA RemoveAtProperties ==
    ASSUME NEW S, NEW list \in Seq(S), NEW p \in 1 .. Len(list)
    PROVE  /\ RemoveAt(list, p) \in Seq(S)
           /\ Len(RemoveAt(list, p)) = Len(list) - 1
           /\ \A n \in 1 .. Len(list) - 1 :
                 RemoveAt(list, p)[n] = IF n < p THEN list[n] ELSE list[n + 1]
<1> DEFINE u == SubSeq(list, 1, p - 1)
           v == SubSeq(list, p + 1, Len(list))
<1>1. /\ u \in Seq(S) /\ Len(u) = p - 1
      /\ \A n \in 1 .. p - 1 : u[n] = list[n]
  OBVIOUS
<1>2. /\ v \in Seq(S) /\ Len(v) = Len(list) - p
      /\ \A n \in 1 .. Len(list) - p : v[n] = list[p + n]
  OBVIOUS
<1>3. RemoveAt(list, p) = u \o v
  BY DEF RemoveAt
<1> HIDE DEF u, v
<1>4. /\ u \o v \in Seq(S) /\ Len(u \o v) = Len(list) - 1
      /\ \A n \in 1 .. Len(list) - 1 : (u \o v)[n] = IF n <= p - 1 THEN u[n] ELSE v[n - (p - 1)]
  <2>1. /\ u \o v \in Seq(S) /\ Len(u \o v) = Len(u) + Len(v)
        /\ \A n \in 1 .. Len(u) + Len(v) : (u \o v)[n] = IF n <= Len(u) THEN u[n] ELSE v[n - Len(u)]
    BY <1>1, <1>2, ConcatProperties
  <2>2. Len(u) + Len(v) = Len(list) - 1
    BY <1>1, <1>2
  <2> QED BY <1>1, <2>1, <2>2
<1>5. ASSUME NEW n \in 1 .. Len(list) - 1
      PROVE  (u \o v)[n] = IF n < p THEN list[n] ELSE list[n + 1]
  <2>1. CASE n < p
    BY <1>1, <1>4, <2>1
  <2>2. CASE ~(n < p)
    <3>1. n - (p - 1) \in 1 .. Len(list) - p /\ p + (n - (p - 1)) = n + 1
      BY <2>2
    <3>2. v[n - (p - 1)] = list[n + 1]
      BY <1>2, <3>1
    <3> QED BY <1>4, <2>2, <3>2
  <2> QED BY <2>1, <2>2
<1> QED BY <1>3, <1>4, <1>5

\* favorites_index_of finds the first place of an item that is in the list.
LEMMA FavoriteIndexProperties ==
    ASSUME NEW S, NEW list \in Seq(S), NEW item
    PROVE  /\ FavoriteIndex(list, item) \in 0 .. Len(list)
           /\ FavoriteIndex(list, item) > 0 <=> item \in ToSet(list)
           /\ FavoriteIndex(list, item) > 0 =>
                 /\ list[FavoriteIndex(list, item)] = item
                 /\ \A n \in 1 .. FavoriteIndex(list, item) - 1 : list[n] # item
<1> DEFINE I == {i \in 1 .. Len(list) : list[i] = item}
           index == FavoriteIndex(list, item)
<1>1. index = IF I # {} THEN Min(I) ELSE 0
  BY DEF FavoriteIndex, SelectInSeq
<1>2. I # {} => Min(I) \in I /\ \A y \in I : Min(I) <= y
  <2>1. Len(list) \in Nat /\ I \in SUBSET (1 .. Len(list))
    OBVIOUS
  <2> HIDE DEF I
  <2> QED BY <2>1, MinIsLeast
<1>3. I # {} <=> item \in ToSet(list)
  BY DEF ToSet
<1> HIDE DEF index
<1>4. CASE I = {}
  <2>1. index = 0
    BY <1>1, <1>4
  <2> QED BY <1>3, <1>4, <2>1 DEF index
<1>5. CASE I # {}
  <2>1. index \in I /\ \A y \in I : index <= y
    BY <1>1, <1>2, <1>5
  <2>2. index \in 1 .. Len(list) /\ list[index] = item
    BY <2>1
  <2>3. \A n \in 1 .. index - 1 : list[n] # item
    BY <2>1, <2>2
  <2> QED BY <1>3, <1>5, <2>2, <2>3 DEF index
<1> QED BY <1>4, <1>5

\* Removing the item at a place from a list that has none twice.
LEMMA RemoveAtInjective ==
    ASSUME NEW S, NEW list \in Seq(S), NEW p \in 1 .. Len(list), IsInjective(list)
    PROVE  /\ IsInjective(RemoveAt(list, p))
           /\ ToSet(RemoveAt(list, p)) = ToSet(list) \ {list[p]}
<1> DEFINE kept == RemoveAt(list, p)
           from(n) == IF n < p THEN n ELSE n + 1
<1>1. /\ Len(kept) = Len(list) - 1 /\ DOMAIN kept = 1 .. Len(list) - 1
      /\ \A n \in DOMAIN kept : from(n) \in DOMAIN list /\ kept[n] = list[from(n)]
  <2>1. kept \in Seq(S) /\ Len(kept) = Len(list) - 1 /\ DOMAIN kept = 1 .. Len(list) - 1
    BY RemoveAtProperties, LenProperties
  <2> HIDE DEF kept
  <2>2. \A n \in 1 .. Len(list) - 1 : kept[n] = IF n < p THEN list[n] ELSE list[n + 1]
    BY RemoveAtProperties DEF kept
  <2> QED BY <2>1, <2>2
<1>2. DOMAIN list = 1 .. Len(list) /\ Len(list) \in Nat
  BY LenProperties
<1> HIDE DEF kept
<1>3. IsInjective(kept)
  <2> SUFFICES ASSUME NEW m \in DOMAIN kept, NEW n \in DOMAIN kept, kept[m] = kept[n]
               PROVE  m = n
    BY DEF IsInjective
  <2>1. from(m) = from(n)
    <3> HIDE DEF from
    <3> QED BY <1>1 DEF IsInjective
  <2> QED BY <2>1, <1>1
<1>4. ToSet(kept) \subseteq ToSet(list) \ {list[p]}
  <2> SUFFICES ASSUME NEW n \in DOMAIN kept
               PROVE  kept[n] \in ToSet(list) \ {list[p]}
    BY DEF ToSet
  <2>1. from(n) # p /\ p \in DOMAIN list
    BY <1>1, <1>2
  <2> HIDE DEF from
  <2> QED BY <1>1, <2>1 DEF IsInjective, ToSet
<1>5. ToSet(list) \ {list[p]} \subseteq ToSet(kept)
  <2> SUFFICES ASSUME NEW n \in DOMAIN list, n # p
               PROVE  list[n] \in ToSet(kept)
    BY DEF ToSet
  <2> DEFINE to == IF n < p THEN n ELSE n - 1
  <2>1. to \in DOMAIN kept /\ from(to) = n
    BY <1>1, <1>2
  <2> QED BY <1>1, <2>1 DEF ToSet
<1> QED BY <1>3, <1>4, <1>5 DEF kept

\* An item put before a list, or behind it.
LEMMA PutProperties ==
    ASSUME NEW S, NEW list \in Seq(S), NEW item \in S
    PROVE  /\ <<item>> \o list \in Seq(S) /\ Append(list, item) \in Seq(S)
           /\ Len(<<item>> \o list) = Len(list) + 1 /\ Len(Append(list, item)) = Len(list) + 1
           /\ ToSet(<<item>> \o list) = ToSet(list) \cup {item}
           /\ ToSet(Append(list, item)) = ToSet(list) \cup {item}
           /\ (IsInjective(list) /\ item \notin ToSet(list)) =>
                 IsInjective(<<item>> \o list) /\ IsInjective(Append(list, item))
<1> DEFINE first == <<item>> \o list
           last  == Append(list, item)
<1>1. /\ Len(list) \in Nat /\ DOMAIN list = 1 .. Len(list)
      /\ first \in Seq(S) /\ Len(first) = Len(list) + 1 /\ DOMAIN first = 1 .. Len(list) + 1
      /\ first[1] = item /\ \A n \in 1 .. Len(list) : first[n + 1] = list[n]
  OBVIOUS
<1>2. /\ last \in Seq(S) /\ Len(last) = Len(list) + 1 /\ DOMAIN last = 1 .. Len(list) + 1
      /\ last[Len(list) + 1] = item /\ \A n \in 1 .. Len(list) : last[n] = list[n]
  OBVIOUS
<1> HIDE DEF first, last
<1>3. \A n \in 1 .. Len(list) + 1 : n = 1 \/ (n - 1 \in 1 .. Len(list) /\ first[n] = list[n - 1])
  <2>1. \A n \in 1 .. Len(list) + 1 : n = 1 \/ (n - 1 \in 1 .. Len(list) /\ (n - 1) + 1 = n)
    BY <1>1
  <2> QED BY <1>1, <2>1
<1>4. ToSet(first) = ToSet(list) \cup {item}
  <2>1. ToSet(list) \cup {item} \subseteq ToSet(first)
    BY <1>1 DEF ToSet
  <2>2. ASSUME NEW n \in DOMAIN first PROVE first[n] \in ToSet(list) \cup {item}
    BY <1>1, <1>3 DEF ToSet
  <2> QED BY <2>1, <2>2 DEF ToSet
<1>5. ToSet(last) = ToSet(list) \cup {item}
  BY <1>1, <1>2 DEF ToSet
<1>6. ASSUME IsInjective(list), item \notin ToSet(list) PROVE IsInjective(first)
  <2> SUFFICES ASSUME NEW m \in 1 .. Len(list) + 1, NEW n \in 1 .. Len(list) + 1, first[m] = first[n]
               PROVE  m = n
    BY <1>1 DEF IsInjective
  <2>1. \A k \in 1 .. Len(list) : list[k] # item
    BY <1>1, <1>6 DEF ToSet
  <2>2. m = 1 \/ (m - 1 \in 1 .. Len(list) /\ first[m] = list[m - 1])
    BY <1>3
  <2>3. n = 1 \/ (n - 1 \in 1 .. Len(list) /\ first[n] = list[n - 1])
    BY <1>3
  <2>4. m # 1 /\ n # 1 => m - 1 = n - 1
    BY <1>1, <1>6, <2>2, <2>3 DEF IsInjective
  <2> QED BY <1>1, <2>1, <2>2, <2>3, <2>4
<1>7. ASSUME IsInjective(list), item \notin ToSet(list) PROVE IsInjective(last)
  <2> SUFFICES ASSUME NEW m \in 1 .. Len(list) + 1, NEW n \in 1 .. Len(list) + 1, last[m] = last[n]
               PROVE  m = n
    BY <1>2 DEF IsInjective
  <2>1. \A k \in 1 .. Len(list) : last[k] = list[k] /\ last[k] # item
    BY <1>1, <1>2, <1>7 DEF ToSet
  <2>2. m = Len(list) + 1 \/ m \in 1 .. Len(list)
    BY <1>1
  <2>3. n = Len(list) + 1 \/ n \in 1 .. Len(list)
    BY <1>1
  <2>4. m \in 1 .. Len(list) /\ n \in 1 .. Len(list) => m = n
    BY <1>1, <1>7, <2>1 DEF IsInjective
  <2> QED BY <1>2, <2>1, <2>2, <2>3, <2>4
<1> QED BY <1>1, <1>2, <1>4, <1>5, <1>6, <1>7 DEF first, last

\* What an item put behind a list adds to it.
LEMMA ToSetAppend ==
    ASSUME NEW S, NEW list \in Seq(S), NEW item \in S
    PROVE  ToSet(Append(list, item)) = ToSet(list) \cup {item}
<1>1. /\ DOMAIN Append(list, item) = 1 .. Len(list) + 1 /\ DOMAIN list = 1 .. Len(list)
      /\ Len(list) \in Nat
      /\ \A n \in 1 .. Len(list) : Append(list, item)[n] = list[n]
  OBVIOUS
<1>2. Append(list, item)[Len(list) + 1] = item
  OBVIOUS
<1> QED BY <1>1, <1>2 DEF ToSet

\* Deleting a command takes it out of a view wherever it is, and nothing else.
LEMMA WithoutProperties ==
    ASSUME NEW S, NEW list \in Seq(S), NEW cmd
    PROVE  /\ Without(list, cmd) \in Seq(S)
           /\ Len(Without(list, cmd)) <= Len(list)
           /\ ToSet(Without(list, cmd)) = ToSet(list) \ {cmd}
           /\ IsInjective(list) => IsInjective(Without(list, cmd))
<1> DEFINE n == Len(list)
<1>1. n \in Nat /\ n \in 0 .. n /\ DOMAIN list = 1 .. n /\ \A m \in 1 .. n : list[m] \in S
  OBVIOUS
<1>2. PICK F \in [0 .. n -> Seq(S)] :
          /\ F[0] = <<>>
          /\ \A k \in 1 .. n : F[k] = IF list[k] # cmd THEN Append(F[k - 1], list[k]) ELSE F[k - 1]
          /\ Without(list, cmd) = F[n]
  <2>1. PICK F : IsWithout(F, S, list, cmd)
    BY WithoutSteps
  <2> QED BY <2>1 DEF IsWithout
<1> DEFINE G == [k \in 0 .. n |-> <<k, F[k]>>]
           Seen(k) == {list[m] : m \in 1 .. k}
           T == {t \in (0 .. n) \X Seq(S) :
                    /\ Len(t[2]) <= t[1]
                    /\ ToSet(t[2]) = Seen(t[1]) \ {cmd}
                    /\ IsInjective(list) => IsInjective(t[2])}
<1> HIDE DEF n
<1>3. G[0] \in T
  <2>1. Seen(0) = {}
    OBVIOUS
  <2> HIDE DEF Seen
  <2> QED BY <1>1, <1>2, <2>1 DEF ToSet, IsInjective
<1>4. ASSUME NEW k \in 1 .. n, G[k - 1] \in T PROVE G[k] \in T
  <2> DEFINE old == F[k - 1]
  <2>0. k - 1 \in 0 .. n /\ k \in 0 .. n
    BY <1>1
  <2>1. /\ old \in Seq(S) /\ Len(old) <= k - 1 /\ ToSet(old) = Seen(k - 1) \ {cmd}
        /\ IsInjective(list) => IsInjective(old)
        /\ Len(old) \in Nat /\ list[k] \in S
    <3> HIDE DEF Seen
    <3> QED BY <1>1, <1>4, <2>0
  <2>2. F[k] = IF list[k] # cmd THEN Append(old, list[k]) ELSE old
    BY <1>2
  <2>3. Seen(k) = Seen(k - 1) \cup {list[k]}
    <3>1. 1 .. k = (1 .. k - 1) \cup {k}
      BY <1>1
    <3> QED BY <3>1
  <2>4. IsInjective(list) => list[k] \notin Seen(k - 1)
    <3> SUFFICES ASSUME IsInjective(list), NEW m \in 1 .. k - 1, list[m] = list[k] PROVE FALSE
      OBVIOUS
    <3>1. m \in DOMAIN list /\ k \in DOMAIN list
      BY <1>1
    <3>2. m = k
      BY <3>1 DEF IsInjective
    <3> QED BY <1>1, <3>2
  <2> HIDE DEF old, Seen, G, T
  <2>5. /\ Append(old, list[k]) \in Seq(S) /\ Len(Append(old, list[k])) = Len(old) + 1
        /\ ToSet(Append(old, list[k])) = ToSet(old) \cup {list[k]}
        /\ (IsInjective(old) /\ list[k] \notin ToSet(old)) => IsInjective(Append(old, list[k]))
    <3> DEFINE line == list[k]
    <3>1. old \in Seq(S) /\ line \in S
      BY <2>1
    <3> HIDE DEF line
    <3>2. /\ Append(old, line) \in Seq(S) /\ Len(Append(old, line)) = Len(old) + 1
          /\ ToSet(Append(old, line)) = ToSet(old) \cup {line}
          /\ (IsInjective(old) /\ line \notin ToSet(old)) => IsInjective(Append(old, line))
      <4>1. Append(old, line) \in Seq(S) /\ Len(Append(old, line)) = Len(old) + 1
        BY <3>1, PutProperties
      <4>2. ToSet(Append(old, line)) = ToSet(old) \cup {line}
        BY <3>1, ToSetAppend
      <4>3. (IsInjective(old) /\ line \notin ToSet(old)) => IsInjective(Append(old, line))
        BY <3>1, PutProperties
      <4> QED BY <4>1, <4>2, <4>3
    <3> QED BY <3>2 DEF line
  <2>6. /\ F[k] \in Seq(S) /\ Len(F[k]) <= k /\ ToSet(F[k]) = Seen(k) \ {cmd}
        /\ IsInjective(list) => IsInjective(F[k])
    <3>1. CASE list[k] # cmd
      <4>1. F[k] = Append(old, list[k])
        BY <2>2, <3>1
      <4>2. Len(F[k]) <= k /\ F[k] \in Seq(S)
        BY <2>0, <2>1, <2>5, <4>1
      <4>3. ToSet(F[k]) = Seen(k) \ {cmd}
        BY <2>1, <2>3, <2>5, <3>1, <4>1
      <4>4. IsInjective(list) => IsInjective(F[k])
        BY <2>1, <2>4, <2>5, <4>1
      <4> QED BY <4>2, <4>3, <4>4
    <3>2. CASE list[k] = cmd
      BY <2>0, <2>1, <2>2, <2>3, <3>2
    <3> QED BY <3>1, <3>2
  <2> QED BY <2>0, <2>6 DEF G, T
<1>5. G[n] \in T
  <2>1. \A k \in 0 .. n : G[k] \in T
    <3> HIDE DEF G, T
    <3> QED BY <1>1, <1>3, <1>4, FoldInduction
  <2> QED BY <1>1, <2>1
<1>6. Seen(n) = ToSet(list)
  BY <1>1 DEF ToSet
<1> QED BY <1>1, <1>2, <1>5, <1>6 DEF n

\* Deleting from a list that was made longer by an item, behind it ...
LEMMA WithoutAppend ==
    ASSUME NEW S, NEW list \in Seq(S), NEW item \in S, NEW cmd
    PROVE  Without(Append(list, item), cmd)
              = IF item # cmd THEN Append(Without(list, cmd), item) ELSE Without(list, cmd)
<1> DEFINE more == Append(list, item)
           n == Len(list)
<1>1. /\ n \in Nat /\ more \in Seq(S) /\ Len(more) = n + 1 /\ more[n + 1] = item
      /\ \A k \in 1 .. n : more[k] = list[k]
  OBVIOUS
<1> HIDE DEF more
<1>2. PICK F : IsWithout(F, S, list, cmd)
  BY WithoutSteps
<1>3. PICK E : IsWithout(E, S, more, cmd)
  BY <1>1, WithoutSteps
<1>4. F[n] = E[n]
  <2>1. F[0] = E[0]
    BY <1>2, <1>3 DEF IsWithout
  <2>2. ASSUME NEW k \in 1 .. n, F[k - 1] = E[k - 1] PROVE F[k] = E[k]
    <3>1. k \in 1 .. Len(more) /\ more[k] = list[k]
      BY <1>1
    <3>2. E[k] = IF list[k] # cmd THEN Append(E[k - 1], list[k]) ELSE E[k - 1]
      BY <1>3, <3>1 DEF IsWithout
    <3>3. F[k] = IF list[k] # cmd THEN Append(F[k - 1], list[k]) ELSE F[k - 1]
      BY <1>2 DEF IsWithout
    <3> QED BY <2>2, <3>2, <3>3
  <2> HIDE DEF n
  <2> QED BY <1>1, <2>1, <2>2, SameSteps
<1>5. E[n + 1] = IF item # cmd THEN Append(E[n], item) ELSE E[n]
  <2>1. n + 1 \in 1 .. Len(more) /\ (n + 1) - 1 = n
    BY <1>1
  <2> HIDE DEF n
  <2> QED BY <1>1, <1>3, <2>1 DEF IsWithout
<1>6. Without(list, cmd) = F[n] /\ Without(more, cmd) = E[n + 1]
  BY <1>1, <1>2, <1>3 DEF IsWithout
<1> QED BY <1>4, <1>5, <1>6 DEF more

\* ... or before it.
LEMMA WithoutPut ==
    ASSUME NEW S, NEW list \in Seq(S), NEW item \in S, NEW cmd
    PROVE  Without(<<item>> \o list, cmd)
              = IF item # cmd THEN <<item>> \o Without(list, cmd) ELSE Without(list, cmd)
<1> DEFINE more == <<item>> \o list
           n == Len(list)
           head == IF item # cmd THEN <<item>> ELSE <<>>
<1>1. /\ n \in Nat /\ more \in Seq(S) /\ Len(more) = n + 1 /\ more[1] = item
      /\ \A k \in 1 .. n : more[k + 1] = list[k] /\ list[k] \in S
  OBVIOUS
<1>2. head \in Seq(S)
  OBVIOUS
<1> HIDE DEF more
<1>3. PICK F : IsWithout(F, S, list, cmd)
  BY WithoutSteps
<1>4. PICK E : IsWithout(E, S, more, cmd)
  BY <1>1, WithoutSteps
<1> DEFINE A == [k \in 0 .. n |-> head \o F[k]]
           B == [k \in 0 .. n |-> E[k + 1]]
<1> HIDE DEF n
<1>5. A[0] = B[0]
  <2>1. 1 \in 1 .. Len(more) /\ E[0] = <<>> /\ F[0] = <<>> /\ 0 \in 0 .. n
    BY <1>1, <1>3, <1>4 DEF IsWithout
  <2>2. E[1] = IF more[1] # cmd THEN Append(E[1 - 1], more[1]) ELSE E[1 - 1]
    BY <1>4, <2>1 DEF IsWithout
  <2>3. E[1] = head
    <3>1. 1 - 1 = 0 /\ Append(<<>>, item) = <<item>>
      OBVIOUS
    <3> QED BY <1>1, <2>1, <2>2, <3>1
  <2>4. head \o <<>> = head
    BY <1>2
  <2>5. A[0] = head \o <<>> /\ B[0] = E[1]
    <3>1. A[0] = head \o F[0]
      <4> HIDE DEF head
      <4> QED BY <2>1, Zenon
    <3>2. B[0] = E[0 + 1]
      BY <2>1
    <3>3. 0 + 1 = 1
      OBVIOUS
    <3> HIDE DEF A, B, head
    <3> QED BY <2>1, <3>1, <3>2, <3>3
  <2> HIDE DEF A, B, head
  <2> QED BY <2>3, <2>4, <2>5
<1>6. ASSUME NEW k \in 1 .. n, A[k - 1] = B[k - 1] PROVE A[k] = B[k]
  <2>1. k \in 0 .. n /\ k - 1 \in 0 .. n /\ k + 1 \in 1 .. Len(more) /\ (k - 1) + 1 = k
        /\ (k + 1) - 1 = k
    BY <1>1
  <2>2. E[k] = head \o F[k - 1] /\ F[k - 1] \in Seq(S)
    <3>1. A[k - 1] = head \o F[k - 1] /\ B[k - 1] = E[(k - 1) + 1]
      BY <2>1
    <3>2. F[k - 1] \in Seq(S)
      BY <1>3, <2>1 DEF IsWithout, n
    <3> HIDE DEF A, B, head
    <3> QED BY <1>6, <2>1, <3>1, <3>2
  <2>3. F[k] = IF list[k] # cmd THEN Append(F[k - 1], list[k]) ELSE F[k - 1]
    BY <1>3 DEF IsWithout, n
  <2>4. E[k + 1] = IF more[k + 1] # cmd THEN Append(E[(k + 1) - 1], more[k + 1]) ELSE E[(k + 1) - 1]
    BY <1>4, <2>1 DEF IsWithout
  <2>5. E[k + 1] = IF list[k] # cmd THEN Append(E[k], list[k]) ELSE E[k]
    BY <1>1, <2>1, <2>4
  <2>6. Append(head \o F[k - 1], list[k]) = head \o Append(F[k - 1], list[k])
    <3> DEFINE kept == F[k - 1]
               last == list[k]
    <3>1. kept \in Seq(S) /\ last \in S
      BY <1>1, <2>2
    <3> HIDE DEF kept, last, head
    <3>2. Append(head \o kept, last) = head \o Append(kept, last)
      BY <1>2, <3>1
    <3> QED BY <3>2 DEF kept, last
  <2>7. E[k + 1] = head \o F[k]
    BY <2>2, <2>3, <2>5, <2>6
  <2> QED BY <2>1, <2>7
<1>7. A[n] = B[n]
  <2> HIDE DEF A, B
  <2> QED BY <1>1, <1>5, <1>6, SameSteps
<1>8. n \in 0 .. n /\ Without(list, cmd) = F[n] /\ Without(more, cmd) = E[n + 1]
      /\ F[n] \in Seq(S)
  BY <1>1, <1>3, <1>4 DEF IsWithout, n
<1>9. Without(more, cmd) = head \o Without(list, cmd)
  BY <1>7, <1>8
<1>10. <<>> \o F[n] = F[n]
  BY <1>8
<1> QED BY <1>8, <1>9, <1>10 DEF more

\* A list backwards has the same items, and an item put behind comes first.
LEMMA ReverseProperties ==
    ASSUME NEW S, NEW list \in Seq(S)
    PROVE  /\ Reverse(list) \in Seq(S) /\ Len(Reverse(list)) = Len(list)
           /\ ToSet(Reverse(list)) = ToSet(list)
           /\ \A item \in S : Reverse(Append(list, item)) = <<item>> \o Reverse(list)
<1> DEFINE n == Len(list)
           rev == Reverse(list)
<1>1. n \in Nat /\ DOMAIN list = 1 .. n /\ \A k \in 1 .. n : list[k] \in S
  OBVIOUS
<1>2. /\ rev \in Seq(S) /\ Len(rev) = n /\ DOMAIN rev = 1 .. n
      /\ \A k \in 1 .. n : rev[k] = list[(n - k) + 1]
  BY <1>1 DEF Reverse
<1>3. ToSet(rev) = ToSet(list)
  <2>1. \A k \in 1 .. n : (n - k) + 1 \in 1 .. n /\ (n - ((n - k) + 1)) + 1 = k
    BY <1>1
  <2> HIDE DEF n, rev
  <2> QED BY <1>1, <1>2, <2>1 DEF ToSet
<1>4. ASSUME NEW item \in S PROVE Reverse(Append(list, item)) = <<item>> \o rev
  <2> DEFINE more == Append(list, item)
             put  == <<item>> \o rev
  <2>1. /\ more \in Seq(S) /\ Len(more) = n + 1 /\ more[n + 1] = item
        /\ \A k \in 1 .. n : more[k] = list[k]
    OBVIOUS
  <2>2. /\ put \in Seq(S) /\ Len(put) = n + 1 /\ put[1] = item
        /\ \A k \in 2 .. n + 1 : put[k] = rev[k - 1]
    BY <1>1, <1>2
  <2> HIDE DEF more, put, rev, n
  <2>3. /\ Reverse(more) \in Seq(S) /\ Len(Reverse(more)) = n + 1
        /\ \A k \in 1 .. n + 1 : Reverse(more)[k] = more[(n + 1 - k) + 1]
    BY <1>1, <2>1 DEF Reverse
  <2>4. ASSUME NEW k \in 1 .. n + 1 PROVE Reverse(more)[k] = put[k]
    <3>1. CASE k = 1
      BY <1>1, <2>1, <2>2, <2>3, <3>1
    <3>2. CASE k # 1
      <4>1. k \in 2 .. n + 1 /\ k - 1 \in 1 .. n /\ (n + 1 - k) + 1 \in 1 .. n
            /\ (n - (k - 1)) + 1 = (n + 1 - k) + 1
        BY <1>1, <3>2
      <4>2. put[k] = rev[k - 1] /\ rev[k - 1] = list[(n - (k - 1)) + 1]
        BY <1>2, <2>2, <4>1
      <4>3. Reverse(more)[k] = list[(n + 1 - k) + 1]
        BY <2>1, <2>3, <4>1
      <4> QED BY <4>1, <4>2, <4>3
    <3> QED BY <3>1, <3>2
  <2>5. Reverse(more) = put
    BY <2>2, <2>3, <2>4, SeqEqual
  <2> QED BY <2>5 DEF more, put
<1> QED BY <1>2, <1>3, <1>4

\* Deleting and reversing go in any order.
LEMMA WithoutReverse ==
    ASSUME NEW S, NEW list \in Seq(S), NEW cmd
    PROVE  Without(Reverse(list), cmd) = Reverse(Without(list, cmd))
<1> DEFINE n == Len(list)
           Prefix(k) == SubSeq(list, 1, k)
<1>1. n \in Nat /\ \A k \in 1 .. n : list[k] \in S
  OBVIOUS
<1>2. PICK F : IsWithout(F, S, list, cmd)
  BY WithoutSteps
<1>3. /\ Prefix(0) = <<>> /\ Prefix(n) = list
      /\ \A k \in 0 .. n : Prefix(k) \in Seq(S)
      /\ \A k \in 1 .. n : Prefix(k) = Append(Prefix(k - 1), list[k])
  OBVIOUS
<1> HIDE DEF Prefix
<1> DEFINE A == [k \in 0 .. n |-> Without(Reverse(Prefix(k)), cmd)]
           B == [k \in 0 .. n |-> Reverse(F[k])]
<1>4. A[0] = B[0]
  <2>1. Reverse(<<>>) = <<>>
    BY DEF Reverse
  <2>2. Without(<<>>, cmd) = <<>>
    <3>1. <<>> \in Seq(S) /\ Len(<<>>) = 0
      OBVIOUS
    <3>2. PICK E : IsWithout(E, S, <<>>, cmd)
      BY <3>1, WithoutSteps
    <3> QED BY <3>1, <3>2 DEF IsWithout
  <2> QED BY <1>1, <1>2, <1>3, <2>1, <2>2 DEF IsWithout
<1>5. ASSUME NEW k \in 1 .. n, A[k - 1] = B[k - 1] PROVE A[k] = B[k]
  <2>1. k - 1 \in 0 .. n /\ k \in 0 .. n /\ list[k] \in S
    BY <1>1
  <2>2. Prefix(k - 1) \in Seq(S) /\ F[k - 1] \in Seq(S)
    BY <1>2, <1>3, <2>1 DEF IsWithout
  <2>3. Reverse(Prefix(k)) = <<list[k]>> \o Reverse(Prefix(k - 1))
    BY <1>3, <2>1, <2>2, ReverseProperties
  <2>4. Without(Reverse(Prefix(k)), cmd)
           = IF list[k] # cmd THEN <<list[k]>> \o Without(Reverse(Prefix(k - 1)), cmd)
             ELSE Without(Reverse(Prefix(k - 1)), cmd)
    <3>1. Reverse(Prefix(k - 1)) \in Seq(S)
      BY <2>2, ReverseProperties
    <3> DEFINE item == list[k]
               rest == Reverse(Prefix(k - 1))
    <3>2. item \in S /\ rest \in Seq(S) /\ Reverse(Prefix(k)) = <<item>> \o rest
      BY <2>1, <2>3, <3>1
    <3> HIDE DEF item, rest
    <3>3. Without(<<item>> \o rest, cmd)
             = IF item # cmd THEN <<item>> \o Without(rest, cmd) ELSE Without(rest, cmd)
      BY <3>2, WithoutPut
    <3> QED BY <3>2, <3>3 DEF item, rest
  <2>5. Without(Reverse(Prefix(k - 1)), cmd) = Reverse(F[k - 1])
    BY <1>5, <2>1
  <2>6. F[k] = IF list[k] # cmd THEN Append(F[k - 1], list[k]) ELSE F[k - 1]
    BY <1>2 DEF IsWithout
  <2>7. Reverse(Append(F[k - 1], list[k])) = <<list[k]>> \o Reverse(F[k - 1])
    BY <2>1, <2>2, ReverseProperties
  <2>8. Without(Reverse(Prefix(k)), cmd) = Reverse(F[k])
    BY <2>4, <2>5, <2>6, <2>7
  <2> QED BY <2>1, <2>8
<1>6. A[n] = B[n]
  <2> HIDE DEF A, B, n
  <2> QED BY <1>1, <1>4, <1>5, SameSteps
<1> QED BY <1>1, <1>2, <1>3, <1>6 DEF IsWithout

\* A deletion makes a list shorter, or it deletes nothing.
LEMMA WithoutShorter ==
    ASSUME NEW S, NEW list \in Seq(S), NEW cmd
    PROVE  IF cmd \in ToSet(list) THEN Len(Without(list, cmd)) < Len(list)
           ELSE Without(list, cmd) = list
<1> DEFINE n == Len(list)
           Prefix(k) == SubSeq(list, 1, k)
<1>1. n \in Nat /\ DOMAIN list = 1 .. n /\ \A k \in 1 .. n : list[k] \in S
  OBVIOUS
<1>2. PICK F : IsWithout(F, S, list, cmd)
  BY WithoutSteps
<1>3. CASE cmd \notin ToSet(list)
  <2>1. /\ Prefix(0) = <<>> /\ Prefix(n) = list
        /\ \A k \in 0 .. n : Prefix(k) \in Seq(S)
        /\ \A k \in 1 .. n : Prefix(k) = Append(Prefix(k - 1), list[k])
    OBVIOUS
  <2> HIDE DEF Prefix
  <2> DEFINE A == [k \in 0 .. n |-> Prefix(k)]
             B == [k \in 0 .. n |-> F[k]]
  <2>2. A[0] = B[0]
    BY <1>1, <1>2, <2>1 DEF IsWithout
  <2>3. ASSUME NEW k \in 1 .. n, A[k - 1] = B[k - 1] PROVE A[k] = B[k]
    <3>1. k - 1 \in 0 .. n /\ k \in 0 .. n /\ list[k] # cmd
      BY <1>1, <1>3 DEF ToSet
    <3>2. F[k] = Append(F[k - 1], list[k])
      BY <1>2, <3>1 DEF IsWithout
    <3> QED BY <2>1, <2>3, <3>1, <3>2
  <2>4. A[n] = B[n]
    <3> HIDE DEF A, B, n
    <3> QED BY <1>1, <2>2, <2>3, SameSteps
  <2> QED BY <1>1, <1>2, <1>3, <2>1, <2>4 DEF IsWithout
<1>4. CASE cmd \in ToSet(list)
  <2>1. PICK m \in 1 .. n : list[m] = cmd
    BY <1>1, <1>4 DEF ToSet
  <2> DEFINE G == [k \in 0 .. n |-> <<k, F[k]>>]
             T == {t \in (0 .. n) \X Seq(S) : Len(t[2]) <= t[1] /\ (t[1] >= m => Len(t[2]) < t[1])}
  <2>2. \A k \in 0 .. n : F[k] \in Seq(S) /\ Len(F[k]) \in Nat
    <3>1. \A k \in 0 .. n : F[k] \in Seq(S)
      BY <1>2 DEF IsWithout
    <3> QED BY <3>1
  <2>3. G[0] \in T
    BY <1>1, <1>2, <2>2 DEF IsWithout
  <2>4. ASSUME NEW k \in 1 .. n, G[k - 1] \in T PROVE G[k] \in T
    <3>1. k - 1 \in 0 .. n /\ k \in 0 .. n
      BY <1>1
    <3>2. Len(F[k - 1]) <= k - 1 /\ (k - 1 >= m => Len(F[k - 1]) < k - 1)
      BY <2>4, <3>1
    <3>3. F[k] = IF list[k] # cmd THEN Append(F[k - 1], list[k]) ELSE F[k - 1]
      BY <1>2 DEF IsWithout
    <3>4. Len(F[k]) = IF list[k] # cmd THEN Len(F[k - 1]) + 1 ELSE Len(F[k - 1])
      BY <2>2, <3>1, <3>3
    <3>5. Len(F[k]) <= k /\ (k >= m => Len(F[k]) < k)
      BY <2>1, <2>2, <3>1, <3>2, <3>4
    <3> QED BY <2>2, <3>1, <3>5
  <2>5. \A k \in 0 .. n : G[k] \in T
    <3> HIDE DEF G, T, n
    <3> QED BY <1>1, <2>3, <2>4, FoldInduction
  <2>6. Len(F[n]) < n
    <3>1. n \in 0 .. n /\ n >= m
      BY <1>1, <2>1
    <3>2. G[n] = <<n, F[n]>> /\ G[n] \in T
      BY <2>5, <3>1
    <3> QED BY <3>1, <3>2
  <2> QED BY <1>2, <1>4, <2>6 DEF IsWithout
<1> QED BY <1>3, <1>4

\* favorites_remove: the item is gone, the others are all there, and once.
LEMMA RemovedProperties ==
    ASSUME NEW S, NEW list \in Seq(S), NEW item
    PROVE  /\ Removed(list, item) \in Seq(S)
           /\ Len(Removed(list, item)) <= Len(list)
           /\ IsInjective(list) =>
                 /\ IsInjective(Removed(list, item))
                 /\ ToSet(Removed(list, item)) = ToSet(list) \ {item}
<1> DEFINE index == FavoriteIndex(list, item)
<1>1. /\ index \in 0 .. Len(list) /\ (index > 0 <=> item \in ToSet(list))
      /\ index > 0 => list[index] = item
  BY FavoriteIndexProperties
<1>2. Removed(list, item) = IF index > 0 THEN RemoveAt(list, index) ELSE list
  BY DEF Removed
<1>3. Len(list) \in Nat
  OBVIOUS
<1> HIDE DEF index
<1>4. CASE index > 0
  <2>1. index \in 1 .. Len(list) /\ Removed(list, item) = RemoveAt(list, index)
    BY <1>1, <1>2, <1>3, <1>4
  <2>2. Removed(list, item) \in Seq(S) /\ Len(Removed(list, item)) = Len(list) - 1
    BY <2>1, RemoveAtProperties
  <2>3. IsInjective(list) => /\ IsInjective(Removed(list, item))
                             /\ ToSet(Removed(list, item)) = ToSet(list) \ {item}
    BY <1>1, <1>4, <2>1, RemoveAtInjective
  <2> QED BY <1>3, <2>2, <2>3
<1>5. CASE ~(index > 0)
  BY <1>1, <1>2, <1>3, <1>5
<1> QED BY <1>4, <1>5

\* favorites_choose loses no item and makes none twice.
LEMMA ChosenProperties ==
    ASSUME NEW S, NEW list \in Seq(S), NEW item, NEW reorderOnChoice \in BOOLEAN
    PROVE  LET chosen == Chosen(list, item, reorderOnChoice)
           IN  /\ chosen \in Seq(S) /\ Len(chosen) = Len(list)
               /\ IsInjective(list) => IsInjective(chosen) /\ ToSet(chosen) = ToSet(list)
<1> DEFINE index == FavoriteIndex(list, item)
           chosen == Chosen(list, item, reorderOnChoice)
<1>1. /\ index \in 0 .. Len(list) /\ (index > 0 => list[index] = item)
  BY FavoriteIndexProperties
<1>2. chosen = IF reorderOnChoice /\ index > 1 THEN <<list[index]>> \o RemoveAt(list, index) ELSE list
  BY DEF Chosen, MovedToHead
<1>3. Len(list) \in Nat /\ DOMAIN list = 1 .. Len(list)
  OBVIOUS
<1> HIDE DEF index, chosen
<1>4. CASE reorderOnChoice /\ index > 1
  <2> DEFINE rest == RemoveAt(list, index)
  <2>1. index \in 1 .. Len(list) /\ chosen = <<list[index]>> \o rest
    BY <1>1, <1>2, <1>3, <1>4
  <2>2. rest \in Seq(S) /\ Len(rest) = Len(list) - 1 /\ list[index] \in S
    BY <2>1, RemoveAtProperties
  <2>3. IsInjective(list) => IsInjective(rest) /\ ToSet(rest) = ToSet(list) \ {list[index]}
    BY <2>1, RemoveAtInjective
  <2> HIDE DEF rest
  <2>4. chosen \in Seq(S) /\ Len(chosen) = Len(list)
    <3>1. chosen \in Seq(S) /\ Len(chosen) = Len(rest) + 1
      BY <2>1, <2>2, PutProperties
    <3> QED BY <1>3, <2>2, <3>1
  <2>5. IsInjective(list) => IsInjective(chosen) /\ ToSet(chosen) = ToSet(rest) \cup {list[index]}
    BY <2>1, <2>2, <2>3, PutProperties
  <2>6. list[index] \in ToSet(list)
    BY <1>3, <2>1 DEF ToSet
  <2> QED BY <2>3, <2>4, <2>5, <2>6 DEF chosen
<1>5. CASE ~(reorderOnChoice /\ index > 1)
  BY <1>2, <1>5 DEF chosen
<1> QED BY <1>4, <1>5

\* favorites_add puts the item into the list, once.
LEMMA AddedProperties ==
    ASSUME NEW S, NEW list \in Seq(S), NEW item \in S, NEW reorderOnChoice \in BOOLEAN
    PROVE  LET added == Added(list, item, reorderOnChoice)
           IN  /\ added \in Seq(S)
               /\ Len(added) = IF item \in ToSet(list) THEN Len(list) ELSE Len(list) + 1
               /\ IsInjective(list) => IsInjective(added) /\ ToSet(added) = ToSet(list) \cup {item}
<1> DEFINE added == Added(list, item, reorderOnChoice)
<1>1. FavoriteIndex(list, item) > 0 <=> item \in ToSet(list)
  BY FavoriteIndexProperties
<1>2. CASE item \in ToSet(list)
  <2>1. added = Chosen(list, item, reorderOnChoice)
    BY <1>1, <1>2 DEF Added
  <2> HIDE DEF added
  <2> QED BY <1>2, <2>1, ChosenProperties DEF added
<1>3. CASE item \notin ToSet(list)
  <2>1. added = IF reorderOnChoice THEN <<item>> \o list ELSE Append(list, item)
    BY <1>1, <1>3 DEF Added
  <2> HIDE DEF added
  <2> QED BY <1>3, <2>1, PutProperties DEF added
<1> QED BY <1>2, <1>3

\* Taking out an item that was put first, or last, gives the list as it was.
LEMMA RemovedFromFront ==
    ASSUME NEW S, NEW rest \in Seq(S), NEW item \in S
    PROVE  Removed(<<item>> \o rest, item) = rest
<1> DEFINE list == <<item>> \o rest
<1>1. /\ list \in Seq(S) /\ Len(list) = Len(rest) + 1 /\ list[1] = item
      /\ \A n \in 1 .. Len(rest) : list[n + 1] = rest[n]
      /\ Len(rest) \in Nat
  OBVIOUS
<1> HIDE DEF list
<1>2. item \in ToSet(list)
  BY <1>1, LenProperties DEF ToSet
<1>3. FavoriteIndex(list, item) = 1
  <2>1. /\ FavoriteIndex(list, item) \in 0 .. Len(list) /\ FavoriteIndex(list, item) > 0
        /\ \A n \in 1 .. FavoriteIndex(list, item) - 1 : list[n] # item
    BY <1>1, <1>2, FavoriteIndexProperties
  <2> QED BY <1>1, <2>1
<1>4. Removed(list, item) = RemoveAt(list, 1)
  BY <1>3 DEF Removed
<1>5. /\ RemoveAt(list, 1) \in Seq(S) /\ Len(RemoveAt(list, 1)) = Len(rest)
      /\ \A n \in 1 .. Len(rest) : RemoveAt(list, 1)[n] = rest[n]
  <2>1. 1 \in 1 .. Len(list)
    BY <1>1
  <2>2. /\ RemoveAt(list, 1) \in Seq(S) /\ Len(RemoveAt(list, 1)) = Len(list) - 1
        /\ \A n \in 1 .. Len(list) - 1 : RemoveAt(list, 1)[n] = IF n < 1 THEN list[n] ELSE list[n + 1]
    BY <1>1, <2>1, RemoveAtProperties
  <2> QED BY <1>1, <2>2
<1>6. RemoveAt(list, 1) = rest
  BY <1>5, SeqEqual
<1> QED BY <1>4, <1>6 DEF list

\* Nor what was put at the end and is removed there.
LEMMA RemovedFromEnd ==
    ASSUME NEW S, NEW list \in Seq(S), NEW item \in S, item \notin ToSet(list)
    PROVE  Removed(Append(list, item), item) = list
<1> DEFINE more == Append(list, item)
           last == Len(list) + 1
<1>1. /\ more \in Seq(S) /\ Len(more) = last /\ more[last] = item
      /\ \A n \in 1 .. Len(list) : more[n] = list[n]
      /\ Len(list) \in Nat /\ DOMAIN list = 1 .. Len(list)
  OBVIOUS
<1> HIDE DEF more
<1>2. item \in ToSet(more)
  BY <1>1, LenProperties DEF ToSet
<1>3. FavoriteIndex(more, item) = last
  <2>1. /\ FavoriteIndex(more, item) \in 0 .. last /\ FavoriteIndex(more, item) > 0
        /\ more[FavoriteIndex(more, item)] = item
    BY <1>1, <1>2, FavoriteIndexProperties
  <2>2. \A n \in 1 .. Len(list) : more[n] # item
    BY <1>1 DEF ToSet
  <2> QED BY <1>1, <2>1, <2>2
<1>4. Removed(more, item) = RemoveAt(more, last)
  BY <1>1, <1>3 DEF Removed
<1>5. /\ RemoveAt(more, last) \in Seq(S) /\ Len(RemoveAt(more, last)) = Len(list)
      /\ \A n \in 1 .. Len(list) : RemoveAt(more, last)[n] = list[n]
  <2>1. last \in 1 .. Len(more)
    BY <1>1
  <2>2. /\ RemoveAt(more, last) \in Seq(S) /\ Len(RemoveAt(more, last)) = Len(more) - 1
        /\ \A n \in 1 .. Len(more) - 1 :
              RemoveAt(more, last)[n] = IF n < last THEN more[n] ELSE more[n + 1]
    BY <1>1, <2>1, RemoveAtProperties
  <2> QED BY <1>1, <2>2
<1>6. RemoveAt(more, last) = list
  BY <1>5, SeqEqual
<1> QED BY <1>4, <1>6 DEF more

\* Adding, choosing or removing an item changes nothing about the others.
LEMMA OthersKeepTheirOrder ==
    ASSUME NEW S, NEW list \in Seq(S), NEW item \in S, NEW reorderOnChoice \in BOOLEAN
    PROVE  /\ Removed(Added(list, item, reorderOnChoice), item) = Removed(list, item)
           /\ IsInjective(list) => Removed(Removed(list, item), item) = Removed(list, item)
<1> DEFINE index == FavoriteIndex(list, item)
<1>1. /\ index \in 0 .. Len(list) /\ (index > 0 => list[index] = item)
      /\ (index > 0 <=> item \in ToSet(list))
  BY FavoriteIndexProperties
<1>2. Len(list) \in Nat
  OBVIOUS
<1>3. Removed(Added(list, item, reorderOnChoice), item) = Removed(list, item)
  <2>1. CASE index = 0
    <3>1. Added(list, item, reorderOnChoice) =
              IF reorderOnChoice THEN <<item>> \o list ELSE Append(list, item)
      BY <2>1 DEF Added
    <3>2. Removed(list, item) = list
      BY <2>1 DEF Removed
    <3>3. item \notin ToSet(list)
      BY <1>1, <2>1
    <3> HIDE DEF index
    <3> QED BY <3>1, <3>2, <3>3, RemovedFromFront, RemovedFromEnd
  <2>2. CASE index > 1 /\ reorderOnChoice
    <3>1. index \in 1 .. Len(list) /\ list[index] = item
      BY <1>1, <1>2, <2>2
    <3>2. Added(list, item, reorderOnChoice) = <<item>> \o RemoveAt(list, index)
      BY <2>2, <3>1 DEF Added, Chosen, MovedToHead
    <3>3. Removed(list, item) = RemoveAt(list, index)
      BY <2>2, <3>1 DEF Removed
    <3>4. RemoveAt(list, index) \in Seq(S)
      BY <3>1, RemoveAtProperties
    <3> HIDE DEF index
    <3> QED BY <3>2, <3>3, <3>4, RemovedFromFront
  <2>3. CASE index > 0 /\ ~(index > 1 /\ reorderOnChoice)
    <3>1. Added(list, item, reorderOnChoice) = list
      BY <2>3 DEF Added, Chosen
    <3> QED BY <3>1
  <2> HIDE DEF index
  <2> QED BY <1>1, <1>2, <2>1, <2>2, <2>3
<1>4. ASSUME IsInjective(list)
      PROVE  Removed(Removed(list, item), item) = Removed(list, item)
  <2>1. Removed(list, item) \in Seq(S) /\ item \notin ToSet(Removed(list, item))
    BY <1>4, RemovedProperties
  <2>2. ~(FavoriteIndex(Removed(list, item), item) > 0)
    BY <2>1, FavoriteIndexProperties
  <2> QED BY <2>2 DEF Removed
<1> QED BY <1>3, <1>4

\* A sequence has finitely many items.
LEMMA RangeIsFinite ==
    ASSUME NEW S, NEW list \in Seq(S)
    PROVE  IsFiniteSet(ToSet(list))
<1> DEFINE n == Len(list)
           image == ToSet(list)
           f == [i \in 1 .. n |-> list[i]]
<1>1. n \in Nat /\ DOMAIN list = 1 .. n
  OBVIOUS
<1>2. IsFiniteSet(1 .. n)
  <2> HIDE DEF n
  <2> QED BY <1>1, FS_Interval
<1>3. f \in Surjection(1 .. n, image)
  BY <1>1 DEF Surjection, ToSet
<1> HIDE DEF f, n, image
<1>4. IsFiniteSet(image)
  BY <1>2, <1>3, FS_Surjection
<1> QED BY <1>4 DEF image

\* A sequence of one item ...
LEMMA OneItem ==
    ASSUME NEW S, NEW a \in S
    PROVE  <<a>> \in Seq(S)
OBVIOUS

\* ... and of two.
LEMMA TwoItems ==
    ASSUME NEW S, NEW a \in S, NEW b \in S
    PROVE  <<a, b>> \in Seq(S)
OBVIOUS

\* A sequence put behind another.
LEMMA JoinProperties ==
    ASSUME NEW S, NEW t \in Seq(S), NEW s \in Seq(S)
    PROVE  /\ t \o s \in Seq(S) /\ Len(t \o s) = Len(t) + Len(s)
           /\ \A n \in 1 .. Len(t) : (t \o s)[n] = t[n]
           /\ \A n \in 1 .. Len(s) : (t \o s)[Len(t) + n] = s[n]
           /\ s # <<>> => t \o s # <<>> /\ Last(t \o s) = Last(s)
<1> DEFINE both == t \o s
<1>1. /\ both \in Seq(S) /\ Len(both) = Len(t) + Len(s) /\ Len(t) \in Nat /\ Len(s) \in Nat
      /\ \A n \in 1 .. Len(t) : both[n] = t[n]
      /\ \A n \in 1 .. Len(s) : both[Len(t) + n] = s[n]
  OBVIOUS
<1>2. s # <<>> => Len(s) \in 1 .. Len(s)
  BY <1>1
<1> HIDE DEF both
<1>3. s # <<>> => both # <<>> /\ Last(both) = Last(s)
  <2>1. s # <<>> => both[Len(both)] = s[Len(s)] /\ Len(both) > 0
    BY <1>1, <1>2
  <2>2. Len(<<>>) = 0
    OBVIOUS
  <2> QED BY <2>1, <2>2 DEF Last
<1> QED BY <1>1, <1>3 DEF both

\* What is put behind a text is its end.
LEMMA SuffixOfConcat ==
    ASSUME NEW S, NEW t \in Seq(S), NEW s \in Seq(S)
    PROVE  IsSuffix(s, t \o s)
<1> DEFINE both == t \o s
           m == Len(s)
           rs == Reverse(s)
           rb == Reverse(both)
<1>1. both \in Seq(S) /\ Len(both) = Len(t) + m /\ m \in Nat /\ Len(t) \in Nat
      /\ \A n \in 1 .. m : both[Len(t) + n] = s[n]
  BY JoinProperties, LenProperties
<1> HIDE DEF both, m
<1>2. /\ rs \in Seq(S) /\ Len(rs) = m /\ \A n \in 1 .. m : rs[n] = s[(m - n) + 1]
  <2>1. rs \in Seq(S) /\ Len(rs) = m
    BY ReverseProperties DEF m
  <2>2. \A n \in 1 .. m : rs[n] = s[(m - n) + 1]
    BY DEF Reverse, m
  <2> QED BY <2>1, <2>2
<1>3. /\ rb \in Seq(S) /\ Len(rb) = Len(t) + m
      /\ \A n \in 1 .. Len(t) + m : rb[n] = both[(Len(t) + m - n) + 1]
  <2>1. rb \in Seq(S) /\ Len(rb) = Len(t) + m
    BY <1>1, ReverseProperties
  <2>2. \A n \in 1 .. Len(t) + m : rb[n] = both[(Len(t) + m - n) + 1]
    BY <1>1 DEF Reverse
  <2> QED BY <2>1, <2>2
<1> HIDE DEF rs, rb
<1>4. ASSUME NEW n \in 1 .. m PROVE rb[n] = rs[n]
  <2>1. (m - n) + 1 \in 1 .. m /\ n \in 1 .. Len(t) + m
        /\ (Len(t) + m - n) + 1 = Len(t) + ((m - n) + 1)
    BY <1>1
  <2>2. rb[n] = both[Len(t) + ((m - n) + 1)] /\ rs[n] = s[(m - n) + 1]
    BY <1>2, <1>3, <2>1
  <2> QED BY <1>1, <2>1, <2>2
<1>5. SubSeq(rs, 1, m) = SubSeq(rb, 1, m)
  <2>1. /\ SubSeq(rs, 1, m) \in Seq(S) /\ Len(SubSeq(rs, 1, m)) = m
        /\ \A n \in 1 .. m : SubSeq(rs, 1, m)[n] = rs[n]
    BY <1>1, <1>2
  <2>2. /\ SubSeq(rb, 1, m) \in Seq(S) /\ Len(SubSeq(rb, 1, m)) = m
        /\ \A n \in 1 .. m : SubSeq(rb, 1, m)[n] = rb[n]
    BY <1>1, <1>3
  <2> QED BY <1>4, <2>1, <2>2, SeqEqual
<1>6. Len(rs) <= Len(rb)
  BY <1>1, <1>2, <1>3
<1> QED BY <1>2, <1>5, <1>6 DEF IsSuffix, IsPrefix, rs, rb, both

\* Removing what is behind a part of a list.
LEMMA RemoveMiddle ==
    ASSUME NEW S, NEW head \in Seq(S), NEW item \in S, NEW tail \in Seq(S)
    PROVE  RemoveAt(Append(head, item) \o tail, Len(head) + 1) = head \o tail
<1> DEFINE m == Len(head)
           list == Append(head, item) \o tail
           rest == RemoveAt(list, m + 1)
<1>1. /\ m \in Nat /\ Len(tail) \in Nat /\ list \in Seq(S) /\ Len(list) = m + 1 + Len(tail)
      /\ (\A n \in 1 .. m : list[n] = head[n])
      /\ (\A n \in 1 .. Len(tail) : list[m + 1 + n] = tail[n])
  <2>1. m \in Nat /\ Len(tail) \in Nat
    OBVIOUS
  <2> DEFINE more == Append(head, item)
  <2>2. more \in Seq(S) /\ Len(more) = m + 1 /\ \A n \in 1 .. m : more[n] = head[n]
    OBVIOUS
  <2> HIDE DEF more
  <2>3. /\ more \o tail \in Seq(S) /\ Len(more \o tail) = m + 1 + Len(tail)
        /\ (\A n \in 1 .. m + 1 : (more \o tail)[n] = more[n])
        /\ (\A n \in 1 .. Len(tail) : (more \o tail)[m + 1 + n] = tail[n])
    <3> HIDE DEF m
    <3>1. Len(more) = m + 1 /\ more \in Seq(S)
      BY <2>2
    <3>2. /\ more \o tail \in Seq(S) /\ Len(more \o tail) = Len(more) + Len(tail)
          /\ (\A n \in 1 .. Len(more) : (more \o tail)[n] = more[n])
          /\ (\A n \in 1 .. Len(tail) : (more \o tail)[Len(more) + n] = tail[n])
      <4>1. more \o tail \in Seq(S) /\ Len(more \o tail) = Len(more) + Len(tail)
        BY <3>1, JoinProperties
      <4>2. \A n \in 1 .. Len(more) : (more \o tail)[n] = more[n]
        BY <3>1, JoinProperties
      <4>3. \A n \in 1 .. Len(tail) : (more \o tail)[Len(more) + n] = tail[n]
        BY <3>1, JoinProperties
      <4> QED BY <4>1, <4>2, <4>3
    <3> QED BY <3>1, <3>2
  <2>4. \A n \in 1 .. m : n \in 1 .. m + 1
    BY <2>1
  <2> HIDE DEF m
  <2> QED BY <2>1, <2>2, <2>3, <2>4 DEF more
<1> HIDE DEF list
<1>2. /\ rest \in Seq(S) /\ Len(rest) = m + Len(tail)
      /\ \A n \in 1 .. m + Len(tail) : rest[n] = IF n < m + 1 THEN list[n] ELSE list[n + 1]
  <2>1. m + 1 \in 1 .. Len(list) /\ Len(list) - 1 = m + Len(tail)
    BY <1>1
  <2> HIDE DEF m
  <2> QED BY <1>1, <2>1, RemoveAtProperties
<1>3. /\ head \o tail \in Seq(S) /\ Len(head \o tail) = m + Len(tail)
      /\ (\A n \in 1 .. m : (head \o tail)[n] = head[n])
      /\ (\A n \in 1 .. Len(tail) : (head \o tail)[m + n] = tail[n])
  BY JoinProperties
<1> HIDE DEF rest, m
<1>4. ASSUME NEW n \in 1 .. m + Len(tail) PROVE rest[n] = (head \o tail)[n]
  <2>1. CASE n \in 1 .. m
    BY <1>1, <1>2, <1>3, <2>1
  <2>2. CASE n \notin 1 .. m
    <3>1. n - m \in 1 .. Len(tail) /\ m + 1 + (n - m) = n + 1 /\ m + (n - m) = n /\ ~(n < m + 1)
      BY <1>1, <2>2
    <3> DEFINE j == n - m
    <3>2. list[m + 1 + j] = tail[j] /\ (head \o tail)[m + j] = tail[j]
      <4> HIDE DEF j
      <4>1. j \in 1 .. Len(tail)
        BY <3>1 DEF j
      <4> QED BY <1>1, <1>3, <4>1
    <3>3. rest[n] = list[n + 1]
      BY <1>2, <3>1
    <3> QED BY <3>1, <3>2, <3>3
  <2> QED BY <2>1, <2>2
<1>5. rest = head \o tail
  <2> HIDE DEF rest
  <2> QED BY <1>2, <1>3, <1>4, SeqEqual
<1> QED BY <1>5 DEF rest, list, m

\* What it is for F to have what FlattenSeq makes of the first sequences ...
IsFlatten(F, S, parts) ==
    /\ F \in [0 .. Len(parts) -> Seq(S)]
    /\ F[0] = <<>>
    /\ \A k \in 1 .. Len(parts) : F[k] = F[k - 1] \o parts[k]
    /\ FlattenSeq(parts) = F[Len(parts)]

\* ... and there is such an F.
LEMMA FlattenSteps ==
    ASSUME NEW S, NEW parts \in Seq(Seq(S))
    PROVE  \E F : IsFlatten(F, S, parts)
<1> DEFINE n == Len(parts)
           T == Seq(S)
           op(s, m) == s \o parts[m]
           step == [a \in T \X (1 .. n) |-> op(a[1], a[2])]
<1>1. n \in Nat /\ DOMAIN parts = 1 .. n /\ (\A m \in 1 .. n : parts[m] \in T) /\ <<>> \in T
      /\ (n = 0 => parts = <<>>)
  <2>1. parts \in Seq(T)
    OBVIOUS
  <2> QED BY <2>1
<1>0. ASSUME NEW s \in T, NEW m \in 1 .. n PROVE op(s, m) \in T
  <2>1. parts[m] \in T
    BY <1>1
  <2> QED BY <2>1
<1>2. step \in Steps(n, T)
  <2> HIDE DEF op, T, n
  <2> QED BY <1>0 DEF Steps
<1>3. PICK g \in [SUBSET (1 .. n) -> T] :
          \A s \in SUBSET (1 .. n) :
             g[s] = IF s = {} THEN <<>> ELSE step[<<g[s \ {Max(s)}], Max(s)>>]
  <2>1. \E g : IsFold(g, n, T, <<>>, step)
    <3> HIDE DEF step, n, T
    <3> QED BY <1>1, <1>2, FoldExists
  <2> HIDE DEF T, step
  <2> QED BY <2>1 DEF IsFold
<1> DEFINE G == [k \in 0 .. n |-> g[1 .. k]]
<1>4. G \in [0 .. n -> T] /\ G[0] = <<>>
  <2>1. \A k \in 0 .. n : 1 .. k \in SUBSET (1 .. n)
    BY <1>1
  <2>2. 1 .. 0 = {} /\ 0 \in 0 .. n
    BY <1>1
  <2> HIDE DEF T, step
  <2> QED BY <1>3, <2>1, <2>2
<1>5. ASSUME NEW k \in 1 .. n PROVE G[k] = op(G[k - 1], k)
  <2>1. /\ 1 .. k \in SUBSET (1 .. n) /\ 1 .. k # {}
        /\ (1 .. k) \ {Max(1 .. k)} = 1 .. k - 1 /\ Max(1 .. k) = k
    BY <1>1, InitialSegments
  <2>2. g[1 .. k] = step[<<g[1 .. k - 1], k>>]
    <3> HIDE DEF T, step
    <3> QED BY <1>3, <2>1
  <2>3. g[1 .. k - 1] \in T
    <3>1. 1 .. k - 1 \in SUBSET (1 .. n)
      BY <1>1
    <3> HIDE DEF T, step
    <3> QED BY <1>3, <3>1
  <2>4. step[<<g[1 .. k - 1], k>>] = op(g[1 .. k - 1], k)
    <3> HIDE DEF T, op
    <3> QED BY <2>3
  <2>5. G[k] = g[1 .. k] /\ G[k - 1] = g[1 .. k - 1]
    BY <1>1
  <2> HIDE DEF G, op, step, T
  <2> QED BY <2>2, <2>4, <2>5
<1> HIDE DEF G
<1> DEFINE Is(h) == h = [i \in 1 .. n |-> IF i = 1 THEN parts[i] ELSE h[i - 1] \o parts[i]]
           flatten == CHOOSE h : Is(h)
           E == [i \in 1 .. n |-> G[i]]
<1>6. Is(E)
  <2>1. ASSUME NEW i \in 1 .. n PROVE E[i] = IF i = 1 THEN parts[i] ELSE E[i - 1] \o parts[i]
    <3>1. CASE i = 1
      <4> DEFINE part == parts[1]
      <4>1. part \in T
        BY <1>1, <3>1
      <4>2. <<>> \o part = part
        <5> HIDE DEF part
        <5> QED BY <4>1
      <4>3. 1 - 1 = 0
        OBVIOUS
      <4> QED BY <1>4, <1>5, <3>1, <4>2, <4>3
    <3>2. CASE i # 1
      <4>1. i - 1 \in 1 .. n
        BY <1>1, <3>2
      <4> QED BY <1>5, <3>2, <4>1
    <3> QED BY <3>1, <3>2
  <2> HIDE DEF T
  <2> QED BY <2>1
<1>7. Is(flatten)
  <2> HIDE DEF Is
  <2> QED BY <1>6
<1>8. FlattenSeq(parts) = IF n = 0 THEN parts ELSE flatten[n]
  BY DEF FlattenSeq
<1> HIDE DEF flatten, E
<1>9. FlattenSeq(parts) = G[n]
  <2>1. CASE n = 0
    BY <1>1, <1>4, <1>8, <2>1
  <2>2. CASE n # 0
    <3> DEFINE V == [k \in 0 .. n |-> IF k = 0 THEN <<>> ELSE flatten[k]]
    <3>1. V[0] = G[0]
      BY <1>1, <1>4
    <3>2. ASSUME NEW k \in 1 .. n, V[k - 1] = G[k - 1] PROVE V[k] = G[k]
      <4>1. V[k] = flatten[k] /\ k - 1 \in 0 .. n
        BY <1>1
      <4>2. flatten[k] = IF k = 1 THEN parts[k] ELSE flatten[k - 1] \o parts[k]
        BY <1>7
      <4>3. CASE k = 1
        <5> DEFINE part == parts[1]
        <5>1. part \in T
          BY <1>1, <4>3
        <5>2. <<>> \o part = part
          <6> HIDE DEF part
          <6> QED BY <5>1
        <5>3. 1 - 1 = 0
          OBVIOUS
        <5> QED BY <1>4, <1>5, <4>1, <4>2, <4>3, <5>2, <5>3
      <4>4. CASE k # 1
        <5>1. V[k - 1] = flatten[k - 1]
          BY <4>1, <4>4
        <5> HIDE DEF V
        <5> QED BY <1>5, <3>2, <4>1, <4>2, <4>4, <5>1
      <4> QED BY <4>3, <4>4
    <3>3. V[n] = G[n]
      <4> HIDE DEF V, n
      <4> QED BY <1>1, <3>1, <3>2, SameSteps
    <3>4. V[n] = flatten[n]
      BY <1>1, <2>2
    <3> QED BY <1>8, <2>2, <3>3, <3>4
  <2> QED BY <2>1, <2>2
<1> QED BY <1>4, <1>5, <1>9 DEF IsFlatten

\* What is in one of two sequences is in both put together.
LEMMA ToSetJoin ==
    ASSUME NEW S, NEW t \in Seq(S), NEW s \in Seq(S)
    PROVE  ToSet(t \o s) = ToSet(t) \cup ToSet(s)
<1> DEFINE both == t \o s
           m == Len(t)
           n == Len(s)
<1>1. /\ both \in Seq(S) /\ Len(both) = m + n /\ m \in Nat /\ n \in Nat
      /\ (\A k \in 1 .. m : both[k] = t[k]) /\ (\A k \in 1 .. n : both[m + k] = s[k])
      /\ DOMAIN t = 1 .. m /\ DOMAIN s = 1 .. n
  BY JoinProperties, LenProperties
<1>2. DOMAIN both = 1 .. m + n
  <2> HIDE DEF both, m, n
  <2> QED BY <1>1, LenProperties
<1> HIDE DEF both, m, n
<1>3. ASSUME NEW k \in 1 .. m + n PROVE both[k] \in ToSet(t) \cup ToSet(s)
  <2>1. CASE k \in 1 .. m
    BY <1>1, <2>1 DEF ToSet
  <2>2. CASE k \notin 1 .. m
    <3>1. k - m \in 1 .. n /\ m + (k - m) = k
      BY <1>1, <2>2
    <3>2. both[m + (k - m)] = s[k - m]
      BY <1>1, <3>1
    <3> QED BY <1>1, <3>1, <3>2 DEF ToSet
  <2> QED BY <2>1, <2>2
<1>4. ASSUME NEW k \in 1 .. m PROVE t[k] \in ToSet(both)
  <2>1. k \in 1 .. m + n /\ both[k] = t[k]
    BY <1>1
  <2> QED BY <1>2, <2>1 DEF ToSet
<1>5. ASSUME NEW k \in 1 .. n PROVE s[k] \in ToSet(both)
  <2>1. m + k \in 1 .. m + n /\ both[m + k] = s[k]
    BY <1>1
  <2> QED BY <1>2, <2>1 DEF ToSet
<1>6. ToSet(both) \subseteq ToSet(t) \cup ToSet(s)
  BY <1>2, <1>3 DEF ToSet
<1>7. ToSet(t) \subseteq ToSet(both) /\ ToSet(s) \subseteq ToSet(both)
  BY <1>1, <1>4, <1>5 DEF ToSet
<1>8. ToSet(both) = ToSet(t) \cup ToSet(s)
  BY <1>6, <1>7
<1> QED BY <1>8 DEF both

\* FlattenSeq has the items of every sequence.
LEMMA FlattenProperties ==
    ASSUME NEW S, NEW parts \in Seq(Seq(S))
    PROVE  /\ FlattenSeq(parts) \in Seq(S)
           /\ ToSet(FlattenSeq(parts)) = UNION {ToSet(parts[k]) : k \in 1 .. Len(parts)}
<1> DEFINE n == Len(parts)
           T == Seq(S)
<1>1. n \in Nat /\ n \in 0 .. n /\ \A k \in 1 .. n : parts[k] \in T
  <2>1. parts \in Seq(T)
    OBVIOUS
  <2> HIDE DEF T
  <2> QED BY <2>1
<1>2. PICK F : IsFlatten(F, S, parts)
  BY FlattenSteps
<1>3. /\ \A k \in 0 .. n : F[k] \in T
      /\ F[0] = <<>> /\ FlattenSeq(parts) = F[n]
      /\ \A k \in 1 .. n : F[k] = F[k - 1] \o parts[k]
  BY <1>2 DEF IsFlatten
<1> DEFINE Upto(k) == UNION {ToSet(parts[j]) : j \in 1 .. k}
           A == [k \in 0 .. n |-> ToSet(F[k])]
           B == [k \in 0 .. n |-> Upto(k)]
<1>4. A[0] = B[0]
  <2>1. ToSet(<<>>) = {} /\ Upto(0) = {} /\ 0 \in 0 .. n
    BY <1>1 DEF ToSet
  <2> HIDE DEF Upto
  <2> QED BY <1>3, <2>1
<1>5. ASSUME NEW k \in 1 .. n, A[k - 1] = B[k - 1] PROVE A[k] = B[k]
  <2>1. k \in 0 .. n /\ k - 1 \in 0 .. n
    BY <1>1
  <2>2. ToSet(F[k]) = ToSet(F[k - 1]) \cup ToSet(parts[k])
    <3> DEFINE t == F[k - 1]
               s == parts[k]
    <3>1. t \in Seq(S) /\ s \in Seq(S) /\ F[k] = t \o s
      BY <1>1, <1>3, <2>1
    <3> HIDE DEF t, s
    <3>2. ToSet(t \o s) = ToSet(t) \cup ToSet(s)
      BY <3>1, ToSetJoin
    <3> QED BY <3>1, <3>2 DEF t, s
  <2>3. Upto(k) = Upto(k - 1) \cup ToSet(parts[k])
    <3>1. \A j : j \in 1 .. k <=> j \in 1 .. k - 1 \/ j = k
      BY <1>1
    <3> QED BY <3>1
  <2>4. ToSet(F[k - 1]) = Upto(k - 1)
    <3> HIDE DEF Upto
    <3> QED BY <1>5, <2>1
  <2> HIDE DEF Upto
  <2> QED BY <2>1, <2>2, <2>3, <2>4
<1>6. A[n] = B[n]
  <2> HIDE DEF A, B, n
  <2> QED BY <1>1, <1>4, <1>5, SameSteps
<1>7. ToSet(F[n]) = Upto(n)
  <2> HIDE DEF Upto
  <2> QED BY <1>1, <1>6
<1> QED BY <1>1, <1>3, <1>7

\* One sequence more is flattened behind the others.
LEMMA FlattenAppend ==
    ASSUME NEW S, NEW parts \in Seq(Seq(S)), NEW x \in Seq(S)
    PROVE  FlattenSeq(Append(parts, x)) = FlattenSeq(parts) \o x
<1> DEFINE more == Append(parts, x)
           n == Len(parts)
<1>1. /\ more \in Seq(Seq(S)) /\ Len(more) = n + 1 /\ n \in Nat /\ more[n + 1] = x
      /\ \A k \in 1 .. n : more[k] = parts[k]
  OBVIOUS
<1> HIDE DEF more
<1>2. PICK F : IsFlatten(F, S, parts)
  BY FlattenSteps
<1>3. PICK E : IsFlatten(E, S, more)
  BY <1>1, FlattenSteps
<1>f. /\ F[0] = <<>> /\ FlattenSeq(parts) = F[n]
      /\ \A k \in 1 .. n : F[k] = F[k - 1] \o parts[k]
  BY <1>2 DEF IsFlatten
<1>e. /\ E[0] = <<>> /\ FlattenSeq(more) = E[n + 1]
      /\ \A k \in 1 .. n + 1 : E[k] = E[k - 1] \o more[k]
  <2> HIDE DEF n
  <2> QED BY <1>1, <1>3 DEF IsFlatten
<1>4. F[n] = E[n]
  <2> HIDE DEF n
  <2>1. \A k \in 1 .. n : k \in 1 .. n + 1 /\ more[k] = parts[k]
    BY <1>1
  <2>2. F[0] = E[0] /\ \A k \in 1 .. n : F[k - 1] = E[k - 1] => F[k] = E[k]
    BY <1>f, <1>e, <2>1
  <2> QED BY <1>1, <2>2, SameSteps
<1>5. E[n + 1] = E[n] \o x
  <2> HIDE DEF n
  <2>1. n + 1 \in 1 .. n + 1 /\ n + 1 - 1 = n
    BY <1>1
  <2>2. ASSUME NEW m \in 1 .. n + 1, m = n + 1 PROVE E[m] = E[n] \o x
    <3>1. E[m] = E[m - 1] \o more[m]
      BY <1>e
    <3>2. m - 1 = n /\ more[m] = x
      BY <1>1, <2>2
    <3> QED BY <3>1, <3>2
  <2> QED BY <2>1, <2>2
<1> QED BY <1>4, <1>5, <1>e, <1>f DEF more

\* One item more in one of the sequences is one item more.
LEMMA FlattenLonger ==
    ASSUME NEW S, NEW parts \in Seq(Seq(S)), NEW more \in Seq(Seq(S)), NEW p \in 1 .. Len(parts),
           Len(more) = Len(parts), Len(more[p]) = Len(parts[p]) + 1,
           \A k \in 1 .. Len(parts) : k # p => more[k] = parts[k]
    PROVE  Len(FlattenSeq(more)) = Len(FlattenSeq(parts)) + 1
<1> DEFINE n == Len(parts)
           T == Seq(S)
<1>1. /\ n \in Nat /\ n \in 0 .. n
      /\ \A k \in 1 .. n : parts[k] \in T /\ more[k] \in T
  <2>1. parts \in Seq(T) /\ more \in Seq(T)
    OBVIOUS
  <2> HIDE DEF T
  <2> QED BY <2>1
<1>2. PICK F : IsFlatten(F, S, parts)
  BY FlattenSteps
<1>3. PICK E : IsFlatten(E, S, more)
  BY FlattenSteps
<1>4. /\ \A k \in 0 .. n : F[k] \in T /\ E[k] \in T
      /\ F[0] = <<>> /\ E[0] = <<>>
      /\ FlattenSeq(parts) = F[n] /\ FlattenSeq(more) = E[n]
      /\ \A k \in 1 .. n : F[k] = F[k - 1] \o parts[k] /\ E[k] = E[k - 1] \o more[k]
  BY <1>2, <1>3 DEF IsFlatten
<1>5. /\ \A k \in 0 .. n : Len(F[k]) \in Nat /\ Len(E[k]) \in Nat
      /\ \A k \in 1 .. n : Len(parts[k]) \in Nat /\ Len(more[k]) \in Nat
      /\ \A k \in 1 .. n : /\ Len(F[k]) = Len(F[k - 1]) + Len(parts[k])
                           /\ Len(E[k]) = Len(E[k - 1]) + Len(more[k])
  <2>1. \A t \in T : Len(t) \in Nat
    OBVIOUS
  <2>2. \A t, s \in T : Len(t \o s) = Len(t) + Len(s)
    OBVIOUS
  <2>3. \A k \in 1 .. n : k - 1 \in 0 .. n
    BY <1>1
  <2> HIDE DEF T, n
  <2>4. \A k \in 0 .. n : Len(F[k]) \in Nat /\ Len(E[k]) \in Nat
    BY <1>4, <2>1
  <2>5. \A k \in 1 .. n : Len(parts[k]) \in Nat /\ Len(more[k]) \in Nat
    BY <1>1, <2>1
  <2>6. ASSUME NEW k \in 1 .. n
        PROVE  /\ Len(F[k]) = Len(F[k - 1]) + Len(parts[k])
               /\ Len(E[k]) = Len(E[k - 1]) + Len(more[k])
    <3>1. /\ F[k - 1] \in T /\ E[k - 1] \in T
          /\ F[k] = F[k - 1] \o parts[k] /\ E[k] = E[k - 1] \o more[k]
      BY <1>4, <2>3
    <3>2. parts[k] \in T /\ more[k] \in T
      BY <1>1
    <3> QED BY <2>2, <3>1, <3>2
  <2> QED BY <2>4, <2>5, <2>6
<1> DEFINE A == [k \in 0 .. n |-> Len(E[k])]
           B == [k \in 0 .. n |-> IF k < p THEN Len(F[k]) ELSE Len(F[k]) + 1]
<1> HIDE DEF T
<1>6. A[0] = B[0]
  <2>1. 0 \in 0 .. n /\ 0 < p
    BY <1>1
  <2> QED BY <1>4, <2>1
<1>7. ASSUME NEW k \in 1 .. n, A[k - 1] = B[k - 1] PROVE A[k] = B[k]
  <2>1. k \in 0 .. n /\ k - 1 \in 0 .. n
    BY <1>1
  <2>2. Len(E[k - 1]) = IF k - 1 < p THEN Len(F[k - 1]) ELSE Len(F[k - 1]) + 1
    BY <1>7, <2>1
  <2>3. Len(more[k]) = IF k = p THEN Len(parts[k]) + 1 ELSE Len(parts[k])
    BY <1>1
  <2> DEFINE e == Len(E[k])
             e0 == Len(E[k - 1])
             f == Len(F[k])
             f0 == Len(F[k - 1])
             a == Len(parts[k])
             b == Len(more[k])
  <2>4. /\ e \in Nat /\ e0 \in Nat /\ f \in Nat /\ f0 \in Nat /\ a \in Nat /\ b \in Nat
        /\ f = f0 + a /\ e = e0 + b
        /\ e0 = (IF k - 1 < p THEN f0 ELSE f0 + 1) /\ b = (IF k = p THEN a + 1 ELSE a)
    BY <1>5, <2>1, <2>2, <2>3
  <2>5. A[k] = e /\ B[k] = IF k < p THEN f ELSE f + 1
    BY <2>1
  <2>6. k \in Int /\ p \in Int
    BY <1>1
  <2> HIDE DEF e, e0, f, f0, a, b, A, B
  <2>7. e = IF k < p THEN f ELSE f + 1
    BY <2>4, <2>6
  <2> QED BY <2>5, <2>7
<1>8. A[n] = B[n]
  <2> HIDE DEF A, B, n
  <2> QED BY <1>1, <1>6, <1>7, SameSteps
<1>9. ~(n < p)
  BY <1>1
<1>10. Len(E[n]) = Len(F[n]) + 1
  BY <1>1, <1>8, <1>9
<1> QED BY <1>4, <1>10

-----------------------------------------------------------------------------
\* What three sequences put together are.
LEMMA ThreeParts ==
    ASSUME NEW S, NEW u \in Seq(S), NEW x \in Seq(S), NEW v \in Seq(S)
    PROVE  /\ u \o x \o v \in Seq(S) /\ Len(u \o x \o v) = Len(u) + Len(x) + Len(v)
           /\ \A n \in 1 .. Len(u) + Len(x) + Len(v) :
                 (u \o x \o v)[n] = IF n <= Len(u) THEN u[n]
                                    ELSE IF n <= Len(u) + Len(x) THEN x[n - Len(u)]
                                    ELSE v[n - (Len(u) + Len(x))]
<1> DEFINE w == u \o x
           s == w \o v
<1>1. /\ w \in Seq(S) /\ Len(w) = Len(u) + Len(x)
      /\ \A n \in 1 .. Len(u) + Len(x) : w[n] = IF n <= Len(u) THEN u[n] ELSE x[n - Len(u)]
  BY ConcatProperties
<1> HIDE DEF w
<1>2. /\ s \in Seq(S) /\ Len(s) = Len(w) + Len(v)
      /\ \A n \in 1 .. Len(w) + Len(v) : s[n] = IF n <= Len(w) THEN w[n] ELSE v[n - Len(w)]
  <2>1. w \in Seq(S)
    BY <1>1
  <2> QED BY <2>1, ConcatProperties
<1> HIDE DEF s
<1>3. Len(u) \in Nat /\ Len(x) \in Nat /\ Len(v) \in Nat
  BY LenProperties
<1>4. s \in Seq(S) /\ Len(s) = Len(u) + Len(x) + Len(v)
      /\ \A n \in 1 .. Len(u) + Len(x) + Len(v) :
            s[n] = IF n <= Len(u) THEN u[n]
                   ELSE IF n <= Len(u) + Len(x) THEN x[n - Len(u)]
                   ELSE v[n - (Len(u) + Len(x))]
  BY <1>1, <1>2, <1>3
<1> QED BY <1>4 DEF s, w

\* Removing from a part of a list is removing from the list.
LEMMA RemoveFromPart ==
    ASSUME NEW S, NEW u \in Seq(S), NEW x \in Seq(S), NEW v \in Seq(S), NEW p \in 1 .. Len(x)
    PROVE  /\ Len(u) + p \in 1 .. Len(u \o x \o v)
           /\ RemoveAt(u \o x \o v, Len(u) + p) = u \o RemoveAt(x, p) \o v
<1> DEFINE y == RemoveAt(x, p)
           s == u \o x \o v
           r == u \o y \o v
           d == RemoveAt(s, Len(u) + p)
           a == Len(u)
           b == Len(x)
           c == Len(v)
<1>0. a \in Nat /\ b \in Nat /\ c \in Nat /\ p \in Nat /\ 1 <= p /\ p <= b
  BY LenProperties
<1>1. /\ y \in Seq(S) /\ Len(y) = b - 1
      /\ \A n \in 1 .. b - 1 : y[n] = IF n < p THEN x[n] ELSE x[n + 1]
  BY RemoveAtProperties
<1>2. /\ s \in Seq(S) /\ Len(s) = a + b + c
      /\ \A n \in 1 .. a + b + c : s[n] = IF n <= a THEN u[n]
                                          ELSE IF n <= a + b THEN x[n - a] ELSE v[n - (a + b)]
  BY ThreeParts
<1> HIDE DEF y, s
<1>3. /\ r \in Seq(S) /\ Len(r) = a + Len(y) + c
      /\ \A n \in 1 .. a + Len(y) + c :
            r[n] = IF n <= a THEN u[n]
                   ELSE IF n <= a + Len(y) THEN y[n - a] ELSE v[n - (a + Len(y))]
  <2>1. y \in Seq(S)
    BY <1>1
  <2> QED BY <2>1, ThreeParts
<1> HIDE DEF r, a, b, c
<1>4. a + p \in 1 .. Len(s)
  BY <1>0, <1>2
<1>5. /\ d \in Seq(S) /\ Len(d) = Len(s) - 1
      /\ \A n \in 1 .. Len(s) - 1 : d[n] = IF n < a + p THEN s[n] ELSE s[n + 1]
  BY <1>2, <1>4, RemoveAtProperties DEF a
<1> HIDE DEF d
<1>6. Len(r) = (a + b + c) - 1 /\ Len(d) = (a + b + c) - 1
  BY <1>0, <1>1, <1>2, <1>3, <1>5
<1>7. ASSUME NEW n \in 1 .. (a + b + c) - 1 PROVE d[n] = r[n]
  <2>1. n \in Nat /\ 1 <= n /\ n <= (a + b + c) - 1 /\ n \in 1 .. a + b + c
        /\ n + 1 \in 1 .. a + b + c /\ n \in 1 .. a + Len(y) + c /\ n \in 1 .. Len(s) - 1
    BY <1>0, <1>1, <1>2
  <2>2. d[n] = IF n < a + p THEN s[n] ELSE s[n + 1]
    BY <1>5, <2>1
  <2>3. r[n] = IF n <= a THEN u[n]
               ELSE IF n <= a + (b - 1) THEN y[n - a] ELSE v[n - (a + (b - 1))]
    BY <1>1, <1>3, <2>1
  <2>4. s[n] = IF n <= a THEN u[n] ELSE IF n <= a + b THEN x[n - a] ELSE v[n - (a + b)]
    BY <1>2, <2>1
  <2>5. s[n + 1] = IF n + 1 <= a THEN u[n + 1]
                   ELSE IF n + 1 <= a + b THEN x[(n + 1) - a] ELSE v[(n + 1) - (a + b)]
    BY <1>2, <2>1
  <2>6. CASE n <= a
    BY <1>0, <2>1, <2>2, <2>3, <2>4, <2>6
  <2>7. CASE n > a /\ n <= a + (b - 1)
    <3>1. n - a \in 1 .. b - 1 /\ (n - a) + 1 = (n + 1) - a
      BY <1>0, <2>1, <2>7
    <3>2. y[n - a] = IF n - a < p THEN x[n - a] ELSE x[(n + 1) - a]
      BY <1>1, <3>1
    <3> QED BY <1>0, <2>1, <2>2, <2>3, <2>4, <2>5, <2>7, <3>2
  <2>8. CASE n > a + (b - 1)
    <3>1. n - (a + (b - 1)) = (n + 1) - (a + b) /\ ~(n < a + p) /\ ~(n <= a) /\ ~(n + 1 <= a + b)
          /\ ~(n + 1 <= a) /\ ~(n <= a + (b - 1))
      BY <1>0, <2>1, <2>8
    <3> QED BY <2>2, <2>3, <2>5, <3>1
  <2> QED BY <1>0, <2>1, <2>6, <2>7, <2>8
<1>8. d = r
  <2>1. DOMAIN d = 1 .. (a + b + c) - 1 /\ DOMAIN r = 1 .. (a + b + c) - 1
    BY <1>3, <1>5, <1>6, LenProperties
  <2> QED BY <1>3, <1>5, <1>6, <1>7, SeqEqual
<1> QED BY <1>4, <1>8 DEF d, r, s, y, a

\* Inserting between two parts of a list.
LEMMA InsertBetween ==
    ASSUME NEW S, NEW u \in Seq(S), NEW e \in S, NEW v \in Seq(S)
    PROVE  InsertAt(u \o v, Len(u) + 1, e) = u \o (<<e>> \o v)
<1> DEFINE s == u \o v
           a == Len(u)
           b == Len(v)
<1>1. /\ s \in Seq(S) /\ Len(s) = a + b /\ a \in Nat /\ b \in Nat
      /\ (\A n \in 1 .. a : s[n] = u[n]) /\ (\A n \in 1 .. b : s[a + n] = v[n])
  BY JoinProperties, LenProperties
<1> HIDE DEF s
<1>2. SubSeq(s, 1, a) = u
  <2>1. SubSeq(s, 1, a) \in Seq(S) /\ Len(SubSeq(s, 1, a)) = a
        /\ \A n \in 1 .. a : SubSeq(s, 1, a)[n] = s[n]
    <3> HIDE DEF a
    <3> QED BY <1>1
  <2> QED BY <1>1, <2>1, SeqEqual
<1>3. SubSeq(s, a + 1, a + b) = v
  <2>1. /\ SubSeq(s, a + 1, a + b) \in Seq(S) /\ Len(SubSeq(s, a + 1, a + b)) = b
        /\ \A n \in 1 .. b : SubSeq(s, a + 1, a + b)[n] = s[a + n]
    <3> HIDE DEF a, b
    <3>1. s \in Seq(S) /\ a + b = Len(s) /\ a + 1 \in 1 .. Len(s) + 1
      BY <1>1
    <3>2. /\ SubSeq(s, a + 1, a + b) \in Seq(S)
          /\ Len(SubSeq(s, a + 1, a + b)) = IF a + 1 <= a + b THEN (a + b) - (a + 1) + 1 ELSE 0
          /\ \A n \in 1 .. (a + b) - (a + 1) + 1 : SubSeq(s, a + 1, a + b)[n] = s[(a + 1) + n - 1]
      <4>1. \A n \in a + 1 .. a + b : s[n] \in S
        BY <1>1
      <4> QED BY <1>1, <3>1, <4>1, SubSeqProperties
    <3>3. (a + b) - (a + 1) + 1 = b /\ (~(a + 1 <= a + b) => b = 0)
          /\ \A n \in 1 .. b : (a + 1) + n - 1 = a + n
      BY <1>1
    <3> QED BY <3>2, <3>3
  <2> QED BY <1>1, <2>1, SeqEqual
<1>4. InsertAt(s, a + 1, e) = SubSeq(s, 1, (a + 1) - 1) \o <<e>> \o SubSeq(s, a + 1, Len(s))
  BY DEF InsertAt
<1>5. (a + 1) - 1 = a
  BY <1>1
<1>6. <<e>> \in Seq(S)
  BY OneItem
<1>7. (u \o <<e>>) \o v = u \o (<<e>> \o v)
  BY <1>6, ConcatAssociative
<1> QED BY <1>1, <1>2, <1>3, <1>4, <1>5, <1>7 DEF s, a

\* F joins the q sequences of next to front, B joins them to nothing ...
JoinAlike(F, B, next, front, q, S) ==
    /\ q \in Nat /\ front \in Seq(S) /\ F[0] = front /\ B[0] = <<>>
    /\ \A k \in 0 .. q : B[k] \in Seq(S)
    /\ \A k \in 1 .. q : next[k] \in Seq(S) /\ F[k] = F[k - 1] \o next[k] /\ B[k] = B[k - 1] \o next[k]

\* ... and what F has in the end is what B has, put behind front.
LEMMA JoinedBehind ==
    ASSUME NEW S, NEW q, NEW F, NEW B, NEW next, NEW front, JoinAlike(F, B, next, front, q, S)
    PROVE  F[q] = front \o B[q]
<1>0. \A a, b, c \in Seq(S) : (a \o b) \o c = a \o (b \o c)
  BY ConcatAssociative
<1> USE DEF JoinAlike
<1> DEFINE D == [k \in 0 .. q |-> front \o B[k]]
<1>1. D[0] = F[0]
  <2>1. front \o <<>> = front
    BY ConcatEmptySeq
  <2> QED BY <2>1
<1>2. ASSUME NEW k \in 1 .. q, F[k - 1] = D[k - 1] PROVE F[k] = D[k]
  <2>1. k \in 0 .. q /\ k - 1 \in 0 .. q
    OBVIOUS
  <2>2. F[k] = (front \o B[k - 1]) \o next[k] /\ D[k] = front \o (B[k - 1] \o next[k])
    BY <1>2, <2>1
  <2>3. B[k - 1] \in Seq(S) /\ next[k] \in Seq(S)
    BY <2>1
  <2> HIDE DEF D
  <2>4. (front \o B[k - 1]) \o next[k] = front \o (B[k - 1] \o next[k])
    BY <1>0, <2>3, Zenon
  <2> QED BY <2>2, <2>4
<1>3. F[q] = D[q]
  <2> HIDE DEF D
  <2> QED BY <1>1, <1>2, SameSteps
<1>4. q \in 0 .. q
  OBVIOUS
<1> QED BY <1>3, <1>4

\* The sequences before the p-th and those behind it.
PartsBefore(parts, p) == [k \in 1 .. p - 1 |-> parts[k]]
PartsBehind(parts, p) == [k \in 1 .. Len(parts) - p |-> parts[p + k]]

\* Sequences joined up to the p-th, from the p-th on and from the one behind it on.
LEMMA FlattenAround ==
    ASSUME NEW S, NEW parts \in Seq(Seq(S)), NEW p \in 1 .. Len(parts), NEW x \in Seq(S)
    PROVE  FlattenSeq([parts EXCEPT ![p] = x])
               = FlattenSeq(PartsBefore(parts, p)) \o x \o FlattenSeq(PartsBehind(parts, p))
<1> DEFINE T == Seq(S)
           n == Len(parts)
           q == n - p
           before == [k \in 1 .. p - 1 |-> parts[k]]
           behind == [k \in 1 .. q |-> parts[p + k]]
           all == [parts EXCEPT ![p] = x]
<1>1. /\ n \in Nat /\ DOMAIN parts = 1 .. n /\ (\A k \in 1 .. n : parts[k] \in T)
      /\ q \in Nat /\ p \in Nat /\ p - 1 \in Nat /\ 1 <= p /\ p <= n /\ p + q = n
  <2>1. parts \in Seq(T)
    OBVIOUS
  <2> QED BY <2>1
<1>2. before \in Seq(T) /\ Len(before) = p - 1
  <2>1. \A k \in 1 .. p - 1 : k \in 1 .. n
    BY <1>1
  <2>2. before \in [1 .. p - 1 -> T]
    <3> HIDE DEF T, n
    <3> QED BY <1>1, <2>1
  <2> HIDE DEF before
  <2> DEFINE m == p - 1
  <2>3. m \in Nat /\ before \in [1 .. m -> T]
    BY <1>1, <2>2
  <2> HIDE DEF T, m
  <2>4. before \in Seq(T) /\ Len(before) = m
    BY <2>3
  <2> QED BY <2>4 DEF m
<1>3. behind \in Seq(T) /\ Len(behind) = q
  <2>1. \A k \in 1 .. q : p + k \in 1 .. n
    BY <1>1
  <2>2. behind \in [1 .. q -> T]
    <3> HIDE DEF T, n, q
    <3> QED BY <1>1, <2>1
  <2> HIDE DEF behind, T, q
  <2> QED BY <1>1, <2>2
<1>4. /\ all \in Seq(T) /\ Len(all) = n /\ all[p] = x
      /\ \A k \in 1 .. n : k # p => all[k] = parts[k]
  <2>1. x \in T /\ parts \in Seq(T)
    OBVIOUS
  <2> HIDE DEF T
  <2> QED BY <2>1
<1>5. PICK A : IsFlatten(A, S, before)
  BY <1>2, FlattenSteps
<1>6. PICK B : IsFlatten(B, S, behind)
  BY <1>3, FlattenSteps
<1>7. PICK F : IsFlatten(F, S, all)
  BY <1>4, FlattenSteps
<1>8. /\ (\A k \in 0 .. p - 1 : A[k] \in T) /\ A[0] = <<>> /\ FlattenSeq(before) = A[p - 1]
      /\ \A k \in 1 .. p - 1 : A[k] = A[k - 1] \o parts[k]
  <2>1. \A k \in 1 .. p - 1 : before[k] = parts[k]
    OBVIOUS
  <2> HIDE DEF before
  <2> QED BY <1>2, <1>5, <2>1 DEF IsFlatten
<1>9. /\ (\A k \in 0 .. q : B[k] \in T) /\ B[0] = <<>> /\ FlattenSeq(behind) = B[q]
      /\ \A k \in 1 .. q : B[k] = B[k - 1] \o parts[p + k]
  <2>1. \A k \in 1 .. q : behind[k] = parts[p + k]
    OBVIOUS
  <2> HIDE DEF behind, q
  <2> QED BY <1>3, <1>6, <2>1 DEF IsFlatten
<1>10. /\ (\A k \in 0 .. n : F[k] \in T) /\ F[0] = <<>> /\ FlattenSeq(all) = F[n]
       /\ \A k \in 1 .. n : F[k] = F[k - 1] \o all[k]
  <2> HIDE DEF all, n
  <2> QED BY <1>4, <1>7 DEF IsFlatten
<1> DEFINE head == A[p - 1]
           ux == head \o x
<1> HIDE DEF T, n, before, behind, all, q
<1>11. F[p - 1] = head
  <2>1. ASSUME NEW k \in 1 .. p - 1, F[k - 1] = A[k - 1] PROVE F[k] = A[k]
    <3>1. k \in 1 .. n /\ k # p
      BY <1>1
    <3> QED BY <1>4, <1>8, <1>10, <2>1, <3>1
  <2>2. F[0] = A[0]
    BY <1>8, <1>10
  <2> QED BY <1>1, <2>1, <2>2, SameSteps
<1>12. F[p] = ux
  <2>1. p \in 1 .. n
    BY <1>1
  <2> QED BY <1>4, <1>10, <1>11, <2>1
<1>13. head \in Seq(S) /\ ux \in Seq(S)
  <2>1. p - 1 \in 0 .. p - 1
    BY <1>1
  <2>2. head \in Seq(S)
    BY <1>8, <2>1 DEF T
  <2> HIDE DEF head
  <2> QED BY <2>2
<1> HIDE DEF head, ux
<1> DEFINE C == [k \in 0 .. q |-> F[p + k]]
           next == [k \in 1 .. q |-> parts[p + k]]
<1>14. C[q] = ux \o B[q]
  <2>1. C[0] = ux
    <3>1. 0 \in 0 .. q /\ p + 0 = p
      BY <1>1
    <3> QED BY <1>12, <3>1
  <2>2. ASSUME NEW k \in 1 .. q
        PROVE  /\ next[k] \in Seq(S) /\ C[k] = C[k - 1] \o next[k] /\ B[k] = B[k - 1] \o next[k]
    <3>1. k \in 0 .. q /\ k - 1 \in 0 .. q /\ p + k \in 1 .. n /\ p + k # p
          /\ (p + k) - 1 = p + (k - 1)
      BY <1>1
    <3>2. F[p + k] = F[p + (k - 1)] \o parts[p + k]
      BY <1>4, <1>10, <3>1
    <3>3. next[k] = parts[p + k] /\ parts[p + k] \in Seq(S)
      BY <1>1, <3>1 DEF T
    <3> QED BY <1>9, <3>1, <3>2, <3>3
  <2>3. \A k \in 0 .. q : B[k] \in Seq(S)
    BY <1>9 DEF T
  <2> HIDE DEF C, next
  <2>4. /\ q \in Nat /\ ux \in Seq(S) /\ C[0] = ux /\ B[0] = <<>>
        /\ \A k \in 0 .. q : B[k] \in Seq(S)
        /\ \A k \in 1 .. q :
              next[k] \in Seq(S) /\ C[k] = C[k - 1] \o next[k] /\ B[k] = B[k - 1] \o next[k]
    BY <1>1, <1>9, <1>13, <2>1, <2>2, <2>3
  <2>5. JoinAlike(C, B, next, ux, q, S)
    BY <2>4 DEF JoinAlike
  <2> QED BY <2>5, JoinedBehind
<1>17. F[n] = ux \o B[q]
  <2>1. q \in 0 .. q
    BY <1>1
  <2> QED BY <1>1, <1>14, <2>1
<1> QED BY <1>8, <1>9, <1>10, <1>17 DEF head, ux, n, q, before, behind, all,
      PartsBefore, PartsBehind

\* What it is for u and v to be the sequences joined before the p-th and behind it ...
IsSplit(u, v, S, parts, p) ==
    /\ u \in Seq(S) /\ v \in Seq(S)
    /\ \A x \in Seq(S) : FlattenSeq([parts EXCEPT ![p] = x]) = u \o x \o v
    /\ ToSet(u) = UNION {ToSet(parts[k]) : k \in 1 .. p - 1}
    /\ ToSet(v) = UNION {ToSet(parts[k]) : k \in p + 1 .. Len(parts)}

\* ... and there are such u and v, whatever the p-th is.
LEMMA FlattenSplit ==
    ASSUME NEW S, NEW parts \in Seq(Seq(S)), NEW p \in 1 .. Len(parts)
    PROVE  \E u, v : IsSplit(u, v, S, parts, p)
<1> DEFINE T == Seq(S)
           n == Len(parts)
           before == [k \in 1 .. p - 1 |-> parts[k]]
           behind == [k \in 1 .. n - p |-> parts[p + k]]
<1>1. /\ n \in Nat /\ (\A k \in 1 .. n : parts[k] \in T)
      /\ p \in Nat /\ p - 1 \in Nat /\ n - p \in Nat
  <2>1. parts \in Seq(T)
    OBVIOUS
  <2> QED BY <2>1
<1>2. before \in Seq(T) /\ Len(before) = p - 1
  <2>1. \A k \in 1 .. p - 1 : k \in 1 .. n
    BY <1>1
  <2>2. before \in [1 .. p - 1 -> T]
    <3> HIDE DEF T, n
    <3> QED BY <1>1, <2>1
  <2> HIDE DEF before
  <2> DEFINE m == p - 1
  <2>3. m \in Nat /\ before \in [1 .. m -> T]
    BY <1>1, <2>2
  <2> HIDE DEF T, m
  <2>4. before \in Seq(T) /\ Len(before) = m
    BY <2>3
  <2> QED BY <2>4 DEF m
<1>3. behind \in Seq(T) /\ Len(behind) = n - p
  <2>1. \A k \in 1 .. n - p : p + k \in 1 .. n
    BY <1>1
  <2>2. behind \in [1 .. n - p -> T]
    <3> HIDE DEF T, n
    <3> QED BY <1>1, <2>1
  <2> HIDE DEF behind
  <2> DEFINE m == n - p
  <2>3. m \in Nat /\ behind \in [1 .. m -> T]
    BY <1>1, <2>2
  <2> HIDE DEF T, m
  <2>4. behind \in Seq(T) /\ Len(behind) = m
    BY <2>3
  <2> QED BY <2>4 DEF m
<1> DEFINE u == FlattenSeq(PartsBefore(parts, p))
           v == FlattenSeq(PartsBehind(parts, p))
<1>0. PartsBefore(parts, p) = before /\ PartsBehind(parts, p) = behind
  BY DEF PartsBefore, PartsBehind
<1>4. u \in Seq(S) /\ ToSet(u) = UNION {ToSet(before[k]) : k \in 1 .. p - 1}
  <2>1. u \in Seq(S) /\ ToSet(u) = UNION {ToSet(before[k]) : k \in 1 .. Len(before)}
    <3> HIDE DEF before
    <3> QED BY <1>0, <1>2, FlattenProperties
  <2> HIDE DEF before, u
  <2> QED BY <1>2, <2>1
<1>5. v \in Seq(S) /\ ToSet(v) = UNION {ToSet(behind[k]) : k \in 1 .. n - p}
  <2>1. v \in Seq(S) /\ ToSet(v) = UNION {ToSet(behind[k]) : k \in 1 .. Len(behind)}
    <3> HIDE DEF behind
    <3> QED BY <1>0, <1>3, FlattenProperties
  <2> HIDE DEF behind, v, n
  <2> QED BY <1>3, <2>1
<1>6. ASSUME NEW x \in Seq(S) PROVE FlattenSeq([parts EXCEPT ![p] = x]) = u \o x \o v
  BY FlattenAround
<1> HIDE DEF u, v
<1>7. ToSet(u) = UNION {ToSet(parts[k]) : k \in 1 .. p - 1}
  <2>1. \A k \in 1 .. p - 1 : before[k] = parts[k]
    OBVIOUS
  <2> HIDE DEF before
  <2> QED BY <1>4, <2>1
<1>8. ToSet(v) = UNION {ToSet(parts[k]) : k \in p + 1 .. n}
  <2>1. \A k \in 1 .. n - p : behind[k] = parts[p + k] /\ p + k \in p + 1 .. n
    BY <1>1
  <2>2. \A k \in p + 1 .. n : k - p \in 1 .. n - p /\ p + (k - p) = k
    BY <1>1
  <2>3. \A k \in p + 1 .. n : behind[k - p] = parts[k]
    <3> HIDE DEF behind
    <3> QED BY <2>1, <2>2
  <2> HIDE DEF behind
  <2> QED BY <1>5, <2>1, <2>2, <2>3
<1> QED BY <1>4, <1>5, <1>6, <1>7, <1>8 DEF IsSplit

\* Nothing joined is nothing.
LEMMA FlattenNothing ==
    ASSUME NEW S, NEW parts \in Seq(Seq(S)), \A k \in 1 .. Len(parts) : parts[k] = <<>>
    PROVE  FlattenSeq(parts) = <<>>
<1> DEFINE all == FlattenSeq(parts)
<1>1. all \in Seq(S) /\ ToSet(all) = UNION {ToSet(parts[k]) : k \in 1 .. Len(parts)}
  BY FlattenProperties
<1>2. ToSet(<<>>) = {}
  BY DEF ToSet
<1> HIDE DEF all
<1>3. ToSet(all) = {}
  BY <1>1, <1>2
<1>4. Len(all) = 0
  BY <1>1, <1>3, LenProperties DEF ToSet
<1> QED BY <1>1, <1>4, EmptySeq DEF all

-----------------------------------------------------------------------------
\* Wherever the cursor is - after the rows or the selection have shrunk it may be
\* past the last item - a move takes it to the row of an item, or to the prompt
\* if there are none (hstr_selection_cursor_move).
THEOREM MoveEndsOnItem ==
    ASSUME NEW old \in Int, NEW step \in Int, NEW bottom \in BOOLEAN,
           NEW items \in Nat, NEW size \in Nat
    PROVE  LET moved == CursorMove(old, step, bottom, items, size)
           IN  IF Lesser(size, items) = 0 THEN moved = InPrompt
               ELSE SelectionIndex(moved, bottom, items, size) \in 0 .. Lesser(size, items) - 1
PROOF
<1> DEFINE rows0 == Lesser(size, items)
           first == IF bottom THEN items - rows0 ELSE 0
           last  == first + rows0 - 1
           moved == CursorMove(old, step, bottom, items, size)
<1>1. rows0 \in Nat /\ rows0 <= size /\ rows0 <= items
  BY DEF Lesser
<1>2. CASE rows0 = 0
  BY <1>2 DEF CursorMove
<1>3. CASE rows0 # 0
  <2>1. first \in Nat /\ last \in Nat /\ first <= last
    BY <1>1, <1>3
  <2>2. moved \in first .. last
    <3> HIDE DEF rows0
    <3>1. CursorMove(old, step, bottom, items, size) =
            LET line == step \in {-1, 1}
            IN  IF rows0 <= 0 THEN InPrompt
                ELSE IF old = InPrompt THEN IF step = -1 THEN last ELSE first
                ELSE IF old + step < first THEN IF line THEN last ELSE first
                ELSE IF old + step > last THEN IF line THEN first ELSE last
                ELSE old + step
      BY DEF CursorMove, rows0
    <3> HIDE DEF first, last
    <3> QED BY <1>1, <1>3, <2>1, <3>1
  <2>3. SelectionIndex(moved, bottom, items, size) =
            IF bottom THEN items - moved - 1 ELSE moved
    <3> HIDE DEF rows0, moved
    <3> QED BY <1>1, <1>3, <2>1, <2>2 DEF SelectionIndex, InPrompt
  <2>4. (IF bottom THEN items - moved - 1 ELSE moved) \in 0 .. rows0 - 1
    <3> HIDE DEF rows0, moved
    <3> QED BY <1>1, <1>3, <2>2
  <2> QED BY <1>3, <2>3, <2>4
<1> QED BY <1>2, <1>3

-----------------------------------------------------------------------------
\* A loop: a state q of its variables in Q is left by onwards[q], unless it is one of Stops,
\* where the loop ends with result[q]; with each turn less is left, and never more than n.
IsLoop(Q, Stops, onwards, left, n) ==
    /\ onwards \in [Q -> Q] /\ left \in [Q -> 0 .. n]
    /\ \A q \in Q : q \notin Stops => left[onwards[q]] < left[q]
Runs(F, Q, Stops, onwards, result) ==
    F = [q \in Q |-> IF q \in Stops THEN result[q] ELSE F[onwards[q]]]

\* There is what the loop computes from each state.
LEMMA LoopExists ==
    ASSUME NEW Q, NEW Stops, NEW onwards, NEW left, NEW n \in Nat, NEW result,
           IsLoop(Q, Stops, onwards, left, n)
    PROVE  \E F : Runs(F, Q, Stops, onwards, result)
<1> DEFINE Within(k) == {q \in Q : left[q] <= k}
           Is(F, k) == \A q \in Within(k) : F[q] = IF q \in Stops THEN result[q] ELSE F[onwards[q]]
           Exists(k) == \E F : Is(F, k) 
           S == {k \in Nat : Exists(k)}
<1>0. /\ \A q \in Q : onwards[q] \in Q /\ left[q] \in 0 .. n
      /\ \A q \in Q : q \notin Stops => left[onwards[q]] < left[q]
  BY DEF IsLoop
<1>1. Exists(0)
  <2> DEFINE F == [q \in Q |-> result[q]]
  <2>1. ASSUME NEW q \in Within(0) PROVE F[q] = IF q \in Stops THEN result[q] ELSE F[onwards[q]]
    <3>1. q \in Q /\ left[q] <= 0 /\ left[q] \in 0 .. n
      BY <1>0
    <3>2. q \in Stops
      BY <1>0, <3>1
    <3> QED BY <3>1, <3>2
  <2>2. Is(F, 0)
    BY <2>1
  <2> HIDE DEF Is, F
  <2> QED BY <2>2
<1>2. ASSUME NEW k \in Nat, Exists(k) PROVE Exists(k + 1)
  <2>1. PICK F : Is(F, k)
    BY <1>2
  <2> DEFINE G == [q \in Q |-> IF q \in Stops THEN result[q] ELSE F[onwards[q]]]
  <2>2. \A q \in Within(k) : G[q] = F[q] /\ q \in Q
    BY <2>1
  <2>3. ASSUME NEW q \in Within(k + 1)
        PROVE  G[q] = IF q \in Stops THEN result[q] ELSE G[onwards[q]]
    <3>1. q \in Q /\ left[q] <= k + 1
      OBVIOUS
    <3>2. CASE q \in Stops
      BY <3>1, <3>2
    <3>3. CASE q \notin Stops
      <4>1. onwards[q] \in Within(k)
        BY <1>0, <3>1, <3>3
      <4> QED BY <2>2, <3>1, <3>3, <4>1
    <3> QED BY <3>2, <3>3
  <2>4. Is(G, k + 1)
    BY <2>3
  <2> HIDE DEF Is, G
  <2> QED BY <2>4
<1>3. n \in S
  <2> HIDE DEF Exists
  <2>1. 0 \in S /\ \A k \in Nat : k \in S => k + 1 \in S
    BY <1>1, <1>2
  <2> HIDE DEF S
  <2> QED BY <2>1, NatSetInduction
<1>4. PICK F : Is(F, n)
  BY <1>3
<1> DEFINE G == [q \in Q |-> F[q]]
<1>5. \A q \in Q : q \in Within(n)
  BY <1>0
<1>6. ASSUME NEW q \in Q PROVE F[q] = IF q \in Stops THEN result[q] ELSE F[onwards[q]]
  BY <1>4, <1>5
<1>7. G = [q \in Q |-> IF q \in Stops THEN result[q] ELSE G[onwards[q]]]
  BY <1>0, <1>6
<1> HIDE DEF G
<1> QED BY <1>7 DEF Runs

\* What holds at its start and is kept by each turn holds when the loop ends.
LEMMA LoopKeeps ==
    ASSUME NEW Q, NEW Stops, NEW onwards, NEW left, NEW n \in Nat, NEW result,
           IsLoop(Q, Stops, onwards, left, n),
           NEW F, Runs(F, Q, Stops, onwards, result),
           NEW Kept \in SUBSET Q, \A q \in Kept : q \notin Stops => onwards[q] \in Kept,
           NEW start \in Kept
    PROVE  \E q \in Kept : q \in Stops /\ F[start] = result[q]
<1> DEFINE Ends(p) == \E q \in Kept : q \in Stops /\ F[p] = result[q]
           S == {k \in Nat : \A p \in Kept : left[p] <= k => Ends(p)}
<1>0. /\ \A q \in Q : onwards[q] \in Q /\ left[q] \in 0 .. n
      /\ \A q \in Q : q \notin Stops => left[onwards[q]] < left[q]
  BY DEF IsLoop
<1>1. \A q \in Q : F[q] = IF q \in Stops THEN result[q] ELSE F[onwards[q]]
  <2> DEFINE body(q) == IF q \in Stops THEN result[q] ELSE F[onwards[q]]
  <2>1. F = [q \in Q |-> body(q)]
    BY DEF Runs
  <2>2. \A q \in Q : [p \in Q |-> body(p)][q] = body(q)
    OBVIOUS
  <2> HIDE DEF body
  <2>3. \A q \in Q : F[q] = body(q)
    BY <2>1
  <2> QED BY <2>3 DEF body
<1>2. ASSUME NEW p \in Kept, p \in Stops PROVE Ends(p)
  BY <1>1, <1>2
<1>3. 0 \in S
  <2>1. ASSUME NEW p \in Kept, left[p] <= 0 PROVE Ends(p)
    <3>1. p \in Stops
      BY <1>0, <2>1
    <3> QED BY <1>2, <3>1
  <2> HIDE DEF Ends
  <2> QED BY <2>1
<1>4. ASSUME NEW k \in Nat, k \in S PROVE k + 1 \in S
  <2>1. ASSUME NEW p \in Kept, left[p] <= k + 1 PROVE Ends(p)
    <3>1. CASE p \in Stops
      BY <1>2, <3>1
    <3>2. CASE p \notin Stops
      <4>1. onwards[p] \in Kept /\ left[onwards[p]] <= k
        BY <1>0, <1>4, <2>1, <3>2
      <4>2. Ends(onwards[p])
        <5> HIDE DEF Ends
        <5> QED BY <1>4, <4>1
      <4>3. F[p] = F[onwards[p]]
        BY <1>1, <3>2
      <4> QED BY <4>2, <4>3
    <3> QED BY <3>1, <3>2
  <2> HIDE DEF Ends
  <2> QED BY <2>1
<1>5. n \in S
  <2> HIDE DEF S
  <2> QED BY <1>3, <1>4, NatSetInduction
<1>6. left[start] <= n
  BY <1>0
<1>7. Ends(start)
  <2> HIDE DEF Ends
  <2> QED BY <1>5, <1>6
<1> QED BY <1>7
=============================================================================
