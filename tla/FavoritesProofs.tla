---------------------------- MODULE FavoritesProofs ----------------------------
(***************************************************************************)
(* The theorems about hstr_favorites.c with its file. What favorites_get   *)
(* makes of a file is a fold: LoadedSteps gives its values line after      *)
(* line, and inductions over the lines show that it has no item twice, and *)
(* that of a list that was written it makes that list again, with or       *)
(* without its comments.  The inductive invariant adds to the properties   *)
(* who may have written the file last.                                     *)
(***************************************************************************)
EXTENDS Favorites, OperatorProofs

\* The lines that end.
LinesOf(f) == IF f.partial THEN Front(f.lines) ELSE f.lines

\* favorites_get, line after line.
LEMMA LoadedSteps ==
    ASSUME NEW f, LinesOf(f) \in Seq(Line), NEW skip
    PROVE  \E F \in [0 .. Len(LinesOf(f)) -> Seq(Line)] :
              /\ F[0] = <<>>
              /\ \A k \in 1 .. Len(LinesOf(f)) :
                    F[k] = IF LinesOf(f)[k] \in ToSet(F[k - 1]) \/ (skip /\ LinesOf(f)[k] \in Comment)
                           THEN F[k - 1] ELSE Append(F[k - 1], LinesOf(f)[k])
              /\ Loaded(f, skip) = F[Len(LinesOf(f))]
<1> DEFINE list == LinesOf(f)
           n == Len(list)
           T == Seq(Line)
           op(items, m) == IF list[m] \in ToSet(items) \/ (skip /\ list[m] \in Comment)
                           THEN items ELSE Append(items, list[m])
           step == [a \in T \X (1 .. n) |-> op(a[1], a[2])]
<1> HIDE DEF list
<1>1. n \in Nat /\ DOMAIN list = 1 .. n /\ \A m \in 1 .. n : list[m] \in Line
  BY DEF list
<1>2. <<>> \in T /\ step \in Steps(n, T)
  BY <1>1 DEF Steps
<1>3. PICK g \in [SUBSET (1 .. n) -> T] :
          \A s \in SUBSET (1 .. n) :
             g[s] = IF s = {} THEN <<>> ELSE step[<<g[s \ {Max(s)}], Max(s)>>]
  <2>1. \E g : IsFold(g, n, T, <<>>, step)
    <3> HIDE DEF step, n, T
    <3> QED BY <1>1, <1>2, FoldExists
  <2> QED BY <2>1 DEF IsFold
<1> DEFINE Is(h) == h = [s \in SUBSET (1 .. n) |-> IF s = {} THEN <<>> ELSE op(h[s \ {Max(s)}], Max(s))]
           iter == CHOOSE h : Is(h)
<1>4. Is(g)
  <2>1. ASSUME NEW s \in SUBSET (1 .. n), s # {}
        PROVE  step[<<g[s \ {Max(s)}], Max(s)>>] = op(g[s \ {Max(s)}], Max(s))
    <3>1. Max(s) \in 1 .. n /\ g[s \ {Max(s)}] \in T
      BY <1>1, <2>1, MaxIsInside
    <3> QED BY <3>1
  <2> HIDE DEF step, op
  <2> QED BY <1>3, <2>1
<1>5. Is(iter)
  <2> HIDE DEF Is
  <2> QED BY <1>4
<1>6. Loaded(f, skip) = iter[1 .. n]
  BY <1>1 DEF Loaded, LinesOf, list, FoldLeft, MapThenFoldSet
<1> DEFINE F == [k \in 0 .. n |-> iter[1 .. k]]
<1> HIDE DEF iter
<1>7. F[0] = <<>>
  BY <1>1, <1>5
<1>8. ASSUME NEW k \in 1 .. n PROVE F[k] = op(F[k - 1], k)
  <2>1. /\ 1 .. k \in SUBSET (1 .. n) /\ 1 .. k # {}
        /\ (1 .. k) \ {Max(1 .. k)} = 1 .. k - 1 /\ Max(1 .. k) = k
    BY <1>1, InitialSegments
  <2>2. iter[1 .. k] = op(iter[(1 .. k) \ {Max(1 .. k)}], Max(1 .. k))
    <3> HIDE DEF op
    <3> QED BY <1>5, <2>1
  <2>3. iter[1 .. k] = op(iter[1 .. k - 1], k)
    <3> HIDE DEF op
    <3> QED BY <2>1, <2>2
  <2> QED BY <2>3
<1>9. \A k \in 0 .. n : F[k] \in T
  <2> HIDE DEF F
  <2>1. ASSUME NEW k \in 1 .. n, F[k - 1] \in T PROVE F[k] \in T
    <3>1. F[k] = op(F[k - 1], k) /\ list[k] \in Line
      BY <1>1, <1>8
    <3> QED BY <2>1, <3>1
  <2> HIDE DEF n, T
  <2> QED BY <1>1, <1>2, <1>7, <2>1, FoldInduction
<1>10. F \in [0 .. n -> T] /\ Loaded(f, skip) = F[n]
  BY <1>1, <1>6, <1>9
<1> HIDE DEF F
<1> QED BY <1>7, <1>8, <1>10 DEF list

\* They are no more than the lines of the file.
LEMMA LinesOfProperties ==
    ASSUME NEW f, f.lines \in Seq(Line), f.partial \in BOOLEAN, f.partial => f.lines # <<>>
    PROVE  LinesOf(f) \in Seq(Line) /\ Len(LinesOf(f)) <= Len(f.lines)
<1>1. Len(f.lines) \in Nat
  OBVIOUS
<1>2. f.partial => /\ Len(f.lines) > 0
                   /\ Front(f.lines) \in Seq(Line) /\ Len(Front(f.lines)) = Len(f.lines) - 1
  BY DEF Front
<1> QED BY <1>1, <1>2 DEF LinesOf

\* Whatever the file has, favorites_get makes a list of it that has no item twice
\* and is no longer than the file.
LEMMA LoadedProperties ==
    ASSUME NEW f, f.lines \in Seq(Line), f.partial \in BOOLEAN, f.partial => f.lines # <<>>,
           NEW skip
    PROVE  /\ Loaded(f, skip) \in Seq(Line)
           /\ IsInjective(Loaded(f, skip))
           /\ Len(Loaded(f, skip)) <= Len(f.lines)
<1> DEFINE list == LinesOf(f)
           n == Len(list)
<1>1. list \in Seq(Line) /\ n <= Len(f.lines) /\ n \in Nat /\ Len(f.lines) \in Nat
  BY LinesOfProperties
<1>2. PICK F \in [0 .. n -> Seq(Line)] :
          /\ F[0] = <<>>
          /\ \A k \in 1 .. n :
                F[k] = IF list[k] \in ToSet(F[k - 1]) \/ (skip /\ list[k] \in Comment)
                       THEN F[k - 1] ELSE Append(F[k - 1], list[k])
          /\ Loaded(f, skip) = F[n]
  BY <1>1, LoadedSteps
<1> DEFINE G == [k \in 0 .. n |-> <<k, F[k]>>]
           T == {t \in Nat \X Seq(Line) : IsInjective(t[2]) /\ Len(t[2]) <= t[1]}
<1> HIDE DEF list
<1>3. G[0] \in T
  BY <1>1, <1>2 DEF IsInjective
<1>4. ASSUME NEW k \in 1 .. n, G[k - 1] \in T PROVE G[k] \in T
  <2>1. /\ F[k - 1] \in Seq(Line) /\ IsInjective(F[k - 1]) /\ Len(F[k - 1]) <= k - 1
        /\ k - 1 \in Nat /\ Len(F[k - 1]) \in Nat /\ list[k] \in Line
    BY <1>1, <1>4
  <2>2. /\ F[k] \in Seq(Line) /\ IsInjective(F[k]) /\ Len(F[k]) <= k
    <3>1. CASE list[k] \in ToSet(F[k - 1]) \/ (skip /\ list[k] \in Comment)
      BY <1>2, <2>1, <3>1
    <3>2. CASE ~(list[k] \in ToSet(F[k - 1]) \/ (skip /\ list[k] \in Comment))
      <4>1. F[k] = Append(F[k - 1], list[k])
        BY <1>2, <3>2
      <4>2. /\ Append(F[k - 1], list[k]) \in Seq(Line)
            /\ Len(Append(F[k - 1], list[k])) = Len(F[k - 1]) + 1
            /\ IsInjective(Append(F[k - 1], list[k]))
        BY <2>1, <3>2, PutProperties
      <4> QED BY <2>1, <4>1, <4>2
    <3> QED BY <3>1, <3>2
  <2> QED BY <2>2
<1>5. G[n] \in T
  <2> HIDE DEF G, T, n
  <2>1. \A k \in 0 .. n : G[k] \in T
    BY <1>1, <1>3, <1>4, FoldInduction
  <2> QED BY <1>1, <2>1
<1> QED BY <1>1, <1>2, <1>5

\* Of a file that has a list without an item twice, all of it, favorites_get makes
\* the same list, if it is to keep the comments.
LEMMA LoadedSame ==
    ASSUME NEW list \in Seq(Line), IsInjective(list)
    PROVE  Loaded([lines |-> list, partial |-> FALSE], FALSE) = list
<1> DEFINE f == [lines |-> list, partial |-> FALSE]
           n == Len(list)
<1>1. LinesOf(f) = list /\ n \in Nat /\ DOMAIN list = 1 .. n
  BY DEF LinesOf
<1>2. PICK F \in [0 .. n -> Seq(Line)] :
          /\ F[0] = <<>>
          /\ \A k \in 1 .. n :
                F[k] = IF list[k] \in ToSet(F[k - 1]) \/ (FALSE /\ list[k] \in Comment)
                       THEN F[k - 1] ELSE Append(F[k - 1], list[k])
          /\ Loaded(f, FALSE) = F[n]
  <2> HIDE DEF f
  <2> QED BY <1>1, LoadedSteps
<1> DEFINE G == [k \in 0 .. n |-> <<k, F[k]>>]
           T == {t \in (0 .. n) \X Seq(Line) :
                    Len(t[2]) = t[1] /\ \A m \in 1 .. t[1] : t[2][m] = list[m]}
<1>3. G[0] \in T
  BY <1>1, <1>2
<1>4. ASSUME NEW k \in 1 .. n, G[k - 1] \in T PROVE G[k] \in T
  <2> DEFINE old == F[k - 1]
  <2>1. /\ old \in Seq(Line) /\ Len(old) = k - 1 /\ \A m \in 1 .. k - 1 : old[m] = list[m]
        /\ k - 1 \in Nat /\ list[k] \in Line
    BY <1>1, <1>4
  <2>2. F[k] = IF list[k] \in ToSet(old) THEN old ELSE Append(old, list[k])
    BY <1>2
  <2> HIDE DEF old
  <2>3. list[k] \notin ToSet(old)
    <3> SUFFICES ASSUME NEW m \in DOMAIN old, old[m] = list[k] PROVE FALSE
      BY DEF ToSet
    <3>1. m \in 1 .. k - 1 /\ list[m] = list[k]
      BY <2>1, LenProperties
    <3> QED BY <1>1, <3>1 DEF IsInjective
  <2>4. /\ F[k] \in Seq(Line) /\ Len(F[k]) = k /\ \A m \in 1 .. k : F[k][m] = list[m]
    BY <2>1, <2>2, <2>3
  <2> QED BY <2>4
<1>5. G[n] \in T
  <2> HIDE DEF G, T, n
  <2>1. \A k \in 0 .. n : G[k] \in T
    BY <1>1, <1>3, <1>4, FoldInduction
  <2> QED BY <1>1, <2>1
<1>6. Len(F[n]) = n /\ F[n] \in Seq(Line) /\ \A m \in 1 .. n : F[n][m] = list[m]
  BY <1>1, <1>5
<1>7. F[n] = list
  BY <1>6, SeqEqual
<1> QED BY <1>2, <1>7

\* What is left of the first k lines without the comments: nothing else, all of it,
\* in order.
SievedFrom(list, k, part) ==
    \A i \in DOMAIN part : \E m \in 1 .. k : list[m] = part[i] /\ list[m] \notin Comment
SievedAll(list, k, part) ==
    \A m \in 1 .. k : list[m] \notin Comment => \E i \in DOMAIN part : part[i] = list[m]
SievedInOrder(list, k, part) ==
    \A i, j \in DOMAIN part :
        i < j => \E m, l \in 1 .. k : m < l /\ list[m] = part[i] /\ list[l] = part[j]
Sieved(list, k, part) ==
    SievedFrom(list, k, part) /\ SievedAll(list, k, part) /\ SievedInOrder(list, k, part)

\* ... and if it is to skip the comments, all items but those, in the same order.
LEMMA LoadedButComments ==
    ASSUME NEW list \in Seq(Line)
    PROVE  LET loaded == Loaded([lines |-> list, partial |-> FALSE], TRUE)
           IN  ToSet(loaded) = ToSet(list) \ Comment /\ InOrderOf(loaded, list)
<1> DEFINE f == [lines |-> list, partial |-> FALSE]
           n == Len(list)
<1>1. LinesOf(f) = list /\ n \in Nat /\ DOMAIN list = 1 .. n
  BY DEF LinesOf
<1>2. PICK F \in [0 .. n -> Seq(Line)] :
          /\ F[0] = <<>>
          /\ \A k \in 1 .. n :
                F[k] = IF list[k] \in ToSet(F[k - 1]) \/ (TRUE /\ list[k] \in Comment)
                       THEN F[k - 1] ELSE Append(F[k - 1], list[k])
          /\ Loaded(f, TRUE) = F[n]
  <2> HIDE DEF f
  <2> QED BY <1>1, LoadedSteps
<1> DEFINE G == [k \in 0 .. n |-> <<k, F[k]>>]
           T == {t \in (0 .. n) \X Seq(Line) : Sieved(list, t[1], t[2])}
<1>3. G[0] \in T
  <2>1. Sieved(list, 0, <<>>)
    BY DEF Sieved, SievedFrom, SievedAll, SievedInOrder
  <2> QED BY <1>1, <1>2, <2>1
<1>4. ASSUME NEW k \in 1 .. n, G[k - 1] \in T PROVE G[k] \in T
  <2> DEFINE old == F[k - 1]
  <2>0. old \in Seq(Line) /\ Sieved(list, k - 1, old)
    BY <1>1, <1>4
  <2>1. /\ old \in Seq(Line)
        /\ SievedFrom(list, k - 1, old) /\ SievedAll(list, k - 1, old)
        /\ SievedInOrder(list, k - 1, old)
    BY <2>0 DEF Sieved
  <2>2. k \in Nat /\ k - 1 \in Nat /\ \A m \in 1 .. k : m = k \/ m \in 1 .. k - 1
    BY <1>1
  <2>3. /\ \A m \in 1 .. k - 1 : m \in 1 .. k /\ m < k
        /\ k \in 1 .. k
    BY <1>1
  <2>4. CASE list[k] \in ToSet(old) \/ list[k] \in Comment
    <3>1. F[k] = old
      BY <1>2, <2>4
    <3>2. SievedFrom(list, k, old) /\ SievedInOrder(list, k, old)
      BY <2>1, <2>3 DEF SievedFrom, SievedInOrder
    <3>3. SievedAll(list, k, old)
      BY <2>1, <2>2, <2>4 DEF SievedAll, ToSet
    <3>4. Sieved(list, k, F[k])
      BY <3>1, <3>2, <3>3 DEF Sieved
    <3> QED BY <1>1, <2>1, <3>1, <3>4
  <2>5. CASE ~(list[k] \in ToSet(old) \/ list[k] \in Comment)
    <3> DEFINE new == Append(old, list[k])
               size == Len(old)
    <3>1. F[k] = new
      BY <1>2, <2>5
    <3>2. /\ new \in Seq(Line) /\ size \in Nat /\ DOMAIN old = 1 .. size
          /\ DOMAIN new = 1 .. size + 1 /\ new[size + 1] = list[k]
          /\ \A i \in 1 .. size : new[i] = old[i] /\ i \in 1 .. size + 1
      <4>1. list[k] \in Line
        BY <1>1
      <4> QED BY <2>1, <4>1
    <3> HIDE DEF old, new, size
    <3>3. \A i \in 1 .. size + 1 : i = size + 1 \/ i \in 1 .. size
      BY <3>2
    <3>4. SievedFrom(list, k, new)
      BY <2>1, <2>3, <2>5, <3>2, <3>3 DEF SievedFrom
    <3>5. SievedAll(list, k, new)
      <4> SUFFICES ASSUME NEW m \in 1 .. k, list[m] \notin Comment
                   PROVE  \E i \in DOMAIN new : new[i] = list[m]
        BY DEF SievedAll
      <4>1. CASE m = k
        BY <3>2, <4>1
      <4>2. CASE m \in 1 .. k - 1
        BY <2>1, <3>2, <4>2 DEF SievedAll
      <4> QED BY <2>2, <4>1, <4>2
    <3>6. SievedInOrder(list, k, new)
      <4> SUFFICES ASSUME NEW i \in DOMAIN new, NEW j \in DOMAIN new, i < j
                   PROVE  \E m, l \in 1 .. k : m < l /\ list[m] = new[i] /\ list[l] = new[j]
        BY DEF SievedInOrder
      <4>1. i \in 1 .. size
        BY <3>2
      <4>2. CASE j = size + 1
        <5>1. PICK m \in 1 .. k - 1 : list[m] = old[i]
          BY <2>1, <3>2, <4>1 DEF SievedFrom
        <5> QED BY <2>3, <3>2, <4>1, <4>2, <5>1
      <4>3. CASE j \in 1 .. size
        <5>1. PICK m \in 1 .. k - 1, l \in 1 .. k - 1 : m < l /\ list[m] = old[i] /\ list[l] = old[j]
          <6>1. i \in DOMAIN old /\ j \in DOMAIN old
            BY <3>2, <4>1, <4>3
          <6> QED BY <2>1, <6>1 DEF SievedInOrder
        <5> QED BY <2>3, <3>2, <4>1, <4>3, <5>1
      <4> QED BY <3>2, <3>3, <4>2, <4>3
    <3>7. Sieved(list, k, F[k])
      BY <3>1, <3>4, <3>5, <3>6 DEF Sieved
    <3> QED BY <1>1, <3>1, <3>2, <3>7
  <2> QED BY <2>4, <2>5
<1>5. G[n] \in T
  <2> HIDE DEF G, T, n
  <2>1. \A k \in 0 .. n : G[k] \in T
    BY <1>1, <1>3, <1>4, FoldInduction
  <2> QED BY <1>1, <2>1
<1>6. Sieved(list, n, F[n])
  BY <1>1, <1>5
<1>7. ToSet(F[n]) = ToSet(list) \ Comment
  <2> HIDE DEF n
  <2>1. \A x \in ToSet(F[n]) : x \in ToSet(list) \ Comment
    BY <1>1, <1>6 DEF ToSet, Sieved, SievedFrom, SievedAll
  <2>2. \A x \in ToSet(list) \ Comment : x \in ToSet(F[n])
    BY <1>1, <1>6 DEF ToSet, Sieved, SievedFrom, SievedAll
  <2> QED BY <2>1, <2>2
<1>8. InOrderOf(F[n], list)
  <2> DEFINE loaded == F[n]
  <2>1. SievedInOrder(list, n, loaded)
    BY <1>6 DEF Sieved
  <2> HIDE DEF n, loaded
  <2>2. InOrderOf(loaded, list)
    <3> SUFFICES ASSUME NEW i \in DOMAIN loaded, NEW j \in DOMAIN loaded, i < j
                 PROVE  \E m, l \in DOMAIN list : m < l /\ list[m] = loaded[i] /\ list[l] = loaded[j]
      BY DEF InOrderOf
    <3>1. PICK m \in 1 .. n, l \in 1 .. n : m < l /\ list[m] = loaded[i] /\ list[l] = loaded[j]
      BY <2>1 DEF SievedInOrder
    <3>2. m \in DOMAIN list /\ l \in DOMAIN list
      BY <1>1
    <3> QED BY <3>1, <3>2
  <2> QED BY <2>2 DEF loaded
<1> QED BY <1>2, <1>7, <1>8

\* The file has as many lines as a list may, and one that does not end only if
\* it has one.
FileInv ==
    /\ file = [lines |-> file.lines, partial |-> file.partial]
    /\ file.partial => file.lines # <<>>
    /\ Len(file.lines) <= MaxLines
    /\ skipComments \in [Process -> BOOLEAN] /\ reorderOnChoice \in BOOLEAN
\* Who has written the file with no other writing meanwhile is alone in saving:
\* the file is empty until it closes it, and then has its list.
OwnerInv ==
    \A p \in Process : owner = p =>
        /\ phase[p] # "off"
        /\ \A q \in Process : phase[q] = "saving" => q = p
        /\ phase[p] = "saving" => file.lines = <<>>
        /\ phase[p] = "on" => file = [lines |-> favorites[p], partial |-> FALSE]
\* The inductive invariant.
IInv == TypeOK /\ FileInv /\ FavoritesUnique /\ OwnerInv

\* It holds when no hstr runs yet, whatever the file.
LEMMA InitIInv == Init => IInv
<1> SUFFICES ASSUME Init PROVE IInv
  OBVIOUS
<1>1. PICK lines \in BoundedSeq(Line, MaxLines), partial \in BOOLEAN :
          (partial => lines # <<>>) /\ file = [lines |-> lines, partial |-> partial]
  BY DEF Init
<1>2. lines \in Seq(Line) /\ Len(lines) <= MaxLines
  <2>1. PICK n \in 0 .. MaxLines : lines \in [1 .. n -> Line]
    BY MaxLinesAssumption DEF BoundedSeq, SeqOf
  <2> QED BY <2>1, MaxLinesAssumption
<1>3. TypeOK
  BY <1>1, <1>2, MaxLinesAssumption DEF Init, TypeOK
<1>4. FileInv
  BY <1>1, <1>2 DEF Init, FileInv
<1>5. FavoritesUnique
  BY DEF Init, FavoritesUnique, IsInjective
<1>6. OwnerInv
  BY ProcessAssumption DEF Init, OwnerInv
<1> QED BY <1>3, <1>4, <1>5, <1>6 DEF IInv

\* ... after a process has loaded the file,
LEMMA StartIInv ==
    ASSUME IInv, NEW p \in Process, Start(p)
    PROVE  IInv'
<1> USE DEF IInv
<1>1. /\ Loaded(file, skipComments[p]) \in Seq(Line)
      /\ IsInjective(Loaded(file, skipComments[p]))
      /\ Len(Loaded(file, skipComments[p])) <= MaxLines
  <2>1. /\ Loaded(file, skipComments[p]) \in Seq(Line)
        /\ IsInjective(Loaded(file, skipComments[p]))
        /\ Len(Loaded(file, skipComments[p])) <= Len(file.lines)
    BY LoadedProperties DEF TypeOK, FileInv
  <2>2. Len(Loaded(file, skipComments[p])) \in Nat /\ Len(file.lines) \in Nat
    BY <2>1 DEF TypeOK
  <2> QED BY <2>1, <2>2, MaxLinesAssumption DEF FileInv
<1>2. TypeOK'
  BY <1>1 DEF Start, TypeOK
<1>3. FileInv'
  BY DEF Start, FileInv, config
<1>4. FavoritesUnique'
  BY <1>1 DEF Start, FavoritesUnique, TypeOK
<1>5. OwnerInv'
  BY DEF Start, OwnerInv, TypeOK
<1> QED BY <1>2, <1>3, <1>4, <1>5

\* ... after a process has changed its list and emptied the file,
LEMMA SavingIInv ==
    ASSUME IInv, NEW p \in Process, NEW saved \in Seq(Line), phase[p] = "on",
           IsInjective(saved), Len(saved) <= MaxLines, Saving(p, saved)
    PROVE  IInv'
<1> USE DEF IInv
<1>1. TypeOK'
  BY DEF Saving, TypeOK
<1>2. FileInv'
  BY MaxLinesAssumption DEF Saving, FileInv, config
<1>3. FavoritesUnique'
  BY DEF Saving, FavoritesUnique, TypeOK
<1>4. OwnerInv'
  BY ProcessAssumption DEF Saving, OwnerInv, TypeOK
<1> QED BY <1>1, <1>2, <1>3, <1>4

\* What is written over an empty file is the list; over other lines, no more
\* lines than there were or the list has.
LEMMA WrittenProperties ==
    ASSUME NEW list \in Seq(Line), NEW lines \in Seq(Line),
           Len(list) <= MaxLines, Len(lines) <= MaxLines
    PROVE  /\ Written(list, lines) \in Seq(Line)
           /\ Len(Written(list, lines)) <= MaxLines
           /\ lines = <<>> => Written(list, lines) = list
<1> DEFINE tail == SubSeq(lines, Len(list) + 1, Len(lines))
<1>1. Len(list) \in Nat /\ Len(lines) \in Nat
  OBVIOUS
<1>2. /\ tail \in Seq(Line)
      /\ Len(tail) = IF Len(list) + 1 <= Len(lines) THEN Len(lines) - (Len(list) + 1) + 1 ELSE 0
  BY <1>1, SubSeqProperties
<1>3. lines = <<>> => tail = <<>>
  BY <1>1
<1> HIDE DEF tail
<1>4. list \o tail \in Seq(Line) /\ Len(list \o tail) = Len(list) + Len(tail)
  BY <1>2
<1>5. lines = <<>> => list \o tail = list
  BY <1>3
<1>6. Written(list, lines) = list \o tail
  BY DEF Written, tail
<1> QED BY <1>1, <1>2, <1>4, <1>5, <1>6, MaxLinesAssumption

\* ... after a process has closed the file,
LEMMA CloseIInv ==
    ASSUME IInv, NEW p \in Process, Close(p)
    PROVE  IInv'
<1> USE DEF IInv
<1>1. /\ Written(favorites[p], file.lines) \in Seq(Line)
      /\ Len(Written(favorites[p], file.lines)) <= MaxLines
      /\ file.lines = <<>> => Written(favorites[p], file.lines) = favorites[p]
  BY WrittenProperties DEF TypeOK, FileInv
<1>2. TypeOK'
  BY <1>1 DEF Close, TypeOK
<1>3. FileInv'
  BY <1>1 DEF Close, FileInv, config
<1>4. FavoritesUnique'
  BY DEF Close, FavoritesUnique
<1>5. OwnerInv'
  <2>1. CASE owner = p
    BY <1>1, <2>1 DEF Close, OwnerInv, TypeOK
  <2>2. CASE owner # p
    BY <2>2, ProcessAssumption DEF Close, OwnerInv
  <2> QED BY <2>1, <2>2
<1> QED BY <1>2, <1>3, <1>4, <1>5

\* ... after a process has ended, in the middle of saving or not,
LEMMA EndIInv ==
    ASSUME IInv, NEW p \in Process, End(p)
    PROVE  IInv'
<1> USE DEF IInv
<1>1. TypeOK'
  BY MaxLinesAssumption DEF End, TypeOK
<1>2. FileInv'
  BY DEF End, FileInv, config
<1>3. FavoritesUnique'
  BY DEF End, FavoritesUnique, IsInjective, TypeOK
<1>4. OwnerInv'
  BY ProcessAssumption DEF End, OwnerInv, TypeOK
<1> QED BY <1>1, <1>2, <1>3, <1>4

\* ... and whatever is added, chosen or removed.
LEMMA ListsIInv ==
    ASSUME IInv, NEW p \in Process, NEW item \in Line
    PROVE  /\ AddFavorite(p, item) => IInv'
           /\ ChooseFavorite(p, item) => IInv'
           /\ RemoveFavorite(p, item) => IInv'
<1> DEFINE list == favorites[p]
           added == Added(list, item, reorderOnChoice)
           removed == Removed(list, item)
<1>1. list \in Seq(Line) /\ IsInjective(list) /\ Len(list) <= MaxLines /\ Len(list) \in Nat
  BY DEF IInv, TypeOK, FavoritesUnique
<1>2. /\ added \in Seq(Line) /\ IsInjective(added)
      /\ Len(added) = IF item \in ToSet(list) THEN Len(list) ELSE Len(list) + 1
  BY <1>1, AddedProperties DEF IInv, FileInv
<1>3. removed \in Seq(Line) /\ IsInjective(removed) /\ Len(removed) <= MaxLines
  <2>1. /\ removed \in Seq(Line) /\ IsInjective(removed) /\ Len(removed) <= Len(list)
    BY <1>1, RemovedProperties
  <2>2. Len(removed) \in Nat
    BY <2>1
  <2> QED BY <1>1, <2>1, <2>2, MaxLinesAssumption
<1> HIDE DEF list, added, removed
<1>4. ASSUME AddFavorite(p, item) PROVE IInv'
  <2>1. phase[p] = "on" /\ Saving(p, added) /\ Len(added) <= MaxLines
    BY <1>1, <1>2, <1>4, MaxLinesAssumption DEF AddFavorite, list, added
  <2> QED BY <1>2, <2>1, SavingIInv
<1>5. ASSUME ChooseFavorite(p, item) PROVE IInv'
  <2>1. Len(added) <= MaxLines /\ phase[p] = "on" /\ (UNCHANGED vars \/ Saving(p, added))
    BY <1>1, <1>2, <1>5 DEF ChooseFavorite, list, added
  <2>2. UNCHANGED vars => IInv'
    BY DEF IInv, TypeOK, FileInv, FavoritesUnique, OwnerInv, vars, config
  <2> QED BY <1>2, <2>1, <2>2, SavingIInv
<1>6. ASSUME RemoveFavorite(p, item) PROVE IInv'
  <2>1. phase[p] = "on" /\ Saving(p, removed)
    BY <1>6 DEF RemoveFavorite, list, removed
  <2> QED BY <1>3, <2>1, SavingIInv
<1> QED BY <1>4, <1>5, <1>6

\* The invariant holds in every state that is reached (hstr_favorites.c).
THEOREM Invariant == Spec => []IInv
<1>1. IInv /\ [Next]_vars => IInv'
  <2> SUFFICES ASSUME IInv, [Next]_vars PROVE IInv'
    OBVIOUS
  <2>1. CASE UNCHANGED vars
    BY <2>1 DEF IInv, TypeOK, FileInv, FavoritesUnique, OwnerInv, vars, config
  <2>2. CASE Next
    BY <2>2, StartIInv, CloseIInv, EndIInv, ListsIInv DEF Next
  <2> QED BY <2>1, <2>2
<1> QED BY InitIInv, <1>1, PTL DEF Spec

\* The types hold for any number of processes, lines and comments.
THEOREM TypeCorrect == Spec => []TypeOK
BY Invariant, PTL DEF IInv

\* No process ever has a favorite twice, whatever the file had in it at the start
\* and whatever the other processes made of it (favorites_get, favorites_add).
THEOREM NoFavoriteTwice == Spec => []FavoritesUnique
BY Invariant, PTL DEF IInv

\* A list that was saved with no other process writing meanwhile is loaded as it
\* was by every hstr that is to keep comments, and without the comments by those
\* that are to skip them (favorites_save, favorites_get).
THEOREM WhatIsSavedIsLoaded == Spec => []SavedIsLoaded
<1>1. IInv => SavedIsLoaded
  <2> SUFFICES ASSUME IInv, NEW p \in Process, NEW q \in Process, owner = p, phase[p] = "on"
               PROVE  /\ ~skipComments[q] => Loaded(file, skipComments[q]) = favorites[p]
                      /\ skipComments[q] =>
                            /\ ToSet(Loaded(file, skipComments[q])) = ToSet(favorites[p]) \ Comment
                            /\ InOrderOf(Loaded(file, skipComments[q]), favorites[p])
    BY DEF SavedIsLoaded
  <2>1. /\ favorites[p] \in Seq(Line) /\ IsInjective(favorites[p])
        /\ file = [lines |-> favorites[p], partial |-> FALSE]
    BY DEF IInv, OwnerInv, TypeOK, FavoritesUnique
  <2>2. skipComments[q] = TRUE \/ skipComments[q] = FALSE
    BY DEF IInv, FileInv
  <2>3. CASE skipComments[q] = FALSE
    BY <2>1, <2>3, LoadedSame
  <2>4. CASE skipComments[q] = TRUE
    BY <2>1, <2>4, LoadedButComments
  <2> QED BY <2>2, <2>3, <2>4
<1> QED BY Invariant, <1>1, PTL

\* Every change of a list is of one item, the others keeping their order
\* (favorites_add, favorites_choose, favorites_remove).
THEOREM OneFavoriteAtATime == Spec => OrderKept
<1> DEFINE Kept == \A p \in Process :
        (phase[p] = "on" /\ phase'[p] # "off") =>
            \E item \in Line : Removed(favorites'[p], item) = Removed(favorites[p], item)
<1>1. IInv /\ [Next]_vars => [Kept]_vars
  <2> SUFFICES ASSUME IInv, Next, NEW p \in Process, phase[p] = "on", phase'[p] # "off"
               PROVE  \E item \in Line : Removed(favorites'[p], item) = Removed(favorites[p], item)
    BY DEF vars
  <2>1. CASE favorites'[p] = favorites[p]
    BY <2>1, LineAssumption
  <2>2. CASE favorites'[p] # favorites[p]
    <3>1. favorites \in [Process -> Seq(Line)] /\ phase \in [Process -> {"off", "on", "saving"}]
          /\ IsInjective(favorites[p]) /\ favorites[p] \in Seq(Line) /\ reorderOnChoice \in BOOLEAN
      BY DEF IInv, TypeOK, FavoritesUnique, FileInv
    <3>2. \A q \in Process : ~Start(q) /\ ~Close(q) /\ ~End(q)
      BY <2>2, <3>1 DEF Start, Close, End
    <3>3. PICK q \in Process, item \in Line :
              AddFavorite(q, item) \/ ChooseFavorite(q, item) \/ RemoveFavorite(q, item)
      BY <3>2 DEF Next
    <3>4. \/ favorites'[p] = Added(favorites[p], item, reorderOnChoice)
          \/ favorites'[p] = Removed(favorites[p], item)
      BY <2>2, <3>1, <3>3 DEF AddFavorite, ChooseFavorite, RemoveFavorite, Saving, vars
    <3>5. Removed(favorites'[p], item) = Removed(favorites[p], item)
      BY <3>1, <3>4, OthersKeepTheirOrder
    <3> QED BY <3>5
  <2> QED BY <2>1, <2>2
<1> QED BY Invariant, <1>1, PTL DEF Spec, OrderKept
=============================================================================
