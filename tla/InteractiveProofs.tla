--------------------------- MODULE InteractiveProofs ---------------------------
(***************************************************************************)
(* The theorems about loop_to_select, for every history, every             *)
(* configuration, every pattern and every terminal. The first part is      *)
(* about hstr_make_selection, whose two loops are folds: what they select  *)
(* is commands of the view, the same again when the regular expression of  *)
(* the pattern is in the cache already, and the first that match, in their *)
(* order, of all there are (SelectsFirstMatches).  Then every key keeps    *)
(* the invariant: while no resize was taken for an answer the terminal     *)
(* shows the selection, row by row, and the cursor is in the prompt or on  *)
(* a command.                                                              *)
(***************************************************************************)
EXTENDS Interactive, SelectionCall, OperatorProofs

\* The two loops of hstr_make_selection.
FirstLoop(source, p, q) == FoldLeft(LAMBDA s, line : FirstPass(s, line, p, q), <<>>, source)
SecondLoop(first, source, p, q) ==
    FoldLeft(LAMBDA s, line : SecondPass(s, line, p, q), first, source)

\* What a row adds to the selection is the row.
LEMMA FirstPassType ==
    ASSUME NEW S, NEW s \in Seq(S), NEW line \in S, NEW p, NEW q
    PROVE  FirstPass(s, line, p, q) \in Seq(S)
<1>1. Append(s, line) \in Seq(S)
  OBVIOUS
<1>2. SelectionAdd(s, line, q.capacity, q.noDuplicates) \in Seq(S)
  BY <1>1 DEF SelectionAdd
<1> QED BY <1>1, <1>2 DEF FirstPass

\* The same of the second loop.
LEMMA SecondPassType ==
    ASSUME NEW S, NEW s \in Seq(S), NEW line \in S, NEW p, NEW q
    PROVE  SecondPass(s, line, p, q) \in Seq(S)
<1>1. Append(s, line) \in Seq(S)
  OBVIOUS
<1>2. SelectionAdd(s, line, q.capacity, q.noDuplicates) \in Seq(S)
  BY <1>1 DEF SelectionAdd
<1> QED BY <1>2 DEF SecondPass

\* What it is for F to have what the first loop has selected, row after row ...
IsFirstLoop(F, S, source, p, q) ==
    /\ F \in [0 .. Len(source) -> Seq(S)]
    /\ F[0] = <<>>
    /\ \A k \in 1 .. Len(source) : F[k] = FirstPass(F[k - 1], source[k], p, q)
    /\ FirstLoop(source, p, q) = F[Len(source)]

\* ... and there is such an F.
LEMMA FirstSteps ==
    ASSUME NEW S, NEW source \in Seq(S), NEW p, NEW q
    PROVE  \E F : IsFirstLoop(F, S, source, p, q)
<1> DEFINE n == Len(source)
           T == Seq(S)
           op(s, m) == FirstPass(s, source[m], p, q)
           step == [a \in T \X (1 .. n) |-> op(a[1], a[2])]
<1>1. n \in Nat /\ DOMAIN source = 1 .. n /\ \A m \in 1 .. n : source[m] \in S
  OBVIOUS
<1>2. <<>> \in T /\ step \in Steps(n, T)
  <2>1. ASSUME NEW s \in T, NEW m \in 1 .. n PROVE op(s, m) \in T
    BY <1>1, FirstPassType
  <2> HIDE DEF op, T, n
  <2> QED BY <2>1 DEF Steps, T
<1>3. PICK g \in [SUBSET (1 .. n) -> T] :
          \A s \in SUBSET (1 .. n) :
             g[s] = IF s = {} THEN <<>> ELSE step[<<g[s \ {Max(s)}], Max(s)>>]
  <2>1. \E g : IsFold(g, n, T, <<>>, step)
    <3> HIDE DEF step, n, T
    <3> QED BY <1>1, <1>2, FoldExists
  <2> QED BY <2>1 DEF IsFold
<1> DEFINE Is(h) == h = [s \in SUBSET (1 .. n) |-> IF s = {} THEN <<>> ELSE op(h[s \ {Max(s)}], Max(s))]
           iter == CHOOSE h : Is(h)
<1>4. Is(g)
  <2>1. ASSUME NEW s \in SUBSET (1 .. n), s # {}
        PROVE  step[<<g[s \ {Max(s)}], Max(s)>>] = op(g[s \ {Max(s)}], Max(s))
    <3>1. Max(s) \in 1 .. n /\ g[s \ {Max(s)}] \in T
      BY <1>1, <2>1, MaxIsInside
    <3> QED BY <3>1
  <2> HIDE DEF step, op
  <2> QED BY <1>3, <2>1
<1>5. Is(iter)
  <2> HIDE DEF Is
  <2> QED BY <1>4
<1>6. FirstLoop(source, p, q) = iter[1 .. n]
  BY <1>1 DEF FirstLoop, FoldLeft, MapThenFoldSet
<1> DEFINE F == [k \in 0 .. n |-> iter[1 .. k]]
<1> HIDE DEF iter
<1>7. F[0] = <<>>
  BY <1>1, <1>5
<1>8. ASSUME NEW k \in 1 .. n PROVE F[k] = op(F[k - 1], k)
  <2>1. /\ 1 .. k \in SUBSET (1 .. n) /\ 1 .. k # {}
        /\ (1 .. k) \ {Max(1 .. k)} = 1 .. k - 1 /\ Max(1 .. k) = k
    BY <1>1, InitialSegments
  <2>2. iter[1 .. k] = op(iter[(1 .. k) \ {Max(1 .. k)}], Max(1 .. k))
    <3> HIDE DEF op
    <3> QED BY <1>5, <2>1
  <2>3. iter[1 .. k] = op(iter[1 .. k - 1], k)
    <3> HIDE DEF op
    <3> QED BY <2>1, <2>2
  <2> QED BY <2>3
<1>9. \A k \in 0 .. n : F[k] \in T
  <2> HIDE DEF F
  <2>1. ASSUME NEW k \in 1 .. n, F[k - 1] \in T PROVE F[k] \in T
    <3>1. F[k] = op(F[k - 1], k) /\ source[k] \in S
      BY <1>1, <1>8
    <3> QED BY <2>1, <3>1, FirstPassType
  <2> HIDE DEF n, T
  <2> QED BY <1>1, <1>2, <1>7, <2>1, FoldInduction
<1>10. F \in [0 .. n -> T] /\ FirstLoop(source, p, q) = F[n]
  BY <1>1, <1>6, <1>9
<1> HIDE DEF F
<1> QED BY <1>7, <1>8, <1>10 DEF IsFirstLoop

\* The same of the second loop, which adds to what the first has selected.
IsSecondLoop(F, S, first, source, p, q) ==
    /\ F \in [0 .. Len(source) -> Seq(S)]
    /\ F[0] = first
    /\ \A k \in 1 .. Len(source) : F[k] = SecondPass(F[k - 1], source[k], p, q)
    /\ SecondLoop(first, source, p, q) = F[Len(source)]

\* ... and there is such an F.
LEMMA SecondSteps ==
    ASSUME NEW S, NEW source \in Seq(S), NEW p, NEW q, NEW first \in Seq(S)
    PROVE  \E F : IsSecondLoop(F, S, first, source, p, q)
<1> DEFINE n == Len(source)
           T == Seq(S)
           op(s, m) == SecondPass(s, source[m], p, q)
           step == [a \in T \X (1 .. n) |-> op(a[1], a[2])]
<1>1. n \in Nat /\ DOMAIN source = 1 .. n /\ \A m \in 1 .. n : source[m] \in S
  OBVIOUS
<1>2. first \in T /\ step \in Steps(n, T)
  <2>1. ASSUME NEW s \in T, NEW m \in 1 .. n PROVE op(s, m) \in T
    BY <1>1, SecondPassType
  <2> HIDE DEF op, T, n
  <2> QED BY <2>1 DEF Steps, T
<1>3. PICK g \in [SUBSET (1 .. n) -> T] :
          \A s \in SUBSET (1 .. n) :
             g[s] = IF s = {} THEN first ELSE step[<<g[s \ {Max(s)}], Max(s)>>]
  <2>1. \E g : IsFold(g, n, T, first, step)
    <3> HIDE DEF step, n, T
    <3> QED BY <1>1, <1>2, FoldExists
  <2> QED BY <2>1 DEF IsFold
<1> DEFINE Is(h) == h = [s \in SUBSET (1 .. n) |-> IF s = {} THEN first ELSE op(h[s \ {Max(s)}], Max(s))]
           iter == CHOOSE h : Is(h)
<1>4. Is(g)
  <2>1. ASSUME NEW s \in SUBSET (1 .. n), s # {}
        PROVE  step[<<g[s \ {Max(s)}], Max(s)>>] = op(g[s \ {Max(s)}], Max(s))
    <3>1. Max(s) \in 1 .. n /\ g[s \ {Max(s)}] \in T
      BY <1>1, <2>1, MaxIsInside
    <3> QED BY <3>1
  <2> HIDE DEF step, op
  <2> QED BY <1>3, <2>1
<1>5. Is(iter)
  <2> HIDE DEF Is
  <2> QED BY <1>4
<1>6. SecondLoop(first, source, p, q) = iter[1 .. n]
  BY <1>1 DEF SecondLoop, FoldLeft, MapThenFoldSet
<1> DEFINE F == [k \in 0 .. n |-> iter[1 .. k]]
<1> HIDE DEF iter
<1>7. F[0] = first
  BY <1>1, <1>5
<1>8. ASSUME NEW k \in 1 .. n PROVE F[k] = op(F[k - 1], k)
  <2>1. /\ 1 .. k \in SUBSET (1 .. n) /\ 1 .. k # {}
        /\ (1 .. k) \ {Max(1 .. k)} = 1 .. k - 1 /\ Max(1 .. k) = k
    BY <1>1, InitialSegments
  <2>2. iter[1 .. k] = op(iter[(1 .. k) \ {Max(1 .. k)}], Max(1 .. k))
    <3> HIDE DEF op
    <3> QED BY <1>5, <2>1
  <2>3. iter[1 .. k] = op(iter[1 .. k - 1], k)
    <3> HIDE DEF op
    <3> QED BY <2>1, <2>2
  <2> QED BY <2>3
<1>9. \A k \in 0 .. n : F[k] \in T
  <2> HIDE DEF F
  <2>1. ASSUME NEW k \in 1 .. n, F[k - 1] \in T PROVE F[k] \in T
    <3>1. F[k] = op(F[k - 1], k) /\ source[k] \in S
      BY <1>1, <1>8
    <3> QED BY <2>1, <3>1, SecondPassType
  <2> HIDE DEF n, T
  <2> QED BY <1>1, <1>2, <1>7, <2>1, FoldInduction
<1>10. F \in [0 .. n -> T] /\ SecondLoop(first, source, p, q) = F[n]
  BY <1>1, <1>6, <1>9
<1> HIDE DEF F
<1> QED BY <1>7, <1>8, <1>10 DEF IsSecondLoop

\* What is selected is commands of the view.
LEMMA MakeSelectionType ==
    ASSUME NEW S, NEW source \in Seq(S), NEW p, NEW q
    PROVE  MakeSelection(source, p, q) \in Seq(S)
<1>1. MakeSelection(source, p, q) = SecondLoop(FirstLoop(source, p, q), source, p, q)
  BY DEF MakeSelection, FirstLoop, SecondLoop
<1>2. Len(source) \in 0 .. Len(source)
  OBVIOUS
<1>3. FirstLoop(source, p, q) \in Seq(S)
  BY <1>2, FirstSteps DEF IsFirstLoop
<1>4. SecondLoop(FirstLoop(source, p, q), source, p, q) \in Seq(S)
  BY <1>2, <1>3, SecondSteps DEF IsSecondLoop
<1> QED BY <1>1, <1>4

\* A regular expression matches what it matched, once it has been put into the cache
\* (hstr_regexp_match).
LEMMA CachedAgain ==
    ASSUME NEW r, "cache" \in DOMAIN r, NEW p, NEW line
    PROVE  RegexpMatch(Cached(r, p), p, line) = RegexpMatch(r, p, line)
<1>1. CASE Compiles(p)
  <2>1. CASE p \in DOMAIN r.cache
    BY <2>1 DEF RegexpMatch, Cached
  <2>2. CASE p \notin DOMAIN r.cache
    <3>1. p \in DOMAIN Cached(r, p).cache
      BY <1>1, <2>2 DEF Cached
    <3>2. Cached(Cached(r, p), p) = Cached(r, p)
      BY <3>1 DEF Cached
    <3> QED BY <3>2 DEF RegexpMatch
  <2> QED BY <2>1, <2>2
<1>2. CASE ~Compiles(p)
  BY <1>2 DEF RegexpMatch
<1> QED BY <1>1, <1>2

\* Settings under which every row fares alike select the same.
LEMMA SamePasses ==
    ASSUME NEW S, NEW source \in Seq(S), NEW p, NEW q1, NEW q2,
           \A s, line : /\ FirstPass(s, line, p, q1) = FirstPass(s, line, p, q2)
                        /\ SecondPass(s, line, p, q1) = SecondPass(s, line, p, q2)
    PROVE  MakeSelection(source, p, q1) = MakeSelection(source, p, q2)
<1>1. Len(source) \in Nat
  OBVIOUS
<1>2. FirstLoop(source, p, q1) = FirstLoop(source, p, q2) /\ FirstLoop(source, p, q1) \in Seq(S)
  <2>1. PICK F : IsFirstLoop(F, S, source, p, q1)
    BY FirstSteps
  <2>2. PICK E : IsFirstLoop(E, S, source, p, q2)
    BY FirstSteps
  <2>3. F[Len(source)] = E[Len(source)]
    <3>1. F[0] = E[0] /\ \A k \in 1 .. Len(source) : F[k - 1] = E[k - 1] => F[k] = E[k]
      BY <2>1, <2>2 DEF IsFirstLoop
    <3> QED BY <1>1, <3>1, SameSteps
  <2> QED BY <1>1, <2>1, <2>2, <2>3 DEF IsFirstLoop
<1>3. ASSUME NEW first \in Seq(S)
      PROVE  SecondLoop(first, source, p, q1) = SecondLoop(first, source, p, q2)
  <2>1. PICK F : IsSecondLoop(F, S, first, source, p, q1)
    BY SecondSteps
  <2>2. PICK E : IsSecondLoop(E, S, first, source, p, q2)
    BY SecondSteps
  <2>3. F[Len(source)] = E[Len(source)]
    <3>1. F[0] = E[0] /\ \A k \in 1 .. Len(source) : F[k - 1] = E[k - 1] => F[k] = E[k]
      BY <2>1, <2>2 DEF IsSecondLoop
    <3> QED BY <1>1, <3>1, SameSteps
  <2> QED BY <2>1, <2>2, <2>3 DEF IsSecondLoop
<1>4. \A q : MakeSelection(source, p, q) = SecondLoop(FirstLoop(source, p, q), source, p, q)
  BY DEF MakeSelection, FirstLoop, SecondLoop
<1> QED BY <1>2, <1>3, <1>4

\* A search that is repeated finds the same, though the first has compiled the regular
\* expression (hstr_make_selection, hstr_regexp_match).
LEMMA SelectedAgain ==
    ASSUME NEW S, NEW source \in Seq(S), NEW p, NEW m, NEW cs, NEW r, NEW capacity,
           "cache" \in DOMAIN r
    PROVE  MakeSelection(source, p, Query(m, cs, Compiled(r, m, source, p, capacity), capacity))
              = MakeSelection(source, p, Query(m, cs, r, capacity))
<1> DEFINE q1 == Query(m, cs, Compiled(r, m, source, p, capacity), capacity)
           q2 == Query(m, cs, r, capacity)
<1>1. /\ q1.matching = m /\ q1.caseSensitive = cs /\ q1.noDuplicates = q2.noDuplicates
      /\ q1.capacity = capacity /\ q1.regexp = Compiled(r, m, source, p, capacity)
      /\ q2.matching = m /\ q2.caseSensitive = cs /\ q2.capacity = capacity /\ q2.regexp = r
  BY DEF Query
<1>2. \A line : RegexpMatch(q1.regexp, p, line) = RegexpMatch(q2.regexp, p, line)
  <2>1. q1.regexp = Cached(r, p) \/ q1.regexp = r
    BY <1>1 DEF Compiled
  <2> QED BY <1>1, <2>1, CachedAgain
<1>3. \A line : Hit(line, p, q1) = Hit(line, p, q2)
  BY <1>1 DEF Hit
<1> HIDE DEF q1, q2
<1>4. \A s, line : /\ FirstPass(s, line, p, q1) = FirstPass(s, line, p, q2)
                   /\ SecondPass(s, line, p, q1) = SecondPass(s, line, p, q2)
  BY <1>1, <1>2, <1>3 DEF FirstPass, SecondPass
<1>5. MakeSelection(source, p, q1) = MakeSelection(source, p, q2)
  BY <1>4, SamePasses
<1> QED BY <1>5 DEF q1, q2

-----------------------------------------------------------------------------
\* What RowsAt joins: each row, or nothing.
PartsAt(rows, places) == [n \in DOMAIN rows |-> IF n \in places THEN <<rows[n]>> ELSE <<>>]

\* Rows by their places are rows.
LEMMA RowsAtType ==
    ASSUME NEW S, NEW rows \in Seq(S), NEW places
    PROVE  /\ PartsAt(rows, places) \in Seq(Seq(S))
           /\ RowsAt(rows, places) = FlattenSeq(PartsAt(rows, places))
           /\ RowsAt(rows, places) \in Seq(S)
           /\ ToSet(RowsAt(rows, places)) = {rows[n] : n \in places \cap DOMAIN rows}
<1> DEFINE parts == PartsAt(rows, places)
           n == Len(rows)
<1>1. n \in Nat /\ DOMAIN rows = 1 .. n /\ \A k \in 1 .. n : rows[k] \in S
  OBVIOUS
<1>2. \A k \in 1 .. n : parts[k] = (IF k \in places THEN <<rows[k]>> ELSE <<>>) /\ parts[k] \in Seq(S)
  BY <1>1, OneItem DEF PartsAt
<1>3. parts \in [1 .. n -> Seq(S)]
  BY <1>1, <1>2 DEF PartsAt
<1> HIDE DEF parts
<1>4. parts \in Seq(Seq(S)) /\ Len(parts) = n
  BY <1>1, <1>3
<1>5. RowsAt(rows, places) = FlattenSeq(parts)
  BY DEF RowsAt, PartsAt, parts
<1>6. FlattenSeq(parts) \in Seq(S) /\ ToSet(FlattenSeq(parts)) = UNION {ToSet(parts[k]) : k \in 1 .. n}
  BY <1>4, FlattenProperties
<1>7. UNION {ToSet(parts[k]) : k \in 1 .. n} = {rows[k] : k \in places \cap DOMAIN rows}
  <2>1. ASSUME NEW k \in 1 .. n PROVE ToSet(parts[k]) = IF k \in places THEN {rows[k]} ELSE {}
    <3>1. parts[k] = IF k \in places THEN <<rows[k]>> ELSE <<>>
      BY <1>2
    <3>2. ToSet(<<rows[k]>>) = {rows[k]} /\ ToSet(<<>>) = {}
      BY DEF ToSet
    <3> QED BY <3>1, <3>2
  <2> QED BY <1>1, <2>1
<1> QED BY <1>4, <1>5, <1>6, <1>7 DEF parts

\* One row more is there if its place is.
LEMMA RowsAtAppend ==
    ASSUME NEW S, NEW rows \in Seq(S), NEW x \in S, NEW places
    PROVE  RowsAt(Append(rows, x), places)
              = IF Len(rows) + 1 \in places THEN Append(RowsAt(rows, places), x)
                ELSE RowsAt(rows, places)
<1> DEFINE more == Append(rows, x)
           n == Len(rows)
           part == IF n + 1 \in places THEN <<x>> ELSE <<>>
           parts == PartsAt(rows, places)
<1>1. /\ more \in Seq(S) /\ Len(more) = n + 1 /\ n \in Nat /\ more[n + 1] = x
      /\ \A k \in 1 .. n : more[k] = rows[k]
      /\ DOMAIN rows = 1 .. n /\ DOMAIN more = 1 .. n + 1
  OBVIOUS
<1>2. part \in Seq(S)
  BY OneItem
<1>3. parts \in Seq(Seq(S)) /\ RowsAt(rows, places) = FlattenSeq(parts) /\ RowsAt(rows, places) \in Seq(S)
  BY RowsAtType
<1>4. Len(parts) = n
  <2>1. DOMAIN parts = 1 .. n
    BY <1>1 DEF PartsAt
  <2> HIDE DEF parts, n
  <2> QED BY <1>1, <1>3, <2>1
<1> HIDE DEF more, part
<1>5. PartsAt(more, places) = Append(parts, part)
  <2> DEFINE all == PartsAt(more, places)
  <2>1. all \in Seq(Seq(S))
    BY <1>1, RowsAtType
  <2>2. DOMAIN all = 1 .. n + 1 /\ \A k \in 1 .. n + 1 : all[k] = IF k \in places THEN <<more[k]>> ELSE <<>>
    BY <1>1 DEF PartsAt
  <2>3. \A k \in 1 .. n : parts[k] = IF k \in places THEN <<rows[k]>> ELSE <<>>
    BY <1>1 DEF PartsAt
  <2>4. all[n + 1] = part /\ \A k \in 1 .. n : all[k] = parts[k]
    <3> HIDE DEF all, parts, n
    <3>1. n + 1 \in 1 .. n + 1 /\ \A k \in 1 .. n : k \in 1 .. n + 1
      BY <1>1
    <3>2. all[n + 1] = IF n + 1 \in places THEN <<more[n + 1]>> ELSE <<>>
      BY <2>2, <3>1
    <3>3. \A k \in 1 .. n : all[k] = parts[k]
      BY <1>1, <2>2, <2>3, <3>1
    <3> QED BY <1>1, <3>2, <3>3 DEF part
  <2>5. Len(all) = n + 1
    <3> HIDE DEF all, n
    <3> QED BY <1>1, <2>1, <2>2
  <2> HIDE DEF all, parts, n
  <2> DEFINE both == Append(parts, part)
             T == Seq(S)
  <2>6. /\ both \in Seq(T) /\ Len(both) = n + 1 /\ both[n + 1] = part
        /\ \A k \in 1 .. n : both[k] = parts[k]
    <3>1. parts \in Seq(T) /\ part \in T
      BY <1>2, <1>3
    <3> HIDE DEF T
    <3> QED BY <1>4, <3>1
  <2>7. all \in Seq(T)
    BY <2>1
  <2> HIDE DEF both, T
  <2>8. all = both
    <3>1. \A k \in 1 .. n + 1 : all[k] = both[k]
      BY <1>1, <2>4, <2>6
    <3> QED BY <2>5, <2>6, <2>7, <3>1, SeqEqual
  <2> QED BY <2>8 DEF all, both
<1>6. RowsAt(more, places) = FlattenSeq(PartsAt(more, places))
  BY <1>1, RowsAtType
<1>7. FlattenSeq(Append(parts, part)) = FlattenSeq(parts) \o part
  BY <1>2, <1>3, FlattenAppend
<1>8. RowsAt(more, places) = RowsAt(rows, places) \o part
  BY <1>3, <1>5, <1>6, <1>7
<1>9. \A t \in Seq(S) : t \o part = IF n + 1 \in places THEN Append(t, x) ELSE t
  BY DEF part
<1> QED BY <1>3, <1>8, <1>9 DEF more

\* Of no rows there is none.
LEMMA NothingAt == ASSUME NEW places PROVE RowsAt(<<>>, places) = <<>>
<1>1. PartsAt(<<>>, places) = <<>>
  BY DEF PartsAt
<1>2. RowsAt(<<>>, places) = FlattenSeq(PartsAt(<<>>, places))
  BY DEF RowsAt, PartsAt
<1> QED BY <1>1, <1>2 DEF FlattenSeq

\* Places there are not say nothing.
LEMMA RowsAtSame ==
    ASSUME NEW rows, NEW places, NEW more, places \cap DOMAIN rows = more \cap DOMAIN rows
    PROVE  RowsAt(rows, places) = RowsAt(rows, more)
BY DEF RowsAt

\* At all places are all rows.
LEMMA RowsAtAll ==
    ASSUME NEW S, NEW rows \in Seq(S)
    PROVE  RowsAt(rows, DOMAIN rows) = rows
<1> DEFINE n == Len(rows)
           F == [k \in 0 .. n |-> RowsAt(SubSeq(rows, 1, k), DOMAIN rows)]
           E == [k \in 0 .. n |-> SubSeq(rows, 1, k)]
<1>1. n \in Nat /\ DOMAIN rows = 1 .. n
  OBVIOUS
<1>2. F[0] = E[0]
  <2>1. SubSeq(rows, 1, 0) = <<>>
    OBVIOUS
  <2>2. 0 \in 0 .. n /\ F[0] = RowsAt(SubSeq(rows, 1, 0), DOMAIN rows) /\ E[0] = SubSeq(rows, 1, 0)
    BY <1>1
  <2>3. RowsAt(<<>>, DOMAIN rows) = <<>>
    BY NothingAt
  <2> QED BY <2>1, <2>2, <2>3
<1>3. ASSUME NEW k \in 1 .. n, F[k - 1] = E[k - 1] PROVE F[k] = E[k]
  <2> DEFINE s == SubSeq(rows, 1, k - 1)
  <2>1. s \in Seq(S) /\ Len(s) = k - 1 /\ SubSeq(rows, 1, k) = Append(s, rows[k]) /\ rows[k] \in S
    BY <1>1
  <2> HIDE DEF s
  <2>2. RowsAt(Append(s, rows[k]), DOMAIN rows) = Append(RowsAt(s, DOMAIN rows), rows[k])
    BY <1>1, <2>1, RowsAtAppend
  <2>3. /\ F[k] = RowsAt(SubSeq(rows, 1, k), DOMAIN rows) /\ E[k] = SubSeq(rows, 1, k)
        /\ F[k - 1] = RowsAt(s, DOMAIN rows) /\ E[k - 1] = s
    <3>1. k \in 0 .. n /\ k - 1 \in 0 .. n
      BY <1>1
    <3> HIDE DEF n
    <3> QED BY <3>1 DEF s
  <2> HIDE DEF F, E
  <2> QED BY <1>3, <2>1, <2>2, <2>3
<1>4. F[n] = E[n]
  <2> HIDE DEF F, E, n
  <2> QED BY <1>1, <1>2, <1>3, SameSteps
<1>5. SubSeq(rows, 1, n) = rows
  OBVIOUS
<1>6. F[n] = RowsAt(SubSeq(rows, 1, n), DOMAIN rows) /\ E[n] = SubSeq(rows, 1, n)
  <2>1. n \in 0 .. n
    BY <1>1
  <2> HIDE DEF n
  <2> QED BY <2>1
<1> HIDE DEF F, E, n
<1> QED BY <1>4, <1>5, <1>6 DEF n

\* Each command once.
Once(rows) == RowsAt(rows, FirstPlaces(rows))

\* Discarding duplicates loses no command.
LEMMA OnceType ==
    ASSUME NEW S, NEW rows \in Seq(S)
    PROVE  Once(rows) \in Seq(S) /\ ToSet(Once(rows)) = ToSet(rows)
<1> DEFINE n == Len(rows)
           P == FirstPlaces(rows)
<1>1. n \in Nat /\ DOMAIN rows = 1 .. n /\ ToSet(rows) = {rows[k] : k \in 1 .. n}
  BY DEF ToSet
<1>2. Once(rows) \in Seq(S) /\ ToSet(Once(rows)) = {rows[k] : k \in P \cap DOMAIN rows}
  BY RowsAtType DEF Once
<1>3. ASSUME NEW k \in 1 .. n PROVE \E m \in P \cap DOMAIN rows : rows[m] = rows[k]
  <2> DEFINE same == {m \in 1 .. n : rows[m] = rows[k]}
             m == Min(same)
  <2>1. same \in SUBSET (1 .. n) /\ same # {}
    OBVIOUS
  <2>2. m \in same /\ \A y \in same : m <= y
    <3> HIDE DEF same
    <3> QED BY <1>1, <2>1, MinIsLeast
  <2> HIDE DEF m
  <2>3. m \in 1 .. n /\ rows[m] = rows[k] /\ \A y \in 1 .. m - 1 : rows[y] # rows[m]
    BY <1>1, <2>2
  <2> QED BY <1>1, <2>3 DEF FirstPlaces
<1> HIDE DEF P, n
<1> QED BY <1>1, <1>2, <1>3

\* A row more is one command more, if it is a new one.
LEMMA OnceAppend ==
    ASSUME NEW S, NEW rows \in Seq(S), NEW x \in S
    PROVE  Once(Append(rows, x)) = IF x \in ToSet(rows) THEN Once(rows) ELSE Append(Once(rows), x)
<1> DEFINE more == Append(rows, x)
           n == Len(rows)
           P == FirstPlaces(rows)
           Q == FirstPlaces(more)
<1>1. /\ more \in Seq(S) /\ Len(more) = n + 1 /\ n \in Nat /\ more[n + 1] = x
      /\ \A k \in 1 .. n : more[k] = rows[k]
      /\ DOMAIN rows = 1 .. n /\ DOMAIN more = 1 .. n + 1
  OBVIOUS
<1> HIDE DEF more, n
<1>2. Q \cap DOMAIN rows = P \cap DOMAIN rows
  <2>1. ASSUME NEW k \in 1 .. n PROVE k \in Q <=> k \in P
    <3>1. k \in 1 .. n + 1 /\ \A m \in 1 .. k - 1 : m \in 1 .. n
      BY <1>1
    <3>2. \A m \in 1 .. k - 1 : more[m] = rows[m]
      BY <1>1, <3>1
    <3> QED BY <1>1, <3>1, <3>2 DEF FirstPlaces
  <2> QED BY <1>1, <2>1
<1>3. n + 1 \in Q <=> x \notin ToSet(rows)
  <2>1. \A m \in 1 .. (n + 1) - 1 : m \in 1 .. n
    BY <1>1
  <2>2. \A m \in 1 .. n : m \in 1 .. (n + 1) - 1
    BY <1>1
  <2>3. n + 1 \in DOMAIN more
    BY <1>1
  <2>4. n + 1 \in Q <=> \A m \in 1 .. (n + 1) - 1 : more[m] # more[n + 1]
    <3>1. Q = {k \in DOMAIN more : \A m \in 1 .. k - 1 : more[m] # more[k]}
      BY DEF FirstPlaces
    <3> DEFINE last == n + 1
    <3> HIDE DEF Q, last
    <3>2. last \in DOMAIN more
      BY <2>3 DEF last
    <3>3. last \in Q <=> \A m \in 1 .. last - 1 : more[m] # more[last]
      BY <3>1, <3>2
    <3> QED BY <3>3 DEF last
  <2>5. n + 1 \in Q <=> \A m \in 1 .. n : rows[m] # x
    <3> HIDE DEF Q
    <3> QED BY <1>1, <2>1, <2>2, <2>4
  <2>6. x \in ToSet(rows) <=> \E m \in 1 .. n : rows[m] = x
    BY <1>1 DEF ToSet
  <2> QED BY <2>5, <2>6
<1> HIDE DEF P, Q
<1>4. Once(more) = IF n + 1 \in Q THEN Append(RowsAt(rows, Q), x) ELSE RowsAt(rows, Q)
  BY RowsAtAppend DEF Once, Q, more, n
<1>5. RowsAt(rows, Q) = Once(rows)
  BY <1>2, RowsAtSame DEF Once, P
<1> QED BY <1>3, <1>4, <1>5 DEF more

-----------------------------------------------------------------------------
\* The rows that are to be listed, of all that match; and of those the first.
Listed(rows, p, q) ==
    IF q.noDuplicates /\ (p = <<>> \/ q.matching # "regexp") THEN Once(rows) ELSE rows
First(rows, capacity) == SubSeq(rows, 1, IF Len(rows) < capacity THEN Len(rows) ELSE capacity)

\* The reference in these words.
LEMMA FirstMatchesIs ==
    ASSUME NEW source, NEW p, NEW q
    PROVE  FirstMatches(source, p, q) = First(Listed(Matches(source, p, q), p, q), q.capacity)
BY DEF FirstMatches, First, Listed, Once

\* What a row that matches does to the selection (hstr_selection_add, and the lines of
\* hstr_make_selection that do without it).
Taken(s, x, p, q) ==
    IF Len(s) >= q.capacity
          \/ (q.noDuplicates /\ (p = <<>> \/ q.matching # "regexp") /\ x \in ToSet(s))
    THEN s ELSE Append(s, x)

\* The first rows of a list ...
LEMMA FirstType ==
    ASSUME NEW S, NEW rows \in Seq(S), NEW capacity \in Nat
    PROVE  /\ First(rows, capacity) \in Seq(S)
           /\ Len(First(rows, capacity)) < capacity => First(rows, capacity) = rows
           /\ First(<<>>, capacity) = <<>>
<1> DEFINE n == Len(rows)
           s == First(rows, capacity)
<1>1. n \in Nat /\ SubSeq(rows, 1, n) = rows
  OBVIOUS
<1>2. First(<<>>, capacity) = <<>>
  BY DEF First
<1>3. CASE n < capacity
  <2>1. s = rows
    BY <1>1, <1>3 DEF First
  <2> QED BY <1>2, <2>1
<1>4. CASE ~(n < capacity)
  <2>1. s = SubSeq(rows, 1, capacity) /\ s \in Seq(S) /\ Len(s) = capacity
    BY <1>1, <1>4 DEF First
  <2> HIDE DEF s
  <2>2. ~(Len(s) < capacity)
    BY <2>1
  <2> QED BY <1>2, <2>1, <2>2 DEF s
<1> QED BY <1>3, <1>4

\* ... and of one that is longer.
LEMMA FirstLonger ==
    ASSUME NEW S, NEW rows \in Seq(S), NEW x \in S, NEW capacity \in Nat
    PROVE  First(Append(rows, x), capacity)
              = IF Len(First(rows, capacity)) >= capacity THEN First(rows, capacity)
                ELSE Append(First(rows, capacity), x)
<1> DEFINE n == Len(rows)
           more == Append(rows, x)
           s == First(rows, capacity)
           t == First(more, capacity)
<1>1. /\ more \in Seq(S) /\ Len(more) = n + 1 /\ n \in Nat /\ more[n + 1] = x
      /\ \A k \in 1 .. n : more[k] = rows[k]
  OBVIOUS
<1>2. CASE n < capacity
  <2>1. s = rows /\ ~(Len(s) >= capacity)
    BY <1>1, <1>2 DEF First
  <2>2. t = more
    <3> HIDE DEF more
    <3>1. t = SubSeq(more, 1, n + 1)
      <4> HIDE DEF n
      <4>1. ~(n + 1 < capacity) => capacity = n + 1
        BY <1>1, <1>2
      <4> QED BY <1>1, <4>1 DEF First
    <3>2. SubSeq(more, 1, Len(more)) = more
      BY <1>1
    <3> QED BY <1>1, <3>1, <3>2
  <2>3. t = Append(s, x)
    BY <2>1, <2>2
  <2> HIDE DEF s, t
  <2> QED BY <2>1, <2>3 DEF s, t, more
<1>3. CASE ~(n < capacity)
  <2>1. s = SubSeq(rows, 1, capacity) /\ s \in Seq(S) /\ Len(s) = capacity
    BY <1>1, <1>3 DEF First
  <2>2. t = SubSeq(more, 1, capacity)
    BY <1>1, <1>3 DEF First
  <2>3. SubSeq(more, 1, capacity) = SubSeq(rows, 1, capacity)
    BY <1>1, <1>3
  <2> HIDE DEF s, t
  <2>4. t = s
    BY <2>1, <2>2, <2>3, Zenon
  <2>5. Len(s) >= capacity
    BY <2>1
  <2> QED BY <2>4, <2>5 DEF s, t, more
<1> QED BY <1>2, <1>3

\* Taking the rows that match one after the other is taking the first of all of them.
LEMMA TakenIsFirst ==
    ASSUME NEW S, NEW rows \in Seq(S), NEW x \in S, NEW p, NEW q, q.capacity \in Nat
    PROVE  /\ Taken(First(Listed(rows, p, q), q.capacity), x, p, q)
                 = First(Listed(Append(rows, x), p, q), q.capacity)
           /\ First(Listed(<<>>, p, q), q.capacity) = <<>>
<1> DEFINE capacity == q.capacity
           list == Listed(rows, p, q)
           s == First(list, capacity)
           once == q.noDuplicates /\ (p = <<>> \/ q.matching # "regexp")
<1>1. CASE once
  <2>1. list = Once(rows) /\ list \in Seq(S) /\ ToSet(list) = ToSet(rows)
    BY <1>1, OnceType DEF Listed
  <2>2. Listed(Append(rows, x), p, q) = IF x \in ToSet(rows) THEN list ELSE Append(list, x)
    BY <1>1, <2>1, OnceAppend DEF Listed
  <2>3. Taken(s, x, p, q) = IF Len(s) >= capacity \/ x \in ToSet(s) THEN s ELSE Append(s, x)
    BY <1>1 DEF Taken
  <2>4. Listed(<<>>, p, q) = <<>>
    BY <1>1, NothingAt DEF Listed, Once
  <2> HIDE DEF once, list
  <2>0. capacity \in Nat
    OBVIOUS
  <2>9. /\ First(list, capacity) \in Seq(S)
        /\ First(Append(list, x), capacity)
              = IF Len(First(list, capacity)) >= capacity THEN First(list, capacity)
                ELSE Append(First(list, capacity), x)
        /\ Len(First(list, capacity)) < capacity => First(list, capacity) = list
        /\ First(<<>>, capacity) = <<>>
    <3> HIDE DEF capacity
    <3>1. list \in Seq(S) /\ capacity \in Nat
      BY <2>0, <2>1
    <3>2. First(list, capacity) \in Seq(S)
      BY <3>1, FirstType
    <3>3. First(<<>>, capacity) = <<>>
      BY <3>1, FirstType
    <3>4. Len(First(list, capacity)) < capacity => First(list, capacity) = list
      BY <3>1, FirstType
    <3>5. First(Append(list, x), capacity)
              = IF Len(First(list, capacity)) >= capacity THEN First(list, capacity)
                ELSE Append(First(list, capacity), x)
      BY <3>1, FirstLonger
    <3> QED BY <3>2, <3>3, <3>4, <3>5
  <2>5. /\ s \in Seq(S) /\ First(<<>>, capacity) = <<>>
        /\ First(Append(list, x), capacity) = IF Len(s) >= capacity THEN s ELSE Append(s, x)
        /\ Len(s) < capacity => s = list
    <3> HIDE DEF capacity
    <3> QED BY <2>9
  <2>6. Len(s) \in Nat
    BY <2>5
  <2> HIDE DEF s, capacity
  <2>7. Taken(s, x, p, q) = First(Listed(Append(rows, x), p, q), capacity)
    <3>1. CASE Len(s) >= capacity
      <4>1. First(Listed(Append(rows, x), p, q), capacity) = s
        <5>1. First(list, capacity) = s
          BY DEF s
        <5> QED BY <2>2, <2>5, <3>1, <5>1
      <4> QED BY <2>3, <3>1, <4>1
    <3>2. CASE Len(s) < capacity
      <4>1. s = list /\ ~(Len(s) >= capacity)
        BY <2>5, <2>6, <3>2 DEF capacity
      <4>2. First(list, capacity) = s
        BY DEF s
      <4> QED BY <2>1, <2>2, <2>3, <2>5, <4>1, <4>2
    <3> QED BY <2>6, <3>1, <3>2 DEF capacity
  <2> QED BY <2>4, <2>5, <2>7 DEF s, list, capacity
<1>2. CASE ~once
  <2>1. list = rows /\ Listed(Append(rows, x), p, q) = Append(rows, x)
    BY <1>2 DEF Listed
  <2>2. Taken(s, x, p, q) = IF Len(s) >= capacity THEN s ELSE Append(s, x)
    BY <1>2 DEF Taken
  <2>3. Listed(<<>>, p, q) = <<>>
    BY <1>2 DEF Listed
  <2> HIDE DEF once, list
  <2>0. capacity \in Nat
    OBVIOUS
  <2> HIDE DEF capacity
  <2>4. /\ First(Append(rows, x), capacity) = IF Len(s) >= capacity THEN s ELSE Append(s, x)
        /\ First(<<>>, capacity) = <<>>
    <3>1. First(Append(rows, x), capacity)
              = IF Len(First(rows, capacity)) >= capacity THEN First(rows, capacity)
                ELSE Append(First(rows, capacity), x)
      BY <2>0, FirstLonger
    <3>2. First(<<>>, capacity) = <<>>
      BY <2>0, FirstType
    <3> QED BY <2>1, <3>1, <3>2 DEF s
  <2> HIDE DEF s
  <2> QED BY <2>1, <2>2, <2>3, <2>4 DEF s, list, capacity
<1> QED BY <1>1, <1>2

\* At no places are no rows.
LEMMA RowsAtNone ==
    ASSUME NEW S, NEW rows \in Seq(S), NEW places, places \cap DOMAIN rows = {}
    PROVE  RowsAt(rows, places) = <<>>
<1> DEFINE none == RowsAt(rows, places)
<1>1. none \in Seq(S) /\ ToSet(none) = {rows[n] : n \in places \cap DOMAIN rows}
  BY RowsAtType
<1> HIDE DEF none
<1>2. ToSet(none) = {}
  BY <1>1
<1>3. DOMAIN none = {}
  BY <1>2 DEF ToSet
<1>4. none = <<>>
  BY <1>1, <1>3
<1> QED BY <1>4 DEF none

\* Of no rows none is listed.
LEMMA NoneListed ==
    ASSUME NEW p, NEW q, q.capacity \in Nat
    PROVE  First(Listed(<<>>, p, q), q.capacity) = <<>>
<1>1. Listed(<<>>, p, q) = <<>>
  BY NothingAt DEF Listed, Once
<1>2. First(<<>>, q.capacity) = <<>>
  BY DEF First
<1> QED BY <1>1, <1>2

\* A loop over the rows that takes those at some places.
LEMMA TakingLoop ==
    ASSUME NEW S, NEW source \in Seq(S), NEW base \in Seq(S), NEW places, NEW p, NEW q,
           q.capacity \in Nat, NEW F,
           F[0] = First(Listed(base, p, q), q.capacity),
           \A k \in 1 .. Len(source) :
              F[k] = IF k \in places THEN Taken(F[k - 1], source[k], p, q) ELSE F[k - 1]
    PROVE  F[Len(source)] = First(Listed(base \o RowsAt(source, places), p, q), q.capacity)
<1> DEFINE n == Len(source)
           rows(k) == base \o RowsAt(SubSeq(source, 1, k), places)
           E == [k \in 0 .. n |-> First(Listed(rows(k), p, q), q.capacity)]
<1>1. n \in Nat /\ SubSeq(source, 1, n) = source /\ SubSeq(source, 1, 0) = <<>>
  OBVIOUS
<1>2. rows(0) = base /\ rows(n) = base \o RowsAt(source, places)
  <2>1. RowsAt(<<>>, places) = <<>>
    BY NothingAt
  <2>2. base \o <<>> = base
    OBVIOUS
  <2>3. rows(0) = base \o RowsAt(SubSeq(source, 1, 0), places)
    OBVIOUS
  <2>4. rows(n) = base \o RowsAt(SubSeq(source, 1, n), places)
    OBVIOUS
  <2> HIDE DEF rows
  <2> QED BY <1>1, <2>1, <2>2, <2>3, <2>4
<1>3. ASSUME NEW k \in 1 .. n
      PROVE  /\ rows(k - 1) \in Seq(S) /\ source[k] \in S
             /\ rows(k) = IF k \in places THEN Append(rows(k - 1), source[k]) ELSE rows(k - 1)
  <2> DEFINE s == SubSeq(source, 1, k - 1)
             t == RowsAt(s, places)
  <2>1. s \in Seq(S) /\ Len(s) = k - 1 /\ SubSeq(source, 1, k) = Append(s, source[k]) /\ source[k] \in S
    BY <1>1
  <2> HIDE DEF s
  <2>2. t \in Seq(S)
    BY <2>1, RowsAtType
  <2>3. RowsAt(Append(s, source[k]), places) = IF k \in places THEN Append(t, source[k]) ELSE t
    <3>1. Len(s) + 1 = k
      BY <1>1, <2>1
    <3>2. RowsAt(Append(s, source[k]), places)
            = IF Len(s) + 1 \in places THEN Append(RowsAt(s, places), source[k]) ELSE RowsAt(s, places)
      BY <2>1, RowsAtAppend
    <3> QED BY <3>1, <3>2
  <2> HIDE DEF t
  <2>4. rows(k - 1) = base \o t
    BY DEF s, t
  <2>5. rows(k) = base \o (IF k \in places THEN Append(t, source[k]) ELSE t)
    BY <2>1, <2>3
  <2> HIDE DEF rows
  <2>6. base \o t \in Seq(S) /\ base \o Append(t, source[k]) = Append(base \o t, source[k])
    BY <2>1, <2>2
  <2> QED BY <2>1, <2>4, <2>5, <2>6
<1> HIDE DEF rows
<1>4. E[0] = F[0]
  BY <1>1, <1>2
<1>5. ASSUME NEW k \in 1 .. n, F[k - 1] = E[k - 1] PROVE F[k] = E[k]
  <2> DEFINE r == rows(k - 1)
             x == source[k]
  <2>1. k \in 0 .. n /\ k - 1 \in 0 .. n
    BY <1>1
  <2>2. E[k - 1] = First(Listed(r, p, q), q.capacity) /\ E[k] = First(Listed(rows(k), p, q), q.capacity)
    <3> HIDE DEF n
    <3> QED BY <2>1
  <2>3. r \in Seq(S) /\ x \in S /\ rows(k) = IF k \in places THEN Append(r, x) ELSE r
    BY <1>3
  <2>4. F[k] = IF k \in places THEN Taken(F[k - 1], x, p, q) ELSE F[k - 1]
    OBVIOUS
  <2> HIDE DEF E, r, x
  <2>5. Taken(First(Listed(r, p, q), q.capacity), x, p, q)
          = First(Listed(Append(r, x), p, q), q.capacity)
    BY <2>3, TakenIsFirst
  <2> QED BY <1>5, <2>2, <2>3, <2>4, <2>5
<1>6. F[n] = E[n]
  <2> HIDE DEF E, n
  <2> QED BY <1>1, <1>4, <1>5, SameSteps
<1>7. E[n] = First(Listed(rows(n), p, q), q.capacity)
  <2>1. n \in 0 .. n
    BY <1>1
  <2> HIDE DEF n
  <2> QED BY <2>1
<1> QED BY <1>2, <1>6, <1>7

-----------------------------------------------------------------------------
\* The places of the rows that the first loop takes, and of those the second does.
Hits(source, p, q) ==
    {n \in DOMAIN source : \/ p = <<>>
                           \/ q.matching = "regexp" /\ RegexpMatch(q.regexp, p, source[n])
                           \/ q.matching # "regexp" /\ Hit(source[n], p, q)}
Inside(source, p, q) ==
    {n \in DOMAIN source : /\ q.matching = "substring" /\ Found(p, source[n], q.caseSensitive)
                           /\ ~Starts(p, source[n], q.caseSensitive)}

\* What a row does to the selection, taken or not.
LEMMA PassesTake ==
    ASSUME NEW source, NEW p, NEW q, NEW n \in DOMAIN source, NEW s
    PROVE  /\ FirstPass(s, source[n], p, q)
                 = IF n \in Hits(source, p, q) THEN Taken(s, source[n], p, q) ELSE s
           /\ SecondPass(s, source[n], p, q)
                 = IF n \in Inside(source, p, q) THEN Taken(s, source[n], p, q) ELSE s
<1>1. SecondPass(s, source[n], p, q)
        = IF n \in Inside(source, p, q) THEN Taken(s, source[n], p, q) ELSE s
  BY DEF SecondPass, SelectionAdd, Inside, Taken
<1>2. n \in Hits(source, p, q) <=>
         \/ p = <<>>
         \/ q.matching = "regexp" /\ RegexpMatch(q.regexp, p, source[n])
         \/ q.matching # "regexp" /\ Hit(source[n], p, q)
  BY DEF Hits
<1>3. CASE Len(s) >= q.capacity
  BY <1>1, <1>3 DEF FirstPass, Taken
<1>4. CASE ~(Len(s) >= q.capacity) /\ p # <<>> /\ q.matching = "regexp"
  BY <1>1, <1>2, <1>4 DEF FirstPass, Taken
<1>5. CASE ~(Len(s) >= q.capacity) /\ ~(p # <<>> /\ q.matching = "regexp")
  BY <1>1, <1>2, <1>5 DEF FirstPass, Taken, SelectionAdd
<1> QED BY <1>3, <1>4, <1>5

\* The two loops take the first of the rows they take.
LEMMA LoopsTake ==
    ASSUME NEW S, NEW source \in Seq(S), NEW p, NEW q, q.capacity \in Nat
    PROVE  MakeSelection(source, p, q)
              = First(Listed(RowsAt(source, Hits(source, p, q))
                               \o RowsAt(source, Inside(source, p, q)), p, q), q.capacity)
<1> DEFINE n == Len(source)
           hits == Hits(source, p, q)
           inside == Inside(source, p, q)
           found == RowsAt(source, hits)
           one == FirstLoop(source, p, q)
<1>1. n \in Nat /\ DOMAIN source = 1 .. n
  OBVIOUS
<1>2. PICK F : IsFirstLoop(F, S, source, p, q)
  BY FirstSteps
<1>3. one \in Seq(S) /\ one = F[n]
  BY <1>1, <1>2 DEF IsFirstLoop
<1>4. PICK E : IsSecondLoop(E, S, one, source, p, q)
  BY <1>3, SecondSteps
<1>5. found \in Seq(S)
  BY RowsAtType
<1>6. F[0] = First(Listed(<<>>, p, q), q.capacity)
  <2>1. F[0] = <<>>
    BY <1>2 DEF IsFirstLoop
  <2>2. First(Listed(<<>>, p, q), q.capacity) = <<>>
    BY NoneListed
  <2> QED BY <2>1, <2>2
<1>7. \A k \in 1 .. n : F[k] = IF k \in hits THEN Taken(F[k - 1], source[k], p, q) ELSE F[k - 1]
  <2>1. \A k \in 1 .. n : F[k] = FirstPass(F[k - 1], source[k], p, q)
    BY <1>2 DEF IsFirstLoop
  <2> HIDE DEF hits
  <2> QED BY <1>1, <2>1, PassesTake DEF hits
<1>8. one = First(Listed(<<>> \o found, p, q), q.capacity)
  <2> HIDE DEF hits, one
  <2>1. <<>> \in Seq(S)
    OBVIOUS
  <2> DEFINE none == <<>>
  <2>2. none \in Seq(S) /\ F[0] = First(Listed(none, p, q), q.capacity)
    BY <1>6, <2>1
  <2> HIDE DEF none
  <2>3. F[n] = First(Listed(none \o RowsAt(source, hits), p, q), q.capacity)
    BY <1>7, <2>2, TakingLoop
  <2> QED BY <1>3, <2>3 DEF none
<1>9. <<>> \o found = found
  <2> HIDE DEF found
  <2> QED BY <1>5
<1>10. E[0] = First(Listed(found, p, q), q.capacity)
  BY <1>4, <1>8, <1>9 DEF IsSecondLoop
<1>11. \A k \in 1 .. n : E[k] = IF k \in inside THEN Taken(E[k - 1], source[k], p, q) ELSE E[k - 1]
  <2>1. \A k \in 1 .. n : E[k] = SecondPass(E[k - 1], source[k], p, q)
    BY <1>4 DEF IsSecondLoop
  <2> HIDE DEF inside
  <2> QED BY <1>1, <2>1, PassesTake DEF inside
<1>12. E[n] = First(Listed(found \o RowsAt(source, inside), p, q), q.capacity)
  <2> HIDE DEF inside, found
  <2> QED BY <1>5, <1>10, <1>11, TakingLoop
<1>13. MakeSelection(source, p, q) = E[n]
  <2>1. MakeSelection(source, p, q) = SecondLoop(one, source, p, q)
    BY DEF MakeSelection, FirstLoop, SecondLoop
  <2> QED BY <1>4, <2>1 DEF IsSecondLoop
<1> QED BY <1>12, <1>13

\* Nothing is found everywhere.
LEMMA NothingFound ==
    ASSUME NEW text \in Seq(Char), NEW cs
    PROVE  Starts(<<>>, text, cs) /\ Found(<<>>, text, cs)
<1>1. Len(text) \in Nat /\ SubSeq(text, 1, 0) = <<>> /\ Len(<<>>) = 0
  OBVIOUS
<1>2. 0 \in 0 .. Len(text) - Len(<<>>) /\ SubSeq(text, 0 + 1, 0 + Len(<<>>)) = <<>>
  BY <1>1
<1>3. 0 \in Offsets(<<>>, text, cs)
  BY <1>2 DEF Offsets
<1> QED BY <1>3 DEF Starts, Found

\* Two texts of one length that are alike, folded, are alike part by part.
LEMMA PartsAlike ==
    ASSUME NEW a \in Seq(Char), NEW b \in Seq(Char), NEW cs, Folded(a, cs) = Folded(b, cs),
           NEW i \in 1 .. Len(a), NEW j \in i .. Len(a)
    PROVE  Folded(SubSeq(a, i, j), cs) = Folded(SubSeq(b, i, j), cs)
<1>1. CASE cs
  BY <1>1 DEF Folded
<1>2. CASE ~cs
  <2> DEFINE A == SubSeq(a, i, j)
             B == SubSeq(b, i, j)
  <2>1. [n \in DOMAIN a |-> Lower[a[n]]] = [n \in DOMAIN b |-> Lower[b[n]]]
    BY <1>2 DEF Folded
  <2>2. DOMAIN a = DOMAIN b
    BY <2>1
  <2>3. \A n \in DOMAIN a : Lower[a[n]] = Lower[b[n]]
    BY <2>1, <2>2
  <2>4. DOMAIN a = 1 .. Len(a) /\ Len(a) \in Nat /\ Len(b) = Len(a)
    BY <2>2
  <2>5. /\ DOMAIN A = 1 .. j - i + 1 /\ DOMAIN B = 1 .. j - i + 1
        /\ \A n \in 1 .. j - i + 1 : A[n] = a[i + n - 1] /\ B[n] = b[i + n - 1]
    BY <2>4
  <2> HIDE DEF A, B
  <2>6. \A n \in 1 .. j - i + 1 : i + n - 1 \in 1 .. Len(a)
    BY <2>4
  <2>7. ASSUME NEW n \in DOMAIN A PROVE Lower[A[n]] = Lower[B[n]]
    <3> DEFINE k == i + n - 1
    <3>1. k \in 1 .. Len(a) /\ A[n] = a[k] /\ B[n] = b[k]
      BY <2>5, <2>6
    <3> HIDE DEF k
    <3> QED BY <2>3, <2>4, <3>1
  <2>8. [n \in DOMAIN A |-> Lower[A[n]]] = [n \in DOMAIN B |-> Lower[B[n]]]
    BY <2>5, <2>7
  <2> QED BY <1>2, <2>8 DEF Folded, A, B
<1> QED BY <1>1, <1>2

\* What is found is found part by part.
LEMMA PartFound ==
    ASSUME NEW word \in Seq(Char), NEW text \in Seq(Char), NEW cs, Found(word, text, cs),
           NEW i \in 1 .. Len(word), NEW j \in i .. Len(word)
    PROVE  Found(SubSeq(word, i, j), text, cs)
<1> DEFINE len == Len(word)
           part == SubSeq(word, i, j)
<1>1. len \in Nat /\ Len(text) \in Nat /\ part \in Seq(Char) /\ Len(part) = j - i + 1
  OBVIOUS
<1>2. PICK m \in 0 .. Len(text) - len : Folded(SubSeq(text, m + 1, m + len), cs) = Folded(word, cs)
  BY DEF Found, Offsets
<1> DEFINE there == SubSeq(text, m + 1, m + len)
           k == m + i - 1
<1>3. there \in Seq(Char) /\ Len(there) = len
  BY <1>1
<1>4. SubSeq(there, i, j) = SubSeq(text, k + 1, k + Len(part))
  <2> DEFINE a == SubSeq(there, i, j)
             b == SubSeq(text, k + 1, k + Len(part))
  <2>1. /\ a \in Seq(Char) /\ Len(a) = j - i + 1 /\ \A n \in 1 .. j - i + 1 : a[n] = there[i + n - 1]
    BY <1>1, <1>3
  <2>2. /\ b \in Seq(Char) /\ Len(b) = j - i + 1 /\ \A n \in 1 .. j - i + 1 : b[n] = text[k + n]
    BY <1>1
  <2>3. \A n \in 1 .. len : there[n] = text[m + n]
    BY <1>1
  <2>4. \A n \in 1 .. j - i + 1 : i + n - 1 \in 1 .. len /\ m + (i + n - 1) = k + n
    BY <1>1
  <2> HIDE DEF a, b, there, k
  <2>5. ASSUME NEW n \in 1 .. j - i + 1 PROVE a[n] = b[n]
    <3> DEFINE q == i + n - 1
    <3>1. q \in 1 .. len /\ m + q = k + n /\ a[n] = there[q] /\ b[n] = text[k + n]
      BY <2>1, <2>2, <2>4
    <3> HIDE DEF q
    <3>2. there[q] = text[m + q]
      BY <2>3, <3>1
    <3> QED BY <3>1, <3>2
  <2>6. a = b
    BY <2>1, <2>2, <2>5, SeqEqual
  <2> QED BY <2>6 DEF a, b
<1>5. Folded(SubSeq(there, i, j), cs) = Folded(part, cs)
  <2> HIDE DEF there
  <2> QED BY <1>1, <1>2, <1>3, PartsAlike DEF there
<1>6. k \in 0 .. Len(text) - Len(part)
  BY <1>1
<1> HIDE DEF k, there, part
<1>7. k \in Offsets(part, text, cs)
  BY <1>4, <1>5, <1>6 DEF Offsets
<1> QED BY <1>7 DEF Found, part

\* What has no space in it is part of a keyword (strtok_r).
LEMMA InKeyword ==
    ASSUME NEW p \in Seq(Char), NEW i \in 1 .. Len(p), NEW j \in i .. Len(p),
           \A n \in i .. j : p[n] # Space
    PROVE  \E a \in 1 .. i, b \in j .. Len(p) : SubSeq(p, a, b) \in Keywords(p)
<1> DEFINE len == Len(p)
           lefts == {a \in 1 .. i : \A n \in a .. i : p[n] # Space}
           rights == {b \in j .. len : \A n \in j .. b : p[n] # Space}
           a == Min(lefts)
           b == Max(rights)
<1>1. len \in Nat /\ DOMAIN p = 1 .. len
  OBVIOUS
<1>2. lefts \in SUBSET (1 .. len) /\ lefts # {} /\ rights \in SUBSET (1 .. len) /\ rights # {}
  <2>1. i \in lefts /\ j \in rights
    BY <1>1
  <2>2. lefts \subseteq 1 .. len /\ rights \subseteq 1 .. len
    BY <1>1
  <2> QED BY <2>1, <2>2
<1>3. a \in lefts /\ \A y \in lefts : a <= y
  <2> HIDE DEF lefts
  <2> QED BY <1>1, <1>2, MinIsLeast
<1>4. b \in rights /\ \A y \in rights : b >= y
  <2> HIDE DEF rights
  <2> QED BY <1>1, <1>2, MaxIsInside
<1> HIDE DEF a, b
<1>5. a \in 1 .. i /\ b \in j .. len /\ \A n \in a .. b : p[n] # Space
  <2>1. a \in 1 .. i /\ b \in j .. len
    BY <1>3, <1>4
  <2>2. \A n \in a .. b : n \in a .. i \/ n \in i .. j \/ n \in j .. b
    BY <1>1, <2>1
  <2> QED BY <1>3, <1>4, <2>1, <2>2
<1>6. a = 1 \/ p[a - 1] = Space
  <2> SUFFICES ASSUME a # 1, p[a - 1] # Space PROVE FALSE
    OBVIOUS
  <2>1. a - 1 \in 1 .. i /\ \A n \in a - 1 .. i : n = a - 1 \/ n \in a .. i
    BY <1>1, <1>5
  <2>2. a - 1 \in lefts
    BY <1>3, <2>1
  <2> QED BY <1>3, <1>5, <2>2
<1>7. b = len \/ p[b + 1] = Space
  <2> SUFFICES ASSUME b # len, p[b + 1] # Space PROVE FALSE
    OBVIOUS
  <2>1. b + 1 \in j .. len /\ \A n \in j .. b + 1 : n = b + 1 \/ n \in j .. b
    <3> HIDE DEF len
    <3> QED BY <1>1, <1>5
  <2>2. b + 1 \in rights
    BY <1>4, <2>1
  <2> QED BY <1>4, <1>5, <2>2
<1> HIDE DEF lefts, rights
<1>8. a \in DOMAIN p /\ b \in DOMAIN p /\ a <= b
  BY <1>1, <1>5
<1>9. SubSeq(p, a, b) \in Keywords(p)
  <2> DEFINE t == <<a, b>>
  <2>1. t \in (DOMAIN p) \X (DOMAIN p) /\ t[1] = a /\ t[2] = b
    BY <1>8
  <2> HIDE DEF t
  <2> QED BY <1>5, <1>6, <1>7, <1>8, <2>1 DEF Keywords
<1> QED BY <1>5, <1>9

\* All keywords are found if and only if all that is between two spaces is.
LEMMA KeywordsFound ==
    ASSUME NEW p \in Seq(Char), NEW text \in Seq(Char), NEW cs
    PROVE  (\A word \in Keywords(p) : Found(word, text, cs))
              <=> \A i, j \in DOMAIN p : Space \in ToSet(SubSeq(p, i, j))
                                            \/ Found(SubSeq(p, i, j), text, cs)
<1>1. Len(p) \in Nat /\ DOMAIN p = 1 .. Len(p)
  OBVIOUS
<1>2. ASSUME NEW i \in 1 .. Len(p), NEW j \in 1 .. Len(p)
      PROVE  Space \in ToSet(SubSeq(p, i, j)) <=> \E n \in i .. j : p[n] = Space
  <2> DEFINE part == SubSeq(p, i, j)
             len == IF i <= j THEN j - i + 1 ELSE 0
  <2>1. /\ len \in Nat /\ DOMAIN part = 1 .. len /\ \A n \in 1 .. len : part[n] = p[i + n - 1]
    BY <1>1
  <2>2. (\A n \in 1 .. len : i + n - 1 \in i .. j) /\ (\A n \in i .. j : n - i + 1 \in 1 .. len /\ i + (n - i + 1) - 1 = n)
    BY <1>1
  <2> HIDE DEF part, len
  <2>3. Space \in ToSet(part) <=> \E n \in 1 .. len : part[n] = Space
    BY <2>1 DEF ToSet
  <2> QED BY <2>1, <2>2, <2>3 DEF part
<1>3. ASSUME \A word \in Keywords(p) : Found(word, text, cs),
             NEW i \in 1 .. Len(p), NEW j \in 1 .. Len(p), Space \notin ToSet(SubSeq(p, i, j))
      PROVE  Found(SubSeq(p, i, j), text, cs)
  <2>1. CASE i > j
    <3>1. SubSeq(p, i, j) = <<>>
      BY <1>1, <2>1
    <3> QED BY <3>1, NothingFound
  <2>2. CASE i <= j
    <3>1. j \in i .. Len(p) /\ \A n \in i .. j : p[n] # Space
      BY <1>1, <1>2, <1>3, <2>2
    <3>2. PICK a \in 1 .. i, b \in j .. Len(p) : SubSeq(p, a, b) \in Keywords(p)
      BY <3>1, InKeyword
    <3> DEFINE word == SubSeq(p, a, b)
               k == i - a + 1
               l == j - a + 1
    <3>3. word \in Seq(Char) /\ Len(word) = b - a + 1
      BY <1>1, <2>2
    <3>4. k \in 1 .. Len(word) /\ l \in k .. Len(word)
      BY <1>1, <2>2, <3>3
    <3>5. Found(word, text, cs)
      BY <1>3, <3>2
    <3>6. SubSeq(word, k, l) = SubSeq(p, i, j)
      <4> DEFINE u == SubSeq(word, k, l)
                 v == SubSeq(p, i, j)
      <4>1. \A n \in 1 .. b - a + 1 : word[n] = p[a + n - 1]
        BY <1>1, <2>2
      <4>2. v \in Seq(Char) /\ Len(v) = j - i + 1 /\ \A n \in 1 .. j - i + 1 : v[n] = p[i + n - 1]
        BY <1>1, <2>2
      <4> HIDE DEF word
      <4>3. u \in Seq(Char) /\ Len(u) = j - i + 1 /\ \A n \in 1 .. j - i + 1 : u[n] = word[k + n - 1]
        BY <1>1, <2>2, <3>3, <3>4
      <4>4. \A n \in 1 .. j - i + 1 : k + n - 1 \in 1 .. b - a + 1 /\ a + (k + n - 1) - 1 = i + n - 1
        BY <1>1, <2>2
      <4> HIDE DEF u, v, k, l
      <4>5. \A n \in 1 .. j - i + 1 : u[n] = v[n]
        BY <4>1, <4>2, <4>3, <4>4
      <4>6. u = v
        BY <4>2, <4>3, <4>5, SeqEqual
      <4> QED BY <4>6 DEF u, v
    <3> HIDE DEF word, k, l
    <3> QED BY <3>3, <3>4, <3>5, <3>6, PartFound
  <2> QED BY <1>1, <2>1, <2>2
<1>4. ASSUME \A i, j \in DOMAIN p : Space \in ToSet(SubSeq(p, i, j)) \/ Found(SubSeq(p, i, j), text, cs),
             NEW word \in Keywords(p)
      PROVE  Found(word, text, cs)
  <2>1. PICK i \in DOMAIN p, j \in DOMAIN p :
            word = SubSeq(p, i, j) /\ \A n \in i .. j : p[n] # Space
    BY DEF Keywords
  <2>2. Space \notin ToSet(SubSeq(p, i, j))
    BY <1>1, <1>2, <2>1
  <2> QED BY <1>4, <2>1, <2>2
<1> QED BY <1>1, <1>3, <1>4

\* The rows the two loops take, one after the other, are those that match.
LEMMA LoopsMatch ==
    ASSUME NEW source \in Seq(Seq(Char)), NEW p \in Seq(Char), NEW q,
           q.matching \in Matchings, "cache" \in DOMAIN q.regexp
    PROVE  RowsAt(source, Hits(source, p, q)) \o RowsAt(source, Inside(source, p, q))
              = Matches(source, p, q)
<1> DEFINE cs == q.caseSensitive
           T == Seq(Char)
           hits == Hits(source, p, q)
           inside == Inside(source, p, q)
           all == RowsAt(source, hits)
<1>1. /\ \A n \in DOMAIN source : source[n] \in Seq(Char)
      /\ source \in Seq(T)
  OBVIOUS
<1> HIDE DEF T
<1>2. ASSUME inside = {} PROVE all \o RowsAt(source, inside) = all
  <2>1. RowsAt(source, {}) = <<>>
    BY <1>1, RowsAtNone
  <2>2. all \in Seq(T)
    BY <1>1, RowsAtType
  <2> HIDE DEF all, inside
  <2>3. all \o <<>> = all
    BY <2>2
  <2> QED BY <1>2, <2>1, <2>3
<1>3. CASE p = <<>>
  <2>1. \A n \in DOMAIN source : Starts(p, source[n], cs)
    BY <1>1, <1>3, NothingFound
  <2>2. inside = {}
    BY <2>1 DEF Inside
  <2>3. hits = DOMAIN source
    BY <1>3 DEF Hits
  <2>4. all = source
    BY <1>1, <2>3, RowsAtAll
  <2>5. Matches(source, p, q) = source
    BY <1>3 DEF Matches
  <2> HIDE DEF all, inside
  <2> QED BY <1>2, <2>2, <2>4, <2>5 DEF all, inside
<1>4. CASE p # <<>> /\ q.matching = "substring"
  <2> DEFINE starts == {n \in DOMAIN source : Starts(p, source[n], cs)}
             others == {n \in DOMAIN source : Found(p, source[n], cs)} \ starts
  <2>1. hits = starts
    BY <1>4 DEF Hits, Hit
  <2>2. inside = others
    BY <1>4 DEF Inside
  <2>3. Matches(source, p, q) = RowsAt(source, starts) \o RowsAt(source, others)
    BY <1>4 DEF Matches
  <2> HIDE DEF hits, inside, starts, others
  <2> QED BY <2>1, <2>2, <2>3 DEF hits, inside
<1>5. CASE p # <<>> /\ q.matching = "keywords"
  <2> DEFINE words == {n \in DOMAIN source : \A i, j \in DOMAIN p :
                          Space \in ToSet(SubSeq(p, i, j)) \/ Found(SubSeq(p, i, j), source[n], cs)}
  <2>1. \A n \in DOMAIN source : n \in hits <=> \A word \in Keywords(p) : Found(word, source[n], cs)
    BY <1>5 DEF Hits, Hit
  <2>2. \A n \in DOMAIN source :
           (\A word \in Keywords(p) : Found(word, source[n], cs))
             <=> \A i, j \in DOMAIN p : Space \in ToSet(SubSeq(p, i, j))
                                            \/ Found(SubSeq(p, i, j), source[n], cs)
    BY <1>1, KeywordsFound
  <2>3. hits \subseteq DOMAIN source
    BY DEF Hits
  <2> HIDE DEF hits, cs
  <2>4. hits = words
    BY <2>1, <2>2, <2>3
  <2>5. Matches(source, p, q) = RowsAt(source, words)
    BY <1>5 DEF Matches, cs
  <2>6. inside = {}
    BY <1>5 DEF Inside
  <2> HIDE DEF inside, words
  <2> QED BY <1>2, <2>4, <2>5, <2>6 DEF inside, hits
<1>6. CASE p # <<>> /\ q.matching = "regexp"
  <2> DEFINE r == q.regexp
             cached == IF p \in DOMAIN r.cache THEN r.cache[p] ELSE r.caseSensitive
             found == {n \in DOMAIN source : Compiles(p) /\ Found(p, source[n], cached)}
  <2>1. Compiles(p) => Cached(r, p).cache[p] = cached
    <3>1. CASE p \in DOMAIN r.cache
      BY <3>1 DEF Cached
    <3>2. CASE p \notin DOMAIN r.cache
      BY <3>2 DEF Cached
    <3> QED BY <3>1, <3>2
  <2>2. hits = {n \in DOMAIN source : RegexpMatch(r, p, source[n])}
    BY <1>6 DEF Hits
  <2>3. \A text : RegexpMatch(r, p, text) <=> Compiles(p) /\ Found(p, text, cached)
    <3> HIDE DEF r, cached
    <3> QED BY <2>1 DEF RegexpMatch
  <2>4. hits = found
    <3> HIDE DEF hits, r, cached
    <3> QED BY <2>2, <2>3
  <2>5. Matches(source, p, q) = RowsAt(source, found)
    BY <1>6 DEF Matches
  <2>6. inside = {}
    BY <1>6 DEF Inside
  <2> HIDE DEF inside, found, hits
  <2> QED BY <1>2, <2>4, <2>5, <2>6 DEF inside, hits
<1> QED BY <1>3, <1>4, <1>5, <1>6 DEF Matchings

\* hstr_make_selection lists the first rows that match, in their order: its loops, which
\* look for duplicates and for the end of the screen as they go, miss none, list none
\* twice that starts with the pattern and has it inside, and stop neither early nor late.
THEOREM SelectsFirstMatches ==
    ASSUME NEW source \in Seq(Seq(Char)), NEW p \in Seq(Char), NEW q,
           q.matching \in Matchings, "cache" \in DOMAIN q.regexp, q.capacity \in Nat
    PROVE  MakeSelection(source, p, q) = FirstMatches(source, p, q)
<1>1. MakeSelection(source, p, q)
        = First(Listed(RowsAt(source, Hits(source, p, q))
                         \o RowsAt(source, Inside(source, p, q)), p, q), q.capacity)
  BY LoopsTake
<1> QED BY <1>1, LoopsMatch, FirstMatchesIs

-----------------------------------------------------------------------------
\* The view and the settings are some there are.
ModesInv ==
    /\ view \in {"ranking", "history", "favorites"} /\ config \in Configurations
    /\ "cache" \in DOMAIN regexp
\* The terminal shows in every row what the cursor in that row stands for.
ShownInv ==
    (~missedResize /\ phase # "done") =>
        shown = [row \in 0 .. promptItems - 1 |-> InRow(row, promptItems, selection)]
\* The selection is what hstr_make_selection would make again.
Remade ==
    (phase # "done" /\ ~missedResize) =>
        selection = MakeSelection(Source(rawItems, items, favorites, view), searched,
                                  Query(matching, caseSensitive, regexp, promptItems))
\* The inductive invariant.
IInv == TypeOK /\ ModesInv /\ Remade /\ ListsConsistent /\ ShownInv /\ CursorOnItem

\* No command is NULL.
LEMMA NullIsNoCommand == NULL \notin Command
<1>1. \A list : list \in Seq(Seq(Char)) => ToSet(list) \subseteq Seq(Char)
  BY DEF ToSet
<1>2. Command \subseteq Seq(Char)
  BY <1>1, ViewsAssumption DEF Command
<1>3. \A text \in Seq(Char) : Len(text) = 1 => text[1] \in Char
  OBVIOUS
<1>4. Len(NULL) = 1 /\ NULL[1] = "NULL"
  BY DEF NULL
<1> QED BY <1>2, <1>3, <1>4, NullAssumption

\* In a row is a command or none, and a command if the row has an item
\* (hstr_selection_index).
LEMMA RowTypes ==
    ASSUME NEW sel \in Seq(Command), NEW rows \in Nat, NEW row \in Int, config \in Configurations
    PROVE  LET index == SelectionIndex(row, config.promptBottom, rows, Len(sel))
           IN  /\ InRow(row, rows, sel) \in Command \cup {NULL}
               /\ index >= 0 => InRow(row, rows, sel) \in Command
               /\ row = InPrompt => InRow(row, rows, sel) = NULL
<1> DEFINE index == SelectionIndex(row, config.promptBottom, rows, Len(sel))
<1>1. Len(sel) \in Nat /\ config.promptBottom \in BOOLEAN
  BY ConfigurationsAssumption
<1>2. index \in -1 .. Len(sel) - 1 /\ (row = InPrompt => index = -1)
  BY <1>1 DEF SelectionIndex, InPrompt
<1>3. InRow(row, rows, sel) = IF index >= 0 THEN sel[index + 1] ELSE NULL
  BY DEF InRow
<1> HIDE DEF index
<1>4. index >= 0 => sel[index + 1] \in Command
  <2>1. index >= 0 => index + 1 \in 1 .. Len(sel)
    BY <1>1, <1>2
  <2> QED BY <2>1
<1> QED BY <1>2, <1>3, <1>4 DEF index

\* A move takes the cursor to the prompt or to a command in a row of the terminal
\* (hstr_selection_cursor_move).
LEMMA MovedToRow ==
    ASSUME NEW sel \in Seq(Command), NEW step \in Int, cursor \in Int, promptItems \in Nat,
           config \in Configurations
    PROVE  LET moved == Moved(step, sel)
           IN  \/ moved = InPrompt
               \/ moved \in 0 .. promptItems - 1 /\ InRow(moved, promptItems, sel) \in Command
<1> DEFINE moved == Moved(step, sel)
           index == SelectionIndex(moved, config.promptBottom, promptItems, Len(sel))
<1>1. Len(sel) \in Nat /\ config.promptBottom \in BOOLEAN
  BY ConfigurationsAssumption
<1>2. moved \in Int
  BY <1>1 DEF Moved, CursorMove, Lesser, InPrompt
<1>3. Lesser(Len(sel), promptItems) \in Nat /\ Lesser(Len(sel), promptItems) <= promptItems
  BY <1>1 DEF Lesser
<1>4. CASE Lesser(Len(sel), promptItems) = 0
  BY <1>1, <1>4, MoveEndsOnItem DEF Moved
<1>5. CASE Lesser(Len(sel), promptItems) # 0
  <2>1. index \in 0 .. Lesser(Len(sel), promptItems) - 1
    BY <1>1, <1>5, MoveEndsOnItem DEF Moved
  <2> HIDE DEF moved
  <2>2. moved \in 0 .. promptItems - 1
    BY <1>1, <1>2, <1>3, <2>1 DEF SelectionIndex, InPrompt
  <2>3. InRow(moved, promptItems, sel) \in Command
    BY <1>2, <1>3, <2>1, RowTypes
  <2> QED BY <2>2, <2>3 DEF moved
<1> QED BY <1>4, <1>5

\* Every view is a list of commands.
LEMMA SourceType ==
    ASSUME NEW S, NEW raw \in Seq(S), NEW ranked \in Seq(S), NEW favs \in Seq(S),
           NEW v \in {"ranking", "history", "favorites"}
    PROVE  Source(raw, ranked, favs, v) \in Seq(S)
BY DEF Source

\* What hstr_print_selection selects is what the view has for the pattern, by the
\* regular expressions as it leaves them.
LEMMA PrintedRowsFresh ==
    ASSUME NEW r, "cache" \in DOMAIN r, PrintedRows(r), UNCHANGED config,
           rawItems' \in Seq(Command), items' \in Seq(Command), favorites' \in Seq(Command),
           view' \in {"ranking", "history", "favorites"}
    PROVE  selection' \in Seq(Command) /\ Remade' /\ "cache" \in DOMAIN regexp'
<1> DEFINE source == Source(rawItems', items', favorites', view')
<1>1. source \in Seq(Command)
  BY SourceType
<1>2. /\ selection' = MakeSelection(source, pattern',
                                    Query(matching', caseSensitive', r, promptItems'))
      /\ regexp' = Compiled(r, matching', source, pattern', promptItems')
      /\ searched' = pattern'
  BY DEF PrintedRows
<1>3. Remade' <=>
        ((phase' # "done" /\ ~missedResize') =>
           selection' = MakeSelection(source, searched',
                                Query(matching', caseSensitive', regexp', promptItems')))
  BY DEF Remade, Query
<1> HIDE DEF source
<1>4. selection' \in Seq(Command)
  BY <1>1, <1>2, MakeSelectionType
<1>5. selection' = MakeSelection(source, pattern',
                                 Query(matching', caseSensitive', regexp', promptItems'))
  BY <1>1, <1>2, SelectedAgain
<1>6. "cache" \in DOMAIN regexp'
  BY <1>2 DEF Compiled, Cached
<1> QED BY <1>2, <1>3, <1>4, <1>5, <1>6

\* A key after which everything is printed again keeps the invariant, if it leaves the
\* views consistent.
LEMMA PrintedIInv ==
    ASSUME NEW r, "cache" \in DOMAIN r, PrintedBy(r), UNCHANGED config, config \in Configurations,
           rawItems' \in Seq(Command), items' \in Seq(Command), favorites' \in Seq(Command),
           ListsConsistent', view' \in {"ranking", "history", "favorites"},
           pattern' \in Seq(TypedChar), promptItems' \in Heights,
           phase' \in {"loop", "confirm", "done"}
    PROVE  IInv'
<1>1. selection' \in Seq(Command) /\ Remade' /\ "cache" \in DOMAIN regexp'
  BY PrintedRowsFresh DEF PrintedBy
<1>2. /\ shown' = [row \in 0 .. promptItems' - 1 |-> InRow(row, promptItems', selection')]
      /\ highlighted' = {} /\ cursor' = InPrompt
  BY DEF PrintedBy
<1>3. promptItems' \in Nat
  BY HeightsAssumption
<1>4. TypeOK'
  <2>1. \A row \in 0 .. promptItems' - 1 :
            InRow(row, promptItems', selection') \in Command \cup {NULL}
    BY <1>1, <1>3, RowTypes
  <2>2. shown' \in [0 .. promptItems' - 1 -> Command \cup {NULL}]
    BY <1>2, <2>1
  <2> QED BY <1>1, <1>2, <2>2 DEF TypeOK
<1>5. ModesInv'
  BY <1>1 DEF ModesInv
<1>6. ShownInv'
  <2>1. \A row : InRow(row, promptItems', selection')
                    = InRow(row, promptItems, selection)'
    BY DEF InRow
  <2> QED BY <1>2 DEF ShownInv, InRow
<1>7. CursorOnItem'
  BY <1>2 DEF CursorOnItem
<1> QED BY <1>1, <1>4, <1>5, <1>6, <1>7 DEF IInv

\* The invariant holds when the selection has been printed for the first time.
LEMMA InitIInv == Init => IInv
<1> SUFFICES ASSUME Init PROVE IInv
  OBVIOUS
<1>1. /\ rawItems \in Seq(Command) /\ items \in Seq(Command) /\ favorites \in Seq(Command)
      /\ ListsConsistent
  <2>1. \A list : list \in Seq(Seq(Char)) => list \in Seq(ToSet(list))
    BY DEF ToSet
  <2>2. \A list : list \in Seq(Seq(Char)) /\ ToSet(list) \subseteq Command => list \in Seq(Command)
    BY <2>1 DEF ToSet
  <2> QED BY <2>2, ViewsAssumption DEF Init, Command, ListsConsistent
<1>2. pattern \in Seq(TypedChar)
  <2>1. PICK n \in 0 .. MaxPattern : pattern \in [1 .. n -> TypedChar]
    BY MaxPatternAssumption DEF Init, BoundedSeq, SeqOf
  <2> QED BY <2>1, MaxPatternAssumption
<1>3. view \in {"ranking", "history", "favorites"} /\ config \in Configurations
      /\ promptItems \in Heights /\ promptItems \in Nat
  BY HeightsAssumption DEF Init
<1> DEFINE source == Source(rawItems, items, favorites, view)
<1>4. PICK r \in [caseSensitive : BOOLEAN, cache : {[p \in {} |-> FALSE]}] :
          /\ selection = MakeSelection(source, pattern,
                                       Query(matching, caseSensitive, r, promptItems))
          /\ regexp = Compiled(r, matching, source, pattern, promptItems)
  BY DEF Init
<1>5. source \in Seq(Command)
  BY <1>1, <1>3, SourceType
<1>6. Remade <=>
        ((phase # "done" /\ ~missedResize) =>
           selection = MakeSelection(source, searched,
                                Query(matching, caseSensitive, regexp, promptItems)))
  BY DEF Remade
<1>7. searched = pattern /\ "cache" \in DOMAIN r
  BY DEF Init
<1> HIDE DEF source
<1>8. selection \in Seq(Command) /\ "cache" \in DOMAIN regexp
  <2>1. selection \in Seq(Command)
    BY <1>4, <1>5, MakeSelectionType
  <2> QED BY <1>4, <1>7, <2>1 DEF Compiled, Cached
<1>9. Remade
  <2>1. selection = MakeSelection(source, pattern,
                                  Query(matching, caseSensitive, regexp, promptItems))
    BY <1>4, <1>5, <1>7, SelectedAgain
  <2> QED BY <1>6, <1>7, <2>1
<1>10. TypeOK
  <2>1. \A row \in 0 .. promptItems - 1 :
            InRow(row, promptItems, selection) \in Command \cup {NULL}
    BY <1>3, <1>8, RowTypes
  <2>2. shown \in [0 .. promptItems - 1 -> Command \cup {NULL}]
    BY <2>1 DEF Init
  <2> QED BY <1>1, <1>2, <1>3, <1>8, <2>2 DEF TypeOK, Init
<1> QED BY <1>1, <1>3, <1>8, <1>9, <1>10 DEF IInv, ModesInv, ShownInv, CursorOnItem, Init

\* What the invariant says of the state a key is read in.
LEMMA KeyTypes ==
    ASSUME IInv
    PROVE  /\ rawItems \in Seq(Command) /\ items \in Seq(Command) /\ favorites \in Seq(Command)
           /\ selection \in Seq(Command) /\ pattern \in Seq(TypedChar)
           /\ promptItems \in Heights /\ promptItems \in Nat /\ cursor \in Int
           /\ config \in Configurations
           /\ config.reorderOnChoice \in BOOLEAN /\ config.promptBottom \in BOOLEAN
           /\ view \in {"ranking", "history", "favorites"} /\ "cache" \in DOMAIN regexp
           /\ UnderCursor \in Command \cup {NULL}
           /\ UnderCursor # NULL => cursor # InPrompt
<1>1. promptItems \in Heights /\ promptItems \in Nat /\ cursor \in Int /\ config \in Configurations
      /\ selection \in Seq(Command)
  BY HeightsAssumption DEF IInv, TypeOK, ModesInv, InPrompt
<1>2. UnderCursor \in Command \cup {NULL} /\ (UnderCursor # NULL => cursor # InPrompt)
  BY <1>1, RowTypes DEF UnderCursor
<1> QED BY <1>1, <1>2, ConfigurationsAssumption DEF IInv, TypeOK, ModesInv

\* The keys that change the pattern keep the invariant,
LEMMA PatternKeys ==
    ASSUME IInv
    PROVE  /\ Type => IInv'
           /\ Backspace => IInv'
           /\ ClearPattern => IInv'
           /\ ToggleCase => IInv'
<1>0. ListsConsistent /\ phase \in {"loop", "confirm", "done"}
  BY DEF IInv, TypeOK
<1>1. ASSUME Type PROVE IInv'
  <2>1. pattern' \in Seq(TypedChar)
    BY <1>1, KeyTypes DEF Type
  <2>2. ListsConsistent' /\ phase' \in {"loop", "confirm", "done"}
    BY <1>0, <1>1 DEF Type, ListsConsistent, lists, ends
  <2> QED BY <1>1, <2>1, <2>2, KeyTypes, PrintedIInv DEF Type, Reprinted, lists, modes
<1>2. ASSUME Backspace PROVE IInv'
  <2>1. pattern' \in Seq(TypedChar)
    <3>1. pattern # <<>> => Front(pattern) \in Seq(TypedChar)
      BY KeyTypes DEF Front
    <3> QED BY <1>2, <3>1, KeyTypes DEF Backspace
  <2>2. ListsConsistent' /\ phase' \in {"loop", "confirm", "done"}
    BY <1>0, <1>2 DEF Backspace, ListsConsistent, lists, ends
  <2> QED BY <1>2, <2>1, <2>2, KeyTypes, PrintedIInv DEF Backspace, Reprinted, lists, modes
<1>3. ASSUME ClearPattern PROVE IInv'
  <2>1. UNCHANGED <<lists, modes, screen, promptItems, cursor, result, ends>> /\ pattern' = <<>>
    BY <1>3 DEF ClearPattern
  <2>2. TypeOK'
    BY <2>1 DEF IInv, TypeOK, lists, screen, ends
  <2>3. Remade'
    BY <2>1 DEF IInv, Remade, Query, lists, modes, screen, ends
  <2>4. ListsConsistent' /\ ModesInv'
    BY <2>1 DEF IInv, ListsConsistent, ModesInv, lists, modes, screen
  <2>5. ShownInv' /\ CursorOnItem'
    BY <2>1 DEF IInv, ShownInv, CursorOnItem, UnderCursor, InRow, lists, modes, screen, ends
  <2> QED BY <2>2, <2>3, <2>4, <2>5 DEF IInv
<1>4. ASSUME ToggleCase PROVE IInv'
  <2>1. /\ UNCHANGED <<lists, modes, screen, promptItems, result, ends>>
        /\ \E case \in {Lower, Upper} : pattern' = [n \in DOMAIN pattern |-> case[pattern[n]]]
        /\ cursor' = InPrompt
    BY <1>4 DEF ToggleCase
  <2>2. pattern' \in Seq(TypedChar)
    <3>1. DOMAIN pattern = 1 .. Len(pattern) /\ Len(pattern) \in Nat
          /\ \A n \in DOMAIN pattern : {Lower[pattern[n]], Upper[pattern[n]]} \subseteq TypedChar
      BY KeyTypes, TypedAssumption
    <3>2. pattern' \in [1 .. Len(pattern) -> TypedChar]
      BY <2>1, <3>1
    <3> QED BY <3>1, <3>2
  <2>3. TypeOK'
    BY <2>1, <2>2 DEF IInv, TypeOK, lists, screen, ends
  <2>4. Remade'
    BY <2>1 DEF IInv, Remade, Query, lists, modes, screen, ends
  <2>5. ListsConsistent' /\ ModesInv'
    BY <2>1 DEF IInv, ListsConsistent, ModesInv, lists, modes, screen
  <2>6. ShownInv' /\ CursorOnItem'
    BY <2>1 DEF IInv, ShownInv, CursorOnItem, InRow, lists, modes, screen, ends
  <2> QED BY <2>3, <2>4, <2>5, <2>6 DEF IInv
<1> QED BY <1>1, <1>2, <1>3, <1>4

\* ... so do those that change what is matched and how, and a resize;
LEMMA ModeKeys ==
    ASSUME IInv
    PROVE  /\ RotateMatching => IInv'
           /\ RotateView => IInv'
           /\ ToggleCaseSensitive => IInv'
           /\ Resize => IInv'
<1>0. ListsConsistent /\ phase \in {"loop", "confirm", "done"}
  BY DEF IInv, TypeOK
<1>1. UNCHANGED <<lists, ends>> =>
        /\ rawItems' \in Seq(Command) /\ items' \in Seq(Command) /\ favorites' \in Seq(Command)
        /\ ListsConsistent' /\ phase' \in {"loop", "confirm", "done"}
  BY <1>0, KeyTypes DEF ListsConsistent, lists, ends
<1>2. ASSUME RotateMatching PROVE IInv'
  BY <1>1, <1>2, KeyTypes, PrintedIInv DEF RotateMatching, Reprinted
<1>3. ASSUME RotateView PROVE IInv'
  <2>1. view' \in {"ranking", "history", "favorites"}
    BY <1>3, KeyTypes DEF RotateView
  <2> QED BY <1>1, <1>3, <2>1, KeyTypes, PrintedIInv DEF RotateView, Reprinted
<1>4. ASSUME ToggleCaseSensitive PROVE IInv'
  <2>1. "cache" \in DOMAIN [regexp EXCEPT !.caseSensitive = caseSensitive']
    BY KeyTypes
  <2> QED BY <1>1, <1>4, <2>1, KeyTypes, PrintedIInv DEF ToggleCaseSensitive
<1>5. ASSUME Resize PROVE IInv'
  BY <1>1, <1>5, KeyTypes, PrintedIInv DEF Resize, Reprinted, modes
<1> QED BY <1>2, <1>3, <1>4, <1>5

\* highlight_selection draws commands, in rows of the terminal.
LEMMA HighlightTypes ==
    ASSUME NEW sel \in Seq(Command), NEW terminal \in Nat, NEW rows, NEW lit, NEW old, NEW new,
           rows \in [0 .. terminal - 1 -> Command \cup {NULL}], lit \subseteq 0 .. terminal - 1,
           promptItems \in Nat, config \in Configurations,
           Highlight(rows, lit, terminal, old, new, sel)
    PROVE  /\ shown' \in [0 .. terminal - 1 -> Command \cup {NULL}]
           /\ highlighted' \subseteq 0 .. terminal - 1
<1>1. \A row \in 0 .. terminal - 1 : InRow(row, promptItems, sel) \in Command \cup {NULL}
  BY RowTypes
<1> QED BY <1>1 DEF Highlight

\* ... and on a terminal that shows the selection it changes but what is highlighted.
LEMMA HighlightShows ==
    ASSUME NEW sel \in Seq(Command), NEW rows, NEW lit, NEW old, NEW new,
           rows = [row \in 0 .. promptItems - 1 |-> InRow(row, promptItems, sel)],
           Highlight(rows, lit, promptItems, old, new, sel)
    PROVE  /\ shown' = rows
           /\ (new \in 0 .. promptItems - 1 /\ InRow(new, promptItems, sel) # NULL) =>
                new \in highlighted' /\ shown'[new] = InRow(new, promptItems, sel)
BY DEF Highlight

\* The keys that move the cursor keep the invariant.
LEMMA NavigateIInv == ASSUME IInv, Navigate PROVE IInv'
<1>1. PICK k \in DOMAIN CursorStep : cursor' = Moved(CursorStep[k], selection)
  BY DEF Navigate
<1>2. CursorStep[k] \in Int
  BY PageJumpAssumption DEF CursorStep
<1>3. /\ Highlight(shown, highlighted, promptItems, cursor, cursor', selection)
      /\ UNCHANGED <<lists, modes, pattern, selection, searched, regexp, missedResize, promptItems,
                     result, ends>>
  BY DEF Navigate
<1>4. \/ cursor' = InPrompt
      \/ cursor' \in 0 .. promptItems - 1 /\ InRow(cursor', promptItems, selection) \in Command
  BY <1>1, <1>2, KeyTypes, MovedToRow
<1>5. shown \in [0 .. promptItems - 1 -> Command \cup {NULL}] /\ highlighted \subseteq 0 .. promptItems - 1
  BY DEF IInv, TypeOK
<1>6. /\ shown' \in [0 .. promptItems - 1 -> Command \cup {NULL}]
      /\ highlighted' \subseteq 0 .. promptItems - 1
  BY <1>3, <1>5, KeyTypes, HighlightTypes
<1>7. TypeOK'
  BY <1>3, <1>4, <1>6, KeyTypes DEF IInv, TypeOK, lists, ends
<1>8. Remade' /\ ListsConsistent' /\ ModesInv'
  BY <1>3 DEF IInv, Remade, ListsConsistent, ModesInv, Query, lists, modes, ends
<1>9. ASSUME ~missedResize', phase' # "done"
      PROVE  /\ shown' = [row \in 0 .. promptItems' - 1 |-> InRow(row, promptItems', selection')]
             /\ cursor' # InPrompt =>
                    cursor' \in highlighted' /\ UnderCursor' # NULL /\ shown'[cursor'] = UnderCursor'
  <2>1. shown = [row \in 0 .. promptItems - 1 |-> InRow(row, promptItems, selection)]
    BY <1>3, <1>9 DEF IInv, ShownInv, ends
  <2>2. /\ shown' = shown
        /\ (cursor' \in 0 .. promptItems - 1 /\ InRow(cursor', promptItems, selection) # NULL) =>
             cursor' \in highlighted' /\ shown'[cursor'] = InRow(cursor', promptItems, selection)
    BY <1>3, <2>1, KeyTypes, HighlightShows
  <2>3. UnderCursor' = InRow(cursor', promptItems, selection)
    BY <1>3 DEF UnderCursor, InRow, modes
  <2> QED BY <1>3, <1>4, <2>1, <2>2, <2>3, NullIsNoCommand
<1>10. ShownInv' /\ CursorOnItem'
  BY <1>3, <1>9 DEF ShownInv, CursorOnItem, InRow, modes
<1> QED BY <1>7, <1>8, <1>10 DEF IInv

\* A deletion takes the command under the cursor out of the views and nothing else, and
\* they are as consistent as before (remove_from_history_model).
LEMMA DeletedViews ==
    ASSUME IInv, Delete
    PROVE  /\ rawItems' \in Seq(Command) /\ items' \in Seq(Command) /\ favorites' \in Seq(Command)
           /\ ListsConsistent'
           /\ ToSet(rawItems) \ ToSet(rawItems') \subseteq {UnderCursor}
           /\ ToSet(items) \ ToSet(items') \subseteq {UnderCursor}
           /\ ToSet(favorites) \ ToSet(favorites') \subseteq {UnderCursor}
<1> DEFINE cmd == UnderCursor
<1>1. /\ favorites' = IF view = "favorites" THEN Removed(favorites, cmd) ELSE favorites
      /\ rawItems' = IF view = "favorites" THEN rawItems ELSE Without(rawItems, cmd)
      /\ items' = IF view = "favorites" THEN items ELSE Without(items, cmd)
  BY DEF Delete, DeletedFromView
<1>2. /\ IsInjective(favorites) /\ IsInjective(items) /\ ToSet(items) \subseteq ToSet(rawItems)
      /\ rawItems \in Seq(Command) /\ items \in Seq(Command) /\ favorites \in Seq(Command)
  BY KeyTypes DEF IInv, ListsConsistent
<1> HIDE DEF cmd
<1>3. /\ Removed(favorites, cmd) \in Seq(Command) /\ IsInjective(Removed(favorites, cmd))
      /\ ToSet(Removed(favorites, cmd)) = ToSet(favorites) \ {cmd}
  BY <1>2, RemovedProperties
<1>4. /\ Without(rawItems, cmd) \in Seq(Command)
      /\ ToSet(Without(rawItems, cmd)) = ToSet(rawItems) \ {cmd}
  BY <1>2, WithoutProperties
<1>5. /\ Without(items, cmd) \in Seq(Command) /\ IsInjective(Without(items, cmd))
      /\ ToSet(Without(items, cmd)) = ToSet(items) \ {cmd}
  BY <1>2, WithoutProperties
<1>6. CASE view = "favorites"
  <2>1. rawItems' = rawItems /\ items' = items /\ favorites' = Removed(favorites, cmd)
    BY <1>1, <1>6
  <2>2. ToSet(favorites) \ ToSet(favorites') \subseteq {cmd}
    BY <1>3, <2>1
  <2> QED BY <1>2, <1>3, <2>1, <2>2 DEF ListsConsistent, cmd
<1>7. CASE view # "favorites"
  <2>1. rawItems' = Without(rawItems, cmd) /\ items' = Without(items, cmd) /\ favorites' = favorites
    BY <1>1, <1>7
  <2>2. /\ ToSet(rawItems) \ ToSet(rawItems') \subseteq {cmd}
        /\ ToSet(items) \ ToSet(items') \subseteq {cmd}
        /\ ToSet(items') \subseteq ToSet(rawItems')
    BY <1>2, <1>4, <1>5, <2>1
  <2> QED BY <1>2, <1>4, <1>5, <2>1, <2>2 DEF ListsConsistent, cmd
<1> QED BY <1>6, <1>7

\* A deletion keeps the invariant, wherever it leaves the cursor.
LEMMA DeleteIInv ==
    ASSUME IInv, Delete, phase' \in {"loop", "confirm", "done"}
    PROVE  IInv'
<1>1. /\ UNCHANGED <<modes, pattern, promptItems>> /\ PrintedRows(regexp)
      /\ cursor' = Moved(0, selection')
      /\ Highlight([row \in 0 .. promptItems - 1 |-> InRow(row, promptItems, selection')],
                   {}, promptItems, InPrompt, cursor', selection')
  BY DEF Delete
<1>2. /\ rawItems' \in Seq(Command) /\ items' \in Seq(Command) /\ favorites' \in Seq(Command)
      /\ ListsConsistent'
  BY DeletedViews
<1>3. selection' \in Seq(Command) /\ Remade' /\ "cache" \in DOMAIN regexp'
  BY <1>1, <1>2, KeyTypes, PrintedRowsFresh DEF modes
<1>4. \/ cursor' = InPrompt
      \/ cursor' \in 0 .. promptItems - 1 /\ InRow(cursor', promptItems, selection') \in Command
  BY <1>1, <1>3, KeyTypes, MovedToRow
<1> DEFINE rows == [row \in 0 .. promptItems - 1 |-> InRow(row, promptItems, selection')]
<1>5. rows \in [0 .. promptItems - 1 -> Command \cup {NULL}]
  <2>1. \A row \in 0 .. promptItems - 1 : InRow(row, promptItems, selection') \in Command \cup {NULL}
    BY <1>3, KeyTypes, RowTypes
  <2> QED BY <2>1
<1>6. rows = [row \in 0 .. promptItems - 1 |-> InRow(row, promptItems, selection')]
      /\ Highlight(rows, {}, promptItems, InPrompt, cursor', selection')
  BY <1>1
<1> HIDE DEF rows
<1>7. highlighted' \subseteq 0 .. promptItems - 1
  <2>1. {} \subseteq 0 .. promptItems - 1
    OBVIOUS
  <2>2. promptItems \in Nat /\ config \in Configurations
    BY KeyTypes
  <2> QED BY <1>3, <1>5, <1>6, <2>1, <2>2, HighlightTypes
<1>8. /\ shown' = rows
      /\ (cursor' \in 0 .. promptItems - 1 /\ InRow(cursor', promptItems, selection') # NULL) =>
             cursor' \in highlighted' /\ shown'[cursor'] = InRow(cursor', promptItems, selection')
  BY <1>3, <1>6, HighlightShows
<1>9. TypeOK'
  BY <1>1, <1>2, <1>3, <1>4, <1>5, <1>7, <1>8, KeyTypes DEF TypeOK
<1>10. ModesInv'
  BY <1>1, <1>3, KeyTypes DEF ModesInv, modes
<1>11. ShownInv'
  BY <1>1, <1>6, <1>8 DEF ShownInv, InRow, modes
<1>12. CursorOnItem'
  <2>1. UnderCursor' = InRow(cursor', promptItems, selection')
    BY <1>1 DEF UnderCursor, InRow, modes
  <2> QED BY <1>4, <1>8, <2>1, NullIsNoCommand DEF CursorOnItem
<1> QED BY <1>2, <1>3, <1>9, <1>10, <1>11, <1>12 DEF IInv

\* DEL and the answer yes keep the invariant.
LEMMA DelIInv ==
    ASSUME IInv
    PROVE  /\ Del => IInv'
           /\ ConfirmYes => IInv'
<1>0. phase \in {"loop", "confirm", "done"}
  BY DEF IInv, TypeOK
<1>1. ASSUME Del PROVE IInv'
  <2>1. CASE Delete /\ UNCHANGED ends
    BY <1>0, <2>1, DeleteIInv DEF ends
  <2>2. CASE /\ phase' = "confirm"
             /\ UNCHANGED <<lists, modes, pattern, screen, promptItems, cursor, result, keyOfExit>>
    <3>0. phase = "loop"
      BY <1>1 DEF Del, Reading
    <3>1. TypeOK'
      BY <2>2 DEF IInv, TypeOK, lists, screen
    <3>2. Remade'
      BY <2>2, <3>0 DEF IInv, Remade, Query, lists, modes, screen
    <3>3. ListsConsistent' /\ ModesInv'
      BY <2>2 DEF IInv, ListsConsistent, ModesInv, lists, modes, screen
    <3>4. ShownInv' /\ CursorOnItem'
      BY <2>2, <3>0 DEF IInv, ShownInv, CursorOnItem, UnderCursor, InRow, lists, modes, screen
    <3> QED BY <3>1, <3>2, <3>3, <3>4 DEF IInv
  <2> QED BY <1>1, <2>1, <2>2 DEF Del
<1>2. ASSUME ConfirmYes PROVE IInv'
  BY <1>2, DeleteIInv DEF ConfirmYes
<1> QED BY <1>1, <1>2

\* Any other answer keeps the invariant: if it was a resize, nothing is said of the
\* screen until it is printed again.
LEMMA ConfirmOtherIInv == ASSUME IInv, ConfirmOther PROVE IInv'
<1> DEFINE rows == [row \in 0 .. promptItems' - 1 |->
                        IF row \in DOMAIN shown THEN shown[row] ELSE NULL]
           lit  == highlighted \cap 0 .. promptItems' - 1
<1>1. /\ phase = "confirm" /\ phase' = "loop" /\ promptItems' \in Heights
      /\ cursor' = Moved(0, selection)
      /\ Highlight(rows, lit, promptItems', InPrompt, cursor', selection)
      /\ missedResize' = (missedResize \/ promptItems' # promptItems)
      /\ UNCHANGED <<lists, modes, pattern, selection, searched, regexp, result, keyOfExit>>
  BY DEF ConfirmOther
<1>2. \/ cursor' = InPrompt
      \/ cursor' \in 0 .. promptItems - 1 /\ InRow(cursor', promptItems, selection) \in Command
  BY <1>1, KeyTypes, MovedToRow
<1>3. shown \in [0 .. promptItems - 1 -> Command \cup {NULL}] /\ highlighted \subseteq DOMAIN shown
  BY DEF IInv, TypeOK
<1>4. /\ rows \in [0 .. promptItems' - 1 -> Command \cup {NULL}] /\ lit \subseteq 0 .. promptItems' - 1
      /\ promptItems' = promptItems => rows = shown
  BY <1>3
<1> HIDE DEF rows, lit
<1>5. /\ shown' \in [0 .. promptItems' - 1 -> Command \cup {NULL}]
      /\ highlighted' \subseteq 0 .. promptItems' - 1
  <2>1. promptItems' \in Nat
    BY <1>1, HeightsAssumption
  <2> QED BY <1>1, <1>4, <2>1, KeyTypes, HighlightTypes
<1>6. TypeOK'
  BY <1>1, <1>2, <1>5, KeyTypes DEF IInv, TypeOK, lists
<1>7. ListsConsistent' /\ ModesInv'
  BY <1>1 DEF IInv, ListsConsistent, ModesInv, lists, modes
<1>8. CASE missedResize'
  BY <1>6, <1>7, <1>8 DEF IInv, Remade, ShownInv, CursorOnItem
<1>9. CASE ~missedResize'
  <2>1. promptItems' = promptItems /\ ~missedResize
    BY <1>1, <1>9
  <2>2. Remade'
    BY <1>1, <2>1 DEF IInv, Remade, Query, lists, modes
  <2>3. shown = [row \in 0 .. promptItems - 1 |-> InRow(row, promptItems, selection)]
    BY <1>1, <2>1 DEF IInv, ShownInv
  <2>4. /\ shown' = rows
        /\ (cursor' \in 0 .. promptItems - 1 /\ InRow(cursor', promptItems, selection) # NULL) =>
             cursor' \in highlighted' /\ shown'[cursor'] = InRow(cursor', promptItems, selection)
    <3>1. /\ rows = [row \in 0 .. promptItems - 1 |-> InRow(row, promptItems, selection)]
          /\ Highlight(rows, lit, promptItems, InPrompt, cursor', selection)
      BY <1>1, <1>4, <2>1, <2>3
    <3> QED BY <3>1, KeyTypes, HighlightShows
  <2>5. ShownInv'
    BY <1>1, <1>4, <2>1, <2>3, <2>4 DEF ShownInv, InRow, modes
  <2>6. CursorOnItem'
    <3>1. UnderCursor' = InRow(cursor', promptItems, selection)
      BY <1>1, <2>1 DEF UnderCursor, InRow, modes
    <3> QED BY <1>2, <2>4, <3>1, NullIsNoCommand DEF CursorOnItem
  <2> QED BY <1>6, <1>7, <2>2, <2>5, <2>6 DEF IInv
<1> QED BY <1>8, <1>9

\* Choosing and adding a favorite lose none.
LEMMA ChosenOrAdded ==
    ASSUME IInv, NEW item \in Command
    PROVE  LET chosen == Chosen(favorites, item, config.reorderOnChoice)
               added  == Added(favorites, item, config.reorderOnChoice)
           IN  /\ chosen \in Seq(Command) /\ IsInjective(chosen) /\ ToSet(favorites) = ToSet(chosen)
               /\ added \in Seq(Command) /\ IsInjective(added) /\ ToSet(favorites) \subseteq ToSet(added)
<1>1. /\ favorites \in Seq(Command) /\ IsInjective(favorites)
      /\ config.reorderOnChoice \in BOOLEAN
  BY KeyTypes DEF IInv, ListsConsistent
<1> DEFINE chosen == Chosen(favorites, item, config.reorderOnChoice)
           added  == Added(favorites, item, config.reorderOnChoice)
<1>2. chosen \in Seq(Command) /\ IsInjective(chosen) /\ ToSet(chosen) = ToSet(favorites)
  BY <1>1, ChosenProperties
<1>3. added \in Seq(Command) /\ IsInjective(added) /\ ToSet(added) = ToSet(favorites) \cup {item}
  BY <1>1, AddedProperties
<1> HIDE DEF chosen, added
<1>4. ToSet(favorites) \subseteq ToSet(added)
  BY <1>3
<1> QED BY <1>2, <1>3, <1>4 DEF chosen, added

\* Ctrl-f keeps the invariant.
LEMMA FavoriteIInv == ASSUME IInv, Favorite PROVE IInv'
<1>1. UnderCursor \in Command
  BY KeyTypes DEF Favorite
<1>2. favorites' \in Seq(Command) /\ IsInjective(favorites')
  BY <1>1, ChosenOrAdded DEF Favorite
<1>3. UNCHANGED <<rawItems, items, modes, pattern, promptItems, ends>> /\ PrintedBy(regexp)
  BY DEF Favorite, Reprinted
<1>4. /\ rawItems' \in Seq(Command) /\ items' \in Seq(Command) /\ ListsConsistent'
      /\ phase' \in {"loop", "confirm", "done"}
  BY <1>2, <1>3, KeyTypes DEF IInv, TypeOK, ListsConsistent, ends
<1> QED BY <1>2, <1>3, <1>4, KeyTypes, PrintedIInv DEF modes

\* The keys that leave the loop keep the invariant.
LEMMA LeaveIInv ==
    ASSUME IInv
    PROVE  /\ Enter => IInv'
           /\ Edit => IInv'
           /\ GiveUp => IInv'
<1>1. ASSUME NEW key, Left(key), favorites' \in Seq(Command), IsInjective(favorites') PROVE IInv'
  <2>1. /\ phase' = "done" /\ pattern' = <<>> /\ cursor' = InPrompt /\ selection' = <<>>
        /\ regexp' = [regexp EXCEPT !.cache = [p \in {} |-> FALSE]]
        /\ shown' = [row \in DOMAIN shown |-> NULL] /\ highlighted' = {}
        /\ UNCHANGED <<rawItems, items, modes, promptItems>>
    BY <1>1 DEF Left
  <2>2. TypeOK'
    BY <1>1, <2>1 DEF IInv, TypeOK
  <2>3. ListsConsistent' /\ ModesInv'
    BY <1>1, <2>1 DEF IInv, ListsConsistent, ModesInv, modes
  <2>4. Remade' /\ ShownInv' /\ CursorOnItem'
    BY <2>1 DEF Remade, ShownInv, CursorOnItem
  <2> QED BY <2>2, <2>3, <2>4 DEF IInv
<1>2. favorites \in Seq(Command) /\ IsInjective(favorites)
  BY KeyTypes DEF IInv, ListsConsistent
<1>3. ASSUME NEW fallback, Choose(fallback) PROVE favorites' \in Seq(Command) /\ IsInjective(favorites')
  <2>1. CASE UnderCursor # NULL
    <3>1. UnderCursor \in Command
      BY <2>1, KeyTypes
    <3> QED BY <1>2, <1>3, <3>1, ChosenOrAdded DEF Choose
  <2>2. CASE UnderCursor = NULL
    BY <1>2, <1>3, <2>2 DEF Choose
  <2> QED BY <2>1, <2>2
<1> QED BY <1>1, <1>2, <1>3 DEF Enter, Edit, GiveUp

\* The invariant holds in every state of the loop (loop_to_select).
THEOREM Invariant == Spec => []IInv
<1>1. IInv /\ [Next]_vars => IInv'
  <2> SUFFICES ASSUME IInv, [Next]_vars PROVE IInv'
    OBVIOUS
  <2>1. CASE UNCHANGED vars
    BY <2>1 DEF IInv, TypeOK, ModesInv, Remade, ListsConsistent, ShownInv, CursorOnItem,
                UnderCursor, InRow, Query, vars, lists, modes, screen, ends
  <2>2. CASE Next
    BY <2>2, PatternKeys, ModeKeys, NavigateIInv, DelIInv, ConfirmOtherIInv, FavoriteIInv, LeaveIInv
       DEF Next
  <2> QED BY <2>1, <2>2
<1> QED BY InitIInv, <1>1, PTL DEF Spec

\* The types hold, for any views and any terminal.
THEOREM TypeCorrect == Spec => []TypeOK
BY Invariant, PTL DEF IInv

\* What the last search was made with.
SearchInv == matching \in Matchings /\ searched \in Seq(Char)

\* A command is characters.
LEMMA CommandsAreTexts == Command \subseteq Seq(Char)
<1>1. \A list : list \in Seq(Seq(Char)) => ToSet(list) \subseteq Seq(Char)
  BY DEF ToSet
<1> QED BY <1>1, ViewsAssumption DEF Command

\* A pattern is characters.
LEMMA PatternType ==
    ASSUME IInv
    PROVE  pattern \in Seq(Char) /\ promptItems \in Nat
BY TypedAssumption, HeightsAssumption DEF IInv, TypeOK

\* Every key keeps that: the pattern it is printed by is one of characters.
LEMMA SearchNext == IInv /\ IInv' /\ SearchInv /\ [Next]_vars => SearchInv'
<1> SUFFICES ASSUME IInv, IInv', SearchInv, [Next]_vars PROVE SearchInv'
  OBVIOUS
<1>1. pattern' \in Seq(Char)
  BY TypedAssumption DEF IInv, TypeOK
<1>2. CASE UNCHANGED vars
  BY <1>2 DEF vars, modes, screen, SearchInv
<1>3. CASE Next
  <2>1. matching' \in Matchings
    BY <1>3 DEF Next, Type, Backspace, ClearPattern, ToggleCase, RotateMatching, RotateView,
       ToggleCaseSensitive, Resize, Navigate, Del, Delete, ConfirmYes, ConfirmOther, Favorite,
       Enter, Edit, GiveUp, Left, modes, SearchInv, Matchings
  <2>2. searched' \in {searched, pattern', <<>>}
    BY <1>3 DEF Next, Type, Backspace, ClearPattern, ToggleCase, RotateMatching, RotateView,
       ToggleCaseSensitive, Resize, Navigate, Del, Delete, ConfirmYes, ConfirmOther, Favorite,
       Enter, Edit, GiveUp, Left, screen, Reprinted, PrintedBy, PrintedRows
  <2>3. <<>> \in Seq(Char)
    OBVIOUS
  <2> QED BY <1>1, <2>1, <2>2, <2>3 DEF SearchInv
<1> QED BY <1>2, <1>3

\* Whatever keys came before, the selection on the terminal is the first of the rows of
\* the view that match the pattern of the last search, in their order, though only a
\* printing makes it anew (hstr_make_selection, hstr_print_selection).
THEOREM SelectionIsFresh == Spec => []SelectionFresh
<1>1. IInv /\ SearchInv => SelectionFresh
  <2> SUFFICES ASSUME IInv, SearchInv, phase # "done", ~missedResize
               PROVE  selection = FirstMatches(Source(rawItems, items, favorites, view),
                          searched, Query(matching, caseSensitive, regexp, promptItems))
    BY DEF SelectionFresh
  <2> DEFINE source == Source(rawItems, items, favorites, view)
             q == Query(matching, caseSensitive, regexp, promptItems)
  <2>1. source \in Seq(Seq(Char))
    <3>1. source \in Seq(Command)
      BY SourceType DEF IInv, TypeOK, ModesInv
    <3>2. Command \subseteq Seq(Char)
      BY CommandsAreTexts
    <3> HIDE DEF source
    <3> QED BY <3>1, <3>2
  <2>2. /\ q.matching \in Matchings /\ "cache" \in DOMAIN q.regexp /\ q.capacity \in Nat
        /\ searched \in Seq(Char)
    BY PatternType DEF IInv, ModesInv, SearchInv, Query
  <2>3. selection = MakeSelection(source, searched, q)
    BY DEF IInv, Remade
  <2> HIDE DEF source, q
  <2>4. MakeSelection(source, searched, q) = FirstMatches(source, searched, q)
    BY <2>1, <2>2, SelectsFirstMatches
  <2> QED BY <2>3, <2>4 DEF source, q
<1>2. Init => SearchInv
  <2> SUFFICES ASSUME Init PROVE SearchInv
    OBVIOUS
  <2>1. IInv /\ searched = pattern /\ matching \in Matchings
    BY InitIInv DEF Init
  <2> QED BY <2>1, PatternType DEF SearchInv
<1>3. Spec => [](IInv /\ SearchInv)
  BY <1>2, SearchNext, Invariant, PTL DEF Spec
<1> QED BY <1>1, <1>3, PTL

\* No key makes a favorite or a ranked command come twice, and none leaves a ranked
\* command the history has lost (remove_from_history_model, favorites_add).
THEOREM ViewsStayConsistent == Spec => []ListsConsistent
BY Invariant, PTL DEF IInv

\* The cursor is in the prompt or on a highlighted row that shows the command the keys
\* act on (highlight_selection, hstr_selection_cursor_move).
THEOREM CursorIsOnItem == Spec => []CursorOnItem
BY Invariant, PTL DEF IInv

\* Nothing but the highlighted command is ever deleted, and never without a yes unless
\* none is asked for (loop_to_select, remove_from_history_model).
THEOREM OnlyHighlightedDeleted == Spec => DeletesOnlyHighlighted
<1> DEFINE Deletes == \A k \in 1 .. 3 : \A c \in ToSet(lists[k]) \ ToSet(lists'[k]) :
               /\ config.noConfirm \/ phase = "confirm"
               /\ ~missedResize => cursor \in highlighted /\ c = shown[cursor]
<1>1. IInv /\ [Next]_vars => [Deletes]_vars
  <2> SUFFICES ASSUME IInv, Next PROVE Deletes
    BY DEF vars
  <2>1. lists = <<rawItems, items, favorites>> /\ lists' = <<rawItems', items', favorites'>>
    BY DEF lists
  <2>2. ASSUME Delete, config.noConfirm \/ phase = "confirm", phase # "done" PROVE Deletes
    <3> SUFFICES ASSUME NEW k \in 1 .. 3, NEW c \in ToSet(lists[k]) \ ToSet(lists'[k]), ~missedResize
                 PROVE  cursor \in highlighted /\ c = shown[cursor]
      BY <2>2
    <3>1. c = UnderCursor /\ c \in Command
      <4>1. \A list \in Seq(Command) : ToSet(list) \subseteq Command
        BY DEF ToSet
      <4>2. lists[k] \in Seq(Command) /\ ToSet(lists[k]) \ ToSet(lists'[k]) \subseteq {UnderCursor}
        BY <2>1, <2>2, KeyTypes, DeletedViews
      <4> QED BY <4>1, <4>2
    <3>2. cursor # InPrompt
      BY <3>1, KeyTypes, NullIsNoCommand
    <3> QED BY <2>2, <3>1, <3>2 DEF IInv, CursorOnItem
  <2>3. ASSUME ToSet(rawItems) \subseteq ToSet(rawItems'), ToSet(items) \subseteq ToSet(items'),
               ToSet(favorites) \subseteq ToSet(favorites')
        PROVE  Deletes
    BY <2>1, <2>3
  <2> HIDE DEF Deletes
  <2>4. CASE UNCHANGED lists
    BY <2>3, <2>4 DEF lists
  <2>5. CASE Del \/ ConfirmYes
    <3>1. CASE ConfirmYes
      BY <2>2, <3>1 DEF ConfirmYes
    <3>2. CASE Del /\ config.noConfirm
      BY <2>2, <3>2 DEF Del, Reading
    <3>3. CASE Del /\ ~config.noConfirm
      BY <2>4, <3>3 DEF Del
    <3> QED BY <2>5, <3>1, <3>2, <3>3
  <2>6. CASE Favorite
    <3>1. ToSet(favorites) \subseteq ToSet(favorites')
      BY <2>6, KeyTypes, ChosenOrAdded DEF Favorite
    <3> QED BY <2>3, <2>6, <3>1 DEF Favorite
  <2>7. CASE Enter \/ Edit
    <3>1. PICK fallback, key : Choose(fallback) /\ Left(key)
      BY <2>7 DEF Enter, Edit
    <3>2. ToSet(favorites) \subseteq ToSet(favorites')
      BY <3>1, KeyTypes, ChosenOrAdded DEF Choose
    <3> QED BY <2>3, <3>1, <3>2 DEF Left
  <2>8. CASE GiveUp
    BY <2>4, <2>8 DEF GiveUp, Left, lists
  <2>9. CASE Type \/ Backspace \/ ClearPattern \/ ToggleCase \/ RotateMatching \/ RotateView
             \/ ToggleCaseSensitive \/ Resize \/ Navigate \/ ConfirmOther
    BY <2>4, <2>9 DEF Type, Backspace, ClearPattern, ToggleCase, RotateMatching, RotateView,
                      ToggleCaseSensitive, Resize, Navigate, ConfirmOther
  <2> QED BY <2>5, <2>6, <2>7, <2>8, <2>9 DEF Next
<1> QED BY Invariant, <1>1, PTL DEF Spec, DeletesOnlyHighlighted

\* ENTER runs the highlighted command, or the first of the selection (choose_result).
THEOREM EnterRunsWhatIsHighlighted == Spec => EnterRunsHighlighted
<1> DEFINE Running == (keyOfExit' = "enter" /\ keyOfExit = "none" /\ ~missedResize /\ selection # <<>>) =>
                      IF cursor = InPrompt THEN result' = selection[1]
                      ELSE cursor \in highlighted /\ result' = shown[cursor]
<1>1. IInv /\ [Next]_vars => [Running]_vars
  <2> SUFFICES ASSUME IInv, Next, keyOfExit' = "enter", keyOfExit = "none", ~missedResize,
                      selection # <<>>
               PROVE  IF cursor = InPrompt THEN result' = selection[1]
                      ELSE cursor \in highlighted /\ result' = shown[cursor]
    BY DEF vars
  <2>1. Enter
    BY DEF Next, Type, Backspace, ClearPattern, ToggleCase, RotateMatching, RotateView,
           ToggleCaseSensitive, Resize, Navigate, Del, ConfirmYes, ConfirmOther, Favorite,
           Edit, GiveUp, Left, ends
  <2>2. phase = "loop" /\ result' = IF UnderCursor # NULL THEN UnderCursor ELSE selection[1]
    BY <2>1 DEF Enter, Reading, Choose
  <2>3. CASE cursor = InPrompt
    BY <2>2, <2>3, KeyTypes
  <2>4. CASE cursor # InPrompt
    BY <2>2, <2>4 DEF IInv, CursorOnItem
  <2> QED BY <2>3, <2>4
<1> QED BY Invariant, <1>1, PTL DEF Spec, EnterRunsHighlighted

-----------------------------------------------------------------------------
\* A view, a pattern and settings hstr_make_selection may be called with, and what it
\* then returns.
CallInv ==
    /\ listed \in Seq(Seq(Char)) /\ prefix \in Seq(Char)
    /\ settings.matching \in Matchings /\ "cache" \in DOMAIN settings.regexp
    /\ settings.capacity \in Nat
    /\ returned => made = MakeSelection(listed, prefix, settings)

\* It is called with those.
LEMMA CallIsLegal == CallInit => CallInv
<1> SUFFICES ASSUME CallInit PROVE CallInv
  OBVIOUS
<1>1. \A S : \A n \in Nat : BoundedSeq(S, n) \subseteq Seq(S)
  BY DEF BoundedSeq, SeqOf
<1>2. listed \in Seq(Lines) /\ prefix \in Seq(Char) /\ ~returned
  BY <1>1, BoundsAssumption DEF CallInit
<1>3. listed \in Seq(Seq(Char))
  BY <1>2, LinesAssumption
<1>4. /\ settings.matching \in Matchings /\ settings.capacity \in 0 .. MaxRows
      /\ settings.regexp \in Regexps(prefix)
  BY DEF CallInit
<1>5. "cache" \in DOMAIN settings.regexp
  BY <1>4 DEF Regexps
<1> QED BY <1>2, <1>3, <1>4, <1>5, BoundsAssumption DEF CallInv

\* For any view, pattern and settings the call lists the first rows that match, in the
\* order they are to be listed, and none twice that is not to be (hstr_make_selection).
THEOREM CallIsCorrect == CallSpec => []SelectionCorrect
<1>1. CallInv /\ [Make]_callVars => CallInv'
  <2> SUFFICES ASSUME CallInv, [Make]_callVars PROVE CallInv'
    OBVIOUS
  <2>1. listed' = listed /\ prefix' = prefix /\ settings' = settings
    BY DEF Make, callVars
  <2>2. returned' => made' = MakeSelection(listed, prefix, settings)
    BY DEF Make, callVars, CallInv
  <2> QED BY <2>1, <2>2 DEF CallInv
<1>2. CallInv => SelectionCorrect
  BY SelectsFirstMatches DEF CallInv, SelectionCorrect
<1> QED BY CallIsLegal, <1>1, <1>2, PTL DEF CallSpec
=============================================================================
