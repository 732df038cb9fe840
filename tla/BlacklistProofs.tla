---------------------------- MODULE BlacklistProofs ----------------------------
(***************************************************************************)
(* The theorems about the blacklist over the runs of hstr, for every hash  *)
(* function, every default and every file. First the hash set: what        *)
(* hashset_put and hashset_keys promise; then the invariant, which follows *)
(* what a run has loaded to what it writes back.                           *)
(***************************************************************************)
EXTENDS Blacklist, OperatorProofs

\* The lists of the hashes, in the order hashset_keys takes them.
Parts(hs) == [h \in 1 .. HashMapSize |-> hs.lists[h - 1]]
\* The sets there are, and what is in one.
HashSets == {hs \in [lists : [0 .. HashMapSize - 1 -> Seq(Key)], currentSize : Nat] : WellFormed(hs)}
Members(hs) == {key \in Key : hashset_contains(hs, key)}

\* A list for every hash.
LEMMA PartsType ==
    ASSUME NEW lists \in [0 .. HashMapSize - 1 -> Seq(Key)], NEW size
    PROVE  LET parts == Parts([lists |-> lists, currentSize |-> size])
           IN  /\ parts \in Seq(Seq(Key)) /\ Len(parts) = HashMapSize
               /\ \A h \in 1 .. HashMapSize : parts[h] = lists[h - 1] /\ h - 1 \in 0 .. HashMapSize - 1
<1> DEFINE T == Seq(Key)
           hs == [lists |-> lists, currentSize |-> size]
           parts == Parts(hs)
<1>1. HashMapSize \in Nat /\ \A h \in 1 .. HashMapSize : h - 1 \in 0 .. HashMapSize - 1
  BY HashAssumption
<1>2. parts \in [1 .. HashMapSize -> T] /\ \A h \in 1 .. HashMapSize : parts[h] = lists[h - 1]
  <2>1. \A h \in 0 .. HashMapSize - 1 : lists[h] \in T
    OBVIOUS
  <2> HIDE DEF T
  <2> QED BY <1>1, <2>1 DEF Parts
<1>3. parts \in Seq(T) /\ Len(parts) = HashMapSize
  <2> HIDE DEF T, parts
  <2> QED BY <1>1, <1>2
<1> HIDE DEF parts
<1>4. parts \in Seq(Seq(Key))
  BY <1>3
<1> HIDE DEF T
<1> QED BY <1>1, <1>2, <1>3, <1>4 DEF parts, hs

\* What a set is made of.
LEMMA SetIsRecord ==
    ASSUME NEW hs \in HashSets
    PROVE  /\ hs.lists \in [0 .. HashMapSize - 1 -> Seq(Key)] /\ hs.currentSize \in Nat
           /\ hs = [lists |-> hs.lists, currentSize |-> hs.currentSize] /\ WellFormed(hs)
BY DEF HashSets

\* hashset_keys gives the keys that hashset_contains finds, as many as were counted:
\* the array it allocates has room for them (hashset.c).
LEMMA KeysProperties ==
    ASSUME NEW hs \in HashSets
    PROVE  /\ hashset_keys(hs) \in Seq(Key) /\ Len(hashset_keys(hs)) = hs.currentSize
           /\ ToSet(hashset_keys(hs)) = Members(hs)
<1> DEFINE parts == Parts(hs)
           keys == hashset_keys(hs)
<1>0. hs.lists \in [0 .. HashMapSize - 1 -> Seq(Key)] /\ WellFormed(hs)
      /\ hs = [lists |-> hs.lists, currentSize |-> hs.currentSize]
  BY SetIsRecord
<1>1. /\ parts \in Seq(Seq(Key)) /\ Len(parts) = HashMapSize
      /\ \A h \in 1 .. HashMapSize : parts[h] = hs.lists[h - 1] /\ h - 1 \in 0 .. HashMapSize - 1
  BY <1>0, PartsType
<1>2. keys = FlattenSeq(parts)
  BY DEF hashset_keys, Parts
<1> HIDE DEF parts
<1>3. keys \in Seq(Key) /\ ToSet(keys) = UNION {ToSet(parts[h]) : h \in 1 .. HashMapSize}
  BY <1>1, <1>2, FlattenProperties
<1>4. Len(keys) = hs.currentSize
  BY <1>0 DEF WellFormed
<1>5. /\ \A h \in 0 .. HashMapSize - 1 : \A key \in ToSet(hs.lists[h]) : Hash[key] = h
      /\ \A h \in 0 .. HashMapSize - 1 : ToSet(hs.lists[h]) \subseteq Key
  <2>1. \A h \in 0 .. HashMapSize - 1 : hs.lists[h] \in Seq(Key)
    BY <1>0
  <2> QED BY <1>0, <2>1 DEF WellFormed, ToSet
<1>6. \A key : hashset_contains(hs, key) <=> key \in ToSet(hs.lists[Hash[key]])
  BY DEF hashset_contains, ToSet
<1>7. ASSUME NEW key \in Key
      PROVE  hashset_contains(hs, key) <=> \E h \in 1 .. HashMapSize : key \in ToSet(parts[h])
  <2>1. Hash[key] \in 0 .. HashMapSize - 1
    BY HashAssumption
  <2>2. Hash[key] + 1 \in 1 .. HashMapSize /\ (Hash[key] + 1) - 1 = Hash[key]
    BY <2>1, HashAssumption
  <2>3. parts[Hash[key] + 1] = hs.lists[Hash[key]]
    BY <1>1, <2>2
  <2>4. \A h \in 1 .. HashMapSize : key \in ToSet(parts[h]) => key \in ToSet(hs.lists[Hash[key]])
    BY <1>1, <1>5
  <2> QED BY <1>6, <2>2, <2>3, <2>4
<1>8. \A h \in 1 .. HashMapSize : ToSet(parts[h]) \subseteq Key
  BY <1>1, <1>5
<1> HIDE DEF keys
<1>9. UNION {ToSet(parts[h]) : h \in 1 .. HashMapSize} = Members(hs)
  BY <1>7, <1>8 DEF Members
<1> QED BY <1>3, <1>4, <1>9 DEF keys

\* A new set is well formed, and empty.
LEMMA InitSet == hashset_init \in HashSets /\ Members(hashset_init) = {}
<1> DEFINE lists == [h \in 0 .. HashMapSize - 1 |-> <<>>]
           parts == Parts(hashset_init)
<1>1. hashset_init = [lists |-> lists, currentSize |-> 0]
      /\ hashset_init.lists = lists /\ hashset_init.currentSize = 0
  BY DEF hashset_init
<1>2. lists \in [0 .. HashMapSize - 1 -> Seq(Key)] /\ \A h \in 0 .. HashMapSize - 1 : lists[h] = <<>>
  <2>1. <<>> \in Seq(Key)
    OBVIOUS
  <2> QED BY <2>1
<1> HIDE DEF lists
<1>3. /\ parts \in Seq(Seq(Key)) /\ Len(parts) = HashMapSize
      /\ \A h \in 1 .. HashMapSize : parts[h] = <<>>
  BY <1>1, <1>2, PartsType
<1> HIDE DEF parts
<1>4. FlattenSeq(parts) = <<>>
  <2>1. FlattenSeq(parts) \in Seq(Key)
        /\ ToSet(FlattenSeq(parts)) = UNION {ToSet(parts[h]) : h \in 1 .. HashMapSize}
    BY <1>3, FlattenProperties
  <2>2. ToSet(<<>>) = {}
    BY DEF ToSet
  <2> DEFINE keys == FlattenSeq(parts)
  <2>3. keys \in Seq(Key) /\ ToSet(keys) = {}
    BY <1>3, <2>1, <2>2
  <2> HIDE DEF keys
  <2>4. Len(keys) = 0
    <3>1. Len(keys) \in Nat /\ DOMAIN keys = 1 .. Len(keys)
      BY <2>3
    <3>2. \A k \in 1 .. Len(keys) : FALSE
      BY <2>3, <3>1 DEF ToSet
    <3> QED BY <3>1, <3>2
  <2>5. keys = <<>>
    BY <2>3, <2>4
  <2> QED BY <2>5 DEF keys
<1>5. hashset_keys(hashset_init) = <<>> /\ Len(<<>>) = 0
  BY <1>4 DEF hashset_keys, parts, Parts
<1>6. ToSet(<<>>) = {} /\ IsInjective(<<>>)
  BY DEF ToSet, IsInjective
<1>7. WellFormed(hashset_init)
  BY <1>1, <1>2, <1>5, <1>6 DEF WellFormed
<1>8. hashset_init \in HashSets
  BY <1>1, <1>2, <1>7 DEF HashSets
<1>9. \A key \in Key : ~hashset_contains(hashset_init, key)
  <2>1. \A key \in Key : Hash[key] \in 0 .. HashMapSize - 1
    BY HashAssumption
  <2>2. DOMAIN <<>> = {}
    OBVIOUS
  <2> QED BY <1>1, <1>2, <2>1, <2>2 DEF hashset_contains
<1> QED BY <1>8, <1>9 DEF Members

\* hashset_put adds the key if it is not there, in the list of its hash.
LEMMA PutKey ==
    ASSUME NEW hs \in HashSets, NEW key \in Key
    PROVE  /\ hashset_put(hs, key) \in HashSets
           /\ Members(hashset_put(hs, key)) = Members(hs) \cup {key}
<1>1. CASE hashset_contains(hs, key)
  BY <1>1 DEF hashset_put, Members
<1>2. CASE ~hashset_contains(hs, key)
  <2> DEFINE hash == Hash[key]
             old == hs.lists[hash]
             new == <<key>> \o old
             lists == [hs.lists EXCEPT ![hash] = new]
             put == hashset_put(hs, key)
             size == hs.currentSize + 1
  <2>1. hs.lists \in [0 .. HashMapSize - 1 -> Seq(Key)] /\ WellFormed(hs) /\ hs.currentSize \in Nat
        /\ hs = [lists |-> hs.lists, currentSize |-> hs.currentSize]
    BY SetIsRecord
  <2>2. HashMapSize \in Nat /\ hash \in 0 .. HashMapSize - 1
    BY HashAssumption
  <2>3. put = [lists |-> lists, currentSize |-> size] /\ put.lists = lists /\ put.currentSize = size
    BY <1>2 DEF hashset_put
  <2>4. old \in Seq(Key) /\ new \in Seq(Key) /\ Len(new) = Len(old) + 1
        /\ ToSet(new) = ToSet(old) \cup {key}
    <3>1. old \in Seq(Key)
      BY <2>1, <2>2
    <3> HIDE DEF old
    <3>2. <<key>> \in Seq(Key) /\ Len(<<key>>) = 1 /\ ToSet(<<key>>) = {key}
      BY DEF ToSet
    <3> DEFINE one == <<key>>
    <3>3. new \in Seq(Key) /\ Len(new) = 1 + Len(old)
      BY <3>1, <3>2, JoinProperties
    <3>4. ToSet(new) = {key} \cup ToSet(old)
      <4>1. one \in Seq(Key) /\ ToSet(one) = {key}
        BY <3>2
      <4> HIDE DEF one
      <4>2. ToSet(one \o old) = ToSet(one) \cup ToSet(old)
        BY <3>1, <4>1, ToSetJoin
      <4> QED BY <4>1, <4>2 DEF one
    <3>5. Len(old) \in Nat
      BY <3>1
    <3> HIDE DEF new
    <3> QED BY <3>1, <3>3, <3>4, <3>5
  <2>5. key \notin ToSet(old)
    BY <1>2 DEF hashset_contains, ToSet
  <2>6. IsInjective(old)
    BY <2>1, <2>2 DEF WellFormed
  <2> HIDE DEF old
  <2>7. IsInjective(new)
    BY <2>4, <2>5, <2>6, PutProperties
  <2> HIDE DEF new, hash, size
  <2>8. /\ lists \in [0 .. HashMapSize - 1 -> Seq(Key)]
        /\ lists[hash] = new
        /\ \A h \in 0 .. HashMapSize - 1 : h # hash => lists[h] = hs.lists[h]
    <3> DEFINE T == Seq(Key)
    <3>1. hs.lists \in [0 .. HashMapSize - 1 -> T] /\ new \in T
      BY <2>1, <2>4
    <3> HIDE DEF T
    <3>2. lists \in [0 .. HashMapSize - 1 -> T]
      BY <2>2, <3>1
    <3> QED BY <2>1, <2>2, <3>2 DEF T
  <2> HIDE DEF lists, put
  <2>9. Len(hashset_keys(put)) = size
    <3> DEFINE parts == Parts(hs)
               more == Parts(put)
    <3>1. /\ parts \in Seq(Seq(Key)) /\ Len(parts) = HashMapSize
          /\ \A h \in 1 .. HashMapSize : parts[h] = hs.lists[h - 1] /\ h - 1 \in 0 .. HashMapSize - 1
      BY <2>1, PartsType
    <3>2. /\ more \in Seq(Seq(Key)) /\ Len(more) = HashMapSize
          /\ \A h \in 1 .. HashMapSize : more[h] = lists[h - 1]
      BY <2>3, <2>8, PartsType
    <3>3. hashset_keys(put) = FlattenSeq(more) /\ hashset_keys(hs) = FlattenSeq(parts)
      BY DEF hashset_keys, Parts
    <3> HIDE DEF parts, more
    <3> DEFINE p == hash + 1
    <3>4. p \in 1 .. HashMapSize /\ p - 1 = hash
      BY <2>2
    <3>5. more[p] = new /\ parts[p] = old
      BY <2>8, <3>1, <3>2, <3>4 DEF old
    <3>6. ASSUME NEW h \in 1 .. HashMapSize, h # p PROVE more[h] = parts[h]
      <4>1. h - 1 # hash /\ h - 1 \in 0 .. HashMapSize - 1
        BY <2>2, <3>6
      <4> QED BY <2>8, <3>1, <3>2, <4>1
    <3> HIDE DEF p
    <3>7. Len(FlattenSeq(more)) = Len(FlattenSeq(parts)) + 1
      <4>1. p \in 1 .. Len(parts) /\ Len(more) = Len(parts) /\ Len(more[p]) = Len(parts[p]) + 1
            /\ \A h \in 1 .. Len(parts) : h # p => more[h] = parts[h]
        BY <2>4, <3>1, <3>2, <3>4, <3>5, <3>6
      <4> QED BY <3>1, <3>2, <4>1, FlattenLonger
    <3>8. Len(FlattenSeq(parts)) = hs.currentSize
      BY <2>1, <3>3 DEF WellFormed
    <3> QED BY <3>3, <3>7, <3>8 DEF size
  <2>10. ASSUME NEW h \in 0 .. HashMapSize - 1
         PROVE  (\A k \in ToSet(lists[h]) : Hash[k] = h) /\ IsInjective(lists[h])
    <3>1. CASE h = hash
      <4>1. \A k \in ToSet(old) : Hash[k] = hash
        BY <2>1, <2>2 DEF WellFormed, old
      <4> QED BY <2>4, <2>7, <2>8, <3>1, <4>1 DEF hash
    <3>2. CASE h # hash
      BY <2>1, <2>8, <3>2 DEF WellFormed
    <3> QED BY <3>1, <3>2
  <2>11. WellFormed(put)
    BY <2>3, <2>8, <2>9, <2>10 DEF WellFormed
  <2>12. put \in HashSets
    <3>1. size \in Nat
      BY <2>1 DEF size
    <3> QED BY <2>3, <2>8, <2>11, <3>1 DEF HashSets
  <2>13. ASSUME NEW k \in Key
         PROVE  hashset_contains(put, k) <=> hashset_contains(hs, k) \/ k = key
    <3>1. /\ hashset_contains(put, k) <=> k \in ToSet(lists[Hash[k]])
          /\ hashset_contains(hs, k) <=> k \in ToSet(hs.lists[Hash[k]])
      BY <2>3 DEF hashset_contains, ToSet
    <3>2. Hash[k] \in 0 .. HashMapSize - 1
      BY HashAssumption
    <3>3. CASE Hash[k] = hash
      BY <2>4, <2>8, <3>1, <3>3 DEF old
    <3>4. CASE Hash[k] # hash
      BY <2>8, <3>1, <3>2, <3>4 DEF hash
    <3> QED BY <3>3, <3>4
  <2> QED BY <2>12, <2>13 DEF Members, put
<1> QED BY <1>1, <1>2

\* The loops of blacklist_load, which add one command after the other.
PutAll(hs, list) == FoldLeft(hashset_put, hs, list)

\* What it is for F to have the set after the first commands ...
IsPutAll(F, hs, list) ==
    /\ F \in [0 .. Len(list) -> HashSets]
    /\ F[0] = hs
    /\ \A k \in 1 .. Len(list) : F[k] = hashset_put(F[k - 1], list[k])
    /\ PutAll(hs, list) = F[Len(list)]

\* ... and there is such an F.
LEMMA PutAllSteps ==
    ASSUME NEW hs \in HashSets, NEW list \in Seq(Key)
    PROVE  \E F : IsPutAll(F, hs, list)
<1> DEFINE n == Len(list)
           T == HashSets
           op(s, m) == hashset_put(s, list[m])
           step == [a \in T \X (1 .. n) |-> op(a[1], a[2])]
<1>1. n \in Nat /\ DOMAIN list = 1 .. n /\ \A m \in 1 .. n : list[m] \in Key
  OBVIOUS
<1>0. ASSUME NEW s \in T, NEW m \in 1 .. n PROVE op(s, m) \in T
  BY <1>1, PutKey
<1>2. hs \in T /\ step \in Steps(n, T)
  <2>1. hs \in T
    OBVIOUS
  <2> HIDE DEF op, T, n
  <2> QED BY <1>0, <2>1 DEF Steps
<1>3. PICK g \in [SUBSET (1 .. n) -> T] :
          \A s \in SUBSET (1 .. n) :
             g[s] = IF s = {} THEN hs ELSE step[<<g[s \ {Max(s)}], Max(s)>>]
  <2>1. \E g : IsFold(g, n, T, hs, step)
    <3> HIDE DEF step, n, T
    <3> QED BY <1>1, <1>2, FoldExists
  <2> HIDE DEF T, step
  <2> QED BY <2>1 DEF IsFold
<1> DEFINE Is(h) == h = [s \in SUBSET (1 .. n) |-> IF s = {} THEN hs ELSE op(h[s \ {Max(s)}], Max(s))]
           iter == CHOOSE h : Is(h)
<1>4. Is(g)
  <2>1. ASSUME NEW s \in SUBSET (1 .. n), s # {}
        PROVE  step[<<g[s \ {Max(s)}], Max(s)>>] = op(g[s \ {Max(s)}], Max(s))
    <3>1. Max(s) \in 1 .. n /\ g[s \ {Max(s)}] \in T
      <4> HIDE DEF T
      <4> QED BY <1>1, <2>1, MaxIsInside
    <3> HIDE DEF op, T
    <3> QED BY <3>1
  <2> HIDE DEF step, op, T
  <2> QED BY <1>3, <2>1
<1>5. Is(iter)
  <2> HIDE DEF Is
  <2> QED BY <1>4
<1>6. PutAll(hs, list) = iter[1 .. n]
  BY <1>1 DEF PutAll, FoldLeft, MapThenFoldSet
<1> DEFINE F == [k \in 0 .. n |-> iter[1 .. k]]
<1> HIDE DEF iter
<1>7. F[0] = hs
  <2> HIDE DEF op, T
  <2> QED BY <1>1, <1>5
<1>8. ASSUME NEW k \in 1 .. n PROVE F[k] = op(F[k - 1], k)
  <2>1. /\ 1 .. k \in SUBSET (1 .. n) /\ 1 .. k # {}
        /\ (1 .. k) \ {Max(1 .. k)} = 1 .. k - 1 /\ Max(1 .. k) = k
    BY <1>1, InitialSegments
  <2>2. iter[1 .. k] = op(iter[(1 .. k) \ {Max(1 .. k)}], Max(1 .. k))
    <3> HIDE DEF op
    <3> QED BY <1>5, <2>1
  <2>3. iter[1 .. k] = op(iter[1 .. k - 1], k)
    <3> HIDE DEF op
    <3> QED BY <2>1, <2>2
  <2> HIDE DEF op
  <2> QED BY <2>3
<1>9. \A k \in 0 .. n : F[k] \in T
  <2> HIDE DEF F
  <2>1. ASSUME NEW k \in 1 .. n, F[k - 1] \in T PROVE F[k] \in T
    <3> HIDE DEF op, T
    <3> QED BY <1>0, <1>8, <2>1
  <2> HIDE DEF n, T
  <2> QED BY <1>1, <1>2, <1>7, <2>1, FoldInduction
<1>10. F \in [0 .. n -> T] /\ PutAll(hs, list) = F[n]
  <2> HIDE DEF T
  <2> QED BY <1>1, <1>6, <1>9
<1> HIDE DEF F
<1> QED BY <1>7, <1>8, <1>10 DEF IsPutAll

\* A command is in the set if it was, or if it is one of those added.
LEMMA PutAllProperties ==
    ASSUME NEW hs \in HashSets, NEW list \in Seq(Key)
    PROVE  /\ PutAll(hs, list) \in HashSets
           /\ Members(PutAll(hs, list)) = Members(hs) \cup ToSet(list)
<1> DEFINE n == Len(list)
<1>1. n \in Nat /\ n \in 0 .. n /\ DOMAIN list = 1 .. n /\ \A k \in 1 .. n : list[k] \in Key
  OBVIOUS
<1>2. PICK F : IsPutAll(F, hs, list)
  BY PutAllSteps
<1>3. /\ \A k \in 0 .. n : F[k] \in HashSets
      /\ F[0] = hs /\ PutAll(hs, list) = F[n]
      /\ \A k \in 1 .. n : F[k] = hashset_put(F[k - 1], list[k])
  BY <1>2 DEF IsPutAll
<1> DEFINE A == [k \in 0 .. n |-> Members(F[k])]
           B == [k \in 0 .. n |-> Members(hs) \cup {list[j] : j \in 1 .. k}]
<1> HIDE DEF n
<1>4. A[0] = B[0]
  <2>1. 0 \in 0 .. n /\ {list[j] : j \in 1 .. 0} = {}
    BY <1>1
  <2> HIDE DEF Members
  <2> QED BY <1>3, <2>1
<1>5. ASSUME NEW k \in 1 .. n, A[k - 1] = B[k - 1] PROVE A[k] = B[k]
  <2>1. k \in 0 .. n /\ k - 1 \in 0 .. n
    BY <1>1
  <2>2. Members(F[k]) = Members(F[k - 1]) \cup {list[k]}
    BY <1>1, <1>3, <2>1, PutKey
  <2>3. {list[j] : j \in 1 .. k} = {list[j] : j \in 1 .. k - 1} \cup {list[k]}
    <3>1. \A j : j \in 1 .. k <=> j \in 1 .. k - 1 \/ j = k
      BY <1>1
    <3> QED BY <3>1
  <2>4. Members(F[k - 1]) = Members(hs) \cup {list[j] : j \in 1 .. k - 1}
    BY <1>5, <2>1
  <2>5. A[k] = Members(F[k]) /\ B[k] = Members(hs) \cup {list[j] : j \in 1 .. k}
    BY <2>1
  <2> HIDE DEF A, B, Members
  <2> QED BY <2>2, <2>3, <2>4, <2>5
<1>6. A[n] = B[n]
  <2> HIDE DEF A, B
  <2> QED BY <1>1, <1>4, <1>5, SameSteps
<1>7. Members(F[n]) = Members(hs) \cup ToSet(list)
  <2>1. ToSet(list) = {list[j] : j \in 1 .. n}
    BY <1>1 DEF ToSet
  <2> HIDE DEF Members
  <2> QED BY <1>1, <1>6, <2>1
<1> QED BY <1>1, <1>3, <1>7

-----------------------------------------------------------------------------
\* The files there are, NULL among them: what is partial is a line.
Files == {f \in [lines : Seq(Command), partial : BOOLEAN] : f.partial /\ f # NULL => f.lines # <<>>}

\* The commands the configuration asks for.
Wanted == ToSet(IF useFile /\ before # NULL THEN Listed(before) ELSE Default)

\* The types, and that isLoaded says the default is loaded (blacklist_load).
Types ==
    /\ file \in Files /\ before \in Files
    /\ set \in HashSets /\ isLoaded \in BOOLEAN /\ useFile \in BOOLEAN /\ killed \in BOOLEAN
    /\ option \in Option
    /\ phase \in {"off", "check", "select", "selected", "options", "load", "loop", "exit", "saving"}
    /\ isLoaded => ToSet(Default) \subseteq Members(set)

\* Until it writes, a run has left the file as it was, and it writes only if it is
\* configured to.
FileUntouched ==
    /\ phase \notin {"off", "saving"} => file = before /\ ~killed
    /\ phase = "saving" => useFile

\* A run that goes on has loaded nothing before blacklist_load, so that isLoaded does not
\* keep it from loading.
NothingLoadedYet ==
    /\ phase \in {"check", "select", "selected", "options", "load"} =>
          set = hashset_init /\ ~isLoaded
    /\ phase \in {"load", "loop"} => option \in Going

\* What was loaded is what the configuration asks for, until it is written; only the options
\* that exit at once have not loaded it.
WantedIsLoaded ==
    /\ phase = "loop" => Members(set) = Wanted
    /\ phase \in {"exit", "saving"} /\ option \notin Exiting => Members(set) = Wanted

\* The inductive invariant.
IInv == Types /\ FileUntouched /\ NothingLoadedYet /\ WantedIsLoaded /\ SessionKeepsFile

\* A file is commands.
LEMMA ListedType ==
    ASSUME NEW f \in Files, f # NULL
    PROVE  Listed(f) \in Seq(Command)
<1>1. f.lines \in Seq(Command) /\ (f.partial => f.lines # <<>>)
  BY DEF Files
<1> DEFINE lines == f.lines
<1> HIDE DEF lines
<1>2. lines # <<>> => Front(lines) \in Seq(Command)
  <2>1. lines \in Seq(Command)
    BY <1>1 DEF lines
  <2> QED BY <2>1 DEF Front
<1> QED BY <1>1, <1>2 DEF Listed, lines

\* What blacklist_load loads into an empty set is what the configuration asks for.
LEMMA Loaded ==
    ASSUME Types, ~isLoaded, set = hashset_init, file = before, LoadBlacklist
    PROVE  /\ set' \in HashSets /\ isLoaded' \in BOOLEAN
           /\ Members(set') = Wanted
           /\ isLoaded' => ToSet(Default) \subseteq Members(set')
<1>1. /\ set' = PutAll(hashset_init, Load(file)) /\ isLoaded' = (~useFile \/ file = NULL)
  BY DEF LoadBlacklist, PutAll
<1>2. Load(file) \in Seq(Key)
  <2>1. Default \in Seq(Key)
    BY DefaultAssumption DEF Command
  <2>2. useFile /\ file # NULL => Listed(file) \in Seq(Key)
    BY ListedType DEF Types, Command
  <2> QED BY <2>1, <2>2 DEF Load
<1>3. set' \in HashSets /\ Members(set') = Members(hashset_init) \cup ToSet(Load(file))
  BY <1>1, <1>2, InitSet, PutAllProperties
<1>4. Members(set') = ToSet(Load(file))
  BY <1>3, InitSet
<1>5. ToSet(Load(file)) = Wanted
  BY DEF Load, Wanted
<1>6. isLoaded' => Load(file) = Default
  BY <1>1 DEF Load
<1> QED BY <1>1, <1>3, <1>4, <1>5, <1>6

-----------------------------------------------------------------------------
\* The invariant holds at the start,
LEMMA InitInvariant == Init => IInv
<1> SUFFICES ASSUME Init PROVE IInv
  OBVIOUS
<1>1. file \in Files
  <2>1. CASE file = NULL
    <3>1. <<>> \in Seq(Command)
      OBVIOUS
    <3>2. NULL \in [lines : Seq(Command), partial : BOOLEAN]
      BY <3>1 DEF NULL
    <3> QED BY <2>1, <3>2 DEF Files
  <2>2. CASE file # NULL
    <3>1. PICK lines \in BoundedSeq(Command, MaxLines), partial \in BOOLEAN :
              (partial => lines # <<>>) /\ file = [lines |-> lines, partial |-> partial]
      BY <2>2 DEF Init
    <3>2. lines \in Seq(Command)
      <4>1. PICK n \in 0 .. MaxLines : lines \in [1 .. n -> Command]
        BY <3>1 DEF BoundedSeq, SeqOf
      <4>2. n \in Nat
        BY <4>1, MaxLinesAssumption
      <4> QED BY <4>1, <4>2
    <3> QED BY <3>1, <3>2 DEF Files
  <2> QED BY <2>1, <2>2
<1>2. Types
  BY <1>1, InitSet DEF Init, Types, Option, Going
<1>3. SessionKeepsFile
  BY DEF Init, SessionKeepsFile
<1> QED BY <1>2, <1>3 DEF Init, IInv, FileUntouched, NothingLoadedYet, WantedIsLoaded

\* ... and every step keeps it.
LEMMA StepInvariant == IInv /\ [Next]_vars => IInv'
<1> SUFFICES ASSUME IInv, [Next]_vars PROVE IInv'
  OBVIOUS
<1>0. Types /\ FileUntouched /\ NothingLoadedYet /\ WantedIsLoaded /\ SessionKeepsFile
  BY DEF IInv
<1> DEFINE run == <<file, before, killed, option, useFile>>
<1>a. ASSUME UNCHANGED run, UNCHANGED <<set, isLoaded>>, phase # "off", phase # "saving",
             phase' = "off"
      PROVE  IInv'
  <2>1. file = before
    BY <1>0, <1>a DEF FileUntouched
  <2>2. SessionKeepsFile'
    BY <1>a, <2>1 DEF SessionKeepsFile
  <2>3. Types'
    BY <1>0, <1>a DEF Types, Members, hashset_contains
  <2> QED BY <1>a, <2>2, <2>3 DEF IInv, FileUntouched, NothingLoadedYet, WantedIsLoaded
<1>b. ASSUME UNCHANGED run, UNCHANGED <<set, isLoaded>>,
             phase \in {"check", "select", "selected"},
             phase' \in {"select", "selected", "options"}
      PROVE  IInv'
  <2>1. Types'
    BY <1>0, <1>b DEF Types, Members, hashset_contains
  <2> QED BY <1>0, <1>b, <2>1 DEF IInv, FileUntouched, NothingLoadedYet, WantedIsLoaded, SessionKeepsFile
<1>1. CASE Start
  <2>1. Types'
    <3>1. set' = hashset_init /\ isLoaded' = FALSE
      BY <1>1 DEF Start
    <3> QED BY <1>0, <1>1, <3>1, InitSet DEF Start, Types
  <2> QED BY <1>1, <2>1 DEF Start, IInv, FileUntouched, NothingLoadedYet, WantedIsLoaded, SessionKeepsFile
<1>2. CASE Check
  <2>1. phase = "check" /\ phase' \in {"options", "select", "off"}
    BY <1>2 DEF Check
  <2>2. UNCHANGED run /\ UNCHANGED <<set, isLoaded>>
    BY <1>2 DEF Check
  <2> HIDE DEF run
  <2> QED BY <1>a, <1>b, <2>1, <2>2
<1>3. CASE Select
  <2>1. phase = "select" /\ phase' = "selected"
    BY <1>3 DEF Select
  <2>2. UNCHANGED run /\ UNCHANGED <<set, isLoaded>>
    BY <1>3 DEF Select
  <2> HIDE DEF run
  <2> QED BY <1>b, <2>1, <2>2
<1>4. CASE Decide
  <2>1. phase = "selected" /\ phase' \in {"select", "options", "off"}
    BY <1>4 DEF Decide
  <2>2. UNCHANGED run /\ UNCHANGED <<set, isLoaded>>
    BY <1>4 DEF Decide
  <2> HIDE DEF run
  <2> QED BY <1>a, <1>b, <2>1, <2>2
<1>5. CASE GetOpt
  <2>1. /\ phase = "options" /\ UNCHANGED run
        /\ file = before /\ set = hashset_init /\ ~isLoaded /\ ~killed
    BY <1>0, <1>5 DEF GetOpt, FileUntouched, NothingLoadedYet
  <2>2. CASE option = "show-blacklist"
    <3>1. LoadBlacklist /\ phase' = "exit"
      BY <1>5, <2>2 DEF GetOpt, Going
    <3>2. /\ set' \in HashSets /\ isLoaded' \in BOOLEAN
          /\ Members(set') = Wanted
          /\ isLoaded' => ToSet(Default) \subseteq Members(set')
      BY <1>0, <2>1, <3>1, Loaded
    <3>3. Members(set)' = Wanted'
      BY <2>1, <3>2 DEF Wanted, Members, hashset_contains
    <3>4. Types'
      BY <1>0, <2>1, <3>1, <3>2 DEF Types, Members, hashset_contains
    <3> QED BY <2>1, <3>1, <3>3, <3>4 DEF IInv, FileUntouched, NothingLoadedYet, WantedIsLoaded,
                                           SessionKeepsFile
  <2>3. CASE option # "show-blacklist"
    <3>1. UNCHANGED <<set, isLoaded>> /\ phase' = IF option \in Going THEN "load" ELSE "exit"
      BY <1>5, <2>3 DEF GetOpt
    <3>2. Types'
      BY <1>0, <2>1, <3>1 DEF Types, Members, hashset_contains
    <3>3. option \notin Going => option \in Exiting
      BY <1>0, <2>3 DEF Types, Option
    <3> QED BY <2>1, <3>1, <3>2, <3>3 DEF IInv, FileUntouched, NothingLoadedYet, WantedIsLoaded,
                                           SessionKeepsFile
  <2> QED BY <2>2, <2>3
<1>6. CASE LoadAndRun
  <2>1. /\ phase = "load" /\ phase' = "loop" /\ UNCHANGED run /\ LoadBlacklist
        /\ file = before /\ set = hashset_init /\ ~isLoaded /\ ~killed /\ option \in Going
    BY <1>0, <1>6 DEF LoadAndRun, FileUntouched, NothingLoadedYet
  <2>2. /\ set' \in HashSets /\ isLoaded' \in BOOLEAN
        /\ Members(set') = Wanted
        /\ isLoaded' => ToSet(Default) \subseteq Members(set')
    BY <1>0, <2>1, Loaded
  <2>3. Members(set)' = Wanted'
    BY <2>1, <2>2 DEF Wanted, Members, hashset_contains
  <2>4. Types'
    BY <1>0, <2>1, <2>2 DEF Types, Members, hashset_contains
  <2> QED BY <2>1, <2>3, <2>4 DEF IInv, FileUntouched, NothingLoadedYet, WantedIsLoaded,
                                   SessionKeepsFile
<1>7. CASE Leave
  <2>1. phase = "loop" /\ phase' = "exit" /\ UNCHANGED run /\ UNCHANGED <<set, isLoaded>>
    BY <1>7 DEF Leave
  <2>2. Types'
    BY <1>0, <2>1 DEF Types, Members, hashset_contains
  <2>3. Members(set)' = Members(set) /\ Wanted' = Wanted
    BY <2>1 DEF Wanted, Members, hashset_contains
  <2> QED BY <1>0, <2>1, <2>2, <2>3 DEF IInv, FileUntouched, NothingLoadedYet, WantedIsLoaded,
                                   SessionKeepsFile
<1>8. CASE Destroy
  <2>1. phase = "exit" /\ UNCHANGED <<before, killed, option, useFile, set, isLoaded>>
    BY <1>8 DEF Destroy
  <2>2. CASE Saves
    <3>1. phase' = "saving" /\ file' = [lines |-> <<>>, partial |-> FALSE] /\ useFile
      BY <1>8, <2>2 DEF Destroy, Saves
    <3>2. file' \in Files
      <4>1. <<>> \in Seq(Command)
        OBVIOUS
      <4> QED BY <3>1, <4>1 DEF Files
    <3>3. Types'
      BY <1>0, <2>1, <3>1, <3>2 DEF Types, Members, hashset_contains
    <3>4. Members(set)' = Members(set) /\ Wanted' = Wanted
      BY <2>1 DEF Wanted, Members, hashset_contains
    <3> QED BY <1>0, <2>1, <3>1, <3>3, <3>4 DEF IInv, FileUntouched, NothingLoadedYet, WantedIsLoaded,
                                   SessionKeepsFile
  <2>3. CASE ~Saves
    <3>1. phase' = "off" /\ UNCHANGED run
      BY <1>8, <2>3, <2>1 DEF Destroy
    <3> HIDE DEF run
    <3> QED BY <1>a, <2>1, <3>1
  <2> QED BY <2>2, <2>3
<1>9. CASE Save
  <2> DEFINE keys == hashset_keys(set)
  <2>1. /\ phase = "saving" /\ phase' = "off" /\ file' = [lines |-> keys, partial |-> FALSE]
        /\ UNCHANGED <<before, killed, option, useFile, set, isLoaded>> /\ useFile
    BY <1>0, <1>9 DEF Save, FileUntouched
  <2>2. keys \in Seq(Command) /\ ToSet(keys) = Members(set)
    BY <1>0, KeysProperties DEF Types, Command
  <2> HIDE DEF keys
  <2>3. file' \in Files
    BY <2>1, <2>2 DEF Files
  <2>4. Types'
    BY <1>0, <2>1, <2>3 DEF Types, Members, hashset_contains
  <2>5. SessionKeepsFile'
    <3>1. Listed(file') = keys
      BY <2>1 DEF Listed
    <3>2. option \notin Exiting => ToSet(keys) = Wanted
      BY <1>0, <2>1, <2>2 DEF WantedIsLoaded
    <3> QED BY <2>1, <3>1, <3>2 DEF SessionKeepsFile, Wanted, Listed
  <2> QED BY <2>1, <2>4, <2>5 DEF IInv, FileUntouched, NothingLoadedYet, WantedIsLoaded
<1>10. CASE Kill
  <2>1. CASE phase = "saving"
    <3> DEFINE keys == hashset_keys(set)
    <3>1. /\ phase' = "off" /\ killed' = TRUE
          /\ UNCHANGED <<before, option, useFile, set, isLoaded>>
      BY <1>10, <2>1 DEF Kill
    <3>2. PICK n \in 0 .. set.currentSize, partial \in BOOLEAN :
              (partial => n > 0) /\ file' = [lines |-> SubSeq(keys, 1, n), partial |-> partial]
      BY <1>10, <2>1 DEF Kill
    <3>3. keys \in Seq(Command) /\ Len(keys) = set.currentSize
      BY <1>0, KeysProperties DEF Types, Command
    <3> HIDE DEF keys
    <3>4. SubSeq(keys, 1, n) \in Seq(Command) /\ (n > 0 => SubSeq(keys, 1, n) # <<>>)
      <4>1. n \in 0 .. Len(keys)
        BY <3>2, <3>3
      <4>2. SubSeq(keys, 1, n) \in Seq(Command) /\ Len(SubSeq(keys, 1, n)) = n
        BY <3>3, <4>1
      <4> QED BY <4>1, <4>2
    <3>5. file' \in Files
      BY <3>2, <3>4 DEF Files
    <3>6. Types'
      BY <1>0, <3>1, <3>5 DEF Types, Members, hashset_contains
    <3> QED BY <3>1, <3>6 DEF IInv, FileUntouched, NothingLoadedYet, WantedIsLoaded, SessionKeepsFile
  <2>2. CASE phase # "saving"
    <3>1. phase # "off" /\ phase' = "off" /\ killed' = FALSE
          /\ UNCHANGED <<file, before, option, useFile, set, isLoaded>>
      BY <1>10, <2>2 DEF Kill
    <3>2. killed = FALSE
      BY <1>0, <2>2, <3>1 DEF FileUntouched, Types
    <3>3. UNCHANGED run
      BY <3>1, <3>2
    <3> HIDE DEF run
    <3> QED BY <1>a, <2>2, <3>1, <3>3
  <2> QED BY <2>1, <2>2
<1>11. CASE UNCHANGED vars
  BY <1>0, <1>11 DEF vars, asked, IInv, Types, FileUntouched, NothingLoadedYet, WantedIsLoaded, SessionKeepsFile,
       Members, hashset_contains, Wanted, Listed
<1> QED BY <1>1, <1>2, <1>3, <1>4, <1>5, <1>6, <1>7, <1>8, <1>9, <1>10, <1>11 DEF Next

\* The invariant holds in every state of every run (hstr_main, hstr_getopt, hstr_exit).
THEOREM Invariant == Spec => []IInv
<1>1. Init => IInv
  BY InitInvariant
<1>2. IInv /\ [Next]_vars => IInv'
  BY StepInvariant
<1> QED BY <1>1, <1>2, PTL DEF Spec

\* The types hold, and the set is well formed whatever the file repeats (hashset_add).
THEOREM TypeCorrect == Spec => []TypeOK
<1>1. IInv => TypeOK
  <2> SUFFICES ASSUME Types PROVE TypeOK
    BY DEF IInv
  <2>1. file.lines \in Seq(Command) /\ WellFormed(set)
    BY SetIsRecord DEF Types, Files
  <2>2. isLoaded => \A command \in ToSet(Default) : hashset_contains(set, command)
    BY DEF Types, Members
  <2> QED BY <2>1, <2>2 DEF Types, TypeOK
<1> QED BY <1>1, Invariant, PTL

\* The history is indexed with the blacklist the configuration asks for (blacklist_load).
THEOREM BlacklistIsApplied == Spec => []Applied
<1>1. IInv => Applied
  <2> SUFFICES ASSUME WantedIsLoaded, phase = "loop", NEW command \in Command
               PROVE  hashset_contains(set, command) <=>
                          command \in ToSet(IF useFile /\ before # NULL THEN Listed(before) ELSE Default)
    BY DEF IInv, Applied
  <2> QED BY DEF WantedIsLoaded, Wanted, Members, Command
<1> QED BY <1>1, Invariant, PTL

\* A run that indexed the history writes back what the file had, and one that is not
\* configured to use the file does not touch it (blacklist_destroy).
THEOREM SessionKeepsTheFile == Spec => []SessionKeepsFile
<1>1. IInv => SessionKeepsFile
  BY DEF IInv
<1> QED BY <1>1, Invariant, PTL
=============================================================================
