--------------------------- MODULE RadixSortProofs ---------------------------
(***************************************************************************)
(* Proofs that the radix sorter keeps its books and that its dump is a     *)
(* complete, ordered listing, for every slot size, limit, set of keys and  *)
(* finite set of items, and that it implements RankedList.                 *)
(***************************************************************************)
EXTENDS RankedSorter, OperatorProofs

-----------------------------------------------------------------------------
(* Division of keys into indexes.                                          *)

\* The two indexes of a key are in range and determine it.
LEMMA IndexesOfKey ==
    ASSUME NEW k \in Nat
    PROVE  /\ Top(k) \in Nat /\ Low(k) \in Lows
           /\ k = SlotSize * Top(k) + Low(k)
BY SlotSizeAssumption DEF Top, Low, Lows

\* Keys are ordered by their top index, then by their low index.
LEMMA IndexesOrderKeys ==
    ASSUME NEW j \in Nat, NEW k \in Nat
    PROVE  /\ j <= k => Top(j) <= Top(k)
           /\ Top(j) = Top(k) => (j <= k <=> Low(j) <= Low(k))
           /\ Top(j) < Top(k) => j < k
           /\ Top(j) = Top(k) /\ Low(j) = Low(k) => j = k
<1>1. j <= k => Top(j) <= Top(k)
  BY SlotSizeAssumption DEF Top
<1>2. Top(j) = Top(k) => (j <= k <=> Low(j) <= Low(k))
  BY IndexesOfKey, SlotSizeAssumption DEF Lows
<1>3. Top(j) < Top(k) => j < k
  <2>1. k <= j => Top(k) <= Top(j)
    BY SlotSizeAssumption DEF Top
  <2> QED  BY <2>1, IndexesOfKey
<1>4. Top(j) = Top(k) /\ Low(j) = Low(k) => j = k
  BY IndexesOfKey
<1> QED  BY <1>1, <1>2, <1>3, <1>4

\* There is at least one slot, and a floored key has its own.
LEMMA SlotsExist ==
    /\ Top(KeyLimit) \in Nat \ {0}
    /\ 0 \in Tops /\ Top(0) = 0
    /\ \A k \in Nat : Top(k) \in Tops <=> Top(k) < Top(KeyLimit)
BY SlotSizeAssumption, KeyLimitAssumption, IndexesOfKey DEF Top, Tops

-----------------------------------------------------------------------------
(* Chains.                                                                 *)

\* Linking an item at the head of a chain that does not hold it.
LEMMA LinkedChain ==
    ASSUME NEW chain \in Seq(Item), IsInjective(chain),
           NEW i \in Item, i \notin ToSet(chain)
    PROVE  /\ Linked(chain, i) \in Seq(Item)
           /\ IsInjective(Linked(chain, i))
           /\ ToSet(Linked(chain, i)) = ToSet(chain) \cup {i}
<1> DEFINE s == Linked(chain, i)
<1>1. /\ s \in Seq(Item) /\ Len(s) = Len(chain) + 1
      /\ \A n \in 1 .. Len(chain) + 1 : s[n] = IF n = 1 THEN i ELSE chain[n - 1]
  BY DEF Linked
<1>2. DOMAIN s = 1 .. Len(chain) + 1 /\ DOMAIN chain = 1 .. Len(chain)
  BY <1>1, LenProperties
<1> HIDE DEF s
<1>3. IsInjective(s)
  <2> SUFFICES ASSUME NEW m \in DOMAIN s, NEW n \in DOMAIN s, m < n
               PROVE  s[m] # s[n]
    BY <1>2, LenProperties DEF IsInjective
  <2>1. Len(chain) \in Nat
    BY LenProperties
  <2>2. s[n] = chain[n - 1] /\ n - 1 \in DOMAIN chain
    BY <2>1, <1>1, <1>2
  <2>3. CASE m = 1
    BY <2>2, <2>3, <1>1, <1>2 DEF ToSet
  <2>4. CASE m > 1
    BY <2>1, <2>2, <2>4, <1>1, <1>2 DEF IsInjective
  <2> QED  BY <2>3, <2>4, <1>2
<1>4. ToSet(s) \subseteq ToSet(chain) \cup {i}
  BY <1>1, <1>2, LenProperties DEF ToSet
<1>5. ToSet(chain) \cup {i} \subseteq ToSet(s)
  <2>1. s[1] = i /\ 1 \in DOMAIN s
    BY <1>1, <1>2, LenProperties
  <2>2. ASSUME NEW n \in DOMAIN chain
        PROVE  chain[n] = s[n + 1] /\ n + 1 \in DOMAIN s
    BY <1>1, <1>2, LenProperties
  <2> QED  BY <2>1, <2>2 DEF ToSet
<1> QED  BY <1>1, <1>3, <1>4, <1>5 DEF s

\* RemoveAt keeps the items before the position and moves down the others.
LEMMA RemovedAt ==
    ASSUME NEW chain \in Seq(Item), NEW p \in 1 .. Len(chain)
    PROVE  /\ RemoveAt(chain, p) \in Seq(Item)
           /\ Len(RemoveAt(chain, p)) = Len(chain) - 1
           /\ \A n \in 1 .. Len(chain) - 1 :
                 RemoveAt(chain, p)[n] = IF n < p THEN chain[n] ELSE chain[n + 1]
<1> DEFINE u == SubSeq(chain, 1, p - 1)
           v == SubSeq(chain, p + 1, Len(chain))
           w == RemoveAt(chain, p)
<1>1. Len(chain) \in Nat /\ p \in Nat /\ 1 <= p /\ p <= Len(chain)
  BY LenProperties
<1>2. \A n \in 1 .. Len(chain) : chain[n] \in Item
  BY LenProperties
<1>3. /\ u \in Seq(Item) /\ Len(u) = p - 1
      /\ \A n \in 1 .. p - 1 : u[n] = chain[n]
  BY <1>1, <1>2
<1>4. /\ v \in Seq(Item)
      /\ Len(v) = IF p + 1 <= Len(chain) THEN Len(chain) - (p + 1) + 1 ELSE 0
      /\ \A n \in 1 .. Len(chain) - (p + 1) + 1 : v[n] = chain[(p + 1) + n - 1]
  BY <1>1, <1>2, SubSeqProperties
<1>5. /\ w \in Seq(Item) /\ Len(w) = Len(u) + Len(v)
      /\ \A n \in 1 .. Len(u) + Len(v) :
            w[n] = IF n <= Len(u) THEN u[n] ELSE v[n - Len(u)]
  BY <1>3, <1>4, ConcatProperties DEF RemoveAt
<1> HIDE DEF u, v, w
<1>6. Len(v) = Len(chain) - p
  BY <1>1, <1>4
<1>7. Len(w) = Len(chain) - 1
  BY <1>1, <1>3, <1>5, <1>6
<1>8. ASSUME NEW n \in 1 .. Len(chain) - 1
      PROVE  w[n] = IF n < p THEN chain[n] ELSE chain[n + 1]
  <2>1. n \in Nat /\ 1 <= n /\ n <= Len(chain) - 1 /\ n \in 1 .. Len(u) + Len(v)
    BY <1>1, <1>3, <1>6
  <2>2. CASE n < p
    BY <2>1, <2>2, <1>1, <1>3, <1>5
  <2>3. CASE ~(n < p)
    <3>1. w[n] = v[n - (p - 1)]
      BY <2>1, <2>3, <1>1, <1>3, <1>5
    <3> DEFINE m == n - (p - 1)
    <3>2. m \in 1 .. Len(chain) - (p + 1) + 1 /\ (p + 1) + m - 1 = n + 1
      BY <2>1, <2>3, <1>1
    <3>3. v[m] = chain[(p + 1) + m - 1]
      BY <3>2, <1>4
    <3> QED  BY <2>3, <3>1, <3>2, <3>3
  <2> QED  BY <2>2, <2>3
<1> QED  BY <1>5, <1>7, <1>8 DEF w

\* Unlinking an item from a chain that holds it once.
LEMMA UnlinkedChain ==
    ASSUME NEW chain \in Seq(Item), IsInjective(chain),
           NEW i \in ToSet(chain)
    PROVE  /\ Unlinked(chain, i) \in Seq(Item)
           /\ IsInjective(Unlinked(chain, i))
           /\ ToSet(Unlinked(chain, i)) = ToSet(chain) \ {i}
<1> DEFINE p == CHOOSE n \in DOMAIN chain : chain[n] = i
           s == Unlinked(chain, i)
<1>1. p \in 1 .. Len(chain) /\ chain[p] = i /\ DOMAIN chain = 1 .. Len(chain)
      /\ Len(chain) \in Nat
  BY LenProperties DEF ToSet
<1>2. s = RemoveAt(chain, p)
  BY DEF Unlinked
<1> HIDE DEF p
<1>6. /\ s \in Seq(Item) /\ Len(s) = Len(chain) - 1
      /\ \A n \in 1 .. Len(chain) - 1 :
            s[n] = IF n < p THEN chain[n] ELSE chain[n + 1]
  BY <1>1, <1>2, RemovedAt
<1>7. DOMAIN s = 1 .. Len(chain) - 1
  BY <1>6, LenProperties
<1> HIDE DEF s
<1>8. IsInjective(s)
  <2> SUFFICES ASSUME NEW m \in DOMAIN s, NEW n \in DOMAIN s, s[m] = s[n]
               PROVE  m = n
    BY DEF IsInjective
  <2> QED  BY <1>1, <1>6, <1>7 DEF IsInjective
<1>9. ToSet(s) \subseteq ToSet(chain) \ {i}
  <2> SUFFICES ASSUME NEW n \in DOMAIN s
               PROVE  \E m \in DOMAIN chain : m # p /\ s[n] = chain[m]
    BY <1>1 DEF ToSet, IsInjective
  <2>1. CASE n < p
    BY <2>1, <1>1, <1>6, <1>7
  <2>2. CASE ~(n < p)
    <3>1. s[n] = chain[n + 1] /\ n + 1 \in DOMAIN chain /\ n + 1 # p
      BY <2>2, <1>1, <1>6, <1>7
    <3> QED  BY <3>1
  <2> QED  BY <2>1, <2>2
<1>10. ToSet(chain) \ {i} \subseteq ToSet(s)
  <2> SUFFICES ASSUME NEW n \in DOMAIN chain, chain[n] # i
               PROVE  chain[n] \in ToSet(s)
    BY DEF ToSet
  <2>1. CASE n < p
    BY <2>1, <1>1, <1>6, <1>7 DEF ToSet
  <2>2. CASE n > p
    <3>1. n - 1 \in DOMAIN s /\ s[n - 1] = chain[n]
      BY <2>2, <1>1, <1>6, <1>7
    <3> QED  BY <3>1 DEF ToSet
  <2> QED  BY <2>1, <2>2, <1>1
<1> QED  BY <1>6, <1>8, <1>9, <1>10 DEF s

\* Appending a chain to a listing that shares no item with it.
LEMMA CopiedChain ==
    ASSUME NEW r \in Seq(Item), IsInjective(r),
           NEW chain \in Seq(Item), IsInjective(chain),
           ToSet(r) \cap ToSet(chain) = {}
    PROVE  /\ r \o chain \in Seq(Item)
           /\ IsInjective(r \o chain)
           /\ ToSet(r \o chain) = ToSet(r) \cup ToSet(chain)
<1> DEFINE s == r \o chain
<1>1. /\ s \in Seq(Item) /\ Len(s) = Len(r) + Len(chain)
      /\ \A n \in 1 .. Len(r) + Len(chain) :
            s[n] = IF n <= Len(r) THEN r[n] ELSE chain[n - Len(r)]
  BY ConcatProperties
<1>2. /\ DOMAIN s = 1 .. Len(r) + Len(chain) /\ DOMAIN r = 1 .. Len(r)
      /\ DOMAIN chain = 1 .. Len(chain) /\ Len(r) \in Nat /\ Len(chain) \in Nat
  BY <1>1, LenProperties
<1> HIDE DEF s
<1>3. IsInjective(s)
  <2> SUFFICES ASSUME NEW m \in DOMAIN s, NEW n \in DOMAIN s, m < n
               PROVE  s[m] # s[n]
    BY <1>2 DEF IsInjective
  <2>1. CASE n <= Len(r)
    BY <2>1, <1>1, <1>2 DEF IsInjective
  <2>2. CASE m > Len(r)
    <3>1. /\ s[m] = chain[m - Len(r)] /\ m - Len(r) \in DOMAIN chain
          /\ s[n] = chain[n - Len(r)] /\ n - Len(r) \in DOMAIN chain
          /\ m - Len(r) # n - Len(r)
      BY <2>2, <1>1, <1>2
    <3> QED  BY <3>1 DEF IsInjective
  <2>3. CASE m <= Len(r) /\ n > Len(r)
    <3>1. s[m] = r[m] /\ m \in DOMAIN r
          /\ s[n] = chain[n - Len(r)] /\ n - Len(r) \in DOMAIN chain
      BY <2>3, <1>1, <1>2
    <3> QED  BY <3>1 DEF ToSet
  <2> QED  BY <2>1, <2>2, <2>3, <1>2
<1>4. ToSet(s) \subseteq ToSet(r) \cup ToSet(chain)
  <2> SUFFICES ASSUME NEW n \in DOMAIN s
               PROVE  s[n] \in ToSet(r) \cup ToSet(chain)
    BY DEF ToSet
  <2>1. CASE n <= Len(r)
    BY <2>1, <1>1, <1>2 DEF ToSet
  <2>2. CASE n > Len(r)
    <3>1. s[n] = chain[n - Len(r)] /\ n - Len(r) \in DOMAIN chain
      BY <2>2, <1>1, <1>2
    <3> QED  BY <3>1 DEF ToSet
  <2> QED  BY <2>1, <2>2, <1>2
<1>5. ToSet(r) \cup ToSet(chain) \subseteq ToSet(s)
  <2>1. ASSUME NEW n \in DOMAIN r  PROVE r[n] \in ToSet(s)
    BY <1>1, <1>2 DEF ToSet
  <2>2. ASSUME NEW n \in DOMAIN chain  PROVE chain[n] \in ToSet(s)
    <3>1. n + Len(r) \in DOMAIN s /\ s[n + Len(r)] = chain[n]
      BY <1>1, <1>2
    <3> QED  BY <3>1 DEF ToSet
  <2> QED  BY <2>1, <2>2 DEF ToSet
<1> QED  BY <1>1, <1>3, <1>4, <1>5 DEF s

\* A chain has as many positions as items.
LEMMA LengthOfChain ==
    ASSUME NEW s \in Seq(Item), IsInjective(s)
    PROVE  IsFiniteSet(ToSet(s)) /\ Cardinality(ToSet(s)) = Len(s)
<1>1. Len(s) \in Nat /\ DOMAIN s = 1 .. Len(s)
  BY LenProperties
<1>2. s \in Bijection(1 .. Len(s), ToSet(s))
  BY <1>1, LenProperties DEF Bijection, Injection, Surjection, ToSet, IsInjective
<1>3. ExistsBijection(1 .. Len(s), ToSet(s))
  BY <1>2 DEF ExistsBijection
<1>4. IsFiniteSet(1 .. Len(s)) /\ Cardinality(1 .. Len(s)) = Len(s)
  BY <1>1, FS_Interval
<1> QED  BY <1>3, <1>4, FS_Bijection

-----------------------------------------------------------------------------
(* Where an item is.                                                       *)

\* A chain holds exactly the filed items with its indexes.
LEMMA ItemsOfChain ==
    ASSUME TypeOK, ChainsWellFormed, NEW a \in Tops, NEW b \in Lows
    PROVE  ToSet(topDigits[a][b]) =
               {i \in Filed : Top(key[i]) = a /\ Low(key[i]) = b}
<1>1. topDigits[a][b] \in Seq(Item)
  BY DEF TypeOK
<1>2. ToSet(topDigits[a][b]) \subseteq Item
  BY <1>1, LenProperties DEF ToSet
<1> QED  BY <1>2 DEF ChainsWellFormed, Filed, Chain

\* A filed item has a key with a slot, and a low index.
LEMMA IndexesOfItem ==
    ASSUME TypeOK, NEW i \in Filed
    PROVE  i \in Item /\ key[i] \in Nat /\ Top(key[i]) \in Tops /\ Low(key[i]) \in Lows
BY IndexesOfKey DEF TypeOK, Filed

\* The sets of items that are counted are finite.
LEMMA FiniteItems ==
    /\ IsFiniteSet(Filed)
    /\ \A a : IsFiniteSet(InSlot(a))
    /\ \A a, b : IsFiniteSet({i \in InSlot(a) : Low(key[i]) > b})
<1>1. Filed \subseteq Item /\ (\A a : InSlot(a) \subseteq Item)
      /\ \A a, b : {i \in InSlot(a) : Low(key[i]) > b} \subseteq Item
  BY DEF Filed, InSlot
<1> QED  BY <1>1, ItemAssumption, FS_Subset

\* A caller may set the key of an item that is not filed.
LEMMA KeyOfUnfiled ==
    ASSUME TypeOK, ChainsWellFormed, NEW i \in Item \ Filed, NEW k \in Nat,
           key' = [key EXCEPT ![i] = k], UNCHANGED topDigits
    PROVE  /\ Filed' = Filed
           /\ \A j \in Filed : key'[j] = key[j]
           /\ \A a : InSlot(a)' = InSlot(a)
           /\ ChainsWellFormed'
<1>1. \A a \in Tops, b \in Lows : i \notin ToSet(topDigits[a][b])
  BY ItemsOfChain
<1>2. key' \in [Item -> Nat] /\ (\A j \in Item : j # i => key'[j] = key[j]) /\ key'[i] = k
  BY DEF TypeOK
<1>3. Filed' = Filed
  <2>1. i \notin Filed'
    BY <1>1, <1>2, IndexesOfKey DEF Filed, Chain
  <2> QED  BY <2>1, <1>2 DEF Filed, Chain
<1>4. \A j \in Filed : key'[j] = key[j]
  BY <1>2 DEF Filed
<1>5. \A a : InSlot(a)' = InSlot(a)
  BY <1>3, <1>4 DEF InSlot
<1>6. ChainsWellFormed'
  <2> SUFFICES ASSUME NEW a \in Tops, NEW b \in Lows, NEW j \in ToSet(topDigits[a][b])
               PROVE  key'[j] = key[j]
    BY DEF ChainsWellFormed
  <2> QED  BY ItemsOfChain, <1>4
<1> QED  BY <1>3, <1>4, <1>5, <1>6

\* While callers use the sorter, nothing has been copied.
LEMMA OpenCopiesNothing ==
    ASSUME TypeOK, DumpProgress, pc = "open"
    PROVE  result = <<>>
<1>1. ToSet(result) = {}
  BY DEF DumpProgress, Copied
<1>2. result \in Seq(Item)
  BY DEF TypeOK
<1>3. Len(result) = 0
  <2>1. Len(result) \in Nat /\ DOMAIN result = 1 .. Len(result)
    BY <1>2, LenProperties
  <2>2. DOMAIN result = {}
    BY <1>1 DEF ToSet
  <2> QED  BY <2>1, <2>2
<1> QED  BY <1>2, <1>3, EmptySeq

\* A call of the caller leaves the dump that has not begun as it is.
LEMMA OpenStaysOpen ==
    ASSUME TypeOK, DumpProgress, pc = "open", UNCHANGED dumpVars
    PROVE  DumpProgress' /\ DumpOrdered'
<1>1. result = <<>> /\ result' = <<>> /\ pc' = "open"
  BY OpenCopiesNothing DEF dumpVars
<1> QED  BY <1>1 DEF DumpProgress, Copied, DumpOrdered, ToSet, IsInjective

-----------------------------------------------------------------------------
(* The callers' operations.                                                *)

\* radixsort_add that skips the item or exits.
LEMMA AddRefusedPreserves ==
    ASSUME IInv, NEW i \in Item, NEW k \in Keys, AddRefused(i, k)
    PROVE  IInv'
<1> USE DEF IInv
<1>1. /\ i \notin Filed /\ pc = "open" /\ k \in Nat
      /\ key' = [key EXCEPT ![i] = k] /\ UNCHANGED topDigits
  BY KeysAssumption DEF AddRefused, Running, SetKey
<1>2. /\ Filed' = Filed /\ (\A j \in Filed : key'[j] = key[j])
      /\ (\A a : InSlot(a)' = InSlot(a)) /\ ChainsWellFormed'
  BY <1>1, KeyOfUnfiled
<1>3. TypeOK'
  BY <1>1 DEF AddRefused, TypeOK, dumpVars
<1>4. UNCHANGED <<slots, descriptors, size, maxKey>>
  BY DEF AddRefused
<1>5. SizesExact'
  BY <1>2, <1>4 DEF SizesExact
<1>6. BoundsCoverItems'
  BY <1>2, <1>4 DEF BoundsCoverItems
<1>7. DumpProgress' /\ DumpOrdered'
  BY <1>1, OpenStaysOpen DEF AddRefused
<1> QED  BY <1>2, <1>3, <1>5, <1>6, <1>7

\* The key an item is filed under is a number.
LEMMA FiledKeyType ==
    ASSUME NEW k \in Keys
    PROVE  FiledKey(k) \in Nat
BY KeysAssumption, KeyLimitAssumption, SlotSizeAssumption DEF FiledKey

\* radixsort_add of a key topDigits has no slot for.
LEMMA OverrunPreserves ==
    ASSUME IInv, NEW i \in Item, NEW k \in Keys, AddFiled(i, k),
           Top(FiledKey(k)) \notin Tops
    PROVE  IInv'
<1> USE DEF IInv
<1>1. /\ i \notin Filed /\ pc = "open" /\ FiledKey(k) \in Nat
      /\ key' = [key EXCEPT ![i] = FiledKey(k)] /\ fault' = "overrun"
      /\ UNCHANGED <<optionBigKeys, topDigits, slots, descriptors, size, maxKey, dumpVars>>
  BY FiledKeyType DEF AddFiled, File, Running, SetKey
<1>2. /\ Filed' = Filed /\ (\A j \in Filed : key'[j] = key[j])
      /\ (\A a : InSlot(a)' = InSlot(a)) /\ ChainsWellFormed'
  BY <1>1, KeyOfUnfiled
<1>3. TypeOK'
  BY <1>1 DEF TypeOK, dumpVars
<1>4. SizesExact'
  BY <1>1, <1>2 DEF SizesExact
<1>5. BoundsCoverItems'
  BY <1>1, <1>2 DEF BoundsCoverItems
<1>6. DumpProgress' /\ DumpOrdered'
  BY <1>1, OpenStaysOpen
<1> QED  BY <1>2, <1>3, <1>4, <1>5, <1>6

\* What radixsort_add files, and which chain it changes.
LEMMA ItemLinked ==
    ASSUME IInv, NEW i \in Item, NEW k \in Keys, AddFiled(i, k),
           NEW q \in Nat, q = FiledKey(k), Top(q) \in Tops
    PROVE  /\ i \notin Filed /\ Filed' = Filed \cup {i}
           /\ key' = [key EXCEPT ![i] = q]
           /\ fault' = fault
           /\ \A j \in Nat : Top(j) \in Tops =>
                 topDigits'[Top(j)][Low(j)] =
                     IF j = q THEN Linked(Chain(j), i) ELSE Chain(j)
<1> USE DEF IInv
<1> DEFINE a == Top(q)
           b == Low(q)
<1>1. /\ i \notin Filed /\ key' = [key EXCEPT ![i] = q] /\ fault' = fault
      /\ topDigits' = [topDigits EXCEPT ![a][b] = Linked(@, i)]
  BY DEF AddFiled, File, SetKey
<1>2. q \in Nat /\ a \in Tops /\ b \in Lows
  BY IndexesOfKey
<1> HIDE DEF a, b
<1>3. i \notin ToSet(topDigits[a][b])
  BY <1>1, <1>2, ItemsOfChain
<1>4. /\ topDigits[a][b] \in Seq(Item) /\ IsInjective(topDigits[a][b])
      /\ topDigits'[a][b] = Linked(topDigits[a][b], i)
      /\ \A c1 \in Tops, c2 \in Lows :
            c1 # a \/ c2 # b => topDigits'[c1][c2] = topDigits[c1][c2]
  BY <1>1, <1>2 DEF TypeOK, ChainsWellFormed
<1>5. ToSet(topDigits'[a][b]) = ToSet(topDigits[a][b]) \cup {i}
  BY <1>3, <1>4, LinkedChain
<1>6. key'[i] = q /\ \A j \in Item : j # i => key'[j] = key[j]
  BY <1>1, <1>2 DEF TypeOK
<1>7. Filed' = Filed \cup {i}
  <2>1. i \in Filed'
    BY <1>2, <1>5, <1>6 DEF Filed, Chain, a, b
  <2>2. ASSUME NEW j \in Item, j # i
        PROVE  j \in Filed' <=> j \in Filed
    <3>1. key'[j] = key[j] /\ key[j] \in Nat
      BY <2>2, <1>6 DEF TypeOK
    <3>2. Low(key[j]) \in Lows
      BY <3>1, IndexesOfKey
    <3>3. ASSUME Top(key[j]) \in Tops
          PROVE  j \in ToSet(topDigits'[Top(key[j])][Low(key[j])])
                   <=> j \in ToSet(topDigits[Top(key[j])][Low(key[j])])
      <4>1. CASE Top(key[j]) = a /\ Low(key[j]) = b
        BY <2>2, <4>1, <1>5
      <4>2. CASE Top(key[j]) # a \/ Low(key[j]) # b
        BY <3>2, <3>3, <4>2, <1>4
      <4> QED  BY <4>1, <4>2
    <3> QED  BY <3>1, <3>3 DEF Filed, Chain
  <2> QED  BY <2>1, <2>2 DEF Filed
<1>8. ASSUME NEW j \in Nat, Top(j) \in Tops
      PROVE  topDigits'[Top(j)][Low(j)] =
                 IF j = q THEN Linked(Chain(j), i) ELSE Chain(j)
  <2>1. Low(j) \in Lows
    BY IndexesOfKey
  <2>2. CASE j = q
    BY <2>2, <1>4 DEF Chain, a, b
  <2>3. CASE j # q
    <3>1. Top(j) # a \/ Low(j) # b
      BY <2>3, IndexesOrderKeys DEF a, b
    <3> QED  BY <3>1, <2>1, <2>3, <1>4, <1>8 DEF Chain
  <2> QED  BY <2>2, <2>3
<1> QED  BY <1>1, <1>7, <1>8

\* radixsort_add that links the item.
LEMMA LinkPreserves ==
    ASSUME IInv, NEW i \in Item, NEW k \in Keys, AddFiled(i, k),
           NEW q \in Nat, q = FiledKey(k), Top(q) \in Tops
    PROVE  IInv'
<1> USE DEF IInv
<1> DEFINE a == Top(q)
           b == Low(q)
           d == IF a \in slots THEN descriptors[a] ELSE EmptySlot
<1>1. /\ i \notin Filed /\ pc = "open" /\ fault' = fault
      /\ key' = [key EXCEPT ![i] = q]
      /\ topDigits' = [topDigits EXCEPT ![a][b] = Linked(@, i)]
      /\ slots' = slots \cup {a}
      /\ descriptors' = [descriptors EXCEPT ![a] =
                          [min |-> Smaller(d.min, q), max |-> Larger(d.max, q),
                           size |-> d.size + 1]]
      /\ size' = size + 1 /\ maxKey' = Larger(maxKey, q)
      /\ UNCHANGED <<optionBigKeys, dumpVars>>
  <2>1. /\ i \notin Filed /\ pc = "open" /\ SetKey(i, q) /\ File(i, q)
        /\ UNCHANGED <<optionBigKeys, dumpVars>>
    BY DEF AddFiled, Running
  <2>2. Described(a, q) = [min |-> Smaller(d.min, q), max |-> Larger(d.max, q),
                           size |-> d.size + 1]
    BY DEF Described
  <2>3. /\ topDigits' = [topDigits EXCEPT ![a][b] = Linked(@, i)]
        /\ slots' = slots \cup {a} /\ fault' = fault
        /\ descriptors' = [descriptors EXCEPT ![a] = Described(a, q)]
        /\ size' = size + 1 /\ maxKey' = Larger(maxKey, q)
    BY <2>1 DEF File
  <2> HIDE DEF d, a, b
  <2> QED  BY <2>1, <2>2, <2>3 DEF SetKey
<1>2. q \in Nat /\ a \in Tops /\ b \in Lows
  BY IndexesOfKey
<1> HIDE DEF a, b
<1>3. d \in Descriptors /\ d.size = Cardinality(InSlot(a))
  <2>1. CASE a \in slots
    BY <2>1, <1>2 DEF TypeOK, SizesExact
  <2>2. CASE a \notin slots
    <3>1. InSlot(a) = {}
      BY <2>2 DEF BoundsCoverItems, InSlot
    <3> QED  BY <2>2, <3>1, FS_EmptySet, KeyLimitAssumption DEF EmptySlot, Descriptors
  <2> QED  BY <2>1, <2>2
<1>4. /\ \A j \in InSlot(a) : a \in slots /\ d.min <= key[j] /\ key[j] <= d.max
      /\ InSlot(a) # {} => Top(d.min) = a /\ Top(d.max) = a
      /\ InSlot(a) = {} => d = EmptySlot
  BY <1>2 DEF BoundsCoverItems, SizesExact, InSlot
<1> DEFINE e == descriptors'[a]
<1> HIDE DEF d
<1>5. /\ e = [min |-> Smaller(d.min, q), max |-> Larger(d.max, q), size |-> d.size + 1]
      /\ \A c \in Tops : c # a => descriptors'[c] = descriptors[c]
      /\ descriptors' \in [Tops -> Descriptors]
  <2>1. /\ Smaller(d.min, q) \in Nat /\ Larger(d.max, q) \in Nat
        /\ d.size + 1 \in Nat
    BY <1>3 DEF Descriptors, Smaller, Larger
  <2>2. descriptors \in [Tops -> Descriptors]
    BY DEF TypeOK
  <2> QED  BY <2>1, <2>2, <1>1, <1>2 DEF Descriptors
<1>6. /\ e.min <= d.min /\ e.min <= q /\ e.max >= d.max /\ e.max >= q
      /\ e.min \in {d.min, q} /\ e.max \in {d.max, q} /\ e.size = d.size + 1
      /\ e.min \in Nat /\ e.max \in Nat
  BY <1>2, <1>3, <1>5 DEF Descriptors, Smaller, Larger
<1> HIDE DEF e
<1>7. i \notin ToSet(topDigits[a][b])
  BY <1>1, <1>2, ItemsOfChain
<1>8. /\ topDigits[a][b] \in Seq(Item) /\ IsInjective(topDigits[a][b])
      /\ topDigits' \in [Tops -> [Lows -> Seq(Item)]]
      /\ topDigits'[a][b] = Linked(topDigits[a][b], i)
      /\ \A c1 \in Tops, c2 \in Lows :
            c1 # a \/ c2 # b => topDigits'[c1][c2] = topDigits[c1][c2]
  <2>1. topDigits[a][b] \in Seq(Item) /\ IsInjective(topDigits[a][b])
    BY <1>2 DEF TypeOK, ChainsWellFormed
  <2>2. Linked(topDigits[a][b], i) \in Seq(Item)
    BY <2>1, <1>7, LinkedChain
  <2> QED  BY <2>1, <2>2, <1>1, <1>2 DEF TypeOK
<1>9. /\ IsInjective(topDigits'[a][b])
      /\ ToSet(topDigits'[a][b]) = ToSet(topDigits[a][b]) \cup {i}
  BY <1>7, <1>8, LinkedChain
<1>10. /\ key' \in [Item -> Nat] /\ key'[i] = q
       /\ \A j \in Item : j # i => key'[j] = key[j]
  BY <1>1, <1>2 DEF TypeOK
<1>11. Filed' = Filed \cup {i}
  BY ItemLinked DEF a
<1>12. /\ InSlot(a)' = InSlot(a) \cup {i} /\ i \notin InSlot(a)
       /\ \A c \in Tops : c # a => InSlot(c)' = InSlot(c)
  <2>1. \A j \in Filed : key'[j] = key[j] /\ j # i
    BY <1>1, <1>10 DEF Filed
  <2>2. Top(key'[i]) = a
    BY <1>10 DEF a
  <2>3. \A c : InSlot(c)' = {j \in Filed \cup {i} : Top(key'[j]) = c}
    BY <1>11 DEF InSlot
  <2>4. InSlot(a)' = InSlot(a) \cup {i}
    BY <2>1, <2>2, <2>3 DEF InSlot
  <2>5. ASSUME NEW c \in Tops, c # a  PROVE InSlot(c)' = InSlot(c)
    <3>1. InSlot(c)' = {j \in Filed \cup {i} : Top(key'[j]) = c}
      BY <2>3
    <3>2. ASSUME NEW j \in Filed \cup {i}
          PROVE  Top(key'[j]) = c <=> j \in Filed /\ Top(key[j]) = c
      BY <2>1, <2>2, <2>5
    <3>3. InSlot(c) = {j \in Filed : Top(key[j]) = c}
      BY DEF InSlot
    <3> QED  BY <3>1, <3>2, <3>3
  <2> QED  BY <2>1, <2>4, <2>5 DEF InSlot
<1>13. TypeOK'
  BY <1>1, <1>2, <1>5, <1>8, <1>10 DEF TypeOK, Larger, dumpVars
<1>14. ChainsWellFormed'
  <2> SUFFICES ASSUME NEW c1 \in Tops, NEW c2 \in Lows
               PROVE  /\ IsInjective(topDigits'[c1][c2])
                      /\ \A j \in ToSet(topDigits'[c1][c2]) :
                            Top(key'[j]) = c1 /\ Low(key'[j]) = c2
    BY DEF ChainsWellFormed
  <2>1. \A j \in ToSet(topDigits[c1][c2]) :
            j \in Item /\ j # i /\ Top(key[j]) = c1 /\ Low(key[j]) = c2
    BY ItemsOfChain, <1>1 DEF Filed
  <2>2. CASE c1 = a /\ c2 = b
    BY <2>1, <2>2, <1>9, <1>10 DEF a, b
  <2>3. CASE ~(c1 = a /\ c2 = b)
    BY <2>1, <2>3, <1>8, <1>10 DEF ChainsWellFormed
  <2> QED  BY <2>2, <2>3
<1>15. SizesExact'
  <2>1. size' = Cardinality(Filed')
    BY <1>1, <1>11, FiniteItems, FS_AddElement DEF SizesExact
  <2>2. Top(maxKey') \in Tops
    BY <1>1, <1>2 DEF SizesExact, Larger, a
  <2>3. e.size = Cardinality(InSlot(a)')
    BY <1>3, <1>6, <1>12, FiniteItems, FS_AddElement
  <2>4. Top(e.min) = a /\ Top(e.max) = a
    <3>1. CASE InSlot(a) # {}
      BY <3>1, <1>4, <1>6 DEF a
    <3>2. CASE InSlot(a) = {}
      <4>1. q <= KeyLimit
        BY <1>2, SlotsExist, IndexesOrderKeys, KeyLimitAssumption DEF a
      <4>2. d.min = KeyLimit /\ d.max = 0
        BY <3>2, <1>4 DEF EmptySlot
      <4>3. e.min = q /\ e.max = q
        BY <4>1, <4>2, <1>2, <1>6, KeyLimitAssumption
      <4> QED  BY <4>3 DEF a
    <3> QED  BY <3>1, <3>2
  <2>5. i \in InSlot(a)'
    BY <1>12
  <2>6. ASSUME NEW c \in Tops, c # a
        PROVE  InSlot(c)' = InSlot(c) /\ descriptors'[c] = descriptors[c]
    BY <2>6, <1>5, <1>12
  <2> SUFFICES ASSUME NEW c \in Tops
               PROVE  /\ descriptors'[c].size = Cardinality(InSlot(c)')
                      /\ IF InSlot(c)' = {} THEN descriptors'[c] = EmptySlot
                         ELSE /\ Top(descriptors'[c].min) = c
                              /\ Top(descriptors'[c].max) = c
    BY <2>1, <2>2 DEF SizesExact, EmptySlot
  <2>7. CASE c = a
    BY <2>3, <2>4, <2>5, <2>7 DEF e
  <2>8. CASE c # a
    <3>1. /\ descriptors[c].size = Cardinality(InSlot(c))
          /\ IF InSlot(c) = {} THEN descriptors[c] = EmptySlot
             ELSE Top(descriptors[c].min) = c /\ Top(descriptors[c].max) = c
      BY DEF SizesExact
    <3> QED  BY <3>1, <2>6, <2>8
  <2> QED  BY <2>7, <2>8
<1>16. BoundsCoverItems'
  <2> SUFFICES ASSUME NEW j \in Filed'
               PROVE  /\ key'[j] <= maxKey' /\ Top(key'[j]) \in slots'
                      /\ descriptors'[Top(key'[j])].min <= key'[j]
                      /\ key'[j] <= descriptors'[Top(key'[j])].max
    BY DEF BoundsCoverItems
  <2>1. CASE j = i
    <3>1. key'[j] = q /\ Top(key'[j]) = a
      BY <2>1, <1>10 DEF a
    <3> QED  BY <3>1, <1>1, <1>2, <1>6 DEF Larger, e, TypeOK
  <2>2. CASE j # i
    <3>1. j \in Filed /\ key'[j] = key[j] /\ key[j] \in Nat /\ Top(key[j]) \in Tops
      BY <2>2, <1>10, <1>11, IndexesOfItem DEF Filed
    <3>2. key[j] <= maxKey' /\ Top(key[j]) \in slots'
      BY <3>1, <1>1, <1>2 DEF BoundsCoverItems, Larger, TypeOK
    <3>3. CASE Top(key[j]) = a
      <4>1. d.min <= key[j] /\ key[j] <= d.max
        BY <3>1, <3>3, <1>4 DEF InSlot
      <4> QED  BY <3>1, <3>2, <3>3, <4>1, <1>3, <1>6 DEF e, Descriptors
    <3>4. CASE Top(key[j]) # a
      BY <3>1, <3>2, <3>4, <1>5 DEF BoundsCoverItems
    <3> QED  BY <3>3, <3>4
  <2> QED  BY <2>1, <2>2
<1>17. DumpProgress' /\ DumpOrdered'
  BY <1>1, <1>13, OpenStaysOpen
<1> QED  BY <1>13, <1>14, <1>15, <1>16, <1>17

\* The descriptor of a slot that keeps the items of S once one was cut.
LEMMA DecrementedDescriptor ==
    ASSUME TypeOK, NEW a \in Tops, NEW S \in SUBSET Item,
           NEW slot \in [Lows -> Seq(Item)],
           \A c \in Lows : \A j \in ToSet(slot[c]) :
               j \in S /\ Low(key[j]) = c,
           \A j \in S : Top(key[j]) = a,
           NEW d \in Descriptors, d.size = Cardinality(S) + 1,
           Top(d.min) = a, Top(d.max) = a,
           \A j \in S : d.min <= key[j] /\ key[j] <= d.max
    PROVE  LET e == Decremented(d, slot)
           IN  /\ e \in Descriptors /\ e.size = Cardinality(S)
               /\ IF S = {} THEN e = EmptySlot ELSE Top(e.min) = a /\ Top(e.max) = a
               /\ \A j \in S : e.min <= key[j] /\ key[j] <= e.max
<1> DEFINE e == Decremented(d, slot)
<1>1. IsFiniteSet(S) /\ Cardinality(S) \in Nat /\ (Cardinality(S) = 0 <=> S = {})
  BY ItemAssumption, FS_Subset, FS_CardinalityType, FS_EmptySet
<1>2. d.min \in Nat /\ d.max \in Nat /\ \A j \in S : key[j] \in Nat
  BY DEF Descriptors, TypeOK
<1>3. ASSUME NEW m \in Nat, Top(m) = a, slot[Low(m)] # <<>>, d.size = 2
      PROVE  S # {} /\ \A j \in S : key[j] = m
  <2>1. Low(m) \in Lows /\ slot[Low(m)] \in Seq(Item)
    BY IndexesOfKey
  <2>2. slot[Low(m)][1] \in ToSet(slot[Low(m)])
    BY <2>1, <1>3, EmptySeq, LenProperties DEF ToSet
  <2>3. PICK j \in S : Low(key[j]) = Low(m)
    BY <2>1, <2>2
  <2>4. key[j] = m
    BY <2>3, <1>2, <1>3, IndexesOrderKeys
  <2>5. S = {j}
    <3>1. Cardinality(S) = 1
      BY <1>1, <1>3
    <3> QED  BY <3>1, <1>1, FS_Singleton
  <2> QED  BY <2>4, <2>5
<1>4. CASE d.size = 1
  <2>1. S = {} /\ e = EmptySlot
    BY <1>1, <1>4 DEF Decremented
  <2> QED  BY <2>1, <1>1, KeyLimitAssumption DEF EmptySlot, Descriptors
<1>5. CASE d.size = 2 /\ slot[Low(d.max)] # <<>>
  <2>1. e = [min |-> d.max, max |-> d.max, size |-> 1]
    BY <1>5 DEF Decremented
  <2>2. S # {} /\ \A j \in S : key[j] = d.max
    BY <1>2, <1>3, <1>5
  <2> QED  BY <2>1, <2>2, <1>1, <1>2, <1>5 DEF Descriptors
<1>6. CASE d.size = 2 /\ slot[Low(d.max)] = <<>> /\ slot[Low(d.min)] # <<>>
  <2>1. e = [min |-> d.min, max |-> d.min, size |-> 1]
    BY <1>6 DEF Decremented
  <2>2. S # {} /\ \A j \in S : key[j] = d.min
    BY <1>2, <1>3, <1>6
  <2> QED  BY <2>1, <2>2, <1>1, <1>2, <1>6 DEF Descriptors
<1>7. CASE d.size # 1 /\ (d.size = 2 => slot[Low(d.max)] = <<>> /\ slot[Low(d.min)] = <<>>)
  <2>1. e = [d EXCEPT !.size = @ - 1]
    BY <1>7 DEF Decremented
  <2>2. Cardinality(S) # 0
    BY <1>7
  <2>3. S # {} /\ d.size - 1 = Cardinality(S)
    BY <2>2, <1>1
  <2>4. /\ e.min = d.min /\ e.max = d.max /\ e.size = d.size - 1
        /\ e \in Descriptors
    BY <2>1, <2>3, <1>1 DEF Descriptors
  <2> QED  BY <2>3, <2>4
<1> QED  BY <1>4, <1>5, <1>6, <1>7

\* What radix_cut unlinks, and from which chain.
LEMMA ItemCut ==
    ASSUME IInv, NEW i \in Item, NEW k \in Keys, CutFound(i, k)
    PROVE  /\ i \in Filed /\ key[i] = k /\ Filed' = Filed \ {i}
           /\ key' = key /\ fault' = fault /\ k <= maxKey
           /\ \A j \in Nat : Top(j) \in Tops =>
                 topDigits'[Top(j)][Low(j)] =
                     IF j = k THEN Unlinked(Chain(j), i) ELSE Chain(j)
<1> USE DEF IInv
<1> DEFINE a == Top(k)
           b == Low(k)
           chain == topDigits[a][b]
           slot == [topDigits[a] EXCEPT ![b] = Unlinked(chain, i)]
<1>1. /\ k \in Nat /\ a \in Tops /\ b \in Lows /\ i \in ToSet(chain)
      /\ topDigits' = [topDigits EXCEPT ![a] = slot]
      /\ key' = key /\ fault' = fault /\ k <= maxKey
  <2>1. k \in Nat /\ b \in Lows
    BY KeysAssumption, IndexesOfKey
  <2>2. a \in Tops /\ i \in ToSet(chain) /\ ~(k > maxKey)
    BY DEF CutFound, CutOutcome, Chain
  <2> QED  BY <2>1, <2>2 DEF CutFound, TypeOK
<1>2. i \in Filed /\ Top(key[i]) = a /\ Low(key[i]) = b
  BY <1>1, ItemsOfChain
<1>3. /\ chain \in Seq(Item) /\ IsInjective(chain)
      /\ Unlinked(chain, i) \in Seq(Item)
      /\ ToSet(Unlinked(chain, i)) = ToSet(chain) \ {i}
  <2>1. chain \in Seq(Item) /\ IsInjective(chain)
    BY <1>1 DEF TypeOK, ChainsWellFormed
  <2> QED  BY <2>1, <1>1, UnlinkedChain
<1>4. /\ slot[b] = Unlinked(chain, i)
      /\ \A c \in Lows : c # b => slot[c] = topDigits[a][c]
  BY <1>1, <1>3 DEF TypeOK
<1>5. key[i] = k
  BY <1>1, <1>2, IndexesOrderKeys DEF Filed, TypeOK
<1> HIDE DEF a, b, chain, slot
<1>6. /\ \A c \in Lows : ToSet(topDigits'[a][c]) = ToSet(topDigits[a][c]) \ {i}
      /\ \A c1 \in Tops : c1 # a => topDigits'[c1] = topDigits[c1]
      /\ topDigits'[a] = slot
  <2>1. topDigits'[a] = slot /\ \A c1 \in Tops : c1 # a => topDigits'[c1] = topDigits[c1]
    BY <1>1 DEF TypeOK
  <2>2. ASSUME NEW c \in Lows  PROVE ToSet(slot[c]) = ToSet(topDigits[a][c]) \ {i}
    <3>1. CASE c = b
      BY <3>1, <1>3, <1>4 DEF chain
    <3>2. CASE c # b
      BY <3>2, <1>1, <1>2, <1>4, ItemsOfChain
    <3> QED  BY <3>1, <3>2
  <2> QED  BY <2>1, <2>2
<1>7. Filed' = Filed \ {i}
  <2> SUFFICES ASSUME NEW j \in Item
               PROVE  j \in Filed' <=> j \in Filed /\ j # i
    BY DEF Filed
  <2>1. key'[j] = key[j] /\ key[j] \in Nat /\ Low(key[j]) \in Lows
    BY <1>1, IndexesOfKey DEF TypeOK
  <2>2. CASE Top(key[j]) = a
    <3>1. ToSet(topDigits'[a][Low(key[j])]) = ToSet(topDigits[a][Low(key[j])]) \ {i}
      BY <2>1, <1>6
    <3>2. j \in Filed' <=> j \in ToSet(topDigits'[a][Low(key[j])])
      BY <2>1, <2>2, <1>1 DEF Filed, Chain
    <3>3. j \in Filed <=> j \in ToSet(topDigits[a][Low(key[j])])
      BY <2>2, <1>1 DEF Filed, Chain
    <3> QED  BY <3>1, <3>2, <3>3
  <2>3. CASE Top(key[j]) # a
    BY <2>1, <2>3, <1>1, <1>2, <1>6 DEF Filed, Chain
  <2> QED  BY <2>2, <2>3
<1>8. ASSUME NEW j \in Nat, Top(j) \in Tops
      PROVE  topDigits'[Top(j)][Low(j)] =
                 IF j = k THEN Unlinked(Chain(j), i) ELSE Chain(j)
  <2>1. Low(j) \in Lows
    BY IndexesOfKey
  <2>2. CASE j = k
    BY <2>2, <1>4, <1>6 DEF Chain, a, b, chain
  <2>3. CASE j # k
    <3>1. Top(j) # a \/ Low(j) # b
      BY <2>3, <1>1, IndexesOrderKeys DEF a, b
    <3>2. CASE Top(j) = a
      BY <2>1, <2>3, <3>1, <3>2, <1>4, <1>6 DEF Chain
    <3>3. CASE Top(j) # a
      BY <2>3, <3>3, <1>6, <1>8 DEF Chain
    <3> QED  BY <3>2, <3>3
  <2> QED  BY <2>2, <2>3
<1> QED  BY <1>1, <1>2, <1>5, <1>7, <1>8

\* radix_cut when it returns the item.
LEMMA CutFoundPreserves ==
    ASSUME IInv, NEW i \in Item, NEW k \in Keys, CutFound(i, k)
    PROVE  IInv'
<1> USE DEF IInv
<1> DEFINE a == Top(k)
           b == Low(k)
           chain == topDigits[a][b]
           slot == [topDigits[a] EXCEPT ![b] = Unlinked(chain, i)]
           d == descriptors[a]
<1>1. /\ k \in Nat /\ a \in Tops /\ b \in Lows /\ i \in ToSet(chain) /\ pc = "open"
      /\ topDigits' = [topDigits EXCEPT ![a] = slot]
      /\ descriptors' = [descriptors EXCEPT ![a] = Decremented(d, slot)]
      /\ size' = size - 1
      /\ UNCHANGED <<optionBigKeys, slots, key, maxKey, fault, dumpVars>>
  <2>1. k \in Nat /\ b \in Lows
    BY KeysAssumption, IndexesOfKey
  <2>2. a \in Tops /\ i \in ToSet(chain)
    BY DEF CutFound, CutOutcome, Chain
  <2> QED  BY <2>1, <2>2 DEF CutFound, Running
<1>2. i \in Filed /\ Top(key[i]) = a /\ Low(key[i]) = b
  BY <1>1, ItemsOfChain
<1>3. /\ chain \in Seq(Item) /\ IsInjective(chain)
      /\ Unlinked(chain, i) \in Seq(Item) /\ IsInjective(Unlinked(chain, i))
      /\ ToSet(Unlinked(chain, i)) = ToSet(chain) \ {i}
  <2>1. chain \in Seq(Item) /\ IsInjective(chain)
    BY <1>1 DEF TypeOK, ChainsWellFormed
  <2> QED  BY <2>1, <1>1, UnlinkedChain
<1>4. /\ slot \in [Lows -> Seq(Item)] /\ slot[b] = Unlinked(chain, i)
      /\ \A c \in Lows : c # b => slot[c] = topDigits[a][c]
  BY <1>1, <1>3 DEF TypeOK
<1> HIDE DEF a, b, chain, slot, d
<1>5. /\ topDigits' \in [Tops -> [Lows -> Seq(Item)]]
      /\ \A c \in Lows : ToSet(topDigits'[a][c]) = ToSet(topDigits[a][c]) \ {i}
      /\ \A c1 \in Tops : c1 # a => topDigits'[c1] = topDigits[c1]
      /\ topDigits'[a] = slot
  <2>1. topDigits' \in [Tops -> [Lows -> Seq(Item)]] /\ topDigits'[a] = slot
        /\ \A c1 \in Tops : c1 # a => topDigits'[c1] = topDigits[c1]
    BY <1>1, <1>4 DEF TypeOK
  <2>2. ASSUME NEW c \in Lows  PROVE ToSet(slot[c]) = ToSet(topDigits[a][c]) \ {i}
    <3>1. CASE c = b
      BY <3>1, <1>3, <1>4 DEF chain
    <3>2. CASE c # b
      BY <3>2, <1>1, <1>2, <1>4, ItemsOfChain
    <3> QED  BY <3>1, <3>2
  <2> QED  BY <2>1, <2>2
<1>6. Filed' = Filed \ {i}
  BY ItemCut
<1>7. /\ InSlot(a)' = InSlot(a) \ {i} /\ i \in InSlot(a)
      /\ \A c \in Tops : c # a => InSlot(c)' = InSlot(c)
  <2>1. \A c \in Tops : InSlot(c)' = InSlot(c) \ {i}
    BY <1>1, <1>6 DEF InSlot
  <2>2. i \in InSlot(a) /\ \A c \in Tops : c # a => i \notin InSlot(c)
    BY <1>2 DEF InSlot
  <2>3. ASSUME NEW c \in Tops, c # a  PROVE InSlot(c)' = InSlot(c)
    BY <2>1, <2>2, <2>3
  <2> QED  BY <2>1, <2>2, <2>3, <1>1
<1> DEFINE S == InSlot(a) \ {i}
           e == Decremented(d, slot)
<1>8. /\ d \in Descriptors /\ d.size = Cardinality(S) + 1
      /\ Top(d.min) = a /\ Top(d.max) = a
      /\ \A j \in S : d.min <= key[j] /\ key[j] <= d.max
  <2>1. Cardinality(S) = Cardinality(InSlot(a)) - 1 /\ Cardinality(InSlot(a)) \in Nat
    BY <1>7, FiniteItems, FS_RemoveElement, FS_CardinalityType
  <2>2. d \in Descriptors /\ d.size = Cardinality(InSlot(a))
        /\ Top(d.min) = a /\ Top(d.max) = a
    BY <1>1, <1>7 DEF TypeOK, SizesExact, d
  <2>3. \A j \in InSlot(a) : d.min <= key[j] /\ key[j] <= d.max
    BY DEF BoundsCoverItems, InSlot, d
  <2> QED  BY <2>1, <2>2, <2>3
<1>9. /\ e \in Descriptors /\ e.size = Cardinality(S)
      /\ IF S = {} THEN e = EmptySlot ELSE Top(e.min) = a /\ Top(e.max) = a
      /\ \A j \in S : e.min <= key[j] /\ key[j] <= e.max
  <2>1. S \in SUBSET Item /\ \A j \in S : Top(key[j]) = a
    BY DEF InSlot, Filed
  <2>2. ASSUME NEW c \in Lows, NEW j \in ToSet(slot[c])
        PROVE  j \in S /\ Low(key[j]) = c
    BY <1>1, <1>5, ItemsOfChain DEF InSlot
  <2> HIDE DEF S
  <2> QED  BY <2>1, <2>2, <1>1, <1>4, <1>8, DecrementedDescriptor
<1> HIDE DEF S, e
<1>10. /\ descriptors' \in [Tops -> Descriptors] /\ descriptors'[a] = e
       /\ \A c \in Tops : c # a => descriptors'[c] = descriptors[c]
  BY <1>1, <1>9 DEF TypeOK, e
<1>11. Cardinality(Filed') = Cardinality(Filed) - 1 /\ Cardinality(Filed) \in Nat \ {0}
  BY <1>2, <1>6, FiniteItems, FS_RemoveElement, FS_CardinalityType, FS_EmptySet
<1>12. TypeOK'
  BY <1>1, <1>5, <1>10, <1>11 DEF TypeOK, SizesExact, dumpVars
<1>13. ChainsWellFormed'
  <2> SUFFICES ASSUME NEW c1 \in Tops, NEW c2 \in Lows
               PROVE  /\ IsInjective(topDigits'[c1][c2])
                      /\ \A j \in ToSet(topDigits'[c1][c2]) :
                            Top(key[j]) = c1 /\ Low(key[j]) = c2
    BY <1>1 DEF ChainsWellFormed
  <2>1. CASE c1 = a /\ c2 = b
    BY <2>1, <1>3, <1>4, <1>5 DEF ChainsWellFormed
  <2>2. CASE c1 = a /\ c2 # b
    BY <2>2, <1>4, <1>5 DEF ChainsWellFormed
  <2>3. CASE c1 # a
    BY <2>3, <1>5 DEF ChainsWellFormed
  <2> QED  BY <2>1, <2>2, <2>3
<1>14. SizesExact'
  <2>1. size' = Cardinality(Filed') /\ Top(maxKey') \in Tops
    BY <1>1, <1>11 DEF SizesExact
  <2> SUFFICES ASSUME NEW c \in Tops
               PROVE  /\ descriptors'[c].size = Cardinality(InSlot(c)')
                      /\ IF InSlot(c)' = {} THEN descriptors'[c] = EmptySlot
                         ELSE /\ Top(descriptors'[c].min) = c
                              /\ Top(descriptors'[c].max) = c
    BY <2>1 DEF SizesExact, EmptySlot
  <2>2. CASE c = a
    BY <2>2, <1>7, <1>9, <1>10 DEF S
  <2>3. CASE c # a
    <3>1. InSlot(c)' = InSlot(c) /\ descriptors'[c] = descriptors[c]
      BY <2>3, <1>7, <1>10
    <3>2. /\ descriptors[c].size = Cardinality(InSlot(c))
          /\ IF InSlot(c) = {} THEN descriptors[c] = EmptySlot
             ELSE Top(descriptors[c].min) = c /\ Top(descriptors[c].max) = c
      BY DEF SizesExact
    <3> QED  BY <3>1, <3>2
  <2> QED  BY <2>2, <2>3
<1>15. BoundsCoverItems'
  <2> SUFFICES ASSUME NEW j \in Filed, j # i
               PROVE  /\ key[j] <= maxKey /\ Top(key[j]) \in slots
                      /\ descriptors'[Top(key[j])].min <= key[j]
                      /\ key[j] <= descriptors'[Top(key[j])].max
    BY <1>1, <1>6 DEF BoundsCoverItems
  <2>1. key[j] <= maxKey /\ Top(key[j]) \in slots /\ Top(key[j]) \in Tops
    BY IndexesOfItem DEF BoundsCoverItems
  <2>2. CASE Top(key[j]) = a
    <3>1. j \in S
      BY <2>2 DEF S, InSlot
    <3> QED  BY <2>1, <2>2, <3>1, <1>9, <1>10
  <2>3. CASE Top(key[j]) # a
    BY <2>1, <2>3, <1>10 DEF BoundsCoverItems
  <2> QED  BY <2>2, <2>3
<1>16. DumpProgress' /\ DumpOrdered'
  BY <1>1, OpenStaysOpen
<1> QED  BY <1>12, <1>13, <1>14, <1>15, <1>16

\* radix_cut when it does not return the item: only the fault may change.
LEMMA CutMissedPreserves ==
    ASSUME IInv, NEW i \in Item, NEW k \in Keys, CutMissed(i, k)
    PROVE  IInv'
<1> USE DEF IInv
<1>1. /\ UNCHANGED <<optionBigKeys, topDigits, slots, descriptors, key, size,
                     maxKey, dumpVars>>
      /\ fault' \in {"none", "overrun", "null", "exit"} /\ pc = "open"
  BY DEF CutMissed, CutOutcome, TypeOK, Running
<1>2. Filed' = Filed /\ \A a : InSlot(a)' = InSlot(a)
  BY <1>1 DEF Filed, Chain, InSlot
<1>3. TypeOK' /\ ChainsWellFormed'
  BY <1>1 DEF TypeOK, ChainsWellFormed, dumpVars
<1>4. SizesExact' /\ BoundsCoverItems'
  BY <1>1, <1>2 DEF SizesExact, BoundsCoverItems, EmptySlot
<1>5. DumpProgress' /\ DumpOrdered'
  BY <1>1, OpenStaysOpen
<1> QED  BY <1>3, <1>4, <1>5

-----------------------------------------------------------------------------
(* The dump.                                                               *)

\* What the store says of itself does not depend on the dump.
LEMMA StoreUnchanged ==
    ASSUME IInv, UNCHANGED store
    PROVE  /\ Filed' = Filed /\ (\A a : InSlot(a)' = InSlot(a))
           /\ ChainsWellFormed' /\ SizesExact' /\ BoundsCoverItems'
<1> USE DEF IInv
<1>1. UNCHANGED <<optionBigKeys, topDigits, slots, descriptors, key, size, maxKey, fault>>
  BY DEF store
<1>2. Filed' = Filed /\ \A a : InSlot(a)' = InSlot(a)
  BY <1>1 DEF Filed, Chain, InSlot
<1>3. ChainsWellFormed'
  BY <1>1 DEF ChainsWellFormed
<1>4. SizesExact' /\ BoundsCoverItems'
  BY <1>1, <1>2 DEF SizesExact, BoundsCoverItems, EmptySlot
<1> QED  BY <1>2, <1>3, <1>4

\* The slot at t done, dump goes to the one below or ends.
LEMMA NextSlotPreserves ==
    ASSUME IInv, UNCHANGED store, t \in Tops, NextSlot,
           l' \in Int, slotCount' \in Nat, result' \in Seq(Item),
           IsInjective(result'), DumpOrdered',
           ToSet(result') = {i \in Filed : Top(key[i]) >= t}
    PROVE  IInv'
<1> USE DEF IInv
<1>1. /\ Filed' = Filed /\ (\A a : InSlot(a)' = InSlot(a)) /\ key' = key
      /\ ChainsWellFormed' /\ SizesExact' /\ BoundsCoverItems'
  BY StoreUnchanged DEF store
<1>2. t \in Nat /\ \A i \in Filed : Top(key[i]) \in Nat
  BY IndexesOfItem DEF Tops
<1>3. TypeOK'
  BY <1>2 DEF TypeOK, store, NextSlot
<1>4. CASE t > 0
  <2>1. pc' = "slot" /\ t' = t - 1 /\ t' \in Tops
    BY <1>2, <1>4, SlotsExist DEF NextSlot, Tops
  <2>2. \A i \in Filed : Top(key[i]) >= t <=> Top(key[i]) > t'
    BY <1>2, <2>1
  <2>3. Copied' = {i \in Filed : Top(key[i]) > t'}
    BY <1>1, <2>1 DEF Copied
  <2>4. ToSet(result') = Copied'
    BY <2>2, <2>3
  <2> QED  BY <1>1, <1>3, <2>1, <2>4 DEF DumpProgress
<1>5. CASE t = 0
  <2>1. pc' = "done"
    BY <1>5 DEF NextSlot
  <2>2. \A i \in Filed : Top(key[i]) >= t
    BY <1>2, <1>5
  <2>3. Copied' = Filed
    BY <1>1, <2>1 DEF Copied
  <2>4. ToSet(result') = Copied'
    BY <2>2, <2>3
  <2> QED  BY <1>1, <1>3, <2>1, <2>4 DEF DumpProgress
<1> QED  BY <1>2, <1>4, <1>5

\* radixsort_dump goes to the slot of the largest key.
LEMMA DumpBeginPreserves ==
    ASSUME IInv, DumpBegin
    PROVE  IInv'
<1> USE DEF IInv
<1>1. pc = "open" /\ UNCHANGED <<store, l, slotCount, result>>
  BY DEF DumpBegin, Running
<1>2. /\ Filed' = Filed /\ (\A a : InSlot(a)' = InSlot(a)) /\ key' = key
      /\ ChainsWellFormed' /\ SizesExact' /\ BoundsCoverItems'
  BY <1>1, StoreUnchanged DEF store
<1>3. result = <<>> /\ result' = <<>> /\ ToSet(result') = {} /\ IsInjective(result')
      /\ DumpOrdered'
  BY <1>1, OpenCopiesNothing DEF ToSet, IsInjective, DumpOrdered
<1>4. Top(maxKey) \in Tops /\ size = Cardinality(Filed)
  BY DEF SizesExact
<1>5. CASE size > 0
  <2>1. pc' = "slot" /\ t' = Top(maxKey)
    BY <1>5 DEF DumpBegin
  <2>2. TypeOK'
    BY <1>1, <1>4, <2>1 DEF TypeOK, store, Tops
  <2>3. ASSUME NEW i \in Filed  PROVE ~(Top(key[i]) > Top(maxKey))
    <3>1. key[i] <= maxKey /\ key[i] \in Nat /\ maxKey \in Nat
      BY IndexesOfItem DEF BoundsCoverItems, TypeOK
    <3> QED  BY <3>1, IndexesOrderKeys, IndexesOfKey
  <2>4. Copied' = {}
    BY <1>2, <2>1, <2>3 DEF Copied
  <2> QED  BY <1>2, <1>3, <1>4, <2>1, <2>2, <2>4 DEF DumpProgress
<1>6. CASE ~(size > 0)
  <2>1. pc' = "done" /\ t' = t
    BY <1>6 DEF DumpBegin
  <2>2. TypeOK'
    BY <1>1, <2>1 DEF TypeOK, store
  <2>3. Filed = {}
    BY <1>4, <1>6, FiniteItems, FS_CardinalityType, FS_EmptySet
  <2>4. Copied' = {}
    BY <1>2, <2>1, <2>3 DEF Copied
  <2> QED  BY <1>2, <1>3, <2>1, <2>2, <2>4 DEF DumpProgress
<1> QED  BY <1>5, <1>6

\* radixsort_dump looks at a slot.
LEMMA DumpSlotPreserves ==
    ASSUME IInv, DumpSlot
    PROVE  IInv'
<1> USE DEF IInv
<1>1. pc = "slot" /\ UNCHANGED <<store, result>> /\ t \in Tops
      /\ ToSet(result) = {i \in Filed : Top(key[i]) > t} /\ IsInjective(result)
  BY DEF DumpSlot, DumpProgress, Copied
<1>2. /\ Filed' = Filed /\ (\A a : InSlot(a)' = InSlot(a)) /\ key' = key
      /\ slots' = slots /\ descriptors' = descriptors
      /\ ChainsWellFormed' /\ SizesExact' /\ BoundsCoverItems'
  BY <1>1, StoreUnchanged DEF store
<1>3. DumpOrdered'
  BY <1>1, <1>2 DEF DumpOrdered
<1>4. t \in Nat /\ descriptors[t] \in Descriptors
      /\ \A i \in Filed : Top(key[i]) \in Nat /\ Low(key[i]) \in Nat /\ key[i] \in Nat
  BY <1>1, IndexesOfItem DEF Tops, Lows, TypeOK
<1>5. CASE t \in slots /\ descriptors[t].size > 0
  <2>1. l' = Low(descriptors[t].max) /\ slotCount' = 0 /\ pc' = "chain" /\ t' = t
    BY <1>5 DEF DumpSlot
  <2>2. InSlot(t) # {}
    BY <1>1, <1>5, FS_EmptySet DEF SizesExact
  <2>3. Top(descriptors[t].max) = t /\ descriptors[t].max \in Nat
    BY <1>1, <1>4, <2>2 DEF SizesExact, Descriptors
  <2>4. l' \in Lows
    BY <2>1, <2>3, IndexesOfKey
  <2>5. ASSUME NEW i \in Filed, Top(key[i]) = t  PROVE ~(Low(key[i]) > l')
    <3>1. key[i] <= descriptors[t].max
      BY <2>5 DEF BoundsCoverItems
    <3> QED  BY <3>1, <1>4, <2>1, <2>3, <2>4, <2>5, IndexesOrderKeys DEF Lows
  <2>6. {i \in InSlot(t) : Low(key[i]) > l'} = {}
    BY <2>5 DEF InSlot
  <2>7. Copied' = {i \in Filed : Top(key[i]) > t}
    BY <1>2, <2>1, <2>5 DEF Copied
  <2>8. TypeOK'
    BY <1>1, <2>1, <2>4 DEF TypeOK, store, Lows
  <2>9. DumpProgress'
    <3>1. InSlot(t)' = InSlot(t)
      BY <1>2, <2>1 DEF InSlot
    <3>2. {i \in InSlot(t)' : Low(key'[i]) > l'} = {}
      BY <1>2, <2>6, <3>1
    <3> QED  BY <1>1, <1>2, <1>5, <2>1, <2>4, <2>7, <3>2, FS_EmptySet DEF DumpProgress
  <2> QED  BY <1>2, <1>3, <2>8, <2>9
<1>6. CASE ~(t \in slots /\ descriptors[t].size > 0)
  <2>1. NextSlot /\ UNCHANGED <<l, slotCount>>
    BY <1>6 DEF DumpSlot
  <2>2. InSlot(t) = {}
    <3>1. CASE t \notin slots
      BY <3>1 DEF BoundsCoverItems, InSlot
    <3>2. CASE ~(descriptors[t].size > 0)
      <4>1. descriptors[t].size = 0
        BY <3>2, <1>4 DEF Descriptors
      <4> QED  BY <4>1, <1>1, FiniteItems, FS_EmptySet DEF SizesExact
    <3> QED  BY <3>1, <3>2, <1>6
  <2>3. {i \in Filed : Top(key[i]) > t} = {i \in Filed : Top(key[i]) >= t}
    BY <2>2, <1>4 DEF InSlot
  <2> QED  BY <1>1, <1>3, <2>1, <2>3, NextSlotPreserves DEF TypeOK
<1> QED  BY <1>5, <1>6

\* radixsort_dump copies a chain.
LEMMA DumpChainPreserves ==
    ASSUME IInv, DumpChain
    PROVE  IInv'
<1> USE DEF IInv
<1> DEFINE chain == topDigits[t][l]
           above == {i \in InSlot(t) : Low(key[i]) > l}
           reached == {i \in InSlot(t) : Low(key[i]) > l - 1}
<1>1. /\ pc = "chain" /\ UNCHANGED store /\ t \in Tops /\ l \in Lows /\ t \in slots
      /\ ToSet(result) = {i \in Filed : \/ Top(key[i]) > t
                                        \/ Top(key[i]) = t /\ Low(key[i]) > l}
      /\ IsInjective(result) /\ result \in Seq(Item)
      /\ slotCount = Cardinality(above) /\ slotCount < descriptors[t].size
      /\ result' = result \o chain /\ slotCount' = slotCount + Len(chain)
      /\ l' = l - 1
  BY DEF DumpChain, DumpProgress, Copied, TypeOK
<1>2. /\ Filed' = Filed /\ (\A a : InSlot(a)' = InSlot(a)) /\ key' = key
      /\ slots' = slots /\ descriptors' = descriptors
      /\ ChainsWellFormed' /\ SizesExact' /\ BoundsCoverItems'
  BY <1>1, StoreUnchanged DEF store
<1>3. t \in Nat /\ l \in Nat /\ descriptors[t] \in Descriptors
      /\ \A i \in Filed : Top(key[i]) \in Nat /\ Low(key[i]) \in Nat /\ key[i] \in Nat
  BY <1>1, IndexesOfItem DEF Tops, Lows, TypeOK
<1>4. /\ chain \in Seq(Item) /\ IsInjective(chain)
      /\ ToSet(chain) = {i \in Filed : Top(key[i]) = t /\ Low(key[i]) = l}
  BY <1>1, ItemsOfChain DEF TypeOK, ChainsWellFormed
<1> HIDE DEF chain
<1>5. ToSet(result) \cap ToSet(chain) = {}
  BY <1>1, <1>3, <1>4
<1>6. /\ result' \in Seq(Item) /\ IsInjective(result')
      /\ ToSet(result') = ToSet(result) \cup ToSet(chain)
  BY <1>1, <1>4, <1>5, CopiedChain
<1>7. ToSet(result') = {i \in Filed : \/ Top(key[i]) > t
                                      \/ Top(key[i]) = t /\ Low(key[i]) > l - 1}
  BY <1>1, <1>3, <1>4, <1>6
<1>8. DumpOrdered'
  <2> SUFFICES ASSUME NEW m \in DOMAIN result', NEW n \in DOMAIN result', m < n
               PROVE  key[result'[m]] >= key[result'[n]]
    BY <1>2 DEF DumpOrdered
  <2>1. /\ Len(result) \in Nat /\ DOMAIN result = 1 .. Len(result)
        /\ Len(chain) \in Nat /\ DOMAIN chain = 1 .. Len(chain)
        /\ DOMAIN result' = 1 .. Len(result) + Len(chain)
        /\ \A j \in 1 .. Len(result) + Len(chain) :
              result'[j] = IF j <= Len(result) THEN result[j] ELSE chain[j - Len(result)]
    BY <1>1, <1>4, <1>6, LenProperties, ConcatProperties
  <2>2. ASSUME NEW j \in DOMAIN result', j > Len(result)
        PROVE  result'[j] \in ToSet(chain)
    <3>1. result'[j] = chain[j - Len(result)] /\ j - Len(result) \in DOMAIN chain
      BY <2>1, <2>2
    <3> QED  BY <3>1 DEF ToSet
  <2>3. ASSUME NEW j \in DOMAIN result', j <= Len(result)
        PROVE  result'[j] = result[j] /\ j \in DOMAIN result /\ result[j] \in ToSet(result)
    BY <2>1, <2>3 DEF ToSet
  <2>4. CASE n <= Len(result)
    BY <2>1, <2>3, <2>4 DEF DumpOrdered
  <2>5. CASE n > Len(result) /\ m <= Len(result)
    <3>1. /\ result'[m] \in ToSet(result) /\ result'[n] \in ToSet(chain)
      BY <2>1, <2>2, <2>3, <2>5
    <3>2. /\ key[result'[m]] \in Nat /\ key[result'[n]] \in Nat
          /\ Top(key[result'[n]]) = t /\ Low(key[result'[n]]) = l
          /\ \/ Top(key[result'[m]]) > t
             \/ Top(key[result'[m]]) = t /\ Low(key[result'[m]]) > l
          /\ Top(key[result'[m]]) \in Nat /\ Low(key[result'[m]]) \in Nat
      BY <3>1, <1>1, <1>3, <1>4
    <3> QED  BY <3>2, <1>3, IndexesOrderKeys
  <2>6. CASE n > Len(result) /\ m > Len(result)
    BY <2>1, <2>2, <2>6, <1>3, <1>4, IndexesOrderKeys
  <2> QED  BY <2>1, <2>4, <2>5, <2>6
<1>9. slotCount' = Cardinality(reached) /\ slotCount' \in Nat
  <2>1. IsFiniteSet(ToSet(chain)) /\ Cardinality(ToSet(chain)) = Len(chain)
    BY <1>4, LengthOfChain
  <2>2. above \cap ToSet(chain) = {} /\ reached = above \cup ToSet(chain)
    BY <1>3, <1>4 DEF InSlot
  <2>3. IsFiniteSet(above)
    BY FiniteItems
  <2> HIDE DEF above, reached
  <2>4. Cardinality(reached) = Cardinality(above) + Cardinality(ToSet(chain)) - 0
    <3>1. Cardinality(above \cup ToSet(chain)) =
            Cardinality(above) + Cardinality(ToSet(chain))
              - Cardinality(above \cap ToSet(chain))
      BY <2>1, <2>3, FS_Union
    <3> QED  BY <3>1, <2>2, FS_EmptySet
  <2>5. Cardinality(above) \in Nat /\ Len(chain) \in Nat
    BY <2>3, <1>4, FS_CardinalityType, LenProperties
  <2> QED  BY <2>1, <2>4, <2>5, <1>1
<1>10. CASE l' >= Low(descriptors[t].min) /\ slotCount' < descriptors[t].size
  <2>1. t' = t /\ pc' = "chain"
    BY <1>10 DEF DumpChain
  <2>2. l' \in Lows
    <3>1. Low(descriptors[t].min) \in Lows
      BY <1>3, IndexesOfKey DEF Descriptors
    <3> QED  BY <3>1, <1>1, <1>3, <1>10, SlotSizeAssumption DEF Lows
  <2>3. TypeOK'
    BY <1>1, <1>6, <1>9, <2>1, <2>2 DEF TypeOK, store, Lows
  <2>4. ToSet(result') = Copied'
    BY <1>1, <1>2, <1>7, <2>1 DEF Copied
  <2>5. slotCount' = Cardinality({i \in InSlot(t)' : Low(key'[i]) > l'})
    <3>1. InSlot(t)' = InSlot(t)
      BY <1>2, <2>1 DEF InSlot
    <3>2. {i \in InSlot(t)' : Low(key'[i]) > l'} = reached
      BY <1>1, <1>2, <3>1
    <3> QED  BY <1>9, <3>2
  <2> QED  BY <1>1, <1>2, <1>6, <1>8, <1>10, <2>1, <2>2, <2>3, <2>4, <2>5 DEF DumpProgress
<1>11. CASE ~(l' >= Low(descriptors[t].min) /\ slotCount' < descriptors[t].size)
  <2>1. NextSlot
    BY <1>11 DEF DumpChain
  <2>2. InSlot(t) \subseteq reached
    <3>1. CASE ~(l' >= Low(descriptors[t].min))
      <4> SUFFICES ASSUME NEW i \in InSlot(t)  PROVE Low(key[i]) > l - 1
        OBVIOUS
      <4>1. i \in Filed /\ Top(key[i]) = t /\ descriptors[t].min <= key[i]
        BY DEF InSlot, BoundsCoverItems
      <4>2. Top(descriptors[t].min) = t /\ descriptors[t].min \in Nat
        BY <1>1, <1>3 DEF SizesExact, Descriptors
      <4>3. Low(descriptors[t].min) <= Low(key[i])
        BY <4>1, <4>2, <1>3, IndexesOrderKeys
      <4>4. Low(descriptors[t].min) \in Nat
        BY <4>2, IndexesOfKey DEF Lows
      <4> QED  BY <4>1, <4>3, <4>4, <3>1, <1>1, <1>3
    <3>2. CASE ~(slotCount' < descriptors[t].size)
      <4>1. Cardinality(reached) >= Cardinality(InSlot(t))
        BY <3>2, <1>1, <1>3, <1>9 DEF SizesExact, Descriptors
      <4>2. IsFiniteSet(InSlot(t)) /\ reached \in SUBSET InSlot(t)
        BY FiniteItems
      <4> HIDE DEF reached
      <4>3. Cardinality(reached) <= Cardinality(InSlot(t)) /\ Cardinality(InSlot(t)) \in Nat
            /\ (Cardinality(InSlot(t)) = Cardinality(reached) => InSlot(t) = reached)
        BY <4>2, FS_Subset, FS_CardinalityType
      <4> QED  BY <4>1, <4>3, <1>9
    <3> QED  BY <3>1, <3>2, <1>11
  <2>3. ToSet(result') = {i \in Filed : Top(key[i]) >= t}
    BY <1>3, <1>7, <2>2 DEF InSlot
  <2>4. l' \in Int
    BY <1>1, <1>3
  <2> QED  BY <1>1, <1>6, <1>8, <1>9, <2>1, <2>3, <2>4, NextSlotPreserves
<1> QED  BY <1>10, <1>11

-----------------------------------------------------------------------------
(* The order of equal keys.                                                *)

\* An item stands before another in a list.
Ahead(i, j, list) ==
    \E m, n \in DOMAIN list : m < n /\ list[m] = i /\ list[n] = j

\* Dump hands over the items of one key as they are in their chain, where
\* radixsort_add has put the item added last at the head.
DumpFollowsChains ==
    \A m, n \in DOMAIN result :
        m < n /\ key[result[m]] = key[result[n]] =>
            Ahead(result[m], result[n], Chain(key[result[m]]))

\* An item linked is ahead of those that were there, and behind none.
LEMMA AheadWhenLinked ==
    ASSUME NEW chain \in Seq(Item), NEW i \in Item, i \notin ToSet(chain),
           NEW x, NEW y, Ahead(x, y, Linked(chain, i))
    PROVE  y # i /\ (x # i => Ahead(x, y, chain))
<1> DEFINE s == Linked(chain, i)
<1>1. /\ Len(s) = Len(chain) + 1 /\ DOMAIN s = 1 .. Len(s)
      /\ DOMAIN chain = 1 .. Len(chain) /\ Len(chain) \in Nat
      /\ \A n \in 1 .. Len(chain) + 1 : s[n] = IF n = 1 THEN i ELSE chain[n - 1]
  BY DEF Linked
<1>2. PICK m \in DOMAIN s, n \in DOMAIN s : m < n /\ s[m] = x /\ s[n] = y
  BY DEF Ahead
<1> HIDE DEF s
<1>3. n - 1 \in DOMAIN chain /\ y = chain[n - 1]
  BY <1>1, <1>2
<1>4. y # i
  BY <1>3 DEF ToSet
<1>5. ASSUME x # i  PROVE Ahead(x, y, chain)
  <2>1. m - 1 \in DOMAIN chain /\ x = chain[m - 1] /\ m - 1 < n - 1
    BY <1>1, <1>2, <1>5
  <2> QED  BY <2>1, <1>3 DEF Ahead
<1> QED  BY <1>4, <1>5

\* Those that remain when an item is unlinked keep their order.
LEMMA AheadWhenUnlinked ==
    ASSUME NEW chain \in Seq(Item), NEW i \in ToSet(chain),
           NEW x, NEW y, Ahead(x, y, Unlinked(chain, i))
    PROVE  Ahead(x, y, chain)
<1> DEFINE p == CHOOSE n \in DOMAIN chain : chain[n] = i
           s == Unlinked(chain, i)
<1>1. p \in 1 .. Len(chain) /\ DOMAIN chain = 1 .. Len(chain) /\ Len(chain) \in Nat
  BY LenProperties DEF ToSet
<1>2. s = RemoveAt(chain, p)
  BY DEF Unlinked
<1> HIDE DEF p
<1>3. /\ s \in Seq(Item) /\ Len(s) = Len(chain) - 1
      /\ \A n \in 1 .. Len(chain) - 1 :
            s[n] = IF n < p THEN chain[n] ELSE chain[n + 1]
  BY <1>1, <1>2, RemovedAt
<1>4. PICK m \in DOMAIN s, n \in DOMAIN s : m < n /\ s[m] = x /\ s[n] = y
  BY DEF Ahead
<1> HIDE DEF s
<1>5. m \in 1 .. Len(chain) - 1 /\ n \in 1 .. Len(chain) - 1
  BY <1>3, LenProperties
<1> DEFINE Was(q) == IF q < p THEN q ELSE q + 1
<1>6. /\ Was(m) \in DOMAIN chain /\ Was(n) \in DOMAIN chain /\ Was(m) < Was(n)
  BY <1>1, <1>4, <1>5
<1>7. chain[Was(m)] = x /\ chain[Was(n)] = y
  BY <1>3, <1>4, <1>5
<1> HIDE DEF Was
<1> QED  BY <1>6, <1>7 DEF Ahead

\* While callers use the sorter there is no list yet.
LEMMA InitFollowsChains ==
    ASSUME result = <<>>
    PROVE  DumpFollowsChains
BY DEF DumpFollowsChains

\* Every step keeps the order, and only radixsort_dump makes the list longer.
LEMMA NextFollowsChains ==
    ASSUME IInv, DumpFollowsChains, [Next]_vars
    PROVE  DumpFollowsChains'
<1>1. ASSUME pc = "open", UNCHANGED dumpVars
      PROVE  DumpFollowsChains'
  <2>1. result' = <<>>
    BY <1>1, OpenCopiesNothing DEF IInv, dumpVars
  <2> QED  BY <2>1 DEF DumpFollowsChains
<1>2. ASSUME UNCHANGED <<store, result>>
      PROVE  DumpFollowsChains'
  BY <1>2 DEF DumpFollowsChains, Ahead, Chain, store
<1>3. ASSUME DumpChain
      PROVE  DumpFollowsChains'
  <2> USE DEF IInv
  <2> DEFINE chain == topDigits[t][l]
  <2>1. /\ pc = "chain" /\ t \in Tops /\ l \in Lows /\ result \in Seq(Item)
        /\ ToSet(result) = {i \in Filed : \/ Top(key[i]) > t
                                          \/ Top(key[i]) = t /\ Low(key[i]) > l}
        /\ result' = result \o chain /\ key' = key /\ topDigits' = topDigits
    BY <1>3 DEF DumpChain, DumpProgress, Copied, TypeOK, store
  <2>2. /\ chain \in Seq(Item)
        /\ ToSet(chain) = {i \in Filed : Top(key[i]) = t /\ Low(key[i]) = l}
    BY <2>1, ItemsOfChain DEF TypeOK
  <2> HIDE DEF chain
  <2>3. /\ Len(result) \in Nat /\ DOMAIN result = 1 .. Len(result)
        /\ Len(chain) \in Nat /\ DOMAIN chain = 1 .. Len(chain)
        /\ DOMAIN result' = 1 .. Len(result) + Len(chain)
        /\ \A j \in 1 .. Len(result) + Len(chain) :
              result'[j] = IF j <= Len(result) THEN result[j] ELSE chain[j - Len(result)]
    BY <2>1, <2>2, LenProperties, ConcatProperties
  <2>4. ASSUME NEW j \in DOMAIN result', j > Len(result)
        PROVE  /\ j - Len(result) \in DOMAIN chain /\ result'[j] = chain[j - Len(result)]
               /\ result'[j] \in ToSet(chain)
    <3>1. result'[j] = chain[j - Len(result)] /\ j - Len(result) \in DOMAIN chain
      BY <2>3, <2>4
    <3> QED  BY <3>1 DEF ToSet
  <2>5. ASSUME NEW j \in DOMAIN result', j <= Len(result)
        PROVE  result'[j] = result[j] /\ j \in DOMAIN result /\ result[j] \in ToSet(result)
    BY <2>3, <2>5 DEF ToSet
  <2> SUFFICES ASSUME NEW m \in DOMAIN result', NEW n \in DOMAIN result', m < n,
                      key[result'[m]] = key[result'[n]]
               PROVE  Ahead(result'[m], result'[n], Chain(key[result'[m]]))
    BY <2>1 DEF DumpFollowsChains, Chain
  <2>6. CASE n <= Len(result)
    BY <2>3, <2>5, <2>6 DEF DumpFollowsChains
  <2>7. CASE n > Len(result) /\ m <= Len(result)
    <3>1. result'[m] \in ToSet(result) /\ result'[n] \in ToSet(chain)
      BY <2>3, <2>4, <2>5, <2>7
    <3>2. /\ Top(key[result'[n]]) = t /\ Low(key[result'[n]]) = l /\ t \in Int /\ l \in Int
          /\ \/ Top(key[result'[m]]) > t
             \/ Top(key[result'[m]]) = t /\ Low(key[result'[m]]) > l
      BY <3>1, <2>1, <2>2 DEF Tops, Lows
    <3>3. Top(key[result'[m]]) = Top(key[result'[n]]) /\ Low(key[result'[m]]) = Low(key[result'[n]])
      OBVIOUS
    <3> QED  BY <3>2, <3>3
  <2>8. CASE m > Len(result)
    <3>1. /\ m - Len(result) \in DOMAIN chain /\ result'[m] = chain[m - Len(result)]
          /\ n - Len(result) \in DOMAIN chain /\ result'[n] = chain[n - Len(result)]
          /\ m - Len(result) < n - Len(result) /\ result'[m] \in ToSet(chain)
      BY <2>3, <2>4, <2>8
    <3>2. Chain(key[result'[m]]) = chain
      BY <3>1, <2>2 DEF Chain, chain
    <3> QED  BY <3>1, <3>2 DEF Ahead
  <2> QED  BY <2>3, <2>6, <2>7, <2>8
<1>4. CASE Dump
  BY <1>2, <1>3, <1>4 DEF Dump, DumpBegin, DumpSlot
<1>5. ASSUME NEW i \in Item, NEW k \in Keys,
             AddFiled(i, k) \/ AddRefused(i, k) \/ CutFound(i, k) \/ CutMissed(i, k)
      PROVE  DumpFollowsChains'
  BY <1>1, <1>5 DEF AddFiled, AddRefused, CutFound, CutMissed, Running
<1>6. CASE UNCHANGED vars
  BY <1>2, <1>6 DEF vars, dumpVars
<1> QED  BY <1>4, <1>5, <1>6 DEF Next

-----------------------------------------------------------------------------
(* The theorems.                                                           *)

\* An empty sorter.
LEMMA InitIInv ==
    ASSUME Init
    PROVE  IInv
<1>1. Filed = {}
  BY IndexesOfKey DEF Init, Filed, Chain, ToSet
<1>2. \A a : InSlot(a) = {}
  BY <1>1 DEF InSlot
<1>3. TypeOK
  BY KeyLimitAssumption, SlotSizeAssumption DEF Init, TypeOK, Descriptors
<1>4. ChainsWellFormed
  BY DEF Init, ChainsWellFormed, ToSet, IsInjective
<1>5. SizesExact
  BY <1>1, <1>2, FS_EmptySet, SlotsExist DEF Init, SizesExact, EmptySlot
<1>6. BoundsCoverItems
  BY <1>1 DEF BoundsCoverItems
<1>7. DumpProgress /\ DumpOrdered
  BY DEF Init, DumpProgress, DumpOrdered, Copied, ToSet, IsInjective
<1> QED  BY <1>3, <1>4, <1>5, <1>6, <1>7 DEF IInv

\* Every step of the sorter.
LEMMA NextIInv ==
    ASSUME IInv, [Next]_vars
    PROVE  IInv'
<1>1. ASSUME NEW i \in Item, NEW k \in Keys, AddFiled(i, k)
      PROVE  IInv'
  <2>1. FiledKey(k) \in Nat
    BY FiledKeyType
  <2>2. CASE Top(FiledKey(k)) \in Tops
    BY <1>1, <2>1, <2>2, LinkPreserves
  <2>3. CASE Top(FiledKey(k)) \notin Tops
    BY <1>1, <2>3, OverrunPreserves
  <2> QED  BY <2>2, <2>3
<1>2. ASSUME NEW i \in Item, NEW k \in Keys, AddRefused(i, k)
      PROVE  IInv'
  BY <1>2, AddRefusedPreserves
<1>3. ASSUME NEW i \in Item, NEW k \in Keys, CutFound(i, k)
      PROVE  IInv'
  BY <1>3, CutFoundPreserves
<1>4. ASSUME NEW i \in Item, NEW k \in Keys, CutMissed(i, k)
      PROVE  IInv'
  BY <1>4, CutMissedPreserves
<1>5. ASSUME Dump
      PROVE  IInv'
  BY <1>5, DumpBeginPreserves, DumpSlotPreserves, DumpChainPreserves DEF Dump
<1>6. ASSUME UNCHANGED vars
      PROVE  IInv'
  <2>1. UNCHANGED store /\ UNCHANGED <<pc, t, l, slotCount, result>>
    BY <1>6 DEF vars, dumpVars
  <2>2. /\ Filed' = Filed /\ (\A a : InSlot(a)' = InSlot(a))
        /\ ChainsWellFormed' /\ SizesExact' /\ BoundsCoverItems'
    BY <2>1, StoreUnchanged
  <2>3. TypeOK' /\ DumpOrdered'
    BY <2>1 DEF IInv, TypeOK, DumpOrdered, store
  <2>4. Copied' = Copied
    BY <2>1, <2>2 DEF Copied, store
  <2>5. DumpProgress'
    BY <2>1, <2>2, <2>4 DEF IInv, DumpProgress, store
  <2> QED  BY <2>2, <2>3, <2>5 DEF IInv
<1> QED  BY <1>1, <1>2, <1>3, <1>4, <1>5, <1>6 DEF Next

\* The sorter's books are right in every state: the inductive invariant.
THEOREM InductiveInvariant == Spec => []IInv
<1>1. Init => IInv
  BY InitIInv
<1>2. IInv /\ [Next]_vars => IInv'
  BY NextIInv
<1> QED  BY <1>1, <1>2, PTL DEF Spec

\* Every item is within the bounds radixsort_dump trusts, however stale.
THEOREM BoundsSound == Spec => []BoundsCoverItems
<1>1. IInv => BoundsCoverItems
  BY DEF IInv
<1> QED  BY <1>1, InductiveInvariant, PTL

\* radixsort_dump stays within the array it allocated for rs->size items, and hands
\* over every item that is filed, each once and by falling key.
THEOREM DumpIsCorrect == Spec => []DumpCorrect
<1>1. IInv => DumpCorrect
  <2> SUFFICES ASSUME IInv  PROVE DumpCorrect
    OBVIOUS
  <2>1. Copied \subseteq Filed /\ IsFiniteSet(Filed)
    BY FiniteItems DEF IInv, TypeOK, Copied
  <2>2. Cardinality(ToSet(result)) <= size
    BY <2>1, FS_Subset DEF IInv, DumpProgress, SizesExact
  <2>3. Len(result) <= size
    BY <2>2, LengthOfChain DEF IInv, TypeOK, DumpProgress
  <2>4. pc = "done" => IsInjective(result) /\ ToSet(result) = Filed
    BY DEF IInv, DumpProgress, Copied
  <2> QED  BY <2>3, <2>4 DEF IInv, DumpCorrect
<1> QED  BY <1>1, InductiveInvariant, PTL

\* radix_cut by the key an item is filed under finds it.
THEOREM CutFindsFiled == Spec => []CutOfFiledSucceeds
<1>1. IInv => CutOfFiledSucceeds
  <2> SUFFICES ASSUME IInv, NEW i \in Filed
               PROVE  CutOutcome(i, key[i]) = "found"
    BY DEF CutOfFiledSucceeds
  <2>1. /\ key[i] <= maxKey /\ maxKey \in Nat /\ key[i] \in Nat
        /\ Top(key[i]) \in Tops /\ Top(key[i]) \in slots
    BY IndexesOfItem DEF IInv, TypeOK, BoundsCoverItems
  <2>2. i \in ToSet(Chain(key[i])) /\ Chain(key[i]) # <<>>
    BY DEF Filed, ToSet
  <2> QED  BY <2>1, <2>2 DEF CutOutcome
<1> QED  BY <1>1, InductiveInvariant, PTL

\* A key below the first one without a slot is not the way out of topDigits.
LEMMA OverrunKey ==
    ASSUME NEW k \in Keys, Top(FiledKey(k)) \notin Tops,
           k > KeyLimit => optionBigKeys = "floor"
    PROVE  FiledKey(k) <= KeyLimit /\ Top(FiledKey(k)) = Top(KeyLimit)
<1> DEFINE q == FiledKey(k)
<1>1. q \in Nat /\ KeyLimit \in Nat
  BY FiledKeyType, KeyLimitAssumption
<1>2. q <= KeyLimit
  BY KeysAssumption, KeyLimitAssumption DEF FiledKey
<1> HIDE DEF q
<1>3. Top(q) <= Top(KeyLimit) /\ Top(q) \in Nat /\ Top(KeyLimit) \in Nat
  BY <1>1, <1>2, IndexesOrderKeys, IndexesOfKey
<1>4. ~(Top(q) < Top(KeyLimit))
  BY <1>1, SlotsExist DEF q
<1> QED  BY <1>2, <1>3, <1>4 DEF q

\* The sorter leaves topDigits only for a key equal to the limit, or one in
\* the incomplete slot below a limit that is no multiple of the slot size.
THEOREM OverrunOnlyByLimit == Spec => []OverrunOnlyAtLimit
<1>1. Init => OverrunOnlyAtLimit
  BY DEF Init, OverrunOnlyAtLimit
<1>2. IInv /\ OverrunOnlyAtLimit /\ [Next]_vars => OverrunOnlyAtLimit'
  <2> SUFFICES ASSUME IInv, OverrunOnlyAtLimit, [Next]_vars, fault' = "overrun"
               PROVE  \E i \in Item : key'[i] <= KeyLimit
                                      /\ Top(key'[i]) = Top(KeyLimit)
    BY DEF OverrunOnlyAtLimit
  <2>1. CASE UNCHANGED <<fault, key>>
    BY <2>1 DEF OverrunOnlyAtLimit
  <2>2. ASSUME NEW i \in Item, NEW k \in Keys, AddFiled(i, k)
        PROVE  \E j \in Item : key'[j] <= KeyLimit /\ Top(key'[j]) = Top(KeyLimit)
    <3>1. fault = "none" /\ key'[i] = FiledKey(k)
      BY <2>2 DEF AddFiled, Running, SetKey, IInv, TypeOK
    <3>2. Top(FiledKey(k)) \notin Tops /\ (k > KeyLimit => optionBigKeys = "floor")
      BY <2>2, <3>1 DEF AddFiled, File
    <3> QED  BY <3>1, <3>2, OverrunKey
  <2>3. ASSUME NEW i \in Item, NEW k \in Keys, AddRefused(i, k)
        PROVE  FALSE
    BY <2>3 DEF AddRefused, Running
  <2>4. ASSUME NEW i \in Item, NEW k \in Keys, CutMissed(i, k)
        PROVE  FALSE
    <3>1. k \in Nat /\ maxKey \in Nat /\ Top(maxKey) \in Tops
      BY KeysAssumption DEF IInv, TypeOK, SizesExact
    <3>2. k <= maxKey => Top(k) \in Tops
      BY <3>1, IndexesOrderKeys, IndexesOfKey, SlotsExist
    <3> QED  BY <2>4, <3>1, <3>2 DEF CutMissed, CutOutcome, Running
  <2>5. ASSUME NEW i \in Item, NEW k \in Keys, CutFound(i, k)
        PROVE  UNCHANGED <<fault, key>>
    BY <2>5 DEF CutFound
  <2>6. CASE Dump
    BY <2>1, <2>6 DEF Dump, DumpBegin, DumpSlot, DumpChain, store
  <2>7. CASE UNCHANGED vars
    BY <2>1, <2>7 DEF vars, store
  <2> QED  BY <2>1, <2>2, <2>3, <2>4, <2>5, <2>6, <2>7 DEF Next
<1> QED  BY <1>1, <1>2, InductiveInvariant, PTL DEF Spec

\* Items of one key are handed over newest first, as they are in their chain:
\* what radixsort_dump copies of a chain it copies in its order.
THEOREM EqualKeysKeepOrder == Spec => []DumpFollowsChains
<1>1. Init => DumpFollowsChains
  BY InitFollowsChains DEF Init
<1>2. IInv /\ DumpFollowsChains /\ [Next]_vars => DumpFollowsChains'
  BY NextFollowsChains
<1> QED  BY <1>1, <1>2, InductiveInvariant, PTL DEF Spec

-----------------------------------------------------------------------------
(* The sorter implements the ranked list.                                  *)

\* An entry of the ranked list; its entries key by key, the largest key first;
\* and where the entries of key k are among them.
Entry == [item : Item, key : Nat]
Rows == [n \in KeysDown |-> Entries(Chain(KeyDown(n)), KeyDown(n))]
Place(k) == Top(KeyLimit) * SlotSize - k

\* The keys below the first without a slot are those of the rows, in falling order.
LEMMA PlaceOfKey ==
    /\ \A n \in KeysDown : /\ KeyDown(n) \in Nat /\ Top(KeyDown(n)) \in Tops
                           /\ KeyDown(n) \in 0 .. (KeyLimit - 1) /\ Place(KeyDown(n)) = n
    /\ \A k \in Nat : Top(k) \in Tops =>
          Place(k) \in KeysDown /\ KeyDown(Place(k)) = k /\ k \in 0 .. (KeyLimit - 1)
    /\ \A m, n \in KeysDown : m < n => KeyDown(m) > KeyDown(n)
    /\ Top(KeyLimit) * SlotSize \in Nat
<1> DEFINE a == Top(KeyLimit)
           N == a * SlotSize
<1>1. a \in Nat /\ SlotSize \in Nat \ {0} /\ N \in Nat /\ KeyLimit \in Nat
  BY SlotsExist, SlotSizeAssumption, KeyLimitAssumption
<1>2. N <= KeyLimit
  BY <1>1, IndexesOfKey DEF Lows
<1>3. ASSUME NEW k \in Nat PROVE k < N <=> Top(k) \in Tops
  <2>1. Top(k) \in Nat /\ Low(k) \in 0 .. SlotSize - 1 /\ k = SlotSize * Top(k) + Low(k)
    BY IndexesOfKey DEF Lows
  <2>2. ASSUME Top(k) < a PROVE k < N
    <3>1. Top(k) + 1 <= a
      BY <1>1, <2>1, <2>2
    <3> DEFINE b == Top(k)
    <3> HIDE DEF a, b
    <3>2. b \in Nat /\ a \in Nat /\ b + 1 <= a
      BY <1>1, <2>1, <3>1 DEF b
    <3>3. SlotSize * (b + 1) <= a * SlotSize
      BY <1>1, <3>2
    <3>4. SlotSize * (b + 1) = SlotSize * b + SlotSize
      BY <1>1, <3>2
    <3> QED BY <1>1, <2>1, <3>2, <3>3, <3>4 DEF b
  <2>3. ASSUME Top(k) >= a PROVE k >= N
    <3> DEFINE b == Top(k)
    <3>1. b \in Nat /\ a \in Nat /\ b >= a
      BY <1>1, <2>1, <2>3
    <3> HIDE DEF a, b
    <3>2. SlotSize * b >= a * SlotSize
      BY <1>1, <3>1
    <3>3. SlotSize * b \in Nat
      BY <1>1, <3>1
    <3> QED BY <1>1, <2>1, <3>2, <3>3 DEF b
  <2> HIDE DEF N
  <2> QED BY <1>1, <2>1, <2>2, <2>3, SlotsExist
<1> HIDE DEF N
<1>4. KeysDown = 1 .. N /\ (\A n : KeyDown(n) = N - n) /\ \A k : Place(k) = N - k
  BY DEF KeysDown, KeyDown, Place, N
<1>5. ASSUME NEW n \in KeysDown
      PROVE  /\ KeyDown(n) \in Nat /\ Top(KeyDown(n)) \in Tops
             /\ KeyDown(n) \in 0 .. (KeyLimit - 1) /\ Place(KeyDown(n)) = n
  <2>1. n \in Nat /\ 1 <= n /\ n <= N /\ N - n \in Nat /\ N - n < N
    BY <1>1, <1>4
  <2>2. Top(N - n) \in Tops
    BY <1>3, <2>1
  <2> QED BY <1>1, <1>2, <1>4, <2>1, <2>2
<1>6. ASSUME NEW k \in Nat, Top(k) \in Tops
      PROVE  Place(k) \in KeysDown /\ KeyDown(Place(k)) = k /\ k \in 0 .. (KeyLimit - 1)
  <2>1. k < N
    BY <1>3, <1>6
  <2> QED BY <1>1, <1>2, <1>4, <2>1
<1>7. \A m, n \in KeysDown : m < n => KeyDown(m) > KeyDown(n)
  BY <1>1, <1>4
<1> QED BY <1>1, <1>5, <1>6, <1>7 DEF N

\* The entries of a chain are its items under its key ...
LEMMA EntriesOfChain ==
    ASSUME NEW chain \in Seq(Item), NEW k \in Nat
    PROVE  /\ Entries(chain, k) \in Seq(Entry) /\ Len(Entries(chain, k)) = Len(chain)
           /\ DOMAIN Entries(chain, k) = 1 .. Len(chain)
           /\ \A m \in 1 .. Len(chain) : Entries(chain, k)[m] = [item |-> chain[m], key |-> k]
           /\ \A e \in ToSet(Entries(chain, k)) : e.key = k /\ e.item \in ToSet(chain)
<1> DEFINE s == Entries(chain, k)
<1>1. DOMAIN chain = 1 .. Len(chain) /\ Len(chain) \in Nat /\ \A m \in 1 .. Len(chain) : chain[m] \in Item
  BY LenProperties
<1>2. s = [m \in 1 .. Len(chain) |-> [item |-> chain[m], key |-> k]]
  BY <1>1 DEF Entries
<1>3. \A m \in 1 .. Len(chain) : [item |-> chain[m], key |-> k] \in Entry
  BY <1>1 DEF Entry
<1>4. s \in [1 .. Len(chain) -> Entry]
  BY <1>2, <1>3
<1>5. s \in Seq(Entry) /\ Len(s) = Len(chain)
  <2> HIDE DEF s
  <2> QED BY <1>1, <1>4
<1>6. \A e \in ToSet(s) : e.key = k /\ e.item \in ToSet(chain)
  <2> SUFFICES ASSUME NEW m \in 1 .. Len(chain) PROVE s[m].key = k /\ s[m].item \in ToSet(chain)
    BY <1>2 DEF ToSet
  <2>1. s[m] = [item |-> chain[m], key |-> k]
    BY <1>2
  <2>2. chain[m] \in ToSet(chain)
    BY <1>1 DEF ToSet
  <2> QED BY <2>1, <2>2
<1> QED BY <1>2, <1>5, <1>6

\* ... an item linked is an entry in front ...
LEMMA EntriesLinked ==
    ASSUME NEW chain \in Seq(Item), NEW k \in Nat, NEW i \in Item
    PROVE  Entries(Linked(chain, i), k) = <<[item |-> i, key |-> k]>> \o Entries(chain, k)
<1> DEFINE s == Linked(chain, i)
           e == [item |-> i, key |-> k]
           r == Entries(s, k)
           x == Entries(chain, k)
           y == <<e>> \o x
<1>1. /\ s \in Seq(Item) /\ Len(s) = Len(chain) + 1 /\ Len(chain) \in Nat
      /\ \A n \in 1 .. Len(chain) + 1 : s[n] = IF n = 1 THEN i ELSE chain[n - 1]
  BY LenProperties DEF Linked
<1> HIDE DEF s
<1>2. /\ r \in Seq(Entry) /\ Len(r) = Len(s)
      /\ \A m \in 1 .. Len(s) : r[m] = [item |-> s[m], key |-> k]
  BY <1>1, EntriesOfChain
<1>3. /\ x \in Seq(Entry) /\ Len(x) = Len(chain)
      /\ \A m \in 1 .. Len(chain) : x[m] = [item |-> chain[m], key |-> k]
  BY EntriesOfChain
<1> HIDE DEF r, x
<1>4. <<e>> \in Seq(Entry) /\ Len(<<e>>) = 1 /\ <<e>>[1] = e
  <2>1. e \in Entry
    BY DEF Entry
  <2> HIDE DEF e
  <2> QED BY <2>1
<1>5. /\ y \in Seq(Entry) /\ Len(y) = 1 + Len(chain)
      /\ \A n \in 1 .. 1 + Len(chain) : y[n] = IF n <= 1 THEN <<e>>[n] ELSE x[n - 1]
  <2> DEFINE f == <<e>>
  <2>1. f \in Seq(Entry) /\ Len(f) = 1 /\ x \in Seq(Entry)
    BY <1>3, <1>4
  <2> HIDE DEF f
  <2>2. /\ f \o x \in Seq(Entry) /\ Len(f \o x) = Len(f) + Len(x)
        /\ \A n \in 1 .. Len(f) + Len(x) : (f \o x)[n] = IF n <= Len(f) THEN f[n] ELSE x[n - Len(f)]
    BY <2>1, ConcatProperties
  <2> QED BY <1>3, <2>1, <2>2 DEF f
<1> HIDE DEF y
<1>6. ASSUME NEW n \in 1 .. 1 + Len(chain) PROVE r[n] = y[n]
  <2>1. n \in 1 .. Len(s)
    BY <1>1
  <2>2. CASE n = 1
    <3>1. y[n] = e /\ s[n] = i
      BY <1>1, <1>4, <1>5, <2>2
    <3> QED BY <1>2, <2>1, <3>1
  <2>3. CASE n # 1
    <3>1. n - 1 \in 1 .. Len(chain) /\ ~(n <= 1)
      BY <1>1, <2>3
    <3>2. y[n] = x[n - 1] /\ s[n] = chain[n - 1]
      BY <1>1, <1>5, <2>3, <3>1
    <3> QED BY <1>2, <1>3, <2>1, <3>1, <3>2
  <2> QED BY <2>2, <2>3
<1>7. Len(r) = 1 + Len(chain)
  BY <1>1, <1>2
<1> QED BY <1>2, <1>5, <1>6, <1>7, SeqEqual DEF y, r, x, s

\* ... and an item unlinked is an entry removed.
LEMMA EntriesUnlinked ==
    ASSUME NEW chain \in Seq(Item), NEW k \in Nat, NEW i \in ToSet(chain)
    PROVE  \E p \in 1 .. Len(chain) :
              Entries(Unlinked(chain, i), k) = RemoveAt(Entries(chain, k), p)
<1> DEFINE p == CHOOSE n \in DOMAIN chain : chain[n] = i
<1>1. p \in 1 .. Len(chain) /\ Len(chain) \in Nat
  BY LenProperties DEF ToSet
<1>2. Unlinked(chain, i) = RemoveAt(chain, p)
  BY DEF Unlinked
<1> HIDE DEF p
<1> DEFINE s == RemoveAt(chain, p)
           x == Entries(chain, k)
           r == Entries(s, k)
           y == RemoveAt(x, p)
<1>3. /\ s \in Seq(Item) /\ Len(s) = Len(chain) - 1
      /\ \A n \in 1 .. Len(chain) - 1 : s[n] = IF n < p THEN chain[n] ELSE chain[n + 1]
  BY <1>1, RemoveAtProperties
<1> HIDE DEF s
<1>4. /\ r \in Seq(Entry) /\ Len(r) = Len(s)
      /\ \A m \in 1 .. Len(s) : r[m] = [item |-> s[m], key |-> k]
  BY <1>3, EntriesOfChain
<1>5. /\ x \in Seq(Entry) /\ Len(x) = Len(chain)
      /\ \A m \in 1 .. Len(chain) : x[m] = [item |-> chain[m], key |-> k]
  BY EntriesOfChain
<1> HIDE DEF r, x
<1>6. /\ y \in Seq(Entry) /\ Len(y) = Len(x) - 1
      /\ \A n \in 1 .. Len(x) - 1 : y[n] = IF n < p THEN x[n] ELSE x[n + 1]
  <2>1. x \in Seq(Entry) /\ p \in 1 .. Len(x)
    BY <1>1, <1>5
  <2> QED BY <2>1, RemoveAtProperties
<1> HIDE DEF y
<1>7. ASSUME NEW n \in 1 .. Len(chain) - 1 PROVE r[n] = y[n]
  <2>1. n \in 1 .. Len(s) /\ n \in 1 .. Len(x) - 1 /\ n \in 1 .. Len(chain) /\ n + 1 \in 1 .. Len(chain)
    BY <1>1, <1>3, <1>5
  <2>2. CASE n < p
    BY <1>3, <1>4, <1>5, <1>6, <2>1, <2>2
  <2>3. CASE ~(n < p)
    BY <1>3, <1>4, <1>5, <1>6, <2>1, <2>3
  <2> QED BY <2>2, <2>3
<1>8. r = y
  <2>1. Len(r) = Len(chain) - 1 /\ Len(y) = Len(chain) - 1
    BY <1>3, <1>4, <1>5, <1>6
  <2> QED BY <1>4, <1>6, <1>7, <2>1, SeqEqual
<1> QED BY <1>1, <1>2, <1>8 DEF r, y, x, s

\* The rows of the list are sequences of entries.
LEMMA RowsType ==
    ASSUME TypeOK
    PROVE  /\ Rows \in Seq(Seq(Entry)) /\ Len(Rows) = Top(KeyLimit) * SlotSize
           /\ DOMAIN Rows = KeysDown
           /\ \A n \in KeysDown :
                 /\ Chain(KeyDown(n)) \in Seq(Item)
                 /\ Rows[n] = Entries(Chain(KeyDown(n)), KeyDown(n)) /\ Rows[n] \in Seq(Entry)
<1> DEFINE N == Top(KeyLimit) * SlotSize
           T == Seq(Entry)
<1>1. N \in Nat /\ KeysDown = 1 .. N
  BY PlaceOfKey DEF KeysDown
<1>2. ASSUME NEW n \in KeysDown
      PROVE  /\ Chain(KeyDown(n)) \in Seq(Item)
             /\ Rows[n] = Entries(Chain(KeyDown(n)), KeyDown(n)) /\ Rows[n] \in T
  <2>1. KeyDown(n) \in Nat /\ Top(KeyDown(n)) \in Tops /\ Low(KeyDown(n)) \in Lows
    BY PlaceOfKey, IndexesOfKey
  <2>2. Chain(KeyDown(n)) \in Seq(Item)
    BY <2>1 DEF TypeOK, Chain
  <2> QED BY <2>1, <2>2, EntriesOfChain DEF Rows
<1>3. Rows \in [1 .. N -> T]
  <2> HIDE DEF N, T
  <2>1. Rows = [n \in 1 .. N |-> Rows[n]]
    BY <1>1 DEF Rows
  <2> QED BY <1>1, <1>2, <2>1
<1>4. Rows \in Seq(T) /\ Len(Rows) = N
  <2> HIDE DEF N, T
  <2> QED BY <1>1, <1>3
<1> QED BY <1>1, <1>2, <1>3, <1>4

\* Around the entries of one key stand those of the larger and of the smaller keys.
LEMMA RowsSplit ==
    ASSUME TypeOK, NEW k \in Nat, Top(k) \in Tops
    PROVE  /\ Chain(k) \in Seq(Item) /\ Ranked = FlattenSeq(Rows)
           /\ \E u, v \in Seq(Entry) :
                 /\ Ranked = u \o Entries(Chain(k), k) \o v
                 /\ \A x \in Seq(Entry) : FlattenSeq([Rows EXCEPT ![Place(k)] = x]) = u \o x \o v
                 /\ \A e \in ToSet(u) : e.key > k /\ e.key \in Nat
                 /\ \A e \in ToSet(v) : e.key < k /\ e.key \in Nat
<1> DEFINE p == Place(k)
<1>1. /\ Rows \in Seq(Seq(Entry)) /\ p \in 1 .. Len(Rows) /\ KeysDown = 1 .. Len(Rows)
      /\ KeyDown(p) = k /\ DOMAIN Rows = KeysDown /\ Len(Rows) \in Nat
  BY RowsType, PlaceOfKey DEF KeysDown
<1>2. Chain(k) \in Seq(Item) /\ Rows[p] = Entries(Chain(k), k) /\ Rows[p] \in Seq(Entry)
  BY <1>1, RowsType
<1>3. Ranked = FlattenSeq(Rows)
  BY DEF Ranked, Rows
<1> HIDE DEF p
<1>4. PICK u, v : IsSplit(u, v, Entry, Rows, p)
  BY <1>1, FlattenSplit
<1> USE DEF IsSplit
<1>5. [Rows EXCEPT ![p] = Rows[p]] = Rows
  BY <1>1 DEF Rows
<1>6. Ranked = u \o Entries(Chain(k), k) \o v
  BY <1>2, <1>3, <1>4, <1>5
<1>7. ASSUME NEW n \in 1 .. Len(Rows), NEW e \in ToSet(Rows[n])
      PROVE  e.key = KeyDown(n) /\ KeyDown(n) \in Nat
  BY <1>1, <1>7, RowsType, PlaceOfKey, EntriesOfChain
<1>8. ASSUME NEW e \in ToSet(u) PROVE e.key > k /\ e.key \in Nat
  <2>1. PICK n \in 1 .. p - 1 : e \in ToSet(Rows[n])
    BY <1>4, <1>8
  <2>2. n \in 1 .. Len(Rows) /\ n < p
    BY <1>1
  <2> QED BY <1>1, <1>7, <2>1, <2>2, PlaceOfKey
<1>9. ASSUME NEW e \in ToSet(v) PROVE e.key < k /\ e.key \in Nat
  <2>1. PICK n \in p + 1 .. Len(Rows) : e \in ToSet(Rows[n])
    BY <1>4, <1>9
  <2>2. n \in 1 .. Len(Rows) /\ p < n
    BY <1>1
  <2>3. KeyDown(p) > KeyDown(n)
    BY <1>1, <2>2, PlaceOfKey
  <2> QED BY <1>1, <1>7, <2>1, <2>2, <2>3
<1> QED BY <1>2, <1>3, <1>4, <1>6, <1>8, <1>9 DEF p

\* A step that changes the chain of one key changes that key's row.
LEMMA RowChanged ==
    ASSUME TypeOK, NEW k \in Nat, Top(k) \in Tops, NEW chain,
           \A j \in Nat : Top(j) \in Tops =>
              topDigits'[Top(j)][Low(j)] = IF j = k THEN chain ELSE Chain(j)
    PROVE  Ranked' = FlattenSeq([Rows EXCEPT ![Place(k)] = Entries(chain, k)])
<1>1. Place(k) \in KeysDown /\ KeyDown(Place(k)) = k
  BY PlaceOfKey
<1>2. ASSUME NEW n \in KeysDown
      PROVE  topDigits'[Top(KeyDown(n))][Low(KeyDown(n))]
                 = IF n = Place(k) THEN chain ELSE Chain(KeyDown(n))
  BY <1>1, PlaceOfKey
<1> DEFINE after == [n \in KeysDown |-> Entries(topDigits'[Top(KeyDown(n))][Low(KeyDown(n))], KeyDown(n))]
           changed == [Rows EXCEPT ![Place(k)] = Entries(chain, k)]
<1>3. \A n \in KeysDown : after[n] = changed[n]
  BY <1>1, <1>2 DEF Rows
<1>4. changed = [n \in KeysDown |-> changed[n]]
  BY DEF Rows
<1>5. after = changed
  <2> HIDE DEF changed
  <2> QED BY <1>3, <1>4
<1>6. Ranked' = FlattenSeq(after)
  BY DEF Ranked, Chain
<1> QED BY <1>5, <1>6

\* The list has the filed items.
LEMMA ListedAreFiled ==
    ASSUME TypeOK, ChainsWellFormed
    PROVE  Abstract!Listed \subseteq Filed
<1>1. Rows \in Seq(Seq(Entry)) /\ Ranked = FlattenSeq(Rows) /\ KeysDown = 1 .. Len(Rows)
  BY RowsType DEF Ranked, Rows, KeysDown
<1>2. ToSet(Ranked) = UNION {ToSet(Rows[n]) : n \in 1 .. Len(Rows)}
  BY <1>1, FlattenProperties
<1>3. ASSUME NEW e \in ToSet(Ranked) PROVE e.item \in Filed
  <2>1. PICK n \in KeysDown : e \in ToSet(Rows[n])
    BY <1>1, <1>2, <1>3
  <2> DEFINE k == KeyDown(n)
  <2>2. k \in Nat /\ Top(k) \in Tops /\ Low(k) \in Lows
    BY PlaceOfKey, IndexesOfKey
  <2>3. e.item \in ToSet(Chain(k))
    BY <2>1, <2>2, RowsType, EntriesOfChain
  <2> HIDE DEF k
  <2> QED BY <2>2, <2>3, ItemsOfChain DEF Chain
<1> QED BY <1>3 DEF Abstract!Listed, ToSet

\* What the list is stays what it is while the chains and the dump do.
LEMMA SameChains ==
    ASSUME UNCHANGED <<topDigits, pc, result>>
    PROVE  UNCHANGED Abstract!vars
BY DEF Abstract!vars, Ranked, Handed, Chain

\* Entries in three parts may be grouped either way.
LEMMA EntriesAssociate ==
    \A a, b, c \in Seq(Entry) : (a \o b) \o c = a \o (b \o c)
BY ConcatAssociative

\* An entry inserted behind the first of two parts is between them.
LEMMA EntryBetween ==
    \A u, v \in Seq(Entry), e \in Entry : InsertAt(u \o v, Len(u) + 1, e) = u \o (<<e>> \o v)
BY InsertBetween

\* An entry removed from the middle of three parts leaves the other two as they are.
LEMMA EntryRemoved ==
    \A u, x, v \in Seq(Entry) : \A p \in 1 .. Len(x) :
        /\ Len(u) + p \in 1 .. Len(u \o x \o v)
        /\ RemoveAt(u \o x \o v, Len(u) + p) = u \o RemoveAt(x, p) \o v
<1> SUFFICES ASSUME NEW u \in Seq(Entry), NEW x \in Seq(Entry), NEW v \in Seq(Entry), NEW p \in 1 .. Len(x)
             PROVE  /\ Len(u) + p \in 1 .. Len(u \o x \o v)
                    /\ RemoveAt(u \o x \o v, Len(u) + p) = u \o RemoveAt(x, p) \o v
  OBVIOUS
<1> QED BY RemoveFromPart, SMTT(30)

\* The number of a set's elements is what the instance of RankedList says it is.
LEMMA SameCardinality == \A s : Abstract!Cardinality(s) = Cardinality(s)
BY DEF Abstract!Cardinality, Cardinality

\* An item goes behind the entries of larger keys (radixsort_add).
LEMMA LinkIsAdd ==
    ASSUME IInv, NEW i \in Item, NEW k \in Keys, AddFiled(i, k),
           NEW q \in Nat, q = FiledKey(k), Top(q) \in Tops
    PROVE  Abstract!Add(i, q) /\ q \in 0 .. (KeyLimit - 1)
<1> DEFINE e == [item |-> i, key |-> q]
           x == Entries(Chain(q), q)
<1>1. /\ i \notin Filed /\ pc = "open" /\ pc' = "open"
      /\ \A j \in Nat : Top(j) \in Tops =>
            topDigits'[Top(j)][Low(j)] = IF j = q THEN Linked(Chain(q), i) ELSE Chain(j)
  <2>1. pc = "open" /\ pc' = "open"
    BY DEF AddFiled, Running, dumpVars
  <2>2. i \notin Filed
    BY ItemLinked
  <2>3. \A j \in Nat : Top(j) \in Tops =>
            topDigits'[Top(j)][Low(j)] = IF j = q THEN Linked(Chain(j), i) ELSE Chain(j)
    BY ItemLinked
  <2> QED BY <2>1, <2>2, <2>3
<1>2. TypeOK /\ ChainsWellFormed
  BY DEF IInv
<1>3. PICK u \in Seq(Entry), v \in Seq(Entry) :
         /\ Ranked = u \o x \o v
         /\ \A y \in Seq(Entry) : FlattenSeq([Rows EXCEPT ![Place(q)] = y]) = u \o y \o v
         /\ \A f \in ToSet(u) : f.key > q /\ f.key \in Nat
         /\ \A f \in ToSet(v) : f.key < q /\ f.key \in Nat
  BY <1>2, RowsSplit
<1>4. Chain(q) \in Seq(Item) /\ x \in Seq(Entry) /\ (\A f \in ToSet(x) : f.key = q) /\ e \in Entry
  BY <1>2, RowsSplit, EntriesOfChain DEF Entry
<1>5. <<e>> \in Seq(Entry)
  <2> HIDE DEF e
  <2> QED BY <1>4
<1>6. Entries(Linked(Chain(q), i), q) = <<e>> \o x
  BY <1>4, EntriesLinked
<1> HIDE DEF e, x
<1>7. <<e>> \o x \in Seq(Entry)
  BY <1>4, <1>5, ConcatProperties
<1>8. Ranked' = u \o (<<e>> \o x) \o v
  <2>1. Ranked' = FlattenSeq([Rows EXCEPT ![Place(q)] = Entries(Linked(Chain(q), i), q)])
    BY <1>1, <1>2, RowChanged
  <2> QED BY <1>3, <1>6, <1>7, <2>1
<1>9. Abstract!Position(q) = Len(u) + 1
  <2> DEFINE r == Ranked
             before == {n \in DOMAIN r : r[n].key > q}
             a == Len(u)
             b == Len(x)
             c == Len(v)
  <2>1. /\ r \in Seq(Entry) /\ Len(r) = a + b + c
        /\ \A n \in 1 .. a + b + c : r[n] = IF n <= a THEN u[n]
                                            ELSE IF n <= a + b THEN x[n - a]
                                            ELSE v[n - (a + b)]
    BY <1>3, <1>4, ThreeParts
  <2>2. a \in Nat /\ b \in Nat /\ c \in Nat
    BY <1>4
  <2>3. DOMAIN u = 1 .. a /\ DOMAIN x = 1 .. b /\ DOMAIN v = 1 .. c
    BY <1>4
  <2> HIDE DEF r, a, b, c
  <2>4. DOMAIN r = 1 .. a + b + c
    BY <2>1, LenProperties
  <2>5. ASSUME NEW n \in 1 .. a + b + c PROVE r[n].key > q <=> n \in 1 .. a
    <3>1. CASE n <= a
      <4>1. r[n] = u[n] /\ n \in DOMAIN u
        BY <2>1, <2>2, <2>3, <3>1
      <4>2. r[n] \in ToSet(u)
        BY <4>1 DEF ToSet
      <4> QED BY <1>3, <2>2, <3>1, <4>2
    <3>2. CASE n > a /\ n <= a + b
      <4>1. r[n] = x[n - a] /\ n - a \in DOMAIN x
        BY <2>1, <2>2, <2>3, <3>2
      <4>2. r[n] \in ToSet(x)
        BY <4>1 DEF ToSet
      <4> QED BY <1>4, <2>2, <3>2, <4>2
    <3>3. CASE n > a + b
      <4>1. r[n] = v[n - (a + b)] /\ n - (a + b) \in DOMAIN v
        BY <2>1, <2>2, <2>3, <3>3
      <4>2. r[n] \in ToSet(v)
        BY <4>1 DEF ToSet
      <4> QED BY <1>3, <2>2, <3>3, <4>2
    <3> QED BY <2>2, <3>1, <3>2, <3>3
  <2>6. before = 1 .. a
    BY <2>2, <2>4, <2>5
  <2>7. Cardinality(1 .. a) = a
    BY <2>2, FS_Interval
  <2>8. Abstract!Position(q) = Cardinality(before) + 1
    <3>1. Abstract!Position(q) = Abstract!Cardinality(before) + 1
      BY DEF Abstract!Position, r
    <3> HIDE DEF before
    <3> QED BY <3>1, SameCardinality
  <2> HIDE DEF before
  <2> QED BY <2>6, <2>7, <2>8 DEF a
<1>10. InsertAt(Ranked, Len(u) + 1, e) = Ranked'
  <2> DEFINE tail == x \o v
             more == <<e>> \o x
  <2>1. tail \in Seq(Entry) /\ u \in Seq(Entry) /\ more \in Seq(Entry)
    BY <1>4, <1>7, ConcatProperties
  <2>2. Ranked = u \o tail
    BY <1>3, <1>4, EntriesAssociate, Zenon
  <2>3. more \o v = <<e>> \o tail
    BY <1>4, <1>5, EntriesAssociate, Zenon
  <2> HIDE DEF tail, more
  <2>4. InsertAt(u \o tail, Len(u) + 1, e) = u \o (<<e>> \o tail)
    BY <1>4, <2>1, EntryBetween, Zenon
  <2>5. (u \o more) \o v = u \o (more \o v)
    BY <2>1, EntriesAssociate, Zenon
  <2> QED BY <1>8, <2>2, <2>3, <2>4, <2>5 DEF more
<1>11. i \notin Abstract!Listed
  BY <1>1, <1>2, ListedAreFiled
<1>12. Handed = <<>> /\ Handed' = Handed
  BY <1>1 DEF Handed
<1>13. q \in 0 .. (KeyLimit - 1)
  BY PlaceOfKey
<1>14. Ranked' = Abstract!InsertAt(Ranked, Abstract!Position(q), e)
  BY <1>9, <1>10 DEF InsertAt, Abstract!InsertAt
<1> QED BY <1>11, <1>12, <1>13, <1>14 DEF Abstract!Add, e

\* An entry is deleted (radix_cut).
LEMMA CutIsDelete ==
    ASSUME IInv, NEW i \in Item, NEW k \in Keys, CutFound(i, k)
    PROVE  \E n \in DOMAIN Ranked : Abstract!Delete(n)
<1> DEFINE x == Entries(Chain(k), k)
<1>1. /\ TypeOK /\ k \in Nat /\ Top(k) \in Tops /\ i \in ToSet(Chain(k))
      /\ pc = "open" /\ pc' = "open"
      /\ \A j \in Nat : Top(j) \in Tops =>
            topDigits'[Top(j)][Low(j)] = IF j = k THEN Unlinked(Chain(k), i) ELSE Chain(j)
  <2>1. TypeOK /\ k \in Nat
    BY KeysAssumption DEF IInv
  <2>2. Top(k) \in Tops /\ i \in ToSet(Chain(k)) /\ pc = "open" /\ pc' = "open"
    BY DEF CutFound, CutOutcome, Running, dumpVars
  <2>3. \A j \in Nat : Top(j) \in Tops =>
            topDigits'[Top(j)][Low(j)] = IF j = k THEN Unlinked(Chain(j), i) ELSE Chain(j)
    BY ItemCut
  <2> QED BY <2>1, <2>2, <2>3
<1>2. PICK u \in Seq(Entry), v \in Seq(Entry) :
         /\ Ranked = u \o x \o v
         /\ \A y \in Seq(Entry) : FlattenSeq([Rows EXCEPT ![Place(k)] = y]) = u \o y \o v
  BY <1>1, RowsSplit
<1>3. Chain(k) \in Seq(Item) /\ x \in Seq(Entry) /\ Len(x) = Len(Chain(k))
  BY <1>1, RowsSplit, EntriesOfChain
<1>4. PICK p \in 1 .. Len(Chain(k)) : Entries(Unlinked(Chain(k), i), k) = RemoveAt(x, p)
  BY <1>1, <1>3, EntriesUnlinked
<1> HIDE DEF x
<1>5. p \in 1 .. Len(x) /\ RemoveAt(x, p) \in Seq(Entry)
  BY <1>3, RemoveAtProperties
<1>6. Ranked' = u \o RemoveAt(x, p) \o v
  <2>1. Ranked' = FlattenSeq([Rows EXCEPT ![Place(k)] = Entries(Unlinked(Chain(k), i), k)])
    BY <1>1, RowChanged
  <2> QED BY <1>2, <1>4, <1>5, <2>1
<1>7. /\ Len(u) + p \in 1 .. Len(u \o x \o v)
      /\ RemoveAt(u \o x \o v, Len(u) + p) = u \o RemoveAt(x, p) \o v
  <2>1. x \in Seq(Entry) /\ p \in 1 .. Len(x)
    BY <1>3, <1>5
  <2> QED BY <2>1, EntryRemoved, Zenon
<1>8. Ranked \in Seq(Entry)
  BY <1>2, <1>3, ThreeParts
<1>9. Len(u) + p \in DOMAIN Ranked
  BY <1>2, <1>7, <1>8, LenProperties
<1>10. Handed = <<>> /\ Handed' = Handed
  BY <1>1 DEF Handed
<1>11. Ranked' = Abstract!RemoveAt(Ranked, Len(u) + p)
  BY <1>2, <1>6, <1>7 DEF RemoveAt, Abstract!RemoveAt
<1> QED BY <1>9, <1>10, <1>11 DEF Abstract!Delete

\* The items of entries, as the caller is handed them.
Items(list) == [n \in DOMAIN list |-> list[n].item]

\* The entries of the chains all of whose items are in a set.
Dumped(items) == [n \in KeysDown |-> IF ToSet(Chain(KeyDown(n))) \subseteq items THEN Rows[n] ELSE <<>>]

\* What dump has copied is the list of the chains it has been at, in the order of the list.
DumpFollowsList == pc # "open" => result = Items(FlattenSeq(Dumped(ToSet(result))))

\* The items of entries put together, and of the entries of a chain.
LEMMA ItemsOfEntries ==
    /\ Items(<<>>) = <<>>
    /\ \A u, x \in Seq(Entry) : Items(u \o x) = Items(u) \o Items(x)
    /\ \A chain \in Seq(Item) : \A k \in Nat : Items(Entries(chain, k)) = chain
<1>0. ASSUME NEW u \in Seq(Entry)
      PROVE  /\ Items(u) \in Seq(Item) /\ Len(Items(u)) = Len(u)
             /\ \A n \in 1 .. Len(u) : Items(u)[n] = u[n].item
  <2>1. DOMAIN u = 1 .. Len(u) /\ Len(u) \in Nat /\ \A n \in 1 .. Len(u) : u[n] \in Entry
    BY LenProperties
  <2>2. \A n \in 1 .. Len(u) : u[n].item \in Item
    BY <2>1 DEF Entry
  <2>3. Items(u) = [n \in 1 .. Len(u) |-> u[n].item]
    BY <2>1 DEF Items
  <2>4. Items(u) \in [1 .. Len(u) -> Item]
    BY <2>2, <2>3
  <2> QED BY <2>1, <2>3, <2>4
<1>1. Items(<<>>) = <<>>
  <2>1. <<>> \in Seq(Entry) /\ Len(<<>>) = 0
    OBVIOUS
  <2> DEFINE z == Items(<<>>)
  <2>2. z \in Seq(Item) /\ Len(z) = 0
    BY <1>0, <2>1
  <2> HIDE DEF z
  <2>3. z = <<>>
    BY <2>2, EmptySeq
  <2> QED BY <2>3 DEF z
<1>2. ASSUME NEW u \in Seq(Entry), NEW x \in Seq(Entry) PROVE Items(u \o x) = Items(u) \o Items(x)
  <2> DEFINE s == u \o x
             a == Items(u)
             b == Items(x)
             c == Items(s)
             d == a \o b
  <2>1. /\ s \in Seq(Entry) /\ Len(s) = Len(u) + Len(x)
        /\ \A n \in 1 .. Len(u) + Len(x) : s[n] = IF n <= Len(u) THEN u[n] ELSE x[n - Len(u)]
    BY ConcatProperties
  <2> HIDE DEF s
  <2>2. /\ a \in Seq(Item) /\ Len(a) = Len(u) /\ \A n \in 1 .. Len(u) : a[n] = u[n].item
    BY <1>0
  <2>3. /\ b \in Seq(Item) /\ Len(b) = Len(x) /\ \A n \in 1 .. Len(x) : b[n] = x[n].item
    BY <1>0
  <2>4. /\ c \in Seq(Item) /\ Len(c) = Len(s) /\ \A n \in 1 .. Len(s) : c[n] = s[n].item
    BY <1>0, <2>1
  <2> HIDE DEF a, b, c
  <2>5. /\ d \in Seq(Item) /\ Len(d) = Len(a) + Len(b)
        /\ \A n \in 1 .. Len(a) + Len(b) : d[n] = IF n <= Len(a) THEN a[n] ELSE b[n - Len(a)]
    <3>1. a \in Seq(Item) /\ b \in Seq(Item)
      BY <2>2, <2>3
    <3> QED BY <3>1, ConcatProperties
  <2> HIDE DEF d
  <2>6. ASSUME NEW n \in 1 .. Len(u) + Len(x) PROVE c[n] = d[n]
    <3>1. Len(u) \in Nat /\ Len(x) \in Nat
      BY LenProperties
    <3>2. CASE n <= Len(u)
      <4>1. n \in 1 .. Len(u) /\ n \in 1 .. Len(s) /\ n \in 1 .. Len(a) + Len(b) /\ n <= Len(a)
        BY <2>1, <2>2, <2>3, <3>1, <3>2
      <4>2. s[n] = u[n] /\ c[n] = s[n].item /\ d[n] = a[n]
        BY <2>1, <2>4, <2>5, <3>2, <4>1
      <4> QED BY <2>2, <4>1, <4>2
    <3>3. CASE ~(n <= Len(u))
      <4>1. n - Len(u) \in 1 .. Len(x)
        BY <3>1, <3>3
      <4>2. s[n] = x[n - Len(u)] /\ c[n] = s[n].item /\ d[n] = b[n - Len(u)]
        BY <2>1, <2>2, <2>3, <2>4, <2>5, <3>3
      <4> QED BY <2>3, <4>1, <4>2
    <3> QED BY <3>2, <3>3
  <2>7. Len(c) = Len(u) + Len(x) /\ Len(d) = Len(u) + Len(x)
    BY <2>1, <2>2, <2>3, <2>4, <2>5
  <2>8. c = d
    BY <2>4, <2>5, <2>6, <2>7, SeqEqual
  <2> QED BY <2>8 DEF a, b, c, d, s
<1>3. ASSUME NEW chain \in Seq(Item), NEW k \in Nat PROVE Items(Entries(chain, k)) = chain
  <2> DEFINE x == Entries(chain, k)
             c == Items(x)
  <2>1. /\ x \in Seq(Entry) /\ Len(x) = Len(chain)
        /\ \A n \in 1 .. Len(chain) : x[n] = [item |-> chain[n], key |-> k]
    BY EntriesOfChain
  <2> HIDE DEF x
  <2>2. /\ c \in Seq(Item) /\ Len(c) = Len(x) /\ \A n \in 1 .. Len(x) : c[n] = x[n].item
    BY <1>0, <2>1
  <2> HIDE DEF c
  <2>3. ASSUME NEW n \in 1 .. Len(chain) PROVE c[n] = chain[n]
    <3>1. c[n] = x[n].item /\ x[n] = [item |-> chain[n], key |-> k]
      BY <2>1, <2>2
    <3> QED BY <3>1
  <2>4. c = chain
    BY <2>1, <2>2, <2>3, SeqEqual
  <2> QED BY <2>4 DEF c, x
<1> QED BY <1>1, <1>2, <1>3

\* The entries dump has been at, row after row.
LEMMA DumpedType ==
    ASSUME TypeOK, NEW items
    PROVE  /\ Dumped(items) \in Seq(Seq(Entry)) /\ Len(Dumped(items)) = Top(KeyLimit) * SlotSize
           /\ DOMAIN Dumped(items) = KeysDown
           /\ \A n \in KeysDown :
                 Dumped(items)[n] = IF ToSet(Chain(KeyDown(n))) \subseteq items THEN Rows[n] ELSE <<>>
<1> DEFINE N == Top(KeyLimit) * SlotSize
           T == Seq(Entry)
           d == Dumped(items)
<1>1. N \in Nat /\ KeysDown = 1 .. N
  BY PlaceOfKey DEF KeysDown
<1>2. \A n \in KeysDown : d[n] = IF ToSet(Chain(KeyDown(n))) \subseteq items THEN Rows[n] ELSE <<>>
  BY DEF Dumped
<1>3. \A n \in KeysDown : Rows[n] \in T
  BY RowsType
<1>4. <<>> \in T
  OBVIOUS
<1>5. d \in [1 .. N -> T]
  <2>1. d = [n \in KeysDown |-> d[n]]
    BY DEF Dumped
  <2> HIDE DEF N, T, d
  <2> QED BY <1>1, <1>2, <1>3, <1>4, <2>1
<1>6. d \in Seq(T) /\ Len(d) = N /\ DOMAIN d = 1 .. N
  <2> HIDE DEF N, T, d
  <2> QED BY <1>1, <1>5
<1> QED BY <1>1, <1>2, <1>6

\* Before dump has copied anything.
LEMMA NothingDumped ==
    ASSUME TypeOK
    PROVE  Items(FlattenSeq(Dumped({}))) = <<>>
<1> DEFINE d == Dumped({})
<1>1. /\ d \in Seq(Seq(Entry)) /\ KeysDown = 1 .. Len(d)
      /\ \A n \in KeysDown : d[n] = IF ToSet(Chain(KeyDown(n))) \subseteq {} THEN Rows[n] ELSE <<>>
  BY DumpedType DEF KeysDown
<1>2. ASSUME NEW n \in KeysDown, ToSet(Chain(KeyDown(n))) \subseteq {} PROVE Rows[n] = <<>>
  <2> DEFINE c == Chain(KeyDown(n))
  <2>1. c \in Seq(Item) /\ Rows[n] \in Seq(Entry) /\ Rows[n] = Entries(c, KeyDown(n)) /\ KeyDown(n) \in Nat
    BY RowsType, PlaceOfKey
  <2>2. Len(Rows[n]) = Len(c)
    BY <2>1, EntriesOfChain
  <2> HIDE DEF c
  <2>3. Len(c) = 0
    <3>1. DOMAIN c = 1 .. Len(c) /\ Len(c) \in Nat
      BY <2>1, LenProperties
    <3>2. ToSet(c) = {}
      BY <1>2 DEF c
    <3>3. Len(c) > 0 => c[1] \in ToSet(c)
      BY <3>1 DEF ToSet
    <3> QED BY <3>1, <3>2, <3>3
  <2> QED BY <2>1, <2>2, <2>3, EmptySeq
<1>3. \A n \in 1 .. Len(d) : d[n] = <<>>
  BY <1>1, <1>2
<1> HIDE DEF d
<1>4. FlattenSeq(d) = <<>>
  BY <1>1, <1>3, FlattenNothing
<1> QED BY <1>4, ItemsOfEntries DEF d

\* When everything is copied, what has been copied is the whole list.
LEMMA EverythingDumped ==
    ASSUME TypeOK, ChainsWellFormed
    PROVE  FlattenSeq(Dumped(Filed)) = Ranked
<1>1. ASSUME NEW n \in KeysDown PROVE ToSet(Chain(KeyDown(n))) \subseteq Filed
  <2>1. Top(KeyDown(n)) \in Tops /\ Low(KeyDown(n)) \in Lows
    BY PlaceOfKey, IndexesOfKey
  <2> QED BY <2>1, ItemsOfChain DEF Chain
<1>2. Dumped(Filed) = Rows
  <2>1. \A n \in KeysDown : Dumped(Filed)[n] = Rows[n]
    BY <1>1 DEF Dumped
  <2> QED BY <2>1 DEF Dumped, Rows
<1> QED BY <1>2 DEF Ranked, Rows

\* The chain dump copies is the next one of the list that has an item.
LEMMA ChainIsNextRow ==
    ASSUME IInv, DumpFollowsList, DumpChain
    PROVE  result' = Items(FlattenSeq(Dumped(ToSet(result'))))
<1> DEFINE chain == topDigits[t][l]
           before == ToSet(result)
           after == ToSet(result')
<1> USE DEF IInv
<1>1. /\ TypeOK /\ ChainsWellFormed /\ pc = "chain" /\ t \in Tops /\ l \in Lows /\ result \in Seq(Item)
      /\ before = {i \in Filed : \/ Top(key[i]) > t
                                 \/ Top(key[i]) = t /\ Low(key[i]) > l}
      /\ result' = result \o chain
  BY DEF DumpChain, DumpProgress, Copied, TypeOK
<1>2. /\ chain \in Seq(Item)
      /\ ToSet(chain) = {i \in Filed : Top(key[i]) = t /\ Low(key[i]) = l}
  BY <1>1, ItemsOfChain DEF TypeOK
<1>3. result = Items(FlattenSeq(Dumped(before)))
  BY <1>1 DEF DumpFollowsList
<1>4. after = before \cup ToSet(chain)
  BY <1>1, <1>2, ToSetJoin
<1>5. CASE chain = <<>>
  <2>1. result \o <<>> = result
    BY <1>1, ConcatEmptySeq
  <2>2. result' = result
    BY <1>1, <1>5, <2>1
  <2> QED BY <1>3, <2>2
<1>6. CASE chain # <<>>
  <2>1. PICK i : i \in ToSet(chain)
    <3> HIDE DEF chain
    <3>1. Len(chain) \in Nat /\ Len(chain) # 0 /\ DOMAIN chain = 1 .. Len(chain)
      BY <1>2, <1>6, EmptySeq, LenProperties
    <3>2. chain[1] \in ToSet(chain)
      BY <3>1 DEF ToSet
    <3> QED BY <3>2
  <2> DEFINE k == key[i]
             p == Place(k)
             x == Entries(chain, k)
             d == Dumped(before)
             e == Dumped(after)
  <2>2. k \in Nat /\ Top(k) = t /\ Low(k) = l /\ chain = Chain(k)
    BY <1>2, <2>1, IndexesOfItem DEF Chain
  <2>3. p \in KeysDown /\ KeyDown(p) = k /\ KeysDown = 1 .. Len(d) /\ Len(d) = Len(e)
        /\ d \in Seq(Seq(Entry)) /\ Len(d) \in Nat /\ DOMAIN d = KeysDown /\ DOMAIN e = KeysDown
    BY <1>1, <2>2, PlaceOfKey, DumpedType DEF KeysDown
  <2> HIDE DEF k, p
  <2>4. Rows[p] = x /\ x \in Seq(Entry)
    BY <1>2, <2>2, <2>3, RowsType, EntriesOfChain
  <2>5. ASSUME NEW n \in KeysDown
        PROVE  /\ Top(KeyDown(n)) \in Tops /\ Low(KeyDown(n)) \in Lows /\ KeyDown(n) \in Nat
               /\ ToSet(Chain(KeyDown(n))) = {j \in Filed : Top(key[j]) = Top(KeyDown(n))
                                                            /\ Low(key[j]) = Low(KeyDown(n))}
    <3>1. Top(KeyDown(n)) \in Tops /\ Low(KeyDown(n)) \in Lows /\ KeyDown(n) \in Nat
      BY PlaceOfKey, IndexesOfKey
    <3> QED BY <3>1, <1>1, ItemsOfChain DEF Chain
  <2>6. d[p] = <<>> /\ e[p] = x
    <3>1. i \notin before /\ ToSet(chain) \subseteq after
      BY <1>1, <1>2, <1>4, <2>1 DEF Tops, Lows
    <3>2. ~(ToSet(Chain(KeyDown(p))) \subseteq before) /\ ToSet(Chain(KeyDown(p))) \subseteq after
      BY <2>1, <2>2, <2>3, <3>1
    <3> QED BY <2>3, <2>4, <3>2, DumpedType
  <2>7. ASSUME NEW n \in KeysDown, n # p PROVE e[n] = d[n]
    <3>1. KeyDown(n) # k
      BY <2>3, <2>7, PlaceOfKey
    <3>2. ToSet(Chain(KeyDown(n))) \cap ToSet(chain) = {}
      BY <1>2, <2>2, <2>5, <3>1, IndexesOrderKeys
    <3>3. ToSet(Chain(KeyDown(n))) \subseteq after <=> ToSet(Chain(KeyDown(n))) \subseteq before
      BY <1>4, <3>2
    <3> QED BY <3>3, DumpedType
  <2>8. ASSUME NEW n \in KeysDown, n > p PROVE d[n] = <<>>
    <3>1. KeyDown(n) < k
      <4>1. p < n
        BY <2>3, <2>8 DEF KeysDown
      <4> QED BY <2>3, <4>1, PlaceOfKey
    <3>2. ASSUME ToSet(Chain(KeyDown(n))) \subseteq before PROVE ToSet(Chain(KeyDown(n))) = {}
      <4> SUFFICES ASSUME NEW j \in ToSet(Chain(KeyDown(n))) PROVE FALSE
        OBVIOUS
      <4>1. j \in Filed /\ Top(key[j]) = Top(KeyDown(n)) /\ Low(key[j]) = Low(KeyDown(n)) /\ key[j] \in Nat
        BY <2>5, IndexesOfItem
      <4>2. key[j] = KeyDown(n)
        BY <2>5, <4>1, IndexesOrderKeys
      <4>3. Top(key[j]) > Top(k) \/ (Top(key[j]) = Top(k) /\ Low(key[j]) > Low(k))
        BY <1>1, <2>2, <3>2
      <4>4. Top(key[j]) \in Nat /\ Top(k) \in Nat /\ Low(key[j]) \in Nat /\ Low(k) \in Nat
        BY <2>2, <4>1, IndexesOfKey DEF Lows
      <4>5. Top(k) < Top(key[j]) => k < key[j]
        BY <2>2, <4>1, IndexesOrderKeys
      <4>6. Top(key[j]) = Top(k) => (key[j] <= k <=> Low(key[j]) <= Low(k))
        BY <2>2, <4>1, IndexesOrderKeys
      <4> QED BY <2>2, <3>1, <4>1, <4>2, <4>3, <4>4, <4>5, <4>6
    <3>3. ASSUME ToSet(Chain(KeyDown(n))) = {} PROVE Rows[n] = <<>>
      <4> DEFINE c == Chain(KeyDown(n))
      <4>1. c \in Seq(Item) /\ Rows[n] \in Seq(Entry) /\ Len(Rows[n]) = Len(c)
        BY <2>5, RowsType, EntriesOfChain
      <4> HIDE DEF c
      <4>2. DOMAIN c = 1 .. Len(c) /\ Len(c) \in Nat /\ (Len(c) > 0 => c[1] \in ToSet(c)) /\ ToSet(c) = {}
        BY <3>3, <4>1, LenProperties DEF ToSet, c
      <4> QED BY <4>1, <4>2, EmptySeq
    <3> QED BY <3>2, <3>3, DumpedType
  <2> HIDE DEF d, e, x
  <2>9. PICK u, v : IsSplit(u, v, Entry, d, p)
    <3>1. d \in Seq(Seq(Entry)) /\ p \in 1 .. Len(d)
      BY <2>3
    <3> QED BY <3>1, FlattenSplit
  <2>10. /\ u \in Seq(Entry) /\ v \in Seq(Entry)
         /\ \A y \in Seq(Entry) : FlattenSeq([d EXCEPT ![p] = y]) = u \o y \o v
         /\ ToSet(v) = UNION {ToSet(d[n]) : n \in p + 1 .. Len(d)}
    BY <2>9 DEF IsSplit
  <2>11. v = <<>>
    <3>1. \A n \in p + 1 .. Len(d) : n \in KeysDown /\ n > p
      BY <2>3
    <3>2. \A n \in p + 1 .. Len(d) : d[n] = <<>>
      BY <2>8, <3>1
    <3>3. ToSet(<<>>) = {}
      BY DEF ToSet
    <3>4. ToSet(v) = {}
      BY <2>10, <3>2, <3>3
    <3>5. DOMAIN v = 1 .. Len(v) /\ Len(v) \in Nat
      BY <2>10, LenProperties
    <3>6. Len(v) > 0 => v[1] \in ToSet(v)
      BY <3>5 DEF ToSet
    <3>7. Len(v) = 0
      BY <3>4, <3>5, <3>6
    <3>8. v \in Seq(Entry)
      BY <2>10
    <3> QED BY <3>7, <3>8, EmptySeq
  <2>12. [d EXCEPT ![p] = <<>>] = d /\ [d EXCEPT ![p] = x] = e
    <3>1. d = [n \in KeysDown |-> d[n]] /\ e = [n \in KeysDown |-> e[n]]
      BY DEF d, e, Dumped
    <3> QED BY <2>3, <2>6, <2>7, <3>1
  <2>13. <<>> \in Seq(Entry) /\ (\A y \in Seq(Entry) : y \o <<>> = y)
    BY ConcatEmptySeq
  <2>14. FlattenSeq(d) = u /\ FlattenSeq(e) = u \o x
    <3>1. FlattenSeq(d) = u \o <<>> \o <<>> /\ FlattenSeq(e) = u \o x \o <<>>
      BY <2>4, <2>10, <2>11, <2>12, <2>13
    <3>2. u \o x \in Seq(Entry)
      BY <2>4, <2>10, ConcatProperties
    <3> QED BY <2>10, <2>13, <3>1, <3>2
  <2>15. Items(FlattenSeq(e)) = Items(u) \o Items(x) /\ Items(x) = chain /\ Items(u) = result
    <3>1. Items(u \o x) = Items(u) \o Items(x)
      BY <2>4, <2>10, ItemsOfEntries
    <3>2. Items(x) = chain
      BY <1>2, <2>2, ItemsOfEntries DEF x
    <3> QED BY <1>3, <2>14, <3>1, <3>2 DEF d
  <2> HIDE DEF chain
  <2> QED BY <1>1, <2>15 DEF e
<1> QED BY <1>5, <1>6

\* Every step keeps it.
LEMMA NextFollowsList ==
    ASSUME IInv, DumpFollowsList, [Next]_vars
    PROVE  DumpFollowsList'
<1>1. CASE pc' = "open"
  BY <1>1 DEF DumpFollowsList
<1>2. ASSUME topDigits' = topDigits, result' = Items(FlattenSeq(Dumped(ToSet(result'))))
      PROVE  DumpFollowsList'
  <2>1. Dumped(ToSet(result))' = Dumped(ToSet(result'))
    BY <1>2 DEF Dumped, Rows, Chain
  <2>2. Items(FlattenSeq(Dumped(ToSet(result))))' = Items(FlattenSeq(Dumped(ToSet(result'))))
    BY <2>1 DEF Items
  <2> QED BY <1>2, <2>2 DEF DumpFollowsList
<1>3. CASE DumpBegin
  <2>1. result' = <<>> /\ topDigits' = topDigits
    BY <1>3, OpenCopiesNothing DEF IInv, DumpBegin, Running, store
  <2>2. ToSet(result') = {}
    BY <2>1 DEF ToSet
  <2>3. Items(FlattenSeq(Dumped({}))) = <<>>
    BY NothingDumped DEF IInv
  <2> QED BY <1>2, <2>1, <2>2, <2>3
<1>4. CASE DumpSlot \/ UNCHANGED vars
  <2>1. topDigits' = topDigits /\ result' = result /\ (pc = "open" => pc' = "open")
    BY <1>4 DEF DumpSlot, vars, dumpVars, store
  <2> QED BY <1>1, <1>2, <2>1 DEF DumpFollowsList
<1>5. CASE DumpChain
  <2>1. topDigits' = topDigits
    BY <1>5 DEF DumpChain, store
  <2> QED BY <1>2, <1>5, <2>1, ChainIsNextRow
<1>6. ASSUME NEW i \in Item, NEW k \in Keys,
             AddFiled(i, k) \/ AddRefused(i, k) \/ CutFound(i, k) \/ CutMissed(i, k)
      PROVE  DumpFollowsList'
  <2>1. pc' = "open"
    BY <1>6 DEF AddFiled, AddRefused, CutFound, CutMissed, Running, dumpVars
  <2> QED BY <1>1, <2>1
<1> QED BY <1>3, <1>4, <1>5, <1>6 DEF Next, Dump

\* The list dump hands over is the list of the chains (radixsort_dump).
LEMMA DumpIsHandOver ==
    ASSUME IInv, DumpFollowsList, Dump, IInv', DumpFollowsList'
    PROVE  Abstract!HandOver \/ UNCHANGED Abstract!vars
<1>1. topDigits' = topDigits /\ key' = key /\ Handed = <<>> /\ pc # "done"
  BY DEF Dump, DumpBegin, DumpSlot, DumpChain, Running, store, Handed
<1>2. Ranked' = Ranked
  BY <1>1 DEF Ranked, Chain
<1>3. CASE pc' # "done"
  BY <1>1, <1>2, <1>3 DEF Abstract!vars, Handed
<1>4. CASE pc' = "done"
  <2>1. ToSet(result') = Filed' /\ Filed' = Filed
    BY <1>1, <1>4 DEF IInv, DumpProgress, Copied, Filed, Chain
  <2>2. Items(FlattenSeq(Dumped(ToSet(result))))' = Items(FlattenSeq(Dumped(Filed)))
    BY <1>1, <2>1 DEF Items, Dumped, Rows, Chain
  <2>3. Handed' = Items(Ranked)
    BY <1>4, <2>2, EverythingDumped DEF DumpFollowsList, IInv, Handed
  <2> QED BY <1>1, <1>2, <2>3 DEF Abstract!HandOver, Items
<1> QED BY <1>3, <1>4

\* Every step is one of the list's, or none.
LEMMA NextIsAbstract ==
    ASSUME IInv, DumpFollowsList, [Next]_vars, IInv', DumpFollowsList'
    PROVE  [Abstract!Next]_(Abstract!vars)
<1>1. ASSUME NEW i \in Item, NEW k \in Keys, AddFiled(i, k)
      PROVE  [Abstract!Next]_(Abstract!vars)
  <2>1. FiledKey(k) \in Nat
    BY FiledKeyType
  <2>2. CASE Top(FiledKey(k)) \in Tops
    <3>1. Abstract!Add(i, FiledKey(k)) /\ FiledKey(k) \in 0 .. (KeyLimit - 1)
      BY <1>1, <2>1, <2>2, LinkIsAdd
    <3> QED BY <3>1 DEF Abstract!Next
  <2>3. CASE Top(FiledKey(k)) \notin Tops
    <3>1. UNCHANGED <<topDigits, pc, result>>
      BY <1>1, <2>3 DEF AddFiled, File, dumpVars
    <3> QED BY <3>1, SameChains
  <2> QED BY <2>2, <2>3
<1>2. ASSUME NEW i \in Item, NEW k \in Keys, AddRefused(i, k) \/ CutMissed(i, k)
      PROVE  [Abstract!Next]_(Abstract!vars)
  <2>1. UNCHANGED <<topDigits, pc, result>>
    BY <1>2 DEF AddRefused, CutMissed, dumpVars
  <2> QED BY <2>1, SameChains
<1>3. ASSUME NEW i \in Item, NEW k \in Keys, CutFound(i, k)
      PROVE  [Abstract!Next]_(Abstract!vars)
  BY <1>3, CutIsDelete DEF Abstract!Next
<1>4. CASE Dump
  BY <1>4, DumpIsHandOver DEF Abstract!Next
<1>5. CASE UNCHANGED vars
  <2>1. UNCHANGED <<topDigits, pc, result>>
    BY <1>5 DEF vars, dumpVars, store
  <2> QED BY <2>1, SameChains
<1> QED BY <1>1, <1>2, <1>3, <1>4, <1>5 DEF Next

\* An empty sorter is an empty list.
LEMMA InitIsAbstract ==
    ASSUME Init, IInv
    PROVE  Abstract!Init
<1>1. TypeOK /\ ChainsWellFormed
  BY DEF IInv
<1>2. Filed = {}
  BY IndexesOfKey DEF Init, Filed, Chain, ToSet
<1>3. Rows \in Seq(Seq(Entry)) /\ KeysDown = 1 .. Len(Rows)
  BY <1>1, RowsType DEF KeysDown
<1>4. ASSUME NEW n \in KeysDown PROVE Rows[n] = <<>>
  <2>1. /\ Top(KeyDown(n)) \in Tops /\ Low(KeyDown(n)) \in Lows
        /\ Rows[n] = Entries(Chain(KeyDown(n)), KeyDown(n))
    BY <1>1, PlaceOfKey, IndexesOfKey, RowsType
  <2>2. Chain(KeyDown(n)) = <<>>
    BY <2>1 DEF Init, Chain
  <2> QED BY <2>1, <2>2 DEF Entries
<1>5. FlattenSeq(Rows) = <<>>
  <2> DEFINE R == Rows
  <2>1. R \in Seq(Seq(Entry)) /\ \A n \in 1 .. Len(R) : R[n] = <<>>
    BY <1>3, <1>4
  <2> HIDE DEF R
  <2>2. FlattenSeq(R) = <<>>
    BY <2>1, FlattenNothing
  <2> QED BY <2>2 DEF R
<1>6. Ranked = <<>> /\ Handed = <<>>
  BY <1>5 DEF Init, Ranked, Rows, Handed
<1> QED BY <1>6 DEF Abstract!Init

\* The dump walks the list: at every moment what it has copied is what the list has
\* of the chains it has been at, in the list's order.
THEOREM DumpWalksList == Spec => []DumpFollowsList
<1>1. Init => DumpFollowsList
  BY DEF Init, DumpFollowsList
<1>2. IInv /\ DumpFollowsList /\ [Next]_vars => DumpFollowsList'
  BY NextFollowsList
<1> QED BY <1>1, <1>2, InductiveInvariant, PTL DEF Spec

\* radixsort.c implements the ranked list: radixsort_add inserts an item behind all
\* larger keys and before the equal ones, radix_cut deletes one entry, and
\* radixsort_dump hands over the list.
THEOREM SorterIsRankedList == Spec => ImplementsRankedList
<1>1. Init => IInv /\ Abstract!Init
  BY InitIInv, InitIsAbstract
<1>2. IInv /\ DumpFollowsList /\ [Next]_vars /\ IInv' /\ DumpFollowsList'
          => [Abstract!Next]_(Abstract!vars)
  BY NextIsAbstract
<1> QED BY <1>1, <1>2, InductiveInvariant, DumpWalksList, PTL
        DEF Spec, ImplementsRankedList, Abstract!Spec
=============================================================================
