------------------------------ MODULE RadixSort ------------------------------
(***************************************************************************)
(* The two-level radix sorter of radixsort.c, which ranks the history.     *)
(*                                                                         *)
(* A key is split into a top index (key / RADIX_SLOT_SIZE) and a low index *)
(* (key % RADIX_SLOT_SIZE).  topDigits[t][l] is the chain of the items     *)
(* whose key has these indexes, the item added last at its head.  A slot   *)
(* (one t) is allocated with its descriptor by the first item that needs   *)
(* it.  The descriptor's min, max and size, and the sorter's maxKey, are   *)
(* not exact: radix_cut lowers none of them except when a slot drops to    *)
(* one item or to none.  radixsort_dump trusts them for where to start and *)
(* where to stop.                                                          *)
(***************************************************************************)
EXTENDS Integers, FiniteSets, Sequences, SequencesExt

CONSTANTS
    Item,       \* the RadixItems of the caller, named by the data they carry
    Keys,       \* the keys a caller may file an item under or cut it by
    SlotSize,   \* RADIX_SLOT_SIZE
    KeyLimit    \* the keyLimit passed to radixsort_init

ASSUME ItemAssumption     == IsFiniteSet(Item)
ASSUME KeysAssumption     == Keys \subseteq Nat
ASSUME SlotSizeAssumption == SlotSize \in Nat \ {0}
ASSUME KeyLimitAssumption == KeyLimit \in Nat /\ KeyLimit >= SlotSize

Top(k) == k \div SlotSize
Low(k) == k % SlotSize

Tops == 0 .. (Top(KeyLimit) - 1)    \* the topDigits array: _topIndexLimit slots
Lows == 0 .. (SlotSize - 1)

VARIABLES
    optionBigKeys,    \* what to do with a key over the limit
    topDigits,        \* chain of items for every top and low index
    slots,            \* the top indexes whose slot has been allocated
    descriptors,      \* min, max and size of every slot
    key,              \* the key field of each RadixItem
    size, maxKey,     \* of the RadixSorter
    fault,            \* how the sorter went wrong, "none" while it did not
    pc,               \* "open" to callers, "slot" or "chain" in dump, "done"
    t, l, slotCount,  \* locals of radixsort_dump
    result            \* the array radixsort_dump returns

store    == <<optionBigKeys, topDigits, slots, descriptors, key, size, maxKey, fault>>
dumpVars == <<pc, t, l, slotCount, result>>
vars     == <<store, dumpVars>>

Init ==
    /\ optionBigKeys \in {"skip", "floor", "exit"}
    /\ topDigits = [a \in Tops |-> [b \in Lows |-> <<>>]]
    /\ slots = {}
    /\ descriptors = [a \in Tops |-> [min |-> KeyLimit, max |-> 0, size |-> 0]]
    /\ key = [i \in Item |-> 0]
    /\ size = 0 /\ maxKey = 0
    /\ fault = "none"
    /\ pc = "open" /\ t = 0 /\ l = 0 /\ slotCount = 0 /\ result = <<>>

Chain(k) == topDigits[Top(k)][Low(k)]

\* The items linked into the chain of their key.
Filed == {i \in Item : Top(key[i]) \in Tops /\ i \in ToSet(Chain(key[i]))}

Running == pc = "open" /\ fault = "none"

-----------------------------------------------------------------------------
\* The key an item is filed under once keys over the limit are floored.
FiledKey_NotFloored(k) == k
FiledKey(k) ==
    IF k > KeyLimit /\ optionBigKeys = "floor" THEN KeyLimit - 1 ELSE k

\* The item's key field, which the caller and the floor option set.
SetKey(i, k) == key' = [key EXCEPT ![i] = k]

Smaller(a, b) == IF a < b THEN a ELSE b

Larger_Newest(a, b) == b
Larger(a, b) == IF a > b THEN a ELSE b

\* The head of the chain is the item added last.
Linked_AtTail(chain, i) == Append(chain, i)
Linked(chain, i) == <<i>> \o chain

\* The descriptor of radixsort_get_slot, also that of a slot cut empty.
EmptySlot == [min |-> KeyLimit, max |-> 0, size |-> 0]

\* The descriptor of a slot once an item of key k is linked into it.
Described(top, k) ==
    LET d == IF top \in slots THEN descriptors[top] ELSE EmptySlot
    IN  [min |-> Smaller(d.min, k), max |-> Larger(d.max, k), size |-> d.size + 1]

\* radixsort_add past the check of the limit.  topDigits has no slot for a
\* top index of _topIndexLimit or more: that access is out of the array.
File(i, k) ==
    IF Top(k) \notin Tops
    THEN /\ fault' = "overrun"
         /\ UNCHANGED <<topDigits, slots, descriptors, size, maxKey>>
    ELSE /\ topDigits' = [topDigits EXCEPT ![Top(k)][Low(k)] = Linked(@, i)]
         /\ slots' = slots \cup {Top(k)}
         /\ descriptors' = [descriptors EXCEPT ![Top(k)] = Described(Top(k), k)]
         /\ size' = size + 1
         /\ maxKey' = Larger(maxKey, k)
         /\ UNCHANGED fault

\* radixsort_add of an item that is in no chain: a key over the limit is
\* floored, or the item skipped, or the program exits.
AddFiled_KeyNotFloored(i, k) ==
    /\ Running /\ i \notin Filed
    /\ k > KeyLimit => optionBigKeys = "floor"
    /\ SetKey(i, k)
    /\ File(i, FiledKey(k))
    /\ UNCHANGED <<optionBigKeys, dumpVars>>
AddFiled(i, k) ==
    /\ Running /\ i \notin Filed
    /\ k > KeyLimit => optionBigKeys = "floor"
    /\ SetKey(i, FiledKey(k))
    /\ File(i, FiledKey(k))
    /\ UNCHANGED <<optionBigKeys, dumpVars>>

AddRefused(i, k) ==
    /\ Running /\ i \notin Filed
    /\ k > KeyLimit /\ optionBigKeys # "floor"
    /\ SetKey(i, k)
    /\ fault' = IF optionBigKeys = "exit" THEN "exit" ELSE fault
    /\ UNCHANGED <<optionBigKeys, topDigits, slots, descriptors, size, maxKey,
                   dumpVars>>

\* radix_dec_slot_descriptor_size, given the slot's chains after the cut.
\* The one item left is at max, at min, or in between, where neither moves.
Decremented_AlwaysAtMax(d, slot) ==
    IF d.size = 1 THEN EmptySlot
    ELSE IF d.size = 2 THEN [min |-> d.max, max |-> d.max, size |-> 1]
    ELSE [d EXCEPT !.size = @ - 1]
Decremented(d, slot) ==
    IF d.size = 1 THEN EmptySlot
    ELSE IF d.size = 2 /\ slot[Low(d.max)] # <<>>
         THEN [min |-> d.max, max |-> d.max, size |-> 1]
    ELSE IF d.size = 2 /\ slot[Low(d.min)] # <<>>
         THEN [min |-> d.min, max |-> d.min, size |-> 1]
    ELSE [d EXCEPT !.size = @ - 1]

\* The chain without the item: the walk finds it and links around it.
Unlinked_HeadStays(chain, i) ==
    IF Head(chain) = i THEN chain
    ELSE RemoveAt(chain, CHOOSE n \in DOMAIN chain : chain[n] = i)
Unlinked(chain, i) == RemoveAt(chain, CHOOSE n \in DOMAIN chain : chain[n] = i)

\* What radix_cut finds by key k and data i.  An empty chain of an allocated
\* slot is not tested for: the walk reads the data of a NULL item.
CutOutcome(i, k) ==
    IF k > maxKey THEN "absent"
    ELSE IF Top(k) \notin Tops THEN "overrun"
    ELSE IF Top(k) \notin slots THEN "absent"
    ELSE IF Chain(k) = <<>> THEN "null"
    ELSE IF i \in ToSet(Chain(k)) THEN "found" ELSE "absent"

\* radix_cut(rs, k, i) when it returns the item.
CutFound(i, k) ==
    /\ Running /\ CutOutcome(i, k) = "found"
    /\ LET slot == [topDigits[Top(k)] EXCEPT ![Low(k)] = Unlinked(@, i)]
       IN  /\ topDigits' = [topDigits EXCEPT ![Top(k)] = slot]
           /\ descriptors' = [descriptors EXCEPT ![Top(k)] = Decremented(@, slot)]
    /\ size' = size - 1
    /\ UNCHANGED <<optionBigKeys, slots, key, maxKey, fault, dumpVars>>

\* radix_cut(rs, k, i) when it returns NULL or reads through a bad pointer.
CutMissed(i, k) ==
    /\ Running /\ CutOutcome(i, k) # "found"
    /\ fault' = IF CutOutcome(i, k) = "absent" THEN fault ELSE CutOutcome(i, k)
    /\ UNCHANGED <<optionBigKeys, topDigits, slots, descriptors, key, size, maxKey,
                   dumpVars>>

-----------------------------------------------------------------------------
\* radixsort_dump: from the slot of maxKey down.
DumpBegin ==
    /\ Running
    /\ IF size > 0 THEN pc' = "slot" /\ t' = Top(maxKey)
                   ELSE pc' = "done" /\ UNCHANGED t
    /\ UNCHANGED <<store, l, slotCount, result>>

\* while(--t >= 0)
NextSlot_PastZero == t' = t - 1 /\ pc' = IF t >= 0 THEN "slot" ELSE "done"
NextSlot_NotZero ==
    IF t > 1 THEN t' = t - 1 /\ pc' = "slot" ELSE UNCHANGED t /\ pc' = "done"
NextSlot_Stays == pc' = "slot" /\ UNCHANGED t
NextSlot ==
    IF t > 0 THEN t' = t - 1 /\ pc' = "slot" ELSE UNCHANGED t /\ pc' = "done"

DumpSlot ==
    /\ pc = "slot"
    /\ IF t \in slots /\ descriptors[t].size > 0
       THEN /\ l' = Low(descriptors[t].max)
            /\ slotCount' = 0
            /\ pc' = "chain"
            /\ UNCHANGED t
       ELSE NextSlot /\ UNCHANGED <<l, slotCount>>
    /\ UNCHANGED <<store, result>>

\* One round of the inner loop copies a whole chain.
DumpChain ==
    /\ pc = "chain"
    /\ result' = result \o topDigits[t][l]
    /\ slotCount' = slotCount + Len(topDigits[t][l])
    /\ l' = l - 1
    /\ IF l' >= Low(descriptors[t].min) /\ slotCount' < descriptors[t].size
       THEN UNCHANGED <<t, pc>>
       ELSE NextSlot
    /\ UNCHANGED store

Dump == DumpBegin \/ DumpSlot \/ DumpChain

Next ==
    \/ \E i \in Item, k \in Keys :
        AddFiled(i, k) \/ AddRefused(i, k) \/ CutFound(i, k) \/ CutMissed(i, k)
    \/ Dump

\* The sorter runs to completion in its caller's thread.
Spec == Init /\ [][Next]_vars
FairSpec == Spec /\ WF_vars(DumpSlot \/ DumpChain)

-----------------------------------------------------------------------------
Descriptors == [min : Nat, max : Nat, size : Nat]

\* Every variable of the sorter holds a value of its C type.
TypeOK ==
    /\ optionBigKeys \in {"skip", "floor", "exit"}
    /\ topDigits \in [Tops -> [Lows -> Seq(Item)]]
    /\ slots \in SUBSET Tops
    /\ descriptors \in [Tops -> Descriptors]
    /\ key \in [Item -> Nat]
    /\ size \in Nat /\ maxKey \in Nat
    /\ fault \in {"none", "overrun", "null", "exit"}
    /\ pc \in {"open", "slot", "chain", "done"}
    /\ t \in Nat /\ l \in Int /\ slotCount \in Nat
    /\ result \in Seq(Item)

\* The items of one slot.
InSlot(a) == {i \in Filed : Top(key[i]) = a}

\* The sizes count the items, and the bounds of a slot are keys of the slot.
SizesExact ==
    /\ size = Cardinality(Filed)
    /\ Top(maxKey) \in Tops
    /\ \A a \in Tops :
        /\ descriptors[a].size = Cardinality(InSlot(a))
        /\ IF InSlot(a) = {} THEN descriptors[a] = EmptySlot
                             ELSE /\ Top(descriptors[a].min) = a
                                  /\ Top(descriptors[a].max) = a

\* What dump has copied so far: everything above where it is.
Copied ==
    CASE pc = "open"  -> {}
      [] pc = "slot"  -> {i \in Filed : Top(key[i]) > t}
      [] pc = "chain" -> {i \in Filed : \/ Top(key[i]) > t
                                        \/ Top(key[i]) = t /\ Low(key[i]) > l}
      [] pc = "done"  -> Filed

DumpProgress ==
    /\ IsInjective(result)
    /\ ToSet(result) = Copied
    /\ pc \in {"slot", "chain"} => t \in Tops
    /\ pc = "chain" =>
        /\ l \in Lows /\ t \in slots
        /\ slotCount = Cardinality({i \in InSlot(t) : Low(key[i]) > l})
        /\ slotCount < descriptors[t].size

\* An item is linked in the chain of its own key and in no other, once.
ChainsWellFormed ==
    \A a \in Tops, b \in Lows :
        /\ IsInjective(topDigits[a][b])
        /\ \A i \in ToSet(topDigits[a][b]) : Top(key[i]) = a /\ Low(key[i]) = b

\* The stale bounds still bound: no item lies outside what dump will visit,
\* whatever was cut before (radixsort.c:115, radixsort.c:138).
BoundsCoverItems ==
    \A i \in Filed :
        /\ key[i] <= maxKey
        /\ Top(key[i]) \in slots
        /\ descriptors[Top(key[i])].min <= key[i]
        /\ key[i] <= descriptors[Top(key[i])].max

\* The items dumped so far come in the order of their keys, largest first.
DumpOrdered ==
    \A m, n \in DOMAIN result : m < n => key[result[m]] >= key[result[n]]

\* radixsort_dump writes within the rs->size items it has allocated, by falling
\* key, and what the caller is handed in the end is every filed item, once.
DumpCorrect ==
    /\ Len(result) <= size
    /\ DumpOrdered
    /\ pc = "done" => IsInjective(result) /\ ToSet(result) = Filed

\* radixsort_add lets a key equal to the limit pass, and topDigits has no
\* slot for it.  No other key takes the sorter out of its arrays.
OverrunOnlyAtLimit ==
    fault = "overrun" => \E i \in Item : /\ key[i] <= KeyLimit
                                         /\ Top(key[i]) = Top(KeyLimit)

\* A caller that cuts an item by the key it was filed under gets it back;
\* a cut of a filed item never fails, whatever happened to the slot before.
CutOfFiledSucceeds ==
    Running => \A i \in Filed : CutOutcome(i, key[i]) = "found"

\* Dump ends.
DumpTerminates == (pc = "slot") ~> (pc = "done")

\* The inductive invariant behind the properties of the store and the dump.
IInv ==
    /\ TypeOK
    /\ ChainsWellFormed
    /\ SizesExact
    /\ BoundsCoverItems
    /\ DumpProgress
    /\ DumpOrdered
=============================================================================
