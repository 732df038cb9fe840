------------------------------- MODULE HashSet -------------------------------
(***************************************************************************)
(* The hash set of hashset.c: for each hash a list of the keys with it,    *)
(* the newest first, and a count of them all.  The values are left out, as *)
(* every caller stores one that is not NULL.                               *)
(***************************************************************************)
EXTENDS Integers, Sequences, SequencesExt

CONSTANTS
    Key,
    HashMapSize,    \* HASH_MAP_SIZE
    Hash            \* hashmap_hash, a function of the key

ASSUME HashAssumption == HashMapSize \in Nat \ {0} /\ Hash \in [Key -> 0 .. HashMapSize - 1]

hashset_init == [lists |-> [h \in 0 .. HashMapSize - 1 |-> <<>>], currentSize |-> 0]

\* With hashset_get and its while loop along one list.
hashset_contains_HeadOnly(hs, key) ==
    hs.lists[Hash[key]] # <<>> /\ Head(hs.lists[Hash[key]]) = key
hashset_contains(hs, key) == \E i \in DOMAIN hs.lists[Hash[key]] : hs.lists[Hash[key]][i] = key

\* And hashset_add.
hashset_put(hs, key) ==
    IF hashset_contains(hs, key) THEN hs
    ELSE [lists       |-> [hs.lists EXCEPT ![Hash[key]] = <<key>> \o @],
          currentSize |-> hs.currentSize + 1]

\* List after list.
hashset_keys(hs) == FlattenSeq([h \in 1 .. HashMapSize |-> hs.lists[h - 1]])

\* What every operation relies on: a key is in the list of its hash, and once, and
\* the count is the size of the array that hashset_keys fills.
WellFormed(hs) ==
    /\ hs.lists \in [0 .. HashMapSize - 1 -> Seq(Key)]
    /\ \A h \in 0 .. HashMapSize - 1 :
           /\ \A key \in ToSet(hs.lists[h]) : Hash[key] = h
           /\ IsInjective(hs.lists[h])
    /\ hs.currentSize = Len(hashset_keys(hs))
=============================================================================
