------------------------------ MODULE RankedList ------------------------------
(***************************************************************************)
(* What the radix sorter promises its caller: a list of items in the order *)
(* of their keys, largest first, where an item added under a key that is   *)
(* already taken goes in front of those that have it.  The caller adds and *)
(* removes items, then is handed the list.                                 *)
(***************************************************************************)
EXTENDS Naturals, Sequences, SequencesExt

CONSTANTS Item, KeyLimit

VARIABLES ranked,   \* the list: records [item, key]
          handed    \* the list handed to the caller, <<>> before

vars == <<ranked, handed>>

Init == ranked = <<>> /\ handed = <<>>

Listed == {ranked[n].item : n \in DOMAIN ranked}

\* The entries of a larger key come first.
Position(k) == Cardinality({n \in DOMAIN ranked : ranked[n].key > k}) + 1

Add(i, k) ==
    /\ handed = <<>> /\ i \notin Listed
    /\ ranked' = InsertAt(ranked, Position(k), [item |-> i, key |-> k])
    /\ UNCHANGED handed

Delete(n) ==
    /\ handed = <<>>
    /\ ranked' = RemoveAt(ranked, n)
    /\ UNCHANGED handed

HandOver ==
    /\ handed = <<>>
    /\ handed' = [n \in DOMAIN ranked |-> ranked[n].item]
    /\ UNCHANGED ranked

Next == \/ \E i \in Item, k \in 0 .. (KeyLimit - 1) : Add(i, k)
        \/ \E n \in DOMAIN ranked : Delete(n)
        \/ HandOver

Spec == Init /\ [][Next]_vars
=============================================================================
