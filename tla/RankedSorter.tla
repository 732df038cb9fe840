---------------------------- MODULE RankedSorter ----------------------------
(***************************************************************************)
(* How the radix sorter implements RankedList: the list is the chains read *)
(* from the largest key down, and it is handed over when the dump is done. *)
(***************************************************************************)
EXTENDS RadixSort

\* The keys topDigits has chains for, largest first.
KeyDown(n) == Top(KeyLimit) * SlotSize - n
KeysDown == 1 .. Top(KeyLimit) * SlotSize

\* The entries of a chain in the list.
Entries(chain, k) == [m \in DOMAIN chain |-> [item |-> chain[m], key |-> k]]

Ranked == FlattenSeq([n \in KeysDown |-> Entries(Chain(KeyDown(n)), KeyDown(n))])

Handed == IF pc = "done" THEN result ELSE <<>>

Abstract == INSTANCE RankedList WITH ranked <- Ranked, handed <- Handed

\* The sorter is a ranked list: add, cut and dump keep the list's order, the
\* order of equal keys included (radixsort_add puts the newest first).
ImplementsRankedList == Abstract!Spec
=============================================================================
