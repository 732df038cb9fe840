----------------------------- MODULE MCRadixSort -----------------------------
(***************************************************************************)
(* The radix sorter on three items and slots of two keys.                  *)
(***************************************************************************)
EXTENDS RankedSorter

MCKeys == 0 .. (KeyLimit + 1)
=============================================================================
