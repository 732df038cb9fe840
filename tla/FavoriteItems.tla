----------------------------- MODULE FavoriteItems -----------------------------
(***************************************************************************)
(* The list of favorites of hstr_favorites.c, newest choice first, and     *)
(* what the operations make of it.                                         *)
(***************************************************************************)
EXTENDS Integers, Sequences, SequencesExt

\* favorites_move_to_head
MovedToHead_Swapped(list, n) == [list EXCEPT ![1] = list[n], ![n] = list[1]]
MovedToHead(list, n) == <<list[n]>> \o RemoveAt(list, n)

\* favorites_index_of, counted from 1, or 0: the first one counts.
FavoriteIndex(list, item) == SelectInSeq(list, LAMBDA other : other = item)

\* favorites_choose: only an item that is not the first yet is moved.
Chosen(list, item, reorderOnChoice) ==
    LET index == FavoriteIndex(list, item)
    IN  IF reorderOnChoice /\ index > 1 THEN MovedToHead(list, index) ELSE list

\* favorites_add: adding a favorite again is choosing it.
Added_Twice(list, item, reorderOnChoice) ==
    IF reorderOnChoice THEN <<item>> \o list ELSE Append(list, item)
Added(list, item, reorderOnChoice) ==
    IF FavoriteIndex(list, item) > 0
    THEN Chosen(list, item, reorderOnChoice)
    ELSE IF reorderOnChoice THEN <<item>> \o list ELSE Append(list, item)

\* favorites_remove: the first one, as there is no other (see FavoritesUnique).
Removed(list, item) ==
    LET index == FavoriteIndex(list, item)
    IN  IF index > 0 THEN RemoveAt(list, index) ELSE list
=============================================================================
