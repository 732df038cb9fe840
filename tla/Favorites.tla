------------------------------- MODULE Favorites -------------------------------
(***************************************************************************)
(* hstr_favorites.c with its file, ~/.hstr_favorites: each hstr loads it   *)
(* once, changes its own list of favorites, and after every change writes  *)
(* the list over the file.  The file is emptied when it is opened and      *)
(* filled when it is closed; the hstr of another terminal, or the end of   *)
(* this one, may come between.                                             *)
(***************************************************************************)
EXTENDS Integers, Sequences, SequencesExt, FavoriteItems

CONSTANTS
    Process,     \* the instances of hstr
    Line,        \* the lines of the file and the commands made favorites
    Comment,     \* those that begin with '#'
    MaxLines     \* bound: the lines of the file at the start, and of a list

ASSUME LineAssumption     == Line # {}
ASSUME CommentAssumption  == Comment \subseteq Line
ASSUME MaxLinesAssumption == MaxLines \in Nat

VARIABLES
    file,            \* its lines; partial if the last one has no newline
    favorites,       \* favorites->items of every process
    skipComments, reorderOnChoice,   \* of HSTR_CONFIG
    phase,           \* of a process: "off", "on" or "saving"
    \* history variable
    owner            \* who has written the file, no other having written meanwhile

config == <<skipComments, reorderOnChoice>>
vars   == <<file, favorites, config, phase, owner>>

Nobody == "nobody"

ASSUME ProcessAssumption == Nobody \notin Process

-----------------------------------------------------------------------------
\* favorites_get: a line is an item if it ends, if it is not one already, and
\* unless it is a comment to be skipped.
Loaded_Again(f, skip) ==
    SelectSeq(IF f.partial THEN Front(f.lines) ELSE f.lines,
              LAMBDA line : ~(skip /\ line \in Comment))
Loaded(f, skip) ==
    LET lines == IF f.partial THEN Front(f.lines) ELSE f.lines
        Add(items, line) == IF line \in ToSet(items) \/ (skip /\ line \in Comment)
                            THEN items ELSE Append(items, line)
    IN  FoldLeft(Add, <<>>, lines)

Init ==
    /\ \E lines \in BoundedSeq(Line, MaxLines), partial \in BOOLEAN :
        /\ partial => lines # <<>>
        /\ file = [lines |-> lines, partial |-> partial]
    /\ favorites = [p \in Process |-> <<>>]
    /\ skipComments \in [Process -> BOOLEAN] /\ reorderOnChoice \in BOOLEAN
    /\ phase = [p \in Process |-> "off"]
    /\ owner = Nobody

Start(p) ==
    /\ phase[p] = "off"
    /\ favorites' = [favorites EXCEPT ![p] = Loaded(file, skipComments[p])]
    /\ phase' = [phase EXCEPT ![p] = "on"]
    /\ UNCHANGED <<file, config, owner>>

\* favorites_save up to the opening of the file.
Saving_NotEmptied(p, items) ==
    /\ favorites' = [favorites EXCEPT ![p] = items]
    /\ phase' = [phase EXCEPT ![p] = "saving"]
    /\ owner' = IF \E q \in Process : phase[q] = "saving" THEN Nobody ELSE p
    /\ UNCHANGED <<file, config>>
Saving(p, items) ==
    /\ favorites' = [favorites EXCEPT ![p] = items]
    /\ phase' = [phase EXCEPT ![p] = "saving"]
    /\ file' = [lines |-> <<>>, partial |-> FALSE]
    /\ owner' = IF \E q \in Process : phase[q] = "saving" THEN Nobody ELSE p
    /\ UNCHANGED config

AddFavorite(p, item) ==
    /\ phase[p] = "on" /\ item \notin ToSet(favorites[p])
    /\ Len(favorites[p]) < MaxLines
    /\ Saving(p, Added(favorites[p], item, reorderOnChoice))

\* favorites_choose, which is also what adding a favorite again does.
ChooseFavorite(p, item) ==
    /\ phase[p] = "on" /\ item \in ToSet(favorites[p])
    /\ LET items == Added(favorites[p], item, reorderOnChoice)
       IN  IF items = favorites[p] THEN UNCHANGED vars ELSE Saving(p, items)

RemoveFavorite(p, item) ==
    /\ phase[p] = "on" /\ item \in ToSet(favorites[p])
    /\ Saving(p, Removed(favorites[p], item))

\* fclose: the list goes to the start of the file, over what another process
\* may have written there since.  Line by line: that bytes may split a line is
\* left out, and so is that a list longer than stdio's buffer comes in pieces.
Written(items, lines) == items \o SubSeq(lines, Len(items) + 1, Len(lines))

Close(p) ==
    /\ phase[p] = "saving"
    /\ file' = [lines |-> Written(favorites[p], file.lines), partial |-> FALSE]
    /\ owner' = IF owner = p THEN p ELSE Nobody
    /\ phase' = [phase EXCEPT ![p] = "on"]
    /\ UNCHANGED <<favorites, config>>

\* The process ends, by a key, by a signal, or in the middle of saving.
End(p) ==
    /\ phase[p] # "off"
    /\ phase' = [phase EXCEPT ![p] = "off"]
    /\ favorites' = [favorites EXCEPT ![p] = <<>>]
    /\ owner' = IF owner = p THEN Nobody ELSE owner
    /\ UNCHANGED <<file, config>>

Next ==
    \E p \in Process :
        \/ Start(p) \/ Close(p) \/ End(p)
        \/ \E item \in Line : AddFavorite(p, item) \/ ChooseFavorite(p, item) \/ RemoveFavorite(p, item)

Spec == Init /\ [][Next]_vars

-----------------------------------------------------------------------------
\* The types; and no operation makes a list longer than the lines there are to
\* put in it (favorites_add, favorites_get).
TypeOK ==
    /\ file.lines \in Seq(Line) /\ file.partial \in BOOLEAN
    /\ favorites \in [Process -> Seq(Line)]
    /\ \A p \in Process : Len(favorites[p]) <= MaxLines
    /\ phase \in [Process -> {"off", "on", "saving"}]
    /\ owner \in Process \cup {Nobody}

\* No list has a favorite twice, however the file was edited or garbled: an item
\* is removed by its first occurrence, and a second one would come back.
FavoritesUnique == \A p \in Process : IsInjective(favorites[p])

\* The items of part are in the order they have in list.
InOrderOf(part, list) ==
    \A i, j \in DOMAIN part :
        i < j => \E m, n \in DOMAIN list : m < n /\ list[m] = part[i] /\ list[n] = part[j]

\* What a process has saved, no other writing meanwhile, is what any hstr loads
\* next (favorites_save, favorites_get): the list in the view of the one that saved
\* it.  One that skips comments loads all but the favorites that begin with '#',
\* in the same order - also when it is the one that has saved them.
SavedIsLoaded ==
    \A p, q \in Process :
        (owner = p /\ phase[p] = "on") =>
            LET loaded == Loaded(file, skipComments[q])
            IN  /\ ~skipComments[q] => loaded = favorites[p]
                /\ skipComments[q] => /\ ToSet(loaded) = ToSet(favorites[p]) \ Comment
                                      /\ InOrderOf(loaded, favorites[p])

\* Adding, choosing and removing touch one favorite and keep "the order of the
\* other items".
OrderKept ==
    [][\A p \in Process :
        (phase[p] = "on" /\ phase'[p] # "off") =>
            \E item \in Line : Removed(favorites'[p], item) = Removed(favorites[p], item)]_vars
=============================================================================
