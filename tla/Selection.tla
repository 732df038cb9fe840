------------------------------- MODULE Selection -------------------------------
(***************************************************************************)
(* hstr_make_selection of hstr.c: the rows of a view that match what the   *)
(* user has typed, the first ones in the view's order.  Matching as a      *)
(* substring lists the rows that start with the pattern before those that  *)
(* have it inside; keywords must all be there, in any order; a regular     *)
(* expression is compiled once and kept by its text (hstr_regexp.c).       *)
(*                                                                         *)
(* A command and a pattern are sequences of characters.  A regular         *)
(* expression here has only literal characters, and Bracket, which makes   *)
(* it one regcomp refuses.                                                 *)
(***************************************************************************)
EXTENDS Integers, Sequences, SequencesExt

CONSTANTS
    Lower,      \* tolower of the characters
    Space,      \* what separates keywords
    Bracket     \* an unmatched "["

Char == DOMAIN Lower

ASSUME LowerAssumption == Lower \in [Char -> Char]

Matchings == {"substring", "regexp", "keywords"}

Folded(text, caseSensitive) ==
    IF caseSensitive THEN text ELSE [n \in DOMAIN text |-> Lower[text[n]]]

\* The offsets at which strstr or strcasestr finds the needle.
Offsets(needle, text, caseSensitive) ==
    {n \in 0 .. Len(text) - Len(needle) :
        Folded(SubSeq(text, n + 1, n + Len(needle)), caseSensitive)
            = Folded(needle, caseSensitive)}

Found(needle, text, caseSensitive)  == Offsets(needle, text, caseSensitive) # {}
Starts(needle, text, caseSensitive) == 0 \in Offsets(needle, text, caseSensitive)

\* The tokens strtok_r cuts a pattern into.
Keywords(pattern) ==
    LET Token(m, n) ==
            /\ \A k \in m .. n : pattern[k] # Space
            /\ m = 1 \/ pattern[m - 1] = Space
            /\ n = Len(pattern) \/ pattern[n + 1] = Space
    IN  {SubSeq(pattern, t[1], t[2]) :
            t \in {b \in (DOMAIN pattern) \X (DOMAIN pattern) : b[1] <= b[2] /\ Token(b[1], b[2])}}

-----------------------------------------------------------------------------
\* hstr_regexp: what new regular expressions are compiled with, and with what
\* each of those in the cache was.
Compiles(pattern) == Bracket \notin ToSet(pattern)

\* The cache after a selection of rows, at least one, by the pattern.
Cached(regexp, pattern) ==
    IF pattern \in DOMAIN regexp.cache \/ ~Compiles(pattern) THEN regexp
    ELSE [regexp EXCEPT !.cache =
            [p \in DOMAIN @ \cup {pattern} |->
                IF p = pattern THEN regexp.caseSensitive ELSE @[p]]]

RegexpMatch(regexp, pattern, text) ==
    Compiles(pattern) /\ Found(pattern, text, Cached(regexp, pattern).cache[pattern])

-----------------------------------------------------------------------------
\* hstr_selection_add
SelectionAdd_Twice(selection, line, capacity, noDuplicates) ==
    IF Len(selection) >= capacity THEN selection ELSE Append(selection, line)
SelectionAdd(selection, line, capacity, noDuplicates) ==
    IF Len(selection) >= capacity \/ (noDuplicates /\ line \in ToSet(selection))
    THEN selection
    ELSE Append(selection, line)

\* What one row does to the selection in the first and in the second loop.  The
\* matches of a regular expression are stored without hstr_selection_add.
Hit_FirstKeyword(line, pattern, query) ==
    CASE query.matching = "substring" -> Starts(pattern, line, query.caseSensitive)
      [] query.matching = "keywords"  ->
            \E word \in Keywords(pattern) : Found(word, line, query.caseSensitive)
Hit(line, pattern, query) ==
    CASE query.matching = "substring" -> Starts(pattern, line, query.caseSensitive)
      [] query.matching = "keywords"  ->
            \A word \in Keywords(pattern) : Found(word, line, query.caseSensitive)

FirstPass(selection, line, pattern, query) ==
    IF Len(selection) >= query.capacity THEN selection
    ELSE IF pattern # <<>> /\ query.matching = "regexp"
         THEN IF RegexpMatch(query.regexp, pattern, line)
              THEN Append(selection, line) ELSE selection
    ELSE IF pattern = <<>> \/ Hit(line, pattern, query)
         THEN SelectionAdd(selection, line, query.capacity, query.noDuplicates)
         ELSE selection

SecondPass(selection, line, pattern, query) ==
    IF query.matching = "substring" /\ Found(pattern, line, query.caseSensitive)
          /\ ~Starts(pattern, line, query.caseSensitive)
    THEN SelectionAdd(selection, line, query.capacity, query.noDuplicates)
    ELSE selection

\* query holds the settings: matching, caseSensitive, regexp, noDuplicates and
\* the capacity, which is the number of rows the screen has for items.
MakeSelection(source, pattern, query) ==
    LET first == FoldLeft(LAMBDA s, line : FirstPass(s, line, pattern, query), <<>>, source)
    IN  FoldLeft(LAMBDA s, line : SecondPass(s, line, pattern, query), first, source)

-----------------------------------------------------------------------------
\* What a selection is to be, without the loops.

\* Rows by their places, and each command once, where it is first.
RowsAt(rows, places) ==
    FlattenSeq([n \in DOMAIN rows |-> IF n \in places THEN <<rows[n]>> ELSE <<>>])
FirstPlaces(rows) == {n \in DOMAIN rows : \A m \in 1 .. n - 1 : rows[m] # rows[n]}

\* The rows that match, in the order they are to be listed.
Matches(source, pattern, query) ==
    LET starts == {n \in DOMAIN source : Starts(pattern, source[n], query.caseSensitive)}
        inside == {n \in DOMAIN source : Found(pattern, source[n], query.caseSensitive)} \ starts
        \* all there is between two spaces
        words  == {n \in DOMAIN source : \A i, j \in DOMAIN pattern :
                      Space \in ToSet(SubSeq(pattern, i, j))
                        \/ Found(SubSeq(pattern, i, j), source[n], query.caseSensitive)}
        cached == IF pattern \in DOMAIN query.regexp.cache
                  THEN query.regexp.cache[pattern] ELSE query.regexp.caseSensitive
        regexp == {n \in DOMAIN source : Compiles(pattern) /\ Found(pattern, source[n], cached)}
    IN  CASE pattern = <<>> -> source
          [] pattern # <<>> /\ query.matching = "substring" ->
                RowsAt(source, starts) \o RowsAt(source, inside)
          [] pattern # <<>> /\ query.matching = "keywords"  -> RowsAt(source, words)
          [] pattern # <<>> /\ query.matching = "regexp"    -> RowsAt(source, regexp)

\* The first that match, as many as there is room for, each command once if
\* duplicates are discarded, which the matches of a regular expression never are.
FirstMatches(source, pattern, query) ==
    LET all  == Matches(source, pattern, query)
        rows == IF query.noDuplicates /\ (pattern = <<>> \/ query.matching # "regexp")
                THEN RowsAt(all, FirstPlaces(all)) ELSE all
    IN  SubSeq(rows, 1, IF Len(rows) < query.capacity THEN Len(rows) ELSE query.capacity)
=============================================================================
