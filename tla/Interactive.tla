------------------------------ MODULE Interactive ------------------------------
(***************************************************************************)
(* loop_to_select of hstr.c: one action for each key.  The user types a    *)
(* pattern, moves over the rows that match, rotates views and modes of     *)
(* matching, deletes rows and marks favorites, resizes the terminal, and   *)
(* leaves with a command.                                                  *)
(*                                                                         *)
(* What the screen shows is a part of the state: the selection as it was   *)
(* printed, from the row the layout had then, and the rows drawn as        *)
(* highlighted.  What a key does is computed from other state, the cursor  *)
(* and the number of rows now.                                             *)
(***************************************************************************)
EXTENDS Integers, FiniteSets, Sequences, SequencesExt, Selection, SelectionCursor, FavoriteItems, HistoryItems

CONSTANTS
    RawItems, Items, Favorites,  \* the views at the start
    Configurations,  \* what HSTR_CONFIG may say, of the settings below
    TypedChar,       \* the characters the user types
    Upper,           \* toupper of the characters
    MaxPattern,      \* the columns of the prompt's row that are left for the pattern
    Heights          \* the rows a terminal may have for items

ASSUME HeightsAssumption == Heights \subseteq Nat /\ Heights # {}
ASSUME TypedAssumption   ==
    TypedChar \subseteq Char /\ \A c \in TypedChar : {Lower[c], Upper[c]} \subseteq TypedChar
ASSUME MaxPatternAssumption == MaxPattern \in Nat
ASSUME ConfigurationsAssumption ==
    Configurations \subseteq [noDuplicates : BOOLEAN, noConfirm : BOOLEAN,
                              promptBottom : BOOLEAN, reorderOnChoice : BOOLEAN]
\* What hstr_history.c and favorites_get make the views of.
ASSUME ViewsAssumption ==
    /\ {RawItems, Items, Favorites} \subseteq Seq(Seq(Char))
    /\ IsInjective(Items) /\ IsInjective(Favorites)
    /\ ToSet(Items) \subseteq ToSet(RawItems)
ASSUME NullAssumption == "NULL" \notin Char

VARIABLES
    rawItems, items, favorites,
    view, matching, caseSensitive,
    config,
    regexp,        \* hstr->regexp
    pattern,
    selection,     \* the first selectionSize rows of hstr->selection
    promptItems,   \* the rows for items
    cursor,        \* selectionCursorPosition
    result,
    shown,         \* the command the terminal has in each row for items
    highlighted,   \* the rows it has highlighted
    searched,      \* history: the pattern the selection was made by
    missedResize,  \* history: a resize was read as an answer, nothing was printed since
    phase,         \* "loop", "confirm" or "done"
    keyOfExit      \* "enter", "edit", "give up", or "none" yet

lists  == <<rawItems, items, favorites>>
modes  == <<view, matching, caseSensitive, config>>
screen == <<selection, searched, regexp, shown, highlighted, missedResize>>
ends   == <<phase, keyOfExit>>
vars   == <<lists, modes, pattern, screen, promptItems, cursor, result, ends>>

NULL == <<"NULL">>   \* not a command

-----------------------------------------------------------------------------
Source(raw, ranked, favs, v) ==
    CASE v = "history" -> raw [] v = "favorites" -> favs [] v = "ranking" -> ranked

\* Which command of a selection is to be seen in a row, and which is under the
\* cursor.
InRow(row, rows, sel) ==
    LET index == SelectionIndex(row, config.promptBottom, rows, Len(sel))
    IN  IF index >= 0 THEN sel[index + 1] ELSE NULL
UnderCursor == InRow(cursor, promptItems, selection)

Query(m, cs, r, capacity) ==
    [matching |-> m, caseSensitive |-> cs, regexp |-> r,
     noDuplicates |-> config.noDuplicates, capacity |-> capacity]

\* hstr_regexp_match, called for one row at least.
Compiled(r, m, source, p, capacity) ==
    IF m = "regexp" /\ p # <<>> /\ source # <<>> /\ capacity > 0 THEN Cached(r, p) ELSE r

\* hstr_print_selection: the rows that match now are selected and printed, none
\* of them highlighted.  r is hstr->regexp as the key has left it.
PrintedRows(r) ==
    LET source == Source(rawItems', items', favorites', view')
    IN  /\ selection' = MakeSelection(source, pattern',
                                      Query(matching', caseSensitive', r, promptItems'))
        /\ regexp' = Compiled(r, matching', source, pattern', promptItems')
        /\ result' = IF selection' = <<>> THEN NULL ELSE selection'[1]
        /\ searched' = pattern' /\ missedResize' = FALSE

\* ... and the cursor goes back to the prompt.
PrintedBy_CursorKept(r) ==
    /\ PrintedRows(r)
    /\ shown' = [row \in 0 .. promptItems' - 1 |-> InRow(row, promptItems', selection')]
    /\ highlighted' = {}
    /\ cursor' = cursor
PrintedBy(r) ==
    /\ PrintedRows(r)
    /\ shown' = [row \in 0 .. promptItems' - 1 |-> InRow(row, promptItems', selection')]
    /\ highlighted' = {}
    /\ cursor' = InPrompt
Reprinted == PrintedBy(regexp)

\* hstr_init, hstr_get_env_configuration and the first printing, of the pattern
\* on the command line if there is one.  Only Ctrl-t sets regexp.caseSensitive.
Init ==
    /\ rawItems = RawItems /\ items = Items /\ favorites = Favorites
    /\ view \in {"ranking", "history", "favorites"}
    /\ matching \in Matchings /\ caseSensitive \in BOOLEAN
    /\ config \in Configurations
    /\ pattern \in BoundedSeq(TypedChar, MaxPattern)
    /\ promptItems \in Heights
    /\ \E r \in [caseSensitive : BOOLEAN, cache : {[p \in {} |-> FALSE]}] :
        LET source == Source(rawItems, items, favorites, view)
        IN  /\ selection = MakeSelection(source, pattern,
                                         Query(matching, caseSensitive, r, promptItems))
            /\ regexp = Compiled(r, matching, source, pattern, promptItems)
    /\ result = IF pattern = <<>> THEN <<>> ELSE IF selection = <<>> THEN NULL ELSE selection[1]
    /\ shown = [row \in 0 .. promptItems - 1 |-> InRow(row, promptItems, selection)]
    /\ cursor = InPrompt /\ highlighted = {} /\ searched = pattern /\ missedResize = FALSE
    /\ phase = "loop" /\ keyOfExit = "none"

Reading == phase = "loop"

-----------------------------------------------------------------------------
\* The keys that change the pattern.

\* A character, unless it would overflow the row.
Type ==
    /\ Reading
    /\ \E c \in TypedChar :
        pattern' = IF Len(pattern) < MaxPattern THEN Append(pattern, c) ELSE pattern
    /\ UNCHANGED <<lists, modes, promptItems, ends>>
    /\ Reprinted

Backspace ==
    /\ Reading
    /\ pattern' = IF pattern = <<>> THEN pattern ELSE Front(pattern)
    /\ UNCHANGED <<lists, modes, promptItems, ends>>
    /\ Reprinted

\* Ctrl-u and Ctrl-w: the prompt alone is printed again.
ClearPattern ==
    /\ Reading
    /\ pattern' = <<>>
    /\ UNCHANGED <<lists, modes, screen, promptItems, cursor, result, ends>>

\* Ctrl-l, which prints neither the selection nor the row that is highlighted.
\* Which case it is the turn of (lowercase) is taken for a free choice.
ToggleCase ==
    /\ Reading
    /\ \E case \in {Lower, Upper} : pattern' = [n \in DOMAIN pattern |-> case[pattern[n]]]
    /\ cursor' = InPrompt
    /\ UNCHANGED <<lists, modes, screen, promptItems, result, ends>>

\* The keys that change what is matched, and how.
RotateMatching ==
    /\ Reading
    /\ matching' = CASE matching = "substring" -> "regexp" [] matching = "regexp" -> "keywords"
                     [] matching = "keywords" -> "substring"
    /\ UNCHANGED <<lists, view, caseSensitive, config, pattern, promptItems, ends>>
    /\ Reprinted

RotateView ==
    /\ Reading
    /\ view' = CASE view = "ranking" -> "history" [] view = "history" -> "favorites"
                 [] view = "favorites" -> "ranking"
    /\ UNCHANGED <<lists, matching, caseSensitive, config, pattern, promptItems, ends>>
    /\ Reprinted

ToggleCaseSensitive ==
    /\ Reading
    /\ caseSensitive' = ~caseSensitive
    /\ UNCHANGED <<lists, view, matching, config, pattern, promptItems, ends>>
    /\ PrintedBy([regexp EXCEPT !.caseSensitive = caseSensitive'])

Resize ==
    /\ Reading
    /\ promptItems' \in Heights
    /\ UNCHANGED <<lists, modes, pattern, ends>>
    /\ Reprinted

-----------------------------------------------------------------------------
\* highlight_selection, on a terminal of that many rows: the row of the old
\* cursor is printed plain and that of the new one highlighted, with the command
\* that sel has for it; a row without an item is left alone.
Highlight(rows, lit, terminal, old, new, sel) ==
    LET Has(row) == row \in 0 .. terminal - 1 /\ InRow(row, promptItems, sel) # NULL
        Drawn(row) == row \in {old, new} /\ Has(row)
    IN  /\ shown' = [row \in 0 .. terminal - 1 |->
                        IF Drawn(row) THEN InRow(row, promptItems, sel) ELSE rows[row]]
        /\ highlighted' = (lit \ {row \in {old} : Has(row)}) \cup {row \in {new} : Has(row)}

Moved(step, sel) == CursorMove(cursor, step, config.promptBottom, promptItems, Len(sel))

Navigate ==
    /\ Reading
    /\ \E k \in DOMAIN CursorStep : cursor' = Moved(CursorStep[k], selection)
    /\ Highlight(shown, highlighted, promptItems, cursor, cursor', selection)
    /\ UNCHANGED <<lists, modes, pattern, selection, searched, regexp, missedResize, promptItems,
                   result, ends>>

\* remove_from_history_model
DeletedFromView(list, cmd) == IF view = "favorites" THEN list ELSE Without(list, cmd)

Delete_NotReprinted ==
    /\ favorites' = IF view = "favorites" THEN Removed(favorites, UnderCursor) ELSE favorites
    /\ rawItems'  = DeletedFromView(rawItems, UnderCursor)
    /\ items'     = DeletedFromView(items, UnderCursor)
    /\ UNCHANGED <<modes, pattern, screen, promptItems, cursor, result>>
Delete ==
    /\ favorites' = IF view = "favorites" THEN Removed(favorites, UnderCursor) ELSE favorites
    /\ rawItems'  = DeletedFromView(rawItems, UnderCursor)
    /\ items'     = DeletedFromView(items, UnderCursor)
    /\ UNCHANGED <<modes, pattern, promptItems>>
    /\ PrintedRows(regexp)
    \* the cursor is kept on a row with an item
    /\ cursor' = Moved(0, selection')
    /\ Highlight([row \in 0 .. promptItems - 1 |-> InRow(row, promptItems, selection')],
                 {}, promptItems, InPrompt, cursor', selection')

Del ==
    /\ Reading /\ UnderCursor # NULL
    /\ IF config.noConfirm
       THEN Delete /\ UNCHANGED ends
       ELSE /\ phase' = "confirm"
            /\ UNCHANGED <<lists, modes, pattern, screen, promptItems, cursor, result, keyOfExit>>

ConfirmYes ==
    /\ phase = "confirm"
    /\ Delete
    /\ phase' = "loop" /\ UNCHANGED keyOfExit

\* Any other answer.  So is a resize of the terminal: KEY_RESIZE is read here,
\* and the next turn of the loop counts the rows but does not print them.
ConfirmOther ==
    /\ phase = "confirm"
    /\ promptItems' \in Heights
    /\ cursor' = Moved(0, selection)
    /\ Highlight([row \in 0 .. promptItems' - 1 |->
                    IF row \in DOMAIN shown THEN shown[row] ELSE NULL],
                 highlighted \cap 0 .. promptItems' - 1, promptItems', InPrompt, cursor', selection)
    /\ missedResize' = (missedResize \/ promptItems' # promptItems)
    /\ phase' = "loop"
    /\ UNCHANGED <<lists, modes, pattern, selection, searched, regexp, result, keyOfExit>>

\* Ctrl-f
Favorite ==
    /\ Reading /\ UnderCursor # NULL
    /\ favorites' = IF view = "favorites"
                    THEN Chosen(favorites, UnderCursor, config.reorderOnChoice)
                    ELSE Added(favorites, UnderCursor, config.reorderOnChoice)
    /\ UNCHANGED <<rawItems, items, modes, pattern, promptItems, ends>>
    /\ Reprinted

-----------------------------------------------------------------------------
\* choose_result
Choose(fallback) ==
    /\ result' = IF UnderCursor # NULL THEN UnderCursor ELSE fallback
    /\ favorites' = IF UnderCursor # NULL /\ view = "favorites"
                    THEN Chosen(favorites, UnderCursor, config.reorderOnChoice)
                    ELSE favorites

\* The loop is left: hstr_curses_stop clears the screen, the loop's locals are
\* gone, and hstr_exit frees the selection and the regular expressions.
Left(key) ==
    /\ phase' = "done" /\ keyOfExit' = key
    /\ pattern' = <<>> /\ cursor' = InPrompt
    /\ selection' = <<>> /\ searched' = <<>> /\ regexp' = [regexp EXCEPT !.cache = [p \in {} |-> FALSE]]
    /\ shown' = [row \in DOMAIN shown |-> NULL] /\ highlighted' = {} /\ missedResize' = FALSE
    /\ UNCHANGED <<rawItems, items, modes, promptItems>>

\* ENTER executes, TAB, RIGHT and LEFT edit; Ctrl-g, ESC and Ctrl-x give up.
Enter ==
    /\ Reading
    /\ Choose(IF selection # <<>> THEN selection[1] ELSE result)
    /\ Left("enter")

Edit ==
    /\ Reading
    /\ Choose(pattern)
    /\ Left("edit")

GiveUp ==
    /\ Reading
    /\ result' = NULL
    /\ Left("give up") /\ UNCHANGED favorites

Next ==
    \/ Type \/ Backspace \/ ClearPattern \/ ToggleCase
    \/ RotateMatching \/ RotateView \/ ToggleCaseSensitive \/ Resize
    \/ Navigate \/ Del \/ ConfirmYes \/ ConfirmOther \/ Favorite
    \/ Enter \/ Edit \/ GiveUp

Spec == Init /\ [][Next]_vars

-----------------------------------------------------------------------------
Command == ToSet(RawItems) \cup ToSet(Items) \cup ToSet(Favorites)

\* The types: the cursor, however it is moved, is in the prompt or not above the
\* first row, and only rows of the terminal are highlighted.
TypeOK ==
    /\ \A list \in {rawItems, items, favorites, selection} : list \in Seq(Command)
    /\ pattern \in Seq(TypedChar)
    /\ promptItems \in Heights
    /\ cursor \in Nat \cup {InPrompt}
    /\ shown \in [0 .. promptItems - 1 -> Command \cup {NULL}]
    /\ highlighted \subseteq DOMAIN shown
    /\ phase \in {"loop", "confirm", "done"}

\* The selection, which holds pointers into the view, is the first rows that match
\* the pattern of the last search, in the view as it is now: deleting, reordering
\* and rotating leave nothing in it that is gone, or that the modes no longer match.
SelectionFresh ==
    (phase # "done" /\ ~missedResize) =>
        selection = FirstMatches(Source(rawItems, items, favorites, view), searched,
                                 Query(matching, caseSensitive, regexp, promptItems))

\* The views stay consistent: no favorite twice, no ranked command twice, none
\* that the history has lost.
ListsConsistent ==
    /\ IsInjective(favorites) /\ IsInjective(items)
    /\ ToSet(items) \subseteq ToSet(rawItems)

\* The cursor is in the prompt, or in a row of the terminal that is highlighted
\* and shows the command the keys act on, after every key but one: a resize that
\* was taken for an answer.
CursorOnItem ==
    (~missedResize /\ phase # "done" /\ cursor # InPrompt) =>
        /\ cursor \in highlighted
        /\ UnderCursor # NULL /\ shown[cursor] = UnderCursor

\* A view loses only the command in the highlighted row, only to DEL, and only
\* when the user has said yes or does not want to be asked.
DeletesOnlyHighlighted ==
    [][\A k \in 1 .. 3 : \A c \in ToSet(lists[k]) \ ToSet(lists'[k]) :
            /\ config.noConfirm \/ phase = "confirm"
            /\ ~missedResize => cursor \in highlighted /\ c = shown[cursor]]_vars

\* Leaving by ENTER runs the command in the highlighted row, if one is, and the
\* first of the selection if none is.
EnterRunsHighlighted ==
    [][(keyOfExit' = "enter" /\ keyOfExit = "none" /\ ~missedResize /\ selection # <<>>) =>
            IF cursor = InPrompt THEN result' = selection[1]
            ELSE cursor \in highlighted /\ result' = shown[cursor]]_vars
=============================================================================
