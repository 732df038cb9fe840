-------------------------------- MODULE Screen --------------------------------
(***************************************************************************)
(* What the terminal shows while loop_to_select runs: every key draws only *)
(* what it changes, over what earlier keys have left.  A row holds the     *)
(* prompt, a label, a notification or an item of the selection.  The       *)
(* pattern after the prompt, which is taken to fit, is left out (see       *)
(* Prompt), and what a search selects is any of some lists (see Selection).*)
(***************************************************************************)
EXTENDS ScreenLayout, Sequences, SequencesExt, FiniteSets

CONSTANTS
    Configs,    \* the configurations
    Heights,    \* the rows a terminal may have
    Command,
    Matches     \* what may match a pattern: sequences of commands

ASSUME HeightsAssumption == Heights \subseteq Nat \ {0}
ASSUME ConfigsAssumption == Configs \subseteq Config
ASSUME MatchesAssumption == Matches \subseteq Seq(Command)

VARIABLES
    config, lines,    \* hstr's configuration and the rows of the terminal
    selection,        \* as many of the matches as there are rows for items
    cursor,           \* selectionCursorPosition
    modes, favs,      \* what the history label says: modes and sizes of the
                      \* views, the number of favorites
    rows,             \* what is drawn in each row
    hideNotification, \* hideNotificationOnNextTick
    phase,            \* "start", "given" (a pattern to search first), "loop" or "confirm"
    amiss             \* history: what is known not to be drawn as it is, see Amiss

label == <<modes, favs>>
vars  == <<config, lines, selection, cursor, label, rows, hideNotification, phase, amiss>>

\* What is not drawn again when it should be:
Amiss == {"resize",  \* a resize was read as the answer to a question
          "lit",     \* Ctrl-l took the cursor out of a row, still highlighted
          "history", \* the history label on top was cleared by a search, or counts
                     \* without the favorite that Ctrl-f added
          "help"}    \* the basic help on top was cleared by a search

\* What is in a row.
Blank        == <<"blank">>
ThePrompt    == <<"prompt">>
Help         == <<"help">>
Notification == <<"notification">>
History(m, f) == <<"history", m, f>>
Item(x, lit) == <<"item", x, lit>>

-----------------------------------------------------------------------------
\* mvprintw: a row out of the terminal is not drawn.
Put(rs, y, what) == IF y \in DOMAIN rs THEN [rs EXCEPT ![y] = what] ELSE rs

\* print_help_label and print_history_label
HelpLabel(rs, n) == IF config.hideBasicHelp THEN rs ELSE Put(rs, PromptYHelp(n, config), Help)
HistoryLabel(rs, n, m, f) ==
    IF config.hideHistoryHelp THEN rs ELSE Put(rs, PromptYHistory(n, config), History(m, f))

Notified(rs, n) == Put(rs, PromptYNotification(n, config), Notification)

\* hide_notification
NotificationHidden(rs, n) ==
    IF config.hideBasicHelp THEN HistoryLabel(rs, n, modes, favs) ELSE HelpLabel(rs, n)
Ticked(n) ==
    LET rs == [y \in 0 .. n - 1 |-> IF y \in DOMAIN rows THEN rows[y] ELSE Blank]
    IN  IF hideNotification THEN NotificationHidden(rs, lines) ELSE rs

\* move and clrtobot: from the first row for items, or from behind the
\* terminal's cursor when move fails, there being no such row.
Cleared(rs, n, at) ==
    LET start == PromptYItemsStart(n, config)
        first == IF start < n THEN start ELSE at + 1
    IN  [y \in DOMAIN rs |-> IF y >= first THEN Blank ELSE rs[y]]

\* print_pattern and print_prompt, when the prompt is below the items.
PromptAgain_Cleared(rs, n) == rs
PromptAgain(rs, n) == IF config.promptBottom THEN Put(rs, PromptY(n, config), ThePrompt) ELSE rs

\* hstr_print_selection of sel, with the terminal's cursor in row at: labels
\* and prompt at the bottom have been cleared and are drawn again.
Printed(rs, n, sel, m, f, at) ==
    LET cleared == Cleared(rs, n, at)
        labels  == IF LabelsOnTop(config) THEN cleared
                   ELSE HistoryLabel(HelpLabel(cleared, n), n, m, f)
        Row(y)  == {i \in DOMAIN sel : RowOfItem(i - 1, n, config) = y}
    IN  [y \in DOMAIN rs |-> IF Row(y) = {} THEN PromptAgain(labels, n)[y]
                             ELSE Item(sel[CHOOSE i \in Row(y) : TRUE], FALSE)]

\* Which item a row under the cursor is taken for.
IndexOf(c, sel) == SelectionIndex(c, config.promptBottom, PromptItems(lines, config), Len(sel))
UnderCursor == IndexOf(cursor, selection) >= 0

\* highlight_selection
Lit(rs, c, sel, lit) ==
    IF IndexOf(c, sel) < 0 THEN rs
    ELSE Put(rs, PromptYItemsStart(lines, config) + c, Item(sel[IndexOf(c, sel) + 1], lit))
Highlighted(rs, old, new, sel) == Lit(Lit(rs, old, sel, FALSE), new, sel, TRUE)

Moved(step, sel) ==
    CursorMove(cursor, step, config.promptBottom, PromptItems(lines, config), Len(sel))

\* hstr_make_selection: what matches now, cut to the rows there are.
Selected(n) == \E m \in Matches : selection' = SubSeq(m, 1, Lesser(Len(m), PromptItems(n, config)))

\* What of am is still amiss when the rows below the labels have been printed: labels
\* on top are cleared if there is no such row, labels at the bottom drawn again.
AmissAfter(n, am) ==
    LET kept == am \ {"resize", "lit"}
    IN  IF ~LabelsOnTop(config) THEN kept \ {"history"}
        ELSE IF PromptYItemsStart(n, config) = n THEN kept \cup {"help", "history"} ELSE kept

\* ... and when a notification has been taken away: a label is drawn in its stead.
Relabelled(am) == am \ {IF config.hideBasicHelp THEN "history" ELSE "help"}
AmissTicked == IF hideNotification THEN Relabelled(amiss) ELSE amiss

-----------------------------------------------------------------------------
Init ==
    /\ config \in Configs
    /\ lines \in Heights
    /\ selection = <<>> /\ cursor = InPrompt
    /\ modes = 0 /\ favs = 0
    /\ rows = [y \in 0 .. lines - 1 |-> Blank]
    /\ hideNotification = TRUE /\ phase = "start"
    /\ amiss = {}

\* A negative promptItems becomes a capacity of four billion rows: what hstr
\* then does is not defined.
Fits == PromptItems(lines, config) >= 0

\* Before the loop: the selection, the labels if they are on top, the prompt.
Start ==
    /\ phase = "start" /\ Fits
    /\ Selected(lines)
    /\ LET printed == Printed(rows, lines, selection', modes, favs, 0)
           labelled == IF LabelsOnTop(config)
                       THEN HistoryLabel(HelpLabel(printed, lines), lines, modes, favs)
                       ELSE printed
       IN  rows' = Put(labelled, PromptY(lines, config), ThePrompt)
    /\ phase' \in {"given", "loop"}
    /\ UNCHANGED <<config, lines, cursor, label, hideNotification, amiss>>

\* The first turn of the loop, when there is a pattern on the command line.
PrintGiven ==
    /\ phase = "given"
    /\ Selected(lines)
    /\ rows' = Printed(rows, lines, selection', modes, favs, PromptY(lines, config))
    /\ phase' = "loop"
    /\ amiss' = AmissAfter(lines, amiss)
    /\ UNCHANGED <<config, lines, cursor, label, hideNotification>>

Reading == phase = "loop" /\ Fits

\* A character, or backspace.
Search ==
    /\ Reading
    /\ Selected(lines)
    /\ rows' = Printed(Ticked(lines), lines, selection', modes, favs, PromptY(lines, config))
    /\ cursor' = InPrompt
    /\ hideNotification' = FALSE
    /\ amiss' = AmissAfter(lines, AmissTicked)
    /\ UNCHANGED <<config, lines, label, phase>>

\* Ctrl-e, Ctrl-t and Ctrl-/ say in the label what they have changed.
RotateMode ==
    /\ Reading
    /\ Selected(lines)
    /\ modes' = 1 - modes
    /\ rows' = HistoryLabel(Printed(Ticked(lines), lines, selection', modes', favs,
                                    PromptY(lines, config)),
                            lines, modes', favs)
    /\ cursor' = InPrompt
    /\ hideNotification' = FALSE
    /\ amiss' = AmissAfter(lines, AmissTicked) \ {"history"}
    /\ UNCHANGED <<config, lines, favs, phase>>

\* KEY_RESIZE: the history label is drawn where it was and where it is now.
\* curses keeps the rows that are still there.
Resize ==
    /\ Reading
    /\ lines' \in Heights
    /\ IF PromptItems(lines', config) < 0
       THEN /\ rows' = [y \in 0 .. lines' - 1 |-> Blank]
            /\ UNCHANGED <<selection, cursor, hideNotification, amiss>>
       ELSE /\ Selected(lines')
            /\ LET old == HistoryLabel(Ticked(lines'), lines, modes, favs)
                   at  == IF config.hideHistoryHelp THEN PromptY(lines, config)
                          ELSE Lesser(PromptYHistory(lines, config), lines' - 1)
               IN  rows' = HistoryLabel(Printed(old, lines', selection', modes, favs, at),
                                        lines', modes, favs)
            /\ cursor' = InPrompt
            /\ hideNotification' = FALSE
            /\ amiss' = AmissAfter(lines', AmissTicked) \ {"history"}
    /\ UNCHANGED <<config, label, phase>>

Navigate ==
    /\ Reading
    /\ \E k \in DOMAIN CursorStep : cursor' = Moved(CursorStep[k], selection)
    /\ rows' = Highlighted(Ticked(lines), cursor, cursor', selection)
    /\ hideNotification' = FALSE
    /\ amiss' = AmissTicked
    /\ UNCHANGED <<config, lines, selection, label, phase>>

\* Ctrl-u, Ctrl-w, HOME and END draw no row but the prompt's ...
EditPattern ==
    /\ Reading
    /\ rows' = Ticked(lines)
    /\ hideNotification' = FALSE
    /\ amiss' = AmissTicked
    /\ UNCHANGED <<config, lines, selection, cursor, label, phase>>

\* ... nor does Ctrl-l, which takes the cursor out of its row.
ToggleCase ==
    /\ Reading
    /\ rows' = Ticked(lines)
    /\ cursor' = InPrompt
    /\ hideNotification' = FALSE
    /\ amiss' = IF UnderCursor THEN AmissTicked \cup {"lit"} ELSE AmissTicked
    /\ UNCHANGED <<config, lines, selection, label, phase>>

\* Ctrl-f: a command becomes a favorite, and a notification says so, or a
\* favorite is moved.
Favorite ==
    /\ Reading /\ UnderCursor
    /\ Selected(lines)
    /\ \E added \in BOOLEAN :
        LET f       == IF added THEN 1 - favs ELSE favs
            printed == Printed(Ticked(lines), lines, selection', modes, f, PromptY(lines, config))
        IN  /\ favs' = f
            /\ amiss' = IF added /\ LabelsOnTop(config) THEN AmissAfter(lines, AmissTicked) \cup {"history"}
                        ELSE AmissAfter(lines, AmissTicked)
            /\ \/ rows' = Notified(printed, lines) /\ hideNotification' = TRUE
               \/ ~added /\ rows' = printed /\ hideNotification' = FALSE
    /\ cursor' = InPrompt
    /\ UNCHANGED <<config, lines, modes, phase>>

\* DEL, once it is confirmed or need not be: a history or the favorites are one
\* command shorter, which a notification and the label say.
Deleted(rs, am) ==
    /\ Selected(lines)
    /\ \/ modes' = 1 - modes /\ UNCHANGED favs
       \/ favs' = 1 - favs /\ UNCHANGED modes
    /\ cursor' = Moved(0, selection')
    /\ LET printed == Printed(rs, lines, selection', modes', favs', PromptY(lines, config))
           told    == HistoryLabel(Notified(printed, lines), lines, modes', favs')
       IN  rows' = Highlighted(told, InPrompt, cursor', selection')
    /\ hideNotification' = TRUE
    /\ amiss' = AmissAfter(lines, am) \ {"history"}
    /\ phase' = "loop"
    /\ UNCHANGED <<config, lines>>

\* Is a deletion to be confirmed?  hstr->noConfirm is taken for a free choice.
Delete ==
    /\ Reading /\ UnderCursor
    /\ Deleted(Ticked(lines), AmissTicked)

AskToDelete ==
    /\ Reading /\ UnderCursor
    /\ rows' = Notified(Ticked(lines), lines)
    /\ hideNotification' = FALSE
    /\ phase' = "confirm"
    /\ amiss' = AmissTicked
    /\ UNCHANGED <<config, lines, selection, cursor, label>>

ConfirmYes ==
    /\ phase = "confirm"
    /\ Deleted(rows, amiss)

\* Any other key, and a resize: it is read here, and the rows are drawn where
\* they were.
ConfirmOther ==
    /\ phase = "confirm"
    /\ lines' \in Heights
    /\ cursor' = Moved(0, selection)
    /\ LET kept == [y \in 0 .. lines' - 1 |-> IF y \in DOMAIN rows THEN rows[y] ELSE Blank]
           told == HistoryLabel(NotificationHidden(kept, lines), lines, modes, favs)
       IN  rows' = Highlighted(told, InPrompt, cursor', selection)
    /\ hideNotification' = TRUE
    /\ amiss' = (Relabelled(amiss) \ {"history"}) \cup (IF lines' # lines THEN {"resize"} ELSE {})
    /\ phase' = "loop"
    /\ UNCHANGED <<config, selection, label>>

Next ==
    \/ Start \/ PrintGiven \/ Search \/ RotateMode \/ Resize \/ Navigate \/ EditPattern
    \/ ToggleCase \/ Favorite \/ Delete \/ AskToDelete \/ ConfirmYes \/ ConfirmOther

Spec == Init /\ [][Next]_vars

-----------------------------------------------------------------------------
\* What a row would show if the whole screen were drawn anew.
Fresh(y) ==
    LET i == SelectionIndex(y - PromptYItemsStart(lines, config), config.promptBottom,
                            PromptItems(lines, config), Len(selection))
    IN  IF y = PromptY(lines, config) THEN ThePrompt
        ELSE IF ~config.hideBasicHelp /\ y = PromptYHelp(lines, config) THEN Help
        ELSE IF ~config.hideHistoryHelp /\ y = PromptYHistory(lines, config)
        THEN History(modes, favs)
        ELSE IF i >= 0 THEN Item(selection[i + 1], cursor = y - PromptYItemsStart(lines, config))
        ELSE Blank

\* A notification, or one of the things known to be amiss: a label on top that is
\* not drawn as it is, and a row that is still highlighted.
Excused(y) ==
    \/ /\ y = PromptYNotification(lines, config) /\ rows[y] = Notification
       /\ hideNotification \/ config.hideBasicHelp
    \/ /\ "help" \in amiss /\ rows[y] = Blank
       /\ ~config.hideBasicHelp /\ y = PromptYHelp(lines, config)
    \/ /\ "history" \in amiss /\ rows[y] \in {Blank} \cup {History(modes, f) : f \in 0..1}
       /\ ~config.hideHistoryHelp /\ y = PromptYHistory(lines, config)
    \/ "lit" \in amiss /\ \E x \in ToSet(selection) :
            Fresh(y) = Item(x, FALSE) /\ rows[y] = Item(x, TRUE)

\* recalculate_max_history_items (hstr.c:497): a terminal with a row for the prompt
\* and each label gives every row to just one of them or to the items, whichever
\* of the four layouts, and the selection is cut to the rows that are left.
RowsPartition ==
    PromptItems(lines, config) >= 0 =>
        /\ ItemRows(lines, config) \cup FixedRows(lines, config) = 0 .. lines - 1
        /\ ItemRows(lines, config) \cap FixedRows(lines, config) = {}
        /\ "resize" \notin amiss =>
              \A i \in DOMAIN selection : RowOfItem(i - 1, lines, config) \in ItemRows(lines, config)

\* loop_to_select redraws for each key only what it thinks has changed
\* (hstr.c:1158, 1233, 1320 and the print_history_label calls around them):
\* whatever keys, answers and resizes came before, each row that is not excused
\* shows what drawing the whole screen anew would show there - the item that
\* ENTER would take is the one highlighted, and labels tell what is the case.
ScreenAsFresh ==
    (Reading /\ "resize" \notin amiss) =>
        \A y \in DOMAIN rows : rows[y] = Fresh(y) \/ Excused(y)
=============================================================================
