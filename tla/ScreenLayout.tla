----------------------------- MODULE ScreenLayout -----------------------------
(***************************************************************************)
(* The layout of the screen: recalculate_max_history_items gives the       *)
(* prompt, the two labels and the items their rows, for a terminal of n    *)
(* rows and a configuration c, and hstr_print_selection puts the items in  *)
(* theirs.  The rows are numbered from 0 downwards.                        *)
(***************************************************************************)
EXTENDS SelectionCursor

Config == [promptBottom : BOOLEAN, helpOnOppositeSide : BOOLEAN,
           hideBasicHelp : BOOLEAN, hideHistoryHelp : BOOLEAN]

Rows(hidden) == IF hidden THEN 0 ELSE 1     \* of a label

LabelsOnTop(c) == c.promptBottom = c.helpOnOppositeSide

\* hstr->promptItems: an int, negative on a terminal that is too small for the
\* prompt and the labels, whose callers take it for unsigned.
PromptItems(n, c) == n - 1 - Rows(c.hideBasicHelp) - Rows(c.hideHistoryHelp)

PromptY(n, c) == IF c.promptBottom THEN n - 1 ELSE 0

\* The labels: basic help, which is nearer to the edge or to the prompt, and history.
PromptYHelp(n, c) ==
    IF LabelsOnTop(c) THEN IF c.promptBottom THEN 0 ELSE 1
                      ELSE IF c.promptBottom THEN n - 2 ELSE n - 1
PromptYHistory_UnderHelp(n, c) == PromptYHelp(n, c) + Rows(c.hideBasicHelp)
PromptYHistory(n, c) ==
    IF LabelsOnTop(c) THEN PromptYHelp(n, c) + Rows(c.hideBasicHelp)
                      ELSE PromptYHelp(n, c) - Rows(c.hideBasicHelp)

PromptYItemsStart(n, c) ==
    IF LabelsOnTop(c) THEN PromptYHistory(n, c) + Rows(c.hideHistoryHelp)
                      ELSE IF c.promptBottom THEN 0 ELSE 1
PromptYItemsEnd(n, c) == PromptYItemsStart(n, c) + PromptItems(n, c) - 1

\* A notification takes the row of the basic help.  Without that label the row
\* is never assigned and is what hstr_init has set.
PromptYNotification(n, c) == IF c.hideBasicHelp THEN 0 ELSE PromptYHelp(n, c)

\* hstr_print_selection: the row of item number i of the selection, from 0.
RowOfItem_Downwards(i, n, c) == PromptYItemsStart(n, c) + i
RowOfItem(i, n, c) ==
    IF c.promptBottom THEN PromptYItemsEnd(n, c) - i ELSE PromptYItemsStart(n, c) + i

ItemRows(n, c) == PromptYItemsStart(n, c) .. PromptYItemsEnd(n, c)

\* The rows of the prompt and of the labels that are not hidden.
FixedRows(n, c) ==
    {PromptY(n, c)} \cup (IF c.hideBasicHelp THEN {} ELSE {PromptYHelp(n, c)})
                   \cup (IF c.hideHistoryHelp THEN {} ELSE {PromptYHistory(n, c)})
=============================================================================
