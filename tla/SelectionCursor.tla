---------------------------- MODULE SelectionCursor ----------------------------
(***************************************************************************)
(* The selection cursor of hstr_selection.c: which row of the screen is    *)
(* highlighted, which item of the selection that row shows, and where a    *)
(* navigation key takes it.  The rows are numbered from 0 downwards; with  *)
(* the prompt at the bottom the items are listed upwards from the last.    *)
(***************************************************************************)
EXTENDS Integers

CONSTANT PageJump   \* PG_JUMP_SIZE

ASSUME PageJumpAssumption == PageJump \in Nat \ {0}

InPrompt == -1      \* SELECTION_CURSOR_IN_PROMPT

Lesser(m, n) == IF m < n THEN m ELSE n

\* hstr_selection_cursor_step, for the keys of loop_to_select that navigate.
CursorStep == [up |-> -1, down |-> 1, ppage |-> -PageJump, npage |-> PageJump]

\* hstr_selection_index: the item, counted from 0, in the cursor's row, or -1.
SelectionIndex(cursor, promptBottom, promptItems, selectionSize) ==
    LET index == IF promptBottom THEN promptItems - cursor - 1 ELSE cursor
    IN  IF cursor # InPrompt /\ index >= 0 /\ index < selectionSize THEN index ELSE -1

\* hstr_selection_cursor_move: lines wrap around, pages stop at the edges.
CursorMove_NotEmptied(cursor, step, promptBottom, promptItems, selectionSize) ==
    cursor + step
CursorMove(cursor, step, promptBottom, promptItems, selectionSize) ==
    LET rows  == Lesser(selectionSize, promptItems)
        first == IF promptBottom THEN promptItems - rows ELSE 0
        last  == first + rows - 1
        moved == cursor + step
        line  == step \in {-1, 1}
    IN  IF rows <= 0 THEN InPrompt
        ELSE IF cursor = InPrompt THEN IF step = -1 THEN last ELSE first
        ELSE IF moved < first THEN IF line THEN last ELSE first
        ELSE IF moved > last THEN IF line THEN first ELSE last
        ELSE moved
=============================================================================
