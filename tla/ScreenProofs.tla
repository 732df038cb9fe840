---------------------------- MODULE ScreenProofs ----------------------------
(***************************************************************************)
(* Proofs about what the terminal shows while loop_to_select runs.         *)
(*                                                                         *)
(* First the layout and the items: for every terminal, whatever its        *)
(* height, the rows are shared out without a gap or an overlap, the item   *)
(* drawn in a row is the item the cursor in that row stands for, and the   *)
(* cursor never leaves the rows that show items.  What the handlers of     *)
(* hstr_main draw one by one adds up to what drawing the whole screen anew *)
(* would show, but for the rows whose difference is recorded               *)
(* (ScreenStaysFresh).                                                     *)
(*                                                                         *)
(* Then the row of the prompt, whose model is Prompt: for every set of     *)
(* characters, every buffer and every width of the row, what is done to    *)
(* the bytes of the pattern is editing a line of characters                *)
(* (PromptEditsCharacters).                                                *)
(*                                                                         *)
(* Last the part of a line a row shows, whose model is Elision: for every  *)
(* line, every width and every buffer it is the most that fits             *)
(* (ElisionIsCorrect).                                                     *)
(***************************************************************************)
EXTENDS Screen, Prompt, Elision, OperatorProofs, SequenceTheorems

\* hstr->promptItems is signed.
LEMMA ItemsInt ==
    ASSUME NEW n \in Nat, NEW c PROVE PromptItems(n, c) \in Int
  BY DEF PromptItems, Rows

\* The rows of the prompt, the labels and the items are all the rows, and no row
\* is both an item's and something else's (recalculate_max_history_items).
THEOREM LayoutPartitions ==
    ASSUME NEW n \in Nat, NEW c \in Config, PromptItems(n, c) >= 0
    PROVE  /\ ItemRows(n, c) \cup FixedRows(n, c) = 0 .. n - 1
           /\ ItemRows(n, c) \cap FixedRows(n, c) = {}
PROOF
<1> USE DEF PromptItems, Rows, PromptY, PromptYHelp, PromptYHistory,
            PromptYItemsStart, PromptYItemsEnd
<1>0. /\ c.promptBottom \in BOOLEAN /\ c.helpOnOppositeSide \in BOOLEAN
      /\ c.hideBasicHelp \in BOOLEAN /\ c.hideHistoryHelp \in BOOLEAN
  BY DEF Config
<1>t. LabelsOnTop(c) <=> (c.promptBottom <=> c.helpOnOppositeSide)
  BY <1>0 DEF LabelsOnTop
<1> HIDE DEF LabelsOnTop
<1>1. ASSUME NEW y \in Int
      PROVE  y \in ItemRows(n, c) \cup FixedRows(n, c) <=> y \in 0 .. n - 1
  <2>1. CASE c.promptBottom /\ c.helpOnOppositeSide
    BY <1>0, <1>t, <2>1 DEF ItemRows, FixedRows
  <2>2. CASE c.promptBottom /\ ~c.helpOnOppositeSide
    BY <1>0, <1>t, <2>2 DEF ItemRows, FixedRows
  <2>3. CASE ~c.promptBottom /\ c.helpOnOppositeSide
    BY <1>0, <1>t, <2>3 DEF ItemRows, FixedRows
  <2>4. CASE ~c.promptBottom /\ ~c.helpOnOppositeSide
    BY <1>0, <1>t, <2>4 DEF ItemRows, FixedRows
  <2> QED BY <2>1, <2>2, <2>3, <2>4
<1>2. ASSUME NEW y \in ItemRows(n, c)
      PROVE  y \notin FixedRows(n, c)
  <2>1. CASE c.promptBottom /\ c.helpOnOppositeSide
    BY <1>0, <1>t, <2>1 DEF ItemRows, FixedRows
  <2>2. CASE c.promptBottom /\ ~c.helpOnOppositeSide
    BY <1>0, <1>t, <2>2 DEF ItemRows, FixedRows
  <2>3. CASE ~c.promptBottom /\ c.helpOnOppositeSide
    BY <1>0, <1>t, <2>3 DEF ItemRows, FixedRows
  <2>4. CASE ~c.promptBottom /\ ~c.helpOnOppositeSide
    BY <1>0, <1>t, <2>4 DEF ItemRows, FixedRows
  <2> QED BY <2>1, <2>2, <2>3, <2>4
<1>3. /\ PromptY(n, c) \in Int /\ PromptYHelp(n, c) \in Int /\ PromptYHistory(n, c) \in Int
      /\ PromptYItemsStart(n, c) \in Int /\ PromptYItemsEnd(n, c) \in Int
  BY <1>0
<1>4. ItemRows(n, c) \subseteq Int /\ FixedRows(n, c) \subseteq Int
  <2> USE <1>3
  <2> HIDE DEF PromptY, PromptYHelp, PromptYHistory, PromptYItemsStart, PromptYItemsEnd
  <2> QED BY DEF ItemRows, FixedRows
<1> QED
  <2> HIDE DEF PromptItems, PromptY, PromptYHelp, PromptYHistory, PromptYItemsStart,
               PromptYItemsEnd
  <2> QED BY <1>1, <1>2, <1>4

\* The row of an item is one of those for items, and the index that
\* hstr_selection_index gives for a cursor in that row is that item's: ENTER
\* runs the command that hstr_print_selection has drawn there.
THEOREM RowShowsItsItem ==
    ASSUME NEW n \in Nat, NEW c \in Config, NEW size \in Nat, size <= PromptItems(n, c),
           NEW i \in 0 .. size - 1
    PROVE  /\ RowOfItem(i, n, c) \in ItemRows(n, c)
           /\ SelectionIndex(RowOfItem(i, n, c) - PromptYItemsStart(n, c), c.promptBottom,
                             PromptItems(n, c), size) = i
PROOF
<1>0. c.promptBottom \in BOOLEAN
  BY DEF Config
<1> DEFINE start == PromptYItemsStart(n, c)
           items == PromptItems(n, c)
<1>1. items \in Int /\ start \in Int
  BY DEF PromptItems, Rows, PromptYItemsStart, PromptYHistory, PromptYHelp
<1>2. PromptYItemsEnd(n, c) = start + items - 1
  BY DEF PromptYItemsEnd
<1>3. RowOfItem(i, n, c) = IF c.promptBottom THEN start + items - 1 - i ELSE start + i
  BY <1>0, <1>1, <1>2 DEF RowOfItem
<1>4. ItemRows(n, c) = start .. (start + items - 1)
  BY <1>2 DEF ItemRows
<1> HIDE DEF start, items
<1>5. size <= items
  BY DEF items
<1>6. RowOfItem(i, n, c) \in start .. (start + items - 1)
  BY <1>0, <1>1, <1>3, <1>5
<1>7. SelectionIndex(RowOfItem(i, n, c) - start, c.promptBottom, items, size) = i
  BY <1>0, <1>1, <1>3, <1>5 DEF SelectionIndex, InPrompt
<1> QED BY <1>4, <1>6, <1>7 DEF start, items

-----------------------------------------------------------------------------
\* The selection has no more items than there are rows, unless a resize has
\* been missed: what RowsPartition says of the items in terms of the state.
SelectionFits ==
    /\ config \in Config /\ lines \in Nat
    /\ selection \in Seq(Command)
    /\ (PromptItems(lines, config) >= 0 /\ "resize" \notin amiss) =>
            Len(selection) <= PromptItems(lines, config)

\* What hstr_make_selection returns is a prefix of what matches that fits.
LEMMA SelectedFits ==
    ASSUME config \in Config, NEW n \in Nat, Selected(n)
    PROVE  /\ selection' \in Seq(Command)
           /\ PromptItems(n, config) >= 0 => Len(selection') <= PromptItems(n, config)
PROOF
<1> DEFINE k(m) == Lesser(Len(m), PromptItems(n, config))
<1>1. PICK m \in Matches : selection' = SubSeq(m, 1, k(m))
  BY DEF Selected
<1>2. m \in Seq(Command) /\ Len(m) \in Nat
  BY MatchesAssumption, LenProperties
<1>3. PromptItems(n, config) \in Int
  BY ItemsInt
<1>4. k(m) \in Int /\ k(m) <= Len(m) /\ k(m) <= PromptItems(n, config)
  BY <1>2, <1>3 DEF Lesser
<1> HIDE DEF k
<1>5. \A j \in 1 .. k(m) : m[j] \in Command
  BY <1>2, <1>4, ElementOfSeq
<1>6. CASE k(m) < 1
  <2>1. SubSeq(m, 1, k(m)) = <<>>
    BY <1>2, <1>4, <1>6, SubSeqEmpty
  <2>2. selection' = <<>>
    BY <1>1, <2>1
  <2>3. Len(selection') = 0 /\ selection' \in Seq(Command)
    BY <2>2, EmptySeq
  <2> QED BY <1>3, <2>3
<1>7. CASE k(m) >= 1
  <2>1. SubSeq(m, 1, k(m)) \in Seq(Command) /\ Len(SubSeq(m, 1, k(m))) = k(m)
    BY <1>2, <1>4, <1>5, <1>7, SubSeqProperties
  <2> QED BY <1>1, <1>3, <1>4, <2>1
<1> QED BY <1>4, <1>6, <1>7

\* What the screen shows of the selection are commands, no more than it has rows for.
LEMMA SelectionFitsInit == Init => SelectionFits
  BY ConfigsAssumption, HeightsAssumption, EmptySeq DEF Init, SelectionFits

\* Every key and every resize keeps it so.
LEMMA SelectionFitsNext == SelectionFits /\ [Next]_vars => SelectionFits'
PROOF
<1> SUFFICES ASSUME SelectionFits, [Next]_vars PROVE SelectionFits'
  OBVIOUS
<1> USE DEF SelectionFits
<1>a. ASSUME config' = config, lines' \in Nat, Selected(lines') PROVE SelectionFits'
  BY <1>a, SelectedFits
<1>b. ASSUME config' = config, lines' = lines, Selected(lines) PROVE SelectionFits'
  BY <1>b, SelectedFits
<1>c. ASSUME config' = config, lines' = lines, selection' = selection,
             "resize" \in amiss => "resize" \in amiss'
      PROVE  SelectionFits'
  BY <1>c
<1>1. CASE Start
  BY <1>1, <1>b DEF Start
<1>2. CASE PrintGiven
  BY <1>2, <1>b DEF PrintGiven
<1>3. CASE Search
  BY <1>3, <1>b DEF Search
<1>4. CASE RotateMode
  BY <1>4, <1>b DEF RotateMode
<1>5. CASE Resize
  <2>1. lines' \in Nat /\ config' = config
    BY <1>5, HeightsAssumption DEF Resize
  <2>2. CASE PromptItems(lines', config) < 0
    <3>1. selection' = selection
      BY <1>5, <2>2 DEF Resize
    <3>2. ~(PromptItems(lines', config) >= 0)
      BY <2>1, <2>2, ItemsInt
    <3>3. ~(PromptItems(lines', config') >= 0)
      BY <2>1, <3>2
    <3> QED BY <2>1, <3>1, <3>3
  <2>3. CASE ~(PromptItems(lines', config) < 0)
    BY <1>5, <1>a, <2>1, <2>3 DEF Resize
  <2> QED BY <2>2, <2>3
<1>6. CASE Navigate
  BY <1>6, <1>c DEF Navigate, AmissTicked, Relabelled
<1>7. CASE EditPattern
  BY <1>7, <1>c DEF EditPattern, AmissTicked, Relabelled
<1>8. CASE ToggleCase
  BY <1>8, <1>c DEF ToggleCase, AmissTicked, Relabelled
<1>9. CASE Favorite
  BY <1>9, <1>b DEF Favorite
<1>10. CASE Delete
  BY <1>10, <1>b DEF Delete, Deleted
<1>11. CASE AskToDelete
  BY <1>11, <1>c DEF AskToDelete, AmissTicked, Relabelled
<1>12. CASE ConfirmYes
  BY <1>12, <1>b DEF ConfirmYes, Deleted
<1>13. CASE ConfirmOther
  <2>1. /\ lines' \in Nat /\ config' = config /\ selection' = selection
        /\ "resize" \in amiss \/ lines' # lines => "resize" \in amiss'
    BY <1>13, HeightsAssumption DEF ConfirmOther, Relabelled
  <2>2. CASE lines' = lines
    BY <1>c, <2>1, <2>2
  <2>3. CASE lines' # lines
    BY <2>1, <2>3
  <2> QED BY <2>2, <2>3
<1>14. CASE UNCHANGED vars
  BY <1>14, <1>c DEF vars, label
<1> QED BY <1>1, <1>2, <1>3, <1>4, <1>5, <1>6, <1>7, <1>8, <1>9, <1>10, <1>11, <1>12,
           <1>13, <1>14 DEF Next

\* Whatever keys are pressed, answers given and sizes the terminal takes: each row
\* of a terminal that is high enough belongs to one thing, and each item of the
\* selection has its row, unless a resize has been missed.
THEOREM RowsArePartitioned == Spec => []RowsPartition
PROOF
<1>1. SelectionFits => RowsPartition
  <2> SUFFICES ASSUME SelectionFits, PromptItems(lines, config) >= 0 PROVE
        /\ ItemRows(lines, config) \cup FixedRows(lines, config) = 0 .. lines - 1
        /\ ItemRows(lines, config) \cap FixedRows(lines, config) = {}
        /\ "resize" \notin amiss =>
              \A i \in DOMAIN selection :
                  RowOfItem(i - 1, lines, config) \in ItemRows(lines, config)
    BY DEF RowsPartition
  <2>1. config \in Config /\ lines \in Nat /\ selection \in Seq(Command)
    BY DEF SelectionFits
  <2>2. ASSUME "resize" \notin amiss, NEW i \in DOMAIN selection
        PROVE  RowOfItem(i - 1, lines, config) \in ItemRows(lines, config)
    <3>1. Len(selection) \in Nat /\ Len(selection) <= PromptItems(lines, config)
      BY <2>2, LenProperties DEF SelectionFits
    <3>2. i - 1 \in 0 .. Len(selection) - 1
      BY <2>1, <3>1, LenProperties
    <3> QED BY <2>1, <3>1, <3>2, RowShowsItsItem
  <2> QED BY <2>1, <2>2, LayoutPartitions
<1> QED BY <1>1, SelectionFitsInit, SelectionFitsNext, PTL DEF Spec

\* The switches of a configuration are booleans, and where the labels are is one too.
LEMMA ConfigFields ==
    ASSUME NEW c \in Config
    PROVE  /\ c.promptBottom \in BOOLEAN /\ c.helpOnOppositeSide \in BOOLEAN
           /\ c.hideBasicHelp \in BOOLEAN /\ c.hideHistoryHelp \in BOOLEAN
           /\ LabelsOnTop(c) \in BOOLEAN
BY DEF Config, LabelsOnTop

\* Where the prompt, the labels and the items are on a terminal they fit on.
IsLayout(c, n, start, items, prompt, help, history) ==
    /\ start \in Nat /\ items \in Nat /\ start + items <= n
    /\ prompt \in 0 .. n - 1
    /\ prompt < start <=> ~c.promptBottom
    /\ prompt < start => prompt = 0
    /\ ~c.hideBasicHelp =>
          /\ help \in 0 .. n - 1 /\ help # prompt /\ (help < start <=> LabelsOnTop(c))
    /\ ~c.hideHistoryHelp =>
          /\ history \in 0 .. n - 1 /\ history # prompt /\ (history < start <=> LabelsOnTop(c))
    /\ ~c.hideBasicHelp /\ ~c.hideHistoryHelp => help # history
    /\ \A y \in 0 .. start - 1 :
          y = prompt \/ (~c.hideBasicHelp /\ y = help) \/ (~c.hideHistoryHelp /\ y = history)
    /\ \A y \in start .. start + items - 1 :
          y # prompt /\ (~c.hideBasicHelp => y # help) /\ (~c.hideHistoryHelp => y # history)

\* The layout is one whenever the items have rows (recalculate_max_history_items).
LEMMA Layout ==
    ASSUME NEW c \in Config, NEW n \in Nat, PromptItems(n, c) >= 0
    PROVE  IsLayout(c, n, PromptYItemsStart(n, c), PromptItems(n, c), PromptY(n, c),
                    PromptYHelp(n, c), PromptYHistory(n, c))
<1> USE ConfigFields DEF PromptItems, Rows, PromptY, PromptYHelp, PromptYHistory, PromptYItemsStart
<1>1. LabelsOnTop(c) <=> (c.promptBottom <=> c.helpOnOppositeSide)
  BY DEF LabelsOnTop
<1>2. CASE c.promptBottom /\ c.helpOnOppositeSide
  BY <1>1, <1>2 DEF IsLayout
<1>3. CASE c.promptBottom /\ ~c.helpOnOppositeSide
  BY <1>1, <1>3 DEF IsLayout
<1>4. CASE ~c.promptBottom /\ c.helpOnOppositeSide
  BY <1>1, <1>4 DEF IsLayout
<1>5. CASE ~c.promptBottom /\ ~c.helpOnOppositeSide
  BY <1>1, <1>5 DEF IsLayout
<1> QED BY <1>2, <1>3, <1>4, <1>5

\* What stays where it is when the terminal is resized: all that is above the items.
LEMMA LayoutKeeps ==
    ASSUME NEW c \in Config, NEW n \in Nat, NEW k \in Nat
    PROVE  /\ PromptYItemsStart(k, c) = PromptYItemsStart(n, c)
           /\ LabelsOnTop(c) => /\ PromptYHelp(k, c) = PromptYHelp(n, c)
                                /\ PromptYHistory(k, c) = PromptYHistory(n, c)
           /\ ~c.promptBottom => PromptY(k, c) = PromptY(n, c)
BY ConfigFields DEF PromptY, PromptYHelp, PromptYHistory, PromptYItemsStart

\* The item hstr_print_selection puts in row y is the one SelectionIndex has for it.
LEMMA RowIndex ==
    ASSUME NEW c \in Config, NEW n \in Nat, NEW size \in Nat, size <= PromptItems(n, c),
           NEW y \in Int
    PROVE  LET idx == SelectionIndex(y - PromptYItemsStart(n, c), c.promptBottom,
                                     PromptItems(n, c), size)
           IN  /\ idx \in Int /\ idx < size
               /\ idx >= 0 => y \in PromptYItemsStart(n, c) ..
                                       PromptYItemsStart(n, c) + PromptItems(n, c) - 1
               /\ {i \in 1 .. size : RowOfItem(i - 1, n, c) = y}
                     = IF idx >= 0 THEN {idx + 1} ELSE {}
<1> DEFINE start == PromptYItemsStart(n, c)
           items == PromptItems(n, c)
<1>1. items \in Int /\ start \in Int /\ c.promptBottom \in BOOLEAN
  BY ConfigFields DEF PromptItems, Rows, PromptYItemsStart, PromptYHistory, PromptYHelp
<1>2. \A i \in Int : RowOfItem(i, n, c) = IF c.promptBottom THEN start + items - 1 - i ELSE start + i
  BY <1>1 DEF RowOfItem, PromptYItemsEnd
<1>3. size <= items
  OBVIOUS
<1> HIDE DEF start, items
<1> DEFINE idx == SelectionIndex(y - start, c.promptBottom, items, size)
<1>4. /\ idx \in Int /\ idx < size
      /\ idx >= 0 => y \in start .. start + items - 1
  BY <1>1, <1>3 DEF SelectionIndex, InPrompt
<1>5. ASSUME NEW i \in 1 .. size
      PROVE  RowOfItem(i - 1, n, c) = y <=> idx >= 0 /\ i = idx + 1
  BY <1>1, <1>2, <1>3 DEF SelectionIndex, InPrompt
<1>6. idx >= 0 => idx + 1 \in 1 .. size
  BY <1>4
<1> HIDE DEF idx
<1>7. {i \in 1 .. size : RowOfItem(i - 1, n, c) = y} = IF idx >= 0 THEN {idx + 1} ELSE {}
  BY <1>5, <1>6
<1> QED BY <1>4, <1>7 DEF idx, start, items

\* The item that row y shows, from 0, or -1.
ItemAt(c, y, n, size) ==
    SelectionIndex(y - PromptYItemsStart(n, c), c.promptBottom, PromptItems(n, c), size)

\* Fresh, of any state.
FreshAt(c, y, n, sel, cur, m, f) ==
    IF y = PromptY(n, c) THEN ThePrompt
    ELSE IF ~c.hideBasicHelp /\ y = PromptYHelp(n, c) THEN Help
    ELSE IF ~c.hideHistoryHelp /\ y = PromptYHistory(n, c) THEN History(m, f)
    ELSE IF ItemAt(c, y, n, Len(sel)) >= 0
         THEN Item(sel[ItemAt(c, y, n, Len(sel)) + 1], cur = y - PromptYItemsStart(n, c))
    ELSE Blank

\* What else may be in a row: a notification, nothing where a label was cleared, a
\* label that counts without the last favorite, a row still highlighted.
Told(c, v, y, n, am) ==
    /\ "told" \in am \/ c.hideBasicHelp
    /\ y = PromptYNotification(n, c) /\ v = Notification
Helpless(c, v, y, n, am) ==
    "help" \in am /\ ~c.hideBasicHelp /\ y = PromptYHelp(n, c) /\ v = Blank
Counted(c, v, y, n, m, am) ==
    /\ "history" \in am /\ ~c.hideHistoryHelp /\ y = PromptYHistory(n, c)
    /\ v = Blank \/ \E f \in 0..1 : v = History(m, f)
LitOnly(v, fresh, sel, am) ==
    "lit" \in am /\ \E x \in ToSet(sel) : fresh = Item(x, FALSE) /\ v = Item(x, TRUE)

Shows(c, v, y, n, sel, cur, m, f, am) ==
    \/ v = FreshAt(c, y, n, sel, cur, m, f)
    \/ Told(c, v, y, n, am)
    \/ Helpless(c, v, y, n, am)
    \/ Counted(c, v, y, n, m, am)
    \/ LitOnly(v, FreshAt(c, y, n, sel, cur, m, f), sel, am)


\* The things a row may hold are told apart.
LEMMA Distinct ==
    /\ ThePrompt # Help
    /\ \A x, lit : Item(x, lit) # ThePrompt /\ Item(x, lit) # Help /\ Item(x, lit) # Blank
    /\ \A x, lit, m, f : Item(x, lit) # History(m, f)
BY DEF ThePrompt, Help, Blank, Item, History

\* A row above the items shows what it did whatever is selected and however high the
\* terminal is now, unless it is the history label and that says something else now.
LEMMA TopRow ==
    ASSUME NEW c \in Config, NEW n \in Nat, NEW k \in Nat,
           PromptItems(n, c) >= 0, PromptItems(k, c) >= 0,
           NEW y \in 0 .. PromptYItemsStart(n, c) - 1, NEW v,
           NEW sel, NEW cur, NEW m, NEW f, NEW am,
           NEW sel2, NEW cur2, NEW m2, NEW f2, NEW am2,
           "told" \in am => "told" \in am2,
           "help" \in am \/ "history" \in am => LabelsOnTop(c),
           "help" \in am => "help" \in am2,
           \/ m2 = m /\ f2 = f /\ ("history" \in am => "history" \in am2)
           \/ m2 = m /\ f \in 0..1 /\ "history" \in am2
           \/ ~(~c.hideHistoryHelp /\ y = PromptYHistory(n, c)),
           Shows(c, v, y, n, sel, cur, m, f, am)
    PROVE  Shows(c, v, y, k, sel2, cur2, m2, f2, am2)
<1> DEFINE start == PromptYItemsStart(n, c)
           prompt == PromptY(n, c)
           help == PromptYHelp(n, c)
           history == PromptYHistory(n, c)
           fixed == y = prompt \/ (~c.hideBasicHelp /\ y = help) \/ (~c.hideHistoryHelp /\ y = history)
<1>1. IsLayout(c, n, start, PromptItems(n, c), prompt, help, history)
  BY Layout
<1>2. IsLayout(c, k, PromptYItemsStart(k, c), PromptItems(k, c), PromptY(k, c), PromptYHelp(k, c),
               PromptYHistory(k, c))
  BY Layout
<1>3. /\ PromptYItemsStart(k, c) = start
      /\ LabelsOnTop(c) => PromptYHelp(k, c) = help /\ PromptYHistory(k, c) = history
      /\ ~c.promptBottom => PromptY(k, c) = prompt
  BY LayoutKeeps
<1>4. y \in Nat /\ y < start
  BY <1>1 DEF IsLayout
<1> HIDE DEF start, prompt, help, history
<1>5. /\ y = prompt <=> y = PromptY(k, c)
      /\ ~c.hideBasicHelp => (y = help <=> y = PromptYHelp(k, c))
      /\ ~c.hideHistoryHelp => (y = history <=> y = PromptYHistory(k, c))
  BY <1>1, <1>2, <1>3, <1>4, ConfigFields DEF IsLayout
<1>6. fixed
  BY <1>1, <1>4 DEF IsLayout
<1>7. Told(c, v, y, n, am) => Told(c, v, y, k, am2)
  BY <1>5 DEF Told, PromptYNotification, help
<1>8. Helpless(c, v, y, n, am) => Helpless(c, v, y, k, am2)
  BY <1>3 DEF Helpless, help
<1>9. CASE y = prompt \/ (~c.hideBasicHelp /\ y = help)
  <2>1. FreshAt(c, y, n, sel, cur, m, f) = FreshAt(c, y, k, sel2, cur2, m2, f2)
    BY <1>5, <1>9 DEF FreshAt, prompt, help
  <2>2. \A x : FreshAt(c, y, n, sel, cur, m, f) # Item(x, FALSE)
    BY <1>9, Distinct DEF FreshAt, prompt, help
  <2>3. ~(~c.hideHistoryHelp /\ y = history)
    BY <1>1, <1>9 DEF IsLayout
  <2> QED BY <1>7, <1>8, <2>1, <2>2, <2>3 DEF Shows, LitOnly, Counted, history
<1>10. CASE ~(y = prompt \/ (~c.hideBasicHelp /\ y = help))
  <2>1. ~c.hideHistoryHelp /\ y = history /\ m2 = m
    BY <1>6, <1>10 DEF history
  <2>2. /\ FreshAt(c, y, n, sel, cur, m, f) = History(m, f)
        /\ FreshAt(c, y, k, sel2, cur2, m2, f2) = History(m, f2)
    BY <1>5, <1>10, <2>1 DEF FreshAt, prompt, help, history
  <2>3. f2 = f \/ (f \in 0..1 /\ "history" \in am2)
    BY <2>1 DEF history
  <2>4. "history" \in am => "history" \in am2
    BY <2>1 DEF history
  <2>5. Counted(c, v, y, n, m, am) => Counted(c, v, y, k, m2, am2)
    BY <1>5, <2>1, <2>4 DEF Counted, history
  <2>6. v = History(m, f) => v = History(m, f2) \/ Counted(c, v, y, k, m2, am2)
    BY <1>5, <2>1, <2>3 DEF Counted, history
  <2>7. ~LitOnly(v, FreshAt(c, y, n, sel, cur, m, f), sel, am)
    BY <2>2, Distinct DEF LitOnly
  <2> QED BY <1>7, <1>8, <2>2, <2>5, <2>6, <2>7 DEF Shows
<1> QED BY <1>9, <1>10

\* A row is drawn and no other.
LEMMA PutRow ==
    ASSUME NEW rs, NEW r, NEW what
    PROVE  /\ DOMAIN Put(rs, r, what) = DOMAIN rs
           /\ \A y \in DOMAIN rs : Put(rs, r, what)[y] = IF y = r THEN what ELSE rs[y]
BY DEF Put

\* print_help_label, print_history_label and the pattern change their own rows only.
LEMMA LabelRows ==
    ASSUME NEW rs, NEW n, NEW m, NEW f
    PROVE  /\ DOMAIN HistoryLabel(rs, n, m, f) = DOMAIN rs
           /\ DOMAIN HelpLabel(rs, n) = DOMAIN rs
           /\ \A y \in DOMAIN rs :
                /\ HistoryLabel(rs, n, m, f)[y] =
                      IF ~config.hideHistoryHelp /\ y = PromptYHistory(n, config)
                      THEN History(m, f) ELSE rs[y]
                /\ HelpLabel(rs, n)[y] =
                      IF ~config.hideBasicHelp /\ y = PromptYHelp(n, config)
                      THEN Help ELSE rs[y]
<1>1. HistoryLabel(rs, n, m, f) = IF config.hideHistoryHelp THEN rs
                                  ELSE Put(rs, PromptYHistory(n, config), History(m, f))
  BY DEF HistoryLabel
<1>2. HelpLabel(rs, n) = IF config.hideBasicHelp THEN rs
                         ELSE Put(rs, PromptYHelp(n, config), Help)
  BY DEF HelpLabel
<1> QED BY <1>1, <1>2, PutRow

\* The history label is right again, and so is what it counts.
LEMMA LabelShows ==
    ASSUME config \in Config, NEW n \in Nat, PromptItems(n, config) >= 0,
           NEW rs, NEW y \in DOMAIN rs,
           NEW sel, NEW cur, NEW m, NEW f, NEW am,
           \/ Shows(config, rs[y], y, n, sel, cur, m, f, am)
           \/ ~config.hideHistoryHelp /\ y = PromptYHistory(n, config)
    PROVE  Shows(config, HistoryLabel(rs, n, m, f)[y], y, n, sel, cur, m, f, am \ {"history"})
<1>1. CASE ~config.hideHistoryHelp /\ y = PromptYHistory(n, config)
  <2>1. HistoryLabel(rs, n, m, f)[y] = History(m, f)
    BY <1>1, LabelRows
  <2>2. y # PromptY(n, config) /\ ~(~config.hideBasicHelp /\ y = PromptYHelp(n, config))
    BY <1>1, Layout DEF IsLayout
  <2> QED BY <1>1, <2>1, <2>2 DEF Shows, FreshAt
<1>2. CASE ~(~config.hideHistoryHelp /\ y = PromptYHistory(n, config))
  <2>1. HistoryLabel(rs, n, m, f)[y] = rs[y]
    BY <1>2, LabelRows
  <2>2. ~Counted(config, rs[y], y, n, m, am)
    BY <1>2 DEF Counted
  <2>3. LitOnly(rs[y], FreshAt(config, y, n, sel, cur, m, f), sel, am)
           => LitOnly(rs[y], FreshAt(config, y, n, sel, cur, m, f), sel, am \ {"history"})
    BY DEF LitOnly
  <2>4. /\ Helpless(config, rs[y], y, n, am) => Helpless(config, rs[y], y, n, am \ {"history"})
        /\ Told(config, rs[y], y, n, am) => Told(config, rs[y], y, n, am \ {"history"})
    BY DEF Helpless, Told
  <2> QED BY <1>2, <2>1, <2>2, <2>3, <2>4 DEF Shows
<1> QED BY <1>1, <1>2

\* hide_notification: once the key is read, no row is excused for a notification, but
\* in a terminal without the basic help, and the label that is drawn in its stead is
\* not amiss any more.  k is the height the rows are copied to.
Ticking(am) == (IF hideNotification THEN Relabelled(am) ELSE am) \ {"told"}

\* hide_notification, row by row.
LEMMA TickedShows ==
    ASSUME config \in Config, lines \in Nat, PromptItems(lines, config) >= 0,
           hideNotification \in BOOLEAN,
           NEW k \in Nat, DOMAIN rows = 0 .. lines - 1
    PROVE  /\ DOMAIN Ticked(k) = 0 .. k - 1
           /\ \A y \in 0 .. k - 1 : \A sel, cur, am :
                 /\ y \in DOMAIN rows
                 /\ "told" \in am => hideNotification
                 /\ Shows(config, rows[y], y, lines, sel, cur, modes, favs, am)
                 => Shows(config, Ticked(k)[y], y, lines, sel, cur, modes, favs, Ticking(am))
<1> DEFINE rs == [y \in 0 .. k - 1 |-> IF y \in DOMAIN rows THEN rows[y] ELSE Blank]
<1>1. DOMAIN rs = 0 .. k - 1 /\ \A y \in 0 .. k - 1 : y \in DOMAIN rows => rs[y] = rows[y]
  OBVIOUS
<1>2. Ticked(k) = IF hideNotification THEN NotificationHidden(rs, lines) ELSE rs
  BY DEF Ticked
<1> HIDE DEF rs
<1>3. DOMAIN Ticked(k) = 0 .. k - 1
  BY <1>1, <1>2, LabelRows DEF NotificationHidden
<1>4. ASSUME NEW y \in 0 .. k - 1, NEW sel, NEW cur, NEW am, y \in DOMAIN rows,
             "told" \in am => hideNotification,
             Shows(config, rows[y], y, lines, sel, cur, modes, favs, am)
      PROVE  Shows(config, Ticked(k)[y], y, lines, sel, cur, modes, favs, Ticking(am))
  <2> DEFINE fresh == FreshAt(config, y, lines, sel, cur, modes, favs)
             am2 == Ticking(am)
  <2>1. /\ "help" \in am => "help" \in am2 \/ (hideNotification /\ ~config.hideBasicHelp)
        /\ "history" \in am => "history" \in am2 \/ (hideNotification /\ config.hideBasicHelp)
        /\ "lit" \in am => "lit" \in am2
    BY DEF Ticking, Relabelled
  <2> HIDE DEF am2
  <2>2. ASSUME Ticked(k)[y] = rows[y],
               Told(config, rows[y], y, lines, am2) \/ ~Told(config, rows[y], y, lines, am),
               "help" \in am2 \/ ~Helpless(config, rows[y], y, lines, am),
               "history" \in am2 \/ ~Counted(config, rows[y], y, lines, modes, am)
        PROVE  Shows(config, Ticked(k)[y], y, lines, sel, cur, modes, favs, am2)
    <3>1. /\ Helpless(config, rows[y], y, lines, am) => Helpless(config, rows[y], y, lines, am2)
          /\ Counted(config, rows[y], y, lines, modes, am)
                => Counted(config, rows[y], y, lines, modes, am2)
          /\ LitOnly(rows[y], fresh, sel, am) => LitOnly(rows[y], fresh, sel, am2)
      BY <2>1, <2>2 DEF Helpless, Counted, LitOnly
    <3> QED BY <1>4, <2>2, <3>1 DEF Shows
  <2>3. y \in DOMAIN rs /\ rs[y] = rows[y]
    BY <1>1, <1>4
  <2>4. CASE hideNotification /\ config.hideBasicHelp
    <3>1. Ticked(k) = HistoryLabel(rs, lines, modes, favs)
      BY <1>2, <2>4 DEF NotificationHidden
    <3>2. Ticked(k)[y] = IF ~config.hideHistoryHelp /\ y = PromptYHistory(lines, config)
                         THEN History(modes, favs) ELSE rows[y]
      BY <2>3, <3>1, LabelRows
    <3>3. CASE ~config.hideHistoryHelp /\ y = PromptYHistory(lines, config)
      <4>1. y # PromptY(lines, config)
        BY <3>3, Layout DEF IsLayout
      <4> QED BY <2>4, <3>2, <3>3, <4>1 DEF Shows, FreshAt, am2
    <3>4. CASE ~(~config.hideHistoryHelp /\ y = PromptYHistory(lines, config))
      <4>1. Told(config, rows[y], y, lines, am2) \/ ~Told(config, rows[y], y, lines, am)
        BY <2>4 DEF Told
      <4>2. /\ ~Helpless(config, rows[y], y, lines, am)
            /\ ~Counted(config, rows[y], y, lines, modes, am)
        BY <2>4, <3>4 DEF Helpless, Counted
      <4> QED BY <2>2, <3>2, <3>4, <4>1, <4>2 DEF am2
    <3> QED BY <3>3, <3>4
  <2>5. CASE hideNotification /\ ~config.hideBasicHelp
    <3>1. Ticked(k) = HelpLabel(rs, lines)
      BY <1>2, <2>5 DEF NotificationHidden
    <3>2. Ticked(k)[y] = IF y = PromptYHelp(lines, config) THEN Help ELSE rows[y]
      <4>1. HelpLabel(rs, lines)[y] = IF ~config.hideBasicHelp /\ y = PromptYHelp(lines, config)
                                      THEN Help ELSE rs[y]
        BY <2>3, LabelRows
      <4> QED BY <2>3, <2>5, <3>1, <4>1
    <3>3. CASE y = PromptYHelp(lines, config)
      <4>1. y # PromptY(lines, config)
        BY <2>5, <3>3, Layout DEF IsLayout
      <4> QED BY <2>5, <3>2, <3>3, <4>1 DEF Shows, FreshAt, am2
    <3>4. CASE y # PromptYHelp(lines, config)
      <4>1. /\ ~Told(config, rows[y], y, lines, am)
            /\ ~Helpless(config, rows[y], y, lines, am)
        BY <2>5, <3>4 DEF Told, PromptYNotification, Helpless
      <4>2. "history" \in am2 \/ ~Counted(config, rows[y], y, lines, modes, am)
        BY <2>1, <2>5 DEF Counted
      <4> QED BY <2>2, <3>2, <3>4, <4>1, <4>2 DEF am2
    <3> QED BY <3>3, <3>4
  <2>6. CASE ~hideNotification
    <3>1. Ticked(k)[y] = rows[y] /\ "told" \notin am
      BY <1>2, <1>4, <2>3, <2>6
    <3>2. am2 = am
      BY <2>6, <3>1 DEF am2, Ticking
    <3> QED BY <1>4, <3>1, <3>2 DEF am2
  <2> QED BY <2>4, <2>5, <2>6, ConfigFields
<1> QED BY <1>3, <1>4

\* The row of a label that is not hidden.
LabelRow(n, y) ==
    \/ ~config.hideBasicHelp /\ y = PromptYHelp(n, config)
    \/ ~config.hideHistoryHelp /\ y = PromptYHistory(n, config)

\* hstr_print_selection: the rows from the first item's on are as if drawn anew, and
\* those above it as they were, unless no row is left for items.
LEMMA PrintedRows ==
    ASSUME config \in Config, NEW n \in Nat, PromptItems(n, config) >= 0,
           NEW rs, DOMAIN rs = 0 .. n - 1,
           NEW sel \in Seq(Command), Len(sel) <= PromptItems(n, config),
           NEW m, NEW f, NEW at \in Nat
    PROVE  /\ DOMAIN Printed(rs, n, sel, m, f, at) = 0 .. n - 1
           /\ \A y \in 0 .. n - 1 :
                IF y >= PromptYItemsStart(n, config)
                THEN Printed(rs, n, sel, m, f, at)[y]
                        = FreshAt(config, y, n, sel, InPrompt, m, f)
                ELSE \/ Printed(rs, n, sel, m, f, at)[y] = rs[y]
                     \/ /\ LabelsOnTop(config) /\ PromptYItemsStart(n, config) = n
                        /\ LabelRow(n, y) /\ Printed(rs, n, sel, m, f, at)[y] = Blank
<1> DEFINE start == PromptYItemsStart(n, config)
           prompt == PromptY(n, config)
           help == PromptYHelp(n, config)
           history == PromptYHistory(n, config)
           cleared == Cleared(rs, n, at)
           labels == IF LabelsOnTop(config) THEN cleared
                     ELSE HistoryLabel(HelpLabel(cleared, n), n, m, f)
           Row(y) == {i \in DOMAIN sel : RowOfItem(i - 1, n, config) = y}
           idx(y) == ItemAt(config, y, n, Len(sel))
           P == Printed(rs, n, sel, m, f, at)
<1>0. IsLayout(config, n, start, PromptItems(n, config), prompt, help, history)
  BY Layout
<1>1. P = [y \in DOMAIN rs |-> IF Row(y) = {} THEN PromptAgain(labels, n)[y]
                               ELSE Item(sel[CHOOSE i \in Row(y) : TRUE], FALSE)]
  BY DEF Printed
<1>2. /\ DOMAIN cleared = 0 .. n - 1
      /\ \A y \in 0 .. n - 1 : cleared[y] = IF y >= (IF start < n THEN start ELSE at + 1)
                                            THEN Blank ELSE rs[y]
  BY DEF Cleared
<1> HIDE DEF cleared
<1>3. /\ DOMAIN labels = 0 .. n - 1
      /\ \A y \in 0 .. n - 1 : labels[y] =
            IF LabelsOnTop(config) THEN cleared[y]
            ELSE IF ~config.hideHistoryHelp /\ y = history THEN History(m, f)
            ELSE IF ~config.hideBasicHelp /\ y = help THEN Help
            ELSE cleared[y]
  <2>1. CASE LabelsOnTop(config)
    BY <1>2, <2>1
  <2>2. CASE ~LabelsOnTop(config)
    <3>1. labels = HistoryLabel(HelpLabel(cleared, n), n, m, f)
      BY <2>2
    <3>2. /\ DOMAIN HelpLabel(cleared, n) = 0 .. n - 1
          /\ \A y \in 0 .. n - 1 : HelpLabel(cleared, n)[y] =
                IF ~config.hideBasicHelp /\ y = help THEN Help ELSE cleared[y]
      <4>1. DOMAIN HelpLabel(cleared, n) = DOMAIN cleared
        BY LabelRows
      <4>2. \A y \in DOMAIN cleared : HelpLabel(cleared, n)[y] =
               IF ~config.hideBasicHelp /\ y = PromptYHelp(n, config) THEN Help ELSE cleared[y]
        BY LabelRows
      <4> QED BY <1>2, <4>1, <4>2
    <3>3. /\ DOMAIN labels = 0 .. n - 1
          /\ \A y \in 0 .. n - 1 : labels[y] =
                IF ~config.hideHistoryHelp /\ y = history THEN History(m, f)
                ELSE HelpLabel(cleared, n)[y]
      BY <3>1, <3>2, LabelRows
    <3> HIDE DEF labels
    <3> QED BY <2>2, <3>2, <3>3
  <2> QED BY <2>1, <2>2
<1> HIDE DEF labels
<1>4. \A y \in 0 .. n - 1 : PromptAgain(labels, n)[y] =
            IF config.promptBottom /\ y = prompt THEN ThePrompt ELSE labels[y]
  BY <1>3, PutRow, ConfigFields DEF PromptAgain
<1>5. Len(sel) \in Nat /\ DOMAIN sel = 1 .. Len(sel)
  BY LenProperties
<1>6. ASSUME NEW y \in 0 .. n - 1
      PROVE  /\ idx(y) \in Int
             /\ idx(y) >= 0 => y \in start .. start + PromptItems(n, config) - 1
             /\ Row(y) = IF idx(y) >= 0 THEN {idx(y) + 1} ELSE {}
  <2>1. y \in Int
    OBVIOUS
  <2>2. LET j == SelectionIndex(y - start, config.promptBottom, PromptItems(n, config), Len(sel))
        IN  /\ j \in Int /\ j < Len(sel)
            /\ j >= 0 => y \in start .. start + PromptItems(n, config) - 1
            /\ {i \in 1 .. Len(sel) : RowOfItem(i - 1, n, config) = y}
                  = IF j >= 0 THEN {j + 1} ELSE {}
    BY <1>5, <2>1, RowIndex, Zenon
  <2> QED BY <1>5, <2>2 DEF ItemAt
<1> HIDE DEF Row, idx, P
<1>7. ASSUME NEW y \in 0 .. n - 1
      PROVE  P[y] = IF idx(y) >= 0 THEN Item(sel[idx(y) + 1], FALSE)
                    ELSE IF config.promptBottom /\ y = prompt THEN ThePrompt ELSE labels[y]
  <2>1. CASE idx(y) >= 0
    <3>1. Row(y) = {idx(y) + 1}
      BY <1>6, <2>1
    <3>2. (CHOOSE i \in Row(y) : TRUE) = idx(y) + 1 /\ Row(y) # {}
      BY <3>1
    <3> QED BY <1>1, <2>1, <3>2
  <2>2. CASE ~(idx(y) >= 0)
    BY <1>1, <1>4, <1>6, <2>2
  <2> QED BY <2>1, <2>2
<1> DEFINE fresh(y) == FreshAt(config, y, n, sel, InPrompt, m, f)
<1>8. ASSUME NEW y \in 0 .. n - 1, y >= start
      PROVE  P[y] = fresh(y)
  <2>1. (InPrompt = y - start) = FALSE
    BY <1>0, <1>8 DEF IsLayout, InPrompt
  <2>2. fresh(y) = IF y = prompt THEN ThePrompt
                   ELSE IF ~config.hideBasicHelp /\ y = help THEN Help
                   ELSE IF ~config.hideHistoryHelp /\ y = history THEN History(m, f)
                   ELSE IF idx(y) >= 0 THEN Item(sel[idx(y) + 1], FALSE) ELSE Blank
    BY <2>1 DEF FreshAt, idx
  <2> HIDE DEF fresh, start, prompt, help, history
  <2>3. start < n /\ cleared[y] = Blank
    BY <1>0, <1>2, <1>8 DEF IsLayout
  <2>4. CASE idx(y) >= 0
    BY <1>0, <1>6, <1>7, <2>2, <2>4 DEF IsLayout
  <2>5. CASE ~(idx(y) >= 0)
    <3>1. P[y] = IF config.promptBottom /\ y = prompt THEN ThePrompt ELSE labels[y]
      BY <1>7, <2>5
    <3>2. CASE y = prompt
      BY <1>0, <1>8, <2>2, <3>1, <3>2, ConfigFields DEF IsLayout
    <3>3. CASE y # prompt
      BY <1>0, <1>3, <1>8, <2>2, <2>3, <2>5, <3>1, <3>3, ConfigFields DEF IsLayout
    <3> QED BY <3>2, <3>3
  <2> QED BY <2>4, <2>5
<1>9. ASSUME NEW y \in 0 .. n - 1, ~(y >= start)
      PROVE  P[y] = rs[y] \/ (LabelsOnTop(config) /\ start = n /\ LabelRow(n, y) /\ P[y] = Blank)
  <2> HIDE DEF start, prompt, help, history
  <2>1. ~(idx(y) >= 0) /\ ~(config.promptBottom /\ y = prompt)
    BY <1>0, <1>6, <1>9, ConfigFields DEF IsLayout
  <2>2. P[y] = labels[y]
    BY <1>7, <2>1
  <2>3. labels[y] = cleared[y]
    BY <1>0, <1>3, <1>9, ConfigFields DEF IsLayout
  <2>4. CASE start < n
    BY <1>2, <1>9, <2>2, <2>3, <2>4
  <2>5. CASE ~(start < n)
    <3>1. start = n
      BY <1>0, <2>5 DEF IsLayout
    <3>2. y < start
      BY <1>0, <1>9 DEF IsLayout
    <3>3. y = prompt => y = 0
      BY <1>0, <3>2 DEF IsLayout
    <3>4. CASE y = 0
      BY <1>2, <2>2, <2>3, <2>5, <3>4
    <3>5. CASE y # 0
      <4>1. (~config.hideBasicHelp /\ y = help) \/ (~config.hideHistoryHelp /\ y = history)
        BY <1>0, <3>2, <3>3, <3>5 DEF IsLayout
      <4>2. LabelRow(n, y)
        BY <4>1 DEF LabelRow, help, history
      <4>3. P[y] = rs[y] \/ P[y] = Blank
        BY <1>2, <2>2, <2>3
      <4> QED BY <1>0, <3>1, <3>2, <4>1, <4>2, <4>3, ConfigFields DEF IsLayout
    <3> QED BY <3>4, <3>5
  <2> QED BY <2>4, <2>5
<1>10. DOMAIN P = 0 .. n - 1
  BY <1>1
<1> HIDE DEF fresh, start, help, history
<1>11. \A y \in 0 .. n - 1 : IF y >= start THEN P[y] = fresh(y)
                ELSE P[y] = rs[y] \/ (LabelsOnTop(config) /\ start = n /\ LabelRow(n, y) /\ P[y] = Blank)
  BY <1>8, <1>9
<1> QED BY <1>10, <1>11 DEF P, fresh, start, help, history

\* highlight_selection, one row of it: if it is the cursor's, it shows its item, lit if
\* that is where the cursor is to be, and is what it was otherwise.
LEMMA LitRow ==
    ASSUME config \in Config, lines \in Nat, PromptItems(lines, config) >= 0,
           NEW y \in Nat, NEW sel \in Seq(Command),
           y < PromptYItemsStart(lines, config) \/ Len(sel) <= PromptItems(lines, config),
           NEW c \in Nat \cup {InPrompt}, NEW old \in {c, InPrompt}, NEW new \in {c, InPrompt},
           NEW v, NEW w,
           w = IF IndexOf(c, sel) >= 0 /\ y = PromptYItemsStart(lines, config) + c
               THEN Item(sel[IndexOf(c, sel) + 1], new = c) ELSE v,
           NEW m, NEW f, NEW am,
           Shows(config, v, y, lines, sel, old, m, f, am)
    PROVE  Shows(config, w, y, lines, sel, new, m, f, am)
<1> DEFINE start == PromptYItemsStart(lines, config)
           idx == ItemAt(config, y, lines, Len(sel))
           fresh(cur) == FreshAt(config, y, lines, sel, cur, m, f)
<1>0. IsLayout(config, lines, start, PromptItems(lines, config), PromptY(lines, config),
               PromptYHelp(lines, config), PromptYHistory(lines, config))
  BY Layout
<1>1. y \in Nat /\ start \in Nat /\ Len(sel) \in Nat
  BY <1>0, LenProperties DEF IsLayout
<1>2. idx \in Int /\ IndexOf(c, sel) \in Int
  <2>1. PromptItems(lines, config) \in Int
    BY ItemsInt
  <2> QED BY <1>1, <2>1 DEF ItemAt, IndexOf, SelectionIndex
<1>3. c = y - start => idx = IndexOf(c, sel)
  BY DEF ItemAt, IndexOf
<1>4. idx >= 0 => y - start # InPrompt
  BY <1>1 DEF ItemAt, SelectionIndex
<1>5. IndexOf(c, sel) >= 0 => c \in Nat
  BY <1>1 DEF IndexOf, SelectionIndex
<1>6. CASE IndexOf(c, sel) >= 0 /\ y = start + c
  <2>1. c \in Nat /\ c = y - start /\ idx = IndexOf(c, sel) /\ idx >= 0
    BY <1>1, <1>3, <1>5, <1>6
  <2>2. Len(sel) <= PromptItems(lines, config)
    BY <1>1, <1>6, <2>1
  <2>3. y \in start .. start + PromptItems(lines, config) - 1
    <3>1. LET j == SelectionIndex(y - start, config.promptBottom, PromptItems(lines, config), Len(sel))
          IN  /\ j \in Int /\ j < Len(sel)
              /\ j >= 0 => y \in start .. start + PromptItems(lines, config) - 1
              /\ {i \in 1 .. Len(sel) : RowOfItem(i - 1, lines, config) = y}
                    = IF j >= 0 THEN {j + 1} ELSE {}
      <4>1. y \in Int
        BY <1>1
      <4> QED BY <1>1, <2>2, <4>1, RowIndex, Zenon
    <3> QED BY <2>1, <3>1 DEF ItemAt
  <2>4. w = Item(sel[idx + 1], new = y - start)
    BY <1>6, <2>1
  <2>5. /\ y # PromptY(lines, config)
        /\ ~config.hideBasicHelp => y # PromptYHelp(lines, config)
        /\ ~config.hideHistoryHelp => y # PromptYHistory(lines, config)
    BY <1>0, <2>3 DEF IsLayout
  <2> QED BY <2>1, <2>4, <2>5 DEF Shows, FreshAt
<1>7. CASE ~(IndexOf(c, sel) >= 0 /\ y = start + c)
  <2>1. w = v
    BY <1>7
  <2>2. idx >= 0 => (old = y - start) = FALSE /\ (new = y - start) = FALSE
    BY <1>1, <1>2, <1>3, <1>4, <1>5, <1>7 DEF InPrompt
  <2>3. fresh(old) = fresh(new)
    <3>1. CASE idx >= 0
      <4>1. (old = y - start) = (new = y - start)
        BY <2>2, <3>1
      <4> QED BY <4>1 DEF FreshAt
    <3>2. CASE ~(idx >= 0)
      BY <3>2 DEF FreshAt
    <3> QED BY <3>1, <3>2
  <2> QED BY <2>1, <2>3 DEF Shows
<1> QED BY <1>6, <1>7

\* Highlighting moves from one row to another, or is drawn again where it is.
LEMMA HighlightedShows ==
    ASSUME config \in Config, lines \in Nat, PromptItems(lines, config) >= 0,
           NEW rs, DOMAIN rs \subseteq Nat, NEW y \in DOMAIN rs, NEW sel \in Seq(Command),
           y < PromptYItemsStart(lines, config) \/ Len(sel) <= PromptItems(lines, config),
           NEW cur \in Nat \cup {InPrompt}, NEW old \in Nat \cup {InPrompt},
           NEW new \in Nat \cup {InPrompt},
           old = cur \/ (old = InPrompt /\ new = cur),
           NEW m, NEW f, NEW am,
           Shows(config, rs[y], y, lines, sel, cur, m, f, am)
    PROVE  /\ DOMAIN Highlighted(rs, old, new, sel) = DOMAIN rs
           /\ Shows(config, Highlighted(rs, old, new, sel)[y], y, lines, sel, new, m, f, am)
<1> DEFINE unlit == Lit(rs, old, sel, FALSE)
           lit == Lit(unlit, new, sel, TRUE)
           between == IF old = cur THEN InPrompt ELSE cur
           start == PromptYItemsStart(lines, config)
<1>1. Len(sel) \in Nat /\ PromptItems(lines, config) \in Int /\ y \in Nat
  BY LenProperties, ItemsInt
<1>2. /\ \A c \in Nat \cup {InPrompt} : IndexOf(c, sel) \in Int
      /\ IndexOf(InPrompt, sel) = -1
      /\ IndexOf(old, sel) \in Int /\ IndexOf(new, sel) \in Int
  <2>1. \A c \in Nat \cup {InPrompt} : IndexOf(c, sel) \in Int
    BY <1>1 DEF IndexOf, SelectionIndex, InPrompt
  <2>2. IndexOf(InPrompt, sel) = -1
    BY DEF IndexOf, SelectionIndex
  <2> QED BY <2>1, <2>2
<1>3. /\ DOMAIN unlit = DOMAIN rs
      /\ unlit[y] = IF IndexOf(old, sel) >= 0 /\ y = start + old
                    THEN Item(sel[IndexOf(old, sel) + 1], FALSE) ELSE rs[y]
  <2> DEFINE at == start + old
             item == Item(sel[IndexOf(old, sel) + 1], FALSE)
  <2>1. unlit = IF IndexOf(old, sel) < 0 THEN rs ELSE Put(rs, at, item)
    BY DEF Lit
  <2> HIDE DEF unlit, at, item
  <2>2. /\ DOMAIN unlit = DOMAIN rs
        /\ unlit[y] = IF IndexOf(old, sel) >= 0 /\ y = at THEN item ELSE rs[y]
    BY <1>2, <2>1, PutRow
  <2> QED BY <2>2 DEF at, item
<1> HIDE DEF unlit
<1>4. /\ DOMAIN lit = DOMAIN rs
      /\ lit[y] = IF IndexOf(new, sel) >= 0 /\ y = start + new
                  THEN Item(sel[IndexOf(new, sel) + 1], TRUE) ELSE unlit[y]
  <2> DEFINE at == start + new
             item == Item(sel[IndexOf(new, sel) + 1], TRUE)
  <2>1. lit = IF IndexOf(new, sel) < 0 THEN unlit ELSE Put(unlit, at, item)
    BY DEF Lit
  <2> HIDE DEF lit, at, item
  <2>2. /\ DOMAIN lit = DOMAIN unlit
        /\ lit[y] = IF IndexOf(new, sel) >= 0 /\ y = at THEN item ELSE unlit[y]
    <3>1. y \in DOMAIN unlit
      BY <1>3
    <3>2. /\ DOMAIN Put(unlit, at, item) = DOMAIN unlit
          /\ Put(unlit, at, item)[y] = IF y = at THEN item ELSE unlit[y]
      BY <3>1, PutRow
    <3>3. IndexOf(new, sel) \in Int
      BY <1>2
    <3> QED BY <2>1, <3>2, <3>3
  <2> QED BY <1>3, <2>2 DEF at, item
<1> HIDE DEF lit, start
<1>5. Shows(config, unlit[y], y, lines, sel, between, m, f, am)
  <2>1. CASE IndexOf(old, sel) >= 0
    <3>1. old # InPrompt /\ old = cur /\ (InPrompt = old) = FALSE
      BY <1>2, <2>1
    <3>2. unlit[y] = IF IndexOf(old, sel) >= 0 /\ y = start + old
                     THEN Item(sel[IndexOf(old, sel) + 1], InPrompt = old) ELSE rs[y]
      BY <1>3, <3>1
    <3>3. Shows(config, unlit[y], y, lines, sel, InPrompt, m, f, am)
      BY <1>1, <3>1, <3>2, LitRow DEF start
    <3> QED BY <3>1, <3>3
  <2>2. CASE ~(IndexOf(old, sel) >= 0)
    <3>1. unlit[y] = rs[y]
      BY <1>3, <2>2
    <3>2. CASE old # cur
      BY <3>1, <3>2
    <3>3. CASE old = cur
      <4>1. unlit[y] = IF IndexOf(old, sel) >= 0 /\ y = start + old
                       THEN Item(sel[IndexOf(old, sel) + 1], InPrompt = old) ELSE rs[y]
        BY <2>2, <3>1
      <4>2. Shows(config, unlit[y], y, lines, sel, InPrompt, m, f, am)
        BY <1>1, <3>3, <4>1, LitRow DEF start
      <4> QED BY <3>3, <4>2
    <3> QED BY <3>2, <3>3
  <2> QED BY <2>1, <2>2
<1>6. between \in {new, InPrompt}
  OBVIOUS
<1> HIDE DEF between
<1>7. lit[y] = IF IndexOf(new, sel) >= 0 /\ y = start + new
               THEN Item(sel[IndexOf(new, sel) + 1], new = new) ELSE unlit[y]
  BY <1>4
<1>8. Shows(config, lit[y], y, lines, sel, new, m, f, am)
  BY <1>1, <1>5, <1>6, <1>7, LitRow DEF start
<1> QED BY <1>4, <1>8 DEF Highlighted, unlit, lit

\* The rows above the items of a terminal of k rows, as they were drawn for n rows.
TopShown(rs, k, n, sel, cur, m, f, am) ==
    \A y \in 0 .. PromptYItemsStart(k, config) - 1 :
        Shows(config, rs[y], y, n, sel, cur, m, f, am)

\* What a search leaves.  Only the history label may be wrong, if it is not drawn and
\* what it says has changed.
SearchShown(rs, k, sel, m0, f0, m, f, am) ==
    /\ DOMAIN rs = 0 .. k - 1
    /\ \A y \in 0 .. k - 1 :
          \/ m = m0 /\ (f = f0 \/ (f0 \in 0..1 /\ "history" \in am))
          \/ ~(~config.hideHistoryHelp /\ y = PromptYHistory(k, config))
          \/ ~LabelsOnTop(config)
          => Shows(config, rs[y], y, k, sel, InPrompt, m, f, am)

\* Of what is amiss, what stays so when a search is drawn on a terminal of k rows.
StaysAmiss(k, am, am2) ==
    /\ "help" \in am \/ "history" \in am => LabelsOnTop(config)
    /\ "told" \in am => "told" \in am2
    /\ "help" \in am => "help" \in am2
    /\ "history" \in am => "history" \in am2
    /\ LabelsOnTop(config) /\ PromptYItemsStart(k, config) = k
          => "help" \in am2 /\ "history" \in am2

\* hstr_print_selection, over rows that are right above the items.
LEMMA PrintedShows ==
    ASSUME config \in Config, NEW n \in Nat, NEW k \in Nat, PromptItems(n, config) >= 0,
           PromptItems(k, config) >= 0,
           NEW rs, DOMAIN rs = 0 .. k - 1,
           NEW sel, NEW cur, NEW m, NEW f, NEW am,
           TopShown(rs, k, n, sel, cur, m, f, am),
           NEW sel2 \in Seq(Command), Len(sel2) <= PromptItems(k, config), NEW at \in Nat,
           NEW m2, NEW f2, NEW am2,
           StaysAmiss(k, am, am2)
    PROVE  SearchShown(Printed(rs, k, sel2, m2, f2, at), k, sel2, m, f,
                       m2, f2, am2)
<1> DEFINE start == PromptYItemsStart(k, config)
           P == Printed(rs, k, sel2, m2, f2, at)
<1>0. IsLayout(config, k, start, PromptItems(k, config), PromptY(k, config),
               PromptYHelp(k, config), PromptYHistory(k, config))
  BY Layout
<1>1. /\ DOMAIN P = 0 .. k - 1
      /\ \A y \in 0 .. k - 1 :
            IF y >= start THEN P[y] = FreshAt(config, y, k, sel2, InPrompt, m2, f2)
            ELSE \/ P[y] = rs[y]
                 \/ /\ LabelsOnTop(config) /\ start = k
                    /\ LabelRow(k, y) /\ P[y] = Blank
  BY PrintedRows
<1>2. start = PromptYItemsStart(n, config)
      /\ (LabelsOnTop(config) => PromptYHistory(n, config) = PromptYHistory(k, config))
  BY LayoutKeeps
<1> HIDE DEF P, start
<1>3. ASSUME NEW y \in 0 .. k - 1,
             \/ m2 = m /\ (f2 = f \/ (f \in 0..1 /\ "history" \in am2))
             \/ ~(~config.hideHistoryHelp /\ y = PromptYHistory(k, config))
             \/ ~LabelsOnTop(config)
      PROVE  Shows(config, P[y], y, k, sel2, InPrompt, m2, f2, am2)
  <2>1. CASE y >= start
    BY <1>1, <2>1 DEF Shows
  <2>2. CASE ~(y >= start) /\ P[y] = rs[y]
    <3>1. y \in 0 .. start - 1 /\ start \in Nat
      BY <1>0, <2>2 DEF IsLayout
    <3>2. Shows(config, P[y], y, n, sel, cur, m, f, am)
      BY <2>2, <3>1 DEF start, TopShown
    <3>3. \/ m2 = m /\ f2 = f /\ ("history" \in am => "history" \in am2)
          \/ m2 = m /\ f \in 0..1 /\ "history" \in am2
          \/ ~(~config.hideHistoryHelp /\ y = PromptYHistory(n, config))
      <4> USE DEF StaysAmiss
      <4>1. CASE ~LabelsOnTop(config)
        <5>1. ~config.hideHistoryHelp => PromptYHistory(n, config) >= PromptYItemsStart(n, config)
          BY <4>1, Layout DEF IsLayout
        <5> QED BY <1>2, <3>1, <5>1
      <4>2. CASE LabelsOnTop(config)
        BY <1>2, <1>3, <4>2
      <4> QED BY <4>1, <4>2
    <3>4. y \in 0 .. PromptYItemsStart(n, config) - 1
      BY <1>2, <3>1
    <3> QED BY <3>2, <3>3, <3>4, TopRow DEF StaysAmiss
  <2>3. CASE ~(y >= start) /\ P[y] # rs[y]
    BY <1>1, <2>3 DEF Shows, Helpless, Counted, LabelRow, start, StaysAmiss
  <2> QED BY <2>1, <2>2, <2>3
<1> QED BY <1>1, <1>3 DEF P, SearchShown

\* The cursor is in the prompt or in a row, wherever it is moved ...
LEMMA MovedIsRow ==
    ASSUME config \in Config, lines \in Nat, PromptItems(lines, config) >= 0,
           cursor \in Nat \cup {InPrompt}, NEW step \in Int, NEW sel \in Seq(Command)
    PROVE  Moved(step, sel) \in Nat \cup {InPrompt}
<1> DEFINE items == PromptItems(lines, config)
           bottom == config.promptBottom
<1>1. items \in Nat /\ bottom \in BOOLEAN /\ Len(sel) \in Nat /\ cursor \in Int
  BY ItemsInt, ConfigFields, LenProperties DEF InPrompt
<1> HIDE DEF items, bottom
<1> DEFINE size == Lesser(Len(sel), items)
           first == IF bottom THEN items - size ELSE 0
           last == first + size - 1
<1>2. size \in Nat /\ size <= items
  BY <1>1 DEF Lesser
<1>3. first \in Nat /\ last \in Int /\ (size > 0 => last >= first)
  BY <1>1, <1>2
<1>4. CursorMove(cursor, step, bottom, items, Len(sel)) =
         LET byLine == step \in {-1, 1}
         IN  IF size <= 0 THEN InPrompt
             ELSE IF cursor = InPrompt THEN IF step = -1 THEN last ELSE first
             ELSE IF cursor + step < first THEN IF byLine THEN last ELSE first
             ELSE IF cursor + step > last THEN IF byLine THEN first ELSE last
             ELSE cursor + step
  BY DEF CursorMove
<1> HIDE DEF size, first, last
<1>5. CursorMove(cursor, step, bottom, items, Len(sel)) \in Nat \cup {InPrompt}
  BY <1>1, <1>2, <1>3, <1>4
<1> QED BY <1>5 DEF Moved, items, bottom

\* ... and stays where it is if it is moved nowhere and there is an item.
LEMMA MovedNowhere ==
    ASSUME config \in Config, lines \in Nat, selection \in Seq(Command),
           cursor \in Nat \cup {InPrompt},
           Len(selection) <= PromptItems(lines, config), UnderCursor
    PROVE  Moved(0, selection) = cursor
<1> DEFINE items == PromptItems(lines, config)
           bottom == config.promptBottom
<1>1. items \in Int /\ bottom \in BOOLEAN /\ Len(selection) \in Nat /\ Len(selection) <= items
  BY ItemsInt, ConfigFields, LenProperties
<1>2. SelectionIndex(cursor, bottom, items, Len(selection)) >= 0
  BY DEF UnderCursor, IndexOf
<1> HIDE DEF items, bottom
<1> DEFINE size == Len(selection)
           first == IF bottom THEN items - size ELSE 0
           last == first + size - 1
<1> HIDE DEF size
<1>3. size \in Nat /\ size <= items
  BY <1>1 DEF size
<1>4. cursor # InPrompt /\ cursor \in Nat /\ size > 0 /\ first <= cursor /\ cursor <= last
  BY <1>1, <1>2, <1>3 DEF SelectionIndex, InPrompt, size
<1>5. Lesser(size, items) = size
  BY <1>1, <1>3 DEF Lesser
<1>6. CursorMove(cursor, 0, bottom, items, size) =
             IF size <= 0 THEN InPrompt
             ELSE IF cursor = InPrompt THEN IF 0 = -1 THEN last ELSE first
             ELSE IF cursor + 0 < first THEN IF 0 \in {-1, 1} THEN last ELSE first
             ELSE IF cursor + 0 > last THEN IF 0 \in {-1, 1} THEN first ELSE last
             ELSE cursor + 0
  BY <1>5 DEF CursorMove
<1> HIDE DEF first, last
<1>7. first \in Int /\ last \in Int
  BY <1>1, <1>3 DEF first, last
<1>8. CursorMove(cursor, 0, bottom, items, size) = cursor
  BY <1>3, <1>4, <1>6, <1>7
<1> QED BY <1>8 DEF Moved, items, bottom, size

-----------------------------------------------------------------------------
\* The types the rows are drawn with.
ScreenTypes ==
    /\ config \in Config /\ lines \in Nat \ {0} /\ DOMAIN rows = 0 .. lines - 1
    /\ modes \in 0..1 /\ favs \in 0..1
    /\ cursor \in Nat \cup {InPrompt} /\ hideNotification \in BOOLEAN

\* What the phases say: nothing is amiss before the loop, and a question is asked of
\* the item under the cursor.  Labels are missed or count wrongly on top only.
PhasesKnown ==
    /\ phase \in {"start", "given", "loop", "confirm"}
    /\ amiss \subseteq Amiss
    /\ phase = "start" => amiss = {}
    /\ phase \in {"start", "given"} => cursor = InPrompt
    /\ phase = "given" => Fits
    /\ phase = "confirm" => Fits /\ UnderCursor
    /\ "help" \in amiss \/ "history" \in amiss => LabelsOnTop(config)

\* What excuses a row: what is amiss, and a notification that is to be hidden when the
\* next key is read or a question that waits for its answer.
Excuses == amiss \cup (IF hideNotification \/ phase = "confirm" THEN {"told"} ELSE {})

\* Every row shows what it should.  If a resize has been missed, only those above the
\* items do.
RowsShown ==
    phase # "start" /\ Fits =>
        \A y \in 0 .. lines - 1 :
            y < PromptYItemsStart(lines, config) \/ "resize" \notin amiss =>
                Shows(config, rows[y], y, lines, selection, cursor, modes, favs, Excuses)

ScreenInv == ScreenTypes /\ PhasesKnown /\ RowsShown

\* Before anything is drawn no row is told anything of.
LEMMA ScreenInit == Init => ScreenInv
<1> SUFFICES ASSUME Init PROVE ScreenInv
  OBVIOUS
<1>1. ScreenTypes
  BY ConfigsAssumption, HeightsAssumption DEF Init, ScreenTypes
<1>2. PhasesKnown
  BY DEF Init, PhasesKnown
<1>3. RowsShown
  BY DEF Init, RowsShown
<1> QED BY <1>1, <1>2, <1>3 DEF ScreenInv

\* What the steps below start from.
Given == ScreenInv /\ SelectionFits /\ SelectionFits'

\* Fits says the same of the rows as SelectionFits does.
LEMMA GivenFacts ==
    ASSUME Given
    PROVE  /\ config \in Config /\ lines \in Nat \ {0} /\ DOMAIN rows = 0 .. lines - 1
           /\ modes \in 0..1 /\ favs \in 0..1
           /\ cursor \in Nat \cup {InPrompt} /\ hideNotification \in BOOLEAN
           /\ selection \in Seq(Command) /\ selection' \in Seq(Command)
           /\ Fits <=> PromptItems(lines, config) >= 0
           /\ "resize" \notin amiss /\ Fits => Len(selection) <= PromptItems(lines, config)
           /\ LabelsOnTop(config) \in BOOLEAN
           /\ InPrompt \in Nat \cup {InPrompt}
BY ConfigFields DEF Given, ScreenInv, ScreenTypes, SelectionFits, Fits

\* What a tick leaves, for a terminal of k rows.
LEMMA GivenTicked ==
    ASSUME Given, Reading, NEW k \in Nat
    PROVE  /\ DOMAIN Ticked(k) = 0 .. k - 1
           /\ \A y \in 0 .. k - 1 :
                 y < lines
                 /\ (y < PromptYItemsStart(lines, config) \/ "resize" \notin amiss)
                 => Shows(config, Ticked(k)[y], y, lines, selection, cursor, modes, favs,
                          AmissTicked)
<1>1. /\ phase = "loop" /\ Fits /\ PromptItems(lines, config) >= 0 /\ config \in Config
      /\ lines \in Nat /\ hideNotification \in BOOLEAN /\ DOMAIN rows = 0 .. lines - 1
  BY GivenFacts DEF Reading
<1>2. /\ DOMAIN Ticked(k) = 0 .. k - 1
      /\ \A y \in 0 .. k - 1 : \A sel, cur, am :
            /\ y \in DOMAIN rows
            /\ "told" \in am => hideNotification
            /\ Shows(config, rows[y], y, lines, sel, cur, modes, favs, am)
            => Shows(config, Ticked(k)[y], y, lines, sel, cur, modes, favs, Ticking(am))
  BY <1>1, TickedShows
<1>3. ASSUME NEW y \in 0 .. k - 1, y < lines,
             y < PromptYItemsStart(lines, config) \/ "resize" \notin amiss
      PROVE  Shows(config, Ticked(k)[y], y, lines, selection, cursor, modes, favs, AmissTicked)
  <2>1. y \in 0 .. lines - 1 /\ y \in DOMAIN rows
    BY <1>1, <1>3
  <2>2. Shows(config, rows[y], y, lines, selection, cursor, modes, favs, Excuses)
    BY <1>1, <1>3, <2>1 DEF Given, ScreenInv, RowsShown
  <2>3. ("told" \in Excuses => hideNotification) /\ Ticking(Excuses) = AmissTicked
    BY <1>1 DEF Excuses, Given, ScreenInv, PhasesKnown, Amiss, Ticking, Relabelled, AmissTicked
  <2> QED BY <1>2, <2>1, <2>2, <2>3
<1> QED BY <1>2, <1>3

\* A row that is drawn as anew shows what it should.
LEMMA FreshShows ==
    ASSUME NEW c, NEW v, NEW y, NEW n, NEW sel, NEW cur, NEW m, NEW f, NEW am,
           v = FreshAt(c, y, n, sel, cur, m, f)
    PROVE  Shows(c, v, y, n, sel, cur, m, f, am)
BY DEF Shows

\* The rows before the loop: everything is drawn.
LEMMA StartShown == ASSUME Given, Start PROVE ScreenInv'
<1> DEFINE start == PromptYItemsStart(lines, config)
           prompt == PromptY(lines, config)
           help == PromptYHelp(lines, config)
           history == PromptYHistory(lines, config)
           P == Printed(rows, lines, selection', modes, favs, 0)
           L == IF LabelsOnTop(config) THEN HistoryLabel(HelpLabel(P, lines), lines, modes, favs)
                ELSE P
           fresh(y) == FreshAt(config, y, lines, selection', InPrompt, modes, favs)
<1>0. /\ phase = "start" /\ Fits /\ Selected(lines) /\ phase' \in {"given", "loop"}
      /\ rows' = Put(L, prompt, ThePrompt)
      /\ UNCHANGED <<config, lines, cursor, label, hideNotification, amiss>>
  BY DEF Start
<1>1. cursor = InPrompt /\ amiss = {}
  BY <1>0 DEF Given, ScreenInv, PhasesKnown
<1>2. IsLayout(config, lines, start, PromptItems(lines, config), prompt, help, history)
  BY <1>0, GivenFacts, Layout
<1>3. Len(selection') <= PromptItems(lines, config)
  BY <1>0, GivenFacts, SelectedFits
<1>4. /\ DOMAIN P = 0 .. lines - 1
      /\ \A y \in 0 .. lines - 1 : y >= start => P[y] = fresh(y)
  BY <1>0, <1>3, GivenFacts, PrintedRows
<1> HIDE DEF P
<1>5. /\ DOMAIN L = 0 .. lines - 1
      /\ \A y \in 0 .. lines - 1 : L[y] =
            IF LabelsOnTop(config) /\ ~config.hideHistoryHelp /\ y = history
            THEN History(modes, favs)
            ELSE IF LabelsOnTop(config) /\ ~config.hideBasicHelp /\ y = help THEN Help ELSE P[y]
  <2>1. CASE LabelsOnTop(config)
    <3>1. /\ DOMAIN HelpLabel(P, lines) = 0 .. lines - 1
          /\ \A y \in 0 .. lines - 1 : HelpLabel(P, lines)[y] =
                IF ~config.hideBasicHelp /\ y = help THEN Help ELSE P[y]
      <4>1. DOMAIN HelpLabel(P, lines) = DOMAIN P
        BY LabelRows
      <4>2. \A y \in DOMAIN P : HelpLabel(P, lines)[y] =
               IF ~config.hideBasicHelp /\ y = PromptYHelp(lines, config) THEN Help ELSE P[y]
        BY LabelRows
      <4> QED BY <1>4, <4>1, <4>2
    <3>2. /\ DOMAIN L = 0 .. lines - 1
          /\ \A y \in 0 .. lines - 1 : L[y] =
                IF ~config.hideHistoryHelp /\ y = history THEN History(modes, favs)
                ELSE HelpLabel(P, lines)[y]
      <4> DEFINE H == HelpLabel(P, lines)
      <4>1. L = HistoryLabel(H, lines, modes, favs)
        BY <2>1
      <4> HIDE DEF H, L
      <4>2. DOMAIN HistoryLabel(H, lines, modes, favs) = DOMAIN H
        BY LabelRows
      <4>3. \A y \in DOMAIN H : HistoryLabel(H, lines, modes, favs)[y] =
               IF ~config.hideHistoryHelp /\ y = PromptYHistory(lines, config)
               THEN History(modes, favs) ELSE H[y]
        BY LabelRows
      <4>4. DOMAIN H = 0 .. lines - 1
        BY <3>1 DEF H
      <4> QED BY <4>1, <4>2, <4>3, <4>4 DEF H
    <3> HIDE DEF L
    <3> QED BY <2>1, <3>1, <3>2
  <2>2. CASE ~LabelsOnTop(config)
    BY <1>4, <2>2
  <2> QED BY <2>1, <2>2
<1> HIDE DEF L
<1>6. /\ DOMAIN rows' = 0 .. lines - 1
      /\ \A y \in 0 .. lines - 1 : rows'[y] = IF y = prompt THEN ThePrompt ELSE L[y]
  <2>1. DOMAIN Put(L, prompt, ThePrompt) = DOMAIN L
    BY PutRow
  <2>2. \A y \in DOMAIN L : Put(L, prompt, ThePrompt)[y] = IF y = prompt THEN ThePrompt ELSE L[y]
    BY PutRow
  <2> QED BY <1>0, <1>5, <2>1, <2>2
<1>7. ASSUME NEW y \in 0 .. lines - 1
      PROVE  rows'[y] = fresh(y)
  <2>1. CASE y = prompt
    BY <1>6, <2>1 DEF FreshAt
  <2>2. CASE y # prompt /\ y >= start
    <3>1. L[y] = P[y]
      <4> HIDE DEF start, help, history
      <4> QED BY <1>2, <1>5, <2>2 DEF IsLayout
    <3> QED BY <1>4, <1>6, <2>2, <3>1
  <2>3. CASE y # prompt /\ ~(y >= start)
    <3>1. /\ (~config.hideBasicHelp /\ y = help) \/ (~config.hideHistoryHelp /\ y = history)
          /\ LabelsOnTop(config)
          /\ ~((~config.hideBasicHelp /\ y = help) /\ (~config.hideHistoryHelp /\ y = history))
      <4> HIDE DEF start, help, history, prompt
      <4> QED BY <1>2, <2>3 DEF IsLayout
    <3>2. L[y] = IF ~config.hideBasicHelp /\ y = help THEN Help ELSE History(modes, favs)
      <4> HIDE DEF help, history
      <4> QED BY <1>5, <3>1
    <3> QED BY <1>6, <2>3, <3>1, <3>2 DEF FreshAt
  <2> QED BY <2>1, <2>2, <2>3
<1> HIDE DEF fresh
<1>8. ASSUME NEW y \in 0 .. lines - 1
      PROVE  Shows(config, rows'[y], y, lines, selection', InPrompt, modes, favs, Excuses')
  BY <1>7, FreshShows DEF fresh
<1>9. ScreenTypes'
  BY <1>0, <1>6, GivenFacts DEF ScreenTypes, label
<1>10. PhasesKnown'
  BY <1>0, <1>1 DEF PhasesKnown, Fits
<1>11. RowsShown'
  BY <1>0, <1>1, <1>8 DEF RowsShown, label
<1> QED BY <1>9, <1>10, <1>11 DEF ScreenInv

\* AmissAfter, as the rows need it.
LEMMA AmissAfterFacts ==
    ASSUME NEW n, NEW am, LabelsOnTop(config) \in BOOLEAN,
           "help" \in am \/ "history" \in am => LabelsOnTop(config)
    PROVE  /\ "help" \in am => "help" \in AmissAfter(n, am)
           /\ "history" \in am => "history" \in AmissAfter(n, am)
           /\ LabelsOnTop(config) /\ PromptYItemsStart(n, config) = n
                 => "help" \in AmissAfter(n, am) /\ "history" \in AmissAfter(n, am)
           /\ "help" \in AmissAfter(n, am) \/ "history" \in AmissAfter(n, am)
                 => LabelsOnTop(config)
BY DEF AmissAfter

\* What a search leaves, drawn over rows that are right above the items.
LEMMA SearchShows ==
    ASSUME Given, Fits, Selected(lines), NEW drawn, DOMAIN drawn = 0 .. lines - 1,
           NEW before, TopShown(drawn, lines, lines, selection, cursor, modes, favs, before),
           NEW after, StaysAmiss(lines, before, after), NEW md, NEW fv
    PROVE  SearchShown(Printed(drawn, lines, selection', md, fv, PromptY(lines, config)), lines,
                       selection', modes, favs, md, fv, after)
<1>1. /\ config \in Config /\ lines \in Nat /\ PromptItems(lines, config) >= 0
      /\ selection' \in Seq(Command)
  BY GivenFacts
<1>2. Len(selection') <= PromptItems(lines, config)
  BY <1>1, SelectedFits
<1>3. PromptY(lines, config) \in Nat
  BY <1>1, Layout DEF IsLayout
<1> QED BY <1>1, <1>2, <1>3, PrintedShows

\* What AmissAfter says is amiss is what stays so.
LEMMA AmissStays ==
    ASSUME config \in Config, NEW n, NEW base, NEW am, NEW am2,
           "help" \in base \/ "history" \in base => LabelsOnTop(config),
           am \subseteq base \cup {"told"}, AmissAfter(n, base) \subseteq am2,
           "told" \in am => "told" \in am2
    PROVE  StaysAmiss(n, am, am2)
<1>1. LabelsOnTop(config) \in BOOLEAN
  BY ConfigFields
<1>2. /\ "help" \in base => "help" \in AmissAfter(n, base)
      /\ "history" \in base => "history" \in AmissAfter(n, base)
      /\ LabelsOnTop(config) /\ PromptYItemsStart(n, config) = n
            => "help" \in AmissAfter(n, base) /\ "history" \in AmissAfter(n, base)
  BY <1>1, AmissAfterFacts
<1> QED BY <1>2 DEF StaysAmiss

\* What a tick leaves amiss is known, on top only, and not a missed resize less.
LEMMA TickedFacts ==
    ASSUME PhasesKnown
    PROVE  /\ AmissTicked \subseteq amiss /\ amiss \subseteq Amiss /\ "told" \notin AmissTicked
           /\ "help" \in AmissTicked \/ "history" \in AmissTicked => LabelsOnTop(config)
           /\ "resize" \in AmissTicked <=> "resize" \in amiss
BY DEF AmissTicked, Relabelled, PhasesKnown, Amiss

\* PrintGiven: the pattern of the command line.
LEMMA PrintGivenShown == ASSUME Given, PrintGiven PROVE ScreenInv'
<1>0. /\ phase = "given" /\ Selected(lines)
      /\ rows' = Printed(rows, lines, selection', modes, favs, PromptY(lines, config))
      /\ phase' = "loop" /\ amiss' = AmissAfter(lines, amiss)
      /\ UNCHANGED <<config, lines, cursor, label, hideNotification>>
  BY DEF PrintGiven
<1>1. /\ Fits /\ cursor = InPrompt /\ PhasesKnown /\ RowsShown /\ DOMAIN rows = 0 .. lines - 1
  BY <1>0 DEF Given, ScreenInv, PhasesKnown, ScreenTypes
<1>2. TopShown(rows, lines, lines, selection, cursor, modes, favs, Excuses)
  <2>1. IsLayout(config, lines, PromptYItemsStart(lines, config), PromptItems(lines, config),
                 PromptY(lines, config), PromptYHelp(lines, config), PromptYHistory(lines, config))
    BY <1>1, GivenFacts, Layout
  <2>2. \A y \in 0 .. PromptYItemsStart(lines, config) - 1 :
           y \in 0 .. lines - 1 /\ y < PromptYItemsStart(lines, config)
    BY <2>1, GivenFacts DEF IsLayout
  <2> QED BY <1>0, <1>1, <2>2 DEF TopShown, RowsShown
<1>3. StaysAmiss(lines, Excuses, Excuses')
  <2>1. /\ Excuses \subseteq amiss \cup {"told"} /\ AmissAfter(lines, amiss) \subseteq Excuses'
        /\ "told" \in Excuses => "told" \in Excuses'
    BY <1>0, <1>1 DEF Excuses, PhasesKnown, Amiss
  <2>2. "help" \in amiss \/ "history" \in amiss => LabelsOnTop(config)
    BY <1>1 DEF PhasesKnown
  <2> QED BY <2>1, <2>2, GivenFacts, AmissStays
<1>4. SearchShown(rows', lines, selection', modes, favs, modes, favs, Excuses')
  BY <1>0, <1>1, <1>2, <1>3, SearchShows
<1>5. ScreenTypes'
  BY <1>0, <1>4, GivenFacts DEF ScreenTypes, label, SearchShown
<1>6. PhasesKnown'
  <2>1. "help" \in amiss' \/ "history" \in amiss' => LabelsOnTop(config)
    BY <1>0, <1>1, AmissAfterFacts, GivenFacts DEF PhasesKnown
  <2>2. amiss' \subseteq Amiss
    BY <1>0, <1>1 DEF PhasesKnown, AmissAfter, Amiss
  <2> QED BY <1>0, <1>1, <2>1, <2>2 DEF PhasesKnown, Fits
<1>7. RowsShown'
  BY <1>0, <1>1, <1>4 DEF RowsShown, label, SearchShown
<1> QED BY <1>5, <1>6, <1>7 DEF ScreenInv

\* More may be excused.
LEMMA ShowsMore ==
    ASSUME NEW c, NEW v, NEW y, NEW n, NEW sel, NEW cur, NEW m, NEW f, NEW am, NEW am2,
           am \subseteq am2, Shows(c, v, y, n, sel, cur, m, f, am)
    PROVE  Shows(c, v, y, n, sel, cur, m, f, am2)
<1>1. /\ Told(c, v, y, n, am) => Told(c, v, y, n, am2)
      /\ Helpless(c, v, y, n, am) => Helpless(c, v, y, n, am2)
      /\ Counted(c, v, y, n, m, am) => Counted(c, v, y, n, m, am2)
      /\ LitOnly(v, FreshAt(c, y, n, sel, cur, m, f), sel, am)
            => LitOnly(v, FreshAt(c, y, n, sel, cur, m, f), sel, am2)
  BY DEF Told, Helpless, Counted, LitOnly
<1> QED BY <1>1 DEF Shows

\* A notification is in its row, and no other row changes.
LEMMA NotifiedShows ==
    ASSUME NEW rs, NEW y \in DOMAIN rs, NEW n, NEW sel, NEW cur, NEW m, NEW f, NEW am,
           "told" \in am, Shows(config, rs[y], y, n, sel, cur, m, f, am)
    PROVE  Shows(config, Notified(rs, n)[y], y, n, sel, cur, m, f, am)
<1>1. Notified(rs, n)[y] = IF y = PromptYNotification(n, config) THEN Notification ELSE rs[y]
  BY PutRow DEF Notified
<1>2. CASE y = PromptYNotification(n, config)
  BY <1>1, <1>2 DEF Shows, Told
<1>3. CASE y # PromptYNotification(n, config)
  BY <1>1, <1>3
<1> QED BY <1>2, <1>3

\* The help label is in its row again, and no other row changes.
LEMMA HelpShows ==
    ASSUME config \in Config, NEW n \in Nat, PromptItems(n, config) >= 0,
           NEW rs, NEW y \in DOMAIN rs, NEW sel, NEW cur, NEW m, NEW f, NEW am,
           Shows(config, rs[y], y, n, sel, cur, m, f, am)
    PROVE  Shows(config, HelpLabel(rs, n)[y], y, n, sel, cur, m, f, am \ {"help"})
<1>1. HelpLabel(rs, n)[y] = IF ~config.hideBasicHelp /\ y = PromptYHelp(n, config)
                            THEN Help ELSE rs[y]
  BY LabelRows
<1>2. CASE ~config.hideBasicHelp /\ y = PromptYHelp(n, config)
  <2>1. y # PromptY(n, config)
    BY <1>2, Layout DEF IsLayout
  <2> QED BY <1>1, <1>2, <2>1 DEF Shows, FreshAt
<1>3. CASE ~(~config.hideBasicHelp /\ y = PromptYHelp(n, config))
  <2> DEFINE am2 == am \ {"help"}
             fresh == FreshAt(config, y, n, sel, cur, m, f)
  <2>1. ~Helpless(config, rs[y], y, n, am)
    BY <1>3 DEF Helpless
  <2>2. /\ Told(config, rs[y], y, n, am) => Told(config, rs[y], y, n, am2)
        /\ Counted(config, rs[y], y, n, m, am) => Counted(config, rs[y], y, n, m, am2)
        /\ LitOnly(rs[y], fresh, sel, am) => LitOnly(rs[y], fresh, sel, am2)
    BY DEF Told, Counted, LitOnly
  <2> QED BY <1>1, <1>3, <2>1, <2>2 DEF Shows
<1> QED BY <1>2, <1>3

\* The rows of the terminal are drawn again and none is added or lost.
LEMMA SameRows ==
    ASSUME NEW rs, NEW n, NEW old, NEW new, NEW sel
    PROVE  /\ DOMAIN Notified(rs, n) = DOMAIN rs
           /\ DOMAIN Highlighted(rs, old, new, sel) = DOMAIN rs
<1>1. \A ls, y, what : DOMAIN Put(ls, y, what) = DOMAIN ls
  BY PutRow
<1>2. /\ \A ls : DOMAIN Lit(ls, old, sel, FALSE) = DOMAIN ls
      /\ \A ls : DOMAIN Lit(ls, new, sel, TRUE) = DOMAIN ls
  BY <1>1 DEF Lit
<1>3. DOMAIN Lit(Lit(rs, old, sel, FALSE), new, sel, TRUE) = DOMAIN rs
  BY <1>2, Zenon
<1>4. DOMAIN Notified(rs, n) = DOMAIN rs
  BY <1>1 DEF Notified
<1> QED BY <1>3, <1>4 DEF Highlighted

\* A tick leaves the rows above the items as they should be.
LEMMA TickedTop ==
    ASSUME Given, Reading
    PROVE  /\ DOMAIN Ticked(lines) = 0 .. lines - 1
           /\ TopShown(Ticked(lines), lines, lines, selection, cursor, modes, favs, AmissTicked)
<1>1. IsLayout(config, lines, PromptYItemsStart(lines, config), PromptItems(lines, config),
               PromptY(lines, config), PromptYHelp(lines, config), PromptYHistory(lines, config))
  BY GivenFacts, Layout DEF Reading
<1>2. \A y \in 0 .. PromptYItemsStart(lines, config) - 1 :
         y \in 0 .. lines - 1 /\ y < lines /\ y < PromptYItemsStart(lines, config)
  BY <1>1, GivenFacts DEF IsLayout
<1> QED BY <1>2, GivenFacts, GivenTicked DEF TopShown

\* How a step of the loop ends.
LEMMA ShownAgain ==
    ASSUME Given, config' = config, lines' \in Nat \ {0}, phase' = "loop",
           modes' \in 0..1, favs' \in 0..1, cursor' \in Nat \cup {InPrompt},
           hideNotification' \in BOOLEAN, amiss' \subseteq Amiss,
           "help" \in amiss' \/ "history" \in amiss' => LabelsOnTop(config),
           DOMAIN rows' = 0 .. lines' - 1,
           Fits' => \A y \in 0 .. lines' - 1 :
                       y < PromptYItemsStart(lines', config) \/ "resize" \notin amiss' =>
                          Shows(config, rows'[y], y, lines', selection', cursor', modes', favs',
                                Excuses')
    PROVE  ScreenInv'
<1>1. ScreenTypes'
  BY GivenFacts DEF ScreenTypes
<1>2. PhasesKnown'
  BY DEF PhasesKnown
<1>3. RowsShown'
  BY DEF RowsShown
<1> QED BY <1>1, <1>2, <1>3 DEF ScreenInv

\* What is amiss after a search is known, and labels are amiss on top only.
LEMMA AmissAfterKnown ==
    ASSUME Given, NEW n, NEW am, am \subseteq amiss
    PROVE  /\ AmissAfter(n, am) \subseteq Amiss
           /\ "help" \in AmissAfter(n, am) \/ "history" \in AmissAfter(n, am)
                 => LabelsOnTop(config)
<1>1. /\ LabelsOnTop(config) \in BOOLEAN /\ am \subseteq Amiss
      /\ "help" \in am \/ "history" \in am => LabelsOnTop(config)
  BY GivenFacts DEF Given, ScreenInv, PhasesKnown
<1>2. AmissAfter(n, am) \subseteq Amiss
  BY <1>1 DEF AmissAfter, Amiss
<1> QED BY <1>1, <1>2, AmissAfterFacts

\* ... after a key.
LEMMA TickedKnown ==
    ASSUME Given, NEW n
    PROVE  /\ AmissAfter(n, AmissTicked) \subseteq Amiss
           /\ "help" \in AmissAfter(n, AmissTicked) \/ "history" \in AmissAfter(n, AmissTicked)
                 => LabelsOnTop(config)
<1> DEFINE am == AmissTicked
<1>1. am \subseteq amiss
  BY TickedFacts DEF Given, ScreenInv
<1> HIDE DEF am
<1>2. /\ AmissAfter(n, am) \subseteq Amiss
      /\ "help" \in AmissAfter(n, am) \/ "history" \in AmissAfter(n, am) => LabelsOnTop(config)
  BY <1>1, AmissAfterKnown
<1> QED BY <1>2 DEF am

\* A search after a key, drawn over the rows a tick leaves.
LEMMA TickedSearch ==
    ASSUME Given, Reading, Selected(lines), NEW md, NEW fv, NEW after,
           AmissAfter(lines, AmissTicked) \subseteq after
    PROVE  SearchShown(Printed(Ticked(lines), lines, selection', md, fv, PromptY(lines, config)),
                       lines, selection', modes, favs, md, fv, after)
<1> DEFINE am == AmissTicked
<1>1. PhasesKnown /\ config \in Config /\ Fits
  BY GivenFacts DEF Given, ScreenInv, Reading
<1>2. /\ am \subseteq am \cup {"told"} /\ "told" \notin am
      /\ "help" \in am \/ "history" \in am => LabelsOnTop(config)
      /\ AmissAfter(lines, am) \subseteq after
      /\ DOMAIN Ticked(lines) = 0 .. lines - 1
      /\ TopShown(Ticked(lines), lines, lines, selection, cursor, modes, favs, am)
  BY <1>1, TickedFacts, TickedTop
<1> HIDE DEF am
<1>3. StaysAmiss(lines, am, after)
  BY <1>1, <1>2, AmissStays
<1> QED BY <1>1, <1>2, <1>3, SearchShows

\* Search: a character or a backspace.
LEMMA SearchKeeps == ASSUME Given, Search PROVE ScreenInv'
<1>0. /\ Reading /\ Selected(lines)
      /\ rows' = Printed(Ticked(lines), lines, selection', modes, favs, PromptY(lines, config))
      /\ cursor' = InPrompt /\ hideNotification' = FALSE /\ amiss' = AmissAfter(lines, AmissTicked)
      /\ UNCHANGED <<config, lines, label, phase>>
  BY DEF Search
<1>1. phase' = "loop" /\ modes' = modes /\ favs' = favs /\ Fits
  BY <1>0 DEF Reading, label
<1>2. Excuses' = AmissAfter(lines, AmissTicked)
  BY <1>0, <1>1 DEF Excuses
<1>3. SearchShown(rows', lines, selection', modes, favs, modes, favs, AmissAfter(lines, AmissTicked))
  BY <1>0, TickedSearch
<1>4. \A y \in 0 .. lines - 1 :
         Shows(config, rows'[y], y, lines, selection', cursor', modes', favs', Excuses')
  BY <1>0, <1>1, <1>2, <1>3 DEF SearchShown
<1> QED BY <1>0, <1>1, <1>3, <1>4, GivenFacts, TickedKnown, ShownAgain DEF SearchShown

\* RotateMode: the history label is drawn again.
LEMMA RotateModeKeeps == ASSUME Given, RotateMode PROVE ScreenInv'
<1> DEFINE P == Printed(Ticked(lines), lines, selection', modes', favs, PromptY(lines, config))
           after == AmissAfter(lines, AmissTicked)
<1>0. /\ Reading /\ Selected(lines) /\ modes' = 1 - modes
      /\ rows' = HistoryLabel(P, lines, modes', favs)
      /\ cursor' = InPrompt /\ hideNotification' = FALSE /\ amiss' = after \ {"history"}
      /\ UNCHANGED <<config, lines, favs, phase>>
  BY DEF RotateMode
<1>1. phase' = "loop" /\ favs' = favs /\ Fits /\ PromptItems(lines, config) >= 0
      /\ config \in Config /\ lines \in Nat /\ modes' \in 0..1
  BY <1>0, GivenFacts DEF Reading
<1>2. Excuses' = after \ {"history"}
  BY <1>0, <1>1 DEF Excuses
<1>3. SearchShown(P, lines, selection', modes, favs, modes', favs, after)
  BY <1>0, TickedSearch
<1> HIDE DEF P
<1>4. DOMAIN P = 0 .. lines - 1 /\ DOMAIN rows' = 0 .. lines - 1
  BY <1>0, <1>3, LabelRows DEF SearchShown
<1>5. ASSUME NEW y \in 0 .. lines - 1
      PROVE  Shows(config, rows'[y], y, lines, selection', cursor', modes', favs', Excuses')
  <2>1. \/ Shows(config, P[y], y, lines, selection', InPrompt, modes', favs, after)
        \/ ~config.hideHistoryHelp /\ y = PromptYHistory(lines, config)
    BY <1>3 DEF SearchShown
  <2>2. Shows(config, HistoryLabel(P, lines, modes', favs)[y], y, lines, selection', InPrompt,
              modes', favs, after \ {"history"})
    BY <1>1, <1>4, <2>1, LabelShows
  <2> QED BY <1>0, <1>1, <1>2, <2>2
<1> QED BY <1>0, <1>1, <1>4, <1>5, GivenFacts, TickedKnown, ShownAgain

\* The cursor leaves its row, which may stay lit.
LEMMA CursorLeaves ==
    ASSUME config \in Config, lines \in Nat, PromptItems(lines, config) >= 0,
           NEW y \in Nat, NEW v, NEW sel \in Seq(Command), NEW cur, NEW m, NEW f,
           y < PromptYItemsStart(lines, config) \/ Len(sel) <= PromptItems(lines, config),
           NEW am, NEW am2, am \subseteq am2,
           IndexOf(cur, sel) >= 0 => "lit" \in am2,
           Shows(config, v, y, lines, sel, cur, m, f, am)
    PROVE  Shows(config, v, y, lines, sel, InPrompt, m, f, am2)
<1> DEFINE start == PromptYItemsStart(lines, config)
           idx == ItemAt(config, y, lines, Len(sel))
           fresh(at) == FreshAt(config, y, lines, sel, at, m, f)
           fixed == \/ y = PromptY(lines, config)
                    \/ ~config.hideBasicHelp /\ y = PromptYHelp(lines, config)
                    \/ ~config.hideHistoryHelp /\ y = PromptYHistory(lines, config)
<1>1. IsLayout(config, lines, start, PromptItems(lines, config), PromptY(lines, config),
               PromptYHelp(lines, config), PromptYHistory(lines, config))
  BY Layout
<1>2. /\ y \in Nat /\ start \in Nat /\ Len(sel) \in Nat /\ DOMAIN sel = 1 .. Len(sel)
      /\ PromptItems(lines, config) \in Int /\ config.promptBottom \in BOOLEAN
  BY <1>1, LenProperties, ItemsInt, ConfigFields DEF IsLayout
<1>3. /\ idx \in Int /\ idx < Len(sel) /\ idx >= -1
      /\ idx >= 0 => y - start # InPrompt
      /\ cur = y - start => idx = IndexOf(cur, sel)
  BY <1>2 DEF ItemAt, IndexOf, SelectionIndex, InPrompt
<1>4. Shows(config, v, y, lines, sel, cur, m, f, am2)
  BY ShowsMore
<1>5. CASE ~fixed /\ idx >= 0 /\ cur = y - start
  <2> DEFINE x == sel[idx + 1]
  <2>1. (cur = y - start) = TRUE /\ (InPrompt = y - start) = FALSE
    BY <1>3, <1>5
  <2>2. fresh(cur) = Item(x, TRUE) /\ fresh(InPrompt) = Item(x, FALSE)
    <3>1. fresh(cur) = Item(x, cur = y - start) /\ fresh(InPrompt) = Item(x, InPrompt = y - start)
      BY <1>5 DEF FreshAt
    <3> QED BY <2>1, <3>1
  <2>3. x \in ToSet(sel)
    BY <1>2, <1>3, <1>5 DEF ToSet
  <2>4. "lit" \in am2
    BY <1>3, <1>5
  <2>5. Item(x, TRUE) # Item(x, FALSE) /\ \A z : Item(z, FALSE) # Item(x, TRUE)
    BY DEF Item
  <2>6. v = fresh(cur) => LitOnly(v, fresh(InPrompt), sel, am2)
    BY <2>2, <2>3, <2>4 DEF LitOnly
  <2>7. ~LitOnly(v, fresh(cur), sel, am2)
    BY <2>2, <2>5 DEF LitOnly
  <2> QED BY <1>4, <2>6, <2>7 DEF Shows
<1>6. CASE ~(~fixed /\ idx >= 0 /\ cur = y - start)
  <2>1. fresh(cur) = fresh(InPrompt)
    <3>1. CASE fixed
      BY <3>1 DEF FreshAt
    <3>2. CASE ~fixed /\ idx >= 0
      <4>1. (cur = y - start) = (InPrompt = y - start)
        BY <1>3, <1>6, <3>2
      <4> QED BY <4>1 DEF FreshAt
    <3>3. CASE ~fixed /\ ~(idx >= 0)
      BY <3>3 DEF FreshAt
    <3> QED BY <3>1, <3>2, <3>3
  <2> QED BY <1>4, <2>1 DEF Shows
<1> QED BY <1>5, <1>6

\* What a step finds of the loop that only reads the selection.
LEMMA LoopFacts ==
    ASSUME Given, Reading
    PROVE  /\ phase = "loop" /\ Fits /\ PromptItems(lines, config) >= 0 /\ config \in Config
           /\ lines \in Nat /\ lines \in Nat \ {0} /\ selection \in Seq(Command)
           /\ cursor \in Nat \cup {InPrompt} /\ modes \in 0..1 /\ favs \in 0..1
           /\ AmissTicked \subseteq amiss /\ amiss \subseteq Amiss
           /\ "help" \in amiss \/ "history" \in amiss => LabelsOnTop(config)
           /\ "help" \in AmissTicked \/ "history" \in AmissTicked => LabelsOnTop(config)
           /\ "resize" \in AmissTicked <=> "resize" \in amiss
           /\ DOMAIN Ticked(lines) = 0 .. lines - 1
           /\ \A y \in 0 .. lines - 1 :
                 y < PromptYItemsStart(lines, config) \/ "resize" \notin amiss =>
                    /\ Shows(config, Ticked(lines)[y], y, lines, selection, cursor, modes, favs,
                             AmissTicked)
                    /\ y < PromptYItemsStart(lines, config)
                          \/ Len(selection) <= PromptItems(lines, config)
<1>1. /\ phase = "loop" /\ Fits /\ PhasesKnown
  BY DEF Reading, Given, ScreenInv
<1>2. \A y \in 0 .. lines - 1 : y < lines
  BY GivenFacts
<1> QED BY <1>1, <1>2, GivenFacts, GivenTicked, TickedFacts DEF PhasesKnown

\* Navigate: the highlighting moves.
LEMMA NavigateKeeps == ASSUME Given, Navigate PROVE ScreenInv'
<1>0. /\ Reading
      /\ \E k \in DOMAIN CursorStep : cursor' = Moved(CursorStep[k], selection)
      /\ rows' = Highlighted(Ticked(lines), cursor, cursor', selection)
      /\ hideNotification' = FALSE /\ amiss' = AmissTicked
      /\ UNCHANGED <<config, lines, selection, label, phase>>
  BY DEF Navigate
<1> DEFINE am == AmissTicked
<1>1. Excuses' = AmissTicked /\ phase' = "loop" /\ modes' = modes /\ favs' = favs
  BY <1>0 DEF Excuses, Reading, label
<1>2. \A k \in DOMAIN CursorStep : CursorStep[k] \in Int
  BY PageJumpAssumption DEF CursorStep
<1>3. cursor' \in Nat \cup {InPrompt}
  BY <1>0, <1>2, LoopFacts, MovedIsRow
<1>4. DOMAIN rows' = 0 .. lines - 1
  <2> DEFINE now == cursor'
  <2>1. rows' = Highlighted(Ticked(lines), cursor, now, selection)
    BY <1>0
  <2> HIDE DEF now
  <2>2. DOMAIN Highlighted(Ticked(lines), cursor, now, selection) = DOMAIN Ticked(lines)
    BY SameRows
  <2> QED BY <1>0, <2>1, <2>2, LoopFacts
<1>5. ASSUME NEW y \in 0 .. lines - 1,
             y < PromptYItemsStart(lines, config) \/ "resize" \notin amiss
      PROVE  Shows(config, rows'[y], y, lines, selection, cursor', modes, favs, am)
  <2> DEFINE drawn == Ticked(lines)
             now == cursor'
  <2>1. /\ DOMAIN drawn \subseteq Nat /\ y \in DOMAIN drawn
        /\ Shows(config, drawn[y], y, lines, selection, cursor, modes, favs, am)
        /\ y < PromptYItemsStart(lines, config) \/ Len(selection) <= PromptItems(lines, config)
    BY <1>0, <1>5, LoopFacts
  <2>2. now \in Nat \cup {InPrompt}
    BY <1>3
  <2> HIDE DEF drawn, now, am
  <2>3. Shows(config, Highlighted(drawn, cursor, now, selection)[y], y, lines, selection, now,
              modes, favs, am)
    BY <1>0, <2>1, <2>2, LoopFacts, HighlightedShows
  <2> QED BY <1>0, <2>3 DEF drawn, now
<1> QED BY <1>0, <1>1, <1>3, <1>4, <1>5, LoopFacts, ShownAgain

\* EditPattern: no row but the notification's is drawn.
LEMMA EditPatternKeeps == ASSUME Given, EditPattern PROVE ScreenInv'
<1>0. /\ Reading /\ rows' = Ticked(lines) /\ hideNotification' = FALSE
      /\ amiss' = AmissTicked /\ UNCHANGED <<config, lines, selection, cursor, label, phase>>
  BY DEF EditPattern
<1>1. Excuses' = AmissTicked /\ phase' = "loop" /\ modes' = modes /\ favs' = favs
  BY <1>0 DEF Excuses, Reading, label
<1> QED BY <1>0, <1>1, LoopFacts, ShownAgain

\* ToggleCase: the row the cursor leaves stays lit.
LEMMA ToggleCaseKeeps == ASSUME Given, ToggleCase PROVE ScreenInv'
<1>0. /\ Reading /\ rows' = Ticked(lines) /\ cursor' = InPrompt /\ hideNotification' = FALSE
      /\ amiss' = IF UnderCursor THEN AmissTicked \cup {"lit"} ELSE AmissTicked
      /\ UNCHANGED <<config, lines, selection, label, phase>>
  BY DEF ToggleCase
<1> DEFINE am == AmissTicked
<1>1. Excuses' = amiss' /\ phase' = "loop" /\ modes' = modes /\ favs' = favs
  BY <1>0 DEF Excuses, Reading, label
<1>2. /\ am \subseteq amiss' /\ amiss' \subseteq am \cup {"lit"}
      /\ IndexOf(cursor, selection) >= 0 => "lit" \in amiss'
  BY <1>0 DEF UnderCursor
<1>3. ASSUME NEW y \in 0 .. lines - 1,
             y < PromptYItemsStart(lines, config) \/ "resize" \notin amiss'
      PROVE  Shows(config, rows'[y], y, lines, selection, InPrompt, modes, favs, amiss')
  <2> DEFINE drawn == Ticked(lines)[y]
             after == amiss'
  <2>1. /\ Shows(config, drawn, y, lines, selection, cursor, modes, favs, am)
        /\ y < PromptYItemsStart(lines, config) \/ Len(selection) <= PromptItems(lines, config)
        /\ y \in Nat /\ am \subseteq after
        /\ IndexOf(cursor, selection) >= 0 => "lit" \in after
    BY <1>0, <1>2, <1>3, LoopFacts
  <2> HIDE DEF drawn, after, am
  <2>2. Shows(config, drawn, y, lines, selection, InPrompt, modes, favs, after)
    BY <1>0, <2>1, LoopFacts, CursorLeaves
  <2> QED BY <1>0, <2>2 DEF drawn, after
<1> QED BY <1>0, <1>1, <1>2, <1>3, LoopFacts, ShownAgain DEF Amiss

\* Resize: the label is drawn where it was, the rows anew, the label where it is now.
LEMMA ResizeKeeps == ASSUME Given, Resize PROVE ScreenInv'
<1>0. /\ Reading /\ lines' \in Heights /\ lines' \in Nat \ {0}
      /\ UNCHANGED <<config, label, phase>>
  BY HeightsAssumption DEF Resize
<1>1. phase' = "loop" /\ modes' = modes /\ favs' = favs
  BY <1>0, LoopFacts DEF label
<1>2. CASE PromptItems(lines', config) < 0
  <2>1. /\ rows' = [y \in 0 .. lines' - 1 |-> Blank]
        /\ UNCHANGED <<selection, cursor, hideNotification, amiss>>
    BY <1>2 DEF Resize
  <2>2. ~Fits'
    BY <1>0, <1>2, ItemsInt DEF Fits
  <2> QED BY <1>0, <1>1, <2>1, <2>2, GivenFacts, LoopFacts, ShownAgain
<1>3. CASE ~(PromptItems(lines', config) < 0)
  <2> DEFINE k == lines'
             sel2 == selection'
             T == Ticked(k)
             old == HistoryLabel(T, lines, modes, favs)
             at == IF config.hideHistoryHelp THEN PromptY(lines, config)
                   ELSE Lesser(PromptYHistory(lines, config), k - 1)
             P == Printed(old, k, sel2, modes, favs, at)
             before == AmissTicked \ {"history"}
             after == AmissAfter(k, AmissTicked)
  <2>1. /\ Selected(k)
        /\ rows' = HistoryLabel(P, k, modes, favs)
        /\ cursor' = InPrompt /\ hideNotification' = FALSE /\ amiss' = after \ {"history"}
    BY <1>3 DEF Resize
  <2>2. k \in Nat /\ k \in Nat \ {0} /\ PromptItems(k, config) >= 0
    BY <1>0, <1>3, ItemsInt
  <2>3. sel2 \in Seq(Command) /\ Len(sel2) <= PromptItems(k, config)
    BY <1>0, <2>1, <2>2, LoopFacts, SelectedFits
  <2>4. Excuses' = after \ {"history"}
    BY <1>1, <2>1 DEF Excuses
  <2> HIDE DEF k, sel2
  <2>5. at \in Nat
    <3>1. IsLayout(config, lines, PromptYItemsStart(lines, config), PromptItems(lines, config),
                   PromptY(lines, config), PromptYHelp(lines, config), PromptYHistory(lines, config))
      BY <1>0, LoopFacts, Layout
    <3>2. PromptY(lines, config) \in Nat
      BY <3>1 DEF IsLayout
    <3>3. ~config.hideHistoryHelp => PromptYHistory(lines, config) \in Nat
      BY <3>1 DEF IsLayout
    <3> QED BY <1>0, <2>2, <3>2, <3>3 DEF Lesser
  <2>6. DOMAIN T = 0 .. k - 1 /\ DOMAIN old = 0 .. k - 1
    <3>1. DOMAIN T = 0 .. k - 1
      BY <1>0, <2>2, GivenTicked
    <3> HIDE DEF T
    <3> QED BY <3>1, LabelRows
  <2>7. TopShown(old, k, lines, selection, cursor, modes, favs, before)
    <3>1. /\ PromptYItemsStart(k, config) = PromptYItemsStart(lines, config)
          /\ PromptYItemsStart(lines, config) <= lines /\ PromptYItemsStart(k, config) <= k
          /\ PromptYItemsStart(k, config) \in Nat
      BY <1>0, <2>2, LoopFacts, Layout, LayoutKeeps DEF IsLayout
    <3>2. ASSUME NEW y \in 0 .. PromptYItemsStart(k, config) - 1
          PROVE  Shows(config, old[y], y, lines, selection, cursor, modes, favs, before)
      <4>1. y \in 0 .. k - 1 /\ y < lines /\ y < PromptYItemsStart(lines, config)
        BY <1>0, <2>2, <3>1, LoopFacts
      <4>2. Shows(config, T[y], y, lines, selection, cursor, modes, favs, AmissTicked)
        BY <1>0, <2>2, <4>1, GivenTicked
      <4> HIDE DEF T
      <4> QED BY <1>0, <2>6, <4>1, <4>2, LoopFacts, LabelShows
    <3> HIDE DEF old, before
    <3> QED BY <3>2 DEF TopShown
  <2>8. StaysAmiss(k, before, after)
    <3>1. PhasesKnown /\ config \in Config
      BY GivenFacts DEF Given, ScreenInv
    <3> DEFINE am == AmissTicked
    <3>2. /\ before \subseteq am \cup {"told"} /\ "told" \notin before
          /\ "help" \in am \/ "history" \in am => LabelsOnTop(config)
          /\ AmissAfter(k, am) \subseteq after
      BY <3>1, TickedFacts
    <3> HIDE DEF before, after, am
    <3> QED BY <3>1, <3>2, AmissStays
  <2> HIDE DEF T, old, at, before, after
  <2>9. SearchShown(P, k, sel2, modes, favs, modes, favs, after)
    BY <1>0, <2>2, <2>3, <2>5, <2>6, <2>7, <2>8, LoopFacts, PrintedShows
  <2> HIDE DEF P
  <2>10. DOMAIN P = 0 .. k - 1 /\ DOMAIN rows' = 0 .. k - 1
    BY <2>1, <2>9, LabelRows DEF SearchShown
  <2>11. ASSUME NEW y \in 0 .. k - 1
         PROVE  Shows(config, rows'[y], y, k, sel2, InPrompt, modes, favs, after \ {"history"})
    <3>1. Shows(config, P[y], y, k, sel2, InPrompt, modes, favs, after)
      BY <2>9 DEF SearchShown
    <3>2. Shows(config, HistoryLabel(P, k, modes, favs)[y], y, k, sel2, InPrompt, modes, favs,
                after \ {"history"})
      BY <1>0, <2>2, <2>10, <3>1, LoopFacts, LabelShows
    <3> QED BY <2>1, <3>2
  <2>12. /\ after \subseteq Amiss
         /\ "help" \in after \/ "history" \in after => LabelsOnTop(config)
    BY TickedKnown DEF after
  <2> QED BY <1>0, <1>1, <2>1, <2>2, <2>4, <2>10, <2>11, <2>12, LoopFacts, ShownAgain DEF k, sel2
<1> QED BY <1>2, <1>3

\* Favorite: a label on top may count without it.
LEMMA FavoriteKeeps == ASSUME Given, Favorite PROVE ScreenInv'
<1>0. PICK added \in BOOLEAN :
        LET f       == IF added THEN 1 - favs ELSE favs
            printed == Printed(Ticked(lines), lines, selection', modes, f, PromptY(lines, config))
        IN  /\ favs' = f
            /\ amiss' = IF added /\ LabelsOnTop(config) THEN AmissAfter(lines, AmissTicked) \cup {"history"}
                        ELSE AmissAfter(lines, AmissTicked)
            /\ \/ rows' = Notified(printed, lines) /\ hideNotification' = TRUE
               \/ ~added /\ rows' = printed /\ hideNotification' = FALSE
  BY DEF Favorite
<1> DEFINE fv == favs'
           P == Printed(Ticked(lines), lines, selection', modes, fv, PromptY(lines, config))
           after == AmissAfter(lines, AmissTicked)
           sel2 == selection'
           excused == Excuses'
<1>1. /\ Reading /\ Selected(lines) /\ cursor' = InPrompt
      /\ UNCHANGED <<config, lines, modes, phase>>
  BY DEF Favorite
<1>2. /\ fv = IF added THEN 1 - favs ELSE favs
      /\ amiss' = IF added /\ LabelsOnTop(config) THEN after \cup {"history"} ELSE after
      /\ \/ rows' = Notified(P, lines) /\ hideNotification' = TRUE
         \/ ~added /\ rows' = P /\ hideNotification' = FALSE
  BY <1>0
<1>3. phase' = "loop" /\ modes' = modes /\ fv \in 0..1 /\ after \subseteq amiss'
      /\ amiss' \subseteq after \cup {"history"}
  BY <1>1, <1>2, LoopFacts
<1>4. /\ after \subseteq excused /\ amiss' \subseteq excused
      /\ hideNotification' => "told" \in excused
  BY <1>3 DEF Excuses
<1>5. SearchShown(P, lines, sel2, modes, favs, modes, fv, excused)
  <2> HIDE DEF fv, excused
  <2> QED BY <1>1, <1>4, TickedSearch
<1> HIDE DEF P, fv, after
<1>6. DOMAIN P = 0 .. lines - 1 /\ DOMAIN rows' = 0 .. lines - 1
  BY <1>2, <1>5, SameRows DEF SearchShown
<1>7. ASSUME NEW y \in 0 .. lines - 1
      PROVE  Shows(config, rows'[y], y, lines, sel2, InPrompt, modes, fv, excused)
  <2>1. Shows(config, P[y], y, lines, sel2, InPrompt, modes, fv, excused)
    <3>1. fv = favs \/ (favs \in 0..1 /\ "history" \in excused) \/ ~LabelsOnTop(config)
      BY <1>1, <1>2, <1>4, LoopFacts, GivenFacts
    <3> QED BY <1>5, <3>1 DEF SearchShown
  <2> HIDE DEF sel2, excused
  <2>2. CASE rows' = P
    BY <2>1, <2>2
  <2>3. CASE rows' # P
    <3>1. rows' = Notified(P, lines) /\ "told" \in excused
      BY <1>2, <1>4, <2>3 DEF excused
    <3>2. Shows(config, Notified(P, lines)[y], y, lines, sel2, InPrompt, modes, fv, excused)
      BY <1>6, <2>1, <3>1, NotifiedShows
    <3> QED BY <3>1, <3>2
  <2> QED BY <2>2, <2>3
<1>8. /\ after \subseteq Amiss
      /\ "help" \in after \/ "history" \in after => LabelsOnTop(config)
  BY TickedKnown DEF after
<1>9. amiss' \subseteq Amiss /\ ("help" \in amiss' \/ "history" \in amiss' => LabelsOnTop(config))
  BY <1>2, <1>3, <1>8 DEF Amiss
<1>10. hideNotification' \in BOOLEAN
  BY <1>2
<1> QED BY <1>1, <1>3, <1>6, <1>7, <1>9, <1>10, LoopFacts, ShownAgain DEF fv

\* Delete and ConfirmYes: the rows anew, a notification, the label, and the cursor's row.
LEMMA DeletedKeeps ==
    ASSUME Given, Fits, NEW drawn, DOMAIN drawn = 0 .. lines - 1,
           NEW base, base \subseteq amiss, Deleted(drawn, base),
           NEW before, before \subseteq base \cup {"told"},
           TopShown(drawn, lines, lines, selection, cursor, modes, favs, before)
    PROVE  ScreenInv'
<1> DEFINE md == modes'
           fv == favs'
           sel2 == selection'
           now == cursor'
           P == Printed(drawn, lines, sel2, md, fv, PromptY(lines, config))
           N == Notified(P, lines)
           L == HistoryLabel(N, lines, md, fv)
           after == AmissAfter(lines, base)
           excused == Excuses'
           given == after \cup {"told"}
<1>1. /\ Selected(lines) /\ now = Moved(0, sel2)
      /\ rows' = Highlighted(L, InPrompt, now, sel2)
      /\ hideNotification' = TRUE /\ amiss' = after \ {"history"}
      /\ phase' = "loop" /\ UNCHANGED <<config, lines>>
      /\ \/ modes' = 1 - modes /\ UNCHANGED favs
         \/ favs' = 1 - favs /\ UNCHANGED modes
  BY DEF Deleted
<1>2. /\ config \in Config /\ lines \in Nat /\ lines \in Nat \ {0}
      /\ PromptItems(lines, config) >= 0 /\ sel2 \in Seq(Command)
      /\ cursor \in Nat \cup {InPrompt} /\ modes \in 0..1 /\ favs \in 0..1
  BY GivenFacts
<1>3. md \in 0..1 /\ fv \in 0..1
  BY <1>1, <1>2
<1>4. Len(sel2) <= PromptItems(lines, config)
  BY <1>1, <1>2, SelectedFits
<1>5. now \in Nat \cup {InPrompt}
  <2> HIDE DEF sel2, now
  <2> QED BY <1>1, <1>2, MovedIsRow
<1>6. excused = (after \ {"history"}) \cup {"told"}
  BY <1>1 DEF Excuses
<1>7. PhasesKnown /\ after \subseteq Amiss
      /\ ("help" \in after \/ "history" \in after => LabelsOnTop(config))
  BY AmissAfterKnown DEF Given, ScreenInv
<1>8. StaysAmiss(lines, before, given)
  <2>1. after \subseteq given /\ "told" \in given
    OBVIOUS
  <2>2. "help" \in base \/ "history" \in base => LabelsOnTop(config)
    BY <1>7 DEF PhasesKnown
  <2>3. AmissAfter(lines, base) \subseteq given
    BY <2>1
  <2> HIDE DEF given, after
  <2> QED BY <1>2, <2>1, <2>2, <2>3, AmissStays
<1>9. given \ {"history"} = excused
  BY <1>6
<1> HIDE DEF given, excused, md, fv, now
<1>10. SearchShown(P, lines, sel2, modes, favs, md, fv, given)
  BY <1>1, <1>8, SearchShows
<1> HIDE DEF P, sel2
<1>11. DOMAIN P = 0 .. lines - 1 /\ DOMAIN N = 0 .. lines - 1
  BY <1>10, SameRows DEF SearchShown
<1>12. ASSUME NEW y \in 0 .. lines - 1
       PROVE  \/ Shows(config, N[y], y, lines, sel2, InPrompt, md, fv, given)
              \/ ~config.hideHistoryHelp /\ y = PromptYHistory(lines, config)
  <2>1. CASE ~config.hideHistoryHelp /\ y = PromptYHistory(lines, config)
    BY <2>1
  <2>2. CASE ~(~config.hideHistoryHelp /\ y = PromptYHistory(lines, config))
    <3>1. Shows(config, P[y], y, lines, sel2, InPrompt, md, fv, given)
      BY <1>10, <2>2 DEF SearchShown
    <3>2. "told" \in given
      BY DEF given
    <3> QED BY <1>11, <3>1, <3>2, NotifiedShows
  <2> QED BY <2>1, <2>2
<1> HIDE DEF N
<1>13. DOMAIN L = 0 .. lines - 1
  BY <1>11, LabelRows
<1>14. ASSUME NEW y \in 0 .. lines - 1
       PROVE  Shows(config, L[y], y, lines, sel2, InPrompt, md, fv, excused)
  <2>1. Shows(config, HistoryLabel(N, lines, md, fv)[y], y, lines, sel2, InPrompt, md, fv,
              given \ {"history"})
    BY <1>2, <1>11, <1>12, LabelShows
  <2> QED BY <1>9, <2>1
<1> HIDE DEF L
<1>15. DOMAIN rows' = 0 .. lines - 1
  BY <1>1, <1>13, SameRows
<1>16. ASSUME NEW y \in 0 .. lines - 1
       PROVE  Shows(config, rows'[y], y, lines, sel2, now, md, fv, excused)
  <2>1. DOMAIN L \subseteq Nat /\ y \in DOMAIN L
    BY <1>2, <1>13
  <2>2. InPrompt \in Nat \cup {InPrompt}
    OBVIOUS
  <2>3. Shows(config, Highlighted(L, InPrompt, now, sel2)[y], y, lines, sel2, now, md, fv, excused)
    BY <1>2, <1>4, <1>5, <1>14, <2>1, <2>2, HighlightedShows
  <2> QED BY <1>1, <2>3
<1>17. /\ amiss' \subseteq Amiss
       /\ "help" \in amiss' \/ "history" \in amiss' => LabelsOnTop(config)
  BY <1>1, <1>7
<1> HIDE DEF after
<1> QED BY <1>1, <1>2, <1>3, <1>5, <1>15, <1>16, <1>17, ShownAgain DEF md, fv, now, sel2, excused

\* The rows above the items, as the invariant has them.
LEMMA RowsTop ==
    ASSUME Given, Fits, phase # "start"
    PROVE  TopShown(rows, lines, lines, selection, cursor, modes, favs, Excuses)
<1>1. IsLayout(config, lines, PromptYItemsStart(lines, config), PromptItems(lines, config),
               PromptY(lines, config), PromptYHelp(lines, config), PromptYHistory(lines, config))
  BY GivenFacts, Layout
<1>2. \A y \in 0 .. PromptYItemsStart(lines, config) - 1 :
         y \in 0 .. lines - 1 /\ y < PromptYItemsStart(lines, config)
  BY <1>1, GivenFacts DEF IsLayout
<1> QED BY <1>2 DEF Given, ScreenInv, RowsShown, TopShown

\* DEL of an item that needs no answer (hstr_main's K_DEL).
LEMMA DeleteKeeps == ASSUME Given, Delete PROVE ScreenInv'
<1> DEFINE am == AmissTicked
<1>1. /\ Reading /\ Deleted(Ticked(lines), am) /\ Fits
      /\ am \subseteq amiss /\ am \subseteq am \cup {"told"}
      /\ DOMAIN Ticked(lines) = 0 .. lines - 1
      /\ TopShown(Ticked(lines), lines, lines, selection, cursor, modes, favs, am)
  BY TickedFacts, TickedTop DEF Delete, Reading, Given, ScreenInv
<1> HIDE DEF am
<1> QED BY <1>1, DeletedKeeps

\* The answer y to the question DEL asks (print_cmd_deleted_label and what follows).
LEMMA ConfirmYesKeeps == ASSUME Given, ConfirmYes PROVE ScreenInv'
<1>1. phase = "confirm" /\ Deleted(rows, amiss)
  BY DEF ConfirmYes
<1>2. Fits /\ DOMAIN rows = 0 .. lines - 1
  BY <1>1, GivenFacts DEF Given, ScreenInv, PhasesKnown
<1>3. Excuses \subseteq amiss \cup {"told"}
  BY DEF Excuses
<1> QED BY <1>1, <1>2, <1>3, RowsTop, DeletedKeeps

\* AskToDelete: the question is a notification.
LEMMA AskToDeleteKeeps == ASSUME Given, AskToDelete PROVE ScreenInv'
<1> DEFINE T == Ticked(lines)
           am == AmissTicked
           excused == Excuses'
<1>0. /\ Reading /\ UnderCursor /\ rows' = Notified(T, lines)
      /\ hideNotification' = FALSE /\ phase' = "confirm" /\ amiss' = AmissTicked
      /\ UNCHANGED <<config, lines, selection, cursor, label>>
  BY DEF AskToDelete
<1>1. /\ modes' = modes /\ favs' = favs /\ am \subseteq excused /\ "told" \in excused
  BY <1>0 DEF Excuses, label
<1>2. /\ DOMAIN T = 0 .. lines - 1
      /\ \A y \in 0 .. lines - 1 :
            y < PromptYItemsStart(lines, config) \/ "resize" \notin amiss =>
               Shows(config, T[y], y, lines, selection, cursor, modes, favs, am)
  BY <1>0, LoopFacts
<1> HIDE DEF T, excused, am
<1>3. DOMAIN rows' = 0 .. lines - 1
  BY <1>0, <1>2, SameRows
<1>4. ASSUME NEW y \in 0 .. lines - 1,
             y < PromptYItemsStart(lines, config) \/ "resize" \notin amiss
      PROVE  Shows(config, rows'[y], y, lines, selection, cursor, modes, favs, excused)
  <2>1. Shows(config, T[y], y, lines, selection, cursor, modes, favs, excused)
    BY <1>1, <1>2, <1>4, ShowsMore
  <2>2. Shows(config, Notified(T, lines)[y], y, lines, selection, cursor, modes, favs, excused)
    BY <1>1, <1>2, <2>1, NotifiedShows
  <2> QED BY <1>0, <2>2
<1>5. ScreenTypes'
  BY <1>0, <1>1, <1>3, LoopFacts DEF ScreenTypes
<1>6. PhasesKnown'
  BY <1>0, LoopFacts DEF PhasesKnown, Fits, UnderCursor, IndexOf, am
<1>7. RowsShown'
  BY <1>0, <1>1, <1>4, LoopFacts DEF RowsShown, excused, am
<1> QED BY <1>5, <1>6, <1>7 DEF ScreenInv

\* ConfirmOther: all is drawn where it was, though a resize may have been the answer.
LEMMA ConfirmOtherKeeps == ASSUME Given, ConfirmOther PROVE ScreenInv'
<1> DEFINE k == lines'
           now == cursor'
           kept == [y \in 0 .. k - 1 |-> IF y \in DOMAIN rows THEN rows[y] ELSE Blank]
           hidden == NotificationHidden(kept, lines)
           L == HistoryLabel(hidden, lines, modes, favs)
           after == Relabelled(amiss) \ {"history"}
           excused == Excuses'
           given == Relabelled(Excuses) \ {"history"}
<1>0. /\ phase = "confirm" /\ k \in Nat \ {0}
      /\ now = Moved(0, selection)
      /\ rows' = Highlighted(L, InPrompt, now, selection)
      /\ hideNotification' = TRUE
      /\ amiss' = after \cup (IF k # lines THEN {"resize"} ELSE {})
      /\ phase' = "loop"
      /\ UNCHANGED <<config, selection, label>>
  BY HeightsAssumption DEF ConfirmOther
<1>1. /\ config \in Config /\ lines \in Nat /\ PromptItems(lines, config) >= 0
      /\ selection \in Seq(Command) /\ cursor \in Nat \cup {InPrompt}
      /\ modes \in 0..1 /\ favs \in 0..1 /\ DOMAIN rows = 0 .. lines - 1
      /\ Fits /\ UnderCursor /\ PhasesKnown /\ RowsShown /\ k \in Nat
      /\ modes' = modes /\ favs' = favs
  BY <1>0, GivenFacts DEF Given, ScreenInv, PhasesKnown, label
<1>2. /\ given \subseteq excused /\ excused = amiss' \cup {"told"}
  BY <1>0, <1>1 DEF Excuses, PhasesKnown, Amiss, Relabelled
<1>3. now \in Nat \cup {InPrompt}
  <2> HIDE DEF now
  <2> QED BY <1>0, <1>1, MovedIsRow
<1> HIDE DEF k, now, excused
<1>4. DOMAIN kept = 0 .. k - 1 /\ \A y \in 0 .. k - 1 : y \in DOMAIN rows => kept[y] = rows[y]
  OBVIOUS
<1> HIDE DEF kept
<1>5. DOMAIN hidden = 0 .. k - 1
  BY <1>4, LabelRows DEF NotificationHidden
<1>6. ASSUME NEW y \in 0 .. k - 1, y < lines,
             y < PromptYItemsStart(lines, config) \/ "resize" \notin amiss
      PROVE  Shows(config, L[y], y, lines, selection, cursor, modes, favs, given)
  <2>1. Shows(config, kept[y], y, lines, selection, cursor, modes, favs, Excuses)
    BY <1>0, <1>1, <1>4, <1>6 DEF RowsShown
  <2>2. Shows(config, hidden[y], y, lines, selection, cursor, modes, favs, Relabelled(Excuses))
    <3>1. CASE config.hideBasicHelp
      <4>1. hidden = HistoryLabel(kept, lines, modes, favs)
            /\ Relabelled(Excuses) = Excuses \ {"history"}
        BY <3>1 DEF NotificationHidden, Relabelled
      <4>2. Shows(config, HistoryLabel(kept, lines, modes, favs)[y], y, lines, selection, cursor,
                  modes, favs, Excuses \ {"history"})
        BY <1>1, <1>4, <2>1, LabelShows
      <4> QED BY <4>1, <4>2
    <3>2. CASE ~config.hideBasicHelp
      <4>1. hidden = HelpLabel(kept, lines) /\ Relabelled(Excuses) = Excuses \ {"help"}
        BY <3>2 DEF NotificationHidden, Relabelled
      <4>2. Shows(config, HelpLabel(kept, lines)[y], y, lines, selection, cursor, modes, favs,
                  Excuses \ {"help"})
        BY <1>1, <1>4, <2>1, HelpShows
      <4> QED BY <4>1, <4>2
    <3> QED BY <1>1, <3>1, <3>2, ConfigFields
  <2> HIDE DEF hidden
  <2>3. Shows(config, HistoryLabel(hidden, lines, modes, favs)[y], y, lines, selection, cursor,
              modes, favs, Relabelled(Excuses) \ {"history"})
    BY <1>1, <1>5, <2>2, LabelShows
  <2> QED BY <2>3
<1> HIDE DEF hidden
<1>7. DOMAIN L = 0 .. k - 1
  BY <1>5, LabelRows
<1> HIDE DEF L
<1>8. DOMAIN rows' = 0 .. k - 1
  BY <1>0, <1>7, SameRows
<1> HIDE DEF given
<1>9. ASSUME Fits', NEW y \in 0 .. k - 1,
             y < PromptYItemsStart(k, config) \/ "resize" \notin amiss'
      PROVE  Shows(config, rows'[y], y, k, selection, now, modes, favs, excused)
  <2>0. /\ y \in DOMAIN L /\ DOMAIN L \subseteq Nat /\ InPrompt \in Nat \cup {InPrompt}
        /\ PromptYItemsStart(k, config) = PromptYItemsStart(lines, config)
        /\ PromptItems(k, config) >= 0
    BY <1>0, <1>1, <1>7, <1>9, LayoutKeeps DEF Fits, k
  <2>1. CASE "resize" \notin amiss'
    <3>1. k = lines /\ "resize" \notin amiss
      BY <1>0, <2>1 DEF Relabelled
    <3>2. Len(selection) <= PromptItems(lines, config)
      BY <1>1, <3>1, GivenFacts
    <3>3. now = cursor
      BY <1>0, <1>1, <3>2, MovedNowhere
    <3>4. Shows(config, L[y], y, lines, selection, cursor, modes, favs, given)
      BY <1>6, <3>1, <1>1
    <3>5. Shows(config, L[y], y, lines, selection, cursor, modes, favs, excused)
      BY <1>2, <3>4, ShowsMore
    <3>6. Shows(config, Highlighted(L, InPrompt, cursor, selection)[y], y, lines, selection, cursor,
                modes, favs, excused)
      BY <1>1, <2>0, <3>2, <3>5, HighlightedShows
    <3> QED BY <1>0, <3>1, <3>3, <3>6
  <2>2. CASE "resize" \in amiss'
    <3>1. y < PromptYItemsStart(lines, config)
      BY <1>9, <2>0, <2>2
    <3>2. y < lines /\ y \in 0 .. PromptYItemsStart(lines, config) - 1
      BY <1>1, <3>1, Layout DEF IsLayout
    <3>3. Shows(config, L[y], y, lines, selection, cursor, modes, favs, given)
      BY <1>6, <3>1, <3>2
    <3>4. Shows(config, L[y], y, lines, selection, cursor, modes, favs, excused)
      BY <1>2, <3>3, ShowsMore
    <3>5. Shows(config, L[y], y, lines, selection, InPrompt, modes, favs, excused)
      <4>1. "help" \in excused \/ "history" \in excused => LabelsOnTop(config)
        BY <1>0, <1>1, <1>2 DEF PhasesKnown, Relabelled
      <4> QED BY <1>1, <3>2, <3>4, <4>1, TopRow
    <3>6. Shows(config, Highlighted(L, InPrompt, now, selection)[y], y, lines, selection, now,
                modes, favs, excused)
      BY <1>1, <1>3, <2>0, <3>1, <3>5, HighlightedShows
    <3>7. Shows(config, Highlighted(L, InPrompt, now, selection)[y], y, k, selection, now,
                modes, favs, excused)
      <4>1. "help" \in excused \/ "history" \in excused => LabelsOnTop(config)
        BY <1>0, <1>1, <1>2 DEF PhasesKnown, Relabelled
      <4> QED BY <1>1, <2>0, <3>2, <3>6, <4>1, TopRow
    <3> QED BY <1>0, <3>7
  <2> QED BY <2>1, <2>2
<1>10. /\ amiss' \subseteq Amiss
       /\ "help" \in amiss' \/ "history" \in amiss' => LabelsOnTop(config)
  BY <1>0, <1>1 DEF PhasesKnown, Amiss, Relabelled
<1> QED BY <1>0, <1>1, <1>3, <1>8, <1>9, <1>10, ShownAgain DEF k, now, excused

\* Every step keeps the invariant: one lemma an action.
LEMMA ScreenNext == Given /\ [Next]_vars => ScreenInv'
<1> SUFFICES ASSUME Given, [Next]_vars PROVE ScreenInv'
  OBVIOUS
<1>1. CASE UNCHANGED vars
  <2>1. UNCHANGED <<config, lines, selection, cursor, modes, favs, rows, hideNotification, phase, amiss>>
    BY <1>1 DEF vars, label
  <2> QED BY <2>1 DEF Given, ScreenInv, ScreenTypes, PhasesKnown, RowsShown, Excuses, Fits,
                      UnderCursor, IndexOf
<1>2. CASE Next
  BY <1>2, StartShown, PrintGivenShown, SearchKeeps, RotateModeKeeps, ResizeKeeps, NavigateKeeps,
     EditPatternKeeps, ToggleCaseKeeps, FavoriteKeeps, DeleteKeeps, AskToDeleteKeeps,
     ConfirmYesKeeps, ConfirmOtherKeeps DEF Next
<1> QED BY <1>1, <1>2

\* Whatever keys, answers and resizes came before, each row that is not excused shows
\* what drawing the whole screen anew would show there: what loop_to_select leaves of
\* earlier keys is still right.
THEOREM ScreenStaysFresh == Spec => []ScreenAsFresh
<1>1. ScreenInv => ScreenAsFresh
  <2> SUFFICES ASSUME ScreenInv, Reading, "resize" \notin amiss, NEW y \in DOMAIN rows
               PROVE  rows[y] = Fresh(y) \/ Excused(y)
    BY DEF ScreenAsFresh
  <2>1. /\ y \in 0 .. lines - 1 /\ phase = "loop" /\ Fits /\ hideNotification \in BOOLEAN
        /\ amiss \subseteq Amiss
    BY DEF ScreenInv, ScreenTypes, PhasesKnown, Reading
  <2>2. Shows(config, rows[y], y, lines, selection, cursor, modes, favs, Excuses)
    BY <2>1 DEF ScreenInv, RowsShown
  <2>3. FreshAt(config, y, lines, selection, cursor, modes, favs) = Fresh(y)
    BY DEF FreshAt, Fresh, ItemAt
  <2>4. /\ "told" \in Excuses => hideNotification
        /\ \A a \in Amiss : a \in Excuses => a \in amiss
    BY <2>1 DEF Excuses, Amiss
  <2>5. Told(config, rows[y], y, lines, Excuses) => Excused(y)
    BY <2>4 DEF Told, Excused
  <2>6. Helpless(config, rows[y], y, lines, Excuses) => Excused(y)
    BY <2>4 DEF Helpless, Excused, Amiss
  <2>7. Counted(config, rows[y], y, lines, modes, Excuses) => Excused(y)
    BY <2>4 DEF Counted, Excused, Amiss
  <2>8. LitOnly(rows[y], Fresh(y), selection, Excuses) => Excused(y)
    BY <2>4 DEF LitOnly, Excused, Amiss
  <2> QED BY <2>2, <2>3, <2>5, <2>6, <2>7, <2>8 DEF Shows
<1>2. Init => ScreenInv /\ SelectionFits
  BY ScreenInit, SelectionFitsInit
<1>3. (ScreenInv /\ SelectionFits) /\ [Next]_vars => (ScreenInv /\ SelectionFits)'
  BY SelectionFitsNext, ScreenNext DEF Given
<1> QED BY <1>1, <1>2, <1>3, PTL DEF Spec

-----------------------------------------------------------------------------
\* The widths from each offset to the end of a string of n bytes, if at an offset there
\* are so many columns and from it there is but one way on.
LeadsOn(n, onwards, adding) ==
    \A i \in 0 .. n - 1 : onwards[i] \in i + 1 .. n /\ adding[i] \in Nat
IsWalk(W, n, onwards, adding) ==
    /\ W \in [0 .. n -> Nat] /\ W[n] = 0
    /\ \A i \in 0 .. n - 1 : W[i] = adding[i] + W[onwards[i]]

\* There are such widths: from the end backwards each follows from those behind it.
LEMMA WalkExists ==
    ASSUME NEW n \in Nat, NEW onwards, NEW adding, LeadsOn(n, onwards, adding)
    PROVE  \E W : IsWalk(W, n, onwards, adding)
<1>0. \A i \in 0 .. n - 1 : onwards[i] \in i + 1 .. n /\ adding[i] \in Nat
  BY DEF LeadsOn
<1> DEFINE Is(W, k) == W[n] = 0 /\ \A i \in n - k .. n - 1 : W[i] = adding[i] + W[onwards[i]]
           Exists(k) == \E W \in [n - k .. n -> Nat] : Is(W, k)
           S == {k \in Nat : k <= n => Exists(k)}
<1>1. Exists(0)
  <2> DEFINE W == [i \in n - 0 .. n |-> 0]
  <2>1. W \in [n - 0 .. n -> Nat] /\ Is(W, 0)
    OBVIOUS
  <2> HIDE DEF W, Is
  <2> QED BY <2>1
<1>2. ASSUME NEW k \in Nat, k + 1 <= n, Exists(k) PROVE Exists(k + 1)
  <2>1. PICK W \in [n - k .. n -> Nat] : Is(W, k)
    <3> HIDE DEF Is
    <3> QED BY <1>2
  <2> DEFINE first == n - (k + 1)
             more == [i \in first .. n |->
                        IF i = first THEN adding[i] + W[onwards[i]] ELSE W[i]]
  <2>2. /\ first \in 0 .. n - 1 /\ first + 1 = n - k
        /\ \A i \in first .. n : i # first => i \in n - k .. n
    BY <1>2
  <2>3. more \in [first .. n -> Nat]
    <3>1. W[onwards[first]] \in Nat /\ adding[first] \in Nat
      BY <1>0, <2>2
    <3>2. adding[first] + W[onwards[first]] \in Nat
      BY <3>1
    <3>3. \A i \in first .. n : i # first => W[i] \in Nat
      BY <2>2
    <3>4. \A i \in first .. n :
             (IF i = first THEN adding[i] + W[onwards[i]] ELSE W[i]) \in Nat
      <4> HIDE DEF first
      <4> QED BY <3>2, <3>3
    <3> HIDE DEF first
    <3> QED BY <3>4
  <2>4. ASSUME NEW i \in first .. n - 1 PROVE more[i] = adding[i] + more[onwards[i]]
    <3>1. onwards[i] \in i + 1 .. n
      BY <1>0, <2>2
    <3>2. onwards[i] \in first .. n /\ onwards[i] # first
      BY <2>2, <3>1
    <3>3. more[onwards[i]] = W[onwards[i]]
      BY <3>2
    <3>4. CASE i = first
      BY <3>3, <3>4
    <3>5. CASE i # first
      <4>1. more[i] = W[i] /\ i \in n - k .. n - 1
        BY <2>2, <3>5
      <4> HIDE DEF more
      <4> QED BY <2>1, <3>3, <4>1
    <3> QED BY <3>4, <3>5
  <2>5. more[n] = 0
    BY <2>1, <2>2
  <2> HIDE DEF more
  <2>6. Is(more, k + 1)
    BY <2>4, <2>5
  <2> HIDE DEF Is
  <2> QED BY <2>3, <2>6
<1>3. n \in S
  <2> HIDE DEF Exists
  <2>1. 0 \in S /\ \A k \in Nat : k \in S => k + 1 \in S
    BY <1>1, <1>2
  <2> HIDE DEF S
  <2> QED BY <2>1, NatSetInduction
<1>4. Exists(n)
  <2> HIDE DEF Exists
  <2> QED BY <1>3
<1>5. ASSUME NEW W \in [0 .. n -> Nat], Is(W, n) PROVE IsWalk(W, n, onwards, adding)
  BY <1>5 DEF IsWalk
<1>6. n - n = 0
  OBVIOUS
<1> HIDE DEF Is
<1> QED BY <1>4, <1>5, <1>6

\* What a character is in bytes and columns.
LEMMA CharacterSizes ==
    ASSUME NEW c \in Byte
    PROVE  CharLength(c) \in 1 .. 4 /\ CharWidth(c) \in Nat
BY BytesAssumption DEF CharLength, CharWidth, Byte, Character

\* What mbrtowc finds at an offset is one of three things, and a character ends within the
\* string.
LEMMA DecodedKinds ==
    ASSUME NEW s \in Seq(Byte), NEW i \in 0 .. Len(s) - 1
    PROVE  /\ Decoded(s, i) \in {"incomplete", "invalid", "character"}
           /\ Decoded(s, i) = "character" => i + CharLength(s[i + 1]) <= Len(s)
           /\ s[i + 1] \in Byte /\ CharLength(s[i + 1]) \in 1 .. 4 /\ CharWidth(s[i + 1]) \in Nat
<1>1. s[i + 1] \in Byte
  OBVIOUS
<1>2. CharLength(s[i + 1]) \in 1 .. 4 /\ CharWidth(s[i + 1]) \in Nat
  BY <1>1, CharacterSizes
<1>3. Decoded(s, i) \in {"incomplete", "invalid", "character"}
  BY DEF Decoded
<1>4. Decoded(s, i) = "character" => ~(i + CharLength(s[i + 1]) > Len(s))
  BY DEF Decoded
<1> QED BY <1>1, <1>2, <1>3, <1>4

\* hstr_strnwidth goes from one offset to the next: W has the columns that are still to come.
WidthStep(W, s, i) ==
    IF i = Len(s) \/ Decoded(s, i) = "incomplete" THEN 0
    ELSE IF Decoded(s, i) = "invalid" THEN 1 + W[i + 1]
    ELSE CharWidth(s[i + 1]) + W[i + CharLength(s[i + 1])]
IsWidth(W, s) ==
    /\ W \in [0 .. Len(s) -> Nat]
    /\ \A i \in 0 .. Len(s) : W[i] = WidthStep(W, s, i)
    /\ StrWidth(s) = W[0]

\* There is such a W for every string of bytes.
LEMMA WidthSteps ==
    ASSUME NEW s \in Seq(Byte)
    PROVE  \E W : IsWidth(W, s)
<1> DEFINE n == Len(s)
           onwards == [i \in 0 .. n - 1 |-> IF Decoded(s, i) = "incomplete" THEN n
                                            ELSE IF Decoded(s, i) = "invalid" THEN i + 1
                                            ELSE i + CharLength(s[i + 1])]
           adding  == [i \in 0 .. n - 1 |-> IF Decoded(s, i) = "incomplete" THEN 0
                                            ELSE IF Decoded(s, i) = "invalid" THEN 1
                                            ELSE CharWidth(s[i + 1])]
<1>1. n \in Nat
  OBVIOUS
<1>2. ASSUME NEW i \in 0 .. n - 1 PROVE onwards[i] \in i + 1 .. n /\ adding[i] \in Nat
  <2>1. /\ Decoded(s, i) \in {"incomplete", "invalid", "character"}
        /\ Decoded(s, i) = "character" => i + CharLength(s[i + 1]) <= n
        /\ CharLength(s[i + 1]) \in 1 .. 4 /\ CharWidth(s[i + 1]) \in Nat
    BY <1>1, DecodedKinds
  <2>2. i \in Nat /\ i + 1 \in i + 1 .. n /\ n \in i + 1 .. n
    BY <1>1
  <2> HIDE DEF n
  <2> QED BY <2>1, <2>2
<1>3. PICK V \in [0 .. n -> Nat] :
          V[n] = 0 /\ \A i \in 0 .. n - 1 : V[i] = adding[i] + V[onwards[i]]
  <2> HIDE DEF n, onwards, adding
  <2>1. LeadsOn(n, onwards, adding)
    BY <1>2 DEF LeadsOn
  <2>2. \E V : IsWalk(V, n, onwards, adding)
    BY <1>1, <2>1, WalkExists
  <2> QED BY <2>2 DEF IsWalk
<1>4. ASSUME NEW i \in 0 .. n PROVE V[i] = WidthStep(V, s, i)
  <2>1. CASE i = n
    BY <1>3, <2>1 DEF WidthStep
  <2>2. CASE i # n
    <3>1. i \in 0 .. n - 1 /\ V[i] = adding[i] + V[onwards[i]]
      BY <1>1, <1>3, <2>2
    <3>2. Decoded(s, i) \in {"incomplete", "invalid", "character"} /\ CharWidth(s[i + 1]) \in Nat
      BY <3>1, DecodedKinds
    <3>3. CASE Decoded(s, i) = "incomplete"
      BY <1>3, <2>2, <3>1, <3>3 DEF WidthStep
    <3>4. CASE Decoded(s, i) = "invalid"
      BY <1>3, <2>2, <3>1, <3>4 DEF WidthStep
    <3>5. CASE Decoded(s, i) = "character"
      BY <1>3, <2>2, <3>1, <3>5 DEF WidthStep
    <3> QED BY <3>2, <3>3, <3>4, <3>5
  <2> QED BY <2>1, <2>2
<1> DEFINE Is(h) == h = [i \in 0 .. n |-> WidthStep(h, s, i)]
           walk == CHOOSE h : Is(h)
<1>5. Is(V)
  BY <1>3, <1>4
<1>6. Is(walk)
  <2> HIDE DEF Is
  <2> QED BY <1>5
<1>7. StrWidth(s) = walk[0]
  BY DEF StrWidth, WidthStep
<1> HIDE DEF walk
<1>8. \A i \in 0 .. n : walk[i] = WidthStep(walk, s, i)
  BY <1>6
<1>9. \A i \in 0 .. n : walk[i] = V[i]
  <2> DEFINE S == {k \in Nat : \A i \in 0 .. n : i >= n - k => walk[i] = V[i]}
  <2>1. 0 \in S
    BY <1>1, <1>3, <1>8 DEF WidthStep
  <2>2. ASSUME NEW k \in Nat, k \in S PROVE k + 1 \in S
    <3> SUFFICES ASSUME NEW i \in 0 .. n, i >= n - (k + 1) PROVE walk[i] = V[i]
      OBVIOUS
    <3>1. CASE i = n
      BY <1>3, <1>8, <3>1 DEF WidthStep
    <3>2. CASE i # n
      <4>1. i \in 0 .. n - 1
        BY <1>1, <3>2
      <4>2. /\ Decoded(s, i) \in {"incomplete", "invalid", "character"}
            /\ CharLength(s[i + 1]) \in 1 .. 4
            /\ Decoded(s, i) = "character" => i + CharLength(s[i + 1]) <= n
        BY <4>1, DecodedKinds
      <4>3. walk[i + 1] = V[i + 1]
        BY <1>1, <2>2, <4>1
      <4>4. Decoded(s, i) = "character" =>
                walk[i + CharLength(s[i + 1])] = V[i + CharLength(s[i + 1])]
        BY <1>1, <2>2, <4>1, <4>2
      <4>5. WidthStep(walk, s, i) = WidthStep(V, s, i)
        BY <4>2, <4>3, <4>4 DEF WidthStep
      <4> QED BY <1>4, <1>8, <4>5
    <3> QED BY <3>1, <3>2
  <2>3. n \in S
    <3> HIDE DEF S
    <3> QED BY <1>1, <2>1, <2>2, NatSetInduction
  <2> QED BY <1>1, <2>3
<1>10. IsWidth(V, s)
  BY <1>1, <1>3, <1>4, <1>7, <1>9 DEF IsWidth
<1> QED BY <1>10

\* The columns of a string are a number.
LEMMA WidthType ==
    ASSUME NEW s \in Seq(Byte)
    PROVE  StrWidth(s) \in Nat
<1>1. PICK W : IsWidth(W, s)
  BY WidthSteps
<1> QED BY <1>1 DEF IsWidth

\* What mbrtowc finds at an offset does not depend on what is before it.
LEMMA DecodedBehind ==
    ASSUME NEW u \in Seq(Byte), NEW r \in Seq(Byte), NEW i \in 0 .. Len(r) - 1
    PROVE  /\ Decoded(u \o r, Len(u) + i) = Decoded(r, i)
           /\ (u \o r)[Len(u) + i + 1] = r[i + 1]
<1> DEFINE s == u \o r
           a == Len(u)
           b == Len(r)
           after == i + CharLength(r[i + 1])
<1>1. /\ s \in Seq(Byte) /\ Len(s) = a + b /\ a \in Nat /\ b \in Nat
      /\ \A j \in 0 .. b - 1 : s[a + j + 1] = r[j + 1]
  BY JoinProperties
<1>2. r[i + 1] \in Byte /\ CharLength(r[i + 1]) \in 1 .. 4
  BY DecodedKinds
<1> HIDE DEF s
<1>3. s[a + i + 1] = r[i + 1]
  BY <1>1
<1>4. (\E j \in a + i + 1 .. Len(s) - 1 : j < a + i + CharLength(r[i + 1]) /\ s[j + 1] # Continuation)
        <=> (\E j \in i + 1 .. b - 1 : j < after /\ r[j + 1] # Continuation)
  <2>1. ASSUME NEW j \in a + i + 1 .. Len(s) - 1, j < a + i + CharLength(r[i + 1]),
               s[j + 1] # Continuation
        PROVE  \E k \in i + 1 .. b - 1 : k < after /\ r[k + 1] # Continuation
    <3>1. j - a \in i + 1 .. b - 1 /\ j - a < after /\ a + (j - a) + 1 = j + 1
      BY <1>1, <1>2, <2>1
    <3>2. r[(j - a) + 1] = s[j + 1]
      <4>1. j - a \in 0 .. b - 1
        BY <1>1, <3>1
      <4>2. s[a + (j - a) + 1] = r[(j - a) + 1]
        BY <1>1, <4>1
      <4> QED BY <3>1, <4>2
    <3> QED BY <2>1, <3>1, <3>2
  <2>2. ASSUME NEW k \in i + 1 .. b - 1, k < after, r[k + 1] # Continuation
        PROVE  \E j \in a + i + 1 .. Len(s) - 1 : j < a + i + CharLength(r[i + 1])
                                                   /\ s[j + 1] # Continuation
    <3>1. a + k \in a + i + 1 .. Len(s) - 1 /\ a + k < a + i + CharLength(r[i + 1])
      BY <1>1, <1>2, <2>2
    <3>2. s[a + k + 1] = r[k + 1]
      BY <1>1
    <3> QED BY <2>2, <3>1, <3>2
  <2> QED BY <2>1, <2>2
<1>5. (a + i + CharLength(r[i + 1]) > Len(s)) <=> (after > b)
  BY <1>1, <1>2
<1>6. Decoded(s, a + i) = Decoded(r, i)
  BY <1>3, <1>4, <1>5 DEF Decoded
<1> QED BY <1>3, <1>6 DEF s

\* Nor do the columns from there on.
LEMMA WidthBehind ==
    ASSUME NEW u \in Seq(Byte), NEW r \in Seq(Byte), NEW W, IsWidth(W, u \o r)
    PROVE  W[Len(u)] = StrWidth(r)
<1> DEFINE s == u \o r
           a == Len(u)
           b == Len(r)
<1>1. s \in Seq(Byte) /\ Len(s) = a + b /\ a \in Nat /\ b \in Nat
  BY JoinProperties
<1>2. PICK V : IsWidth(V, r)
  BY WidthSteps
<1>3. /\ \A i \in 0 .. a + b : W[i] = WidthStep(W, s, i)
      /\ \A i \in 0 .. b : V[i] = WidthStep(V, r, i)
  BY <1>1, <1>2 DEF IsWidth
<1> DEFINE S == {k \in Nat : \A i \in 0 .. b : i >= b - k => W[a + i] = V[i]}
<1>4. 0 \in S
  <2>1. V[b] = 0 /\ W[a + b] = 0
    BY <1>1, <1>3 DEF WidthStep
  <2> QED BY <1>1, <2>1
<1>5. ASSUME NEW k \in Nat, k \in S PROVE k + 1 \in S
  <2> SUFFICES ASSUME NEW i \in 0 .. b, i >= b - (k + 1) PROVE W[a + i] = V[i]
    OBVIOUS
  <2>1. CASE i = b
    <3>1. V[b] = 0 /\ W[a + b] = 0
      BY <1>1, <1>3 DEF WidthStep
    <3> QED BY <2>1, <3>1
  <2>2. CASE i # b
    <3>1. i \in 0 .. b - 1 /\ a + i \in 0 .. a + b /\ a + i # a + b
      BY <1>1, <2>2
    <3>2. /\ Decoded(s, a + i) = Decoded(r, i) /\ s[a + i + 1] = r[i + 1]
      BY <3>1, DecodedBehind
    <3>3. /\ Decoded(r, i) \in {"incomplete", "invalid", "character"}
          /\ CharLength(r[i + 1]) \in 1 .. 4
          /\ Decoded(r, i) = "character" => i + CharLength(r[i + 1]) <= b
      BY <3>1, DecodedKinds
    <3>4. W[a + i + 1] = V[i + 1]
      <4>1. i + 1 \in 0 .. b /\ i + 1 >= b - k /\ a + (i + 1) = a + i + 1
        BY <1>1, <3>1
      <4>2. W[a + (i + 1)] = V[i + 1]
        BY <1>5, <4>1
      <4> QED BY <4>1, <4>2
    <3>5. Decoded(r, i) = "character" =>
              W[a + i + CharLength(r[i + 1])] = V[i + CharLength(r[i + 1])]
      <4> SUFFICES ASSUME Decoded(r, i) = "character"
                   PROVE  W[a + i + CharLength(r[i + 1])] = V[i + CharLength(r[i + 1])]
        OBVIOUS
      <4> DEFINE len == CharLength(r[i + 1])
                 j == i + len
      <4>0. len \in 1 .. 4 /\ i + len <= b /\ a \in Nat /\ b \in Nat /\ i \in Nat
        BY <1>1, <3>1, <3>3
      <4>1. j \in 0 .. b /\ j >= b - k /\ a + j = a + i + len
        <5> HIDE DEF len, a, b, S, s
        <5> QED BY <4>0
      <4>2. W[a + j] = V[j]
        <5> HIDE DEF j
        <5> QED BY <1>5, <4>1
      <4> QED BY <4>1, <4>2
    <3>6. W[a + i] = WidthStep(W, s, a + i) /\ V[i] = WidthStep(V, r, i)
      BY <1>3, <3>1
    <3> HIDE DEF s, a, b, S
    <3>7. WidthStep(W, s, a + i) = WidthStep(V, r, i)
      <4>1. a + i # Len(s) /\ i # Len(r)
        BY <1>1, <2>2, <3>1 DEF b
      <4>2. WidthStep(W, s, a + i) =
                IF Decoded(r, i) = "incomplete" THEN 0
                ELSE IF Decoded(r, i) = "invalid" THEN 1 + W[a + i + 1]
                ELSE CharWidth(r[i + 1]) + W[a + i + CharLength(r[i + 1])]
        BY <3>2, <4>1 DEF WidthStep
      <4>3. WidthStep(V, r, i) =
                IF Decoded(r, i) = "incomplete" THEN 0
                ELSE IF Decoded(r, i) = "invalid" THEN 1 + V[i + 1]
                ELSE CharWidth(r[i + 1]) + V[i + CharLength(r[i + 1])]
        BY <4>1 DEF WidthStep
      <4> QED BY <3>3, <3>4, <3>5, <4>2, <4>3
    <3> QED BY <3>6, <3>7
  <2> QED BY <2>1, <2>2
<1>6. b \in S
  <2> HIDE DEF S, b
  <2> QED BY <1>1, <1>4, <1>5, NatSetInduction
<1>7. W[a + 0] = V[0]
  BY <1>1, <1>6
<1>8. StrWidth(r) = V[0] /\ a + 0 = a
  BY <1>1, <1>2 DEF IsWidth
<1> QED BY <1>7, <1>8

\* A string is not narrower than what it begins with.
LEMMA PrefixNotWider ==
    ASSUME NEW s \in Seq(Byte), NEW m \in 0 .. Len(s)
    PROVE  StrWidth(SubSeq(s, 1, m)) <= StrWidth(s)
<1> DEFINE t == SubSeq(s, 1, m)
           n == Len(s)
<1>1. /\ t \in Seq(Byte) /\ Len(t) = m /\ n \in Nat /\ m \in Nat /\ m <= n
      /\ \A j \in 1 .. m : t[j] = s[j]
  OBVIOUS
<1> HIDE DEF t
<1>2. PICK W : IsWidth(W, s)
  BY WidthSteps
<1>3. PICK V : IsWidth(V, t)
  BY <1>1, WidthSteps
<1>4. /\ W \in [0 .. n -> Nat] /\ V \in [0 .. m -> Nat]
      /\ \A i \in 0 .. n : W[i] = WidthStep(W, s, i)
      /\ \A i \in 0 .. m : V[i] = WidthStep(V, t, i)
  BY <1>1, <1>2, <1>3 DEF IsWidth
<1>5. ASSUME NEW i \in 0 .. m - 1
      PROVE  /\ t[i + 1] = s[i + 1]
             /\ Decoded(t, i) # "incomplete" => Decoded(s, i) = Decoded(t, i)
  <2>1. t[i + 1] = s[i + 1] /\ i \in 0 .. Len(t) - 1
    BY <1>1
  <2>2. CharLength(t[i + 1]) \in 1 .. 4
    BY <1>1, <2>1, DecodedKinds
  <2>3. ASSUME NEW j \in i + 1 .. Len(t) - 1 PROVE j \in i + 1 .. n - 1 /\ s[j + 1] = t[j + 1]
    BY <1>1
  <2>4. CASE t[i + 1] = Continuation
    BY <2>1, <2>4 DEF Decoded
  <2>5. CASE \E j \in i + 1 .. Len(t) - 1 : j < i + CharLength(t[i + 1]) /\ t[j + 1] # Continuation
    <3>1. \E j \in i + 1 .. n - 1 : j < i + CharLength(s[i + 1]) /\ s[j + 1] # Continuation
      BY <2>1, <2>3, <2>5
    <3> QED BY <2>1, <2>5, <3>1 DEF Decoded
  <2>6. CASE /\ t[i + 1] # Continuation
             /\ ~ \E j \in i + 1 .. Len(t) - 1 : j < i + CharLength(t[i + 1]) /\ t[j + 1] # Continuation
    <3>1. CASE i + CharLength(t[i + 1]) > Len(t)
      BY <2>1, <2>6, <3>1 DEF Decoded
    <3>2. CASE ~(i + CharLength(t[i + 1]) > Len(t))
      <4>1. \A j \in i + 1 .. n - 1 : j < i + CharLength(s[i + 1]) =>
                j \in i + 1 .. Len(t) - 1 /\ s[j + 1] = t[j + 1]
        BY <1>1, <2>1, <2>2, <3>2
      <4>2. ~(i + CharLength(s[i + 1]) > n)
        BY <1>1, <2>1, <2>2, <3>2
      <4>3. Decoded(t, i) = "character"
        BY <2>6, <3>2 DEF Decoded
      <4>4. Decoded(s, i) = "character"
        BY <2>1, <2>6, <4>1, <4>2 DEF Decoded
      <4> QED BY <2>1, <4>3, <4>4
    <3> QED BY <3>1, <3>2
  <2> QED BY <2>4, <2>5, <2>6
<1> DEFINE S == {k \in Nat : \A i \in 0 .. m : i >= m - k => V[i] <= W[i]}
<1>6. 0 \in S
  <2>1. V[m] = 0 /\ W[m] \in Nat
    BY <1>1, <1>4 DEF WidthStep
  <2> QED BY <1>1, <2>1
<1>7. ASSUME NEW k \in Nat, k \in S PROVE k + 1 \in S
  <2> SUFFICES ASSUME NEW i \in 0 .. m, i >= m - (k + 1) PROVE V[i] <= W[i]
    OBVIOUS
  <2>1. V[i] = WidthStep(V, t, i) /\ W[i] = WidthStep(W, s, i) /\ V[i] \in Nat /\ W[i] \in Nat
    BY <1>1, <1>4
  <2>2. CASE i = m \/ Decoded(t, i) = "incomplete"
    <3>1. V[i] = 0
      BY <1>1, <2>1, <2>2 DEF WidthStep
    <3> QED BY <2>1, <3>1
  <2>3. CASE i # m /\ Decoded(t, i) # "incomplete"
    <3>1. i \in 0 .. m - 1 /\ i \in 0 .. Len(t) - 1
      BY <1>1, <2>3
    <3>2. /\ t[i + 1] = s[i + 1] /\ Decoded(s, i) = Decoded(t, i) /\ i # n
          /\ CharWidth(t[i + 1]) \in Nat /\ CharLength(t[i + 1]) \in 1 .. 4
          /\ Decoded(t, i) \in {"invalid", "character"}
          /\ Decoded(t, i) = "character" => i + CharLength(t[i + 1]) <= m
      <4>1. t[i + 1] = s[i + 1] /\ Decoded(s, i) = Decoded(t, i) /\ i # n
        BY <1>1, <1>5, <2>3, <3>1
      <4>2. /\ Decoded(t, i) \in {"incomplete", "invalid", "character"}
            /\ CharWidth(t[i + 1]) \in Nat /\ CharLength(t[i + 1]) \in 1 .. 4
            /\ Decoded(t, i) = "character" => i + CharLength(t[i + 1]) <= Len(t)
        BY <1>1, <3>1, DecodedKinds
      <4> QED BY <1>1, <2>3, <4>1, <4>2
    <3>3. CASE Decoded(t, i) = "invalid"
      <4>1. V[i] = 1 + V[i + 1] /\ W[i] = 1 + W[i + 1]
        BY <1>1, <2>1, <2>3, <3>2, <3>3 DEF WidthStep
      <4>2. V[i + 1] <= W[i + 1] /\ V[i + 1] \in Nat /\ W[i + 1] \in Nat
        <5>1. i + 1 \in 0 .. m /\ i + 1 \in 0 .. n /\ i + 1 >= m - k
          BY <1>1, <3>1
        <5> QED BY <1>4, <1>7, <5>1
      <4> QED BY <4>1, <4>2
    <3>4. CASE Decoded(t, i) = "character"
      <4> DEFINE j == i + CharLength(t[i + 1])
      <4>1. V[i] = CharWidth(t[i + 1]) + V[j] /\ W[i] = CharWidth(t[i + 1]) + W[j]
        BY <1>1, <2>1, <2>3, <3>2, <3>4 DEF WidthStep
      <4>2. j \in 0 .. m /\ j \in 0 .. n /\ j >= m - k
        BY <1>1, <3>1, <3>2, <3>4
      <4>3. V[j] <= W[j] /\ V[j] \in Nat /\ W[j] \in Nat
        <5> HIDE DEF j
        <5> QED BY <1>4, <1>7, <4>2
      <4> QED BY <3>2, <4>1, <4>3
    <3> QED BY <3>2, <3>3, <3>4
  <2> QED BY <2>2, <2>3
<1>8. m \in S
  <2> HIDE DEF S
  <2> QED BY <1>1, <1>6, <1>7, NatSetInduction
<1>9. V[0] <= W[0]
  BY <1>1, <1>8
<1> QED BY <1>2, <1>3, <1>9 DEF IsWidth, t

-----------------------------------------------------------------------------
\* Where the character before an offset may begin: hstr_chop takes the last such place.
BeginsAt(s, end, m) == m = 0 \/ end - m = MaxBytes \/ s[m + 1] # Continuation

\* CharStart is the last of these places before the offset.
LEMMA CharStartProperties ==
    ASSUME NEW s \in Seq(Byte), NEW end \in 1 .. Len(s)
    PROVE  /\ CharStart(s, end) \in 0 .. end - 1
           /\ BeginsAt(s, end, CharStart(s, end))
           /\ \A m \in CharStart(s, end) + 1 .. end - 1 : ~BeginsAt(s, end, m)
<1> DEFINE T == {m \in 1 .. end : BeginsAt(s, end, m - 1)}
<1>1. end \in Nat /\ T \in SUBSET (1 .. end) /\ 1 \in T
  BY DEF BeginsAt
<1>2. Max(T) \in T /\ \A m \in T : Max(T) >= m
  <2> HIDE DEF T
  <2> QED BY <1>1, MaxIsInside
<1>3. \E m \in 0 .. end - 1 : /\ BeginsAt(s, end, m)
                              /\ \A l \in m + 1 .. end - 1 : ~BeginsAt(s, end, l)
  <2>1. Max(T) \in 1 .. end /\ Max(T) - 1 \in 0 .. end - 1 /\ BeginsAt(s, end, Max(T) - 1)
    BY <1>2
  <2>2. ASSUME NEW l \in (Max(T) - 1) + 1 .. end - 1, BeginsAt(s, end, l) PROVE FALSE
    <3>1. l + 1 \in 1 .. end /\ (l + 1) - 1 = l /\ l + 1 > Max(T)
      BY <2>1
    <3>2. l + 1 \in T
      BY <2>2, <3>1
    <3>3. Max(T) >= l + 1
      <4> HIDE DEF T
      <4> QED BY <1>2, <3>2
    <3> HIDE DEF T
    <3> QED BY <2>1, <3>1, <3>3
  <2> HIDE DEF T
  <2> QED BY <2>1, <2>2
<1> DEFINE Is(m) == /\ BeginsAt(s, end, m)
                    /\ \A l \in m + 1 .. end - 1 : ~BeginsAt(s, end, l)
<1>4. CharStart(s, end) = CHOOSE m \in 0 .. end - 1 : Is(m)
  BY DEF CharStart, BeginsAt
<1>5. CharStart(s, end) \in 0 .. end - 1 /\ Is(CharStart(s, end))
  <2> HIDE DEF Is
  <2>1. \E m \in 0 .. end - 1 : Is(m)
    BY <1>3 DEF Is
  <2> QED BY <1>4, <2>1
<1> QED BY <1>5

\* hstr_chop leaves a shorter beginning of the string.
LEMMA ChopProperties ==
    ASSUME NEW s \in Seq(Byte), s # <<>>
    PROVE  \E m \in 0 .. Len(s) - 1 : Chop(s) = SubSeq(s, 1, m)
<1>1. Len(s) \in 1 .. Len(s)
  OBVIOUS
<1>2. CharStart(s, Len(s)) \in 0 .. Len(s) - 1
  BY <1>1, CharStartProperties
<1>3. Len(s) - 1 \in 0 .. Len(s) - 1
  BY <1>1
<1> QED BY <1>2, <1>3 DEF Chop

\* The bytes of a character are bytes.
LEMMA BytesType ==
    ASSUME NEW c \in Character
    PROVE  /\ Bytes(c) \in Seq(Byte) /\ Len(Bytes(c)) = CharLength(c) /\ CharLength(c) \in 1 .. 4
           /\ c \in Byte /\ Bytes(c)[1] = c /\ c # Continuation
           /\ \A m \in 2 .. CharLength(c) : Bytes(c)[m] = Continuation
<1>1. c \in Byte /\ c # Continuation /\ Continuation \in Byte
  BY BytesAssumption DEF Byte, Character
<1>2. CharLength(c) \in 1 .. 4 /\ CharLength(c) \in Nat
  BY <1>1, CharacterSizes
<1>3. Bytes(c) \in [1 .. CharLength(c) -> Byte]
  BY <1>1 DEF Bytes
<1>4. Bytes(c) \in Seq(Byte) /\ Len(Bytes(c)) = CharLength(c)
  BY <1>2, <1>3
<1> QED BY <1>1, <1>2, <1>4 DEF Bytes

\* Characters in bytes are bytes.
LEMMA EncodedType ==
    ASSUME NEW text \in Seq(Character)
    PROVE  Encoded(text) \in Seq(Byte)
<1> DEFINE parts == [n \in DOMAIN text |-> Bytes(text[n])]
<1>1. parts \in Seq(Seq(Byte))
  <2>1. DOMAIN text = 1 .. Len(text) /\ Len(text) \in Nat
        /\ \A n \in DOMAIN text : text[n] \in Character
    OBVIOUS
  <2>2. \A n \in DOMAIN text : Bytes(text[n]) \in Seq(Byte)
    BY <2>1, BytesType
  <2> DEFINE T == Seq(Byte)
  <2>3. parts \in [1 .. Len(text) -> T]
    BY <2>1, <2>2
  <2> HIDE DEF T, parts
  <2>4. parts \in Seq(T)
    BY <2>1, <2>3
  <2> QED BY <2>4 DEF T
<1> HIDE DEF parts
<1>2. FlattenSeq(parts) \in Seq(Byte)
  BY <1>1, FlattenProperties
<1> QED BY <1>2 DEF Encoded, parts

\* A byte more, or not: what hstr_strcat_char_fitting does to the pattern.
LEMMA FittingType ==
    ASSUME NEW s \in Seq(Byte), Len(s) < BufferSize, NEW c \in Byte, NEW columnsLeft \in Nat
    PROVE  LET t == StrcatCharFitting(s, BufferSize, c, columnsLeft)
           IN  /\ t \in Seq(Byte) /\ Len(t) < BufferSize
               /\ t = s \/ StrWidth(t) <= columnsLeft \/ StrWidth(t) <= StrWidth(s)
<1> DEFINE t == StrcatChar(s, BufferSize, c)
<1>1. Append(s, c) \in Seq(Byte) /\ Len(Append(s, c)) = Len(s) + 1 /\ Append(s, c) # <<>>
  OBVIOUS
<1>2. CASE t = s
  BY <1>2 DEF StrcatCharFitting
<1>3. CASE t # s
  <2>1. t = Append(s, c) /\ Len(s) + 1 < BufferSize
    BY <1>3, BufferAssumption DEF StrcatChar
  <2>2. CASE StrWidth(t) > columnsLeft
    <3>1. PICK m \in 0 .. Len(t) - 1 : Chop(t) = SubSeq(t, 1, m)
      <4> HIDE DEF t
      <4> QED BY <1>1, <2>1, ChopProperties
    <3>2. m \in 0 .. Len(s) /\ SubSeq(t, 1, m) = SubSeq(s, 1, m)
      BY <1>1, <2>1
    <3>3. SubSeq(s, 1, m) \in Seq(Byte) /\ Len(SubSeq(s, 1, m)) <= Len(s)
      BY <3>2
    <3>4. StrWidth(SubSeq(s, 1, m)) <= StrWidth(s)
      BY <3>2, PrefixNotWider
    <3>5. StrcatCharFitting(s, BufferSize, c, columnsLeft) = SubSeq(s, 1, m)
      BY <1>3, <2>2, <3>1, <3>2 DEF StrcatCharFitting
    <3> HIDE DEF t
    <3> QED BY <3>3, <3>4, <3>5, BufferAssumption
  <2>3. CASE ~(StrWidth(t) > columnsLeft)
    <3>1. StrcatCharFitting(s, BufferSize, c, columnsLeft) = t
      BY <2>3 DEF StrcatCharFitting
    <3>2. StrWidth(t) \in Nat
      BY <1>1, <2>1, WidthType
    <3> HIDE DEF t
    <3> QED BY <1>1, <2>1, <2>3, <3>1, <3>2
  <2> QED BY <2>2, <2>3
<1> QED BY <1>2, <1>3

-----------------------------------------------------------------------------
\* The pattern and the bytes that come in keep their types; it ends within its buffer.
LEMMA PromptTypes ==
    /\ PromptInit => TypeOK
    /\ TypeOK /\ [PromptNext]_promptVars => TypeOK'
<1>1. PromptInit => TypeOK
  <2> SUFFICES ASSUME PromptInit PROVE TypeOK
    OBVIOUS
  <2>1. PICK text \in CommandLines : pattern = Copied(Encoded(text))
    BY DEF PromptInit
  <2>2. Encoded(text) \in Seq(Byte)
    BY CommandLinesAssumption, EncodedType
  <2>3. pattern \in Seq(Byte) /\ Len(pattern) < BufferSize
    BY <2>1, <2>2, BufferAssumption DEF Copied
  <2> QED BY <2>3 DEF PromptInit, TypeOK
<1>2. ASSUME TypeOK, [PromptNext]_promptVars PROVE TypeOK'
  <2>1. CASE Press
    BY <1>2, <2>1, BytesType DEF TypeOK, Press
  <2>2. CASE Type
    <3>1. Head(keys) \in Byte /\ Tail(keys) \in Seq(Byte) /\ width \in Nat
      BY <1>2, <2>2, WidthsAssumption DEF TypeOK, Type
    <3>2. pattern' \in Seq(Byte) /\ Len(pattern') < BufferSize
      BY <1>2, <2>2, <3>1, FittingType DEF TypeOK, Type
    <3> QED BY <1>2, <2>2, <3>1, <3>2 DEF TypeOK, Type
  <2>3. CASE Backspace
    <3>1. PICK m \in 0 .. Len(pattern) - 1 : pattern' = SubSeq(pattern, 1, m)
      BY <1>2, <2>3, ChopProperties DEF TypeOK, Backspace
    <3>2. pattern' \in Seq(Byte) /\ Len(pattern') < BufferSize
      BY <1>2, <3>1, BufferAssumption DEF TypeOK
    <3> QED BY <1>2, <2>3, <3>2 DEF TypeOK, Backspace
  <2>4. CASE ClearPattern
    BY <1>2, <2>4, BufferAssumption DEF TypeOK, ClearPattern
  <2>5. CASE ResizeTerminal
    BY <1>2, <2>5 DEF TypeOK, ResizeTerminal
  <2>6. CASE UNCHANGED promptVars
    BY <1>2, <2>6 DEF TypeOK, promptVars
  <2> QED BY <1>2, <2>1, <2>2, <2>3, <2>4, <2>5, <2>6 DEF PromptNext
<1> QED BY <1>1, <1>2

\* For any buffer and any command line the pattern never runs over the end of its buffer
\* (hstr_strcat_char, hstr_chop, the strncpy of the command line).
THEOREM PatternInBuffer == PromptSpec => []TypeOK
BY PromptTypes, PTL DEF PromptSpec

\* No key makes the pattern outgrow the columns it has: a byte that would is taken back
\* with the character it completes, which leaves nothing wider than there was
\* (hstr_strcat_char_fitting).
THEOREM PatternNeverWider == PromptSpec => NeverWider
<1> DEFINE Fitting == columns >= width /\ StrWidth(pattern') > columns =>
                         StrWidth(pattern') <= StrWidth(pattern)
<1>1. TypeOK /\ [PromptNext]_promptVars => [Fitting]_promptVars
  <2> SUFFICES ASSUME TypeOK, PromptNext, columns >= width, StrWidth(pattern') > columns
               PROVE  StrWidth(pattern') <= StrWidth(pattern)
    BY DEF promptVars
  <2>1. StrWidth(pattern) \in Nat /\ columns \in Nat /\ width \in Nat
    BY WidthType, WidthsAssumption DEF TypeOK
  <2>2. CASE Type
    <3>1. Head(keys) \in Byte /\ pattern' = StrcatCharFitting(pattern, BufferSize, Head(keys), width)
      BY <2>2 DEF TypeOK, Type
    <3>2. /\ pattern' \in Seq(Byte)
          /\ pattern' = pattern \/ StrWidth(pattern') <= width \/ StrWidth(pattern') <= StrWidth(pattern)
      BY <2>1, <3>1, FittingType DEF TypeOK
    <3>3. StrWidth(pattern') \in Nat
      BY <3>2, WidthType
    <3> QED BY <2>1, <3>2, <3>3
  <2>3. CASE Backspace
    <3>1. PICK m \in 0 .. Len(pattern) - 1 : pattern' = SubSeq(pattern, 1, m)
      BY <2>3, ChopProperties DEF TypeOK, Backspace
    <3>2. m \in 0 .. Len(pattern)
      BY DEF TypeOK
    <3> QED BY <3>1, <3>2, PrefixNotWider DEF TypeOK
  <2>4. CASE ClearPattern
    <3>1. pattern' = SubSeq(pattern, 1, 0) /\ 0 \in 0 .. Len(pattern)
      BY <2>4 DEF ClearPattern, TypeOK
    <3> QED BY <3>1, PrefixNotWider DEF TypeOK
  <2>5. CASE Press \/ ResizeTerminal
    BY <2>1, <2>5 DEF Press, ResizeTerminal
  <2> QED BY <2>2, <2>3, <2>4, <2>5 DEF PromptNext
<1> QED BY PromptTypes, <1>1, PTL DEF PromptSpec, NeverWider

-----------------------------------------------------------------------------
\* A character more in a text is its bytes more ...
LEMMA EncodedAppend ==
    ASSUME NEW text \in Seq(Character), NEW c \in Character
    PROVE  Encoded(Append(text, c)) = Encoded(text) \o Bytes(c)
<1> DEFINE more == Append(text, c)
           T == Seq(Byte)
           parts == [n \in DOMAIN text |-> Bytes(text[n])]
           longer == [n \in DOMAIN more |-> Bytes(more[n])]
<1>1. /\ DOMAIN text = 1 .. Len(text) /\ DOMAIN more = 1 .. Len(text) + 1 /\ Len(text) \in Nat
      /\ \A n \in 1 .. Len(text) : text[n] \in Character /\ more[n] = text[n]
      /\ more[Len(text) + 1] = c
  OBVIOUS
<1> HIDE DEF more
<1>2. (\A n \in 1 .. Len(text) : Bytes(text[n]) \in T) /\ Bytes(c) \in T
  BY <1>1, BytesType
<1>3. parts \in [1 .. Len(text) -> T] /\ Bytes(c) \in T
  BY <1>1, <1>2
<1>4. longer = Append(parts, Bytes(c))
  <2> HIDE DEF T
  <2>1. \A n \in 1 .. Len(text) + 1 : Bytes(more[n]) \in T
    BY <1>1, <1>2
  <2>2. longer \in Seq(T) /\ Len(longer) = Len(text) + 1
    BY <1>1, <2>1
  <2>3. parts \in Seq(T) /\ Len(parts) = Len(text) /\ Bytes(c) \in T
    BY <1>1, <1>3
  <2>4. /\ Append(parts, Bytes(c)) \in Seq(T) /\ Len(Append(parts, Bytes(c))) = Len(text) + 1
        /\ \A n \in 1 .. Len(text) : Append(parts, Bytes(c))[n] = parts[n]
        /\ Append(parts, Bytes(c))[Len(text) + 1] = Bytes(c)
    BY <2>3, AppendProperties
  <2>5. /\ \A n \in 1 .. Len(text) : longer[n] = parts[n]
        /\ longer[Len(text) + 1] = Bytes(c)
    BY <1>1
  <2> HIDE DEF longer, parts
  <2>6. \A n \in 1 .. Len(longer) : longer[n] = Append(parts, Bytes(c))[n]
    BY <1>1, <2>2, <2>4, <2>5
  <2> QED BY <2>2, <2>4, <2>6, SeqEqual
<1>5. FlattenSeq(Append(parts, Bytes(c))) = FlattenSeq(parts) \o Bytes(c)
  <2>1. parts \in Seq(T)
    <3> HIDE DEF T, parts
    <3> QED BY <1>1, <1>3
  <2> HIDE DEF parts
  <2> QED BY <1>3, <2>1, FlattenAppend
<1>6. Encoded(text) = FlattenSeq(parts) /\ Encoded(more) = FlattenSeq(longer)
  BY DEF Encoded
<1> HIDE DEF parts, longer
<1> QED BY <1>4, <1>5, <1>6 DEF more

\* ... and of no character there is no byte.
LEMMA EncodedNothing == Encoded(<<>>) = <<>>
<1>1. [n \in DOMAIN <<>> |-> Bytes(<<>>[n])] = <<>>
  OBVIOUS
<1>2. FlattenSeq(<<>>) = <<>>
  BY DEF FlattenSeq
<1> QED BY <1>1, <1>2 DEF Encoded

\* A byte that begins a character adds it to the text, one that continues it nothing.
LEMMA TextAppend ==
    ASSUME NEW s \in Seq(Byte), NEW b \in Byte
    PROVE  /\ TextOf(s) \in Seq(Byte)
           /\ TextOf(Append(s, b)) = IF b = Continuation THEN TextOf(s) ELSE Append(TextOf(s), b)
<1> DEFINE more == Append(s, b)
           T == Seq(Byte)
           one(x) == IF x = Continuation THEN <<>> ELSE <<x>>
           parts == [n \in DOMAIN s |-> one(s[n])]
           longer == [n \in DOMAIN more |-> one(more[n])]
<1>1. /\ DOMAIN s = 1 .. Len(s) /\ DOMAIN more = 1 .. Len(s) + 1 /\ Len(s) \in Nat
      /\ \A n \in 1 .. Len(s) : s[n] \in Byte /\ more[n] = s[n]
      /\ more[Len(s) + 1] = b
  OBVIOUS
<1> HIDE DEF more
<1>2. \A x \in Byte : one(x) \in T
  <2>1. \A x \in Byte : <<x>> \in T
    BY OneItem
  <2> QED BY <2>1
<1>3. parts \in [1 .. Len(s) -> T] /\ one(b) \in T
  <2> HIDE DEF one, T
  <2> QED BY <1>1, <1>2
<1>4. longer = Append(parts, one(b))
  <2> HIDE DEF T, one
  <2>1. \A n \in 1 .. Len(s) + 1 : one(more[n]) \in T
    BY <1>1, <1>2
  <2>2. longer \in Seq(T) /\ Len(longer) = Len(s) + 1
    BY <1>1, <2>1
  <2>3. parts \in Seq(T) /\ Len(parts) = Len(s) /\ one(b) \in T
    BY <1>1, <1>3
  <2>4. /\ Append(parts, one(b)) \in Seq(T) /\ Len(Append(parts, one(b))) = Len(s) + 1
        /\ \A n \in 1 .. Len(s) : Append(parts, one(b))[n] = parts[n]
        /\ Append(parts, one(b))[Len(s) + 1] = one(b)
    BY <2>3, AppendProperties
  <2>5. /\ \A n \in 1 .. Len(s) : longer[n] = parts[n]
        /\ longer[Len(s) + 1] = one(b)
    BY <1>1
  <2> HIDE DEF longer, parts
  <2>6. \A n \in 1 .. Len(longer) : longer[n] = Append(parts, one(b))[n]
    BY <1>1, <2>2, <2>4, <2>5
  <2> QED BY <2>2, <2>4, <2>6, SeqEqual
<1>5. FlattenSeq(Append(parts, one(b))) = FlattenSeq(parts) \o one(b) /\ FlattenSeq(parts) \in T
  <2>1. parts \in Seq(T)
    <3> HIDE DEF T, parts
    <3> QED BY <1>1, <1>3
  <2> HIDE DEF parts, one
  <2> QED BY <1>3, <2>1, FlattenAppend, FlattenProperties
<1>6. TextOf(s) = FlattenSeq(parts) /\ TextOf(more) = FlattenSeq(longer)
  BY DEF TextOf
<1> HIDE DEF parts, longer
<1>7. \A t \in T : t \o <<>> = t /\ t \o <<b>> = Append(t, b)
  BY ConcatEmptySeq, AppendIsConcat
<1> QED BY <1>4, <1>5, <1>6, <1>7 DEF more

\* A text has characters only.
LEMMA TextType ==
    ASSUME NEW s \in Seq(Byte)
    PROVE  TextOf(s) \in Seq(Character)
<1> DEFINE one(x) == IF x = Continuation THEN <<>> ELSE <<x>>
           T == Seq(Character)
           parts == [n \in DOMAIN s |-> one(s[n])]
<1>1. DOMAIN s = 1 .. Len(s) /\ Len(s) \in Nat /\ \A n \in 1 .. Len(s) : s[n] \in Byte
  OBVIOUS
<1>2. \A x \in Byte : one(x) \in T
  <2>1. \A x \in Character : <<x>> \in T
    BY OneItem
  <2> QED BY <2>1 DEF Byte
<1>3. parts \in Seq(T)
  <2> HIDE DEF one, T
  <2> QED BY <1>1, <1>2
<1>4. FlattenSeq(parts) \in T
  <2> HIDE DEF parts
  <2> QED BY <1>3, FlattenProperties
<1> QED BY <1>4 DEF TextOf

\* The bytes of one character more are one character more in the text.
LEMMA TextOfOneMore ==
    ASSUME NEW s \in Seq(Byte), NEW c \in Character
    PROVE  TextOf(s \o Bytes(c)) = Append(TextOf(s), c)
<1> DEFINE bs == Bytes(c)
           n == CharLength(c)
           Part(m) == s \o SubSeq(bs, 1, m)
           S == {k \in Nat : k + 1 <= n => TextOf(Part(k + 1)) = Append(TextOf(s), c)}
<1>1. /\ bs \in Seq(Byte) /\ Len(bs) = n /\ n \in 1 .. 4 /\ c \in Byte /\ bs[1] = c
      /\ c # Continuation /\ \A m \in 2 .. n : bs[m] = Continuation
  BY BytesType
<1>2. ASSUME NEW m \in 0 .. n - 1
      PROVE  Part(m) \in Seq(Byte) /\ Part(m + 1) = Append(Part(m), bs[m + 1]) /\ bs[m + 1] \in Byte
  <2> HIDE DEF bs, n
  <2>1. /\ SubSeq(bs, 1, m) \in Seq(Byte) /\ bs[m + 1] \in Byte
        /\ SubSeq(bs, 1, m + 1) = Append(SubSeq(bs, 1, m), bs[m + 1])
    BY <1>1
  <2> DEFINE p == SubSeq(bs, 1, m)
  <2> HIDE DEF p
  <2>2. p \in Seq(Byte) /\ SubSeq(bs, 1, m + 1) = Append(p, bs[m + 1])
    BY <2>1 DEF p
  <2>3. s \o Append(p, bs[m + 1]) = Append(s \o p, bs[m + 1]) /\ s \o p \in Seq(Byte)
    BY <2>1, <2>2
  <2> QED BY <2>1, <2>2, <2>3 DEF p
<1>3. Part(0) = s /\ Part(n) = s \o bs
  <2>1. SubSeq(bs, 1, 0) = <<>> /\ SubSeq(bs, 1, n) = bs
    <3> HIDE DEF bs, n
    <3> QED BY <1>1
  <2> HIDE DEF bs, n
  <2> QED BY <2>1, ConcatEmptySeq
<1> HIDE DEF bs, n, Part
<1>4. 0 \in S
  <2>1. 0 \in 0 .. n - 1 /\ 0 + 1 = 1
    BY <1>1
  <2>2. Part(0 + 1) = Append(s, c)
    BY <1>1, <1>2, <1>3, <2>1
  <2>3. TextOf(Append(s, c)) = Append(TextOf(s), c)
    BY <1>1, TextAppend
  <2> QED BY <2>2, <2>3
<1>5. ASSUME NEW k \in Nat, k \in S PROVE k + 1 \in S
  <2> SUFFICES ASSUME (k + 1) + 1 <= n PROVE TextOf(Part((k + 1) + 1)) = Append(TextOf(s), c)
    OBVIOUS
  <2>1. k + 1 \in 0 .. n - 1 /\ (k + 1) + 1 \in 2 .. n
    BY <1>1
  <2>2. /\ Part(k + 1) \in Seq(Byte) /\ bs[(k + 1) + 1] = Continuation
        /\ Part((k + 1) + 1) = Append(Part(k + 1), bs[(k + 1) + 1]) /\ bs[(k + 1) + 1] \in Byte
    BY <1>1, <1>2, <2>1
  <2>3. TextOf(Part((k + 1) + 1)) = TextOf(Part(k + 1))
    BY <2>2, TextAppend
  <2>4. k + 1 <= n
    BY <1>1
  <2> QED BY <1>5, <2>3, <2>4
<1>6. n - 1 \in S
  <2> HIDE DEF S
  <2> QED BY <1>1, <1>4, <1>5, NatSetInduction
<1>7. (n - 1) + 1 = n /\ n <= n
  BY <1>1
<1>8. TextOf(Part((n - 1) + 1)) = Append(TextOf(s), c)
  BY <1>6, <1>7
<1> QED BY <1>3, <1>7, <1>8 DEF bs

-----------------------------------------------------------------------------
\* What it is for F to have the columns of the first characters of a text ...
IsColumns(F, text) ==
    /\ F \in [0 .. Len(text) -> Nat] /\ F[0] = 0
    /\ \A k \in 1 .. Len(text) : F[k] = CharWidth(text[k]) + F[k - 1]
    /\ Line!ColumnsOf(text) = F[Len(text)]

\* ... and there is such an F.
LEMMA ColumnSteps ==
    ASSUME NEW text \in Seq(Character)
    PROVE  \E F : IsColumns(F, text)
<1> DEFINE n == Len(text)
           op(sum, m) == CharWidth(text[m]) + sum
           step == [a \in Nat \X (1 .. n) |-> op(a[1], a[2])]
<1>1. /\ n \in Nat /\ DOMAIN text = 1 .. n /\ \A m \in 1 .. n : CharWidth(text[m]) \in Nat
  BY CharacterSizes DEF Byte
<1>2. step \in [Nat \X (1 .. n) -> Nat]
  BY <1>1
<1>3. PICK g \in [SUBSET (1 .. n) -> Nat] :
          \A s \in SUBSET (1 .. n) :
             g[s] = IF s = {} THEN 0 ELSE step[<<g[s \ {Max(s)}], Max(s)>>]
  <2>1. n \in Nat /\ 0 \in Nat /\ step \in Steps(n, Nat)
    BY <1>1, <1>2 DEF Steps
  <2>2. \E g : IsFold(g, n, Nat, 0, step)
    <3> HIDE DEF step, n
    <3> QED BY <2>1, FoldExists
  <2> QED BY <2>2 DEF IsFold
<1> DEFINE Is(h) == h = [s \in SUBSET (1 .. n) |-> IF s = {} THEN 0 ELSE op(h[s \ {Max(s)}], Max(s))]
           iter == CHOOSE h : Is(h)
<1>4. Is(g)
  <2>1. ASSUME NEW s \in SUBSET (1 .. n), s # {}
        PROVE  step[<<g[s \ {Max(s)}], Max(s)>>] = op(g[s \ {Max(s)}], Max(s))
    <3>1. Max(s) \in 1 .. n /\ g[s \ {Max(s)}] \in Nat
      BY <1>1, <2>1, MaxIsInside
    <3> QED BY <3>1
  <2> HIDE DEF step, op
  <2> QED BY <1>3, <2>1
<1>5. Is(iter)
  <2> HIDE DEF Is
  <2> QED BY <1>4
<1>6. Line!ColumnsOf(text) = iter[1 .. n]
  BY <1>1 DEF Line!ColumnsOf, Line!FoldLeft, Line!MapThenFoldSet, Line!Max, Max
<1> DEFINE F == [k \in 0 .. n |-> iter[1 .. k]]
<1> HIDE DEF iter
<1>7. F[0] = 0
  BY <1>1, <1>5
<1>8. ASSUME NEW k \in 1 .. n PROVE F[k] = op(F[k - 1], k)
  <2>1. /\ 1 .. k \in SUBSET (1 .. n) /\ 1 .. k # {}
        /\ (1 .. k) \ {Max(1 .. k)} = 1 .. k - 1 /\ Max(1 .. k) = k
    BY <1>1, InitialSegments
  <2>2. iter[1 .. k] = op(iter[(1 .. k) \ {Max(1 .. k)}], Max(1 .. k))
    <3> HIDE DEF op
    <3> QED BY <1>5, <2>1
  <2>3. iter[1 .. k] = op(iter[1 .. k - 1], k)
    <3> HIDE DEF op
    <3> QED BY <2>1, <2>2
  <2> QED BY <2>3
<1>9. \A k \in 0 .. n : F[k] \in Nat
  <2> HIDE DEF F
  <2> DEFINE T == Nat
  <2>1. ASSUME NEW k \in 1 .. n, F[k - 1] \in T PROVE F[k] \in T
    BY <1>1, <1>8, <2>1
  <2>2. F[0] \in T
    BY <1>7
  <2> HIDE DEF n, T
  <2>3. \A k \in 0 .. n : F[k] \in T
    BY <1>1, <2>1, <2>2, FoldInduction
  <2> QED BY <2>3 DEF T
<1>10. F \in [0 .. n -> Nat] /\ Line!ColumnsOf(text) = F[n]
  BY <1>1, <1>6, <1>9
<1> HIDE DEF F
<1> QED BY <1>7, <1>8, <1>10 DEF IsColumns

\* A character more is its columns more.
LEMMA ColumnsAppend ==
    ASSUME NEW text \in Seq(Character), NEW c \in Character
    PROVE  /\ Line!ColumnsOf(text) \in Nat
           /\ Line!ColumnsOf(Append(text, c)) = CharWidth(c) + Line!ColumnsOf(text)
<1> DEFINE more == Append(text, c)
           n == Len(text)
<1>1. /\ more \in Seq(Character) /\ Len(more) = n + 1 /\ n \in Nat /\ more[n + 1] = c
      /\ \A k \in 1 .. n : more[k] = text[k]
  OBVIOUS
<1> HIDE DEF more
<1>2. PICK F : IsColumns(F, text)
  BY ColumnSteps
<1>3. PICK E : IsColumns(E, more)
  BY <1>1, ColumnSteps
<1>f. /\ F[0] = 0 /\ Line!ColumnsOf(text) = F[n] /\ F[n] \in Nat
      /\ \A k \in 1 .. n : F[k] = CharWidth(text[k]) + F[k - 1]
  BY <1>1, <1>2 DEF IsColumns
<1>e. /\ E[0] = 0 /\ Line!ColumnsOf(more) = E[n + 1]
      /\ \A k \in 1 .. n + 1 : E[k] = CharWidth(more[k]) + E[k - 1]
  <2> HIDE DEF n
  <2> QED BY <1>1, <1>3 DEF IsColumns
<1>4. F[n] = E[n]
  <2> HIDE DEF n
  <2>1. \A k \in 1 .. n : k \in 1 .. n + 1 /\ more[k] = text[k]
    BY <1>1
  <2>2. F[0] = E[0] /\ \A k \in 1 .. n : F[k - 1] = E[k - 1] => F[k] = E[k]
    BY <1>f, <1>e, <2>1
  <2> QED BY <1>1, <2>2, SameSteps
<1>5. E[n + 1] = CharWidth(c) + E[n]
  <2> HIDE DEF n
  <2>1. n + 1 \in 1 .. n + 1 /\ (n + 1) - 1 = n
    BY <1>1
  <2>2. E[n + 1] = CharWidth(more[n + 1]) + E[(n + 1) - 1]
    BY <1>e, <2>1
  <2> QED BY <1>1, <2>1, <2>2
<1> QED BY <1>4, <1>5, <1>e, <1>f DEF more

\* The columns of a string of a character and what follows it.
LEMMA CharacterWidth ==
    ASSUME NEW c \in Character, NEW r \in Seq(Byte)
    PROVE  StrWidth(Bytes(c) \o r) = CharWidth(c) + StrWidth(r)
<1> DEFINE bs == Bytes(c)
           n == CharLength(c)
           s == bs \o r
<1>1. /\ bs \in Seq(Byte) /\ Len(bs) = n /\ n \in 1 .. 4 /\ bs[1] = c
      /\ c # Continuation /\ \A m \in 2 .. n : bs[m] = Continuation
  BY BytesType
<1> HIDE DEF bs
<1>2. s \in Seq(Byte) /\ Len(s) = n + Len(r) /\ Len(r) \in Nat /\ \A m \in 1 .. n : s[m] = bs[m]
  BY <1>1, JoinProperties
<1> HIDE DEF s, n
<1>3. PICK W : IsWidth(W, s)
  BY <1>2, WidthSteps
<1>4. s[0 + 1] = c
  BY <1>1, <1>2
<1>5. Decoded(s, 0) = "character"
  <2>1. \A j \in 0 + 1 .. Len(s) - 1 : j < 0 + n => s[j + 1] = Continuation
    BY <1>1, <1>2
  <2>2. ~(0 + n > Len(s))
    BY <1>1, <1>2
  <2> QED BY <1>1, <1>4, <2>1, <2>2 DEF Decoded, n
<1>6. 0 \in 0 .. Len(s) /\ 0 # Len(s) /\ 0 + n = n
  BY <1>1, <1>2
<1>7. W[0] = CharWidth(c) + W[n]
  BY <1>3, <1>4, <1>5, <1>6 DEF IsWidth, WidthStep, n
<1>8. W[n] = StrWidth(r)
  BY <1>1, <1>3, WidthBehind DEF s
<1> QED BY <1>3, <1>7, <1>8 DEF IsWidth, s, bs

\* The first bytes of a character have no columns yet.
LEMMA PartHasNoWidth ==
    ASSUME NEW c \in Character, NEW m \in 0 .. CharLength(c) - 1
    PROVE  StrWidth(SubSeq(Bytes(c), 1, m)) = 0
<1> DEFINE bs == Bytes(c)
           n == CharLength(c)
           s == SubSeq(bs, 1, m)
<1>1. /\ bs \in Seq(Byte) /\ Len(bs) = n /\ n \in 1 .. 4 /\ bs[1] = c
      /\ c # Continuation /\ \A j \in 2 .. n : bs[j] = Continuation
  BY BytesType
<1> HIDE DEF bs
<1>2. s \in Seq(Byte) /\ Len(s) = m /\ m \in 0 .. n - 1 /\ \A j \in 1 .. m : s[j] = bs[j]
  BY <1>1
<1> HIDE DEF s, n
<1>3. PICK W : IsWidth(W, s)
  BY <1>2, WidthSteps
<1>4. W[0] = WidthStep(W, s, 0)
  BY <1>2, <1>3 DEF IsWidth
<1>5. CASE m = 0
  BY <1>2, <1>3, <1>4, <1>5 DEF IsWidth, WidthStep, s, bs
<1>6. CASE m # 0
  <2>1. s[0 + 1] = c
    BY <1>1, <1>2, <1>6
  <2>2. \A j \in 0 + 1 .. Len(s) - 1 : s[j + 1] = Continuation
    BY <1>1, <1>2
  <2>3. 0 + n > Len(s)
    BY <1>1, <1>2
  <2>4. Decoded(s, 0) = "incomplete"
    BY <1>1, <2>1, <2>2, <2>3 DEF Decoded, n
  <2> QED BY <1>3, <1>4, <2>4 DEF IsWidth, WidthStep, s, bs
<1> QED BY <1>5, <1>6

\* Strings of bytes can be joined in any order.
LEMMA JoinThree ==
    ASSUME NEW a \in Seq(Byte), NEW b \in Seq(Byte), NEW c \in Seq(Byte)
    PROVE  b \o c \in Seq(Byte) /\ (a \o b) \o c = a \o (b \o c)
<1>1. (a \o b) \o c = a \o (b \o c)
  BY ConcatAssociative
<1>2. b \o c \in Seq(Byte)
  OBVIOUS
<1> QED BY <1>1, <1>2

\* hstr_strwidth adds up the columns of the characters.
LEMMA EncodedWidth ==
    ASSUME NEW text \in Seq(Character), NEW rest \in Seq(Byte)
    PROVE  StrWidth(Encoded(text) \o rest) = Line!ColumnsOf(text) + StrWidth(rest)
<1> DEFINE n == Len(text)
           Part(k) == SubSeq(text, 1, k)
           Adds(k) == \A r \in Seq(Byte) :
                         StrWidth(Encoded(Part(k)) \o r) = Line!ColumnsOf(Part(k)) + StrWidth(r)
           S == {k \in Nat : k <= n => Adds(k)}
<1>1. n \in Nat /\ Part(0) = <<>> /\ Part(n) = text
  OBVIOUS
<1>2. ASSUME NEW k \in 0 .. n - 1
      PROVE  /\ Part(k) \in Seq(Character) /\ text[k + 1] \in Character
             /\ Part(k + 1) = Append(Part(k), text[k + 1])
  OBVIOUS
<1> HIDE DEF Part
<1>3. 0 \in S
  <2>1. PICK F : IsColumns(F, <<>>)
    <3>1. <<>> \in Seq(Character)
      OBVIOUS
    <3> QED BY <3>1, ColumnSteps
  <2>2. Line!ColumnsOf(<<>>) = 0
    BY <2>1 DEF IsColumns
  <2>3. \A r \in Seq(Byte) : <<>> \o r = r /\ StrWidth(r) \in Nat
    BY ConcatEmptySeq, WidthType
  <2>4. ASSUME NEW r \in Seq(Byte)
        PROVE  StrWidth(Encoded(Part(0)) \o r) = Line!ColumnsOf(Part(0)) + StrWidth(r)
    <3>1. Encoded(Part(0)) = <<>> /\ Line!ColumnsOf(Part(0)) = 0
      BY <1>1, <2>2, EncodedNothing
    <3>2. <<>> \o r = r /\ 0 + StrWidth(r) = StrWidth(r)
      BY <2>3
    <3> QED BY <3>1, <3>2
  <2> QED BY <2>4
<1>4. ASSUME NEW k \in Nat, k \in S PROVE k + 1 \in S
  <2> SUFFICES ASSUME k + 1 <= n, NEW r \in Seq(Byte)
               PROVE  StrWidth(Encoded(Part(k + 1)) \o r) = Line!ColumnsOf(Part(k + 1)) + StrWidth(r)
    OBVIOUS
  <2> DEFINE t == Part(k)
             c == text[k + 1]
             bs == Bytes(c)
             e == Encoded(t)
  <2>1. t \in Seq(Character) /\ c \in Character /\ Part(k + 1) = Append(t, c) /\ k <= n
    BY <1>1, <1>2
  <2> HIDE DEF t, c
  <2>2. bs \in Seq(Byte) /\ e \in Seq(Byte) /\ Encoded(Append(t, c)) = e \o bs
    BY <2>1, BytesType, EncodedType, EncodedAppend
  <2> HIDE DEF bs, e
  <2>3. bs \o r \in Seq(Byte) /\ (e \o bs) \o r = e \o (bs \o r)
    <3>1. bs \in Seq(Byte) /\ e \in Seq(Byte) /\ r \in Seq(Byte)
      BY <2>2
    <3> QED BY <3>1, JoinThree
  <2>4. StrWidth(e \o (bs \o r)) = Line!ColumnsOf(t) + StrWidth(bs \o r)
    BY <1>4, <2>1, <2>3 DEF e, t
  <2>5. StrWidth(bs \o r) = CharWidth(c) + StrWidth(r)
    BY <2>1, CharacterWidth DEF bs
  <2>6. /\ Line!ColumnsOf(t) \in Nat
        /\ Line!ColumnsOf(Append(t, c)) = CharWidth(c) + Line!ColumnsOf(t)
    BY <2>1, ColumnsAppend
  <2>7. CharWidth(c) \in Nat /\ StrWidth(r) \in Nat
    BY <2>1, CharacterSizes, WidthType DEF Byte
  <2>8. Encoded(Part(k + 1)) \o r = e \o (bs \o r)
    BY <2>1, <2>2, <2>3
  <2>9. Line!ColumnsOf(Part(k + 1)) = CharWidth(c) + Line!ColumnsOf(t)
    BY <2>1, <2>6
  <2>10. Line!ColumnsOf(t) + (CharWidth(c) + StrWidth(r))
            = (CharWidth(c) + Line!ColumnsOf(t)) + StrWidth(r)
    BY <2>6, <2>7
  <2> QED BY <2>4, <2>5, <2>8, <2>9, <2>10
<1>5. n \in S
  <2> HIDE DEF S, n
  <2> QED BY <1>1, <1>3, <1>4, NatSetInduction
<1> QED BY <1>1, <1>5

\* hstr_chop takes a whole character from the end.
LEMMA ChopTakesCharacter ==
    ASSUME NEW s \in Seq(Byte), NEW c \in Character
    PROVE  Chop(s \o Bytes(c)) = s
<1> DEFINE bs == Bytes(c)
           n == CharLength(c)
           t == s \o bs
           a == Len(s)
<1>1. /\ bs \in Seq(Byte) /\ Len(bs) = n /\ n \in 1 .. 4 /\ bs[1] = c
      /\ c # Continuation /\ \A m \in 2 .. n : bs[m] = Continuation
  BY BytesType
<1> HIDE DEF bs
<1>2. /\ t \in Seq(Byte) /\ Len(t) = a + n /\ a \in Nat
      /\ (\A m \in 1 .. a : t[m] = s[m]) /\ \A m \in 1 .. n : t[a + m] = bs[m]
  BY <1>1, JoinProperties
<1>3. n = 1 \/ c \in Lead
  BY DEF n, CharLength
<1> HIDE DEF t, n
<1> DEFINE start == CharStart(t, Len(t))
<1>4. /\ start \in 0 .. Len(t) - 1 /\ BeginsAt(t, Len(t), start)
      /\ \A m \in start + 1 .. Len(t) - 1 : ~BeginsAt(t, Len(t), m)
  <2>1. Len(t) \in 1 .. Len(t)
    BY <1>1, <1>2
  <2> QED BY <1>2, <2>1, CharStartProperties
<1>5. t[a + 1] = c /\ BeginsAt(t, Len(t), a)
  BY <1>1, <1>2 DEF BeginsAt
<1>6. ASSUME NEW m \in a + 1 .. Len(t) - 1 PROVE ~BeginsAt(t, Len(t), m)
  <2>1. t[m + 1] = Continuation
    <3>1. (m - a) + 1 \in 2 .. n /\ (m - a) + 1 \in 1 .. n /\ a + ((m - a) + 1) = m + 1
      BY <1>1, <1>2
    <3> QED BY <1>1, <1>2, <3>1
  <2>2. m # 0 /\ Len(t) - m # MaxBytes
    BY <1>1, <1>2 DEF MaxBytes
  <2> QED BY <2>1, <2>2 DEF BeginsAt
<1> HIDE DEF start
<1>7. start = a
  <2>1. CASE start < a
    <3>1. a \in start + 1 .. Len(t) - 1
      BY <1>1, <1>2, <1>4, <2>1
    <3> QED BY <1>4, <1>5, <3>1
  <2>2. CASE start > a
    <3>1. start \in a + 1 .. Len(t) - 1
      BY <1>1, <1>2, <1>4, <2>2
    <3> QED BY <1>4, <1>6, <3>1
  <2> QED BY <1>2, <1>4, <2>1, <2>2
<1>8. t # <<>> /\ t[start + 1] = c
  BY <1>1, <1>2, <1>5, <1>7
<1>9. Chop(t) = SubSeq(t, 1, a)
  <2>1. CASE c \in Lead
    BY <1>7, <1>8, <2>1 DEF Chop, start
  <2>2. CASE c \notin Lead
    <3>1. Len(t) - 1 = a
      BY <1>2, <1>3, <2>2
    <3> QED BY <1>8, <2>2, <3>1 DEF Chop, start
  <2> QED BY <2>1, <2>2
<1>10. SubSeq(t, 1, a) = s
  <2>1. SubSeq(t, 1, a) \in Seq(Byte) /\ Len(SubSeq(t, 1, a)) = a
        /\ \A m \in 1 .. a : SubSeq(t, 1, a)[m] = s[m]
    BY <1>1, <1>2
  <2> QED BY <2>1, SeqEqual
<1> QED BY <1>9, <1>10 DEF t, bs

-----------------------------------------------------------------------------
\* What a line of whole characters becomes when the byte m + 1 of a character comes in after
\* the m before it: the bytes are kept until the last, which decides whether the character
\* stays or goes (hstr_strcat_char_fitting).
LEMMA ByteComesIn ==
    ASSUME NEW s \in Seq(Byte), WellFormed(s), NEW w \in Nat, StrWidth(s) <= w,
           NEW c \in Character, Len(s) + CharLength(c) < BufferSize,
           NEW m \in 0 .. CharLength(c) - 1
    PROVE  StrcatCharFitting(s \o SubSeq(Bytes(c), 1, m), BufferSize, Bytes(c)[m + 1], w) =
               IF m + 1 < CharLength(c) THEN s \o SubSeq(Bytes(c), 1, m + 1)
               ELSE IF Line!ColumnsOf(TextOf(s)) + CharWidth(c) <= w THEN s \o Bytes(c) ELSE s
<1> DEFINE bs == Bytes(c)
           n == CharLength(c)
           before == s \o SubSeq(bs, 1, m)
           after == s \o SubSeq(bs, 1, m + 1)
           text == TextOf(s)
<1>1. /\ bs \in Seq(Byte) /\ Len(bs) = n /\ n \in 1 .. 4 /\ m \in Nat
  BY BytesType
<1> HIDE DEF bs
<1>2. /\ SubSeq(bs, 1, m + 1) \in Seq(Byte) /\ SubSeq(bs, 1, m) \in Seq(Byte) /\ bs[m + 1] \in Byte
      /\ SubSeq(bs, 1, m + 1) = Append(SubSeq(bs, 1, m), bs[m + 1]) /\ Len(SubSeq(bs, 1, m)) = m
  BY <1>1
<1>3. /\ after = Append(before, bs[m + 1]) /\ before \in Seq(Byte) /\ Len(before) = Len(s) + m
  <2> DEFINE p == SubSeq(bs, 1, m)
  <2>1. p \in Seq(Byte) /\ Len(p) = m /\ SubSeq(bs, 1, m + 1) = Append(p, bs[m + 1])
    BY <1>2
  <2> HIDE DEF p
  <2>2. s \o Append(p, bs[m + 1]) = Append(s \o p, bs[m + 1]) /\ s \o p \in Seq(Byte)
        /\ Len(s \o p) = Len(s) + m
    BY <1>2, <2>1
  <2> QED BY <2>1, <2>2 DEF p
<1>4. text \in Seq(Character) /\ s = Encoded(text)
  BY TextType DEF WellFormed
<1>5. /\ Line!ColumnsOf(text) \in Nat /\ CharWidth(c) \in Nat
  BY <1>4, ColumnsAppend, CharacterSizes DEF Byte
<1> HIDE DEF text, n
<1>6. Line!ColumnsOf(text) <= w
  <2>1. <<>> \in Seq(Byte) /\ Encoded(text) \o <<>> = s
    BY <1>4, ConcatEmptySeq
  <2>2. StrWidth(<<>>) \in Nat /\ StrWidth(s) = Line!ColumnsOf(text) + StrWidth(<<>>)
    BY <1>4, <2>1, EncodedWidth, WidthType
  <2> QED BY <1>5, <2>2
<1> HIDE DEF before, after
<1>7. StrcatChar(before, BufferSize, bs[m + 1]) = after
  <2>1. ~(Len(before) + 1 >= BufferSize)
    BY <1>1, <1>3, BufferAssumption DEF n
  <2> QED BY <1>3, <2>1 DEF StrcatChar
<1>8. after # before
  <2>1. Len(after) = Len(before) + 1 /\ Len(before) \in Nat
    <3>1. bs[m + 1] \in Byte /\ before \in Seq(Byte) /\ after = Append(before, bs[m + 1])
      BY <1>2, <1>3
    <3> QED BY <3>1
  <2> QED BY <2>1
<1>9. StrcatCharFitting(before, BufferSize, bs[m + 1], w) =
          IF StrWidth(after) > w THEN Chop(after) ELSE after
  BY <1>7, <1>8 DEF StrcatCharFitting
<1>10. CASE m + 1 < n
  <2>1. m + 1 \in 0 .. n - 1
    BY <1>1, <1>10
  <2>2. StrWidth(SubSeq(bs, 1, m + 1)) = 0
    BY <2>1, PartHasNoWidth DEF n, bs
  <2>3. StrWidth(after) = Line!ColumnsOf(text) + StrWidth(SubSeq(bs, 1, m + 1))
    BY <1>2, <1>4, EncodedWidth DEF after
  <2>4. ~(StrWidth(after) > w)
    BY <1>5, <1>6, <2>2, <2>3
  <2> QED BY <1>9, <1>10, <2>4 DEF after, before, bs, n
<1>11. CASE ~(m + 1 < n)
  <2>1. m + 1 = n /\ SubSeq(bs, 1, n) = bs
    BY <1>1, <1>11 DEF n
  <2>2. after = s \o bs
    BY <2>1 DEF after
  <2>3. StrWidth(bs) = CharWidth(c)
    <3>1. /\ bs \o <<>> = bs /\ <<>> \in Seq(Byte)
      BY <1>1, ConcatEmptySeq
    <3>2. StrWidth(bs \o <<>>) = CharWidth(c) + StrWidth(<<>>)
      BY <3>1, CharacterWidth DEF bs
    <3>3. StrWidth(<<>>) = 0
      <4>1. 0 \in 0 .. CharLength(c) - 1 /\ SubSeq(Bytes(c), 1, 0) = <<>>
        BY <1>1 DEF n
      <4> QED BY <4>1, PartHasNoWidth
    <3> QED BY <1>5, <3>1, <3>2, <3>3
  <2>4. StrWidth(after) = Line!ColumnsOf(text) + CharWidth(c)
    BY <1>1, <1>4, <2>2, <2>3, EncodedWidth
  <2>5. Chop(after) = s
    BY <2>2, ChopTakesCharacter DEF bs
  <2>6. (StrWidth(after) > w) <=> ~(Line!ColumnsOf(text) + CharWidth(c) <= w)
    BY <1>5, <2>4
  <2> QED BY <1>9, <1>11, <2>2, <2>5, <2>6 DEF before, bs, n, text
<1> QED BY <1>10, <1>11

\* A line of whole characters is one with a character more, ...
LEMMA WellFormedMore ==
    ASSUME NEW s \in Seq(Byte), WellFormed(s), NEW c \in Character
    PROVE  WellFormed(s \o Bytes(c))
<1>1. TextOf(s) \in Seq(Character) /\ Encoded(TextOf(s)) = s
  BY TextType DEF WellFormed
<1>2. Encoded(Append(TextOf(s), c)) = s \o Bytes(c)
  BY <1>1, EncodedAppend
<1> QED BY <1>2, TextOfOneMore DEF WellFormed

\* ... and with one less, which hstr_chop takes.
LEMMA WellFormedLess ==
    ASSUME NEW s \in Seq(Byte), WellFormed(s), s # <<>>
    PROVE  /\ WellFormed(Chop(s)) /\ TextOf(s) # <<>>
           /\ TextOf(Chop(s)) = Line!Front(TextOf(s))
<1> DEFINE text == TextOf(s)
           front == SubSeq(text, 1, Len(text) - 1)
           c == text[Len(text)]
           u == Encoded(front)
<1>1. text \in Seq(Character) /\ s = Encoded(text)
  BY TextType DEF WellFormed
<1>2. text # <<>>
  BY <1>1, EncodedNothing
<1> HIDE DEF text
<1>3. front \in Seq(Character) /\ c \in Character /\ text = Append(front, c)
  BY <1>1, <1>2
<1> HIDE DEF front, c
<1>4. u \in Seq(Byte) /\ s = u \o Bytes(c)
  BY <1>1, <1>3, EncodedType, EncodedAppend
<1> HIDE DEF u
<1>5. Chop(s) = u
  BY <1>3, <1>4, ChopTakesCharacter
<1>6. TextOf(s) = Append(TextOf(u), c) /\ TextOf(u) \in Seq(Character)
  BY <1>3, <1>4, TextOfOneMore, TextType
<1>7. TextOf(u) = front
  <2> DEFINE v == TextOf(u)
  <2>1. Append(v, c) = Append(front, c) /\ v \in Seq(Character)
    BY <1>3, <1>6 DEF text
  <2> HIDE DEF v
  <2>2. v = front
    <3>1. Len(Append(v, c)) = Len(v) + 1 /\ Len(Append(front, c)) = Len(front) + 1
      BY <1>3, <2>1
    <3>2. Len(v) = Len(front)
      BY <1>3, <2>1, <3>1
    <3>3. \A k \in 1 .. Len(v) : v[k] = Append(v, c)[k] /\ front[k] = Append(front, c)[k]
      BY <1>3, <2>1, <3>2
    <3>4. \A k \in 1 .. Len(v) : v[k] = front[k]
      BY <2>1, <3>3
    <3> QED BY <1>3, <2>1, <3>2, <3>4, SeqEqual
  <2> QED BY <2>2 DEF v
<1>8. WellFormed(u)
  BY <1>7 DEF WellFormed, u
<1>9. front = Line!Front(text)
  BY DEF Line!Front, front
<1> QED BY <1>2, <1>5, <1>7, <1>8, <1>9 DEF text

\* Between two keys no character is coming in.  Within one, its other bytes are still to come,
\* and if its line is sound the pattern is that line and the bytes that have come: none of
\* them has been refused.
Arriving ==
    IF keys = <<>> THEN key = NoKey
    ELSE /\ key \in Character
         /\ \E m \in 0 .. CharLength(key) - 1 :
              /\ keys = SubSeq(Bytes(key), m + 1, CharLength(key))
              /\ Sound => pattern = earlier \o SubSeq(Bytes(key), 1, m)

\* What the next byte does to a sound line: the next of a character that is not yet complete
\* only comes in, the last one puts the character into the line or leaves the line as it was.
LEMMA TypeStep ==
    ASSUME TypeOK, Arriving, Type
    PROVE  \/ /\ keys' # <<>> /\ key' = key /\ Arriving'
           \/ /\ keys' = <<>> /\ key' = NoKey /\ key \in Character
              /\ Sound => pattern' = IF Line!ColumnsOf(TextOf(earlier)) + CharWidth(key) <= width
                                     THEN earlier \o Bytes(key) ELSE earlier
<1> DEFINE bs == Bytes(key)
           n == CharLength(key)
<1>1. /\ key \in Character /\ keys # <<>>
      /\ \E m \in 0 .. n - 1 : /\ keys = SubSeq(bs, m + 1, n)
                               /\ Sound => pattern = earlier \o SubSeq(bs, 1, m)
  BY DEF Arriving, Type
<1>2. PICK m \in 0 .. n - 1 : /\ keys = SubSeq(bs, m + 1, n)
                              /\ Sound => pattern = earlier \o SubSeq(bs, 1, m)
  BY <1>1
<1>3. bs \in Seq(Byte) /\ Len(bs) = n /\ n \in 1 .. 4
  BY <1>1, BytesType
<1> HIDE DEF bs
<1>4. Head(keys) = bs[m + 1] /\ Tail(keys) = SubSeq(bs, (m + 1) + 1, n)
      /\ (Tail(keys) = <<>> <=> m + 1 = n)
  <2> HIDE DEF n
  <2>1. keys \in Seq(Byte) /\ Len(keys) = n - m /\ keys # <<>>
        /\ \A k \in 1 .. n - m : keys[k] = bs[m + k]
    BY <1>1, <1>2, <1>3
  <2>2. Tail(keys) \in Seq(Byte) /\ Len(Tail(keys)) = n - m - 1
        /\ \A k \in 1 .. n - m - 1 : Tail(keys)[k] = keys[k + 1]
    BY <1>3, <2>1
  <2>3. /\ SubSeq(bs, (m + 1) + 1, n) \in Seq(Byte) /\ Len(SubSeq(bs, (m + 1) + 1, n)) = n - m - 1
        /\ \A k \in 1 .. n - m - 1 : SubSeq(bs, (m + 1) + 1, n)[k] = bs[m + k + 1]
    <3> DEFINE j == (m + 1) + 1
    <3>1. j \in 2 .. n + 1 /\ n - j + 1 = n - m - 1 /\ n \in Nat
      BY <1>2, <1>3
    <3>2. \A k \in 1 .. n - m - 1 : k \in 1 .. n - j + 1 /\ j + k - 1 = m + k + 1
      BY <1>2, <1>3
    <3> HIDE DEF j
    <3>3. /\ SubSeq(bs, j, n) \in Seq(Byte) /\ Len(SubSeq(bs, j, n)) = n - j + 1
          /\ \A k \in 1 .. n - j + 1 : SubSeq(bs, j, n)[k] = bs[j + k - 1]
      BY <1>3, <3>1
    <3> QED BY <3>1, <3>2, <3>3 DEF j
  <2>4. \A k \in 1 .. n - m - 1 : Tail(keys)[k] = SubSeq(bs, (m + 1) + 1, n)[k]
    <3>1. \A k \in 1 .. n - m - 1 : k + 1 \in 1 .. n - m /\ m + (k + 1) = m + k + 1
      BY <1>3
    <3> QED BY <2>1, <2>2, <2>3, <3>1
  <2>5. Tail(keys) = SubSeq(bs, (m + 1) + 1, n)
    BY <2>2, <2>3, <2>4, SeqEqual
  <2>6. Head(keys) = bs[m + 1]
    <3>1. 1 \in 1 .. n - m /\ Head(keys) = keys[1]
      BY <1>3, <2>1
    <3> QED BY <2>1, <3>1
  <2>7. Tail(keys) = <<>> <=> m + 1 = n
    <3> DEFINE rest == Tail(keys)
    <3>1. rest \in Seq(Byte) /\ Len(rest) = n - m - 1
      BY <2>2
    <3> HIDE DEF rest
    <3>2. rest = <<>> <=> Len(rest) = 0
      BY <3>1, EmptySeq
    <3>3. n - m - 1 = 0 <=> m + 1 = n
      BY <1>2, <1>3
    <3> QED BY <3>1, <3>2, <3>3 DEF rest
  <2> QED BY <2>5, <2>6, <2>7
<1>5. ASSUME Sound
      PROVE  pattern' = IF m + 1 < n THEN earlier \o SubSeq(bs, 1, m + 1)
                        ELSE IF Line!ColumnsOf(TextOf(earlier)) + CharWidth(key) <= width
                        THEN earlier \o bs ELSE earlier
  <2>1. /\ WellFormed(earlier) /\ StrWidth(earlier) <= width
        /\ Len(earlier) + CharLength(key) < BufferSize
    BY <1>1, <1>5 DEF Sound, Edited
  <2>2. earlier \in Seq(Byte) /\ width \in Nat
    BY WidthsAssumption DEF TypeOK
  <2>3. pattern' = StrcatCharFitting(earlier \o SubSeq(Bytes(key), 1, m), BufferSize,
                                     Bytes(key)[m + 1], width)
    BY <1>2, <1>4, <1>5 DEF Type, bs
  <2> QED BY <1>1, <2>1, <2>2, <2>3, ByteComesIn DEF bs
<1>6. CASE m + 1 < n
  <2>1. m + 1 \in 0 .. n - 1 /\ Tail(keys) # <<>>
    BY <1>3, <1>4, <1>6
  <2>2. keys' = Tail(keys) /\ key' = key /\ earlier' = earlier /\ width' = width
    BY <2>1 DEF Type
  <2>3. Sound' => Sound
    BY <1>1, <2>1, <2>2 DEF Sound, Edited
  <2>4. keys' = SubSeq(Bytes(key'), (m + 1) + 1, CharLength(key'))
    BY <1>4, <2>2 DEF bs
  <2>5. Sound' => pattern' = earlier' \o SubSeq(Bytes(key'), 1, m + 1)
    BY <1>5, <1>6, <2>2, <2>3 DEF bs
  <2>6. m + 1 \in 0 .. CharLength(key') - 1 /\ key' \in Character /\ keys' # <<>>
    BY <1>1, <2>1, <2>2
  <2>7. Arriving'
    BY <2>4, <2>5, <2>6 DEF Arriving
  <2> QED BY <2>2, <2>6, <2>7
<1>7. CASE ~(m + 1 < n)
  <2>1. m + 1 = n
    BY <1>3, <1>7
  <2>2. keys' = <<>> /\ key' = NoKey
    BY <1>4, <2>1 DEF Type
  <2> QED BY <1>1, <1>5, <1>7, <2>2 DEF bs
<1> QED BY <1>6, <1>7

\* Whatever the keys, that is so.
LEMMA ArrivingHolds ==
    /\ PromptInit => Arriving
    /\ TypeOK /\ Arriving /\ [PromptNext]_promptVars => Arriving'
<1>1. PromptInit => Arriving
  BY DEF PromptInit, Arriving
<1>2. ASSUME TypeOK, Arriving, [PromptNext]_promptVars PROVE Arriving'
  <2>1. CASE Press
    <3>1. PICK c \in Character : key' = c /\ keys' = Bytes(c)
      BY <2>1 DEF Press
    <3>2. /\ Bytes(c) \in Seq(Byte) /\ Len(Bytes(c)) = CharLength(c) /\ CharLength(c) \in 1 .. 4
      BY BytesType
    <3>3. /\ Bytes(c) # <<>> /\ SubSeq(Bytes(c), 1, 0) = <<>>
          /\ SubSeq(Bytes(c), 0 + 1, CharLength(c)) = Bytes(c)
      <4> DEFINE bs == Bytes(c)
                 n == CharLength(c)
      <4> HIDE DEF bs, n
      <4>1. bs # <<>> /\ SubSeq(bs, 1, 0) = <<>> /\ SubSeq(bs, 0 + 1, n) = bs
        BY <3>2 DEF bs, n
      <4> QED BY <4>1 DEF bs, n
    <3>4. earlier' = pattern /\ pattern' = pattern /\ pattern \o <<>> = pattern
      BY <1>2, <2>1, ConcatEmptySeq DEF Press, TypeOK
    <3>5. 0 \in 0 .. CharLength(key') - 1
      BY <3>1, <3>2
    <3>6. keys' = SubSeq(Bytes(key'), 0 + 1, CharLength(key')) /\ keys' # <<>>
      BY <3>1, <3>3
    <3>7. pattern' = earlier' \o SubSeq(Bytes(key'), 1, 0)
      BY <3>1, <3>3, <3>4
    <3> QED BY <3>1, <3>5, <3>6, <3>7 DEF Arriving
  <2>2. CASE Type
    <3>1. keys' = <<>> /\ key' = NoKey => Arriving'
      BY DEF Arriving
    <3> QED BY <1>2, <2>2, <3>1, TypeStep
  <2>3. CASE Backspace
    BY <1>2, <2>3 DEF Arriving, Backspace
  <2>4. CASE ClearPattern
    BY <1>2, <2>4 DEF Arriving, ClearPattern
  <2>5. CASE ResizeTerminal \/ UNCHANGED promptVars
    <3>1. /\ pattern' = pattern /\ width' = width /\ keys' = keys /\ key' = key
          /\ earlier' = earlier
      BY <2>5 DEF ResizeTerminal, promptVars
    <3>2. Sound' <=> Sound
      BY <3>1 DEF Sound, Edited
    <3> QED BY <1>2, <3>1, <3>2 DEF Arriving
  <2> QED BY <1>2, <2>1, <2>2, <2>3, <2>4, <2>5 DEF PromptNext
<1> QED BY <1>1, <1>2

\* For all characters, whatever their bytes and columns, every buffer and every width of the
\* row: while the line is sound, what hstr_strcat_char_fitting and hstr_chop do to the bytes of
\* the pattern is a step of CharacterLine.  A character is appended whole if it fits and leaves
\* no trace if it does not, and backspace takes a whole one.
THEOREM PromptEditsCharacters == PromptSpec => EditsCharacters
<1> DEFINE Edits == Sound => (Line!Next \/ UNCHANGED Line!vars) /\ WellFormed(Edited')
<1>1. TypeOK /\ Arriving /\ [PromptNext]_promptVars => [Edits]_promptVars
  <2> SUFFICES ASSUME TypeOK, Arriving, PromptNext, Sound
               PROVE  (Line!Next \/ UNCHANGED Line!vars) /\ WellFormed(Edited')
    BY DEF promptVars
  <2>1. WellFormed(Edited) /\ Edited \in Seq(Byte)
    BY DEF Sound, Edited, TypeOK
  <2>2. keys = <<>> => Edited = pattern /\ key = Line!NoKey
    BY DEF Arriving, Edited, NoKey, Line!NoKey
  <2>3. CASE Press
    <3>1. PICK c \in Character : key' = c /\ keys' = Bytes(c)
      BY <2>3 DEF Press
    <3>2. keys' # <<>>
      <4>1. Len(Bytes(c)) \in 1 .. 4
        BY BytesType
      <4> QED BY <3>1, <4>1
    <3>3. Edited' = Edited /\ width' = width
      BY <2>2, <2>3, <3>2 DEF Edited, Press
    <3>4. Line!Press(c)
      BY <2>2, <2>3, <3>1, <3>3 DEF Line!Press, Press
    <3> QED BY <2>1, <3>3, <3>4 DEF Line!Next
  <2>4. CASE Type
    <3>1. Edited = earlier /\ earlier' = earlier /\ width' = width
      BY <2>4 DEF Type, Edited
    <3>2. CASE keys' # <<>> /\ key' = key
      <4>1. Edited' = Edited
        BY <3>1, <3>2 DEF Edited
      <4> QED BY <2>1, <3>1, <3>2, <4>1 DEF Line!vars
    <3>3. CASE /\ keys' = <<>> /\ key' = NoKey /\ key \in Character
               /\ Sound => pattern' = IF Line!ColumnsOf(TextOf(earlier)) + CharWidth(key) <= width
                                      THEN earlier \o Bytes(key) ELSE earlier
      <4>1. key # Line!NoKey /\ key' = Line!NoKey
        BY <3>3, NoKeyAssumption DEF NoKey, Line!NoKey
      <4>2. Edited' = IF Line!ColumnsOf(TextOf(Edited)) + CharWidth(key) <= width
                      THEN Edited \o Bytes(key) ELSE Edited
        BY <3>1, <3>3 DEF Edited
      <4>3. /\ TextOf(Edited \o Bytes(key)) = Append(TextOf(Edited), key)
            /\ WellFormed(Edited \o Bytes(key))
        BY <2>1, <3>3, TextOfOneMore, WellFormedMore
      <4>4. TextOf(Edited') = IF Line!ColumnsOf(TextOf(Edited)) + CharWidth(key) <= width
                              THEN Append(TextOf(Edited), key) ELSE TextOf(Edited)
        BY <4>2, <4>3
      <4>5. Line!Insert
        BY <3>1, <4>1, <4>4 DEF Line!Insert
      <4> QED BY <2>1, <4>2, <4>3, <4>5 DEF Line!Next
    <3> QED BY <2>4, <3>2, <3>3, TypeStep
  <2>5. CASE Backspace
    <3>1. keys = <<>> /\ keys' = <<>> /\ key' = key /\ width' = width /\ Edited # <<>>
          /\ Edited' = Chop(Edited)
      BY <2>5 DEF Backspace, Edited
    <3>2. /\ WellFormed(Chop(Edited)) /\ TextOf(Edited) # <<>>
          /\ TextOf(Chop(Edited)) = Line!Front(TextOf(Edited))
      BY <2>1, <3>1, WellFormedLess
    <3>3. Line!Backspace
      BY <2>2, <3>1, <3>2 DEF Line!Backspace
    <3> QED BY <3>1, <3>2, <3>3 DEF Line!Next
  <2>6. CASE ClearPattern
    <3>1. keys = <<>> /\ keys' = <<>> /\ key' = key /\ width' = width /\ Edited' = <<>>
      BY <2>6 DEF ClearPattern, Edited
    <3>2. TextOf(<<>>) = <<>>
      <4>1. [n \in DOMAIN <<>> |-> IF <<>>[n] = Continuation THEN <<>> ELSE <<(<<>>[n])>>] = <<>>
        OBVIOUS
      <4>2. FlattenSeq(<<>>) = <<>>
        BY DEF FlattenSeq
      <4> QED BY <4>1, <4>2 DEF TextOf
    <3>3. WellFormed(<<>>)
      BY <3>2, EncodedNothing DEF WellFormed
    <3>4. Line!Clear
      BY <2>2, <3>1, <3>2 DEF Line!Clear
    <3> QED BY <3>1, <3>3, <3>4 DEF Line!Next
  <2>7. CASE ResizeTerminal
    <3>1. Edited' = Edited /\ key' = key /\ width' = width
      BY <2>7 DEF ResizeTerminal, Edited
    <3> QED BY <2>1, <3>1 DEF Line!vars
  <2> QED BY <2>3, <2>4, <2>5, <2>6, <2>7 DEF PromptNext
<1> QED BY PromptTypes, ArrivingHolds, <1>1, PTL DEF PromptSpec, EditsCharacters

-----------------------------------------------------------------------------
\* The bytes of s from offset a up to b.
Part(s, a, b) == SubSeq(s, a + 1, b)

\* A part is a string too.
LEMMA PartType ==
    ASSUME NEW S, NEW s \in Seq(S), NEW b \in 0 .. Len(s), NEW a \in 0 .. b
    PROVE  /\ Part(s, a, b) \in Seq(S) /\ Len(Part(s, a, b)) = b - a
           /\ \A m \in 1 .. b - a : Part(s, a, b)[m] = s[a + m]
<1>1. \A m \in a + 1 .. b : s[m] \in S
  OBVIOUS
<1>2. a + 1 \in Int /\ b \in Int /\ b - (a + 1) + 1 = b - a
  OBVIOUS
<1>3. /\ SubSeq(s, a + 1, b) \in Seq(S)
      /\ Len(SubSeq(s, a + 1, b)) = IF a + 1 <= b THEN b - (a + 1) + 1 ELSE 0
      /\ \A m \in 1 .. b - (a + 1) + 1 : SubSeq(s, a + 1, b)[m] = s[a + 1 + m - 1]
  BY <1>1, <1>2, SubSeqProperties
<1>4. (IF a + 1 <= b THEN b - (a + 1) + 1 ELSE 0) = b - a
  OBVIOUS
<1>5. \A m \in 1 .. b - a : a + 1 + m - 1 = a + m
  OBVIOUS
<1> QED BY <1>2, <1>3, <1>4, <1>5 DEF Part

\* Two parts that adjoin are one.
LEMMA PartsJoin ==
    ASSUME NEW S, NEW s \in Seq(S), NEW c \in 0 .. Len(s), NEW b \in 0 .. c, NEW a \in 0 .. b
    PROVE  Part(s, a, c) = Part(s, a, b) \o Part(s, b, c)
<1> DEFINE x == Part(s, a, b)
           y == Part(s, b, c)
           z == Part(s, a, c)
<1>0. Len(s) \in Nat /\ a \in Nat /\ b \in Nat /\ c \in Nat /\ a <= b /\ b <= c /\ c <= Len(s)
  OBVIOUS
<1>r. /\ b \in 0 .. Len(s) /\ a \in 0 .. b /\ c \in 0 .. Len(s) /\ b \in 0 .. c /\ a \in 0 .. c
  BY <1>0
<1>1. x \in Seq(S) /\ Len(x) = b - a /\ \A m \in 1 .. b - a : x[m] = s[a + m]
  BY <1>r, PartType, Zenon
<1>2. y \in Seq(S) /\ Len(y) = c - b /\ \A m \in 1 .. c - b : y[m] = s[b + m]
  BY <1>r, PartType, Zenon
<1>3. z \in Seq(S) /\ Len(z) = c - a /\ \A m \in 1 .. c - a : z[m] = s[a + m]
  BY <1>r, PartType, Zenon
<1> HIDE DEF x, y, z
<1>4. /\ x \o y \in Seq(S) /\ Len(x \o y) = Len(x) + Len(y)
      /\ \A m \in 1 .. Len(x) : (x \o y)[m] = x[m]
      /\ \A m \in 1 .. Len(y) : (x \o y)[Len(x) + m] = y[m]
  <2>1. x \in Seq(S) /\ y \in Seq(S)
    BY <1>1, <1>2
  <2> QED BY <2>1, JoinProperties
<1>5. Len(x \o y) = Len(z)
  BY <1>0, <1>1, <1>2, <1>3, <1>4
<1>6. ASSUME NEW m \in 1 .. Len(z) PROVE z[m] = (x \o y)[m]
  <2>1. CASE m <= b - a
    <3>1. m \in 1 .. b - a /\ m \in 1 .. c - a /\ m \in 1 .. Len(x)
      BY <1>0, <1>1, <1>3, <2>1
    <3> QED BY <1>1, <1>3, <1>4, <3>1
  <2>2. CASE m > b - a
    <3> DEFINE k == m - (b - a)
    <3>1. k \in 1 .. c - b /\ k \in 1 .. Len(y) /\ Len(x) + k = m /\ b + k = a + m /\ m \in 1 .. c - a
      BY <1>0, <1>1, <1>2, <1>3, <2>2
    <3> HIDE DEF k
    <3> QED BY <1>2, <1>3, <1>4, <3>1
  <2>3. m <= b - a \/ m > b - a
    BY <1>0, <1>3
  <2> QED BY <2>1, <2>2, <2>3, Zenon
<1>7. z = x \o y
  BY <1>3, <1>4, <1>5, <1>6, SeqEqual
<1> QED BY <1>7 DEF x, y, z

\* A part of a part is a part of the whole.
LEMMA PartOfPart ==
    ASSUME NEW S, NEW s \in Seq(S), NEW c \in 0 .. Len(s), NEW a \in 0 .. c,
           NEW j \in 0 .. c - a, NEW i \in 0 .. j
    PROVE  Part(Part(s, a, c), i, j) = Part(s, a + i, a + j)
<1> DEFINE x == Part(s, a, c)
           y == Part(x, i, j)
           z == Part(s, a + i, a + j)
<1>0. /\ Len(s) \in Nat /\ a \in Nat /\ c \in Nat /\ i \in Nat /\ j \in Nat /\ i <= j
      /\ a + j <= c /\ c <= Len(s)
  OBVIOUS
<1>1. x \in Seq(S) /\ Len(x) = c - a /\ \A m \in 1 .. c - a : x[m] = s[a + m]
  BY PartType, Zenon
<1> HIDE DEF x
<1>2. y \in Seq(S) /\ Len(y) = j - i /\ \A m \in 1 .. j - i : y[m] = x[i + m]
  <2>1. j \in 0 .. Len(x) /\ i \in 0 .. j
    BY <1>0, <1>1
  <2> QED BY <1>1, <2>1, PartType, Zenon
<1>3. z \in Seq(S) /\ Len(z) = j - i /\ \A m \in 1 .. j - i : z[m] = s[a + i + m]
  <2>1. a + j \in 0 .. Len(s) /\ a + i \in 0 .. a + j /\ (a + j) - (a + i) = j - i
    BY <1>0
  <2>2. /\ z \in Seq(S) /\ Len(z) = (a + j) - (a + i)
        /\ \A m \in 1 .. (a + j) - (a + i) : z[m] = s[a + i + m]
    BY <2>1, PartType, Zenon
  <2> QED BY <2>1, <2>2
<1> HIDE DEF y, z
<1>4. ASSUME NEW m \in 1 .. Len(y) PROVE y[m] = z[m]
  <2>1. m \in 1 .. j - i /\ i + m \in 1 .. c - a /\ a + (i + m) = a + i + m
    BY <1>0, <1>2
  <2> QED BY <1>1, <1>2, <1>3, <2>1
<1>5. y = z
  BY <1>2, <1>3, <1>4, SeqEqual
<1> QED BY <1>5 DEF x, y, z

\* What is put behind a string does not change the parts before.
LEMMA PartOfJoin ==
    ASSUME NEW S, NEW s \in Seq(S), NEW t \in Seq(S), NEW n \in 0 .. Len(s)
    PROVE  /\ Part(s \o t, 0, n) = Part(s, 0, n)
           /\ Part(s \o t, n, Len(s \o t)) = Part(s, n, Len(s)) \o t
<1> DEFINE w == s \o t
           x == Part(w, 0, n)
           y == Part(s, 0, n)
           z == Part(w, n, Len(w))
           u == Part(s, n, Len(s))
<1>0. Len(s) \in Nat /\ Len(t) \in Nat /\ n \in Nat /\ n <= Len(s)
  OBVIOUS
<1>1. /\ w \in Seq(S) /\ Len(w) = Len(s) + Len(t)
      /\ \A m \in 1 .. Len(s) : w[m] = s[m]
      /\ \A m \in 1 .. Len(t) : w[Len(s) + m] = t[m]
  BY JoinProperties
<1> HIDE DEF w
<1>2. x \in Seq(S) /\ Len(x) = n /\ \A m \in 1 .. n : x[m] = w[m]
  <2>1. n \in 0 .. Len(w) /\ 0 \in 0 .. n /\ n - 0 = n /\ \A m \in 1 .. n : 0 + m = m
    BY <1>0, <1>1
  <2>2. x \in Seq(S) /\ Len(x) = n - 0 /\ \A m \in 1 .. n - 0 : x[m] = w[0 + m]
    BY <1>1, <2>1, PartType, Zenon
  <2> HIDE DEF x
  <2> QED BY <2>1, <2>2
<1>3. y \in Seq(S) /\ Len(y) = n /\ \A m \in 1 .. n : y[m] = s[m]
  <2>1. n \in 0 .. Len(s) /\ 0 \in 0 .. n /\ n - 0 = n /\ \A m \in 1 .. n : 0 + m = m
    BY <1>0
  <2>2. y \in Seq(S) /\ Len(y) = n - 0 /\ \A m \in 1 .. n - 0 : y[m] = s[0 + m]
    BY <2>1, PartType, Zenon
  <2> HIDE DEF y
  <2> QED BY <2>1, <2>2
<1>4. z \in Seq(S) /\ Len(z) = Len(w) - n /\ \A m \in 1 .. Len(w) - n : z[m] = w[n + m]
  <2>1. Len(w) \in 0 .. Len(w) /\ n \in 0 .. Len(w)
    BY <1>0, <1>1
  <2> QED BY <1>1, <2>1, PartType, Zenon
<1>5. u \in Seq(S) /\ Len(u) = Len(s) - n /\ \A m \in 1 .. Len(s) - n : u[m] = s[n + m]
  <2>1. Len(s) \in 0 .. Len(s) /\ n \in 0 .. Len(s)
    BY <1>0
  <2> QED BY <2>1, PartType, Zenon
<1> HIDE DEF x, y, z, u
<1>6. x = y
  <2>1. \A m \in 1 .. n : x[m] = y[m]
    BY <1>0, <1>1, <1>2, <1>3
  <2> QED BY <1>2, <1>3, <2>1, SeqEqual
<1>7. /\ u \o t \in Seq(S) /\ Len(u \o t) = Len(u) + Len(t)
      /\ \A m \in 1 .. Len(u) : (u \o t)[m] = u[m]
      /\ \A m \in 1 .. Len(t) : (u \o t)[Len(u) + m] = t[m]
  <2>1. u \in Seq(S) /\ t \in Seq(S)
    BY <1>5
  <2> QED BY <2>1, JoinProperties
<1>8. Len(u \o t) = Len(z)
  BY <1>0, <1>1, <1>4, <1>5, <1>7
<1>9. ASSUME NEW m \in 1 .. Len(z) PROVE z[m] = (u \o t)[m]
  <2>1. CASE m <= Len(s) - n
    <3>1. m \in 1 .. Len(s) - n /\ m \in 1 .. Len(u) /\ n + m \in 1 .. Len(s) /\ m \in 1 .. Len(w) - n
      BY <1>0, <1>1, <1>4, <1>5, <2>1
    <3> QED BY <1>1, <1>4, <1>5, <1>7, <3>1
  <2>2. CASE m > Len(s) - n
    <3> DEFINE k == m - (Len(s) - n)
    <3>1. k \in 1 .. Len(t) /\ Len(u) + k = m /\ Len(s) + k = n + m /\ m \in 1 .. Len(w) - n
      BY <1>0, <1>1, <1>4, <1>5, <2>2
    <3> HIDE DEF k
    <3> QED BY <1>1, <1>4, <1>7, <3>1
  <2>3. m <= Len(s) - n \/ m > Len(s) - n
    BY <1>0, <1>1, <1>4
  <2> QED BY <2>1, <2>2, <2>3, Zenon
<1>10. z = u \o t
  BY <1>4, <1>7, <1>8, <1>9, SeqEqual
<1> QED BY <1>6, <1>10 DEF w, x, y, z, u

\* Between two characters of a string of characters ...
Boundary(s, n) == n = Len(s) \/ s[n + 1] # Continuation
\* ... it can be cut into two, and the next such place is not far.
Splits(s, n) ==
    \E x, y \in Seq(Character) : Part(s, 0, n) = Encoded(x) /\ Part(s, n, Len(s)) = Encoded(y)
Regular(s) ==
    /\ Boundary(s, 0)
    /\ \A n \in 0 .. Len(s) : Boundary(s, n) =>
         /\ Splits(s, n)
         /\ n < Len(s) => \E m \in n + 1 .. Len(s) : m <= n + MaxBytes /\ Boundary(s, m)

\* The whole of a string is a part of it, and so is nothing.
LEMMA WholeAndNothing ==
    ASSUME NEW S, NEW s \in Seq(S)
    PROVE  Part(s, 0, Len(s)) = s /\ \A n \in 0 .. Len(s) : Part(s, n, n) = <<>>
<1>1. Part(s, 0, Len(s)) = s
  BY SubSeqFull DEF Part
<1>2. ASSUME NEW n \in 0 .. Len(s) PROVE Part(s, n, n) = <<>>
  <2>1. n + 1 \in Int /\ n \in Int /\ n < n + 1
    OBVIOUS
  <2> QED BY <2>1, SubSeqEmpty DEF Part
<1> QED BY <1>1, <1>2

\* A character more keeps it so.
LEMMA RegularAppend ==
    ASSUME NEW s \in Seq(Byte), Regular(s), NEW c \in Character
    PROVE  Regular(s \o Bytes(c))
<1> DEFINE bs == Bytes(c)
           k == CharLength(c)
           a == Len(s)
           t == s \o bs
<1>1. /\ bs \in Seq(Byte) /\ Len(bs) = k /\ k \in 1 .. 4 /\ bs[1] = c
      /\ c # Continuation /\ \A m \in 2 .. k : bs[m] = Continuation
  BY BytesType
<1> HIDE DEF bs, k
<1>2. /\ t \in Seq(Byte) /\ Len(t) = a + k /\ a \in Nat
      /\ (\A m \in 1 .. a : t[m] = s[m]) /\ \A m \in 1 .. k : t[a + m] = bs[m]
  BY <1>1, JoinProperties
<1>3. ASSUME NEW n \in 0 .. a
      PROVE  Part(t, 0, n) = Part(s, 0, n) /\ Part(t, n, Len(t)) = Part(s, n, a) \o bs
  BY <1>1, PartOfJoin
<1>4. \A x \in Seq(Character) : Append(x, c) \in Seq(Character) /\ Encoded(Append(x, c)) = Encoded(x) \o bs
  BY EncodedAppend DEF bs
<1>5. Part(s, 0, a) = s /\ Part(s, a, a) = <<>> /\ Part(t, 0, Len(t)) = t
      /\ Part(t, Len(t), Len(t)) = <<>>
  <2>1. a \in 0 .. a /\ Len(t) \in 0 .. Len(t)
    BY <1>1, <1>2
  <2> HIDE DEF t
  <2> QED BY <1>2, <2>1, WholeAndNothing
<1>6. <<>> \in Seq(Character) /\ Encoded(<<>>) = <<>> /\ <<>> \o bs = bs
  BY <1>1, EncodedNothing, ConcatEmptySeq
<1>7. PICK whole \in Seq(Character) : s = Encoded(whole)
  <2>1. Splits(s, a)
    <3>1. a \in 0 .. Len(s) /\ Boundary(s, a)
      BY <1>2 DEF Boundary
    <3> QED BY <3>1 DEF Regular
  <2> QED BY <1>5, <2>1 DEF Splits
<1> HIDE DEF t, a
<1>8. Boundary(t, a) /\ Boundary(t, a + k)
  <2>1. 1 \in 1 .. k /\ t[a + 1] = c
    BY <1>1, <1>2
  <2> QED BY <1>1, <1>2, <2>1 DEF Boundary
<1>9. ASSUME NEW n \in 0 .. a, n < a
      PROVE  Boundary(t, n) <=> Boundary(s, n)
  <2>1. n + 1 \in 1 .. a /\ n # a /\ n # a + k
    BY <1>1, <1>2, <1>9
  <2> QED BY <1>2, <2>1 DEF Boundary, a
<1>10. ASSUME NEW n \in 0 .. Len(t), Boundary(t, n)
       PROVE  /\ Splits(t, n)
              /\ n < Len(t) => \E m \in n + 1 .. Len(t) : m <= n + MaxBytes /\ Boundary(t, m)
  <2>1. CASE n < a
    <3>1. n \in 0 .. a /\ Boundary(s, n)
      BY <1>2, <1>9, <1>10, <2>1
    <3>2. /\ Splits(s, n)
          /\ \E m \in n + 1 .. a : m <= n + MaxBytes /\ Boundary(s, m)
      BY <2>1, <3>1 DEF Regular, a
    <3>3. PICK x \in Seq(Character), y \in Seq(Character) :
              Part(s, 0, n) = Encoded(x) /\ Part(s, n, a) = Encoded(y)
      BY <3>2 DEF Splits, a
    <3>4. Part(t, 0, n) = Encoded(x) /\ Part(t, n, Len(t)) = Encoded(Append(y, c))
          /\ Append(y, c) \in Seq(Character)
      BY <1>3, <1>4, <3>1, <3>3
    <3>5. Splits(t, n)
      BY <3>4 DEF Splits
    <3>6. PICK m \in n + 1 .. a : m <= n + MaxBytes /\ Boundary(s, m)
      BY <3>2
    <3>7. m \in n + 1 .. Len(t) /\ m \in 0 .. a
      BY <1>1, <1>2, <3>1
    <3>8. Boundary(t, m)
      <4>1. CASE m = a
        BY <1>8, <4>1
      <4>2. CASE m # a
        <5>1. m < a
          BY <1>2, <3>7, <4>2
        <5> QED BY <1>9, <3>6, <3>7, <5>1
      <4> QED BY <4>1, <4>2
    <3> QED BY <3>5, <3>6, <3>7, <3>8
  <2>2. CASE n = a
    <3>1. Part(t, 0, n) = Encoded(whole) /\ Part(t, n, Len(t)) = bs
      <4>1. a \in 0 .. a
        BY <1>2
      <4>2. Part(t, 0, a) = s /\ Part(t, a, Len(t)) = <<>> \o bs
        BY <1>3, <1>5, <4>1
      <4> QED BY <1>6, <1>7, <2>2, <4>2
    <3>2. bs = Encoded(Append(<<>>, c)) /\ Append(<<>>, c) \in Seq(Character)
      BY <1>4, <1>6
    <3>3. Splits(t, n)
      BY <3>1, <3>2 DEF Splits
    <3>4. a + k \in n + 1 .. Len(t) /\ a + k <= n + MaxBytes
      BY <1>1, <1>2, <2>2 DEF MaxBytes
    <3> QED BY <1>8, <3>3, <3>4
  <2>3. CASE n > a
    <3>1. n = Len(t)
      <4> SUFFICES ASSUME n # Len(t) PROVE FALSE
        OBVIOUS
      <4>1. (n - a) + 1 \in 2 .. k /\ (n - a) + 1 \in 1 .. k /\ a + ((n - a) + 1) = n + 1
        BY <1>1, <1>2, <2>3
      <4>2. t[n + 1] = Continuation
        BY <1>1, <1>2, <4>1
      <4> QED BY <1>10, <4>2 DEF Boundary
    <3>2. t = Encoded(Append(whole, c)) /\ Append(whole, c) \in Seq(Character)
      BY <1>4, <1>7 DEF t
    <3>3. Splits(t, n)
      BY <1>5, <1>6, <3>1, <3>2 DEF Splits
    <3> QED BY <1>2, <3>1, <3>3
  <2>4. n < a \/ n = a \/ n > a
    BY <1>2
  <2> QED BY <2>1, <2>2, <2>3, <2>4
<1>11. Boundary(t, 0)
  <2>1. CASE a = 0
    BY <1>8, <2>1
  <2>2. CASE a # 0
    <3>1. 0 \in 0 .. a /\ 0 < a /\ Boundary(s, 0)
      BY <1>2, <2>2 DEF Regular
    <3> QED BY <1>9, <3>1
  <2> QED BY <2>1, <2>2
<1> QED BY <1>10, <1>11 DEF Regular, t, bs

\* So every string of characters is.
LEMMA EncodedRegular ==
    ASSUME NEW text \in Seq(Character)
    PROVE  Regular(Encoded(text))
<1> DEFINE n == Len(text)
           First(k) == SubSeq(text, 1, k)
           S == {k \in Nat : k <= n => Regular(Encoded(First(k)))}
<1>1. n \in Nat /\ First(0) = <<>> /\ First(n) = text
  OBVIOUS
<1>2. ASSUME NEW k \in 0 .. n - 1
      PROVE  /\ First(k) \in Seq(Character) /\ text[k + 1] \in Character
             /\ First(k + 1) = Append(First(k), text[k + 1])
  OBVIOUS
<1> HIDE DEF First
<1>3. 0 \in S
  <2> DEFINE none == <<>>
  <2>1. none \in Seq(Byte) /\ Len(none) = 0 /\ none \in Seq(Character) /\ Encoded(none) = none
    BY EncodedNothing
  <2>2. Part(none, 0, 0) = none
    <3>1. 0 \in 0 .. Len(none)
      BY <2>1
    <3> QED BY <2>1, <3>1, WholeAndNothing
  <2>3. First(0) = none
    BY <1>1
  <2> HIDE DEF none
  <2>4. \A m \in 0 .. Len(none) : m = 0
    BY <2>1
  <2>5. Splits(none, 0)
    BY <2>1, <2>2 DEF Splits
  <2>6. Regular(none)
    BY <2>1, <2>4, <2>5 DEF Regular, Boundary
  <2> QED BY <2>1, <2>3, <2>6
<1>4. ASSUME NEW k \in Nat, k \in S PROVE k + 1 \in S
  <2> SUFFICES ASSUME k + 1 <= n PROVE Regular(Encoded(First(k + 1)))
    OBVIOUS
  <2>1. First(k) \in Seq(Character) /\ text[k + 1] \in Character
        /\ First(k + 1) = Append(First(k), text[k + 1]) /\ k <= n
    BY <1>1, <1>2
  <2>2. Encoded(First(k + 1)) = Encoded(First(k)) \o Bytes(text[k + 1])
        /\ Encoded(First(k)) \in Seq(Byte)
    BY <2>1, EncodedAppend, EncodedType
  <2> QED BY <1>4, <2>1, <2>2, RegularAppend
<1>5. n \in S
  <2> HIDE DEF S, n
  <2> QED BY <1>1, <1>3, <1>4, NatSetInduction
<1> QED BY <1>1, <1>5

-----------------------------------------------------------------------------
\* A string of characters is one.
LEMMA WellFormedRegular ==
    ASSUME NEW s \in Seq(Byte), WellFormed(s)
    PROVE  Regular(s)
<1>1. TextOf(s) \in Seq(Character) /\ s = Encoded(TextOf(s))
  BY TextType DEF WellFormed
<1> QED BY <1>1, EncodedRegular

\* Nothing has no columns.
LEMMA NothingIsNarrow == StrWidth(<<>>) = 0
<1> DEFINE none == <<>>
<1>1. none \in Seq(Byte) /\ Len(none) = 0
  OBVIOUS
<1> HIDE DEF none
<1>2. PICK W : IsWidth(W, none)
  BY <1>1, WidthSteps
<1>3. W[0] = WidthStep(W, none, 0) /\ StrWidth(none) = W[0]
  BY <1>1, <1>2 DEF IsWidth
<1>4. StrWidth(none) = 0
  BY <1>1, <1>3 DEF WidthStep
<1> QED BY <1>4 DEF none

\* Between characters the columns of two parts that adjoin add up.
LEMMA WidthsAdd ==
    ASSUME NEW s \in Seq(Byte), Regular(s), NEW c \in 0 .. Len(s), NEW b \in 0 .. c, NEW a \in 0 .. b,
           Boundary(s, a), Boundary(s, b)
    PROVE  /\ WidthOf(s, a, c) = WidthOf(s, a, b) + WidthOf(s, b, c)
           /\ WidthOf(s, a, b) \in Nat /\ WidthOf(s, b, c) \in Nat
<1> DEFINE L == Len(s)
           r == Part(s, a, L)
           rest == Part(s, b, c)
<1>0. L \in Nat /\ a \in Nat /\ b \in Nat /\ c \in Nat /\ a <= b /\ b <= c /\ c <= L
  OBVIOUS
<1>1. a \in 0 .. L /\ b \in 0 .. L /\ L \in 0 .. L /\ b - a \in 0 .. L - a /\ 0 \in 0 .. b - a
      /\ a + 0 = a /\ a + (b - a) = b
  BY <1>0
<1>2. /\ r \in Seq(Byte) /\ Len(r) = L - a
      /\ \A m \in 1 .. L - a : r[m] = s[a + m]
  BY <1>1, PartType, Zenon
<1>3. PICK y \in Seq(Character) : r = Encoded(y)
  <2>1. Splits(s, a)
    BY <1>1 DEF Regular
  <2> QED BY <2>1 DEF Splits
<1>4. Regular(r)
  BY <1>3, EncodedRegular
<1>5. Boundary(r, b - a)
  <2>1. CASE b = L
    BY <1>0, <1>2, <2>1 DEF Boundary
  <2>2. CASE b # L
    <3>1. (b - a) + 1 \in 1 .. L - a /\ a + ((b - a) + 1) = b + 1
      BY <1>0, <2>2
    <3> QED BY <1>2, <2>2, <3>1 DEF Boundary
  <2> QED BY <2>1, <2>2
<1>6. PICK x \in Seq(Character) : Part(r, 0, b - a) = Encoded(x)
  <2>1. b - a \in 0 .. Len(r)
    BY <1>1, <1>2
  <2>2. Splits(r, b - a)
    BY <1>4, <1>5, <2>1 DEF Regular
  <2> QED BY <2>2 DEF Splits
<1>7. Part(s, a, b) = Encoded(x)
  <2>1. Part(Part(s, a, L), 0, b - a) = Part(s, a + 0, a + (b - a))
    BY <1>1, PartOfPart, Zenon
  <2> QED BY <1>1, <1>6, <2>1
<1>8. rest \in Seq(Byte) /\ Part(s, a, b) \in Seq(Byte)
  BY <1>1, PartType, Zenon
<1>9. Part(s, a, c) = Encoded(x) \o rest
  BY <1>1, <1>7, PartsJoin
<1> HIDE DEF rest
<1>10. StrWidth(Encoded(x) \o rest) = Line!ColumnsOf(x) + StrWidth(rest)
  BY <1>8, EncodedWidth
<1>11. StrWidth(Encoded(x)) = Line!ColumnsOf(x) + 0
  <2> DEFINE none == <<>>
  <2>1. none \in Seq(Byte) /\ Encoded(x) \o none = Encoded(x) /\ StrWidth(none) = 0
    BY <1>7, <1>8, ConcatEmptySeq, NothingIsNarrow
  <2> HIDE DEF none
  <2>2. StrWidth(Encoded(x) \o none) = Line!ColumnsOf(x) + StrWidth(none)
    BY <2>1, EncodedWidth
  <2> QED BY <2>1, <2>2
<1>12. Line!ColumnsOf(x) \in Nat
  <2>1. PICK F : IsColumns(F, x)
    BY ColumnSteps
  <2>2. Len(x) \in Nat /\ Len(x) \in 0 .. Len(x)
    OBVIOUS
  <2>3. F \in [0 .. Len(x) -> Nat] /\ Line!ColumnsOf(x) = F[Len(x)]
    BY <2>1, Zenon DEF IsColumns
  <2> QED BY <2>2, <2>3
<1>13. StrWidth(rest) \in Nat /\ StrWidth(Part(s, a, b)) \in Nat
  BY <1>8, WidthType
<1>14. StrWidth(Part(s, a, c)) = StrWidth(Part(s, a, b)) + StrWidth(rest)
  BY <1>7, <1>9, <1>10, <1>11, <1>12, <1>13
<1> QED BY <1>13, <1>14 DEF WidthOf, Part, rest

-----------------------------------------------------------------------------
\* Where the character at an offset may end: next_char_offset takes the first such place.
EndsAt(s, start, n) == n = Len(s) \/ n - start = MaxBytes \/ s[n + 1] # Continuation

\* NextCharOffset is the first of these places behind the offset.
LEMMA NextProperties ==
    ASSUME NEW s \in Seq(Byte), NEW start \in 0 .. Len(s) - 1
    PROVE  /\ NextCharOffset(s, start) \in start + 1 .. Len(s)
           /\ EndsAt(s, start, NextCharOffset(s, start))
           /\ \A m \in start + 1 .. NextCharOffset(s, start) - 1 : ~EndsAt(s, start, m)
<1> DEFINE L == Len(s)
           T == {m \in 1 .. L : m > start /\ EndsAt(s, start, m)}
<1>1. L \in Nat /\ T \in SUBSET (1 .. L) /\ L \in T
  BY DEF EndsAt
<1>2. Min(T) \in T /\ \A m \in T : Min(T) <= m
  <2> HIDE DEF T
  <2> QED BY <1>1, MinIsLeast
<1>3. \E n \in start + 1 .. L : /\ EndsAt(s, start, n)
                                /\ \A m \in start + 1 .. n - 1 : ~EndsAt(s, start, m)
  <2>1. Min(T) \in start + 1 .. L /\ EndsAt(s, start, Min(T))
    BY <1>1, <1>2
  <2>2. ASSUME NEW m \in start + 1 .. Min(T) - 1, EndsAt(s, start, m) PROVE FALSE
    <3>1. m \in 1 .. L /\ m > start /\ m < Min(T)
      BY <1>1, <2>1
    <3>2. m \in T
      BY <2>2, <3>1
    <3>3. Min(T) <= m
      <4> HIDE DEF T
      <4> QED BY <1>2, <3>2
    <3> HIDE DEF T
    <3> QED BY <2>1, <3>1, <3>3
  <2> HIDE DEF T
  <2> QED BY <2>1, <2>2
<1> DEFINE Is(n) == /\ EndsAt(s, start, n)
                    /\ \A m \in start + 1 .. n - 1 : ~EndsAt(s, start, m)
<1>4. NextCharOffset(s, start) = CHOOSE n \in start + 1 .. L : Is(n)
  BY DEF NextCharOffset, EndsAt
<1>5. NextCharOffset(s, start) \in start + 1 .. L /\ Is(NextCharOffset(s, start))
  <2> HIDE DEF Is
  <2>1. \E n \in start + 1 .. L : Is(n)
    BY <1>3 DEF Is
  <2> QED BY <1>4, <2>1
<1> QED BY <1>5

\* In a string of characters that is where the next character begins ...
LEMMA NextBoundary ==
    ASSUME NEW s \in Seq(Byte), Regular(s), NEW start \in 0 .. Len(s) - 1, Boundary(s, start)
    PROVE  /\ Boundary(s, NextCharOffset(s, start))
           /\ \A m \in start + 1 .. NextCharOffset(s, start) - 1 : ~Boundary(s, m)
<1> DEFINE L == Len(s)
           next == NextCharOffset(s, start)
<1>1. /\ next \in start + 1 .. L /\ EndsAt(s, start, next)
      /\ \A m \in start + 1 .. next - 1 : ~EndsAt(s, start, m)
  BY NextProperties
<1>2. \A m \in start + 1 .. next - 1 : ~Boundary(s, m)
  BY <1>1 DEF EndsAt, Boundary
<1>3. PICK m \in start + 1 .. L : m <= start + MaxBytes /\ Boundary(s, m)
  <2>1. start \in 0 .. L /\ start < L
    OBVIOUS
  <2> QED BY <2>1 DEF Regular
<1> HIDE DEF next
<1>4. m >= next
  BY <1>1, <1>2, <1>3
<1>5. CASE next - start = MaxBytes
  <2>1. m = next
    BY <1>1, <1>3, <1>4, <1>5 DEF MaxBytes
  <2> QED BY <1>2, <1>3, <2>1 DEF next
<1>6. CASE next - start # MaxBytes
  BY <1>1, <1>2, <1>6 DEF EndsAt, Boundary, next
<1> QED BY <1>5, <1>6

\* ... and CharStart where the last one does.
LEMMA StartBoundary ==
    ASSUME NEW s \in Seq(Byte), Regular(s), NEW end \in 1 .. Len(s), Boundary(s, end)
    PROVE  /\ Boundary(s, CharStart(s, end))
           /\ \A m \in CharStart(s, end) + 1 .. end - 1 : ~Boundary(s, m)
<1> DEFINE L == Len(s)
           first == CharStart(s, end)
           T == {m \in 1 .. end : Boundary(s, m - 1)}
<1>1. /\ first \in 0 .. end - 1 /\ BeginsAt(s, end, first)
      /\ \A m \in first + 1 .. end - 1 : ~BeginsAt(s, end, m)
  BY CharStartProperties
<1>2. \A m \in first + 1 .. end - 1 : ~Boundary(s, m)
  BY <1>1 DEF BeginsAt, Boundary
<1>3. L \in Nat /\ end \in Nat /\ end <= L /\ Boundary(s, 0)
  BY DEF Regular
<1>4. T \in SUBSET (1 .. end) /\ 1 \in T
  BY <1>3
<1>5. Max(T) \in T /\ \A m \in T : Max(T) >= m
  <2> HIDE DEF T
  <2> QED BY <1>3, <1>4, MaxIsInside
<1>6. Max(T) \in 1 .. end /\ Boundary(s, Max(T) - 1)
  BY <1>5
<1>7. \A m \in 0 .. end - 1 : Boundary(s, m) => m <= Max(T) - 1
  <2> SUFFICES ASSUME NEW m \in 0 .. end - 1, Boundary(s, m) PROVE m <= Max(T) - 1
    OBVIOUS
  <2>1. m + 1 \in 1 .. end /\ (m + 1) - 1 = m
    BY <1>3
  <2>2. m + 1 \in T
    BY <2>1
  <2>3. Max(T) >= m + 1
    <3> HIDE DEF T
    <3> QED BY <1>5, <2>2
  <2> HIDE DEF T
  <2> QED BY <1>6, <2>3
<1> HIDE DEF first, T
<1>8. PICK g \in 0 .. end - 1 : Boundary(s, g) /\ \A m \in 0 .. end - 1 : Boundary(s, m) => m <= g
  <2>1. Max(T) - 1 \in 0 .. end - 1
    BY <1>3, <1>6
  <2> QED BY <1>6, <1>7, <2>1
<1>9. Boundary(s, first)
  <2> SUFFICES ASSUME ~Boundary(s, first) PROVE FALSE
    OBVIOUS
  <2>1. first # 0 /\ s[first + 1] = Continuation
    BY <1>3 DEF Boundary
  <2>2. end - first = MaxBytes
    BY <1>1, <2>1 DEF BeginsAt
  <2>3. g < first
    <3>1. g # first /\ ~(g \in first + 1 .. end - 1)
      BY <1>2, <1>8
    <3> QED BY <1>1, <1>3, <3>1
  <2>4. PICK m \in g + 1 .. L : m <= g + MaxBytes /\ Boundary(s, m)
    <3>1. g \in 0 .. L /\ g < L
      BY <1>3
    <3> QED BY <1>8, <3>1 DEF Regular
  <2>5. m \in 0 .. end - 1 /\ m > g
    BY <1>1, <1>3, <2>2, <2>3, <2>4 DEF MaxBytes
  <2> QED BY <1>8, <2>4, <2>5
<1> QED BY <1>2, <1>9 DEF first

-----------------------------------------------------------------------------
\* The loops of prefix_fitting and suffix_fitting: q has the offset they have come to and the
\* columns up to there; On is the next one, and they stop where it would be too much.
Places(s) == (0 .. Len(s)) \X Nat
PrefixOn(s, q) ==
    <<NextCharOffset(s, q[1]), q[2] + WidthOf(s, q[1], NextCharOffset(s, q[1]))>>
PrefixStops(s, maxWidth, maxBytes, q) ==
    q[1] = Len(s) \/ PrefixOn(s, q)[2] > maxWidth \/ PrefixOn(s, q)[1] > maxBytes
SuffixOn(s, q) ==
    <<CharStart(s, q[1]), q[2] + WidthOf(s, CharStart(s, q[1]), q[1])>>
SuffixStops(s, maxWidth, maxBytes, q) ==
    q[1] = 0 \/ SuffixOn(s, q)[2] > maxWidth \/ Len(s) - SuffixOn(s, q)[1] > maxBytes

\* A turn of each leads to another place.
LEMMA PlacesOn ==
    ASSUME NEW s \in Seq(Byte), NEW q \in Places(s)
    PROVE  /\ q[1] < Len(s) => PrefixOn(s, q) \in Places(s) /\ PrefixOn(s, q)[1] > q[1]
           /\ q[1] > 0 => SuffixOn(s, q) \in Places(s) /\ SuffixOn(s, q)[1] < q[1]
<1> DEFINE L == Len(s)
<1>0. L \in Nat /\ q[1] \in 0 .. L /\ q[2] \in Nat
  BY DEF Places
<1>1. \A b \in 0 .. L : \A a \in 0 .. b : WidthOf(s, a, b) \in Nat
  <2> SUFFICES ASSUME NEW b \in 0 .. L, NEW a \in 0 .. b PROVE WidthOf(s, a, b) \in Nat
    OBVIOUS
  <2>1. SubSeq(s, a + 1, b) \in Seq(Byte)
    BY PartType DEF Part
  <2> QED BY <2>1, WidthType DEF WidthOf
<1>2. ASSUME q[1] < L PROVE PrefixOn(s, q) \in Places(s) /\ PrefixOn(s, q)[1] > q[1]
  <2>1. q[1] \in 0 .. L - 1
    BY <1>0, <1>2
  <2>2. NextCharOffset(s, q[1]) \in q[1] + 1 .. L
    BY <2>1, NextProperties
  <2>3. NextCharOffset(s, q[1]) \in 0 .. L /\ q[1] \in 0 .. NextCharOffset(s, q[1])
        /\ NextCharOffset(s, q[1]) > q[1]
    BY <1>0, <2>2
  <2>4. WidthOf(s, q[1], NextCharOffset(s, q[1])) \in Nat
    BY <1>1, <2>3
  <2> DEFINE at == NextCharOffset(s, q[1])
             wide == WidthOf(s, q[1], NextCharOffset(s, q[1]))
  <2>5. PrefixOn(s, q) = <<at, q[2] + wide>>
    BY DEF PrefixOn
  <2> HIDE DEF at, wide
  <2>6. at \in 0 .. L /\ q[2] + wide \in Nat /\ at > q[1]
    BY <1>0, <2>3, <2>4 DEF at, wide
  <2>7. PrefixOn(s, q) \in Places(s)
    BY <2>5, <2>6 DEF Places
  <2>8. PrefixOn(s, q)[1] = at
    BY <2>5
  <2> QED BY <2>6, <2>7, <2>8
<1>3. ASSUME q[1] > 0 PROVE SuffixOn(s, q) \in Places(s) /\ SuffixOn(s, q)[1] < q[1]
  <2>1. q[1] \in 1 .. L
    BY <1>0, <1>3
  <2>2. CharStart(s, q[1]) \in 0 .. q[1] - 1
    BY <2>1, CharStartProperties
  <2>3. CharStart(s, q[1]) \in 0 .. L /\ CharStart(s, q[1]) \in 0 .. q[1]
        /\ CharStart(s, q[1]) < q[1]
    BY <1>0, <2>2
  <2>4. WidthOf(s, CharStart(s, q[1]), q[1]) \in Nat
    BY <1>0, <1>1, <2>3
  <2> DEFINE at == CharStart(s, q[1])
             wide == WidthOf(s, CharStart(s, q[1]), q[1])
  <2>5. SuffixOn(s, q) = <<at, q[2] + wide>>
    BY DEF SuffixOn
  <2> HIDE DEF at, wide
  <2>6. at \in 0 .. L /\ q[2] + wide \in Nat /\ at < q[1]
    BY <1>0, <2>3, <2>4 DEF at, wide
  <2>7. SuffixOn(s, q) \in Places(s)
    BY <2>5, <2>6 DEF Places
  <2>8. SuffixOn(s, q)[1] = at
    BY <2>5
  <2> QED BY <2>6, <2>7, <2>8
<1>4. (q[1] < L => PrefixOn(s, q) \in Places(s) /\ PrefixOn(s, q)[1] > q[1])
  BY <1>0, <1>2
<1>5. (q[1] > 0 => SuffixOn(s, q) \in Places(s) /\ SuffixOn(s, q)[1] < q[1])
  BY <1>0, <1>3
<1> QED BY <1>4, <1>5

\* prefix_fitting ends where a turn would be too much, and what each turn keeps holds there.
LEMMA PrefixKeeps ==
    ASSUME NEW s \in Seq(Byte), NEW maxWidth \in Int, NEW maxBytes \in Int,
           NEW Kept \in SUBSET Places(s), <<0, 0>> \in Kept,
           \A q \in Kept : ~PrefixStops(s, maxWidth, maxBytes, q) => PrefixOn(s, q) \in Kept
    PROVE  \E q \in Kept : /\ PrefixStops(s, maxWidth, maxBytes, q)
                           /\ PrefixFitting(s, maxWidth, maxBytes) = q[1]
<1> DEFINE L == Len(s)
           Q == Places(s)
           Stops == {q \in Q : PrefixStops(s, maxWidth, maxBytes, q)}
           onwards == [q \in Q |-> IF q \in Stops THEN q ELSE PrefixOn(s, q)]
           left == [q \in Q |-> L - q[1]]
           result == [q \in Q |-> q[1]]
           Is(f) == f = [q \in Q |-> IF PrefixStops(s, maxWidth, maxBytes, q) THEN q[1]
                                     ELSE f[PrefixOn(s, q)]]
<1>0. L \in Nat /\ \A q \in Q : q[1] \in 0 .. L
  BY DEF Places
<1>1. ASSUME NEW q \in Q, q \notin Stops PROVE PrefixOn(s, q) \in Q /\ PrefixOn(s, q)[1] > q[1]
  <2>1. q[1] < L
    BY <1>0, <1>1 DEF PrefixStops
  <2> QED BY <2>1, PlacesOn
<1>2. IsLoop(Q, Stops, onwards, left, L)
  <2>1. \A q \in Q : onwards[q] \in Q
    BY <1>1
  <2>2. \A q \in Q : left[q] \in 0 .. L
    BY <1>0
  <2>3. ASSUME NEW q \in Q, q \notin Stops PROVE left[onwards[q]] < left[q]
    <3>1. onwards[q] = PrefixOn(s, q) /\ PrefixOn(s, q) \in Q /\ PrefixOn(s, q)[1] > q[1]
      BY <1>1, <2>3
    <3>2. left[onwards[q]] = L - PrefixOn(s, q)[1] /\ left[q] = L - q[1]
      BY <3>1
    <3> QED BY <1>0, <3>1, <3>2
  <2> QED BY <2>1, <2>2, <2>3 DEF IsLoop
<1>3. PrefixFitting(s, maxWidth, maxBytes) = (CHOOSE f : Is(f))[<<0, 0>>]
  BY DEF PrefixFitting, PrefixStops, PrefixOn, Places
<1>4. \A f : Is(f) <=> Runs(f, Q, Stops, onwards, result)
  <2> SUFFICES ASSUME NEW f
               PROVE  Is(f) <=> Runs(f, Q, Stops, onwards, result)
    OBVIOUS
  <2>1. \A q \in Q : (IF PrefixStops(s, maxWidth, maxBytes, q) THEN q[1] ELSE f[PrefixOn(s, q)])
                     = IF q \in Stops THEN result[q] ELSE f[onwards[q]]
    OBVIOUS
  <2>2. [q \in Q |-> IF PrefixStops(s, maxWidth, maxBytes, q) THEN q[1] ELSE f[PrefixOn(s, q)]]
        = [q \in Q |-> IF q \in Stops THEN result[q] ELSE f[onwards[q]]]
    <3> HIDE DEF Q, Stops, onwards, result
    <3> QED BY <2>1
  <2> HIDE DEF Q, Stops, onwards, result
  <2> QED BY <2>2 DEF Runs
<1> DEFINE F == CHOOSE f : Is(f)
<1>5. Runs(F, Q, Stops, onwards, result)
  <2> HIDE DEF Is, Q, Stops, onwards, result, left
  <2>1. \E f : Is(f)
    <3>1. \E f : Runs(f, Q, Stops, onwards, result)
      BY <1>0, <1>2, LoopExists
    <3> QED BY <1>4, <3>1
  <2> QED BY <1>4, <2>1
<1>6. \A q \in Kept : q \notin Stops => onwards[q] \in Kept
  OBVIOUS
<1>7. \E q \in Kept : q \in Stops /\ F[<<0, 0>>] = result[q]
  <2> HIDE DEF F, Q, Stops, onwards, result, left, L
  <2>1. Kept \in SUBSET Q
    BY DEF Q
  <2> QED BY <1>0, <1>2, <1>5, <1>6, <2>1, LoopKeeps
<1> QED BY <1>3, <1>7

\* The same of the first loop of suffix_fitting.
LEMMA SuffixKeeps ==
    ASSUME NEW s \in Seq(Byte), NEW maxWidth \in Int, NEW maxBytes \in Int,
           NEW Kept \in SUBSET Places(s), <<Len(s), 0>> \in Kept,
           \A q \in Kept : ~SuffixStops(s, maxWidth, maxBytes, q) => SuffixOn(s, q) \in Kept
    PROVE  \E q \in Kept : /\ SuffixStops(s, maxWidth, maxBytes, q)
                           /\ SuffixStart(s, maxWidth, maxBytes) = q[1]
<1> DEFINE L == Len(s)
           Q == Places(s)
           Stops == {q \in Q : SuffixStops(s, maxWidth, maxBytes, q)}
           onwards == [q \in Q |-> IF q \in Stops THEN q ELSE SuffixOn(s, q)]
           left == [q \in Q |-> q[1]]
           result == [q \in Q |-> q[1]]
           Is(f) == f = [q \in Q |-> IF SuffixStops(s, maxWidth, maxBytes, q) THEN q[1]
                                     ELSE f[SuffixOn(s, q)]]
<1>0. L \in Nat /\ \A q \in Q : q[1] \in 0 .. L
  BY DEF Places
<1>1. ASSUME NEW q \in Q, q \notin Stops PROVE SuffixOn(s, q) \in Q /\ SuffixOn(s, q)[1] < q[1]
  <2>1. q[1] > 0
    BY <1>0, <1>1 DEF SuffixStops
  <2> QED BY <2>1, PlacesOn
<1>2. IsLoop(Q, Stops, onwards, left, L)
  <2>1. \A q \in Q : onwards[q] \in Q
    BY <1>1
  <2>2. \A q \in Q : left[q] \in 0 .. L
    BY <1>0
  <2>3. ASSUME NEW q \in Q, q \notin Stops PROVE left[onwards[q]] < left[q]
    <3>1. onwards[q] = SuffixOn(s, q) /\ SuffixOn(s, q) \in Q /\ SuffixOn(s, q)[1] < q[1]
      BY <1>1, <2>3
    <3>2. left[onwards[q]] = SuffixOn(s, q)[1] /\ left[q] = q[1]
      BY <3>1
    <3> QED BY <1>0, <3>1, <3>2
  <2> QED BY <2>1, <2>2, <2>3 DEF IsLoop
<1>3. SuffixStart(s, maxWidth, maxBytes) = (CHOOSE f : Is(f))[<<L, 0>>]
  BY DEF SuffixStart, SuffixStops, SuffixOn, Places
<1>4. \A f : Is(f) <=> Runs(f, Q, Stops, onwards, result)
  <2> SUFFICES ASSUME NEW f
               PROVE  Is(f) <=> Runs(f, Q, Stops, onwards, result)
    OBVIOUS
  <2>1. \A q \in Q : (IF SuffixStops(s, maxWidth, maxBytes, q) THEN q[1] ELSE f[SuffixOn(s, q)])
                     = IF q \in Stops THEN result[q] ELSE f[onwards[q]]
    OBVIOUS
  <2>2. [q \in Q |-> IF SuffixStops(s, maxWidth, maxBytes, q) THEN q[1] ELSE f[SuffixOn(s, q)]]
        = [q \in Q |-> IF q \in Stops THEN result[q] ELSE f[onwards[q]]]
    <3> HIDE DEF Q, Stops, onwards, result
    <3> QED BY <2>1
  <2> HIDE DEF Q, Stops, onwards, result
  <2> QED BY <2>2 DEF Runs
<1> DEFINE F == CHOOSE f : Is(f)
<1>5. Runs(F, Q, Stops, onwards, result)
  <2> HIDE DEF Is, Q, Stops, onwards, result, left
  <2>1. \E f : Is(f)
    <3>1. \E f : Runs(f, Q, Stops, onwards, result)
      BY <1>0, <1>2, LoopExists
    <3> QED BY <1>4, <3>1
  <2> QED BY <1>4, <2>1
<1>6. \A q \in Kept : q \notin Stops => onwards[q] \in Kept
  OBVIOUS
<1>7. \E q \in Kept : q \in Stops /\ F[<<L, 0>>] = result[q]
  <2> HIDE DEF F, Q, Stops, onwards, result, left
  <2>1. Kept \in SUBSET Q
    BY DEF Q
  <2>2. <<L, 0>> \in Kept
    OBVIOUS
  <2> HIDE DEF L
  <2> QED BY <1>0, <1>2, <1>5, <1>6, <2>1, <2>2, LoopKeeps
<1> QED BY <1>3, <1>7

\* The second loop of suffix_fitting stops at what has columns.
VisibleStops(s, n) == n = Len(s) \/ WidthOf(s, n, NextCharOffset(s, n)) > 0

\* What each of its turns keeps holds where it stops.
LEMMA VisibleKeeps ==
    ASSUME NEW s \in Seq(Byte), NEW maxWidth \in Int, NEW maxBytes \in Int,
           NEW Kept \in SUBSET (0 .. Len(s)), SuffixStart(s, maxWidth, maxBytes) \in Kept,
           \A n \in Kept : ~VisibleStops(s, n) => NextCharOffset(s, n) \in Kept
    PROVE  \E n \in Kept : /\ VisibleStops(s, n)
                           /\ SuffixFitting(s, maxWidth, maxBytes) = Len(s) - n
<1> DEFINE L == Len(s)
           Q == 0 .. L
           Stops == {n \in Q : VisibleStops(s, n)}
           onwards == [n \in Q |-> IF n \in Stops THEN n ELSE NextCharOffset(s, n)]
           left == [n \in Q |-> L - n]
           result == [n \in Q |-> n]
           from == SuffixStart(s, maxWidth, maxBytes)
           Is(f) == f = [n \in Q |-> IF VisibleStops(s, n) THEN n ELSE f[NextCharOffset(s, n)]]
<1>0. L \in Nat
  OBVIOUS
<1>1. ASSUME NEW n \in Q, n \notin Stops
      PROVE  NextCharOffset(s, n) \in Q /\ NextCharOffset(s, n) > n
  <2>1. n \in 0 .. L - 1
    BY <1>0, <1>1 DEF VisibleStops
  <2>2. NextCharOffset(s, n) \in n + 1 .. L
    BY <2>1, NextProperties
  <2> QED BY <1>0, <2>1, <2>2
<1>2. IsLoop(Q, Stops, onwards, left, L)
  <2>1. \A n \in Q : onwards[n] \in Q
    BY <1>1
  <2>2. \A n \in Q : left[n] \in 0 .. L
    BY <1>0
  <2>3. ASSUME NEW n \in Q, n \notin Stops PROVE left[onwards[n]] < left[n]
    <3>1. /\ onwards[n] = NextCharOffset(s, n)
          /\ NextCharOffset(s, n) \in Q /\ NextCharOffset(s, n) > n
      BY <1>1, <2>3
    <3>2. left[onwards[n]] = L - NextCharOffset(s, n) /\ left[n] = L - n
      BY <3>1
    <3> QED BY <1>0, <3>1, <3>2
  <2> QED BY <2>1, <2>2, <2>3 DEF IsLoop
<1>3. SuffixFitting(s, maxWidth, maxBytes) = L - (CHOOSE f : Is(f))[from]
  BY DEF SuffixFitting, VisibleStops
<1>4. \A f : Is(f) <=> Runs(f, Q, Stops, onwards, result)
  <2> SUFFICES ASSUME NEW f
               PROVE  Is(f) <=> Runs(f, Q, Stops, onwards, result)
    OBVIOUS
  <2>1. \A n \in Q : (IF VisibleStops(s, n) THEN n ELSE f[NextCharOffset(s, n)])
                     = IF n \in Stops THEN result[n] ELSE f[onwards[n]]
    OBVIOUS
  <2>2. [n \in Q |-> IF VisibleStops(s, n) THEN n ELSE f[NextCharOffset(s, n)]]
        = [n \in Q |-> IF n \in Stops THEN result[n] ELSE f[onwards[n]]]
    <3> HIDE DEF Q, Stops, onwards, result
    <3> QED BY <2>1
  <2> HIDE DEF Q, Stops, onwards, result
  <2> QED BY <2>2 DEF Runs
<1> DEFINE F == CHOOSE f : Is(f)
<1>5. Runs(F, Q, Stops, onwards, result)
  <2> HIDE DEF Is, Q, Stops, onwards, result, left
  <2>1. \E f : Is(f)
    <3>1. \E f : Runs(f, Q, Stops, onwards, result)
      BY <1>0, <1>2, LoopExists
    <3> QED BY <1>4, <3>1
  <2> QED BY <1>4, <2>1
<1>6. \A n \in Kept : n \notin Stops => onwards[n] \in Kept
  OBVIOUS
<1>7. \E n \in Kept : n \in Stops /\ F[from] = result[n]
  <2> DEFINE K == Kept
  <2> HIDE DEF F, Stops, onwards, result, left
  <2>1. K \in SUBSET Q /\ from \in K
    OBVIOUS
  <2>2. \A n \in K : n \notin Stops => onwards[n] \in K
    BY <1>6
  <2> HIDE DEF L, Q, from, K
  <2>3. \E n \in K : n \in Stops /\ F[from] = result[n]
    BY <1>0, <1>2, <1>5, <2>1, <2>2, LoopKeeps
  <2> QED BY <2>3 DEF K
<1> QED BY <1>3, <1>7

-----------------------------------------------------------------------------
\* The columns of a part are a number, and those of nothing none.
LEMMA PartWidth ==
    ASSUME NEW s \in Seq(Byte), NEW b \in 0 .. Len(s), NEW a \in 0 .. b
    PROVE  WidthOf(s, a, b) \in Nat /\ WidthOf(s, b, b) = 0
<1>1. Part(s, a, b) \in Seq(Byte)
  BY PartType, Zenon
<1>2. Part(s, b, b) = <<>>
  BY WholeAndNothing
<1> QED BY <1>1, <1>2, WidthType, NothingIsNarrow DEF WidthOf, Part

\* prefix_fitting keeps to the bytes, and of characters it keeps the most that fits.
LEMMA PrefixFits ==
    ASSUME NEW s \in Seq(Byte), NEW maxWidth \in Nat, NEW maxBytes \in Nat,
           NEW p, p = PrefixFitting(s, maxWidth, maxBytes)
    PROVE  /\ p \in 0 .. Len(s) /\ p <= maxBytes
           /\ Regular(s) =>
                /\ Boundary(s, p) /\ WidthOf(s, 0, p) <= maxWidth
                /\ p < Len(s) => \/ WidthOf(s, 0, NextCharOffset(s, p)) > maxWidth
                                 \/ NextCharOffset(s, p) > maxBytes
<1> DEFINE L == Len(s)
           Fine(q) == Regular(s) => /\ Boundary(s, q[1]) /\ q[2] = WidthOf(s, 0, q[1])
                                     /\ q[2] <= maxWidth
           Kept == {q \in Places(s) : q[1] <= maxBytes /\ Fine(q)}
<1>0. L \in Nat /\ \A q \in Places(s) : q[1] \in 0 .. L /\ q[2] \in Nat
  BY DEF Places
<1>1. <<0, 0>> \in Kept
  <2> DEFINE at == <<0, 0>>
  <2>1. at \in Places(s) /\ at[1] = 0 /\ at[2] = 0
    BY <1>0 DEF Places
  <2> HIDE DEF at
  <2>2. WidthOf(s, 0, 0) = 0
    <3>1. 0 \in 0 .. L
      BY <1>0
    <3> QED BY <3>1, PartWidth
  <2>3. at \in Kept
    BY <2>1, <2>2 DEF Regular
  <2> QED BY <2>3 DEF at
<1>2. ASSUME NEW q \in Kept, Regular(s), q[1] < L
      PROVE  /\ Boundary(s, NextCharOffset(s, q[1]))
             /\ PrefixOn(s, q)[2] = WidthOf(s, 0, NextCharOffset(s, q[1]))
             /\ PrefixOn(s, q)[1] = NextCharOffset(s, q[1])
  <2> DEFINE a == q[1]
             b == NextCharOffset(s, q[1])
  <2>1. a \in 0 .. L - 1 /\ Boundary(s, a) /\ q[2] = WidthOf(s, 0, a)
    BY <1>0, <1>2
  <2>2. Boundary(s, b) /\ b \in a + 1 .. L
    BY <1>2, <2>1, NextBoundary, NextProperties
  <2>3. PrefixOn(s, q) = <<b, q[2] + WidthOf(s, a, b)>>
    BY DEF PrefixOn
  <2> HIDE DEF a, b
  <2>4. b \in 0 .. L /\ a \in 0 .. b /\ 0 \in 0 .. a /\ Boundary(s, 0)
    BY <1>0, <1>2, <2>1, <2>2 DEF Regular
  <2>5. WidthOf(s, 0, b) = WidthOf(s, 0, a) + WidthOf(s, a, b)
    BY <1>2, <2>1, <2>4, WidthsAdd
  <2>6. PrefixOn(s, q)[1] = b /\ PrefixOn(s, q)[2] = q[2] + WidthOf(s, a, b)
    BY <2>3
  <2> QED BY <2>1, <2>2, <2>5, <2>6 DEF a, b
<1>3. ASSUME NEW q \in Kept, ~PrefixStops(s, maxWidth, maxBytes, q)
      PROVE  PrefixOn(s, q) \in Kept
  <2>1. q[1] < L
    BY <1>0, <1>3 DEF PrefixStops
  <2>2. PrefixOn(s, q) \in Places(s)
    BY <2>1, PlacesOn
  <2>3. PrefixOn(s, q)[1] <= maxBytes /\ PrefixOn(s, q)[2] <= maxWidth
    <3>1. ~(PrefixOn(s, q)[1] > maxBytes) /\ ~(PrefixOn(s, q)[2] > maxWidth)
      BY <1>3 DEF PrefixStops
    <3>2. PrefixOn(s, q)[1] \in Nat /\ PrefixOn(s, q)[2] \in Nat
      BY <1>0, <2>2
    <3> QED BY <3>1, <3>2
  <2>4. Fine(PrefixOn(s, q))
    BY <1>2, <2>1, <2>3
  <2> HIDE DEF Sound
  <2> QED BY <2>2, <2>3, <2>4
<1>4. PICK q \in Kept : PrefixStops(s, maxWidth, maxBytes, q) /\ p = q[1]
  <2>1. Kept \in SUBSET Places(s) /\ maxWidth \in Int /\ maxBytes \in Int
    OBVIOUS
  <2> HIDE DEF Kept
  <2> QED BY <1>1, <1>3, <2>1, PrefixKeeps
<1>5. p \in 0 .. L /\ p <= maxBytes
  BY <1>0, <1>4
<1>6. ASSUME Regular(s)
      PROVE  /\ Boundary(s, p) /\ WidthOf(s, 0, p) <= maxWidth
             /\ p < L => \/ WidthOf(s, 0, NextCharOffset(s, p)) > maxWidth
                         \/ NextCharOffset(s, p) > maxBytes
  <2>1. Boundary(s, p) /\ WidthOf(s, 0, p) <= maxWidth
    BY <1>4, <1>6
  <2>2. ASSUME p < L
        PROVE  \/ WidthOf(s, 0, NextCharOffset(s, p)) > maxWidth
               \/ NextCharOffset(s, p) > maxBytes
    <3>1. /\ PrefixOn(s, q)[2] = WidthOf(s, 0, NextCharOffset(s, p))
          /\ PrefixOn(s, q)[1] = NextCharOffset(s, p)
      BY <1>2, <1>4, <1>6, <2>2
    <3>2. p # L
      BY <1>5, <2>2
    <3> HIDE DEF Kept
    <3> QED BY <1>4, <3>1, <3>2 DEF PrefixStops
  <2> QED BY <2>1, <2>2
<1> HIDE DEF Kept
<1> QED BY <1>5, <1>6

\* So does suffix_fitting, before it passes what has no columns.
LEMMA SuffixFits ==
    ASSUME NEW s \in Seq(Byte), NEW maxWidth \in Int, NEW maxBytes \in Nat,
           NEW start, start = SuffixStart(s, maxWidth, maxBytes)
    PROVE  /\ start \in 0 .. Len(s) /\ Len(s) - start <= maxBytes
           /\ Regular(s) =>
                /\ Boundary(s, start)
                /\ start < Len(s) => WidthOf(s, start, Len(s)) <= maxWidth
                /\ start > 0 => \/ WidthOf(s, CharStart(s, start), Len(s)) > maxWidth
                                \/ Len(s) - CharStart(s, start) > maxBytes
<1> DEFINE L == Len(s)
           Fine(q) == Regular(s) => /\ Boundary(s, q[1]) /\ q[2] = WidthOf(s, q[1], L)
                                    /\ q[1] < L => q[2] <= maxWidth
           Kept == {q \in Places(s) : L - q[1] <= maxBytes /\ Fine(q)}
<1>0. L \in Nat /\ L \in 0 .. L /\ \A q \in Places(s) : q[1] \in 0 .. L /\ q[2] \in Nat
  BY DEF Places
<1>1. <<L, 0>> \in Kept
  <2> DEFINE at == <<L, 0>>
  <2>1. at \in Places(s) /\ at[1] = L /\ at[2] = 0
    BY <1>0 DEF Places
  <2>2. WidthOf(s, L, L) = 0 /\ Boundary(s, L)
    BY <1>0, PartWidth DEF Boundary
  <2> HIDE DEF at, L
  <2>3. L - at[1] <= maxBytes /\ Fine(at)
    BY <1>0, <2>1, <2>2
  <2> HIDE DEF Fine
  <2>4. at \in Kept
    BY <2>1, <2>3
  <2> QED BY <2>4 DEF at
<1>2. ASSUME NEW q \in Kept, Regular(s), q[1] > 0
      PROVE  /\ Boundary(s, CharStart(s, q[1]))
             /\ SuffixOn(s, q)[2] = WidthOf(s, CharStart(s, q[1]), L)
             /\ SuffixOn(s, q)[1] = CharStart(s, q[1])
  <2> DEFINE b == q[1]
             a == CharStart(s, q[1])
  <2>1. b \in 1 .. L /\ Boundary(s, b) /\ q[2] = WidthOf(s, b, L)
    BY <1>0, <1>2
  <2>2. Boundary(s, a) /\ a \in 0 .. b - 1
    BY <1>2, <2>1, StartBoundary, CharStartProperties
  <2>3. SuffixOn(s, q) = <<a, q[2] + WidthOf(s, a, b)>>
    BY DEF SuffixOn
  <2> HIDE DEF a, b
  <2>4. b \in 0 .. L /\ a \in 0 .. b
    BY <1>0, <2>1, <2>2
  <2>5. WidthOf(s, a, L) = WidthOf(s, a, b) + WidthOf(s, b, L)
        /\ WidthOf(s, a, b) \in Nat /\ WidthOf(s, b, L) \in Nat
    BY <1>0, <1>2, <2>1, <2>2, <2>4, WidthsAdd
  <2>6. SuffixOn(s, q)[1] = a /\ SuffixOn(s, q)[2] = q[2] + WidthOf(s, a, b)
    BY <2>3
  <2>7. SuffixOn(s, q)[2] = WidthOf(s, a, L)
    BY <2>1, <2>5, <2>6
  <2> QED BY <2>2, <2>6, <2>7 DEF a, b
<1>3. ASSUME NEW q \in Kept, ~SuffixStops(s, maxWidth, maxBytes, q)
      PROVE  SuffixOn(s, q) \in Kept
  <2>1. q[1] > 0
    BY <1>0, <1>3 DEF SuffixStops
  <2>2. SuffixOn(s, q) \in Places(s)
    BY <2>1, PlacesOn
  <2>3. L - SuffixOn(s, q)[1] <= maxBytes /\ SuffixOn(s, q)[2] <= maxWidth
    <3>1. ~(L - SuffixOn(s, q)[1] > maxBytes) /\ ~(SuffixOn(s, q)[2] > maxWidth)
      BY <1>3 DEF SuffixStops
    <3>2. SuffixOn(s, q)[1] \in Nat /\ SuffixOn(s, q)[2] \in Nat
      BY <1>0, <2>2
    <3> HIDE DEF L
    <3> QED BY <1>0, <3>1, <3>2
  <2>4. Fine(SuffixOn(s, q))
    BY <1>2, <2>1, <2>3
  <2> HIDE DEF Fine
  <2> QED BY <2>2, <2>3, <2>4
<1>4. PICK q \in Kept : SuffixStops(s, maxWidth, maxBytes, q) /\ start = q[1]
  <2>1. Kept \in SUBSET Places(s) /\ maxBytes \in Int
    OBVIOUS
  <2>2. <<Len(s), 0>> \in Kept
    BY <1>1
  <2> HIDE DEF Kept
  <2> QED BY <1>3, <2>1, <2>2, SuffixKeeps
<1>5. start \in 0 .. L /\ L - start <= maxBytes
  BY <1>0, <1>4
<1>6. ASSUME Regular(s)
      PROVE  /\ Boundary(s, start) /\ (start < L => WidthOf(s, start, L) <= maxWidth)
             /\ start > 0 => \/ WidthOf(s, CharStart(s, start), L) > maxWidth
                             \/ L - CharStart(s, start) > maxBytes
  <2>1. Boundary(s, start) /\ (start < L => WidthOf(s, start, L) <= maxWidth)
    BY <1>4, <1>6
  <2>2. ASSUME start > 0
        PROVE  \/ WidthOf(s, CharStart(s, start), L) > maxWidth
               \/ L - CharStart(s, start) > maxBytes
    <3>1. /\ SuffixOn(s, q)[2] = WidthOf(s, CharStart(s, start), L)
          /\ SuffixOn(s, q)[1] = CharStart(s, start)
      BY <1>2, <1>4, <1>6, <2>2
    <3>2. start # 0
      BY <1>5, <2>2
    <3> HIDE DEF Kept
    <3> QED BY <1>4, <3>1, <3>2 DEF SuffixStops
  <2> QED BY <2>1, <2>2
<1> HIDE DEF Kept
<1> QED BY <1>5, <1>6

\* What it passes has no columns: the suffix begins with a character that has some.
LEMMA SuffixVisible ==
    ASSUME NEW s \in Seq(Byte), NEW maxWidth \in Int, NEW maxBytes \in Nat,
           NEW start, start = SuffixStart(s, maxWidth, maxBytes),
           NEW end, end = Len(s) - SuffixFitting(s, maxWidth, maxBytes)
    PROVE  /\ end \in start .. Len(s) /\ SuffixFitting(s, maxWidth, maxBytes) = Len(s) - end
           /\ end < Len(s) => WidthOf(s, end, NextCharOffset(s, end)) > 0
           /\ Regular(s) => Boundary(s, end) /\ WidthOf(s, start, end) = 0
<1> DEFINE L == Len(s)
           Fine(n) == Regular(s) => Boundary(s, n) /\ WidthOf(s, start, n) = 0
           Kept == {n \in 0 .. L : n >= start /\ Fine(n)}
<1>0. L \in Nat /\ start \in 0 .. L /\ (Regular(s) => Boundary(s, start))
  BY SuffixFits
<1>1. SuffixStart(s, maxWidth, maxBytes) \in Kept
  <2>1. WidthOf(s, start, start) = 0
    BY <1>0, PartWidth
  <2>2. start \in Kept
    BY <1>0, <2>1
  <2> QED BY <2>2
<1>2. ASSUME NEW n \in Kept, ~VisibleStops(s, n)
      PROVE  NextCharOffset(s, n) \in Kept
  <2> DEFINE next == NextCharOffset(s, n)
  <2>1. n \in 0 .. L - 1 /\ n >= start
    BY <1>0, <1>2 DEF VisibleStops
  <2>2. next \in n + 1 .. L
    BY <2>1, NextProperties
  <2>3. next \in 0 .. L /\ next >= start /\ n \in 0 .. next
    BY <1>0, <2>1, <2>2
  <2>4. WidthOf(s, n, next) = 0
    <3>1. WidthOf(s, n, next) \in Nat
      BY <2>3, PartWidth
    <3>2. ~(WidthOf(s, n, next) > 0)
      BY <1>2 DEF VisibleStops
    <3> QED BY <3>1, <3>2
  <2>5. ASSUME Regular(s) PROVE Boundary(s, next) /\ WidthOf(s, start, next) = 0
    <3>1. Boundary(s, n) /\ WidthOf(s, start, n) = 0 /\ Boundary(s, start)
      BY <1>0, <2>5
    <3>2. Boundary(s, next)
      BY <2>1, <2>5, <3>1, NextBoundary
    <3>3. start \in 0 .. n
      BY <1>0, <2>1
    <3> HIDE DEF next, Kept
    <3>4. WidthOf(s, start, next) = WidthOf(s, start, n) + WidthOf(s, n, next)
      BY <2>3, <2>5, <3>1, <3>3, WidthsAdd
    <3> QED BY <2>4, <3>1, <3>2, <3>4
  <2> HIDE DEF next
  <2>6. next \in Kept
    BY <2>3, <2>5
  <2> QED BY <2>6 DEF next
<1>3. PICK n \in Kept : VisibleStops(s, n) /\ SuffixFitting(s, maxWidth, maxBytes) = L - n
  <2>1. Kept \in SUBSET (0 .. Len(s)) /\ maxBytes \in Int
    OBVIOUS
  <2> HIDE DEF Kept
  <2> QED BY <1>1, <1>2, <2>1, VisibleKeeps
<1>4. n \in 0 .. L /\ n >= start /\ Fine(n)
  OBVIOUS
<1> HIDE DEF Kept
<1>5. end = n
  BY <1>0, <1>3, <1>4
<1>6. n < L => WidthOf(s, n, NextCharOffset(s, n)) > 0
  BY <1>3, <1>4 DEF VisibleStops
<1>7. n \in start .. L
  BY <1>0, <1>4
<1> QED BY <1>3, <1>4, <1>5, <1>6, <1>7

-----------------------------------------------------------------------------
\* Where hstr_strelide cuts a string that is too wide: it is kept up to p and from end.
CutAt(s, maxWidth, maxBytes, p, columnsLeft, bytesLeft, end) ==
    /\ StrWidth(s) > maxWidth /\ maxWidth > 3 /\ maxBytes >= 3
    /\ p = PrefixFitting(s, maxWidth \div 2 - 1, maxBytes - 3)
    /\ columnsLeft = maxWidth - WidthOf(s, 0, p) - 3 /\ bytesLeft = maxBytes - 3 - p
    /\ end = Len(s) - SuffixFitting(s, columnsLeft, bytesLeft)

\* What hstr_strelide makes of a string of characters that is too wide, no character twice, not
\* too wide, and no visible one more fits before end.
LEMMA ElidedWithDots ==
    ASSUME NEW s \in Seq(Byte), Regular(s), NEW maxWidth \in Nat, NEW maxBytes \in Nat,
           NEW p, NEW columnsLeft, NEW bytesLeft, NEW end,
           CutAt(s, maxWidth, maxBytes, p, columnsLeft, bytesLeft, end)
    PROVE  /\ Boundary(s, p) /\ Boundary(s, end) /\ p <= end
           /\ WidthOf(s, 0, p) + 3 + WidthOf(s, end, Len(s)) <= maxWidth
           /\ \A n \in 0 .. Len(s) :
                 Boundary(s, n) /\ n < end /\ WidthOf(s, n, NextCharOffset(s, n)) > 0 =>
                     \/ WidthOf(s, 0, p) + 3 + WidthOf(s, end, Len(s)) + WidthOf(s, n, end) > maxWidth
                     \/ p + 3 + (Len(s) - end) + end - n > maxBytes
<1> DEFINE L == Len(s)
           W(a, b) == WidthOf(s, a, b)
           half == maxWidth \div 2 - 1
           start == SuffixStart(s, columnsLeft, bytesLeft)
<1>0. L \in Nat /\ half \in Nat /\ maxBytes - 3 \in Nat /\ half + 3 <= maxWidth
  BY DEF CutAt
<1>p. p = PrefixFitting(s, half, maxBytes - 3) /\ StrWidth(s) > maxWidth
  BY DEF CutAt
<1>r. columnsLeft = maxWidth - W(0, p) - 3 /\ bytesLeft = maxBytes - 3 - p
  BY DEF CutAt
<1>e. end = Len(s) - SuffixFitting(s, columnsLeft, bytesLeft)
  BY DEF CutAt
<1>1. p \in 0 .. L /\ p <= maxBytes - 3 /\ Boundary(s, p) /\ W(0, p) <= half
  BY <1>0, <1>p, PrefixFits
<1>2. W(0, p) \in Nat
  <2>1. 0 \in 0 .. p
    BY <1>0, <1>1
  <2> QED BY <1>1, <2>1, PartWidth
<1>3. columnsLeft \in Int /\ bytesLeft \in Nat
  BY <1>0, <1>1, <1>2, <1>r
<1> HIDE DEF half
<1>4. /\ start \in 0 .. L /\ L - start <= bytesLeft /\ Boundary(s, start)
      /\ start < L => W(start, L) <= columnsLeft
      /\ start > 0 => \/ W(CharStart(s, start), L) > columnsLeft
                      \/ L - CharStart(s, start) > bytesLeft
  BY <1>3, SuffixFits
<1>5. end \in start .. L /\ Boundary(s, end) /\ W(start, end) = 0
  BY <1>3, <1>e, SuffixVisible
<1> HIDE DEF start, L
<1>6. \A c \in 0 .. L : \A b \in 0 .. c : \A a \in 0 .. b : Boundary(s, a) /\ Boundary(s, b) =>
          W(a, c) = W(a, b) + W(b, c) /\ W(a, b) \in Nat /\ W(b, c) \in Nat
  BY WidthsAdd DEF L
<1>7. Boundary(s, 0) /\ Boundary(s, L) /\ 0 \in 0 .. L /\ L \in 0 .. L
  BY <1>0 DEF Regular, Boundary, L
<1>8. W(0, L) = StrWidth(s) /\ W(L, L) = 0
  <2>1. L \in 0 .. Len(s) /\ L \in 0 .. L
    BY <1>0 DEF L
  <2>2. W(L, L) = 0
    BY <2>1, PartWidth
  <2>3. W(0, L) = StrWidth(s)
    BY WholeAndNothing DEF WidthOf, Part, L
  <2> QED BY <2>2, <2>3
<1>9. end \in 0 .. L /\ start \in 0 .. end /\ p \in Nat /\ start \in Nat
  BY <1>0, <1>1, <1>4, <1>5
<1>10. W(start, L) = W(end, L) /\ W(end, L) \in Nat
  <2>1. W(start, L) = W(start, end) + W(end, L) /\ W(end, L) \in Nat
    BY <1>4, <1>5, <1>6, <1>7, <1>9
  <2> QED BY <1>5, <2>1
<1> HIDE DEF W
<1>11. p <= end
  <2> SUFFICES ASSUME end < p PROVE FALSE
    BY <1>1, <1>9
  <2>1. start < p /\ start < L /\ start \in 0 .. p /\ 0 \in 0 .. start /\ start \in 0 .. L
    BY <1>0, <1>1, <1>5, <1>9
  <2>2. W(0, p) = W(0, start) + W(start, p) /\ W(start, p) \in Nat /\ W(0, start) \in Nat
    BY <1>1, <1>4, <1>6, <1>7, <2>1
  <2>3. W(0, L) = W(0, start) + W(start, L) /\ W(start, L) \in Nat
    BY <1>4, <1>6, <1>7, <2>1
  <2>4. columnsLeft = maxWidth - W(0, p) - 3
    BY <1>r
  <2>5. W(start, L) <= columnsLeft
    BY <1>4, <2>1
  <2>6. W(0, L) > maxWidth
    BY <1>8, <1>p
  <2> QED BY <2>2, <2>3, <2>4, <2>5, <2>6
<1>12. W(0, p) + 3 + W(end, L) <= maxWidth
  <2>1. columnsLeft = maxWidth - W(0, p) - 3
    BY <1>r
  <2>2. CASE start < L
    BY <1>2, <1>4, <1>10, <2>1, <2>2
  <2>3. CASE start = L
    BY <1>0, <1>1, <1>2, <1>8, <1>10, <2>3
  <2> QED BY <1>0, <1>4, <2>2, <2>3
<1>13. ASSUME NEW n \in 0 .. L, Boundary(s, n), n < end, W(n, NextCharOffset(s, n)) > 0
       PROVE  \/ W(0, p) + 3 + W(end, L) + W(n, end) > maxWidth
              \/ p + 3 + (L - end) + end - n > maxBytes
  <2> DEFINE next == NextCharOffset(s, n)
             first == CharStart(s, start)
  <2>1. n < start
    <3> SUFFICES ASSUME n >= start PROVE FALSE
      BY <1>9
    <3>1. n \in 0 .. Len(s) - 1
      BY <1>0, <1>9, <1>13 DEF L
    <3>2. next \in n + 1 .. L /\ Boundary(s, next) /\ \A m \in n + 1 .. next - 1 : ~Boundary(s, m)
      BY <1>13, <3>1, NextProperties, NextBoundary DEF L
    <3> HIDE DEF next
    <3>3. next <= end
      <4> SUFFICES ASSUME next > end PROVE FALSE
        BY <1>9, <3>2
      <4>1. end \in n + 1 .. next - 1
        BY <1>9, <1>13, <3>2
      <4> QED BY <1>5, <3>2, <4>1
    <3>4. next \in 0 .. end /\ n \in 0 .. next /\ start \in 0 .. n /\ n \in 0 .. end
      BY <1>9, <1>13, <3>2, <3>3
    <3>5. W(start, end) = W(start, n) + W(n, end) /\ W(start, n) \in Nat
      BY <1>4, <1>6, <1>9, <1>13, <3>4
    <3>6. W(n, end) = W(n, next) + W(next, end) /\ W(n, next) \in Nat /\ W(next, end) \in Nat
      BY <1>6, <1>9, <1>13, <3>2, <3>4
    <3>7. W(n, next) > 0
      BY <1>13 DEF next
    <3> QED BY <1>5, <3>5, <3>6, <3>7
  <2>2. start \in 1 .. Len(s) /\ start > 0
    BY <1>4, <1>9, <2>1 DEF L
  <2>3. /\ first \in 0 .. start - 1 /\ Boundary(s, first)
        /\ \A m \in first + 1 .. start - 1 : ~Boundary(s, m)
    BY <1>4, <2>2, CharStartProperties, StartBoundary
  <2>4. W(first, L) > columnsLeft \/ L - first > bytesLeft
    BY <1>4, <2>2
  <2> HIDE DEF first, next
  <2>5. n <= first
    <3> SUFFICES ASSUME n > first PROVE FALSE
      BY <2>3
    <3>1. n \in first + 1 .. start - 1
      BY <1>9, <2>1, <2>3
    <3> QED BY <1>13, <2>3, <3>1
  <2>6. first \in 0 .. L /\ n \in 0 .. first /\ n \in 0 .. end
    <3>1. first \in Int /\ n \in Int /\ end \in Int
      BY <1>9, <2>3
    <3>2. 0 <= first /\ first < start /\ start <= L /\ 0 <= n /\ n < end
      BY <1>0, <1>4, <1>13, <2>2, <2>3
    <3>3. first \in 0 .. L
      BY <1>0, <1>9, <3>1, <3>2
    <3>4. n \in 0 .. first
      BY <2>5, <3>1, <3>2
    <3>5. n \in 0 .. end
      BY <3>1, <3>2
    <3> QED BY <3>3, <3>4, <3>5
  <2>7. W(n, L) = W(n, first) + W(first, L) /\ W(n, first) \in Nat /\ W(first, L) \in Nat
    BY <1>6, <1>7, <1>13, <2>3, <2>6
  <2>8. W(n, L) = W(n, end) + W(end, L) /\ W(n, end) \in Nat
    BY <1>5, <1>6, <1>7, <1>9, <1>13, <2>6
  <2>9. columnsLeft = maxWidth - W(0, p) - 3
    BY <1>r
  <2>10. CASE W(first, L) > columnsLeft
    <3>1. W(n, L) > maxWidth - W(0, p) - 3
      BY <1>2, <2>7, <2>9, <2>10
    <3> QED BY <1>2, <1>10, <2>8, <3>1
  <2>11. CASE L - first > bytesLeft
    <3>1. L - n > maxBytes - 3 - p
      BY <1>0, <1>3, <1>r, <2>5, <2>6, <2>11
    <3>2. p + 3 + (L - end) + end - n = p + 3 + (L - n)
      BY <1>0, <1>9
    <3>3. p + 3 + (L - n) > maxBytes
      BY <1>0, <1>9, <3>1
    <3> QED BY <3>2, <3>3
  <2> QED BY <2>4, <2>10, <2>11
<1> QED BY <1>1, <1>5, <1>11, <1>12, <1>13 DEF W, L

\* What is elided was elided from this line, for these columns and this buffer.
ElisionInv ==
    /\ line \in Seq(Byte) /\ maxColumns \in Nat /\ bufferSize \in Nat /\ bufferSize >= 1
    /\ cut => elided = Elided(line, bufferSize, maxColumns)

\* Whatever the bytes are, what is kept ends within the buffer; and of what is cut from the
\* middle it is known where.
LEMMA ElidedInBuffer ==
    ASSUME ElisionInv, cut, elided.dots
    PROVE  \E p, columnsLeft, bytesLeft, end :
              /\ CutAt(line, maxColumns, bufferSize - 1, p, columnsLeft, bytesLeft, end)
              /\ p \in 0 .. Len(line) /\ end \in 0 .. Len(line)
              /\ elided.prefix = p /\ elided.suffix = Len(line) - end
              /\ p + 3 + (Len(line) - end) < bufferSize
<1> DEFINE s == line
           L == Len(s)
           maxBytes == bufferSize - 1
           dots == StrWidth(s) > maxColumns /\ maxColumns > 3 /\ maxBytes >= 3
           half == maxColumns \div 2 - 1
           p == PrefixFitting(s, half, maxBytes - 3)
           columnsLeft == maxColumns - WidthOf(s, 0, p) - 3
           bytesLeft == maxBytes - 3 - p
           end == L - SuffixFitting(s, columnsLeft, bytesLeft)
           start == SuffixStart(s, columnsLeft, bytesLeft)
<1>0. s \in Seq(Byte) /\ L \in Nat /\ maxColumns \in Nat /\ maxBytes \in Nat /\ bufferSize = maxBytes + 1
  BY DEF ElisionInv
<1>1. elided = Elided(s, bufferSize, maxColumns)
  BY DEF ElisionInv
<1>2. dots
  BY <1>1 DEF Elided
<1>3. /\ elided.prefix = p
      /\ elided.suffix = SuffixFitting(s, columnsLeft, bytesLeft)
  BY <1>1, <1>2 DEF Elided
<1>4. half \in Nat /\ maxBytes - 3 \in Nat /\ maxBytes - 3 \in Int
  BY <1>0, <1>2
<1>5. CutAt(s, maxColumns, maxBytes, p, columnsLeft, bytesLeft, end)
  BY <1>2 DEF CutAt
<1> HIDE DEF dots, half, maxBytes, s
<1>6. p \in 0 .. L /\ p <= maxBytes - 3
  <2> HIDE DEF L
  <2>1. /\ p \in 0 .. Len(s) /\ p <= maxBytes - 3
    BY <1>0, <1>4, PrefixFits
  <2> QED BY <2>1 DEF L
<1> HIDE DEF p
<1>7. columnsLeft \in Int /\ bytesLeft \in Nat
  <2>1. p \in 0 .. Len(s) /\ 0 \in 0 .. p
    BY <1>6
  <2>2. WidthOf(s, 0, p) \in Nat
    BY <1>0, <2>1, PartWidth
  <2> QED BY <1>0, <1>6, <2>2
<1>8. bytesLeft + p + 3 = maxBytes
  BY <1>0, <1>6
<1> HIDE DEF columnsLeft, bytesLeft
<1>9. start \in 0 .. L /\ L - start <= bytesLeft
  BY <1>0, <1>7, SuffixFits
<1>10. end \in start .. L /\ SuffixFitting(s, columnsLeft, bytesLeft) = L - end
  BY <1>0, <1>7, SuffixVisible
<1> HIDE DEF end, start, L
<1>11. end \in 0 .. L /\ p + 3 + (L - end) <= maxBytes
  BY <1>0, <1>6, <1>7, <1>8, <1>9, <1>10
<1>12. p + 3 + (L - end) < bufferSize
  BY <1>0, <1>6, <1>11
<1>13. elided.suffix = L - end
  BY <1>3, <1>10
<1> QED BY <1>3, <1>5, <1>6, <1>11, <1>12, <1>13 DEF L, s, maxBytes

\* Nothing is cut from the middle: as much of the line as fits.
LEMMA ElidedAtEnd ==
    ASSUME ElisionInv, cut, ~elided.dots
    PROVE  /\ elided.suffix = 0
           /\ elided.prefix = PrefixFitting(line, maxColumns, bufferSize - 1)
<1>1. elided = Elided(line, bufferSize, maxColumns)
  BY DEF ElisionInv
<1> DEFINE dots == StrWidth(line) > maxColumns /\ maxColumns > 3 /\ bufferSize - 1 >= 3
<1>2. ~dots
  BY <1>1 DEF Elided
<1> QED BY <1>1, <1>2 DEF Elided

\* What hstr_strelide makes of a line is what ElidedCorrect says of it.
LEMMA ElidedWell == ElisionInv => ElidedCorrect
<1> SUFFICES ASSUME ElisionInv, cut PROVE ElidedCorrect
  BY DEF ElidedCorrect
<1> DEFINE L == Len(line)
           boundaries == {n \in 0 .. L : n = L \/ line[n + 1] # Continuation}
           dots == IF elided.dots THEN 3 ELSE 0
           begin == elided.prefix
           end == L - elided.suffix
           taken == WidthOf(line, 0, begin) + dots + WidthOf(line, end, L)
           bytes == begin + dots + elided.suffix
           half == IF elided.dots THEN maxColumns \div 2 - 1 ELSE maxColumns
           Behind(n) == NextCharOffset(line, n)
           Seen(n) == WidthOf(line, n, Behind(n)) > 0
           InBuffer == bytes < bufferSize
           Whole == {begin, end} \subseteq boundaries /\ begin <= end /\ taken <= maxColumns
           Kept == (StrWidth(line) <= maxColumns /\ L < bufferSize) => begin = L
           Most == begin < L => \/ WidthOf(line, 0, Behind(begin)) > half
                                \/ Behind(begin) + dots >= bufferSize
           Marks == elided.suffix > 0 => Seen(end)
           Nearest == \A n \in boundaries : (elided.dots /\ n < end /\ Seen(n)) =>
                       \/ taken + WidthOf(line, n, end) > maxColumns
                       \/ bytes + end - n >= bufferSize
<1>0. line \in Seq(Byte) /\ L \in Nat /\ maxColumns \in Nat /\ bufferSize \in Nat /\ bufferSize - 1 \in Nat
      /\ L \in 0 .. L
  BY DEF ElisionInv
<1>1. \A n \in 0 .. L : n \in boundaries <=> Boundary(line, n)
  BY DEF Boundary
<1>2. CASE elided.dots
  <2>1. PICK p, columnsLeft, bytesLeft, e :
              /\ CutAt(line, maxColumns, bufferSize - 1, p, columnsLeft, bytesLeft, e)
              /\ p \in 0 .. L /\ e \in 0 .. L
              /\ elided.prefix = p /\ elided.suffix = L - e
              /\ p + 3 + (L - e) < bufferSize
    BY <1>2, ElidedInBuffer
  <2>2. begin = p /\ end = e /\ dots = 3 /\ half = maxColumns \div 2 - 1 /\ bytes = p + 3 + (L - e)
        /\ elided.suffix = L - end
    BY <1>0, <1>2, <2>1
  <2>3. InBuffer
    BY <2>1, <2>2
  <2>4. ASSUME WellFormed(line) PROVE Whole /\ Kept /\ Most /\ Marks /\ Nearest
    <3>1. Regular(line)
      BY <1>0, <2>4, WellFormedRegular
    <3>2. /\ Boundary(line, p) /\ Boundary(line, e) /\ p <= e
          /\ WidthOf(line, 0, p) + 3 + WidthOf(line, e, L) <= maxColumns
          /\ \A n \in 0 .. L :
                Boundary(line, n) /\ n < e /\ WidthOf(line, n, NextCharOffset(line, n)) > 0 =>
                    \/ WidthOf(line, 0, p) + 3 + WidthOf(line, e, L) + WidthOf(line, n, e) > maxColumns
                    \/ p + 3 + (L - e) + e - n > bufferSize - 1
      BY <1>0, <2>1, <3>1, ElidedWithDots
    <3>3. Whole
      BY <1>1, <2>1, <2>2, <3>2
    <3>4. Kept
      <4>1. StrWidth(line) > maxColumns /\ StrWidth(line) \in Nat
        BY <1>0, <2>1, WidthType DEF CutAt
      <4>2. ~(StrWidth(line) <= maxColumns)
        BY <1>0, <4>1
      <4> QED BY <4>2
    <3>5. Most
      <4> SUFFICES ASSUME p < L
                   PROVE  \/ WidthOf(line, 0, NextCharOffset(line, p)) > half
                          \/ NextCharOffset(line, p) + 3 >= bufferSize
        BY <2>2
      <4>1. /\ half \in Nat /\ (bufferSize - 1) - 3 \in Nat
            /\ p = PrefixFitting(line, half, (bufferSize - 1) - 3)
        BY <1>0, <2>1, <2>2 DEF CutAt
      <4>2. \/ WidthOf(line, 0, NextCharOffset(line, p)) > half
            \/ NextCharOffset(line, p) > (bufferSize - 1) - 3
        <5> HIDE DEF half, L
        <5>1. p < Len(line)
          BY DEF L
        <5> QED BY <1>0, <3>1, <4>1, <5>1, PrefixFits
      <4>3. NextCharOffset(line, p) \in p + 1 .. L
        BY <1>0, <2>1, NextProperties
      <4> QED BY <1>0, <2>1, <4>2, <4>3
    <3>6. Marks
      <4> SUFFICES ASSUME e < L PROVE WidthOf(line, e, NextCharOffset(line, e)) > 0
        BY <1>0, <2>1, <2>2
      <4>1. /\ columnsLeft \in Int /\ bytesLeft \in Nat
            /\ e = Len(line) - SuffixFitting(line, columnsLeft, bytesLeft)
        <5>1. /\ columnsLeft = maxColumns - WidthOf(line, 0, p) - 3
              /\ bytesLeft = (bufferSize - 1) - 3 - p
              /\ e = Len(line) - SuffixFitting(line, columnsLeft, bytesLeft)
          BY <2>1 DEF CutAt
        <5>2. WidthOf(line, 0, p) \in Nat
          <6>1. 0 \in 0 .. p /\ p \in 0 .. Len(line)
            BY <2>1
          <6> QED BY <1>0, <6>1, PartWidth
        <5>3. p <= (bufferSize - 1) - 3
          BY <1>0, <2>1
        <5> QED BY <1>0, <2>1, <5>1, <5>2, <5>3
      <4> QED BY <1>0, <4>1, SuffixVisible
    <3>7. Nearest
      <4> SUFFICES ASSUME NEW n \in boundaries, n < e, Seen(n)
                   PROVE  \/ taken + WidthOf(line, n, end) > maxColumns
                          \/ bytes + end - n >= bufferSize
        BY <2>2
      <4>1. n \in 0 .. L /\ Boundary(line, n) /\ WidthOf(line, n, NextCharOffset(line, n)) > 0
        BY <1>1
      <4>2. \/ WidthOf(line, 0, p) + 3 + WidthOf(line, e, L) + WidthOf(line, n, e) > maxColumns
            \/ p + 3 + (L - e) + e - n > bufferSize - 1
        BY <3>2, <4>1
      <4>3. taken = WidthOf(line, 0, p) + 3 + WidthOf(line, e, L)
        BY <2>2
      <4>4. bytes + end - n = p + 3 + (L - e) + e - n
        BY <2>2
      <4> HIDE DEF taken, bytes, end, L, boundaries, Seen
      <4>5. p + 3 + (L - e) + e - n \in Int
        BY <1>0, <2>1, <4>1
      <4> QED BY <1>0, <2>2, <4>2, <4>3, <4>4, <4>5
    <3> QED BY <3>3, <3>4, <3>5, <3>6, <3>7
  <2> QED BY <2>3, <2>4 DEF ElidedCorrect
<1>3. CASE ~elided.dots
  <2>1. elided.suffix = 0 /\ elided.prefix = PrefixFitting(line, maxColumns, bufferSize - 1)
    BY <1>3, ElidedAtEnd
  <2>2. end = L /\ dots = 0 /\ half = maxColumns
    BY <1>0, <1>3, <2>1
  <2>3. /\ begin \in 0 .. Len(line) /\ begin <= bufferSize - 1
        /\ Regular(line) =>
             /\ Boundary(line, begin) /\ WidthOf(line, 0, begin) <= maxColumns
             /\ begin < Len(line) => \/ WidthOf(line, 0, NextCharOffset(line, begin)) > maxColumns
                                     \/ NextCharOffset(line, begin) > bufferSize - 1
    <3> HIDE DEF begin
    <3> QED BY <1>0, <2>1, PrefixFits DEF begin
  <2>4. bytes = begin
    BY <2>1, <2>2, <2>3
  <2>5. InBuffer
    BY <1>0, <2>3, <2>4
  <2>6. ASSUME WellFormed(line) PROVE Whole /\ Kept /\ Most /\ Marks /\ Nearest
    <3>1. Regular(line)
      BY <1>0, <2>6, WellFormedRegular
    <3>2. WidthOf(line, L, L) = 0 /\ WidthOf(line, 0, begin) \in Nat
      <4>1. L \in 0 .. Len(line) /\ 0 \in 0 .. begin
        BY <1>0, <2>3
      <4> QED BY <1>0, <2>3, <4>1, PartWidth
    <3>3. begin \in boundaries /\ end \in boundaries
      BY <1>0, <1>1, <2>2, <2>3, <3>1
    <3>4. taken = WidthOf(line, 0, begin)
      BY <2>2, <3>2
    <3>5. Whole
      <4> HIDE DEF taken, boundaries, begin, end
      <4> QED BY <2>2, <2>3, <3>1, <3>3, <3>4
    <3>6. begin < L => Behind(begin) \in begin + 1 .. L
      <4> HIDE DEF begin
      <4> QED BY <1>0, <2>3, NextProperties
    <3>7. Kept
      <4> SUFFICES ASSUME StrWidth(line) <= maxColumns, L < bufferSize, begin # L PROVE FALSE
        OBVIOUS
      <4>1. begin < L
        BY <2>3
      <4>2. Behind(begin) \in 0 .. Len(line)
        BY <2>3, <3>6, <4>1
      <4>3. /\ WidthOf(line, 0, Behind(begin)) <= StrWidth(line)
            /\ WidthOf(line, 0, Behind(begin)) \in Nat
        <5> HIDE DEF Behind
        <5>1. StrWidth(SubSeq(line, 1, Behind(begin))) <= StrWidth(line)
          BY <1>0, <4>2, PrefixNotWider
        <5>2. 0 \in 0 .. Behind(begin) /\ 0 + 1 = 1
          BY <4>2
        <5>3. WidthOf(line, 0, Behind(begin)) \in Nat
          BY <1>0, <4>2, <5>2, PartWidth
        <5> QED BY <5>1, <5>2, <5>3 DEF WidthOf
      <4>4. StrWidth(line) \in Nat
        BY <1>0, WidthType
      <4>5. WidthOf(line, 0, Behind(begin)) > maxColumns \/ Behind(begin) > bufferSize - 1
        BY <2>3, <3>1, <4>1
      <4> HIDE DEF Behind, begin
      <4> QED BY <1>0, <4>2, <4>3, <4>4, <4>5
    <3>8. Most
      <4> SUFFICES ASSUME begin < L
                   PROVE  \/ WidthOf(line, 0, Behind(begin)) > half
                          \/ Behind(begin) + dots >= bufferSize
        OBVIOUS
      <4>1. WidthOf(line, 0, Behind(begin)) > maxColumns \/ Behind(begin) > bufferSize - 1
        BY <2>3, <3>1
      <4>2. Behind(begin) \in Nat
        BY <2>3, <3>6
      <4> HIDE DEF Behind, begin, half, dots
      <4> QED BY <1>0, <2>2, <4>1, <4>2
    <3>9. Marks
      BY <2>1
    <3>10. Nearest
      BY <1>3
    <3> HIDE DEF Whole, Kept, Most, Marks, Nearest
    <3> QED BY <3>5, <3>7, <3>8, <3>9, <3>10
  <2> QED BY <2>5, <2>6 DEF ElidedCorrect
<1> QED BY <1>2, <1>3

\* What hstr_strelide makes of a line ends within its buffer, whatever the bytes are; of
\* characters it is the most that fits the columns and the buffer, from both ends.
THEOREM ElisionIsCorrect == ElisionSpec => []ElidedCorrect
<1>1. ElisionInit => ElisionInv
  BY TextsAssumption, RoomAssumption DEF ElisionInit, ElisionInv
<1>2. ElisionInv /\ [Elide]_elisionVars => ElisionInv'
  <2>1. CASE Elide
    BY <2>1 DEF ElisionInv, Elide
  <2>2. CASE UNCHANGED elisionVars
    BY <2>2 DEF ElisionInv, elisionVars
  <2> QED BY <2>1, <2>2
<1> QED BY <1>1, <1>2, ElidedWell, PTL DEF ElisionSpec
=============================================================================
