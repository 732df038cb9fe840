--------------------------- MODULE HistoryManagement ---------------------------
(***************************************************************************)
(* The part of hstr that changes the shell's history: a command deleted    *)
(* from the views and from the history file (hstr_history.c, DEL in        *)
(* loop_to_select), the chosen command handed to the shell together with   *)
(* "history -r" (the end of loop_to_select, history_mgmt_flush), the       *)
(* signal handler, and --kill-last-command.                                *)
(*                                                                         *)
(* hstr is one process among the shells that append to the same file.  It  *)
(* reads the file once and writes it whole; a signal may come between any  *)
(* two steps, also within a call of fill_terminal_input, which puts byte   *)
(* after byte, and while another signal is handled.                        *)
(***************************************************************************)
EXTENDS Integers, Sequences, SequencesExt, FiniteSets, HistoryItems

CONSTANTS
    Line,            \* the lines of a history file
    Timestamp,       \* those that are HISTTIMEFORMAT timestamps
    ParseHistoryLine,\* the command of every other line, by isZsh
    Blacklist,       \* commands the ranking view leaves out
    Signum,          \* SIGINT and SIGQUIT
    AppendedLine,    \* bound: the lines the shells may append
    HistoryFiles,    \* the history files at the start
    MaxAppends       \* bound: the lines the shells append while hstr runs

Command == UNION {{ParseHistoryLine[z][line] : line \in Line \ Timestamp} : z \in BOOLEAN}

ASSUME TimestampAssumption == Timestamp \subseteq Line
ASSUME ParseAssumption     == ParseHistoryLine \in [BOOLEAN -> [Line \ Timestamp -> Command]]
ASSUME AppendedAssumption  == AppendedLine \subseteq Line
ASSUME FilesAssumption     == HistoryFiles \subseteq Seq(Line)
ASSUME BoundsAssumption    == MaxAppends \in Nat

VARIABLES
    isZsh,        \* is the shell hstr runs in zsh?
    isTiocsti,    \* does the kernel let hstr type for the user?
    historyFile,  \* the lines of the history file
    historyList,  \* readline's list: the lines hstr has of it
    rawItems, items,   \* the raw and the ranking view
    almostDead,   \* the command DEL deletes, NULL when there is none
    dirty,
    pending,      \* the calls of fill_terminal_input still to be made
    terminal,     \* what is in the terminal's input; without TIOCSTI, what hstr
                  \* has printed and a function of the shell makes the line to edit
    phase,        \* "start", "loop", "pruned", "written", "inject" (the end of
                  \* loop_to_select), "flush", "exit" (hstr_exit) or "exited"
    handling,     \* the signals whose handler runs: they are blocked
    \* history variables
    loaded,       \* the lines hstr has read
    deleted,      \* the commands deleted, in order
    appended,     \* the lines appended by the shells since the file was last written
    saved,        \* does the file hold what hstr last wrote, or has it written nothing?
    ended,        \* the key hstr ended by, or "kill"
    torn          \* did a signal come before all calls were made?

store  == <<isZsh, isTiocsti, historyFile, historyList, rawItems, items, almostDead, dirty>>
ghosts == <<loaded, deleted, appended, saved>>
ends   == <<handling, ended, torn>>
vars   == <<store, pending, terminal, phase, ghosts, ends>>

NULL == "NULL"

ASSUME NullAssumption == NULL \notin Command

-----------------------------------------------------------------------------
\* parse_history_line, with the zsh characters unmetafied.
CommandOf(line) == ParseHistoryLine[isZsh][line]
Says(line, cmd) == line \notin Timestamp /\ CommandOf(line) = cmd

\* The commands of a list of lines, in order.
Commands_Unparsed(list) == list
Commands(list) ==
    LET Add(cmds, line) == IF line \in Timestamp THEN cmds ELSE Append(cmds, CommandOf(line))
    IN  FoldLeft(Add, <<>>, list)

\* The loop of history_mgmt_remove_from_system_history, from the last entry
\* to the first: an entry of the command goes, and the timestamp before it.
\* offset is counted from 1; there are no more turns than entries.
Swept_Forward(cmd, list) ==
    LET At[l \in Seq(Line), n \in Nat] ==
            IF n > Len(l) THEN l
            ELSE IF Says(l[n], cmd) THEN At[RemoveAt(l, n), n + 1] ELSE At[l, n + 1]
    IN  At[list, 1]
Swept_KeepsTimestamp(cmd, list) == SelectSeq(list, LAMBDA line : ~Says(line, cmd))
SweepTurn(cmd, s) ==
    LET n == s.offset
    IN  IF n = 0 THEN s
        ELSE IF ~Says(s.list[n], cmd) THEN [s EXCEPT !.offset = n - 1]
        ELSE IF n > 1 /\ s.list[n - 1] \in Timestamp
             THEN [list |-> RemoveAt(RemoveAt(s.list, n), n - 1), offset |-> n - 2]
             ELSE [list |-> RemoveAt(s.list, n), offset |-> n - 1]
Swept(cmd, list) ==
    LET Turn(s, entry) == SweepTurn(cmd, s)
    IN  FoldLeft(Turn, [list |-> list, offset |-> Len(list)], list).list

-----------------------------------------------------------------------------
Init ==
    /\ isZsh \in BOOLEAN /\ isTiocsti \in BOOLEAN
    /\ historyFile \in HistoryFiles
    /\ historyList = <<>> /\ rawItems = <<>> /\ items = <<>>
    /\ almostDead = NULL
    /\ dirty = FALSE
    /\ pending = <<>> /\ terminal = <<>>
    /\ phase = "start"
    /\ loaded = <<>> /\ deleted = <<>> /\ appended = <<>> /\ saved = TRUE
    /\ handling = {} /\ ended = NULL /\ torn = FALSE

\* hstr_interactive: prioritized_history_create and history_mgmt_open.  The
\* ranking is any order of the commands, and may lack those that are too long.
Load ==
    /\ phase = "start" /\ Len(historyFile) > 0
    /\ historyList' = historyFile
    /\ rawItems' = Reverse(Commands(historyFile))
    /\ \E ranked \in SUBSET (ToSet(Commands(historyFile)) \ Blacklist) :
            items' \in SetToSeqs(ranked)
    /\ dirty' = FALSE
    /\ phase' = "loop"
    /\ loaded' = historyFile /\ appended' = <<>>
    /\ UNCHANGED <<isZsh, isTiocsti, historyFile, almostDead, pending, terminal, deleted,
                   saved, ends>>

\* "No history - nothing to suggest..."
LoadNothing ==
    /\ phase = "start" /\ historyFile = <<>>
    /\ phase' = "exited"
    /\ UNCHANGED <<store, pending, terminal, ghosts, ends>>

\* remove_from_history_model of a command in the selection, confirmed: the
\* views are pruned, and readline's list if the raw view had the command.
PrunedRanked_Kept(cmd) == items
PrunedRanked(cmd) == Without(items, cmd)

Prune ==
    /\ phase = "loop"
    /\ \E cmd \in ToSet(rawItems) \cup ToSet(items) :
        /\ rawItems' = Without(rawItems, cmd)
        /\ items' = PrunedRanked(cmd)
        /\ deleted' = Append(deleted, cmd)
        /\ IF Len(rawItems') < Len(rawItems)
           THEN /\ historyList' = Swept(cmd, historyList)
                /\ IF Len(historyList') < Len(historyList)
                   THEN almostDead' = cmd /\ phase' = "pruned"
                   ELSE UNCHANGED <<almostDead, phase>>
           ELSE UNCHANGED <<historyList, almostDead, phase>>
    /\ UNCHANGED <<isZsh, isTiocsti, historyFile, dirty, pending, terminal, loaded,
                   appended, saved, ends>>

\* write_history, which replaces the file or fails, unnoticed.
Written_Appended == historyFile \o historyList
Written == historyList

WriteHistory ==
    /\ phase = "pruned"
    /\ \/ historyFile' = Written /\ appended' = <<>> /\ saved' = TRUE
       \/ UNCHANGED <<historyFile, appended>> /\ saved' = FALSE
    /\ phase' = "written"
    /\ UNCHANGED <<isZsh, isTiocsti, historyList, rawItems, items, almostDead, dirty,
                   pending, terminal, loaded, deleted, ends>>

Dirtied_Never == FALSE
Dirtied == TRUE

MarkDirty ==
    /\ phase = "written"
    /\ dirty' = Dirtied
    /\ almostDead' = NULL
    /\ phase' = "loop"
    /\ UNCHANGED <<isZsh, isTiocsti, historyFile, historyList, rawItems, items, pending,
                   terminal, ghosts, ends>>

-----------------------------------------------------------------------------
\* The calls of fill_terminal_input at the end of loop_to_select, for the key
\* that ended it.  result is the call for a command or for what the user has
\* typed, or none if that is nothing.  A line to be edited may be padded.
Injected(keyOfExit, result, padded) ==
    CASE keyOfExit = "enter" -> result \o IF result = <<>> THEN <<>> ELSE <<<<"newline">>>>
      [] keyOfExit = "left"  -> <<<<"fc quote">>>> \o result \o <<<<"quote">>, <<"newline">>>>
      [] keyOfExit = "tab"   -> result \o IF padded THEN <<<<"newline">>>> ELSE <<>>
      [] OTHER               -> <<>>

\* history_mgmt_flush.
Reload == <<"history -r", "newline">>
Flushed_Always == <<Reload>>
Flushed == IF dirty /\ ~isZsh THEN <<Reload>> ELSE <<>>

Exit ==
    /\ phase = "loop"
    /\ \E keyOfExit \in {"enter", "left", "tab", "ctrl-g", "ctrl-x"},
          result \in {<<>>, <<<<"result">>>>}, isSubshellHint \in BOOLEAN :
        /\ pending' = Injected(keyOfExit, result,
                               ~isTiocsti /\ ~isSubshellHint /\ result # <<>>)
        /\ ended' = keyOfExit
        /\ dirty' = IF keyOfExit = "ctrl-g" THEN FALSE ELSE dirty
    /\ phase' = "inject"
    /\ UNCHANGED <<isZsh, isTiocsti, historyFile, historyList, rawItems, items, almostDead,
                   terminal, ghosts, handling, torn>>

Inject ==
    /\ phase \in {"inject", "flush"} /\ pending # <<>>
    /\ terminal' = terminal \o Head(pending)
    /\ pending' = Tail(pending)
    /\ UNCHANGED <<store, phase, ghosts, ends>>

Flush ==
    /\ phase = "inject" /\ pending = <<>>
    /\ pending' = Flushed
    /\ phase' = "flush"
    /\ UNCHANGED <<store, terminal, ghosts, ends>>

\* hstr_exit, during which a signal may still come.
Leave ==
    /\ \/ phase = "flush" /\ pending = <<>> /\ phase' = "exit"
       \/ phase = "exit" /\ phase' = "exited"
    /\ UNCHANGED <<store, pending, terminal, ghosts, ends>>

\* What a call that is interrupted has put into the terminal: bytes, where one
\* goes after the other, so that a word may be cut.
SingleByte == {"newline", "quote"}
Arrived(call) ==
    {SubSeq(call, 1, n) : n \in 0 .. Len(call) - 1}
        \cup {Append(SubSeq(call, 1, n), "part") :
                n \in {m \in 0 .. Len(call) - 1 : call[m + 1] \notin SingleByte}}

\* signal_callback_handler_ctrl_c, installed by loop_to_select: wherever hstr is,
\* also in the handler of the other signal, it flushes and exits.
Signal ==
    /\ phase \in {"loop", "pruned", "written", "inject", "flush", "exit"}
    /\ \E signum \in Signum \ handling : handling' = handling \cup {signum}
    /\ IF isTiocsti /\ pending # <<>>
       THEN \E bytes \in Arrived(Head(pending)) : terminal' = terminal \o bytes
       ELSE UNCHANGED terminal
    /\ torn' = (torn \/ pending # <<>>)
    /\ pending' = Flushed
    /\ phase' = "flush"
    /\ UNCHANGED <<store, ghosts, ended>>

\* history_mgmt_remove_last_history_entry: "the last command + the command
\* that was used to run HSTR", by their places from the end of the list.
KilledLast(list) == SubSeq(list, 1, Len(list) - 2)

KillLast ==
    /\ phase = "start"
    /\ historyList' = historyFile /\ loaded' = historyFile
    /\ historyFile' = IF Len(historyFile) > 1 THEN KilledLast(historyFile) ELSE historyFile
    /\ phase' = "exited"
    /\ ended' = "kill"
    /\ UNCHANGED <<isZsh, isTiocsti, rawItems, items, almostDead, dirty, pending, terminal,
                   deleted, appended, saved, handling, torn>>

\* Another shell that shares the file adds what was run in it; what comes when
\* hstr has done with the file is left out.
ShellAppends ==
    /\ phase \in {"loop", "pruned", "written"}
    /\ Len(appended) < MaxAppends
    /\ \E line \in AppendedLine :
        /\ historyFile' = Append(historyFile, line)
        /\ appended' = Append(appended, line)
    /\ UNCHANGED <<isZsh, isTiocsti, historyList, rawItems, items, almostDead, dirty,
                   pending, terminal, phase, loaded, deleted, saved, ends>>

Next ==
    \/ Load \/ LoadNothing \/ Prune \/ WriteHistory \/ MarkDirty
    \/ Exit \/ Inject \/ Flush \/ Leave \/ Signal \/ KillLast \/ ShellAppends

Spec == Init /\ [][Next]_vars

-----------------------------------------------------------------------------
\* The types: the views hold commands, never the lines of the file or the
\* timestamps (parse_history_line, is_hist_timestamp).
TypeOK ==
    /\ historyFile \in Seq(Line) /\ historyList \in Seq(Line) /\ loaded \in Seq(Line)
    /\ rawItems \in Seq(Command) /\ items \in Seq(Command)
    /\ almostDead \in Command \cup {NULL}
    /\ dirty \in BOOLEAN
    /\ phase \in {"start", "loop", "pruned", "written", "inject", "flush", "exit", "exited"}
    /\ handling \subseteq Signum

\* The views and readline's list are three copies of one history: the raw view
\* is the list backwards, the ranking has no command twice and none the list
\* has lost.  The views hold pointers into the list, so that a command that is
\* in a view and not in the list is freed memory.
ViewsAgree ==
    ended # "kill" =>
        /\ rawItems = Reverse(Commands(historyList))
        /\ IsInjective(items)
        /\ ToSet(items) \subseteq ToSet(rawItems)

\* Deleting a command takes every line that says it and the timestamps right
\* before those lines, and nothing else.
Dead(list, n, cmd) ==
    \/ Says(list[n], cmd)
    \/ list[n] \in Timestamp /\ n < Len(list) /\ Says(list[n + 1], cmd)
Survivors(list, cmd) ==
    FlattenSeq([n \in DOMAIN list |-> IF Dead(list, n, cmd) THEN <<>> ELSE <<list[n]>>])

OnlyDeletedGone == ended # "kill" => historyList = FoldLeft(Survivors, loaded, deleted)

\* Between two keys, and when hstr has ended by one, the file is what hstr has
\* in memory, with what the shells have appended since: nothing of what was
\* deleted comes back, and nothing that was kept is missing.
FileIsList ==
    (phase \in {"loop", "inject"} /\ saved) => historyFile = historyList \o appended

\* Once a deletion is in the file and bash still has the old history in memory,
\* it is told to read the file again, unless the user left by Ctrl-g or a signal
\* came before the deletion was noted.
ReloadTold ==
    (phase = "exited" /\ ~isZsh /\ deleted # <<>>) =>
        \/ IsSuffix(Reload, terminal)
        \/ ended = "ctrl-g"
        \/ handling # {} /\ almostDead # NULL

\* ... and it is told so only when something was deleted, in a line of its own,
\* and once, or once more for each signal that came while hstr was ending.  A
\* command chosen by TAB is still on the line (see TabLetsEdit), and so is what
\* the calls had put there that a signal cut short.
ReloadRunsAlone ==
    LET reloads == {n \in DOMAIN terminal : terminal[n] = "history -r"}
    IN  /\ reloads # {} => ~isZsh /\ deleted # <<>>
        /\ \A n \in reloads : n = 1 \/ terminal[n - 1] = "newline" \/ ended = "tab" \/ torn
        /\ Cardinality(reloads) <= 1 + Cardinality(handling)

-----------------------------------------------------------------------------
\* What the manual says and the code does not do.

\* TAB and RIGHT: "Choose currently selected item for completion and let user
\* edit it on the command prompt".
TabLetsEdit ==
    (phase = "exited" /\ ended = "tab" /\ isTiocsti /\ handling = {}
        /\ "result" \in ToSet(terminal)) => "newline" \notin ToSet(terminal)

\* --kill-last-command: "Delete the last command", and the one that ran hstr.
KillLastDeletesLast ==
    (ended = "kill" /\ Len(Commands(loaded)) > 1 /\ Last(loaded) \notin Timestamp) =>
        Commands(historyFile) = Front(Front(Commands(loaded)))
=============================================================================
