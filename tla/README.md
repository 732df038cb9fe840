# Verification of HSTR

TLA+ models of [HSTR](https://github.com/dvorka/hstr), the interactive history
suggest box for bash and zsh: what it makes of the shell's history, what its
keys do, and what it leaves in the files it shares with the shell. The modules
are checked by TLC on small instances. With TLAPS every safety property that a
passing run checks, and both refinements, are proved for every instance: of the
radix sorter and the index of the history made with it, of deletions and what
the shell is told of them, of the search and the loop over the keys, of the
favorites and the blacklist with their files, of the pattern edited byte by
byte, of the lines that are cut to fit a row, and of the screen.

Paths and line numbers are those of the repository (`src/hstr.c` is
`src/src/hstr.c` in `PROJECT.json`).

## The system

One process, one thread, started by a key binding of the shell, and ended by
the key that chooses a command. It reads three files and writes them back
whole; other shells and other instances of HSTR write them meanwhile. The only
asynchronous code in the process is a handler of SIGINT and SIGQUIT.

| Part | Source | State | Operations | Correct when |
|---|---|---|---|---|
| radix sorter | `radixsort.c` | slots of chains, per-slot `min`/`max`/`size`, `maxKey` | add, cut, dump | the bounds, which cut leaves stale, never hide an item from dump |
| history index | `hstr_history.c` | rank map, sorter, raw history | `prioritized_history_create` | ranking and raw view are what the history says |
| history management | `hstr_history.c`, end of `loop_to_select` | readline's list, the views, the file, `dirty`, terminal input | delete, flush, signal, kill the last command | three copies of one history agree; the shell is told to reload |
| selection | `hstr_make_selection`, `hstr_selection.c`, `hstr_regexp.c` | array of pointers into a view, compiled expressions, cursor | match, add, cursor step/index/move | the first rows that match, each once |
| interactive loop | `loop_to_select` | pattern, modes, selection, screen, cursor | one for each key | what is highlighted is what a key acts on |
| favorites | `hstr_favorites.c` | list, set, file | load, add, choose, remove, save | unique, ordered, and what was saved is loaded |
| blacklist | `hstr_blacklist.c` | set, file | load, save | applied when configured; the file survives |
| program run | `hstr_main`, `hstr_getopt`, `hstr_exit` | options, configuration | ask whether to go on, start, exit | the question ends; exits leave the files right |
| hash set | `hashset.c` | lists of keys by hash, a count | put, contains, keys | a finite set |
| strings | `hstr_utils.c` | - | width, chop, append, elide, unmetafy | characters are never cut, lines fit |
| prompt | `loop_to_select`, `hstr_strcat_char_fitting` | the pattern's bytes, the width of its row | type, backspace, clear | bytes are edited as characters |
| layout | `recalculate_max_history_items` | the rows of prompt, labels and items | recalculate | each row has one owner |
| screen | `print_*`, `hstr_print_selection`, `highlight_selection` | what is in each row | print, clear, highlight | the rows show what is the case |
| terminal injection | `hstr_utils.c` | TIOCSTI or stderr | `fill_terminal_input` | in the order of the calls |

The history index drives the sorter; its two arrays are the views. The
selection holds *pointers* into a view, the raw view pointers into readline's
list: whoever changes one of the three has to bring the others along. The loop
keeps the cursor as a *row of the screen* and computes the item under it from
the number of rows and the size of the selection at the moment of the key.
Deleting goes from the selection through both views and readline's list to the
file, then to `dirty`, and from there, when HSTR ends, as `history -r` to the
terminal, behind the command that was chosen. The screen is a copy too, of
selection, cursor, modes and sizes: each key draws what it takes to be changed,
over what earlier keys have left.

What is hard here: stale bounds and stale copies (sorter, rank map, selection,
screen, expression cache); a signal between the steps of a deletion or of the
injection; writes over what others have appended; failed and partial writes; a
key read by the wrong reader; the limit of the radix keys; exits that save what
was never loaded; a wait that signals begin anew; characters of several bytes
that arrive one byte at a time, at the edge of a row or a buffer; terminals with
hardly a row. `PROJECT.json` lists these hazards with the properties that
would show them.

## The modules

| Module | Models | Notes |
|---|---|---|
| `RadixSort` | `radixsort.c` | add, cut and dump; dump step by step (a slot, a row of a slot), so that its progress can be stated |
| `RankedList` | what the sorter promises | a sequence of items by falling key, the newest of equals first |
| `RankedSorter` | the refinement mapping of the two | the chains, read from the largest key down, are the list |
| `RadixSortProofs` | theorems about `RadixSort` and `RankedSorter` | |
| `HistoryItems` | `history_mgmt_remove_from_raw`, `..._from_ranked` | an operator, used by `HistoryManagement`, `Interactive` and, for what the raw view is to be, `HistoryIndex` |
| `HistoryIndex` | `prioritized_history_create` | an `INSTANCE` of `RadixSort`: a line that was seen is a cut, then an add; the loop's local variables are its state |
| `HistoryIndexProofs` | theorems about `HistoryIndex` | an `INSTANCE` of `RadixSortProofs`, whose lemmas it uses for each step of the sorter |
| `HistoryManagement` | deletion, injection, flush, signals, `--kill-last-command` | the process, the other shells, and the terminal as the sequence of what is put into it |
| `HistoryManagementProofs` | theorems about `HistoryManagement` | |
| `Selection` | `hstr_make_selection`, `hstr_regexp.c`, `hstr_selection_add` | operators; the two loops are two folds |
| `SelectionCall` | one call of `hstr_make_selection` | any view, pattern, cache and settings; the interactive and the other modes call it |
| `SelectionCursor` | the rest of `hstr_selection.c` | operators |
| `FavoriteItems` | the list of `hstr_favorites.c` | operators, used by `Favorites` and `Interactive` |
| `OperatorProofs` | lemmas about folds, `HistoryItems` and `FavoriteItems`, a theorem about `SelectionCursor` | used by all the proofs but those of `RadixSort` |
| `Interactive` | `loop_to_select` | an action for each key; extends `Selection`, `SelectionCursor`, `FavoriteItems`, `HistoryItems` |
| `InteractiveProofs` | theorems about `SelectionCall` and `Interactive` | |
| `Utf8` | the functions of `hstr_utils.c` on UTF-8 strings | operators; recursive functions over offsets |
| `Elision` | one call of `hstr_strelide` | any line of bytes, any columns and buffer |
| `CharacterLine` | what the user takes the pattern for | a line of whole characters, some keys of which are refused |
| `Prompt` | the pattern in `loop_to_select` | a key for each byte; shown to implement `CharacterLine` |
| `ScreenLayout` | `recalculate_max_history_items`, `hstr_print_selection` | operators: which row is whose, in four layouts |
| `Screen` | what `loop_to_select` draws for each key | extends `ScreenLayout`; the rows, and a notification that is taken away later |
| `ScreenProofs` | theorems about what the terminal shows: `ScreenLayout`, `Screen`, `Prompt`, `Elision` | |
| `Favorites` | `hstr_favorites.c` with its file | two processes; the file is emptied at open and filled at close |
| `FavoritesProofs` | theorems about `Favorites` | |
| `HashSet` | `hashset.c` | operators on a record of lists and a count |
| `Blacklist` | `hstr_main`, `hstr_getopt`, `hstr_exit`, `hstr_blacklist.c` | sequences of runs, each with the question it may ask; a run may be killed while it saves; extends `HashSet` |
| `BlacklistProofs` | theorems about `HashSet` and `Blacklist` | |

`MC*` modules give constants their values; `MCSelection` also puts the two
modules of a single call, `SelectionCall` and `Elision`, into one run. What a
selection is to be is `FirstMatches` in `Selection`, a definition without loops.
An operator whose name has an underscore (`Larger_Newest`, `Swept_Forward`, ...)
is a plausible mistake in the definition that follows it. None is used by a
specification; each property was seen to fail with one of them in the place of
the definition (`mutants` of `PROJECT.json`).

Conventions: a variable has the name of the C variable it stands for; variables
listed under "history variables" record the past for the properties and no
action reads them, but to bound what the environment does (`appended`) and to
carry them on. C arrays of items are sequences; what the C code finds by a
pointer is found by the value, since both come from the same place. `fault`
marks where C leaves its defined behaviour: the access out of `topDigits`, the
walk through `NULL`. Variables such as `amiss` in `Screen` and `missedResize` in
`Interactive` mark what the code is known to leave undone, so that a property
can say that nothing else is.

### What is abstracted

- Commands, lines and favorites are model values, except in `Selection` and
  `Interactive`, where they are short sequences of characters, to be matched.
- `parse_history_line` and `zsh_unmetafy` are a function from lines to commands
  that two lines may share. The rule of `is_hist_timestamp` is membership in a
  set of lines. Empty lines do not occur: readline drops them while reading.
- The logarithm in the rank is a table of the values the code computes.
  `log(0)` is minus infinity; its conversion is undefined in C and gives 0 on
  the platforms HSTR is built for. Ranks do not wrap: at
  10·ln(position) + length for each occurrence, 2^32 is far over the key limit.
- A regular expression is literal text, or one that does not compile.
- Ctrl-l makes the pattern lower case or upper case, in turn. In `Interactive` it is
  either, each time: every sequence of keys does what it does in the code, and may
  do more.
- In `Interactive` the screen is the rows for items: the command in each, and
  which are highlighted. `Screen` has all rows, but takes any of a few lists for
  what a search selects, and one bit for the modes and sizes that the history
  label tells. Notifications are one value: what they say is left out, and so are
  columns and colours. A resize keeps the rows that are still there and adds
  blank ones, as curses does. Whether a deletion is to be confirmed is a free
  choice.
- In `Utf8` a lead byte stands for all characters of its length and width; a
  byte that is no character takes one column.
- The hash of `HashSet` is any function given; the history index and the cache of
  expressions use their hash set as a set or a function.
- What a process writes to the favorites goes over the file line by line, when it
  is closed. In C it is bytes that are overlaid, which may split a line of another
  writer, and a list longer than the buffer of stdio is in the file in part before
  `fclose`. A file that two have written is one no property says anything of, but
  that what it loads as has nothing twice.
- `select` in `Blacklist` returns any of its results; what follows a timeout or
  an error is the same.
- In `HistoryManagement` the ranking is *any* order of commands that are in the
  history and not in the blacklist (`HistoryIndex` says which), and a command is
  deleted from either view without the selection in between (`Interactive` has
  it). In `Interactive` the file is left out. The two meet in
  `remove_from_history_model`: its half on views and its half on the history.
- What is put into the terminal is a sequence of words. A signal may come between
  two calls of `fill_terminal_input`, between two words of a call, or within a
  word of several bytes, which leaves a `"part"`; where there is no TIOCSTI a call
  prints in one piece. Which command was chosen is left out.
- `write_history` replaces the file or fails.

## What is checked

Runs that pass:

| Run | Bounds | States | Shows |
|---|---|---|---|
| `RadixSort.cfg` | 3 items, slots of 2 keys, limit 4, keys 0..5 | 32 693 | the inductive invariant; bounds cover items; dump is complete, ordered, in its buffer and ends; a cut of a filed item succeeds; only a key at the limit overruns; refinement of `RankedList` |
| `HistoryIndex.cfg` | up to 5 lines of 3 commands and a timestamp, limit 20 | 48 636 | the views are what a definition over the whole history says; rank map and sorter agree; only a rank at the limit makes it fail; the index is always made |
| `HistoryManagement.cfg` | up to 3 lines of 4, or two commands with their timestamps; one appended line; two signals, with symmetry | 3.26 million | views, list and file agree; exactly the deleted lines and their timestamps go; `history -r` is sent when it must be, as a line of its own, and once or once more for a signal |
| `Selection.cfg` | views of up to 3 rows, patterns of up to 3 characters of 5; lines of up to 5 characters of 0, 1 and 2 columns or 6 arbitrary bytes, up to 9 columns and buffers of up to 15 bytes | 3.10 million | the selection is the first rows that match, in the order documented, distinct unless duplicates are to be shown or were matched by a regular expression; an elided line keeps the most that fits and no part of a character |
| `Interactive.cfg` | 2 raw rows, 1 ranked, 1 favorite the history does not have, 1 or 2 rows on the screen, patterns of up to 1 character, two opposite configurations | 255 720 | the selection is what its view now has for the pattern it was made by; views consistent; what is highlighted is what DEL deletes and ENTER runs |
| `Prompt.cfg` | characters of 1, 2 and 3 bytes, rows of 1, 2 and 4 columns, a buffer of 8, command lines of up to 3 characters | 19 500 | no key makes a pattern outgrow its row; editing bytes is editing characters |
| `Screen.cfg` | 12 configurations, terminals of 1, 3, 4 and 5 rows, up to 3 items | 96 920 | each row has one owner; whatever keys came before, the screen is as if drawn anew, but for the rows excused below |
| `Favorites.cfg` | 2 processes, 3 lines one of which is a comment, lists of up to 3 | 34 122 | favorites unique; what one process wrote alone loads as its list, in a process that skips comments without these; operations keep the order of the rest |
| `Blacklist.cfg` | 3 commands in 2 lists, 2 of them default, files of up to 3 lines, 10 retries | 87 340 | the set is well formed; a session uses the right blacklist, and its file says the same afterwards; the question of `hstr_main` is left however many signals come |

Why the bounds are enough. A slot of the sorter behaves in a way of its own with
none, one, two and more items, and its bounds go stale when an item between
others, or at the edge, is cut: three items over two slots and keys on both
sides of the limit have all of these. Five lines let a command occur, be ranked
three times and pass the limit while another one stays under it, with a
timestamp to compact over. Three lines hold a command twice around a timestamp,
or two timestamps in a row, and the longer files a command twice, each time with
its timestamp. Three rows, in `Selection.cfg`, hold a duplicate, a row that
starts with the pattern and one that has it inside, in either order, for fewer
rows of the screen than match. In `Interactive.cfg` the raw view has a
duplicate, the favorites come to have both commands in either order, every view
can become empty, and one and two rows make the screen shorter and longer than a
view, and the page keys (`PG_JUMP_SIZE` is kept at 10) leave it at either edge.
Two writers are what it takes to garble a file.

An elided line of five characters has one on each side of the dots and one to
drop, with marks in any of the places; nine columns are enough for dots with two
columns on each side and one over. A pattern of two-byte characters fills the
buffer of `Prompt.cfg` before it fills the row of four columns, one of wide
characters the row before the buffer. In `Screen.cfg`, a terminal of three rows
has none for items under both labels, and of one row is too small for any label;
five rows show two items or more. Two keys of the blacklist share a list of the
hash set, the third is alone; ten retries are the constant of the code.

`CHECK_DEADLOCK FALSE` stands where the program really ends: dump done, index
made, HSTR left, a terminal too small.

Fairness. `RadixSort!FairSpec` has weak fairness of the steps of dump only, for
`DumpTerminates`: a caller that has called dump waits for it, but need not call
anything. `HistoryIndex!Spec` has it for its whole next step: a loop in a thread
that nothing can block. `Blacklist!Spec` has it for `Select` and `Decide`:
`select` returns after its 30 seconds, if nothing comes before. Nothing else is
assumed to be fair; the user need not press a key.

Runs in which TLC finds a promise of the documentation broken by the code
(`findings` of `PROJECT.json` has the quotations):

| Run | Property | What happens |
|---|---|---|
| `TabAfterDelete.cfg` | `TabLetsEdit` | DEL, then TAB: `history -r` and a newline are put behind the command that was to be edited |
| `KillLast.cfg` | `KillLastDeletesLast` | with timestamps in the file, `-k` removes `#123...` and one command |
| `BlacklistLost.cfg` | `OptionKeepsFile` | `hstr --version` empties `~/.hstr_blacklist` |

Other differences between what is written and what is done, which the models
have in them and for which there is no run:

- a signal while a chosen command is being put into the terminal joins what is
  there with `history -r`, and one that comes after the flush sends it again
  (`Signal`; `torn` in `ReloadRunsAlone`);
- a deletion writes the list read at the start over what other shells have
  appended since (`WriteHistory`);
- matches of regular expressions are stored without `hstr_selection_add`, so
  that duplicates are not discarded (`FirstPass`);
- Ctrl-l takes the cursor to the prompt and leaves the row highlighted
  (`ToggleCase`);
- Ctrl-u and Ctrl-w ("delete pattern and search again") do not search again
  (`ClearPattern`). `SelectionFresh` speaks of the pattern of the last search,
  kept in the history variable `searched`, for this reason;
- a resize while a deletion is to be confirmed is taken for an answer, and the
  rows shown are then not those a key acts on (`ConfirmOther`, and the history
  variable `missedResize`, which the properties of `Interactive` except);
- `regexp.caseSensitive` is never initialized: both values are initial states;
- an expression compiled before Ctrl-t keeps its case sensitivity in the cache
  (`Cached` in `Selection`);
- favorites that are skipped as comments are deleted from the file by the next
  save (`Loaded`, `Saving`). A process that skips comments also adds commands that
  begin with `#` and saves them: it does not load them again, and its next save
  deletes them. `SavedIsLoaded` therefore promises what was saved, whole, to the
  processes that load all lines (the default, `man/hstr.1:142`), and to the others, the
  one that saved it among them, the same list without the comments;
- `assert(radixItem)` (`hstr_history.c:244`) says that a command met again is in the
  sorter, but a rank over the limit may have lost it. `NDEBUG` is defined in
  line 21, and the next line tests `radixItem`: the command is then not ranked
  again (`ReadLost`). Only a cut that walks an empty chain goes through `NULL`
  (`fault`, and `FaultOnlyAtLimit`);
- a byte that makes the pattern too wide is chopped with what it continues: when
  the pattern was too wide before, typing a character of two bytes after one of
  two bytes first drops the new lead byte, and then, with the second, the
  character that was there, though `hstr_strcat_char_fitting` returns `false`, "if
  s was not changed" (`hstr_utils.c:238`). A buffer that is full within a
  character keeps the bytes it has. `Sound` exempts both from `EditsCharacters`;
- the width of the prompt is read once: after the terminal was made narrower,
  patterns outgrow it (`width` and `columns` in `Prompt`);
- of bytes that are no characters an elided line may take more columns than there
  are, unlike `hstr_utils.c:155` says ("the result never exceeds maxWidth
  columns"): `prefix_fitting` goes over up to four bytes at a time and
  `suffix_fitting` too, but from the other end, so that the two cut such bytes
  into different pieces. A piece that ends in the first bytes of a character has
  no width for them, and in the result they are followed by others. The pieces
  may even overlap: of `aaaa` and seven times the byte `E3`, 11 columns, for a
  row of 8, the code makes 14 columns, with one of the bytes twice. The result
  stays within the buffer. `ElidedCorrect` therefore promises the buffer for any
  bytes and the columns for characters only;
- without the basic help `promptYNotification` is never assigned, so that
  notifications go to row 0, the prompt's or an item's, unlike the comments at
  `hstr.c:581` say (`PromptYNotification`);
- the rows that `ScreenAsFresh` excuses, by `amiss`: on a terminal that has
  exactly the rows of prompt and labels, a search clears the labels on top
  (`"help"`, `"history"`); Ctrl-f leaves the count of favorites in a label on top as
  it was (`"history"`); Ctrl-l takes the cursor to the prompt and leaves the row
  highlighted (`"lit"`); a resize read as an answer (`"resize"`). Each excuses one
  kind of difference, in the row of that label or under that highlight, and ends
  when the code draws there again: the rows for items with any search, the history
  label with a rotation of modes, a deletion, an answer or a resize, the basic help
  when a notification is taken away. TLC finds `ScreenAsFresh` violated if any one
  of them is left out;
- a terminal with fewer rows than prompt and labels makes `promptItems` negative,
  and the callers take it for unsigned. There the model of the screen stops;
- the non-interactive mode prints at most as many favorites as the history has
  lines (`stdout_history_and_return` passes `rawCount` for every view).

## What is proved

Every theorem is of the form `Spec => []Inv`, or `Spec => [][A]_vars` for an
action property, unless another form is given. In each module an inductive
invariant `IInv` is proved first (the theorem `Invariant`, in `RadixSortProofs`
`InductiveInvariant`), with a lemma for every action.

| Module | Theorem | Property of the runs |
|---|---|---|
| `RadixSortProofs` | `InductiveInvariant` | `IInv` |
| | `BoundsSound`, `DumpIsCorrect`, `CutFindsFiled`, `OverrunOnlyByLimit` | `BoundsCoverItems`, `DumpCorrect`, `CutOfFiledSucceeds`, `OverrunOnlyAtLimit` |
| | `EqualKeysKeepOrder`, `DumpWalksList` | (`DumpFollowsChains`: of two items with one key the one added later comes first; `DumpFollowsList`) |
| | `SorterIsRankedList` (`Spec => ImplementsRankedList`) | `ImplementsRankedList` |
| `HistoryIndexProofs` | `TypeCorrect`, `OnlyTheLimitFails`, `FiledUnderTheirRank` | `TypeOK`, `FaultOnlyAtLimit`, `FiledUnderRank` |
| | `RawViewIsHistory`, `RankingIsCorrect` | `RawIsHistoryReversed`, `RankingCorrect` |
| `HistoryManagementProofs` | `TypeCorrect`, `ViewsStayInAgreement`, `OnlyDeletedIsGone` | `TypeOK`, `ViewsAgree`, `OnlyDeletedGone` |
| | `FileKeepsWhatIsKept`, `ShellIsTold`, `ShellIsToldAlone` | `FileIsList`, `ReloadTold`, `ReloadRunsAlone` |
| `InteractiveProofs` | `TypeCorrect`, `SelectionIsFresh`, `ViewsStayConsistent`, `CursorIsOnItem` | `TypeOK`, `SelectionFresh`, `ListsConsistent`, `CursorOnItem` |
| | `OnlyHighlightedDeleted`, `EnterRunsWhatIsHighlighted` | `DeletesOnlyHighlighted`, `EnterRunsHighlighted` |
| | `CallIsCorrect` (of `CallSpec`), `SelectsFirstMatches` (of `hstr_make_selection`) | `SelectionCorrect` |
| `FavoritesProofs` | `TypeCorrect`, `NoFavoriteTwice`, `WhatIsSavedIsLoaded`, `OneFavoriteAtATime` | `TypeOK`, `FavoritesUnique`, `SavedIsLoaded`, `OrderKept` |
| `BlacklistProofs` | `TypeCorrect`, `BlacklistIsApplied`, `SessionKeepsTheFile` | `TypeOK`, `Applied`, `SessionKeepsFile` |
| `ScreenProofs` | `RowsArePartitioned`, `ScreenStaysFresh` | `RowsPartition`, `ScreenAsFresh` |
| | `LayoutPartitions`, `RowShowsItsItem` | (of the operators of `ScreenLayout`) |
| | `PatternInBuffer`, `PatternNeverWider` (of `PromptSpec`) | `TypeOK`, `NeverWider` |
| | `PromptEditsCharacters` (`PromptSpec => EditsCharacters`) | `EditsCharacters` |
| | `ElisionIsCorrect` (of `ElisionSpec`) | `ElidedCorrect` |
| `OperatorProofs` | `MoveEndsOnItem` | (of the operators of `SelectionCursor`) |

### From which assumptions

The named assumptions of the modules, which TLC evaluates in the runs. Most say
of which type a constant is. The others:

- `RadixSort`: the items are finitely many, the slot size is positive, and the
  limit is at least one slot. `HistoryIndex` (`LimitAssumption`): the limit is a
  multiple of the slot size as well. `prioritized_history_create` estimates
  `radixMaxKeyEstimate` as 100000 or the size of the history times 1000, and
  `RADIX_SLOT_SIZE` is 1000. The rank of a position and the length of a command
  are any tables of natural numbers: nothing is used of the logarithm.
- `HistoryManagement`: `ParseHistoryLine` is any function from lines that are no
  timestamps to commands, one for each kind of shell. Lines, commands and the
  histories at the start need not be finitely many.
- `Interactive`: of the views it starts with, ranking and favorites have nothing
  twice, and the ranking has only commands of the history (`ViewsAssumption`);
  this is what `RankingIsCorrect` and `NoFavoriteTwice` say of the functions
  that make them. A row for items is not required: heights may be 0.
- `Favorites`: any set of processes. `Blacklist`: any hash function into any
  number of lists, any default.
- `Screen`: page size and heights are positive, the matches are sequences of
  commands, the configurations are records of booleans.
- `SelectionCall`: commands are sequences of characters (`LinesAssumption`).
- `Utf8`: bytes that are a character, those that begin one and the one that
  continues one are different; a character of several bytes has two to four, and
  up to two columns (`BytesAssumption`). `Elision` takes any sequences of these
  bytes for lines (`TextsAssumption`). `Prompt` starts with whole characters
  (`CommandLinesAssumption`), a buffer that is not empty (`BufferAssumption`), and
  a value that is no character for no key (`NoKeyAssumption`).
- `NULL` is none of the values it stands beside.

The bounds of the runs (`MaxLength`, `MaxLines`, `MaxPattern`, `MaxAppends`,
`MaxRows`, `MaxColumns`, ...) are constants in the theorems, of any value.

### Along which argument

**Sorter.** That dump loses no item (`BoundsCoverItems`, `DumpCorrect`) is not
inductive: `radix_dec_slot_descriptor_size` moves `min` to `max` when one item
is left *and the chain at `max` is not empty*. For this to be right the one
item must be in that chain, hence the size must be exact (`SizesExact`), every
item must be in the chain of its own key and only once (`ChainsWellFormed`),
and `max` and `min` must be keys of this slot, though stale (the second half of
`SizesExact`). `DumpProgress` says what dump has copied at each point and
counts what it has copied of a slot: the inner loop stops when the count
reaches the size, which loses nothing because both are cardinalities of sets of
items, one within the other. `EqualKeysKeepOrder` is an invariant beside it:
dump copies a chain from its head, and which of two items of a chain is ahead
(`Ahead`) no link or cut changes.

`SorterIsRankedList` maps the chains, from the largest key down, to the list.
Each chain is a row of the mapping (`Rows`); an add or a cut changes one row
(`RowChanged`), and the rows above and below it have larger and smaller keys,
which is what `RankedList` asks of the place of an insertion (`LinkIsAdd`) or
of what is left (`CutIsDelete`). A cut that misses and every step of dump but
the last are stutters. For the last one `DumpWalksList` says that what dump has
copied is the list of the chains it has been at, in the order of the list: dump
skips slots and rows by its bounds, and `BoundsCoverItems` says that what it
skips is empty.

**Index.** `IInv` of `HistoryIndexProofs` follows the loop over the lines: the
rankmap has the commands met (`MetAreRanked`) with the rank that the lines read
so far add up to, or one over the limit that no longer grows (`RanksAddUp`);
the sorter has exactly those whose rank fits, under that rank or, with big keys
floored, under the limit less one (`FiledAsRanked`); of two in one chain the
one ahead was used last (`NewestFirst`); and `rawHistory` has the lines read
(`RawRecorded`, `TimestampsCounted`). Between a cut and the add that follows it
the command is in the rankmap and not in the sorter (`Pending`): this is why
`FiledUnderRank` is stated between two lines. Each step of the loop does one of
three things to the sorter, nothing, a cut or an add (`StepKinds`), and the
lemmas of `RadixSortProofs` say what these do. At the end `DumpCorrect` and
`DumpFollowsChains` turn the invariant into `RankingCorrect`. The compaction of
`rawHistory` over itself is an induction of its own (`RawReady`).

**Deletions.** What the loop over readline's list removes (`Swept`) is shown to
be what `Survivors` says by an induction over its backward walk, in which a
timestamp is removed with the entry after it and the walk goes on two entries
further. The properties are about keys and signals that come later, so the
invariant says what is on its way in each phase: what a deletion has left to
note (`DeletionNoted`), that the calls which hand over a command have no
`history -r` in them and end the line (`HandingOver`), and from the flush on
that what the shell is to be told is the last call pending, or the end of what
the terminal has, and how often it has been sent (`HandedOver`): a signal
handler sends it once more, which the number of signals bounds. `FileFollows`
extends `FileIsList` to the step between the write and the flag.

**Selection.** `hstr_make_selection` walks the view twice, and each turn of
either loop may add the row it is at (`Taken`). `SelectsFirstMatches` says that
what the first walk has made of a beginning of the view is the first, as many
as there is room for, of what matches in it (`First` of `Listed`), and that the
second walk, which adds the rows the first has not, goes on from there: a
duplicate is dropped by `hstr_selection_add` as by the definition, a full array
stays as it is. For keywords, `KeywordsFound` says that each is found if all
that is between two spaces is.

**Keys.** That the selection is fresh is proved in two parts. The inductive one
(`Remade`) says that it is what `hstr_make_selection` would make *again*; what
this says of a deletion rests on a lemma (`SelectedAgain`): a search that is
repeated finds the same though the first has put the expression into the cache.
With `SelectsFirstMatches`, for the types of which `SearchInv` is needed,
`SelectionFresh` follows, which says what that is without loops. `CursorOnItem`
does not follow from itself: a key takes the cursor to another row, and the
properties speak of what that row shows. `ShownInv` says that *every* row shows
what a cursor in it stands for; then `MoveEndsOnItem` gives the row a key ends
on. With it `DeletesOnlyHighlighted` and `EnterRunsHighlighted` are about one
step each.

**Favorites.** `SavedIsLoaded` holds between a close and the next open of the
file. `OwnerInv` follows it there: who has written the file alone is the only
one saving, the file is empty until it closes it and then has its list. That
reading that file back gives the list is an induction over the lines
(`favorites_get` drops what it has already, of which there is none); that a
process which skips comments gets the others of the list, in their order, is
another (`LoadedButComments`: after each line it has a selection of the lines
before, and all of them that are no comments).

**Blacklist.** `hashset_keys` writes the lists of the hashes one after the
other: that these have the keys of the set, each once, and are as many as it
counts, is an induction over the hashes, and what is loaded one over the lines.
`IInv` then follows a run: until it writes it has left the file as it was
(`FileUntouched`), it has loaded nothing before `blacklist_load`, which would
otherwise be skipped (`NothingLoadedYet`), and has from then on what the
configuration asks for, but for the options that exit at once
(`WantedIsLoaded`).

**Screen.** `RowsArePartitioned` needs that the selection never has more items
than there are rows, which is not inductive by itself: a resize that is read as
an answer changes the rows and not the selection. `SelectionFits` therefore
says that it fits *or* that `amiss` has the resize; each action either selects
anew, for the rows there are then, or leaves both alone. `LayoutPartitions` and
`RowShowsItsItem` are proved by cases over the four layouts: when the terminal
has a row for the prompt and each label, they and the items share out the rows,
and the item drawn in a row is the one a cursor in it is taken for
(`hstr_print_selection` and `hstr_selection_index` compute one from the other,
in both directions). `MoveEndsOnItem`: wherever the cursor is, even past the
last item because rows or selection have shrunk, a navigation key takes it to
the row of an item, or to the prompt when there are none.

`ScreenStaysFresh`: no key draws the screen anew, so the invariant is the
property itself, row for row, for what the *next* keys need to know of it: the
rows are excused not only by what is amiss but also by what is on its way
(`Excuses`), a notification that the next key takes away or a question that
waits for its answer. `Shows` says what a row must show in terms of its owner.
Each drawing function has a lemma that says which rows it makes right and which
it leaves (`PrintedShows`, `HighlightedShows`, `LabelShows`, `TickedShows`,
`NotifiedShows`), and each key is a composition of these. Where a key draws
less than it changes, the difference is in `amiss`, which is never more than
the code leaves undone.

**Strings.** `hstr_strnwidth` goes through a string by steps whose length
depends on what it finds. `WalkExists` says that such a walk has a sum from
each offset on, by an induction from the end; what `mbrtowc` finds at an offset
does not depend on the bytes before (`DecodedBehind`), so that the width of
what follows can be split off (`WidthBehind`), and a string cut within a
character is not wider than the string (`PrefixNotWider`), though the character
that is cut counts differently. `PatternNeverWider` follows for any bytes: a
byte that is too much is taken away with what it continues.

**Prompt.** `PromptEditsCharacters` needs to know what a pattern is while a
character is coming in. `Arriving`: if the line was sound when its first byte
came, the pattern is that line followed by the bytes that have come, since the
first bytes of a character have no width (`PartHasNoWidth`) and the buffer has
room for all. The last byte then either makes it a character more, or makes it
too wide, and `hstr_chop` takes away that character and no other
(`ChopTakesCharacter`). The steps before are stutters of `CharacterLine`, as
the line edited is still the earlier one.

**Elision.** The three loops of `prefix_fitting` and `suffix_fitting` are
recursive functions on offset and width. What a loop computes is a `CHOOSE`:
`LoopExists` says that it exists when each turn leaves less to do, `LoopKeeps`
that what each turn keeps holds where it stops. That the result ends in the
buffer is kept for any bytes. For the columns, a string of characters is cut at
*boundaries* only, and between them widths add up (`WidthsAdd`). That needs the
string to be one that can be cut into two strings of characters at each
boundary, the next of which is no more than four bytes away (`Regular`); an
induction over the characters says that they all are (`EncodedRegular`). Prefix
and suffix then cannot meet: together they have the columns of the row less
those of the dots, and the whole line has more than the row. And a character
more on the right is one that the first loop of `suffix_fitting` has refused,
or a mark that the second has passed (`ElidedWithDots`).

**Folds.** Most of what is proved is about loops over a list, which the models
have as folds of the community modules: recursive functions, that is, a
`CHOOSE` of a function that satisfies the recursion. The provers cannot
instantiate the library's theorems of induction, which take the predicate as a
parameter. In `OperatorProofs` a predicate is a set: `NatSetInduction` says
that a set with 0 and the successor of each member has all numbers, as the set
of the others would have a least member. From it come that a function which
satisfies the recursion exists (`FoldExists`), that what each step keeps holds
at the end (`FoldInduction`) and that two folds with the same steps agree
(`SameSteps`). The lemmas named `...Steps` give the values of a particular
fold, element after element.

### What stays with TLC

Liveness, which the prover does not handle: `DumpTerminates`, `Completes`,
`AskingEnds`.

All other properties of the passing runs are proved. The three promises of the
documentation that the code breaks are properties of runs of their own.

## Not modelled

- Of `hstr_utils.c`: the names of host and shell, and `zsh_unmetafy`. Of
  `hstr_curses.c`: all, it starts and stops curses and sets colours.
- `radixsort_stat`, `hashset_stat`, `blacklist_dump` and the verbose modes, which
  print; the functions that only free.
- Columns: what is printed in a row, where in it the match is shown, and the
  text of labels and notifications.
- What the shell does with the terminal's input, or with the line that its
  function (`hstr.c:415`) takes from what HSTR prints where there is no TIOCSTI:
  that line is to be edited, with `history -r` in it after a deletion.
  `--insert-in-terminal` and the probe of the kernel.
- What happens on a terminal too small for prompt and labels.
- The signal handler's freeing of memory that the interrupted code may be using:
  in the model the process is gone after the handler.
- Rounding, overflow of `unsigned` ranks, out of memory.
- `regexp` errors: an expression that does not compile selects nothing; the
  message about it is never printed by the code either.

## Plan

1. Done: `RadixSort`, `RankedList`; `HistoryIndex`; `HistoryItems`,
   `HistoryManagement`; `Selection`, `SelectionCursor`, `Interactive`;
   `FavoriteItems`, `Favorites`; `HashSet`, `Blacklist`; `Utf8`, `CharacterLine`,
   `Elision`, `Prompt`; `ScreenLayout`, `Screen`. Proved: all invariants, action
   properties and refinements of these.
2. To compose: `Interactive` with `HistoryManagement` over one history, so that
   the pointers of the selection are checked down to readline's list; today they
   meet in the values, and a pointer is into the line of a command that is in the
   view (`ViewsAgree`, `SelectionFresh`). Likewise `Elision` with the rows of
   `Screen`, whose columns are left out.
3. To model: what remains under "Not modelled" and is not only printing, first
   `zsh_unmetafy`.
