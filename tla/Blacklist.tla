------------------------------- MODULE Blacklist -------------------------------
(***************************************************************************)
(* A run of hstr around its main loop: hstr_main, which may ask whether to *)
(* go on if it cannot inject commands, the option it is given              *)
(* (hstr_getopt), and hstr_exit, which destroys what hstr_init made.  The  *)
(* blacklist (hstr_blacklist.c, kept in a hashset.c set) is loaded in some *)
(* of the runs and written back in all of them.  Runs follow one another;  *)
(* a run may be killed.                                                    *)
(***************************************************************************)
EXTENDS HashSet

CONSTANTS
    Default,     \* defaultCommandBlacklist, in its order
    MaxRetries,  \* max_retries
    MaxLines     \* bound: the lines of the file at the start

Command == Key

ASSUME DefaultAssumption  == Default \in Seq(Command)
ASSUME RetriesAssumption  == MaxRetries \in Nat \ {0}
ASSUME MaxLinesAssumption == MaxLines \in Nat

VARIABLES
    file,        \* ~/.hstr_blacklist, NULL when there is none
    useFile,     \* does HSTR_CONFIG say "blacklist"?
    option,      \* of the command line
    set, isLoaded,   \* blacklist->set, blacklist->isLoaded
    phase,       \* "off", "check", "select" (waiting for an answer), "selected",
                 \* "options", "load", "loop", "exit" or "saving"
    ret, retries,    \* of show_tiocsti_configuration_warning
    before,      \* history: the file as the run found it
    killed       \* history: was the last run killed while it was writing?

asked == <<ret, retries>>
vars  == <<file, useFile, option, set, isLoaded, phase, asked, before, killed>>

\* No file: a value that no file has, as only a line can be partial.
NULL == [lines |-> <<>>, partial |-> TRUE]

\* Options after which hstr goes on: none, --favorites and --non-interactive.
Going   == {"none", "favorites", "non-interactive"}
\* Options that print or inject something, or change the history, and exit:
\* --kill-last-command, --insert-in-terminal, --version, --is-tiocsti, --help,
\* --show-configuration and its two variants, and what is no option.
Exiting == {"kill", "insert", "version", "tiocsti", "help", "configuration", "invalid"}
Option  == Going \cup Exiting \cup {"show-blacklist"}
\* Options with which nothing is asked.
Unasked == Option \ {"none", "favorites", "invalid"}

-----------------------------------------------------------------------------
\* The commands of a file: the lines that end.
Listed(f) == IF f.partial THEN Front(f.lines) ELSE f.lines

\* blacklist_load, which notes that it has loaded only the default.
Load_IgnoresFile(f) == Default
Load(f) == IF useFile /\ f # NULL THEN Listed(f) ELSE Default

LoadBlacklist ==
    IF isLoaded THEN UNCHANGED <<set, isLoaded>>
    ELSE /\ set' = FoldLeft(hashset_put, set, Load(file))
         /\ isLoaded' = (~useFile \/ file = NULL)

Init ==
    /\ \/ file = NULL
       \/ \E lines \in BoundedSeq(Command, MaxLines), partial \in BOOLEAN :
            /\ partial => lines # <<>>
            /\ file = [lines |-> lines, partial |-> partial]
    /\ useFile \in BOOLEAN
    /\ option = "none"
    /\ set = hashset_init /\ isLoaded = FALSE
    /\ phase = "off"
    /\ ret = "none" /\ retries = 0
    /\ before = file
    /\ killed = FALSE

\* A run begins, with the configuration and the option it will find.
Start ==
    /\ phase = "off"
    /\ useFile' \in BOOLEAN /\ option' \in Option
    /\ set' = hashset_init /\ isLoaded' = FALSE
    /\ phase' = "check"
    /\ ret' = "none" /\ retries' = 0
    /\ before' = file /\ killed' = FALSE
    /\ UNCHANGED file

\* hstr_main: nothing to ask, because commands can be injected (TIOCSTI), the
\* environment tells that they cannot or that this is known, an option or a
\* later argument goes without, or nobody is at stdin.
Check ==
    /\ phase = "check"
    /\ \E known, laterArgument, stdinTty, stderrTty \in BOOLEAN :
         phase' = IF known \/ laterArgument \/ option \in Unasked \/ ~stdinTty THEN "options"
                  ELSE IF stderrTty THEN "select" ELSE "off"
    /\ UNCHANGED <<file, useFile, option, set, isLoaded, asked, before, killed>>

\* select: an answer, or none for 30 seconds, or a signal, or an error.
Select ==
    /\ phase = "select"
    /\ ret' \in {"input", "timeout", "interrupted", "error"}
    /\ phase' = "selected"
    /\ UNCHANGED <<file, useFile, option, set, isLoaded, retries, before, killed>>

\* The rest of the loop, and what follows it: hstr goes on if the answer is "c".
Decide_NotCounted ==
    /\ phase = "selected"
    /\ phase' = CASE ret = "interrupted" -> "select"
                  [] ret = "input" -> "options"
                  [] OTHER -> "off"
    /\ UNCHANGED <<file, useFile, option, set, isLoaded, asked, before, killed>>
Decide ==
    /\ phase = "selected"
    /\ retries' = IF ret = "interrupted" THEN retries + 1 ELSE retries
    /\ IF ret = "interrupted" /\ retries' < MaxRetries THEN phase' = "select"
       ELSE \E continue \in BOOLEAN :
              phase' = IF ret = "input" /\ continue THEN "options" ELSE "off"
    /\ UNCHANGED <<file, useFile, option, set, isLoaded, ret, before, killed>>

\* hstr_getopt: the first option is looked at, and only it.
GetOpt ==
    /\ phase = "options"
    /\ IF option = "show-blacklist" THEN LoadBlacklist ELSE UNCHANGED <<set, isLoaded>>
    /\ phase' = IF option \in Going THEN "load" ELSE "exit"
    /\ UNCHANGED <<file, useFile, option, asked, before, killed>>

LoadAndRun ==
    /\ phase = "load"
    /\ LoadBlacklist
    /\ phase' = "loop"
    /\ UNCHANGED <<file, useFile, option, asked, before, killed>>

\* hstr_interactive returns, or the signal handler calls hstr_exit.
Leave ==
    /\ phase = "loop"
    /\ phase' = "exit"
    /\ UNCHANGED <<file, useFile, option, set, isLoaded, asked, before, killed>>

\* hstr_destroy: blacklist_destroy opens the file, which empties it, if it has
\* something to write or the file is there ...
Saves == useFile /\ (set.currentSize # 0 \/ file # NULL)

Destroy ==
    /\ phase = "exit"
    /\ IF Saves
       THEN file' = [lines |-> <<>>, partial |-> FALSE] /\ phase' = "saving"
       ELSE UNCHANGED file /\ phase' = "off"
    /\ UNCHANGED <<useFile, option, set, isLoaded, asked, before, killed>>

\* ... and writes the keys of the set.
Save_AllButLast ==
    /\ phase = "saving"
    /\ file' = [lines |-> SubSeq(hashset_keys(set), 1, set.currentSize - 1), partial |-> FALSE]
    /\ phase' = "off"
    /\ UNCHANGED <<useFile, option, set, isLoaded, asked, before, killed>>
Save ==
    /\ phase = "saving"
    /\ file' = [lines |-> hashset_keys(set), partial |-> FALSE]
    /\ phase' = "off"
    /\ UNCHANGED <<useFile, option, set, isLoaded, asked, before, killed>>

\* The run is killed, or a write fails: what it has written by then stays.
Kill ==
    /\ phase # "off"
    /\ phase' = "off"
    /\ killed' = (phase = "saving")
    /\ IF phase = "saving"
       THEN \E n \in 0 .. set.currentSize, partial \in BOOLEAN :
              /\ partial => n > 0
              /\ file' = [lines |-> SubSeq(hashset_keys(set), 1, n), partial |-> partial]
       ELSE UNCHANGED file
    /\ UNCHANGED <<useFile, option, set, isLoaded, asked, before>>

Next ==
    \/ Start \/ Check \/ Select \/ Decide \/ GetOpt \/ LoadAndRun \/ Leave \/ Destroy
    \/ Save \/ Kill

\* select returns after its timeout at the latest, and hstr goes on from there.
Spec == Init /\ [][Next]_vars /\ WF_vars(Select) /\ WF_vars(Decide)

-----------------------------------------------------------------------------
\* The types; the set is well formed, with its keys each in the list of its hash,
\* once, and counted, whatever the file repeats (hashset.c:60); and isLoaded, which
\* a load of the file does not set, says that the set has the default blacklist
\* (hstr_blacklist.c:45).
TypeOK ==
    /\ file.lines \in Seq(Command)
    /\ useFile \in BOOLEAN
    /\ WellFormed(set)
    /\ isLoaded => \A command \in ToSet(Default) : hashset_contains(set, command)
    /\ option \in Option
    /\ phase \in {"off", "check", "select", "selected", "options", "load", "loop", "exit",
                 "saving"}

\* The history is indexed with the blacklist the configuration asks for, whatever
\* runs came before: the commands of the file, if it is to be used and there is
\* one, or else the default (blacklist_load).  The file counts as this run found
\* it: what an earlier one lost, killed while it saved, is not asked for here.
Applied ==
    phase = "loop" =>
        \A command \in Command :
            hashset_contains(set, command) <=>
                command \in ToSet(IF useFile /\ before # NULL THEN Listed(before) ELSE Default)

\* A run that indexed the history leaves the commands of the file as they were,
\* and a file that was not there is made of the default; a run that is not
\* configured to use the file does not touch it.
SessionKeepsFile ==
    (phase = "off" /\ ~killed) =>
        /\ ~useFile => file = before
        /\ (useFile /\ option \notin Exiting /\ file # before) =>
                ToSet(Listed(file)) = ToSet(IF before # NULL THEN Listed(before) ELSE Default)

\* "blacklist": "Load list of commands to skip when processing history from
\* ~/.hstr_blacklist": a run that has nothing to do with it leaves it alone.
OptionKeepsFile ==
    (phase = "off" /\ ~killed /\ option \in Exiting /\ before # NULL) =>
        ToSet(Listed(before)) \subseteq ToSet(Listed(file))

\* show_tiocsti_configuration_warning (hstr.c:297): the wait for an answer is
\* begun anew when a signal interrupts it, but however many signals come, it ends.
AskingEnds == phase = "select" ~> phase \notin {"select", "selected"}
=============================================================================
