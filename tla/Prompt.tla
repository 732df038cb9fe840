-------------------------------- MODULE Prompt --------------------------------
(***************************************************************************)
(* The pattern that loop_to_select lets the user edit: a buffer of bytes,  *)
(* drawn in the columns of the prompt's row that the prompt leaves free.   *)
(* A character comes from the terminal as its bytes, one key each, and is  *)
(* appended byte by byte; the byte that completes it decides whether it    *)
(* fits.                                                                   *)
(***************************************************************************)
EXTENDS Utf8

CONSTANTS
    CommandLines,   \* the command lines hstr may be called with, as characters
    BufferSize,     \* PATTERN_BUFFER_LNG
    Widths          \* the columns a terminal may leave for the pattern

ASSUME CommandLinesAssumption == CommandLines \subseteq Seq(Character)
ASSUME BufferAssumption == BufferSize \in Nat \ {0}
ASSUME WidthsAssumption == Widths \subseteq Nat /\ Widths # {}

VARIABLES
    pattern,
    width,     \* width - basex - 1, read from the terminal before the loop
    columns,   \* the same of the terminal as it is now
    keys,      \* the bytes the terminal has still to deliver of a character
    key,       \* history: that character
    earlier    \* history: the pattern before that character

promptVars == <<pattern, width, columns, keys, key, earlier>>

NoKey == "no key"

ASSUME NoKeyAssumption == NoKey \notin Character

\* strncpy of the command line, which may cut a character.
Copied(s) == SubSeq(s, 1, IF Len(s) < BufferSize THEN Len(s) ELSE BufferSize - 1)

PromptInit ==
    /\ width \in Widths /\ columns = width
    /\ \E text \in CommandLines : pattern = Copied(Encoded(text))
    /\ keys = <<>> /\ key = NoKey /\ earlier = pattern

\* The user types a character.
Press ==
    /\ keys = <<>>
    /\ \E c \in Character : key' = c /\ keys' = Bytes(c)
    /\ earlier' = pattern
    /\ UNCHANGED <<pattern, width, columns>>

\* The key is a byte of it: the default of the switch.
Type_WidthOffByOne ==
    /\ keys # <<>>
    /\ pattern' = StrcatCharFitting(pattern, BufferSize, Head(keys), width + 1)
    /\ keys' = Tail(keys)
    /\ key' = IF keys' = <<>> THEN NoKey ELSE key
    /\ UNCHANGED <<width, columns, earlier>>
Type ==
    /\ keys # <<>>
    /\ pattern' = StrcatCharFitting(pattern, BufferSize, Head(keys), width)
    /\ keys' = Tail(keys)
    /\ key' = IF keys' = <<>> THEN NoKey ELSE key
    /\ UNCHANGED <<width, columns, earlier>>

Backspace ==
    /\ keys = <<>> /\ pattern # <<>>
    /\ pattern' = Chop(pattern)
    /\ earlier' = pattern'
    /\ UNCHANGED <<width, columns, keys, key>>

\* Ctrl-u and Ctrl-w
ClearPattern ==
    /\ keys = <<>>
    /\ pattern' = <<>> /\ earlier' = <<>>
    /\ UNCHANGED <<width, columns, keys, key>>

\* The terminal is resized: the loop does not read its width again.
ResizeTerminal ==
    /\ columns' \in Widths
    /\ UNCHANGED <<pattern, width, keys, key, earlier>>

PromptNext == Press \/ Type \/ Backspace \/ ClearPattern \/ ResizeTerminal

PromptSpec == PromptInit /\ [][PromptNext]_promptVars

-----------------------------------------------------------------------------
\* The types: the pattern ends within its buffer.
TypeOK ==
    /\ pattern \in Seq(Byte) /\ earlier \in Seq(Byte)
    /\ Len(pattern) < BufferSize
    /\ width \in Widths /\ columns \in Widths
    /\ keys \in Seq(Byte)
    /\ key \in Character \cup {NoKey}

\* No key makes the pattern outgrow its row, or wider where the command line was
\* too long for it from the start: as long as the terminal is not narrower than
\* it was when the loop read its width.
NeverWider ==
    [][columns >= width /\ StrWidth(pattern') > columns =>
        StrWidth(pattern') <= StrWidth(pattern)]_promptVars

\* The user edits characters and not bytes: the line is the pattern before the
\* character whose bytes are coming in.
Edited == IF keys = <<>> THEN pattern ELSE earlier

Line == INSTANCE CharacterLine WITH text <- TextOf(Edited), typed <- key

\* The line fits, and the buffer has room for the character coming in.
Sound ==
    /\ WellFormed(Edited) /\ StrWidth(Edited) <= width
    /\ keys # <<>> => Len(earlier) + CharLength(key) < BufferSize

\* What is done to the bytes of the pattern is what the keys mean for a line of
\* characters: each is appended whole if it fits and leaves no trace if it does
\* not, and backspace takes a whole one.
EditsCharacters ==
    [][Sound => /\ Line!Next \/ UNCHANGED Line!vars
                /\ WellFormed(Edited')]_promptVars
=============================================================================
