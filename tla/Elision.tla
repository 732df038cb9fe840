-------------------------------- MODULE Elision --------------------------------
(***************************************************************************)
(* One call of hstr_strelide, by which a row of the screen gets its part   *)
(* of a line: a line of any bytes, for any columns and any buffer.         *)
(***************************************************************************)
EXTENDS Utf8

CONSTANTS
    Texts,        \* the lines
    MaxColumns,   \* the columns of a row
    MaxBuffer     \* the bytes of the buffer

ASSUME TextsAssumption == Texts \subseteq Seq(Byte)
ASSUME RoomAssumption    == MaxColumns \in Nat /\ MaxBuffer \in Nat

VARIABLES line, maxColumns, bufferSize, elided, cut

elisionVars == <<line, maxColumns, bufferSize, elided, cut>>

ElisionInit ==
    /\ line \in Texts
    /\ maxColumns \in 0 .. MaxColumns
    /\ bufferSize \in 1 .. MaxBuffer
    /\ elided = [prefix |-> 0, dots |-> FALSE, suffix |-> 0] /\ cut = FALSE

Elide ==
    /\ ~cut
    /\ elided' = Elided(line, bufferSize, maxColumns)
    /\ cut' = TRUE
    /\ UNCHANGED <<line, maxColumns, bufferSize>>

ElisionSpec == ElisionInit /\ [][Elide]_elisionVars

-----------------------------------------------------------------------------
\* What hstr_strelide makes of a line ends within its buffer, whatever the bytes
\* are.  Of characters it keeps the most that fits, from both ends, none twice and
\* no part of one: with "..." in between they take no more columns than there are;
\* a line that fits is kept whole, and when one is cut, a character more on either
\* side would not fit.  No mark is left at the dots without its character.
ElidedCorrect ==
    cut =>
        LET length     == Len(line)
            boundaries == {n \in 0 .. length : n = length \/ line[n + 1] # Continuation}
            dots       == IF elided.dots THEN 3 ELSE 0
            begin      == elided.prefix
            end        == length - elided.suffix
            taken      == WidthOf(line, 0, begin) + dots + WidthOf(line, end, length)
            bytes      == begin + dots + elided.suffix
            half       == IF elided.dots THEN maxColumns \div 2 - 1 ELSE maxColumns
            Next(n)    == NextCharOffset(line, n)
            Visible(n) == WidthOf(line, n, Next(n)) > 0
        IN  /\ bytes < bufferSize
            /\ WellFormed(line) =>
                /\ {begin, end} \subseteq boundaries /\ begin <= end /\ taken <= maxColumns
                /\ StrWidth(line) <= maxColumns /\ length < bufferSize => begin = length
                /\ begin < length =>
                    WidthOf(line, 0, Next(begin)) > half \/ Next(begin) + dots >= bufferSize
                /\ elided.suffix > 0 => Visible(end)
                /\ \A n \in boundaries : elided.dots /\ n < end /\ Visible(n) =>
                    taken + WidthOf(line, n, end) > maxColumns \/ bytes + end - n >= bufferSize
=============================================================================
