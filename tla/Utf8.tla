--------------------------------- MODULE Utf8 ---------------------------------
(***************************************************************************)
(* The functions of hstr_utils.c that cut UTF-8 strings: a string is a     *)
(* sequence of bytes and is cut so that no character is split and that it  *)
(* takes no more than some columns of the terminal.                        *)
(*                                                                         *)
(* Of a byte it matters whether it is a character of its own (Ascii), the  *)
(* first of several (Lead) or one of the others (Continuation).  A lead    *)
(* byte stands for all characters of its length and width.  Offsets are    *)
(* counted from 0, as in the code: the bytes of s from offset a up to b    *)
(* are SubSeq(s, a + 1, b).                                                *)
(***************************************************************************)
EXTENDS Integers, Sequences, SequencesExt

CONSTANTS
    Ascii,        \* bytes that are a character of one column
    Lead,         \* bytes that begin a character of several bytes
    Continuation, \* the byte that continues one
    LeadLength,   \* the bytes of the character a lead byte begins
    LeadWidth     \* its columns: 0 for a combining mark, 2 for a wide character

ASSUME BytesAssumption ==
    /\ Ascii \cap Lead = {} /\ Continuation \notin Ascii \cup Lead
    /\ LeadLength \in [Lead -> 2 .. 4] /\ LeadWidth \in [Lead -> 0 .. 2]

MaxBytes == 4     \* UTF8_MAX_BYTES

Character == Ascii \cup Lead
Byte == Character \cup {Continuation}

CharLength(c) == IF c \in Lead THEN LeadLength[c] ELSE 1
CharWidth(c)  == IF c \in Lead THEN LeadWidth[c] ELSE 1
Bytes(c) == [k \in 1 .. CharLength(c) |-> IF k = 1 THEN c ELSE Continuation]

\* The bytes of a text, the characters of a string, and a string of whole ones.
Encoded(text) == FlattenSeq([n \in DOMAIN text |-> Bytes(text[n])])
TextOf(s) == FlattenSeq([n \in DOMAIN s |-> IF s[n] = Continuation THEN <<>> ELSE <<s[n]>>])
WellFormed(s) == s = Encoded(TextOf(s))

\* mbrtowc at offset i of s: what it finds there, decided by the bytes up to
\* the end of the character or of the string.
Decoded(s, i) ==
    LET end == i + CharLength(s[i + 1])
        seen == {j \in i + 1 .. Len(s) - 1 : j < end}
    IN  IF s[i + 1] = Continuation \/ \E j \in seen : s[j + 1] # Continuation
        THEN "invalid"
        ELSE IF end > Len(s) THEN "incomplete" ELSE "character"

\* hstr_strwidth: an incomplete character at the end has no width yet.
StrWidth(s) ==
    LET From[i \in 0 .. Len(s)] ==
            IF i = Len(s) \/ Decoded(s, i) = "incomplete" THEN 0
            ELSE IF Decoded(s, i) = "invalid" THEN 1 + From[i + 1]
            ELSE CharWidth(s[i + 1]) + From[i + CharLength(s[i + 1])]
    IN  From[0]

\* hstr_strnwidth(s + a, b - a)
WidthOf(s, a, b) == StrWidth(SubSeq(s, a + 1, b))

-----------------------------------------------------------------------------
\* next_char_offset: past the byte at start and what continues it.
NextCharOffset(s, start) ==
    LET Ends(n) == n = Len(s) \/ n - start = MaxBytes \/ s[n + 1] # Continuation
    IN  CHOOSE n \in start + 1 .. Len(s) :
            Ends(n) /\ \A m \in start + 1 .. n - 1 : ~Ends(m)

\* The same from the end: where the character begins that ends before offset
\* end.
CharStart(s, end) ==
    LET Begins(n) == n = 0 \/ end - n = MaxBytes \/ s[n + 1] # Continuation
    IN  CHOOSE n \in 0 .. end - 1 : Begins(n) /\ \A m \in n + 1 .. end - 1 : ~Begins(m)

\* prefix_fitting: the end of the longest prefix that fits.
PrefixFitting(s, maxWidth, maxBytes) ==
    LET From[at \in (0 .. Len(s)) \X Nat] ==
            LET end  == at[1]
                next == NextCharOffset(s, end)
                wide == at[2] + WidthOf(s, end, next)
            IN  IF end = Len(s) \/ wide > maxWidth \/ next > maxBytes THEN end
                ELSE From[<<next, wide>>]
    IN  From[<<0, 0>>]

\* suffix_fitting: the beginning of the longest suffix that fits ...
SuffixStart(s, maxWidth, maxBytes) ==
    LET From[at \in (0 .. Len(s)) \X Nat] ==
            LET start == at[1]
                first == CharStart(s, start)
                wide  == at[2] + WidthOf(s, first, start)
            IN  IF start = 0 \/ wide > maxWidth \/ Len(s) - first > maxBytes THEN start
                ELSE From[<<first, wide>>]
    IN  From[<<Len(s), 0>>]

\* ... and its length without the characters of no width it begins with.
SuffixFitting_KeepsMarks(s, maxWidth, maxBytes) == Len(s) - SuffixStart(s, maxWidth, maxBytes)
SuffixFitting(s, maxWidth, maxBytes) ==
    LET Visible[start \in 0 .. Len(s)] ==
            IF start = Len(s) \/ WidthOf(s, start, NextCharOffset(s, start)) > 0 THEN start
            ELSE Visible[NextCharOffset(s, start)]
    IN  Len(s) - Visible[SuffixStart(s, maxWidth, maxBytes)]

\* hstr_strelide: what is kept of s at the beginning and at the end, in bytes,
\* and whether "..." (three bytes and columns) is put in between.
Elided(s, bufferSize, maxWidth) ==
    LET maxBytes == bufferSize - 1
        dots     == StrWidth(s) > maxWidth /\ maxWidth > 3 /\ maxBytes >= 3
        prefix   == IF dots THEN PrefixFitting(s, maxWidth \div 2 - 1, maxBytes - 3)
                            ELSE PrefixFitting(s, maxWidth, maxBytes)
        suffix   == IF dots THEN SuffixFitting(s, maxWidth - WidthOf(s, 0, prefix) - 3,
                                               maxBytes - 3 - prefix)
                            ELSE 0
    IN  [prefix |-> prefix, dots |-> dots, suffix |-> suffix]

-----------------------------------------------------------------------------
\* hstr_chop: without the last character.  What does not begin with a lead
\* byte goes byte by byte.
Chop_LastByte(s) == SubSeq(s, 1, Len(s) - 1)
Chop(s) ==
    IF s = <<>> THEN s
    ELSE LET start == CharStart(s, Len(s))
             last  == IF s[start + 1] \in Lead THEN start ELSE Len(s) - 1
         IN  SubSeq(s, 1, last)

\* hstr_strcat_char: one byte more, if the buffer has room for it and for the
\* end of the string.
StrcatChar_NoRoomForEnd(s, bufferSize, c) == IF Len(s) >= bufferSize THEN s ELSE Append(s, c)
StrcatChar(s, bufferSize, c) == IF Len(s) + 1 >= bufferSize THEN s ELSE Append(s, c)

\* hstr_strcat_char_fitting
StrcatCharFitting(s, bufferSize, c, maxWidth) ==
    LET t == StrcatChar(s, bufferSize, c)
    IN  IF t # s /\ StrWidth(t) > maxWidth THEN Chop(t) ELSE t
=============================================================================
