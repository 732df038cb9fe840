----------------------------- MODULE CharacterLine -----------------------------
(***************************************************************************)
(* What the prompt of hstr promises the user: a line of characters that    *)
(* never takes more than the columns it has.  A key adds its character at  *)
(* the end if it fits and changes nothing if it does not; backspace takes  *)
(* the last character away.                                                *)
(***************************************************************************)
EXTENDS Integers, Sequences, SequencesExt

CONSTANTS Character, CharWidth(_)

VARIABLES text,    \* the characters of the line
          typed,   \* the key being handled, NoKey between two
          width    \* the columns of the line

vars == <<text, typed, width>>

NoKey == "no key"

ColumnsOf(t) == FoldLeft(LAMBDA sum, c : CharWidth(c) + sum, 0, t)

Init ==
    /\ width \in Nat
    /\ text \in {t \in Seq(Character) : ColumnsOf(t) <= width}
    /\ typed = NoKey

Press(c) ==
    /\ typed = NoKey
    /\ typed' = c
    /\ UNCHANGED <<text, width>>

Insert ==
    /\ typed # NoKey
    /\ text' = IF ColumnsOf(text) + CharWidth(typed) <= width THEN Append(text, typed)
                                                                 ELSE text
    /\ typed' = NoKey
    /\ UNCHANGED width

Backspace ==
    /\ typed = NoKey /\ text # <<>>
    /\ text' = Front(text)
    /\ UNCHANGED <<typed, width>>

Clear ==
    /\ typed = NoKey
    /\ text' = <<>>
    /\ UNCHANGED <<typed, width>>

Next == (\E c \in Character : Press(c)) \/ Insert \/ Backspace \/ Clear

Spec == Init /\ [][Next]_vars
=============================================================================
