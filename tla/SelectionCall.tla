----------------------------- MODULE SelectionCall -----------------------------
(***************************************************************************)
(* One call of hstr_make_selection, as the interactive and the             *)
(* non-interactive mode make it: any view, any pattern and any settings.   *)
(***************************************************************************)
EXTENDS Selection

CONSTANTS
    Lines,       \* the commands a view may have
    MaxRows,     \* the rows of a view, and of the screen
    MaxPrefix    \* the characters of a pattern

ASSUME LinesAssumption  == Lines \subseteq Seq(Char)
ASSUME BoundsAssumption == MaxRows \in Nat /\ MaxPrefix \in Nat

VARIABLES
    listed,      \* the view
    prefix,      \* what the user has typed
    settings,
    made,        \* hstr->selection
    returned     \* the call has returned

callVars == <<listed, prefix, settings, made, returned>>

\* The pattern may be in the cache, compiled before or after Ctrl-t.
Regexps(p) == [caseSensitive : BOOLEAN, cache : {[q \in {} |-> FALSE]}]
                \cup [caseSensitive : BOOLEAN,
                      cache : IF Compiles(p) THEN [{p} -> BOOLEAN] ELSE {}]

CallInit ==
    /\ listed \in BoundedSeq(Lines, MaxRows)
    /\ prefix \in BoundedSeq(Char, MaxPrefix)
    /\ \E r \in Regexps(prefix) :
        /\ settings \in [matching : Matchings, caseSensitive : BOOLEAN, regexp : {r},
                         noDuplicates : BOOLEAN, capacity : 0 .. MaxRows]
        \* the settings of the other modes of matching say nothing
        /\ settings.matching # "regexp" => DOMAIN r.cache = {} /\ ~r.caseSensitive
        /\ settings.matching = "regexp" => ~settings.caseSensitive
    /\ made = <<>> /\ returned = FALSE

Make ==
    /\ ~returned
    /\ made' = MakeSelection(listed, prefix, settings)
    /\ returned' = TRUE
    /\ UNCHANGED <<listed, prefix, settings>>

CallSpec == CallInit /\ [][Make]_callVars

-----------------------------------------------------------------------------
\* The two loops find no fewer rows than there are, in no other order, and none
\* twice because it starts with the pattern and has it inside.
SelectionCorrect == returned => made = FirstMatches(listed, prefix, settings)
=============================================================================
