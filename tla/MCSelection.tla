------------------------------ MODULE MCSelection ------------------------------
(***************************************************************************)
(* Every view of up to three rows and every pattern of up to three         *)
(* characters, for hstr_make_selection; and for hstr_strelide every line   *)
(* of up to five characters, or of up to six bytes in any order.           *)
(***************************************************************************)
EXTENDS SelectionCall, Elision, TLC

MCLower == ("a" :> "a") @@ ("A" :> "a") @@ ("b" :> "b") @@ (" " :> " ") @@ ("[" :> "[")

\* "a", "bA" and "ba b": "a" is found at the start, inside, and not at all.
MCLines == {<<"a">>, <<"b", "A">>, <<"b", "a", " ", "b">>}

\* One column in two bytes, none in two, and two columns in three.
MCLeadLength == ("e'" :> 2) @@ ("mark" :> 2) @@ ("wide" :> 3)
MCLeadWidth  == ("e'" :> 1) @@ ("mark" :> 0) @@ ("wide" :> 2)

MCTexts == {Encoded(text) : text \in BoundedSeq(Character, 5)}
                \cup BoundedSeq({"a", "wide", Continuation}, 6)

\* One call of either function, with the least the other can have.
Init == \/ line = <<>> /\ maxColumns = 0 /\ bufferSize = 1 /\ ElisionInit /\ CallInit
        \/ /\ listed = <<>> /\ prefix = <<>> /\ CallInit
           /\ settings.capacity = 0 /\ settings.matching = "substring"
           /\ ~settings.caseSensitive /\ ~settings.noDuplicates
           /\ ElisionInit

Next == \/ Make /\ UNCHANGED elisionVars
        \/ Elide /\ UNCHANGED callVars

Spec == Init /\ [][Next]_<<callVars, elisionVars>>
=============================================================================
