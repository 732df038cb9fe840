----------------------------- MODULE MCInteractive -----------------------------
(***************************************************************************)
(* Two commands, one of them twice in the raw view, the other a favorite   *)
(* the history no longer has, and patterns of one letter, which one        *)
(* command starts with and the other has inside in the other case.         *)
(***************************************************************************)
EXTENDS Interactive, TLC

MCLower   == ("a" :> "a") @@ ("A" :> "a") @@ ("b" :> "b")
MCUpper   == ("a" :> "A") @@ ("A" :> "A")

a  == <<"a">>
bA == <<"b", "A">>

MCRawItems  == <<bA, bA>>
MCItems     == <<bA>>
MCFavorites == <<a>>

\* Two configurations in which no setting is the same.
MCConfigurations ==
    {[noDuplicates |-> TRUE,  noConfirm |-> TRUE,  promptBottom |-> FALSE,
      reorderOnChoice |-> TRUE],
     [noDuplicates |-> FALSE, noConfirm |-> FALSE, promptBottom |-> TRUE,
      reorderOnChoice |-> FALSE]}
=============================================================================
