-------------------------- MODULE MCHistoryManagement --------------------------
(***************************************************************************)
(* Two commands and a timestamp.  The line zls is zsh's extended form of   *)
(* ls, which bash takes for a command of its own.                          *)
(***************************************************************************)
EXTENDS HistoryManagement, TLC

CONSTANTS ls, zls, make, stamp, SIGINT, SIGQUIT

MCParse ==
    (FALSE :> (ls :> ls @@ zls :> zls @@ make :> make))
      @@ (TRUE :> (ls :> ls @@ zls :> ls @@ make :> make))

\* Files of up to three lines, and those of two commands, each with its timestamp.
MCHistoryFiles ==
    BoundedSeq(Line, 3) \cup {<<stamp, a, stamp, b>> : a, b \in {ls, zls, make}}

\* The two signals are handled alike.
MCSymmetry == Permutations(Signum)
=============================================================================
