------------------------------ MODULE HistoryItems ------------------------------
(***************************************************************************)
(* What deleting a command makes of the views of the history, rawItems and *)
(* items of HistoryItems (hstr_history.c).                                 *)
(***************************************************************************)
EXTENDS Integers, Sequences, SequencesExt

\* history_mgmt_remove_from_raw and history_mgmt_remove_from_ranked: every
\* occurrence goes, and the others close up.
Without(list, cmd) ==
    LET Keep(kept, other) == IF other # cmd THEN Append(kept, other) ELSE kept
    IN  FoldLeft(Keep, <<>>, list)
=============================================================================
