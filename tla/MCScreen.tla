------------------------------- MODULE MCScreen -------------------------------
(***************************************************************************)
(* The configurations hstr_get_env_configuration can make: the history     *)
(* label is never hidden alone.  A terminal has from one row, too few for  *)
(* most of them, to five: two more than the prompt and both labels need,   *)
(* and enough without labels for a page to jump over an item.              *)
(***************************************************************************)
EXTENDS Screen, TLC

CONSTANTS ls, pwd, make

MCConfigs == {c \in Config : c.hideHistoryHelp => c.hideBasicHelp}
MCMatches == {<<>>, <<pwd, ls>>, <<make, pwd, ls>>}
=============================================================================
