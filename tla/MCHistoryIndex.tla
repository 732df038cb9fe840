---------------------------- MODULE MCHistoryIndex ----------------------------
(***************************************************************************)
(* Histories of up to five lines over two ranked commands, a blacklisted   *)
(* one and timestamps, with the ranks the code computes: log(order)*10 is  *)
(* 0, 6, 10, 13, 16 for the orders 1 to 5. The limit is low enough for the *)
(* long command to pass it on its second or third occurrence.              *)
(***************************************************************************)
EXTENDS HistoryIndex

CONSTANTS ls, make, secret

MCLength == (ls :> 2) @@ (make :> 4) @@ (secret :> 6)
MCLogOrder == <<0, 6, 10, 13, 16>>
=============================================================================
