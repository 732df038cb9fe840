------------------------------ MODULE MCBlacklist ------------------------------
(***************************************************************************)
(* Three commands, two of them of one hash; a file of up to three lines    *)
(* can repeat a command and list it before or after the other of its hash. *)
(***************************************************************************)
EXTENDS Blacklist, TLC

CONSTANTS ls, pwd, make

MCHash    == (ls :> 1) @@ (pwd :> 0) @@ (make :> 1)
MCDefault == <<ls, pwd>>
=============================================================================
