------------------------------- MODULE MCPrompt -------------------------------
(***************************************************************************)
(* A prompt of up to four columns and a buffer for seven bytes: full, with *)
(* characters of two bytes, before the row is.  Command lines of up to     *)
(* three characters begin with a pattern that fits, is too wide, or is cut *)
(* within a character.                                                     *)
(***************************************************************************)
EXTENDS Prompt, TLC

MCLeadLength == ("e'" :> 2) @@ ("mark" :> 2) @@ ("wide" :> 3)
MCLeadWidth  == ("e'" :> 1) @@ ("mark" :> 0) @@ ("wide" :> 2)

MCCommandLines == BoundedSeq(Character, 3)
=============================================================================
