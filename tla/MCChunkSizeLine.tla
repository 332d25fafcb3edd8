-------------------------- MODULE MCChunkSizeLine --------------------------
(***************************************************************************)
(* Size lines over three digits, a blank, the semicolon of an extension,   *)
(* the two bytes of a line end and one byte that is none of these.         *)
(***************************************************************************)
EXTENDS SizeLineGrammar

MCAlphabet == {"0", "1", "F", ";", " ", "CR", "LF", "x"}

=============================================================================
