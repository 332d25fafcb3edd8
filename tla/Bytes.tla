------------------------------- MODULE Bytes -------------------------------
(***************************************************************************)
(* Bytes of a TCP stream.  A byte is a string, so that the characters the  *)
(* code looks at can be written down and all others can be told apart.     *)
(***************************************************************************)
EXTENDS Integers, Sequences

Byte == STRING

=============================================================================
