---------------------------- MODULE Subsequences ----------------------------
(***************************************************************************)
(* The elements of a sequence at some of its indices.                      *)
(***************************************************************************)
EXTENDS Integers, Sequences

\* The elements of s at the indices in J, in their order.
Subsequence(s, J) ==
  LET taken[n \in 0 .. Len(s)] ==
        IF n = 0 THEN << >>
        ELSE IF n \in J THEN Append(taken[n - 1], s[n])
        ELSE taken[n - 1]
  IN  taken[Len(s)]

=============================================================================
