--------------------------- MODULE MCValueClient ---------------------------
(***************************************************************************)
(* Two contexts, so that handles of both meet in one call, and indices two *)
(* bits wide, so that an array is longer than the signed half of them.     *)
(***************************************************************************)
EXTENDS ValueClient, TLC

MCIndex == "k" :> 2
Symmetry == Permutations(Ctx) \cup Permutations(Slot) \cup Permutations(ContextVar)

=============================================================================
