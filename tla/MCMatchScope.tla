---------------------------- MODULE MCMatchScope ----------------------------
(***************************************************************************)
(* A request with two headers and a response with one: all the objects of  *)
(* ctx, an exception and the one its conversion throws fit into the heap.  *)
(***************************************************************************)
EXTENDS MatchScope

MCRequestNames == <<"x-a", "x-b">>
MCResponseNames == <<"x-a">>
MCIndex == [k \in {} |-> 0]

=============================================================================
