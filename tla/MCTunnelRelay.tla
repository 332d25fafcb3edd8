--------------------------- MODULE MCTunnelRelay ---------------------------
(***************************************************************************)
(* Two peers that send up to two bytes each, in every combination of       *)
(* endings, with at most one of them not accepting bytes.                  *)
(***************************************************************************)
EXTENDS TunnelRelay

MCStreams == {<< >>, <<"a">>, <<"a", "b">>}
MCStallable == {{}, {"client"}, {"remote"}}

=============================================================================
