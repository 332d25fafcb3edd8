----------------------------- MODULE DuplexPipe -----------------------------
(***************************************************************************)
(* What a CONNECT tunnel promises: two independent byte pipes that deliver *)
(* in order and that end together.  A step delivers more of one direction  *)
(* or closes both; nothing is delivered after that.                        *)
(***************************************************************************)
EXTENDS Bytes

CONSTANT Direction

VARIABLES sent,        \* per direction, all bytes its sender sends
          delivered,   \* per direction, how much of it was passed on
          closed

vars == <<sent, delivered, closed>>

Init == /\ sent \in [Direction -> Seq(Byte)]
        /\ delivered = [d \in Direction |-> << >>]
        /\ closed = FALSE

Deliver(d) ==
  /\ ~closed
  /\ \E n \in Len(delivered[d]) + 1 .. Len(sent[d]) :
       delivered' = [delivered EXCEPT ![d] = SubSeq(sent[d], 1, n)]
  /\ UNCHANGED <<sent, closed>>

Shut == ~closed /\ closed' = TRUE /\ UNCHANGED <<sent, delivered>>

Next == (\E d \in Direction : Deliver(d)) \/ Shut

Spec == Init /\ [][Next]_vars

=============================================================================
