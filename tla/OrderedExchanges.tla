-------------------------- MODULE OrderedExchanges --------------------------
(***************************************************************************)
(* What a client may rely on when it sends several requests over one       *)
(* connection of the proxy, whatever connections the proxy uses behind it: *)
(* one exchange at a time, in the order of the requests, each with the     *)
(* host its request names.  The promise holds with orderly servers.        *)
(***************************************************************************)
EXTENDS Integers, Sequences

CONSTANT NoHost

VARIABLES
  wanted,    \* the hosts of the client's requests
  orderly,   \* the servers answer each request once
  state,     \* of the exchange: see the actions
  current,   \* the request of the exchange, or of the last one
  host       \* the server it is held with

vars == <<wanted, orderly, state, current, host>>

Init == state = "idle" /\ current = 0 /\ host = NoHost

\* The next request reaches the server it names.
Begin(to) ==
  /\ state = "idle" /\ current < Len(wanted)
  /\ current' = current + 1 /\ host' = wanted[current']
  /\ state' = to

Ask == Begin("asked")

\* A CONNECT request is answered by the proxy itself.
Connect == Begin("tunnel")

\* The final response begins, from the server that was asked.
Answer ==
  /\ state = "asked"
  /\ state' \in {"answering", "idle", "closing"}
  /\ UNCHANGED <<current, host>>

\* The response is delivered to its end, and the connection kept or not.
Deliver ==
  /\ state = "answering"
  /\ state' \in {"idle", "closing"}
  /\ UNCHANGED <<current, host>>

\* The session ends, at any time.
End == state # "ended" /\ state' = "ended" /\ UNCHANGED <<current, host>>

Next ==
  /\ UNCHANGED <<wanted, orderly>>
  /\ orderly => Ask \/ Connect \/ Answer \/ Deliver \/ End

Spec == Init /\ [][Next]_vars

=============================================================================
