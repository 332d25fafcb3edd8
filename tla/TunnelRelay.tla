---------------------------- MODULE TunnelRelay ----------------------------
(***************************************************************************)
(* The CONNECT tunnel of HttpProxySession: RelayTunnelBidirectional runs   *)
(* ForwardViaTunnel twice, client to remote in a detached coroutine and    *)
(* remote to client in the session's own, over one pair of sockets.        *)
(*                                                                         *)
(* Both coroutines run on the one thread of the io_context, so they        *)
(* interleave only where one is suspended.  An operation on a socket goes  *)
(* through three moments: it is pending; it completes and its handler is   *)
(* queued; the handler resumes the coroutine.  The other coroutine may     *)
(* Close() the session at any of them: a pending operation is aborted, a   *)
(* queued result is still delivered.                                       *)
(***************************************************************************)
EXTENDS Bytes

CONSTANTS Streams,   \* byte sequences a peer may send
          Stallable, \* sets of peers that may stop accepting bytes
          MaxEarly   \* most bytes a read buffer holds at the start

ASSUME StreamsAssumption == Streams \subseteq Seq(Byte)
ASSUME MaxEarlyAssumption == MaxEarly \in Nat
ASSUME StallableAssumption == Stallable \subseteq SUBSET {"client", "remote"}

Direction == {"client_to_remote", "remote_to_client"}
Peer == {"client", "remote"}
From(d) == IF d = "client_to_remote" THEN "client" ELSE "remote"
To(d)   == IF d = "client_to_remote" THEN "remote" ELSE "client"
Other(d) == IF d = "client_to_remote" THEN "remote_to_client"
            ELSE "client_to_remote"

VARIABLES
  stream,     \* history: the bytes the sender of a direction sends
  ending,     \* what follows them: EOF, or an error, or silence
  stalled,    \* peers that accept no bytes
  source,     \* bytes not yet taken from the sender's socket
  received,   \* bytes of a read that completed and has not resumed
  buffer,     \* client_read_buffer_ and remote_read_buffer_
  written,    \* bytes of the pending async_write sent so far
  target,     \* bytes the receiver was sent
  pc,         \* where ForwardViaTunnel is, per direction
  open,       \* is_open() of the two sockets
  closed_,    \* the session's flag
  why         \* history: why a direction's loop was left

env == <<stream, ending, stalled>>
vars == <<env, source, received, buffer, written, target, pc, open, closed_,
          why>>

PCs == {"start", "reading", "read_done", "read_eof", "read_error",
        "writing", "write_done", "write_error", "ended"}

(***************************************************************************)
(* The tunnel is entered with both sockets open.  Either read buffer may   *)
(* hold bytes that arrived early: behind the CONNECT request, or from a    *)
(* remote whose connection is reused.                                      *)
(***************************************************************************)
Init ==
  /\ stream \in [Direction -> Streams]
  /\ ending \in [Direction -> {"eof", "reset", "open"}]
  /\ stalled \in Stallable
  /\ \E k \in [Direction -> 0 .. MaxEarly] :
       /\ \A d \in Direction : k[d] <= Len(stream[d])
       /\ buffer = [d \in Direction |-> SubSeq(stream[d], 1, k[d])]
       /\ source = [d \in Direction |->
                      SubSeq(stream[d], k[d] + 1, Len(stream[d]))]
  /\ received = [d \in Direction |-> << >>]
  /\ written = [d \in Direction |-> 0]
  /\ target = [d \in Direction |-> << >>]
  /\ pc = [d \in Direction |-> "start"]
  /\ open = [p \in Peer |-> TRUE]
  /\ closed_ = FALSE
  /\ why = [d \in Direction |-> "running"]

-----------------------------------------------------------------------------
(***************************************************************************)
(* Close(): once; both sockets, whoever calls it.                          *)
(***************************************************************************)
CloseRemoteOnly ==   \* mutant: the client socket is left to its destructor
  IF closed_ THEN UNCHANGED <<open, closed_>>
  ELSE /\ closed_' = TRUE
       /\ open' = [open EXCEPT !["remote"] = FALSE]

Close ==
  IF closed_ THEN UNCHANGED <<open, closed_>>
  ELSE /\ closed_' = TRUE
       /\ open' = [p \in Peer |-> FALSE]

\* The head of the loop: read when the buffer is empty, else write it all.
LoopHead(b) == IF b = << >> THEN "reading" ELSE "writing"

\* Leaving the loop closes the session.
Leave(d, reason) ==
  /\ pc' = [pc EXCEPT ![d] = "ended"]
  /\ why' = [why EXCEPT ![d] = reason]
  /\ Close

(***************************************************************************)
(* The coroutine's first step; the detached one may start later than the   *)
(* other one's first reads and writes, or after it ended.                  *)
(***************************************************************************)
StartInTurn(d) ==   \* mutant: the directions are awaited one after the other
  /\ d = "remote_to_client" => pc["client_to_remote"] = "ended"
  /\ pc[d] = "start"
  /\ pc' = [pc EXCEPT ![d] = LoopHead(buffer[d])]
  /\ UNCHANGED <<env, source, received, buffer, written, target, open,
                 closed_, why>>

Start(d) ==
  /\ pc[d] = "start"
  /\ pc' = [pc EXCEPT ![d] = LoopHead(buffer[d])]
  /\ UNCHANGED <<env, source, received, buffer, written, target, open,
                 closed_, why>>

-----------------------------------------------------------------------------
(***************************************************************************)
(* The pending read: completes with some bytes, with EOF or with an error; *)
(* an error of operation_aborted or bad_descriptor if the socket is gone.  *)
(***************************************************************************)
ReadCompletes(d) ==
  /\ pc[d] = "reading" /\ open[From(d)]
  /\ \E n \in 1 .. Len(source[d]) :
       /\ received' = [received EXCEPT ![d] = SubSeq(source[d], 1, n)]
       /\ source' = [source EXCEPT
                       ![d] = SubSeq(source[d], n + 1, Len(source[d]))]
  /\ pc' = [pc EXCEPT ![d] = "read_done"]
  /\ UNCHANGED <<env, buffer, written, target, open, closed_, why>>

ReadEof(d) ==
  /\ pc[d] = "reading" /\ open[From(d)]
  /\ source[d] = << >> /\ ending[d] = "eof"
  /\ pc' = [pc EXCEPT ![d] = "read_eof"]
  /\ UNCHANGED <<env, source, received, buffer, written, target, open,
                 closed_, why>>

ReadFails(d) ==
  /\ pc[d] = "reading"
  /\ ~open[From(d)] \/ ending[d] = "reset"
  /\ pc' = [pc EXCEPT ![d] = "read_error"]
  /\ UNCHANGED <<env, source, received, buffer, written, target, open,
                 closed_, why>>

(***************************************************************************)
(* The pending async_write: sends the buffer in pieces.                    *)
(***************************************************************************)
WriteSome(d) ==
  /\ pc[d] = "writing" /\ open[To(d)] /\ To(d) \notin stalled
  /\ \E n \in 1 .. Len(buffer[d]) - written[d] :
       /\ target' = [target EXCEPT
            ![d] = @ \o SubSeq(buffer[d], written[d] + 1, written[d] + n)]
       /\ written' = [written EXCEPT ![d] = @ + n]
  /\ pc' = IF written'[d] = Len(buffer[d])
             THEN [pc EXCEPT ![d] = "write_done"] ELSE pc
  /\ UNCHANGED <<env, source, received, buffer, open, closed_, why>>

\* The receiver resets the connection, or the socket was closed here.
WriteFails(d) ==
  /\ pc[d] = "writing"
  /\ ~open[To(d)] \/ ending[Other(d)] = "reset"
  /\ pc' = [pc EXCEPT ![d] = "write_error"]
  /\ UNCHANGED <<env, source, received, buffer, written, target, open,
                 closed_, why>>

-----------------------------------------------------------------------------
(***************************************************************************)
(* The io_context resumes the coroutine with the operation's result.       *)
(***************************************************************************)
ResumeReadAtEof(d) ==   \* mutant: EOF leaves the loop before the last write
  /\ pc[d] = "read_done"
  /\ buffer' = [buffer EXCEPT ![d] = @ \o received[d]]
  /\ received' = [received EXCEPT ![d] = << >>]
  /\ IF source[d] = << >> /\ ending[d] = "eof" THEN Leave(d, "eof")
     ELSE pc' = [pc EXCEPT ![d] = "writing"] /\ UNCHANGED <<open, closed_, why>>
  /\ UNCHANGED <<env, source, written, target>>

ResumeRead(d) ==
  /\ pc[d] = "read_done"
  /\ buffer' = [buffer EXCEPT ![d] = @ \o received[d]]
  /\ received' = [received EXCEPT ![d] = << >>]
  /\ pc' = [pc EXCEPT ![d] = "writing"]
  /\ UNCHANGED <<env, source, written, target, open, closed_, why>>

\* A whole buffer was written: consume it and go on.
ResumeWriteNoConsume(d) ==   \* mutant: buffer.consume() forgotten
  /\ pc[d] = "write_done"
  /\ written' = [written EXCEPT ![d] = 0]
  /\ pc' = [pc EXCEPT ![d] = LoopHead(buffer[d])]
  /\ UNCHANGED <<env, source, received, buffer, target, open, closed_, why>>

ResumeWriteKeepsCount(d) ==   \* mutant: the next write starts at an offset
  /\ pc[d] = "write_done"
  /\ buffer' = [buffer EXCEPT ![d] = << >>]
  /\ pc' = [pc EXCEPT ![d] = LoopHead(<< >>)]
  /\ UNCHANGED <<env, source, received, written, target, open, closed_, why>>

ResumeWrite(d) ==
  /\ pc[d] = "write_done"
  /\ buffer' = [buffer EXCEPT ![d] = << >>]
  /\ written' = [written EXCEPT ![d] = 0]
  /\ pc' = [pc EXCEPT ![d] = LoopHead(<< >>)]
  /\ UNCHANGED <<env, source, received, target, open, closed_, why>>

ResumeEnd(d) ==
  /\ \/ pc[d] = "read_eof" /\ Leave(d, "eof")
     \/ pc[d] \in {"read_error", "write_error"} /\ Leave(d, "error")
  /\ UNCHANGED <<env, source, received, buffer, written, target>>

-----------------------------------------------------------------------------
Kernel(d) == \/ ReadCompletes(d) \/ ReadEof(d) \/ ReadFails(d)
             \/ WriteSome(d) \/ WriteFails(d)
Resume(d) == Start(d) \/ ResumeRead(d) \/ ResumeWrite(d) \/ ResumeEnd(d)

\* Both loops were left: Run() returns and the session is destroyed.
Done == (\A d \in Direction : pc[d] = "ended") /\ UNCHANGED vars

Next == (\E d \in Direction : Kernel(d) \/ Resume(d)) \/ Done

(***************************************************************************)
(* Operations that can complete do, and queued handlers run.  A silent     *)
(* sender and a stalled receiver are waited for without a limit.           *)
(***************************************************************************)
Spec == /\ Init /\ [][Next]_vars
        /\ \A d \in Direction : WF_vars(Kernel(d)) /\ WF_vars(Resume(d))

-----------------------------------------------------------------------------
(***************************************************************************)
(* Types of the relay's state; a write stays inside its buffer.            *)
(***************************************************************************)
TypeOK ==
  /\ stream \in [Direction -> Seq(Byte)] /\ source \in [Direction -> Seq(Byte)]
  /\ received \in [Direction -> Seq(Byte)] /\ buffer \in [Direction -> Seq(Byte)]
  /\ target \in [Direction -> Seq(Byte)] /\ written \in [Direction -> Nat]
  /\ \A d \in Direction : written[d] <= Len(buffer[d])
  /\ ending \in [Direction -> {"eof", "reset", "open"}]
  /\ stalled \in SUBSET Peer
  /\ pc \in [Direction -> PCs]
  /\ open \in [Peer -> BOOLEAN] /\ closed_ \in BOOLEAN
  /\ why \in [Direction -> {"running", "eof", "error"}]

(***************************************************************************)
(* The tunnel passes the bytes of each direction on unchanged and in       *)
(* order, whatever the other direction does: what was sent, what is in the *)
(* read buffer beyond it, what a completed read holds and what is unread   *)
(* make up the sender's stream.                                            *)
(***************************************************************************)
Conserved(d) ==
  target[d] \o SubSeq(buffer[d], written[d] + 1, Len(buffer[d]))
    \o received[d] \o source[d] = stream[d]
StreamsPreserved == \A d \in Direction : Conserved(d)

(***************************************************************************)
(* ForwardViaTunnel that ends on EOF has passed on everything its sender   *)
(* sent before, even if the other direction ended and closed the session   *)
(* in between.                                                             *)
(***************************************************************************)
EofLosesNothing ==
  \A d \in Direction : why[d] = "eof" => target[d] = stream[d]

(***************************************************************************)
(* No coroutine outlives the tunnel: when one direction ends, the other    *)
(* one's pending or next operation fails and it ends too, also when its    *)
(* peer is silent or stalled.                                              *)
(***************************************************************************)
EndTogether ==
  (\E d \in Direction : pc[d] = "ended")
    ~> (\A d \in Direction : pc[d] = "ended")

(***************************************************************************)
(* The directions do not wait for each other: unless the tunnel is closed, *)
(* everything sent is delivered, although the opposite direction may be    *)
(* blocked by a peer that accepts no bytes.                                *)
(***************************************************************************)
Unblocked ==
  \A d \in Direction :
    To(d) \notin stalled ~> (closed_ \/ target[d] = stream[d])

(***************************************************************************)
(* The relay implements the duplex pipe.                                   *)
(***************************************************************************)
Pipe == INSTANCE DuplexPipe WITH sent <- stream, delivered <- target,
                                 closed <- closed_
ImplementsPipe == Pipe!Spec

=============================================================================
