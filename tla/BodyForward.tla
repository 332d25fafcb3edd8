---------------------------- MODULE BodyForward ----------------------------
(***************************************************************************)
(* How HttpProxySession moves one message body from the peer that sends it *)
(* to the other peer: ForwardRequestBody / ForwardResponseBody and the     *)
(* loops ForwardExactly, ForwardUntilEof and ForwardChunked under them,    *)
(* over ReadSomeFromPeer and WriteToPeer (http_proxy_session.cpp).         *)
(*                                                                         *)
(* The sending peer's bytes arrive in reads of any size, its stream ends   *)
(* in EOF, in an error or in silence, and any read or write may fail.  The *)
(* read buffer may start with bytes that came along with the header.       *)
(* A step is what the coroutine does between two co_awaits.                *)
(***************************************************************************)
EXTENDS ChunkSizeLine

CONSTANTS Inputs,     \* the bodies to forward, see InputsAssumption
          MaxRead     \* most bytes of one read (64 KiB in the code)

Framings == {"None", "ContentLength", "Chunked", "CloseDelimited", "Tunnel"}
Endings  == {"eof", "reset", "open"}    \* what follows the peer's last byte

ASSUME InputsAssumption ==
  \A i \in Inputs : /\ i.framing \in Framings
                    /\ i.content_length \in Nat
                    /\ i.bytes \in Seq(Byte)
                    /\ i.ending \in Endings

ASSUME MaxReadAssumption == MaxRead \in Nat \ {0}

VARIABLES
  stream,           \* history: every byte the peer sends, body and beyond
  framing,          \* BodyInfo.framing
  content_length,   \* BodyInfo.content_length
  ending,           \* how the peer's stream ends
  source,           \* bytes of the stream not read yet
  buffer,           \* client_read_buffer_ or remote_read_buffer_
  target,           \* bytes the receiving peer was sent
  pc,               \* where the coroutine is; a ChunkedState in ForwardChunked
  bytes_read, eof,  \* the last ReadSomeResult
  bytes_sent,       \* of ForwardExactly
  line_length,      \* chunk_size_line_length of ForwardChunked
  chunk_size,
  remaining,        \* chunk_bytes_remaining of ForwardChunked
  result,           \* what the forwarding coroutine returned
  fault             \* history: a read or a write failed

input == <<stream, framing, content_length, ending>>
locals == <<bytes_sent, line_length, chunk_size, remaining>>
vars == <<input, source, buffer, target, pc, bytes_read, eof, locals, result,
          fault>>

(***************************************************************************)
(* The entry point the framing selects.                                    *)
(***************************************************************************)
Entry(f) == CASE f = "None" -> "none"
              [] f = "ContentLength" -> "exact"
              [] f = "Chunked" -> "ReadChunkSizeLine"
              [] f = "CloseDelimited" -> "drain"
              [] f = "Tunnel" -> "tunnel"

\* Where a loop goes on after a read.
AfterRead(p) == IF p = "exact" THEN "exact_write"
                ELSE IF p = "until_eof_read" THEN "until_eof_write"
                ELSE p

PCs == {"none", "tunnel", "exact", "exact_write", "drain", "until_eof_read",
        "until_eof_write", "ReadChunkSizeLine", "ParseChunkSizeLine",
        "ForwardChunkSizeLine", "ForwardChunkDataWithCrlf", "ForwardTrailers"}

Least(m, n) == IF m < n THEN m ELSE n

Init ==
  /\ \E i \in Inputs : \E k \in 0 .. Len(i.bytes) :
       /\ stream = i.bytes
       /\ framing = i.framing
       /\ content_length = i.content_length
       /\ ending = i.ending
       /\ buffer = SubSeq(i.bytes, 1, k)
       /\ source = SubSeq(i.bytes, k + 1, Len(i.bytes))
       /\ pc = Entry(i.framing)
  /\ target = << >>
  /\ bytes_read = 0 /\ eof = FALSE
  /\ bytes_sent = 0 /\ line_length = 0 /\ chunk_size = 0 /\ remaining = 0
  /\ result = "pending" /\ fault = FALSE

Return(value) == result' = value

-----------------------------------------------------------------------------
(***************************************************************************)
(* ReadSomeFromPeer.  The coroutine is suspended in a read when it wants   *)
(* more than the buffer holds.                                             *)
(***************************************************************************)
Reading ==
  /\ result = "pending"
  /\ \/ pc = "exact" /\ bytes_sent < content_length /\ buffer = << >>
     \/ pc = "until_eof_read"
     \/ pc \in {"ReadChunkSizeLine", "ForwardTrailers"}
          /\ FindCrlf(buffer) = NoValue
     \/ pc = "ForwardChunkDataWithCrlf" /\ buffer = << >>

ReadDropsLastByte ==   \* mutant: commits one byte too few
  /\ Reading
  /\ \E n \in 1 .. Least(MaxRead, Len(source)) :
       /\ buffer' = buffer \o SubSeq(source, 1, IF n = 3 THEN 2 ELSE n)
       /\ source' = SubSeq(source, n + 1, Len(source))
       /\ bytes_read' = n
  /\ eof' = FALSE
  /\ pc' = AfterRead(pc)
  /\ UNCHANGED <<input, target, locals, result, fault>>

ReadData ==
  /\ Reading
  /\ \E n \in 1 .. Least(MaxRead, Len(source)) :
       /\ buffer' = buffer \o SubSeq(source, 1, n)
       /\ source' = SubSeq(source, n + 1, Len(source))
       /\ bytes_read' = n
  /\ eof' = FALSE
  /\ pc' = AfterRead(pc)
  /\ UNCHANGED <<input, target, locals, result, fault>>

ReadEofAlwaysLoops ==   \* mutant: the size-line state ignores the EOF as well
  /\ Reading /\ source = << >> /\ ending = "eof"
  /\ bytes_read' = 0 /\ eof' = TRUE
  /\ pc' = AfterRead(pc)
  /\ UNCHANGED <<input, source, buffer, target, locals, result, fault>>

ReadEofRefuses ==   \* mutant: every loop gives up on EOF
  /\ Reading /\ source = << >> /\ ending = "eof"
  /\ bytes_read' = 0 /\ eof' = TRUE
  /\ Return("false")
  /\ UNCHANGED <<input, source, buffer, target, pc, locals, fault>>

\* EOF is a result of zero bytes; only the size-line state gives up on it.
ReadEof ==
  /\ Reading /\ source = << >> /\ ending = "eof"
  /\ bytes_read' = 0 /\ eof' = TRUE
  /\ IF pc = "ReadChunkSizeLine"
       THEN Return("false") /\ UNCHANGED pc
       ELSE pc' = AfterRead(pc) /\ UNCHANGED result
  /\ UNCHANGED <<input, source, buffer, target, locals, fault>>

\* Any other error, an abort by Close() included: nullopt.
ReadFails ==
  /\ Reading
  /\ fault' = TRUE
  /\ Return("false")
  /\ UNCHANGED <<input, source, buffer, target, pc, bytes_read, eof, locals>>

-----------------------------------------------------------------------------
(***************************************************************************)
(* WriteToPeer(n) that succeeds, and the number of bytes each loop passes  *)
(* to it where it is about to write.                                       *)
(***************************************************************************)
WriteToPeer(n) ==
  /\ target' = target \o SubSeq(buffer, 1, n)
  /\ buffer' = SubSeq(buffer, n + 1, Len(buffer))

Writing ==
  /\ result = "pending"
  /\ \/ pc = "exact" /\ bytes_sent < content_length /\ buffer # << >>
     \/ pc \in {"exact_write", "ForwardChunkSizeLine"}
     \/ pc \in {"drain", "ForwardChunkDataWithCrlf"} /\ buffer # << >>
     \/ pc = "until_eof_write" /\ bytes_read > 0
     \/ pc = "ForwardTrailers" /\ FindCrlf(buffer) # NoValue

WholeBuffer ==   \* mutant: bytes of the next message go along
  Len(buffer)

BytesToWrite ==
  CASE pc \in {"exact", "exact_write"} ->
         Least(content_length - bytes_sent, Len(buffer))
    [] pc = "drain" -> Len(buffer)
    [] pc = "until_eof_write" -> bytes_read
    [] pc = "ForwardChunkSizeLine" -> line_length + 2
    [] pc = "ForwardChunkDataWithCrlf" -> Least(remaining, Len(buffer))
    [] pc = "ForwardTrailers" -> FindCrlf(buffer) + 2

\* The write waits until the receiver has accepted all of it.
AwaitsReceiver == Writing /\ BytesToWrite > 0

\* async_write fails after the receiver got some of the bytes.
WriteFails ==
  /\ Writing
  /\ \E k \in 0 .. BytesToWrite : target' = target \o SubSeq(buffer, 1, k)
  /\ fault' = TRUE
  /\ Return("false")
  /\ UNCHANGED <<input, source, buffer, pc, bytes_read, eof, locals>>

-----------------------------------------------------------------------------
(***************************************************************************)
(* Framing None returns true and Tunnel false, without touching a peer.    *)
(***************************************************************************)
NoBody ==
  /\ result = "pending" /\ pc \in {"none", "tunnel"}
  /\ Return(IF pc = "none" THEN "true" ELSE "false")
  /\ UNCHANGED <<input, source, buffer, target, pc, bytes_read, eof, locals,
                 fault>>

(***************************************************************************)
(* ForwardExactly                                                          *)
(***************************************************************************)
ExactWrite ==
  /\ Writing /\ pc \in {"exact", "exact_write"}
  /\ WriteToPeer(BytesToWrite)
  /\ bytes_sent' = bytes_sent + BytesToWrite
  /\ pc' = "exact"
  /\ UNCHANGED <<input, source, bytes_read, eof, line_length, chunk_size,
                 remaining, result, fault>>

ExactReturnShort ==   \* mutant: a body one byte short counts as complete
  /\ result = "pending" /\ pc = "exact" /\ bytes_sent + 1 >= content_length
  /\ Return("true")
  /\ UNCHANGED <<input, source, buffer, target, pc, bytes_read, eof, locals,
                 fault>>

ExactReturn ==
  /\ result = "pending" /\ pc = "exact" /\ bytes_sent >= content_length
  /\ Return("true")
  /\ UNCHANGED <<input, source, buffer, target, pc, bytes_read, eof, locals,
                 fault>>

(***************************************************************************)
(* ForwardUntilEof: drain the buffer, then copy reads until one is EOF.    *)
(***************************************************************************)
Drain ==
  /\ result = "pending" /\ pc = "drain"
  /\ WriteToPeer(Len(buffer))
  /\ pc' = "until_eof_read"
  /\ UNCHANGED <<input, source, bytes_read, eof, locals, result, fault>>

UntilEofWrite ==
  /\ result = "pending" /\ pc = "until_eof_write"
  /\ WriteToPeer(bytes_read)
  /\ IF eof THEN Return("true") /\ UNCHANGED pc
            ELSE pc' = "until_eof_read" /\ UNCHANGED result
  /\ UNCHANGED <<input, source, bytes_read, eof, locals, fault>>

(***************************************************************************)
(* ForwardChunked, one action per ChunkedState.                            *)
(***************************************************************************)
FindChunkSizeLine ==
  /\ result = "pending" /\ pc = "ReadChunkSizeLine"
  /\ FindCrlf(buffer) # NoValue
  /\ line_length' = FindCrlf(buffer)
  /\ pc' = "ParseChunkSizeLine"
  /\ UNCHANGED <<input, source, buffer, target, bytes_read, eof, bytes_sent,
                 chunk_size, remaining, result, fault>>

ParseSizeLine ==
  /\ result = "pending" /\ pc = "ParseChunkSizeLine"
  /\ LET size == ParseChunkSizeLine(SubSeq(buffer, 1, line_length))
     IN  IF size # NoValue
           THEN /\ chunk_size' = size
                /\ pc' = "ForwardChunkSizeLine"
                /\ UNCHANGED result
           ELSE Return("false") /\ UNCHANGED <<chunk_size, pc>>
  /\ UNCHANGED <<input, source, buffer, target, bytes_read, eof, bytes_sent,
                 line_length, remaining, fault>>

ForwardChunkSizeLineWrapping ==   \* mutant: chunk_size + 2 may wrap
  /\ Writing /\ pc = "ForwardChunkSizeLine"
  /\ WriteToPeer(BytesToWrite)
  /\ \/ chunk_size = 0 /\ pc' = "ForwardTrailers" /\ UNCHANGED remaining
     \/ /\ chunk_size # 0
        /\ remaining' = (chunk_size + 2) % (SizeMax + 1)
        /\ pc' = "ForwardChunkDataWithCrlf"
  /\ UNCHANGED <<input, source, bytes_read, eof, bytes_sent, line_length,
                 chunk_size, result, fault>>

\* The line is sent before the size is compared with the limit.
ForwardChunkSizeLine ==
  /\ Writing /\ pc = "ForwardChunkSizeLine"
  /\ WriteToPeer(BytesToWrite)
  /\ \/ /\ chunk_size = 0
        /\ pc' = "ForwardTrailers"
        /\ UNCHANGED <<remaining, result>>
     \/ /\ chunk_size > SizeMax - 2
        /\ Return("false")
        /\ UNCHANGED <<remaining, pc>>
     \/ /\ chunk_size \in 1 .. SizeMax - 2
        /\ remaining' = (chunk_size + 2) % (SizeMax + 1)
        /\ pc' = "ForwardChunkDataWithCrlf"
        /\ UNCHANGED result
  /\ UNCHANGED <<input, source, bytes_read, eof, bytes_sent, line_length,
                 chunk_size, fault>>

ForwardChunkDataWithCrlf ==
  /\ Writing /\ pc = "ForwardChunkDataWithCrlf"
  /\ WriteToPeer(BytesToWrite)
  /\ remaining' = remaining - BytesToWrite
  /\ pc' = IF remaining' = 0 THEN "ReadChunkSizeLine" ELSE pc
  /\ UNCHANGED <<input, source, bytes_read, eof, bytes_sent, line_length,
                 chunk_size, result, fault>>

\* One trailer line; the empty one completes the body.
ForwardTrailers ==
  /\ Writing /\ pc = "ForwardTrailers"
  /\ WriteToPeer(BytesToWrite)
  /\ IF FindCrlf(buffer) = 0 THEN Return("true") ELSE UNCHANGED result
  /\ UNCHANGED <<input, source, pc, bytes_read, eof, locals, fault>>

-----------------------------------------------------------------------------
Read == ReadData \/ ReadEof
Forward == \/ NoBody \/ ExactWrite \/ ExactReturn \/ Drain \/ UntilEofWrite
           \/ FindChunkSizeLine \/ ParseSizeLine \/ ForwardChunkSizeLine
           \/ ForwardChunkDataWithCrlf \/ ForwardTrailers
Fault == ReadFails \/ WriteFails

\* The coroutine returned: its caller goes on, which is outside this module.
Returned == result # "pending" /\ UNCHANGED vars

Next == Read \/ Forward \/ Fault \/ Returned

(***************************************************************************)
(* The io_context resumes a coroutine whose read can complete, or which    *)
(* has nothing to wait for, and a read after the peer's reset completes    *)
(* with an error.  Nothing forces a fault otherwise.  There are no         *)
(* timeouts: a silent peer, and a receiver that accepts no bytes, are      *)
(* waited for without limit.                                               *)
(***************************************************************************)
Spec == /\ Init /\ [][Next]_vars
        /\ WF_vars(Read) /\ WF_vars(Forward /\ ~AwaitsReceiver)
        /\ WF_vars(ReadFails /\ source = << >> /\ ending = "reset")

-----------------------------------------------------------------------------
(***************************************************************************)
(* The reference: where the body ends in the whole stream, found without   *)
(* reads, buffer or state machine.  NoValue if the stream holds no whole   *)
(* body the code accepts.  The two bytes after chunk data are not checked, *)
(* neither here nor in the code.                                           *)
(***************************************************************************)
LineEnd(s, p) ==
  LET e == FindCrlf(SubSeq(s, p + 1, Len(s)))
  IN  IF e = NoValue THEN NoValue ELSE p + e

\* The end of the trailers that begin at each place, then that of the chunks.
TrailersEnd(s) ==
  LET end[p \in 0 .. Len(s)] ==
        LET e == LineEnd(s, p)
        IN  IF e = NoValue THEN NoValue
            ELSE IF e = p THEN p + 2
            ELSE end[e + 2]
  IN  end

ChunksEnd(s) ==
  LET end[p \in 0 .. Len(s)] ==
        LET e == LineEnd(s, p)
            n == ParseChunkSizeLine(SubSeq(s, p + 1, e))
        IN  IF e = NoValue \/ n = NoValue THEN NoValue
            ELSE IF n = 0 THEN TrailersEnd(s)[e + 2]
            ELSE IF e + 4 + n > Len(s) THEN NoValue
            ELSE end[e + 4 + n]
  IN  end

ChunkedBodyEnd(s) == ChunksEnd(s)[0]

BodyEnd ==
  CASE framing = "None" -> 0
    [] framing = "ContentLength" ->
         IF content_length <= Len(stream) THEN content_length ELSE NoValue
    [] framing = "CloseDelimited" ->
         IF ending = "eof" THEN Len(stream) ELSE NoValue
    [] framing = "Chunked" -> ChunkedBodyEnd(stream)
    [] framing = "Tunnel" -> NoValue

-----------------------------------------------------------------------------
(***************************************************************************)
(* The types of the loops' state: chunk_bytes_remaining in particular      *)
(* never leaves the range of a size_t, neither below zero nor above.  (The *)
(* range of chunk_size is that of ParseChunkSizeLine, MCChunkSizeLine.)    *)
(***************************************************************************)
TypeOK ==
  /\ stream \in Seq(Byte) /\ source \in Seq(Byte)
  /\ buffer \in Seq(Byte) /\ target \in Seq(Byte)
  /\ framing \in Framings /\ ending \in Endings /\ content_length \in Nat
  /\ pc \in PCs
  /\ bytes_read \in Nat /\ eof \in BOOLEAN /\ bytes_sent \in Nat
  /\ line_length \in Nat
  /\ remaining \in 0 .. SizeMax
  /\ result \in {"pending", "true", "false"} /\ fault \in BOOLEAN

Conserved == target \o buffer \o source = stream
SentIsPrefix == /\ Len(target) <= Len(stream)
                /\ target = SubSeq(stream, 1, Len(target))

(***************************************************************************)
(* However the stream is cut into reads and writes, no byte is lost,       *)
(* repeated, reordered or invented: the bytes sent, the bytes buffered and *)
(* the bytes not read yet make up the stream, and after a failed write the *)
(* receiver still has a prefix of it.                                      *)
(***************************************************************************)
StreamPreserved == (~fault => Conserved) /\ SentIsPrefix

(***************************************************************************)
(* A forwarding coroutine returns true only when the receiver has the      *)
(* whole body, and nothing of the message after it: what ForwardExactly,   *)
(* ForwardUntilEof and ForwardChunked promise to HandleOneExchange.        *)
(***************************************************************************)
TrueMeansWholeBody ==
  result = "true" => BodyEnd # NoValue /\ Len(target) = BodyEnd

(***************************************************************************)
(* The bytes of the next message on the connection, already in the read    *)
(* buffer or not, are never sent as part of this body, not even for the    *)
(* moment before an error.                                                 *)
(***************************************************************************)
NeverPastBody ==
  /\ BodyEnd # NoValue => Len(target) <= BodyEnd
  /\ framing = "ContentLength" => Len(target) <= content_length

(***************************************************************************)
(* A complete body that meets no failing read or write is never refused:   *)
(* whatever the read boundaries, a line cut between CR and LF included.    *)
(***************************************************************************)
FalseOnlyForCause == result = "false" /\ ~fault => BodyEnd = NoValue

(***************************************************************************)
(* What ties the program counter and the locals to the bytes moved so far; *)
(* with TypeOK and StreamPreserved it is inductive.  Its parts: each loop  *)
(* keeps to its own framing; ForwardExactly's counter is the number of     *)
(* bytes the receiver has; ForwardUntilEof reads into an empty buffer and  *)
(* writes all of it; a size line being parsed is in the buffer with its    *)
(* CRLF.                                                                   *)
(***************************************************************************)
PcMatchesFraming ==
  /\ framing = "None" <=> pc = "none"
  /\ framing = "Tunnel" <=> pc = "tunnel"
  /\ framing = "ContentLength" <=> pc \in {"exact", "exact_write"}
  /\ framing = "CloseDelimited"
       <=> pc \in {"drain", "until_eof_read", "until_eof_write"}

ExactCounts ==
  framing = "ContentLength" =>
    /\ ~fault => bytes_sent = Len(target)
    /\ bytes_sent <= content_length /\ Len(target) <= content_length
    /\ pc = "exact_write" => bytes_sent < content_length
    /\ result = "true" => bytes_sent = content_length

UntilEofCopies ==
  framing = "CloseDelimited" =>
    /\ pc = "until_eof_read" => buffer = << >>
    /\ pc = "until_eof_write" /\ result = "pending" =>
         /\ bytes_read = Len(buffer)
         /\ eof => source = << >> /\ ending = "eof"
    /\ result = "true" => /\ ending = "eof"
                          /\ buffer = << >> /\ source = << >>

SizeLineBuffered ==
  pc \in {"ParseChunkSizeLine", "ForwardChunkSizeLine"} /\ result = "pending"
    => line_length + 2 <= Len(buffer)

LoopInv ==
  /\ PcMatchesFraming /\ ExactCounts /\ UntilEofCopies /\ SizeLineBuffered
  /\ result # "false" => ~fault
  /\ framing \in {"None", "Tunnel"} => target = << >>
  /\ framing = "Tunnel" => result # "true"
  /\ framing \notin {"Tunnel", "Chunked"} /\ result = "false" => fault

IInv == TypeOK /\ StreamPreserved /\ LoopInv

(***************************************************************************)
(* The waits no other step of the code ends: a peer that stays open and    *)
(* silent, and a peer at EOF in a loop that takes the empty read for       *)
(* progress (ForwardExactly, the data and the trailer state).              *)
(***************************************************************************)
Starved ==
  /\ source = << >> /\ BodyEnd = NoValue
  /\ \/ ending = "open"
     \/ ending = "eof" /\ pc \in {"exact", "exact_write", "ForwardTrailers",
                                  "ForwardChunkDataWithCrlf"}

(***************************************************************************)
(* Every forwarding ends, is starved for good, or waits for good in one    *)
(* write for a receiver that accepts no more.  A truncated body at EOF     *)
(* keeps ForwardExactly and two states of ForwardChunked in their loop,    *)
(* while EOF in a size line and EOF of a close-delimited body end it.      *)
(***************************************************************************)
EndsOrStarves == <>(result # "pending" \/ []Starved \/ []AwaitsReceiver)

=============================================================================
