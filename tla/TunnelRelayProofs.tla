------------------------- MODULE TunnelRelayProofs -------------------------
(***************************************************************************)
(* What holds of the CONNECT tunnel for all streams, however they are cut  *)
(* into reads and writes, and whichever peers end, fail or stall.          *)
(***************************************************************************)
EXTENDS TunnelRelay, SequenceLemmas

-----------------------------------------------------------------------------
(***************************************************************************)
(* The inductive invariant.  Where ForwardViaTunnel is tells what its      *)
(* buffers hold: a read is only started on an empty buffer, a completed    *)
(* read is the only holder of received bytes, a completed write has sent   *)
(* the whole buffer, and EOF is only seen behind the last byte.            *)
(***************************************************************************)
BuffersMatchPc(d) ==
  /\ pc[d] \in {"reading", "read_done", "read_eof", "read_error"} =>
       buffer[d] = << >>
  /\ pc[d] \in {"start", "reading", "read_done", "read_eof", "read_error"} =>
       written[d] = 0
  /\ pc[d] # "read_done" => received[d] = << >>
  /\ pc[d] = "read_eof" => source[d] = << >>
  /\ pc[d] = "write_done" => written[d] = Len(buffer[d])
  /\ why[d] # "running" <=> pc[d] = "ended"
  /\ why[d] = "eof" => target[d] = stream[d]

\* Both sockets are closed together, by the first loop that ends.
ClosedTogether ==
  /\ \A p \in Peer : open[p] = ~closed_
  /\ closed_ <=> \E d \in Direction : pc[d] = "ended"

IInv == /\ TypeOK /\ StreamsPreserved /\ ClosedTogether
        /\ \A d \in Direction : BuffersMatchPc(d)

-----------------------------------------------------------------------------
(***************************************************************************)
(* The four parts of a stream (sent t, unwritten rest of the buffer b,     *)
(* received r, unread s), and what the steps of one direction do to them.  *)
(***************************************************************************)
LEMMA RestOf ==
  ASSUME NEW b \in Seq(Byte)
  PROVE  /\ SubSeq(b, 0 + 1, Len(b)) = b
         /\ SubSeq(b, Len(b) + 1, Len(b)) = << >>
         /\ \A w \in 0 .. Len(b) : SubSeq(b, w + 1, Len(b)) \in Seq(Byte)
<1>1. Len(b) \in Nat
  BY LenProperties
<1>2. SubSeq(b, 1, Len(b)) = b
  BY SubSeqFull
<1>3. SubSeq(b, Len(b) + 1, Len(b)) = << >>
  BY <1>1, SubSeqEmpty
<1>4. \A w \in 0 .. Len(b) : SubSeq(b, w + 1, Len(b)) \in Seq(Byte)
  BY CutInTwo
<1> QED
  BY <1>2, <1>3, <1>4

\* The empty sequence and concatenation.
LEMMA Units == \A s \in Seq(Byte) : s \o << >> = s /\ << >> \o s = s
  BY ConcatEmptySeq

\* A completed read moves the first n unread bytes to the received ones.
LEMMA ReadMovesBytes ==
  ASSUME NEW x \in Seq(Byte), NEW s \in Seq(Byte), NEW n \in 0 .. Len(s)
  PROVE  /\ (x \o SubSeq(s, 1, n)) \o SubSeq(s, n + 1, Len(s)) = (x \o << >>) \o s
         /\ SubSeq(s, 1, n) \in Seq(Byte)
         /\ SubSeq(s, n + 1, Len(s)) \in Seq(Byte)
<1> DEFINE a == SubSeq(s, 1, n)
           c == SubSeq(s, n + 1, Len(s))
<1>1. a \in Seq(Byte) /\ c \in Seq(Byte) /\ a \o c = s
  BY CutInTwo
<1> HIDE DEF a, c
<1>2. (x \o a) \o c = x \o (a \o c)
  BY ONLY x \in Seq(Byte), <1>1, Assoc, ZenonT(40)
<1>3. x \o << >> = x
  BY ONLY x \in Seq(Byte), Units, Zenon
<1> QED
  BY ONLY <1>1, <1>2, <1>3, Zenon DEF a, c

\* A write moves n bytes of the unwritten rest of the buffer to the receiver.
LEMMA WriteMovesBytes ==
  ASSUME NEW t \in Seq(Byte), NEW b \in Seq(Byte),
         NEW w \in 0 .. Len(b), NEW n \in 0 .. Len(b) - w
  PROVE  /\ (t \o SubSeq(b, w + 1, w + n)) \o SubSeq(b, w + n + 1, Len(b))
              = t \o SubSeq(b, w + 1, Len(b))
         /\ t \o SubSeq(b, w + 1, w + n) \in Seq(Byte)
         /\ Len(t \o SubSeq(b, w + 1, w + n)) = Len(t) + n
<1> DEFINE a == SubSeq(b, w + 1, w + n)
           c == SubSeq(b, w + n + 1, Len(b))
           e == SubSeq(b, w + 1, Len(b))
<1>1. /\ a \in Seq(Byte) /\ c \in Seq(Byte) /\ a \o c = e
      /\ Len(a) = n
  BY CutRest
<1> HIDE DEF a, c, e
<1>2. (t \o a) \o c = t \o (a \o c)
  BY ONLY t \in Seq(Byte), <1>1, Assoc, Zenon
<1>3. t \o a \in Seq(Byte) /\ Len(t \o a) = Len(t) + n
  BY <1>1, PrefixOfConcat
<1> QED
  BY ONLY <1>1, <1>2, <1>3, Zenon DEF a, c, e

-----------------------------------------------------------------------------
(***************************************************************************)
(* A step of direction d leaves what the other direction holds alone.      *)
(***************************************************************************)
SameAt(e) ==
  /\ stream'[e] = stream[e] /\ source'[e] = source[e]
  /\ received'[e] = received[e] /\ buffer'[e] = buffer[e]
  /\ written'[e] = written[e] /\ target'[e] = target[e]
  /\ pc'[e] = pc[e] /\ why'[e] = why[e]

LEMMA OtherDirection ==
  ASSUME IInv, NEW d \in Direction,
         \A e \in Direction \ {d} : SameAt(e),
         TypeOK', Conserved(d)', BuffersMatchPc(d)', ClosedTogether'
  PROVE  IInv'
<1>1. ASSUME NEW e \in Direction, e # d
      PROVE  Conserved(e)' /\ BuffersMatchPc(e)'
  <2>1. Conserved(e) /\ BuffersMatchPc(e) /\ SameAt(e)
    BY <1>1 DEF IInv, StreamsPreserved
  <2>2. Conserved(e)'
    BY ONLY <2>1, Zenon DEF Conserved, SameAt
  <2>3. BuffersMatchPc(e)'
    BY ONLY <2>1 DEF BuffersMatchPc, SameAt
  <2> QED
    BY <2>2, <2>3
<1>2. \A e \in Direction : Conserved(e)' /\ BuffersMatchPc(e)'
  BY <1>1
<1> QED
  BY <1>2 DEF IInv, StreamsPreserved

\* What the invariant says of one direction.
LEMMA Parts ==
  ASSUME IInv, NEW d \in Direction
  PROVE  /\ TypeOK /\ ClosedTogether /\ BuffersMatchPc(d) /\ Conserved(d)
         /\ stream[d] \in Seq(Byte) /\ source[d] \in Seq(Byte)
         /\ received[d] \in Seq(Byte) /\ buffer[d] \in Seq(Byte)
         /\ target[d] \in Seq(Byte)
         /\ written[d] \in 0 .. Len(buffer[d])
         /\ Len(buffer[d]) \in Nat /\ Len(source[d]) \in Nat
<1>1. TypeOK /\ ClosedTogether /\ BuffersMatchPc(d) /\ Conserved(d)
  BY DEF IInv, StreamsPreserved
<1>2. /\ stream[d] \in Seq(Byte) /\ source[d] \in Seq(Byte)
      /\ received[d] \in Seq(Byte) /\ buffer[d] \in Seq(Byte)
      /\ target[d] \in Seq(Byte) /\ written[d] \in Nat
      /\ written[d] <= Len(buffer[d])
  BY <1>1 DEF TypeOK
<1>3. Len(buffer[d]) \in Nat /\ Len(source[d]) \in Nat
  BY <1>2, LenProperties
<1> QED
  BY <1>1, <1>2, <1>3

(***************************************************************************)
(* Initially: the bytes that came early are in the buffer, the others      *)
(* unread.                                                                 *)
(***************************************************************************)
LEMMA InitIInv == Init => IInv
<1> SUFFICES ASSUME Init PROVE IInv
  OBVIOUS
<1>1. PICK k \in [Direction -> 0 .. MaxEarly] :
        /\ \A d \in Direction : k[d] <= Len(stream[d])
        /\ buffer = [d \in Direction |-> SubSeq(stream[d], 1, k[d])]
        /\ source = [d \in Direction |->
                       SubSeq(stream[d], k[d] + 1, Len(stream[d]))]
  BY Zenon DEF Init
<1>2. stream \in [Direction -> Seq(Byte)]
  BY StreamsAssumption DEF Init
<1>3. ASSUME NEW d \in Direction
      PROVE  /\ buffer[d] \in Seq(Byte) /\ source[d] \in Seq(Byte)
             /\ buffer[d] \o source[d] = stream[d]
             /\ 0 <= Len(buffer[d])
  <2>1. stream[d] \in Seq(Byte) /\ k[d] \in 0 .. Len(stream[d])
    BY <1>1, <1>2, LenProperties, MaxEarlyAssumption
  <2>2. /\ buffer[d] = SubSeq(stream[d], 1, k[d])
        /\ source[d] = SubSeq(stream[d], k[d] + 1, Len(stream[d]))
    BY <1>1, Zenon
  <2>3. /\ buffer[d] \in Seq(Byte) /\ source[d] \in Seq(Byte)
        /\ buffer[d] \o source[d] = stream[d]
    BY ONLY <2>1, <2>2, CutInTwo, Zenon
  <2> QED
    BY <2>3, LenProperties
<1>4. TypeOK
  <2>1. buffer \in [Direction -> Seq(Byte)] /\ source \in [Direction -> Seq(Byte)]
    BY <1>1, <1>3
  <2>2. << >> \in Seq(Byte)
    BY EmptySeq
  <2>3. stalled \in SUBSET Peer
    BY StallableAssumption DEF Init, Peer
  <2> QED
    BY <1>2, <1>3, <2>1, <2>2, <2>3 DEF Init, TypeOK, PCs
<1>5. ASSUME NEW d \in Direction PROVE Conserved(d)
  <2>1. target[d] = << >> /\ received[d] = << >> /\ written[d] = 0
    BY DEF Init
  <2>2. SubSeq(buffer[d], 0 + 1, Len(buffer[d])) = buffer[d]
    BY <1>3, RestOf
  <2>3. << >> \o buffer[d] = buffer[d] /\ buffer[d] \o << >> = buffer[d]
    BY ONLY <1>3, Units, d \in Direction, Zenon
  <2> QED
    BY ONLY <1>3, <2>1, <2>2, <2>3, d \in Direction, Zenon DEF Conserved
<1>6. \A d \in Direction : BuffersMatchPc(d)
  BY DEF Init, BuffersMatchPc
<1>7. ClosedTogether
  BY DEF Init, ClosedTogether, Direction
<1> QED
  BY <1>4, <1>5, <1>6, <1>7 DEF IInv, StreamsPreserved

-----------------------------------------------------------------------------
(***************************************************************************)
(* One lemma per step.  First the steps that move no byte.                 *)
(***************************************************************************)
LEMMA StartStep == ASSUME IInv, NEW d \in Direction, Start(d) PROVE IInv'
<1> USE DEF env
<1>1. TypeOK /\ ClosedTogether /\ BuffersMatchPc(d) /\ Conserved(d)
  BY Parts
<1>2. TypeOK'
  BY <1>1 DEF TypeOK, Start, PCs, LoopHead
<1>3. \A e \in Direction \ {d} : SameAt(e)
  BY <1>1 DEF TypeOK, Start, SameAt, LoopHead
<1>4. Conserved(d)'
  BY <1>1 DEF Start, Conserved
<1>5. BuffersMatchPc(d)'
  BY <1>1 DEF TypeOK, Start, BuffersMatchPc, LoopHead
<1>6. ClosedTogether'
  BY <1>1 DEF TypeOK, Start, ClosedTogether, LoopHead
<1> QED
  BY <1>2, <1>3, <1>4, <1>5, <1>6, OtherDirection

LEMMA ReadEofStep == ASSUME IInv, NEW d \in Direction, ReadEof(d) PROVE IInv'
<1> USE DEF env
<1>1. TypeOK /\ ClosedTogether /\ BuffersMatchPc(d) /\ Conserved(d)
  BY Parts
<1>2. TypeOK'
  BY <1>1 DEF TypeOK, ReadEof, PCs
<1>3. \A e \in Direction \ {d} : SameAt(e)
  BY <1>1 DEF TypeOK, ReadEof, SameAt
<1>4. Conserved(d)'
  BY <1>1 DEF ReadEof, Conserved
<1>5. BuffersMatchPc(d)'
  BY <1>1 DEF TypeOK, ReadEof, BuffersMatchPc
<1>6. ClosedTogether'
  BY <1>1 DEF TypeOK, ReadEof, ClosedTogether
<1> QED
  BY <1>2, <1>3, <1>4, <1>5, <1>6, OtherDirection

LEMMA ReadFailsStep == ASSUME IInv, NEW d \in Direction, ReadFails(d) PROVE IInv'
<1> USE DEF env
<1>1. TypeOK /\ ClosedTogether /\ BuffersMatchPc(d) /\ Conserved(d)
  BY Parts
<1>2. TypeOK'
  BY <1>1 DEF TypeOK, ReadFails, PCs
<1>3. \A e \in Direction \ {d} : SameAt(e)
  BY <1>1 DEF TypeOK, ReadFails, SameAt
<1>4. Conserved(d)'
  BY <1>1 DEF ReadFails, Conserved
<1>5. BuffersMatchPc(d)'
  BY <1>1 DEF TypeOK, ReadFails, BuffersMatchPc
<1>6. ClosedTogether'
  BY <1>1 DEF TypeOK, ReadFails, ClosedTogether
<1> QED
  BY <1>2, <1>3, <1>4, <1>5, <1>6, OtherDirection

LEMMA WriteFailsStep == ASSUME IInv, NEW d \in Direction, WriteFails(d) PROVE IInv'
<1> USE DEF env
<1>1. TypeOK /\ ClosedTogether /\ BuffersMatchPc(d) /\ Conserved(d)
  BY Parts
<1>2. TypeOK'
  BY <1>1 DEF TypeOK, WriteFails, PCs
<1>3. \A e \in Direction \ {d} : SameAt(e)
  BY <1>1 DEF TypeOK, WriteFails, SameAt
<1>4. Conserved(d)'
  BY <1>1 DEF WriteFails, Conserved
<1>5. BuffersMatchPc(d)'
  BY <1>1 DEF TypeOK, WriteFails, BuffersMatchPc
<1>6. ClosedTogether'
  BY <1>1 DEF TypeOK, WriteFails, ClosedTogether
<1> QED
  BY <1>2, <1>3, <1>4, <1>5, <1>6, OtherDirection

\* After Close() the session is closed and so are both sockets.
LEMMA CloseCloses ==
  ASSUME TypeOK, ClosedTogether, Close
  PROVE  closed_' = TRUE /\ open' \in [Peer -> BOOLEAN]
         /\ \A p \in Peer : open'[p] = FALSE
<1>1. closed_ \in BOOLEAN /\ open \in [Peer -> BOOLEAN]
  BY DEF TypeOK
<1>2. CASE closed_ = TRUE
  BY <1>1, <1>2 DEF Close, ClosedTogether
<1>3. CASE closed_ = FALSE
  BY <1>1, <1>3 DEF Close
<1> QED
  BY <1>1, <1>2, <1>3

\* EOF is acted upon only when everything before it was sent.
LEMMA ResumeEndStep == ASSUME IInv, NEW d \in Direction, ResumeEnd(d) PROVE IInv'
<1> USE DEF env
<1>1. /\ TypeOK /\ ClosedTogether /\ BuffersMatchPc(d) /\ Conserved(d)
      /\ target[d] \in Seq(Byte)
  BY Parts
<1>2. Close /\ pc' = [pc EXCEPT ![d] = "ended"]
  BY DEF ResumeEnd, Leave
<1>3. closed_' = TRUE /\ open' \in [Peer -> BOOLEAN]
      /\ \A p \in Peer : open'[p] = FALSE
  BY <1>2, <1>1, CloseCloses
<1>4. TypeOK'
  BY <1>1, <1>3 DEF TypeOK, ResumeEnd, PCs, Leave
<1>5. \A e \in Direction \ {d} : SameAt(e)
  BY <1>1 DEF TypeOK, ResumeEnd, SameAt, Leave
<1>6. Conserved(d)'
  BY <1>1 DEF ResumeEnd, Conserved
<1>7. ASSUME pc[d] = "read_eof" PROVE target[d] = stream[d]
  <2>1. /\ buffer[d] = << >> /\ written[d] = 0 /\ received[d] = << >>
        /\ source[d] = << >>
    BY <1>1, <1>7 DEF BuffersMatchPc
  <2>2. << >> \in Seq(Byte) /\ SubSeq(<< >>, 0 + 1, Len(<< >>)) = << >>
    BY EmptySeq, RestOf
  <2>3. target[d] \o << >> \o << >> \o << >> = stream[d]
    BY ONLY <1>1, <2>1, <2>2, Zenon DEF Conserved
  <2>4. target[d] \o << >> = target[d]
    BY ONLY <1>1, Units, Zenon
  <2> QED
    BY ONLY <2>3, <2>4, Zenon
<1>8. BuffersMatchPc(d)'
  BY <1>1, <1>7 DEF TypeOK, ResumeEnd, BuffersMatchPc, Leave
<1>9. ClosedTogether'
  <2>1. pc'[d] = "ended"
    BY <1>2, <1>1 DEF TypeOK
  <2> QED
    BY <1>3, <2>1 DEF ClosedTogether
<1> QED
  BY <1>4, <1>5, <1>6, <1>8, <1>9, OtherDirection

-----------------------------------------------------------------------------
(***************************************************************************)
(* The steps that move bytes from one part of a stream to the next.        *)
(***************************************************************************)
LEMMA ReadCompletesStep ==
  ASSUME IInv, NEW d \in Direction, ReadCompletes(d) PROVE IInv'
<1> USE DEF env
<1> DEFINE x == target[d] \o SubSeq(buffer[d], written[d] + 1, Len(buffer[d]))
<1>1. /\ TypeOK /\ ClosedTogether /\ BuffersMatchPc(d) /\ Conserved(d)
      /\ source[d] \in Seq(Byte) /\ Len(source[d]) \in Nat
      /\ buffer[d] \in Seq(Byte) /\ target[d] \in Seq(Byte)
      /\ written[d] \in 0 .. Len(buffer[d])
  BY Parts
<1>2. PICK n \in 1 .. Len(source[d]) :
        /\ received' = [received EXCEPT ![d] = SubSeq(source[d], 1, n)]
        /\ source' = [source EXCEPT
                        ![d] = SubSeq(source[d], n + 1, Len(source[d]))]
  BY Zenon DEF ReadCompletes
<1>3. /\ received'[d] = SubSeq(source[d], 1, n)
      /\ source'[d] = SubSeq(source[d], n + 1, Len(source[d]))
  BY <1>1, <1>2 DEF TypeOK
<1>4. received[d] = << >>
  BY <1>1 DEF BuffersMatchPc, ReadCompletes
<1>5. x \in Seq(Byte)
  BY <1>1, RestOf, PrefixOfConcat
<1>6. /\ (x \o received'[d]) \o source'[d] = (x \o << >>) \o source[d]
      /\ received'[d] \in Seq(Byte) /\ source'[d] \in Seq(Byte)
  <2> HIDE DEF x
  <2>1. n \in 0 .. Len(source[d])
    BY <1>1
  <2>2. /\ (x \o SubSeq(source[d], 1, n)) \o SubSeq(source[d], n + 1, Len(source[d]))
             = (x \o << >>) \o source[d]
        /\ SubSeq(source[d], 1, n) \in Seq(Byte)
        /\ SubSeq(source[d], n + 1, Len(source[d])) \in Seq(Byte)
    BY <1>1, <1>5, <2>1, ReadMovesBytes
  <2> QED
    BY ONLY <1>3, <2>2, Zenon
<1>7. Conserved(d)'
  <2>1. /\ target'[d] = target[d] /\ buffer'[d] = buffer[d]
        /\ written'[d] = written[d] /\ stream'[d] = stream[d]
    BY Zenon DEF ReadCompletes
  <2>2. (x \o << >>) \o source[d] = stream[d]
    BY ONLY <1>1, <1>4, Zenon DEF Conserved
  <2>3. (x \o received'[d]) \o source'[d] = stream'[d]
    BY ONLY <1>6, <2>1, <2>2, Zenon
  <2> QED
    BY ONLY <2>1, <2>3, Zenon DEF Conserved
<1>8. TypeOK'
  <2>1. received' \in [Direction -> Seq(Byte)] /\ source' \in [Direction -> Seq(Byte)]
    BY <1>1, <1>2, <1>3, <1>6 DEF TypeOK
  <2> QED
    BY <1>1, <2>1 DEF TypeOK, ReadCompletes, PCs
<1>9. \A e \in Direction \ {d} : SameAt(e)
  BY <1>1, <1>2 DEF TypeOK, ReadCompletes, SameAt
<1>10. BuffersMatchPc(d)'
  BY <1>1 DEF TypeOK, ReadCompletes, BuffersMatchPc
<1>11. ClosedTogether'
  BY <1>1 DEF TypeOK, ReadCompletes, ClosedTogether
<1> QED
  BY <1>7, <1>8, <1>9, <1>10, <1>11, OtherDirection

LEMMA ResumeReadStep ==
  ASSUME IInv, NEW d \in Direction, ResumeRead(d) PROVE IInv'
<1> USE DEF env
<1>1. /\ TypeOK /\ ClosedTogether /\ BuffersMatchPc(d) /\ Conserved(d)
      /\ received[d] \in Seq(Byte) /\ target[d] \in Seq(Byte)
  BY Parts
<1>2. buffer[d] = << >> /\ written[d] = 0
  BY <1>1 DEF BuffersMatchPc, ResumeRead
<1>3. /\ buffer'[d] = << >> \o received[d] /\ received'[d] = << >>
      /\ written'[d] = 0 /\ target'[d] = target[d]
      /\ source'[d] = source[d] /\ stream'[d] = stream[d]
  BY <1>1, <1>2 DEF TypeOK, ResumeRead
<1>4. /\ buffer'[d] = received[d]
      /\ target[d] \o << >> = target[d]
  BY ONLY <1>1, <1>3, Units, Zenon
<1>5. /\ SubSeq(<< >>, 0 + 1, Len(<< >>)) = << >>
      /\ SubSeq(received[d], 0 + 1, Len(received[d])) = received[d]
      /\ << >> \in Seq(Byte) /\ 0 <= Len(received[d])
  BY <1>1, EmptySeq, RestOf, LenProperties
<1>6. target[d] \o received[d] \in Seq(Byte)
  BY <1>1, PrefixOfConcat
<1>7. (target[d] \o received[d]) \o << >> = target[d] \o received[d]
  BY ONLY <1>6, Units, Zenon
<1>8. Conserved(d)'
  BY ONLY <1>1, <1>2, <1>3, <1>4, <1>5, <1>7, Zenon DEF Conserved
<1>9. TypeOK'
  <2>1. /\ buffer' \in [Direction -> Seq(Byte)]
        /\ received' \in [Direction -> Seq(Byte)]
        /\ \A e \in Direction : written'[e] <= Len(buffer'[e])
    BY <1>1, <1>3, <1>4, <1>5 DEF TypeOK, ResumeRead
  <2> QED
    BY <1>1, <2>1 DEF TypeOK, ResumeRead, PCs
<1>10. \A e \in Direction \ {d} : SameAt(e)
  BY <1>1 DEF TypeOK, ResumeRead, SameAt
<1>11. BuffersMatchPc(d)'
  BY <1>1 DEF TypeOK, ResumeRead, BuffersMatchPc
<1>12. ClosedTogether'
  BY <1>1 DEF TypeOK, ResumeRead, ClosedTogether
<1> QED
  BY <1>8, <1>9, <1>10, <1>11, <1>12, OtherDirection

LEMMA ResumeWriteStep ==
  ASSUME IInv, NEW d \in Direction, ResumeWrite(d) PROVE IInv'
<1> USE DEF env
<1>1. /\ TypeOK /\ ClosedTogether /\ BuffersMatchPc(d) /\ Conserved(d)
      /\ buffer[d] \in Seq(Byte)
  BY Parts
<1>2. written[d] = Len(buffer[d])
  BY <1>1 DEF BuffersMatchPc, ResumeWrite
<1>3. /\ buffer'[d] = << >> /\ written'[d] = 0 /\ target'[d] = target[d]
      /\ received'[d] = received[d]
      /\ source'[d] = source[d] /\ stream'[d] = stream[d]
  BY <1>1 DEF TypeOK, ResumeWrite
<1>4. /\ SubSeq(<< >>, 0 + 1, Len(<< >>)) = << >>
      /\ SubSeq(buffer[d], Len(buffer[d]) + 1, Len(buffer[d])) = << >>
      /\ << >> \in Seq(Byte) /\ Len(<< >>) = 0
  BY <1>1, EmptySeq, RestOf
<1>5. Conserved(d)'
  BY ONLY <1>1, <1>2, <1>3, <1>4, Zenon DEF Conserved
<1>6. TypeOK'
  <2>1. /\ buffer' \in [Direction -> Seq(Byte)]
        /\ written' \in [Direction -> Nat]
        /\ \A e \in Direction : written'[e] <= Len(buffer'[e])
    BY <1>1, <1>3, <1>4 DEF TypeOK, ResumeWrite
  <2> QED
    BY <1>1, <2>1 DEF TypeOK, ResumeWrite, PCs, LoopHead
<1>7. \A e \in Direction \ {d} : SameAt(e)
  BY <1>1 DEF TypeOK, ResumeWrite, SameAt
<1>8. BuffersMatchPc(d)'
  BY <1>1 DEF TypeOK, ResumeWrite, BuffersMatchPc, LoopHead
<1>9. ClosedTogether'
  BY <1>1 DEF TypeOK, ResumeWrite, ClosedTogether, LoopHead
<1> QED
  BY <1>5, <1>6, <1>7, <1>8, <1>9, OtherDirection

\* The bytes a partial write sends are the next ones of the buffer.
LEMMA WriteSomeMoves ==
  ASSUME IInv, NEW d \in Direction, WriteSome(d)
  PROVE  /\ Conserved(d)' /\ target'[d] \in Seq(Byte)
         /\ Len(target'[d]) > Len(target[d])
         /\ written'[d] \in 0 .. Len(buffer[d])
         /\ written' \in [Direction -> Nat] /\ target' \in [Direction -> Seq(Byte)]
         /\ \A e \in Direction \ {d} : written'[e] = written[e] /\ target'[e] = target[e]
<1> USE DEF env
<1> DEFINE t == target[d]  b == buffer[d]  w == written[d]
<1>1. /\ TypeOK /\ Conserved(d)
      /\ t \in Seq(Byte) /\ b \in Seq(Byte)
      /\ w \in 0 .. Len(b) /\ Len(b) \in Nat
  BY Parts
<1>2. PICK n \in 1 .. Len(buffer[d]) - written[d] :
        /\ target' = [target EXCEPT
             ![d] = @ \o SubSeq(buffer[d], written[d] + 1, written[d] + n)]
        /\ written' = [written EXCEPT ![d] = @ + n]
  BY Zenon DEF WriteSome
<1>3. /\ target'[d] = t \o SubSeq(b, w + 1, w + n)
      /\ written'[d] = w + n
      /\ \A e \in Direction \ {d} : written'[e] = written[e] /\ target'[e] = target[e]
  BY <1>1, <1>2 DEF TypeOK
<1>4. n \in 0 .. Len(b) - w /\ n > 0 /\ w + n \in 0 .. Len(b)
  BY <1>1
<1>5. /\ buffer'[d] = b /\ received'[d] = received[d] /\ source'[d] = source[d]
      /\ stream'[d] = stream[d]
  BY Zenon DEF WriteSome
<1>6. t \o SubSeq(b, w + 1, Len(b)) \o received[d] \o source[d] = stream[d]
  BY ONLY <1>1, Zenon DEF Conserved
<1> HIDE DEF t, b, w
<1>7. /\ (t \o SubSeq(b, w + 1, w + n)) \o SubSeq(b, w + n + 1, Len(b))
           = t \o SubSeq(b, w + 1, Len(b))
      /\ t \o SubSeq(b, w + 1, w + n) \in Seq(Byte)
      /\ Len(t \o SubSeq(b, w + 1, w + n)) = Len(t) + n
  BY <1>1, <1>4, WriteMovesBytes
<1>8. Conserved(d)'
  <2>1. target'[d] \o SubSeq(buffer'[d], written'[d] + 1, Len(buffer'[d]))
          \o received'[d] \o source'[d] = stream'[d]
    BY ONLY <1>3, <1>5, <1>6, <1>7, Zenon
  <2> QED
    BY ONLY <2>1, Zenon DEF Conserved
<1>9. target'[d] \in Seq(Byte) /\ Len(target'[d]) > Len(target[d])
  <2>1. target'[d] \in Seq(Byte) /\ Len(target'[d]) = Len(t) + n /\ Len(t) \in Nat
    BY <1>1, <1>3, <1>7, LenProperties
  <2> QED
    BY <1>4, <2>1 DEF t
<1>10. written'[d] \in 0 .. Len(buffer[d])
  BY <1>3, <1>4 DEF b
<1>11. target' \in [Direction -> Seq(Byte)]
  <2>1. target' \in [Direction -> Seq(Byte)] <=>
          \A e \in Direction : target'[e] \in Seq(Byte)
    BY <1>1, <1>2 DEF TypeOK
  <2> QED
    BY <1>1, <1>3, <1>9, <2>1 DEF TypeOK
<1>12. written' \in [Direction -> Nat]
  BY <1>1, <1>2, <1>4 DEF TypeOK, w
<1> QED
  BY <1>3, <1>8, <1>9, <1>10, <1>11, <1>12

LEMMA WriteSomeStep ==
  ASSUME IInv, NEW d \in Direction, WriteSome(d) PROVE IInv'
<1> USE DEF env
<1>1. TypeOK /\ ClosedTogether /\ BuffersMatchPc(d)
  BY Parts
<1>2. /\ Conserved(d)'
      /\ written'[d] \in 0 .. Len(buffer[d])
      /\ written' \in [Direction -> Nat] /\ target' \in [Direction -> Seq(Byte)]
      /\ \A e \in Direction \ {d} : written'[e] = written[e] /\ target'[e] = target[e]
  BY WriteSomeMoves
<1>3. /\ pc[d] = "writing"
      /\ pc' \in [Direction -> PCs]
      /\ pc'[d] \in {"writing", "write_done"}
      /\ pc'[d] = "write_done" => written'[d] = Len(buffer[d])
      /\ \A e \in Direction \ {d} : pc'[e] = pc[e]
  BY <1>1 DEF TypeOK, WriteSome, PCs
<1>4. TypeOK'
  <2>1. \A e \in Direction : written'[e] <= Len(buffer'[e])
    <3>1. ASSUME NEW e \in Direction, e # d PROVE written'[e] <= Len(buffer'[e])
      BY <1>1, <1>2, <3>1 DEF TypeOK, WriteSome
    <3>2. written'[d] <= Len(buffer'[d])
      BY <1>2 DEF WriteSome
    <3> QED
      BY <3>1, <3>2
  <2> QED
    BY <1>1, <1>2, <1>3, <2>1 DEF TypeOK, WriteSome
<1>5. \A e \in Direction \ {d} : SameAt(e)
  BY <1>2, <1>3 DEF WriteSome, SameAt
<1>6. BuffersMatchPc(d)'
  BY <1>1, <1>3 DEF TypeOK, WriteSome, BuffersMatchPc
<1>7. ClosedTogether'
  <2>1. \A e \in Direction : pc'[e] = "ended" <=> pc[e] = "ended"
    BY <1>3
  <2> QED
    BY <1>1, <2>1 DEF WriteSome, ClosedTogether
<1> QED
  BY <1>2, <1>4, <1>5, <1>6, <1>7, OtherDirection

-----------------------------------------------------------------------------
LEMMA NextIInv == IInv /\ [Next]_vars => IInv'
<1>1. ASSUME IInv, NEW d \in Direction, Kernel(d) PROVE IInv'
  BY <1>1, ReadCompletesStep, ReadEofStep, ReadFailsStep, WriteSomeStep,
     WriteFailsStep DEF Kernel
<1>2. ASSUME IInv, NEW d \in Direction, Resume(d) PROVE IInv'
  BY <1>2, StartStep, ResumeReadStep, ResumeWriteStep, ResumeEndStep DEF Resume
<1>3. ASSUME IInv, UNCHANGED vars PROVE IInv'
  BY <1>3 DEF IInv, TypeOK, StreamsPreserved, Conserved, ClosedTogether,
              BuffersMatchPc, vars, env
<1> QED
  BY <1>1, <1>2, <1>3 DEF Next, Done

(***************************************************************************)
(* The inductive invariant holds of every state of the tunnel.             *)
(***************************************************************************)
THEOREM Inductive == Spec => []IInv
<1> QED
  BY InitIInv, NextIInv, PTL DEF Spec

(***************************************************************************)
(* Type correctness; a pending async_write never runs past its buffer.     *)
(***************************************************************************)
THEOREM TypeCorrect == Spec => []TypeOK
<1>1. IInv => TypeOK
  BY DEF IInv
<1> QED
  BY <1>1, Inductive, PTL

(***************************************************************************)
(* RelayTunnelBidirectional neither loses, repeats nor reorders a byte of  *)
(* either direction, whenever the other direction closes the session.      *)
(***************************************************************************)
THEOREM BytesPreserved == Spec => []StreamsPreserved
<1>1. IInv => StreamsPreserved
  BY DEF IInv
<1> QED
  BY <1>1, Inductive, PTL

(***************************************************************************)
(* A direction whose ForwardViaTunnel ends on EOF has delivered the whole  *)
(* of its stream.                                                          *)
(***************************************************************************)
THEOREM EofIsWhole == Spec => []EofLosesNothing
<1>1. IInv => EofLosesNothing
  BY DEF IInv, EofLosesNothing, BuffersMatchPc
<1> QED
  BY <1>1, Inductive, PTL

-----------------------------------------------------------------------------
(***************************************************************************)
(* The refinement.  A partial write delivers the next bytes of its         *)
(* direction, the first Close() shuts the pipe, every other step is        *)
(* invisible.                                                              *)
(***************************************************************************)
LEMMA SentIsPrefix ==
  ASSUME IInv, NEW d \in Direction
  PROVE  /\ Len(target[d]) \in Nat /\ Len(stream[d]) \in Nat
         /\ Len(target[d]) <= Len(stream[d])
         /\ target[d] = SubSeq(stream[d], 1, Len(target[d]))
<1> DEFINE t == target[d]
           u == SubSeq(buffer[d], written[d] + 1, Len(buffer[d]))
           r == received[d]
           s == source[d]
<1>1. /\ t \in Seq(Byte) /\ r \in Seq(Byte) /\ s \in Seq(Byte)
      /\ stream[d] \in Seq(Byte) /\ Conserved(d)
      /\ buffer[d] \in Seq(Byte) /\ written[d] \in 0 .. Len(buffer[d])
  BY Parts
<1>2. u \in Seq(Byte)
  BY <1>1, RestOf
<1>3. t \o u \o r \o s = stream[d]
  BY ONLY <1>1, Zenon DEF Conserved
<1> HIDE DEF t, u, r, s
<1>4. t \o u \in Seq(Byte) /\ r \o s \in Seq(Byte)
  BY <1>1, <1>2, PrefixOfConcat
<1>5. u \o (r \o s) \in Seq(Byte)
  BY <1>2, <1>4, PrefixOfConcat
<1>6. (t \o u) \o r \o s = (t \o u) \o (r \o s)
  <2> DEFINE a == t \o u
  <2>1. a \in Seq(Byte) /\ r \in Seq(Byte) /\ s \in Seq(Byte)
    BY <1>1, <1>4
  <2> HIDE DEF a
  <2>2. (a \o r) \o s = a \o (r \o s)
    BY ONLY <2>1, Assoc, Zenon
  <2> QED
    BY ONLY <2>2, Zenon DEF a
<1>7. (t \o u) \o (r \o s) = t \o (u \o (r \o s))
  <2> DEFINE a == r \o s
  <2>1. a \in Seq(Byte) /\ t \in Seq(Byte) /\ u \in Seq(Byte)
    BY <1>1, <1>2, <1>4
  <2> HIDE DEF a
  <2>2. (t \o u) \o a = t \o (u \o a)
    BY ONLY <2>1, Assoc, Zenon
  <2> QED
    BY ONLY <2>2, Zenon DEF a
<1>8. stream[d] = t \o (u \o (r \o s))
  BY ONLY <1>3, <1>6, <1>7, Zenon
<1>9. /\ Len(t) <= Len(stream[d])
      /\ t = SubSeq(stream[d], 1, Len(t))
  BY ONLY <1>1, <1>5, <1>8, PrefixOfConcat, Zenon
<1>10. Len(t) \in Nat /\ Len(stream[d]) \in Nat
  BY <1>1, LenProperties
<1> QED
  BY ONLY <1>9, <1>10, Zenon DEF t

LEMMA WriteSomeDelivers ==
  ASSUME IInv, NEW d \in Direction, WriteSome(d) PROVE Pipe!Deliver(d)
<1> USE DEF env
<1>1. /\ TypeOK /\ ClosedTogether /\ IInv'
  BY Parts, WriteSomeStep
<1>2. ~closed_
  <2>1. To(d) \in Peer
    BY DEF To, Peer
  <2> QED
    BY <1>1, <2>1 DEF ClosedTogether, WriteSome
<1>3. stream' = stream /\ closed_' = closed_
  BY DEF WriteSome
<1>4. /\ Len(target'[d]) \in Nat /\ Len(stream[d]) \in Nat
      /\ Len(target'[d]) <= Len(stream[d])
      /\ target'[d] = SubSeq(stream[d], 1, Len(target'[d]))
  <2>1. (/\ Len(target[d]) \in Nat /\ Len(stream[d]) \in Nat
         /\ Len(target[d]) <= Len(stream[d])
         /\ target[d] = SubSeq(stream[d], 1, Len(target[d])))'
    BY <1>1, SentIsPrefix, PTL
  <2> QED
    BY <1>3, <2>1
<1>5. Len(target'[d]) > Len(target[d]) /\ Len(target[d]) \in Nat
  BY WriteSomeMoves, SentIsPrefix
<1>6. Len(target'[d]) \in Len(target[d]) + 1 .. Len(stream[d])
  BY <1>4, <1>5
<1>7. target' = [target EXCEPT ![d] = target'[d]]
  BY <1>1 DEF TypeOK, WriteSome
<1>8. target' = [target EXCEPT ![d] = SubSeq(stream[d], 1, Len(target'[d]))]
  BY ONLY <1>4, <1>7, Zenon
<1> QED
  BY <1>2, <1>3, <1>6, <1>8 DEF Pipe!Deliver

LEMMA ResumeEndShuts ==
  ASSUME IInv, NEW d \in Direction, ResumeEnd(d)
  PROVE  Pipe!Shut \/ UNCHANGED Pipe!vars
<1>1. closed_ \in BOOLEAN /\ Close /\ UNCHANGED <<stream, target>>
  BY DEF IInv, TypeOK, ResumeEnd, Leave, env
<1> QED
  BY <1>1 DEF Close, Pipe!Shut, Pipe!vars

(***************************************************************************)
(* The tunnel implements the duplex pipe: each direction delivers a prefix *)
(* of what was sent, in order, nothing is delivered after Close(), and     *)
(* both directions are closed by one step.                                 *)
(***************************************************************************)
THEOREM RelayImplementsPipe == Spec => ImplementsPipe
<1>1. Init => Pipe!Init
  BY StreamsAssumption DEF Init, Pipe!Init, Byte, Pipe!Byte
<1>2. IInv /\ [Next]_vars => [Pipe!Next]_Pipe!vars
  <2>1. ASSUME IInv, NEW d \in Direction, Kernel(d)
        PROVE  Pipe!Deliver(d) \/ UNCHANGED Pipe!vars
    <3>1. CASE WriteSome(d)
      BY <2>1, <3>1, WriteSomeDelivers
    <3>2. CASE ~WriteSome(d)
      BY <2>1, <3>2 DEF Kernel, ReadCompletes, ReadEof, ReadFails, WriteFails,
                        Pipe!vars, env
    <3> QED
      BY <3>1, <3>2
  <2>2. ASSUME IInv, NEW d \in Direction, Resume(d)
        PROVE  Pipe!Shut \/ UNCHANGED Pipe!vars
    <3>1. CASE ResumeEnd(d)
      BY <2>2, <3>1, ResumeEndShuts
    <3>2. CASE ~ResumeEnd(d)
      BY <2>2, <3>2 DEF Resume, Start, ResumeRead, ResumeWrite, Pipe!vars, env
    <3> QED
      BY <3>1, <3>2
  <2>3. ASSUME UNCHANGED vars PROVE UNCHANGED Pipe!vars
    BY <2>3 DEF vars, env, Pipe!vars
  <2> QED
    BY <2>1, <2>2, <2>3 DEF Next, Done, Pipe!Next
<1> QED
  BY <1>1, <1>2, Inductive, PTL DEF Spec, ImplementsPipe, Pipe!Spec

=============================================================================
