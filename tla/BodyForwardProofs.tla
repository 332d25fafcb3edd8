------------------------- MODULE BodyForwardProofs -------------------------
(***************************************************************************)
(* What holds of BodyForward for all inputs, read sizes and widths of      *)
(* size_t, and of the message helpers it relies on for all lines.          *)
(***************************************************************************)
EXTENDS BodyForward, SizeLineGrammar, SequenceLemmas

(***************************************************************************)
(* FindCrlf gives no position or that of the first CRLF, which is in the   *)
(* buffer, so that the line and its CRLF can be written from it.           *)
(***************************************************************************)
LEMMA FindCrlfFirst ==
  ASSUME NEW s \in Seq(Byte), FindCrlf(s) # NoValue
  PROVE  /\ FindCrlf(s) \in Nat /\ CrlfAt(s, FindCrlf(s))
         /\ \A q \in 0 .. FindCrlf(s) - 1 : ~CrlfAt(s, q)
<1> DEFINE T == {p \in 0 .. Len(s) : CrlfAt(s, p)}
           First(p) == CrlfAt(s, p) /\ \A q \in 0 .. p - 1 : ~CrlfAt(s, q)
<1>1. Len(s) \in Nat
  BY LenProperties
<1>2. T \subseteq Nat /\ T # {}
  BY <1>1 DEF FindCrlf
<1>3. PICK p \in T : \A q \in T : p <= q
  BY <1>2, LeastNatural
<1>4. First(p)
  BY <1>1, <1>3
<1> HIDE DEF First
<1>5. p \in 0 .. Len(s)
  BY <1>3
<1>6. FindCrlf(s) = CHOOSE e \in 0 .. Len(s) : First(e)
  BY <1>2 DEF FindCrlf, First
<1>7. FindCrlf(s) \in 0 .. Len(s) /\ First(FindCrlf(s))
  BY <1>4, <1>5, <1>6
<1> QED
  BY <1>1, <1>7 DEF First

LEMMA FindCrlfInBuffer ==
  ASSUME NEW s \in Seq(Byte), FindCrlf(s) # NoValue
  PROVE  FindCrlf(s) \in Nat /\ FindCrlf(s) + 2 <= Len(s)
  BY FindCrlfFirst DEF CrlfAt

-----------------------------------------------------------------------------
(***************************************************************************)
(* The three sequences of a state, and what a read and a write do to them. *)
(***************************************************************************)
LEMMA ReadMoves ==
  ASSUME TypeOK, Conserved, NEW n \in 1 .. Len(source),
         buffer' = buffer \o SubSeq(source, 1, n),
         source' = SubSeq(source, n + 1, Len(source)),
         UNCHANGED <<target, stream>>
  PROVE  /\ buffer' \in Seq(Byte) /\ source' \in Seq(Byte)
         /\ Len(buffer') = Len(buffer) + n
         /\ Conserved'
<1>1. /\ target \in Seq(Byte) /\ buffer \in Seq(Byte) /\ source \in Seq(Byte)
      /\ n \in 0 .. Len(source)
  BY Lengths DEF TypeOK
<1>2. target \o buffer' \o source' = target \o buffer \o source
  BY <1>1, MoveLeft, ZenonT(40)
<1>3. SubSeq(source, 1, n) \in Seq(Byte) /\ Len(SubSeq(source, 1, n)) = n
  BY <1>1, CutInTwo, Zenon
<1>4. source' \in Seq(Byte)
  BY <1>1, CutInTwo, Zenon
<1>5. buffer' \in Seq(Byte) /\ Len(buffer') = Len(buffer) + Len(SubSeq(source, 1, n))
  BY <1>1, <1>3, PrefixOfConcat, Zenon
<1> QED
  BY <1>2, <1>3, <1>4, <1>5, Zenon DEF Conserved

LEMMA WriteMoves ==
  ASSUME TypeOK, Conserved, NEW n \in 0 .. Len(buffer), WriteToPeer(n),
         UNCHANGED <<source, stream>>
  PROVE  /\ buffer' \in Seq(Byte) /\ target' \in Seq(Byte)
         /\ Len(buffer') = Len(buffer) - n
         /\ Len(target') = Len(target) + n
         /\ Conserved' /\ SentIsPrefix'
<1>1. target \in Seq(Byte) /\ buffer \in Seq(Byte) /\ source \in Seq(Byte)
  BY DEF TypeOK
<1>2. /\ target' = target \o SubSeq(buffer, 1, n)
      /\ buffer' = SubSeq(buffer, n + 1, Len(buffer))
  BY DEF WriteToPeer
<1>3. /\ target' \o buffer' \o source = target \o buffer \o source
      /\ target' \in Seq(Byte)
      /\ Len(target') = Len(target) + n
  BY <1>1, <1>2, MoveOut, ZenonT(40)
<1>4. buffer' \in Seq(Byte) /\ Len(buffer') = Len(buffer) - n
  BY <1>1, <1>2, CutInTwo, Zenon
<1>5. target' \o buffer' \o source' = stream'
  BY <1>3, Zenon DEF Conserved
<1>6. source' \in Seq(Byte)
  BY <1>1
<1>7. Len(target') <= Len(stream') /\ target' = SubSeq(stream', 1, Len(target'))
  <2>1. target' \in Seq(Byte) /\ buffer' \in Seq(Byte)
    BY <1>3, <1>4
  <2> QED
    BY ONLY <1>5, <1>6, <2>1, ConservedFacts, Zenon
<1> QED
  BY <1>3, <1>4, <1>5, <1>7, Zenon DEF Conserved, SentIsPrefix

\* After a failed write the receiver has some of the buffer's bytes.
LEMMA PartialWrite ==
  ASSUME TypeOK, Conserved, NEW k \in 0 .. Len(buffer),
         target' = target \o SubSeq(buffer, 1, k), UNCHANGED stream
  PROVE  target' \in Seq(Byte) /\ SentIsPrefix' /\ Len(target') = Len(target) + k
<1> DEFINE rest == SubSeq(buffer, k + 1, Len(buffer))
<1>1. target \in Seq(Byte) /\ buffer \in Seq(Byte) /\ source \in Seq(Byte)
  BY DEF TypeOK
<1>2. /\ target' \o rest \o source = target \o buffer \o source
      /\ target' \in Seq(Byte)
      /\ Len(target') = Len(target) + k
  BY <1>1, MoveOut, ZenonT(40)
<1>3. rest \in Seq(Byte)
  BY <1>1, CutInTwo, Zenon
<1> HIDE DEF rest
<1>4. target' \o rest \o source = stream'
  BY <1>2, Zenon DEF Conserved
<1>5. Len(target') <= Len(stream') /\ target' = SubSeq(stream', 1, Len(target'))
  <2>1. target' \in Seq(Byte)
    BY <1>2
  <2> QED
    BY ONLY <1>1, <1>3, <1>4, <2>1, ConservedFacts, Zenon
<1> QED
  BY <1>2, <1>5, Zenon DEF SentIsPrefix

-----------------------------------------------------------------------------
(***************************************************************************)
(* A loop never asks WriteToPeer for more than the buffer holds.           *)
(***************************************************************************)
LEMMA BytesToWriteInBuffer ==
  ASSUME IInv, Writing
  PROVE  BytesToWrite \in 0 .. Len(buffer)
<1>1. Len(buffer) \in Nat
  BY Lengths DEF IInv, TypeOK
<1>2. CASE pc \in {"exact", "exact_write"}
  BY <1>1, <1>2 DEF IInv, TypeOK, LoopInv, PcMatchesFraming, ExactCounts,
                    BytesToWrite, Least
<1>3. CASE pc = "drain"
  BY <1>1, <1>3 DEF BytesToWrite
<1>4. CASE pc = "until_eof_write"
  BY <1>1, <1>4 DEF BytesToWrite, IInv, LoopInv, PcMatchesFraming,
                    UntilEofCopies, Writing
<1>5. CASE pc = "ForwardChunkSizeLine"
  BY <1>1, <1>5 DEF BytesToWrite, IInv, LoopInv, TypeOK, SizeLineBuffered,
                    Writing
<1>6. CASE pc = "ForwardChunkDataWithCrlf"
  BY <1>1, <1>6, SizeMaxAssumption DEF BytesToWrite, Least, IInv, TypeOK
<1>7. CASE pc = "ForwardTrailers"
  <2>1. FindCrlf(buffer) \in Nat /\ FindCrlf(buffer) + 2 <= Len(buffer)
    BY <1>7, FindCrlfInBuffer DEF Writing, IInv, TypeOK
  <2> QED
    BY <1>1, <1>7, <2>1 DEF BytesToWrite
<1> QED
  BY <1>2, <1>3, <1>4, <1>5, <1>6, <1>7 DEF Writing

(***************************************************************************)
(* The initial states satisfy the invariant.                               *)
(***************************************************************************)
LEMMA InitIInv == Init => IInv
<1> SUFFICES ASSUME Init PROVE IInv
  OBVIOUS
<1>0. PICK i \in Inputs : \E k \in 0 .. Len(i.bytes) :
         /\ stream = i.bytes
         /\ framing = i.framing
         /\ content_length = i.content_length
         /\ ending = i.ending
         /\ buffer = SubSeq(i.bytes, 1, k)
         /\ source = SubSeq(i.bytes, k + 1, Len(i.bytes))
         /\ pc = Entry(i.framing)
  BY Zenon DEF Init
<1>1. PICK k \in 0 .. Len(i.bytes) :
         /\ stream = i.bytes
         /\ framing = i.framing
         /\ content_length = i.content_length
         /\ ending = i.ending
         /\ buffer = SubSeq(i.bytes, 1, k)
         /\ source = SubSeq(i.bytes, k + 1, Len(i.bytes))
         /\ pc = Entry(i.framing)
  BY <1>0, Zenon
<1>2. /\ stream \in Seq(Byte) /\ framing \in Framings
      /\ content_length \in Nat /\ ending \in Endings
      /\ k \in 0 .. Len(stream)
      /\ buffer = SubSeq(stream, 1, k)
      /\ source = SubSeq(stream, k + 1, Len(stream))
      /\ pc = Entry(framing)
  BY <1>1, InputsAssumption
<1>3. buffer \o source = stream
  BY <1>2, CutInTwo, Zenon
<1>11. buffer \in Seq(Byte) /\ source \in Seq(Byte)
  BY <1>2, CutInTwo, Zenon
<1>4. /\ target = << >> /\ bytes_read = 0 /\ eof = FALSE /\ bytes_sent = 0
      /\ line_length = 0 /\ remaining = 0 /\ result = "pending"
      /\ fault = FALSE
  BY DEF Init
<1>5. target \in Seq(Byte) /\ Len(target) = 0
  BY <1>4, EmptySeq
<1>6. PcMatchesFraming /\ pc \in PCs
        /\ pc \notin {"exact_write", "until_eof_read", "until_eof_write",
                      "ParseChunkSizeLine", "ForwardChunkSizeLine"}
  BY <1>2 DEF Entry, Framings, PCs, PcMatchesFraming
<1>7. TypeOK
  <2>1. remaining \in 0 .. SizeMax /\ bytes_sent \in Nat /\ bytes_read \in Nat
          /\ line_length \in Nat
    BY <1>4, SizeMaxAssumption
  <2> QED
    BY <1>2, <1>11, <1>4, <1>5, <1>6, <2>1, Zenon DEF TypeOK
<1>8. Conserved
  <2>1. << >> \o buffer = buffer
    BY <1>11, ConcatEmptySeq
  <2> QED
    BY <1>3, <1>4, <2>1, Zenon DEF Conserved
<1>9. SentIsPrefix
  <2>1. target \o buffer \o source = stream
    BY <1>8 DEF Conserved
  <2>2. target \in Seq(Byte)
    BY <1>5
  <2>3. Len(target) <= Len(stream) /\ target = SubSeq(stream, 1, Len(target))
    BY ONLY <1>11, <2>1, <2>2, ConservedFacts, Zenon
  <2> QED
    BY <2>3, Zenon DEF SentIsPrefix
<1>10. LoopInv
  BY <1>2, <1>4, <1>5, <1>6
     DEF LoopInv, ExactCounts, UntilEofCopies, SizeLineBuffered
<1> QED
  BY <1>7, <1>8, <1>9, <1>10 DEF IInv, StreamPreserved

-----------------------------------------------------------------------------
(***************************************************************************)
(* Every action preserves the invariant.                                   *)
(***************************************************************************)
LEMMA ReadDataStep == ASSUME IInv, ReadData PROVE IInv'
<1> USE DEF input, locals
<1>1. result = "pending" /\ fault = FALSE /\ Conserved /\ TypeOK
  BY DEF IInv, LoopInv, StreamPreserved, TypeOK, ReadData, Reading
<1>2. /\ Len(source) \in Nat /\ Len(buffer) \in Nat
      /\ source = << >> <=> Len(source) = 0
      /\ Len(<< >>) = 0
  BY <1>1, Lengths, EmptySeq DEF TypeOK
<1>3. PICK n \in 1 .. Least(MaxRead, Len(source)) :
        /\ buffer' = buffer \o SubSeq(source, 1, n)
        /\ source' = SubSeq(source, n + 1, Len(source))
        /\ bytes_read' = n
  BY Zenon DEF ReadData
<1>4. n \in 1 .. Len(source)
  BY <1>2, MaxReadAssumption DEF Least
<1>5. /\ buffer' \in Seq(Byte) /\ source' \in Seq(Byte)
      /\ Len(buffer') = Len(buffer) + n
      /\ Conserved'
  BY <1>1, <1>3, <1>4, ReadMoves, Zenon DEF ReadData
<1>6. /\ bytes_read' = n /\ eof' = FALSE /\ pc' = AfterRead(pc)
      /\ UNCHANGED <<stream, framing, content_length, ending, target,
                     bytes_sent, line_length, remaining, result, fault>>
  BY <1>3, Zenon DEF ReadData
<1>7. TypeOK'
  <2>1. bytes_read' \in Nat
    BY <1>2, <1>4, <1>6
  <2>4. eof' \in BOOLEAN
    BY <1>6, Zenon
  <2>2. pc' \in PCs
    BY <1>1, <1>6 DEF TypeOK, AfterRead, PCs
  <2>3. buffer' \in Seq(Byte) /\ source' \in Seq(Byte)
    BY <1>5
  <2> QED
    BY <1>1, <1>6, <2>1, <2>2, <2>3, <2>4 DEF TypeOK
<1>8. StreamPreserved'
  BY <1>5, <1>6 DEF IInv, StreamPreserved, SentIsPrefix
<1>9. Reading
  BY DEF ReadData
<1>10. LoopInv'
  BY <1>1, <1>2, <1>4, <1>5, <1>6, <1>9
     DEF IInv, LoopInv, PcMatchesFraming, ExactCounts, UntilEofCopies,
         SizeLineBuffered, AfterRead, Reading, TypeOK
<1> QED
  BY <1>7, <1>8, <1>10 DEF IInv

LEMMA ReadEofStep == ASSUME IInv, ReadEof PROVE IInv'
<1> USE DEF input, locals
<1>1. TypeOK'
  BY DEF IInv, TypeOK, ReadEof, AfterRead, PCs, Return
<1>2. StreamPreserved'
  BY DEF IInv, StreamPreserved, Conserved, SentIsPrefix, ReadEof
<1>3. Len(buffer) \in Nat /\ Len(<< >>) = 0
  BY Lengths, EmptySeq DEF IInv, TypeOK
<1>4. LoopInv'
  BY <1>3 DEF IInv, LoopInv, PcMatchesFraming, ExactCounts, UntilEofCopies,
         SizeLineBuffered, AfterRead, Reading, ReadEof, Return, TypeOK,
         Framings
<1> QED
  BY <1>1, <1>2, <1>4 DEF IInv

LEMMA ReadFailsStep == ASSUME IInv, ReadFails PROVE IInv'
<1> USE DEF input, locals
<1>1. TypeOK'
  BY DEF IInv, TypeOK, ReadFails, Return
<1>2. StreamPreserved'
  BY DEF IInv, StreamPreserved, SentIsPrefix, ReadFails, TypeOK
<1>3. LoopInv'
  BY DEF IInv, LoopInv, PcMatchesFraming, ExactCounts, UntilEofCopies,
         SizeLineBuffered, Reading, ReadFails, Return, TypeOK
<1> QED
  BY <1>1, <1>2, <1>3 DEF IInv

LEMMA NoBodyStep == ASSUME IInv, NoBody PROVE IInv'
<1> USE DEF input, locals
<1>1. TypeOK'
  BY DEF IInv, TypeOK, NoBody, Return
<1>2. StreamPreserved'
  BY DEF IInv, StreamPreserved, Conserved, SentIsPrefix, NoBody
<1>3. LoopInv'
  BY DEF IInv, LoopInv, PcMatchesFraming, ExactCounts, UntilEofCopies,
         SizeLineBuffered, NoBody, Return, TypeOK
<1> QED
  BY <1>1, <1>2, <1>3 DEF IInv

LEMMA ExactReturnStep == ASSUME IInv, ExactReturn PROVE IInv'
<1> USE DEF input, locals
<1>1. TypeOK'
  BY DEF IInv, TypeOK, ExactReturn, Return
<1>2. StreamPreserved'
  BY DEF IInv, StreamPreserved, Conserved, SentIsPrefix, ExactReturn
<1>3. LoopInv'
  BY DEF IInv, LoopInv, PcMatchesFraming, ExactCounts, UntilEofCopies,
         SizeLineBuffered, ExactReturn, Return, TypeOK
<1> QED
  BY <1>1, <1>2, <1>3 DEF IInv

LEMMA FindChunkSizeLineStep == ASSUME IInv, FindChunkSizeLine PROVE IInv'
<1> USE DEF input
<1>1. FindCrlf(buffer) \in Nat /\ FindCrlf(buffer) + 2 <= Len(buffer)
  BY FindCrlfInBuffer DEF IInv, TypeOK, FindChunkSizeLine
<1>2. TypeOK'
  BY <1>1 DEF IInv, TypeOK, FindChunkSizeLine, PCs
<1>3. StreamPreserved'
  BY DEF IInv, StreamPreserved, Conserved, SentIsPrefix, FindChunkSizeLine
<1>4. LoopInv'
  BY <1>1 DEF IInv, LoopInv, PcMatchesFraming, ExactCounts, UntilEofCopies,
         SizeLineBuffered, FindChunkSizeLine, TypeOK, Framings
<1> QED
  BY <1>2, <1>3, <1>4 DEF IInv

LEMMA ParseSizeLineStep == ASSUME IInv, ParseSizeLine PROVE IInv'
<1> USE DEF input
<1>1. TypeOK'
  BY DEF IInv, TypeOK, ParseSizeLine, PCs, Return
<1>2. StreamPreserved'
  BY DEF IInv, StreamPreserved, Conserved, SentIsPrefix, ParseSizeLine
<1>3. LoopInv'
  BY DEF IInv, LoopInv, PcMatchesFraming, ExactCounts, UntilEofCopies,
         SizeLineBuffered, ParseSizeLine, Return, TypeOK, Framings
<1> QED
  BY <1>1, <1>2, <1>3 DEF IInv

LEMMA ExactWriteStep == ASSUME IInv, ExactWrite PROVE IInv'
<1> USE DEF input, locals
<1>1. result = "pending" /\ fault = FALSE /\ Conserved /\ TypeOK
  BY DEF IInv, LoopInv, StreamPreserved, TypeOK, ExactWrite, Writing
<1>2. BytesToWrite \in 0 .. Len(buffer)
  BY BytesToWriteInBuffer DEF ExactWrite
<1>3. WriteToPeer(BytesToWrite) /\ UNCHANGED <<source, stream>>
  BY Zenon DEF ExactWrite
<1>4. /\ buffer' \in Seq(Byte) /\ target' \in Seq(Byte)
      /\ Len(buffer') = Len(buffer) - BytesToWrite
      /\ Len(target') = Len(target) + BytesToWrite
      /\ Conserved' /\ SentIsPrefix'
  BY <1>1, <1>2, <1>3, WriteMoves, Zenon
<1>5. /\ Len(buffer) \in Nat /\ Len(target) \in Nat /\ Len(<< >>) = 0
      /\ buffer' = << >> <=> Len(buffer') = 0
  BY <1>1, <1>4, Lengths, EmptySeq DEF TypeOK
<1>6. TypeOK'
  <2>1. bytes_sent' \in Nat /\ pc' \in PCs
    BY <1>1, <1>2, <1>5 DEF TypeOK, PCs, ExactWrite
  <2> QED
    BY <1>1, <1>4, <2>1, Zenon DEF TypeOK, ExactWrite
<1>7. StreamPreserved'
  BY <1>4 DEF StreamPreserved
<1>8. LoopInv'
  <2>1. BytesToWrite = Least(content_length - bytes_sent, Len(buffer))
    BY DEF ExactWrite, BytesToWrite
  <2>2. framing = "ContentLength" /\ pc \in {"exact", "exact_write"}
    BY DEF ExactWrite, IInv, LoopInv, PcMatchesFraming
  <2>3. bytes_sent = Len(target) /\ bytes_sent <= content_length
    BY <1>1, <2>2 DEF IInv, LoopInv, ExactCounts
  <2>4. bytes_sent' = Len(target') /\ bytes_sent' <= content_length'
    BY <1>1, <1>4, <1>5, <2>1, <2>3 DEF ExactWrite, Least, TypeOK
  <2>5. /\ pc' = "exact"
        /\ UNCHANGED <<framing, content_length, result, fault>>
    BY DEF ExactWrite
  <2> QED
    BY <1>1, <2>2, <2>4, <2>5
       DEF LoopInv, PcMatchesFraming, ExactCounts, UntilEofCopies,
           SizeLineBuffered
<1> QED
  BY <1>6, <1>7, <1>8 DEF IInv

LEMMA DrainStep == ASSUME IInv, Drain PROVE IInv'
<1> USE DEF input, locals
<1>1. result = "pending" /\ fault = FALSE /\ Conserved /\ TypeOK
  BY DEF IInv, LoopInv, StreamPreserved, TypeOK, Drain
<1>2. Len(buffer) \in 0 .. Len(buffer)
  BY Lengths DEF IInv, TypeOK
<1>3. WriteToPeer(Len(buffer)) /\ UNCHANGED <<source, stream>>
  BY Zenon DEF Drain
<1>4. /\ buffer' \in Seq(Byte) /\ target' \in Seq(Byte)
      /\ Len(buffer') = Len(buffer) - Len(buffer)
      /\ Len(target') = Len(target) + Len(buffer)
      /\ Conserved' /\ SentIsPrefix'
  BY <1>1, <1>2, <1>3, WriteMoves, Zenon
<1>5. /\ Len(buffer) \in Nat /\ Len(target) \in Nat /\ Len(<< >>) = 0
      /\ buffer' = << >> <=> Len(buffer') = 0
  BY <1>1, <1>4, Lengths, EmptySeq DEF TypeOK
<1>6. TypeOK'
  BY <1>1, <1>2, <1>4, <1>5, SizeMaxAssumption DEF TypeOK, PCs, Drain
<1>7. StreamPreserved'
  BY <1>4 DEF StreamPreserved
<1>8. LoopInv'
  BY <1>1, <1>2, <1>4, <1>5
     DEF IInv, LoopInv, PcMatchesFraming, ExactCounts, UntilEofCopies,
         SizeLineBuffered, TypeOK, Framings, Drain
<1> QED
  BY <1>6, <1>7, <1>8 DEF IInv

LEMMA UntilEofWriteStep == ASSUME IInv, UntilEofWrite PROVE IInv'
<1> USE DEF input, locals
<1>1. result = "pending" /\ fault = FALSE /\ Conserved /\ TypeOK
  BY DEF IInv, LoopInv, StreamPreserved, TypeOK, UntilEofWrite
<1>2. bytes_read \in 0 .. Len(buffer)
  BY Lengths DEF IInv, TypeOK, LoopInv, PcMatchesFraming, UntilEofCopies,
         UntilEofWrite
<1>3. WriteToPeer(bytes_read) /\ UNCHANGED <<source, stream>>
  BY Zenon DEF UntilEofWrite
<1>4. /\ buffer' \in Seq(Byte) /\ target' \in Seq(Byte)
      /\ Len(buffer') = Len(buffer) - bytes_read
      /\ Len(target') = Len(target) + bytes_read
      /\ Conserved' /\ SentIsPrefix'
  BY <1>1, <1>2, <1>3, WriteMoves, Zenon
<1>5. /\ Len(buffer) \in Nat /\ Len(target) \in Nat /\ Len(<< >>) = 0
      /\ buffer' = << >> <=> Len(buffer') = 0
  BY <1>1, <1>4, Lengths, EmptySeq DEF TypeOK
<1>6. TypeOK'
  BY <1>1, <1>2, <1>4, <1>5, SizeMaxAssumption DEF TypeOK, PCs, UntilEofWrite, Return
<1>7. StreamPreserved'
  BY <1>4 DEF StreamPreserved
<1>8. LoopInv'
  BY <1>1, <1>2, <1>4, <1>5
     DEF IInv, LoopInv, PcMatchesFraming, ExactCounts, UntilEofCopies,
         SizeLineBuffered, TypeOK, Framings, UntilEofWrite, Return
<1> QED
  BY <1>6, <1>7, <1>8 DEF IInv

LEMMA ForwardChunkSizeLineStep == ASSUME IInv, ForwardChunkSizeLine PROVE IInv'
<1> USE DEF input, locals
<1>1. result = "pending" /\ fault = FALSE /\ Conserved /\ TypeOK
  BY DEF IInv, LoopInv, StreamPreserved, TypeOK, ForwardChunkSizeLine, Writing
<1>2. BytesToWrite \in 0 .. Len(buffer)
  BY BytesToWriteInBuffer DEF ForwardChunkSizeLine
<1>3. WriteToPeer(BytesToWrite) /\ UNCHANGED <<source, stream>>
  BY Zenon DEF ForwardChunkSizeLine
<1>4. /\ buffer' \in Seq(Byte) /\ target' \in Seq(Byte)
      /\ Len(buffer') = Len(buffer) - BytesToWrite
      /\ Len(target') = Len(target) + BytesToWrite
      /\ Conserved' /\ SentIsPrefix'
  BY <1>1, <1>2, <1>3, WriteMoves, Zenon
<1>5. /\ Len(buffer) \in Nat /\ Len(target) \in Nat /\ Len(<< >>) = 0
      /\ buffer' = << >> <=> Len(buffer') = 0
  BY <1>1, <1>4, Lengths, EmptySeq DEF TypeOK
<1>6. TypeOK'
  <2>1. remaining' \in 0 .. SizeMax
    <3>1. \A c \in 1 .. SizeMax - 2 : (c + 2) % (SizeMax + 1) \in 0 .. SizeMax
      BY SizeMaxAssumption
    <3>2. \/ remaining' = remaining
          \/ /\ chunk_size \in 1 .. SizeMax - 2
             /\ remaining' = (chunk_size + 2) % (SizeMax + 1)
      BY Zenon DEF ForwardChunkSizeLine
    <3>3. remaining \in 0 .. SizeMax
      BY <1>1 DEF TypeOK
    <3> QED
      BY <3>1, <3>2, <3>3, Zenon
  <2>2. pc' \in PCs /\ result' \in {"pending", "true", "false"}
    BY <1>1 DEF TypeOK, PCs, ForwardChunkSizeLine, Return
  <2> QED
    BY <1>1, <1>4, <2>1, <2>2, Zenon DEF TypeOK, ForwardChunkSizeLine
<1>7. StreamPreserved'
  BY <1>4 DEF StreamPreserved
<1>8. LoopInv'
  BY <1>1, <1>2, <1>4, <1>5
     DEF IInv, LoopInv, PcMatchesFraming, ExactCounts, UntilEofCopies,
         SizeLineBuffered, TypeOK, Framings, ForwardChunkSizeLine, Return
<1> QED
  BY <1>6, <1>7, <1>8 DEF IInv

LEMMA ForwardChunkDataWithCrlfStep == ASSUME IInv, ForwardChunkDataWithCrlf PROVE IInv'
<1> USE DEF input, locals
<1>1. result = "pending" /\ fault = FALSE /\ Conserved /\ TypeOK
  BY DEF IInv, LoopInv, StreamPreserved, TypeOK, ForwardChunkDataWithCrlf, Writing
<1>2. BytesToWrite \in 0 .. Len(buffer)
  BY BytesToWriteInBuffer DEF ForwardChunkDataWithCrlf
<1>3. WriteToPeer(BytesToWrite) /\ UNCHANGED <<source, stream>>
  BY Zenon DEF ForwardChunkDataWithCrlf
<1>4. /\ buffer' \in Seq(Byte) /\ target' \in Seq(Byte)
      /\ Len(buffer') = Len(buffer) - BytesToWrite
      /\ Len(target') = Len(target) + BytesToWrite
      /\ Conserved' /\ SentIsPrefix'
  BY <1>1, <1>2, <1>3, WriteMoves, Zenon
<1>5. /\ Len(buffer) \in Nat /\ Len(target) \in Nat /\ Len(<< >>) = 0
      /\ buffer' = << >> <=> Len(buffer') = 0
  BY <1>1, <1>4, Lengths, EmptySeq DEF TypeOK
<1>6. TypeOK'
  <2>1. BytesToWrite = Least(remaining, Len(buffer))
    BY DEF ForwardChunkDataWithCrlf, BytesToWrite
  <2>2. remaining' \in 0 .. SizeMax
    BY <1>1, <1>5, <2>1, SizeMaxAssumption
       DEF TypeOK, ForwardChunkDataWithCrlf, Least
  <2>3. pc' \in PCs
    BY <1>1 DEF TypeOK, PCs, ForwardChunkDataWithCrlf
  <2> QED
    BY <1>1, <1>4, <2>2, <2>3, Zenon DEF TypeOK, ForwardChunkDataWithCrlf
<1>7. StreamPreserved'
  BY <1>4 DEF StreamPreserved
<1>8. LoopInv'
  BY <1>1, <1>2, <1>4, <1>5
     DEF IInv, LoopInv, PcMatchesFraming, ExactCounts, UntilEofCopies,
         SizeLineBuffered, TypeOK, Framings, ForwardChunkDataWithCrlf
<1> QED
  BY <1>6, <1>7, <1>8 DEF IInv

LEMMA ForwardTrailersStep == ASSUME IInv, ForwardTrailers PROVE IInv'
<1> USE DEF input, locals
<1>1. result = "pending" /\ fault = FALSE /\ Conserved /\ TypeOK
  BY DEF IInv, LoopInv, StreamPreserved, TypeOK, ForwardTrailers, Writing
<1>2. BytesToWrite \in 0 .. Len(buffer)
  BY BytesToWriteInBuffer DEF ForwardTrailers
<1>3. WriteToPeer(BytesToWrite) /\ UNCHANGED <<source, stream>>
  BY Zenon DEF ForwardTrailers
<1>4. /\ buffer' \in Seq(Byte) /\ target' \in Seq(Byte)
      /\ Len(buffer') = Len(buffer) - BytesToWrite
      /\ Len(target') = Len(target) + BytesToWrite
      /\ Conserved' /\ SentIsPrefix'
  BY <1>1, <1>2, <1>3, WriteMoves, Zenon
<1>5. /\ Len(buffer) \in Nat /\ Len(target) \in Nat /\ Len(<< >>) = 0
      /\ buffer' = << >> <=> Len(buffer') = 0
  BY <1>1, <1>4, Lengths, EmptySeq DEF TypeOK
<1>6. TypeOK'
  BY <1>1, <1>2, <1>4, <1>5, SizeMaxAssumption DEF TypeOK, PCs, ForwardTrailers, Return
<1>7. StreamPreserved'
  BY <1>4 DEF StreamPreserved
<1>8. LoopInv'
  BY <1>1, <1>2, <1>4, <1>5
     DEF IInv, LoopInv, PcMatchesFraming, ExactCounts, UntilEofCopies,
         SizeLineBuffered, TypeOK, Framings, ForwardTrailers, Return
<1> QED
  BY <1>6, <1>7, <1>8 DEF IInv

LEMMA WriteFailsStep == ASSUME IInv, WriteFails PROVE IInv'
<1> USE DEF input, locals
<1>1. result = "pending" /\ fault = FALSE /\ Conserved /\ TypeOK /\ Writing
  BY DEF IInv, LoopInv, StreamPreserved, TypeOK, WriteFails, Writing
<1>2. PICK k \in 0 .. BytesToWrite : target' = target \o SubSeq(buffer, 1, k)
  BY Zenon DEF WriteFails
<1>3. Len(buffer) \in Nat /\ BytesToWrite \in 0 .. Len(buffer)
  BY <1>1, BytesToWriteInBuffer, Lengths DEF TypeOK
<1>4. k \in 0 .. Len(buffer)
  BY <1>3
<1>5. target' \in Seq(Byte) /\ SentIsPrefix' /\ Len(target') = Len(target) + k
  <2>1. UNCHANGED stream
    BY DEF WriteFails
  <2> QED
    BY <1>1, <1>2, <1>4, <2>1, PartialWrite, Zenon
<1>6. TypeOK'
  BY <1>1, <1>5 DEF TypeOK, WriteFails, Return
<1>7. StreamPreserved'
  BY <1>5 DEF StreamPreserved, WriteFails
<1>8. Len(target) \in Nat
  BY <1>1, Lengths DEF TypeOK
<1>9. ExactCounts'
  <2> SUFFICES ASSUME framing = "ContentLength" PROVE ExactCounts'
    BY DEF ExactCounts, WriteFails
  <2>1. pc \in {"exact", "exact_write"}
    BY DEF IInv, LoopInv, PcMatchesFraming
  <2>2. BytesToWrite = Least(content_length - bytes_sent, Len(buffer))
    BY <2>1 DEF BytesToWrite
  <2>3. bytes_sent = Len(target) /\ bytes_sent <= content_length
    BY <1>1 DEF IInv, LoopInv, ExactCounts
  <2>4. Len(target') <= content_length
    BY <1>1, <1>3, <1>5, <1>8, <2>2, <2>3 DEF TypeOK, Least
  <2> QED
    BY <1>1, <2>4 DEF IInv, LoopInv, ExactCounts, WriteFails, Return
<1>10. framing \notin {"None", "Tunnel"}
  BY <1>1 DEF IInv, LoopInv, PcMatchesFraming, Writing
<1>11. LoopInv'
  BY <1>1, <1>9, <1>10
     DEF IInv, LoopInv, PcMatchesFraming, UntilEofCopies, SizeLineBuffered,
         WriteFails, Return
<1> QED
  BY <1>6, <1>7, <1>11 DEF IInv

-----------------------------------------------------------------------------
LEMMA NextIInv == IInv /\ [Next]_vars => IInv'
<1>1. ASSUME IInv, Next PROVE IInv'
  <2>1. CASE Read
    BY <1>1, <2>1, ReadDataStep, ReadEofStep DEF Read
  <2>2. CASE Forward
    BY <1>1, <2>2, NoBodyStep, ExactWriteStep, ExactReturnStep, DrainStep,
       UntilEofWriteStep, FindChunkSizeLineStep, ParseSizeLineStep,
       ForwardChunkSizeLineStep, ForwardChunkDataWithCrlfStep,
       ForwardTrailersStep, ZenonT(40) DEF Forward
  <2>3. CASE Fault
    BY <1>1, <2>3, ReadFailsStep, WriteFailsStep DEF Fault
  <2>4. CASE UNCHANGED vars
    BY <1>1, <2>4, ZenonT(40) DEF vars, input, locals, IInv, TypeOK, StreamPreserved,
       Conserved, SentIsPrefix, LoopInv, PcMatchesFraming, ExactCounts,
       UntilEofCopies, SizeLineBuffered
  <2> QED
    BY <1>1, <2>1, <2>2, <2>3, <2>4 DEF Next, Returned
<1>2. ASSUME IInv, UNCHANGED vars PROVE IInv'
  BY <1>2, ZenonT(40) DEF vars, input, locals, IInv, TypeOK, StreamPreserved, Conserved,
     SentIsPrefix, LoopInv, PcMatchesFraming, ExactCounts, UntilEofCopies,
     SizeLineBuffered
<1> QED
  BY <1>1, <1>2

(***************************************************************************)
(* The inductive invariant holds for all inputs, read sizes, failures and  *)
(* widths of size_t.                                                       *)
(***************************************************************************)
THEOREM Inductive == Spec => []IInv
<1> QED
  BY InitIInv, NextIInv, PTL DEF Spec

(***************************************************************************)
(* Type correctness: in particular chunk_bytes_remaining stays a size_t    *)
(* whatever the peer announces.                                            *)
(***************************************************************************)
THEOREM TypeCorrect == Spec => []TypeOK
<1>1. IInv => TypeOK
  BY DEF IInv
<1> QED
  BY <1>1, Inductive, PTL

(***************************************************************************)
(* ForwardExactly, ForwardUntilEof and ForwardChunked neither lose, repeat *)
(* nor reorder a byte of any stream, however it is cut into reads and      *)
(* wherever a read or a write fails.                                       *)
(***************************************************************************)
THEOREM BytesPreserved == Spec => []StreamPreserved
<1>1. IInv => StreamPreserved
  BY DEF IInv
<1> QED
  BY <1>1, Inductive, PTL

-----------------------------------------------------------------------------
(***************************************************************************)
(* A body framed by Content-Length, by EOF, or absent.                     *)
(***************************************************************************)
LEMMA PlainBodies ==
  ASSUME IInv, framing # "Chunked"
  PROVE  TrueMeansWholeBody /\ NeverPastBody /\ FalseOnlyForCause
<1>1. /\ Len(target) \in Nat /\ Len(stream) \in Nat
      /\ Len(target) <= Len(stream)
      /\ target = << >> => Len(target) = 0
  BY Lengths, EmptySeq DEF IInv, TypeOK, StreamPreserved, SentIsPrefix
<1>2. CASE framing \in {"None", "Tunnel"}
  BY <1>1, <1>2 DEF IInv, LoopInv, BodyEnd, TrueMeansWholeBody,
     NeverPastBody, FalseOnlyForCause, NoValue, PcMatchesFraming
<1>3. CASE framing = "ContentLength"
  BY <1>1, <1>3 DEF IInv, TypeOK, LoopInv, ExactCounts, BodyEnd,
     TrueMeansWholeBody, NeverPastBody, FalseOnlyForCause, NoValue
<1>4. CASE framing = "CloseDelimited"
  <2>1. result = "true" => ending = "eof" /\ Len(target) = Len(stream)
    <3> SUFFICES ASSUME result = "true"
                 PROVE  ending = "eof" /\ Len(target) = Len(stream)
      OBVIOUS
    <3>1. ending = "eof" /\ buffer = << >> /\ source = << >> /\ ~fault
      BY <1>4 DEF IInv, LoopInv, UntilEofCopies
    <3>2. target \o buffer \o source = stream
      BY <3>1 DEF IInv, StreamPreserved, Conserved
    <3>3. target \in Seq(Byte) /\ buffer \in Seq(Byte) /\ source \in Seq(Byte)
      BY DEF IInv, TypeOK
    <3>4. Len(stream) = Len(target) + Len(buffer) + Len(source)
      BY ONLY <3>2, <3>3, ConservedFacts
    <3>5. Len(<< >>) = 0
      BY EmptySeq
    <3>6. Len(buffer) = 0 /\ Len(source) = 0
      BY <3>1, <3>5, Zenon
    <3> QED
      BY <1>1, <3>1, <3>4, <3>6
  <2> QED
    BY <1>1, <1>4, <2>1 DEF IInv, LoopInv, BodyEnd,
       TrueMeansWholeBody, NeverPastBody, FalseOnlyForCause, NoValue
<1> QED
  BY <1>2, <1>3, <1>4 DEF IInv, TypeOK, Framings

(***************************************************************************)
(* Functions defined by recursion towards the end of 0 .. N: where p does  *)
(* not stop, it goes on at a later place.  They exist, and their values    *)
(* are bounded by those of the places where the recursion stops.           *)
(***************************************************************************)
GoesOn(f, stop, base, next, m, N) ==
  f = [p \in m .. N |-> IF stop[p] THEN base[p] ELSE f[next[p]]]

LEMMA GoesOnExists ==
  ASSUME NEW N \in Nat, NEW stop, NEW base, NEW next,
         \A p \in 0 .. N : ~stop[p] => next[p] \in p + 1 .. N
  PROVE  \E f : GoesOn(f, stop, base, next, 0, N)
<1> DEFINE P == {k \in Nat : k <= N => \E f : GoesOn(f, stop, base, next, N - k, N)}
<1>1. 0 \in P
  <2> DEFINE g == [p \in N .. N |-> base[p]]
  <2>1. stop[N]
    <3>1. N \in 0 .. N /\ N + 1 .. N = {}
      OBVIOUS
    <3> QED
      BY <3>1
  <2>2. GoesOn(g, stop, base, next, N, N)
    BY <2>1 DEF GoesOn
  <2> QED
    BY <2>2
<1>2. ASSUME NEW k \in Nat, k \in P PROVE k + 1 \in P
  <2> SUFFICES ASSUME k + 1 <= N
               PROVE  \E f : GoesOn(f, stop, base, next, N - (k + 1), N)
    OBVIOUS
  <2> DEFINE q == N - (k + 1)
  <2>1. q \in 0 .. N /\ N - k = q + 1
    OBVIOUS
  <2>2. PICK f : GoesOn(f, stop, base, next, q + 1, N)
    BY <1>2, <2>1
  <2> HIDE DEF q
  <2> DEFINE g == [p \in q .. N |-> IF p = q THEN (IF stop[q] THEN base[q] ELSE f[next[q]])
                                    ELSE f[p]]
  <2>3. ASSUME NEW p \in q .. N
        PROVE  g[p] = IF stop[p] THEN base[p] ELSE g[next[p]]
    <3>1. p \in 0 .. N /\ q \in Nat
      BY <2>1
    <3>2. ~stop[p] => next[p] \in p + 1 .. N /\ g[next[p]] = f[next[p]]
      <4> SUFFICES ASSUME ~stop[p]
                   PROVE  next[p] \in p + 1 .. N /\ g[next[p]] = f[next[p]]
        OBVIOUS
      <4>1. next[p] \in p + 1 .. N
        BY <3>1
      <4>2. next[p] \in q .. N /\ next[p] # q
        BY <3>1, <4>1
      <4> QED
        BY <4>1, <4>2
    <3>3. CASE p = q
      <4>1. g[p] = IF stop[q] THEN base[q] ELSE f[next[q]]
        BY <3>3
      <4> HIDE DEF g
      <4> QED
        BY <3>2, <3>3, <4>1
    <3>4. CASE p # q
      <4>1. p \in q + 1 .. N
        BY <3>1, <3>4
      <4>2. f[p] = IF stop[p] THEN base[p] ELSE f[next[p]]
        BY <2>2, <4>1 DEF GoesOn
      <4>3. g[p] = f[p]
        BY <3>4
      <4> HIDE DEF g
      <4> QED
        BY <3>2, <4>2, <4>3
    <3> QED
      BY <3>3, <3>4
  <2>4. GoesOn(g, stop, base, next, q, N)
    BY <2>3 DEF GoesOn
  <2> QED
    BY <2>4 DEF q
<1>3. N \in P
  <2> HIDE DEF P
  <2> QED
    BY <1>1, <1>2, NatInductionOnSet
<1>4. N - N = 0
  OBVIOUS
<1> QED
  BY <1>3, <1>4

LEMMA GoesOnBounds ==
  ASSUME NEW N \in Nat, NEW stop, NEW base, NEW next, NEW f,
         \A p \in 0 .. N : ~stop[p] => next[p] \in p + 1 .. N,
         \A p \in 0 .. N : stop[p] => base[p] \in {NoValue} \cup p .. N,
         GoesOn(f, stop, base, next, 0, N)
  PROVE  \A p \in 0 .. N : f[p] \in {NoValue} \cup p .. N
<1> DEFINE Good(p) == f[p] \in {NoValue} \cup p .. N
           P == {k \in Nat : \A p \in 0 .. N : p >= N - k => Good(p)}
<1>0. \A p \in 0 .. N : f[p] = IF stop[p] THEN base[p] ELSE f[next[p]]
  BY DEF GoesOn
<1>1. 0 \in P
  <2>1. ASSUME NEW p \in 0 .. N, p >= N - 0 PROVE Good(p)
    <3>1. p = N /\ N + 1 .. N = {}
      BY <2>1
    <3>2. stop[p]
      BY <3>1
    <3> QED
      BY <1>0, <3>2
  <2> QED
    BY <2>1
<1>2. ASSUME NEW k \in Nat, k \in P PROVE k + 1 \in P
  <2>1. ASSUME NEW p \in 0 .. N, p >= N - (k + 1) PROVE Good(p)
    <3>1. CASE stop[p]
      BY <1>0, <3>1
    <3>2. CASE ~stop[p]
      <4>1. next[p] \in p + 1 .. N
        BY <3>2
      <4>2. next[p] \in 0 .. N /\ next[p] >= N - k
        BY <2>1, <4>1
      <4>3. f[next[p]] \in {NoValue} \cup next[p] .. N
        BY <1>2, <4>2
      <4>4. next[p] .. N \subseteq p .. N
        BY <4>1
      <4>5. f[p] = f[next[p]]
        BY <1>0, <3>2
      <4> QED
        BY <4>3, <4>4, <4>5
    <3> QED
      BY <3>1, <3>2
  <2> HIDE DEF Good
  <2> QED
    BY <2>1
<1>3. N \in P
  <2> HIDE DEF P
  <2> QED
    BY <1>1, <1>2, NatInductionOnSet
<1>4. \A p \in 0 .. N : p >= N - N
  OBVIOUS
<1> QED
  BY <1>3, <1>4
-----------------------------------------------------------------------------
(***************************************************************************)
(* The size a line announces is no size or fits a size_t: the test before  *)
(* each multiplication is enough, whatever the width.                      *)
(***************************************************************************)
LEMMA AddDigitFits ==
  ASSUME NEW size \in {NoValue} \cup 0 .. SizeMax, NEW ch
  PROVE  AddDigit(size, ch) \in {NoValue} \cup 0 .. SizeMax
<1>1. CASE size = NoValue \/ ch \notin DOMAIN HexValue
  BY <1>1 DEF AddDigit
<1>2. CASE ~(size = NoValue \/ ch \notin DOMAIN HexValue)
  <2>1. HexValue[ch] \in 0 .. 15
    BY <1>2 DEF HexValue
  <2>2. PICK d \in 0 .. 15 : d = HexValue[ch]
    BY <2>1
  <2>3. size \in 0 .. SizeMax
    BY <1>2
  <2>4. AddDigit(size, ch) = IF size > (SizeMax - d) \div 16 THEN NoValue
                             ELSE size * 16 + d
    BY <1>2, <2>2 DEF AddDigit
  <2>5. ~(size > (SizeMax - d) \div 16) => size * 16 + d \in 0 .. SizeMax
    BY <2>3, SizeMaxAssumption
  <2> QED
    BY <2>4, <2>5
<1> QED
  BY <1>1, <1>2

IsDigitLoop(f, text, n) ==
  f = [i \in 0 .. n |-> IF i = 0 THEN 0 ELSE AddDigit(f[i - 1], text[i])]

LEMMA DigitLoopExists ==
  ASSUME NEW text, NEW n \in Nat
  PROVE  \E f : IsDigitLoop(f, text, n)
<1> DEFINE P == {m \in Nat : \E f : IsDigitLoop(f, text, m)}
<1>1. 0 \in P
  <2> DEFINE g == [i \in 0 .. 0 |-> 0]
  <2>1. IsDigitLoop(g, text, 0)
    BY DEF IsDigitLoop
  <2> QED
    BY <2>1
<1>2. ASSUME NEW m \in Nat, m \in P PROVE m + 1 \in P
  <2>1. PICK f : IsDigitLoop(f, text, m)
    BY <1>2
  <2> DEFINE g == [i \in 0 .. m + 1 |->
                     IF i = m + 1 THEN AddDigit(f[m], text[m + 1]) ELSE f[i]]
  <2>2. ASSUME NEW i \in 0 .. m + 1
        PROVE  g[i] = IF i = 0 THEN 0 ELSE AddDigit(g[i - 1], text[i])
    <3>1. CASE i = m + 1
      <4>1. g[i] = AddDigit(f[m], text[m + 1]) /\ g[m] = f[m] /\ i # 0 /\ i - 1 = m
        BY <3>1
      <4> HIDE DEF g
      <4> QED
        BY <3>1, <4>1
    <3>2. CASE i # m + 1
      <4>1. i \in 0 .. m
        BY <3>2
      <4>2. f[i] = IF i = 0 THEN 0 ELSE AddDigit(f[i - 1], text[i])
        BY <2>1, <4>1 DEF IsDigitLoop
      <4>3. g[i] = f[i] /\ (i # 0 => g[i - 1] = f[i - 1])
        BY <3>2, <4>1
      <4> HIDE DEF g
      <4> QED
        BY <4>2, <4>3
    <3> QED
      BY <3>1, <3>2
  <2>3. IsDigitLoop(g, text, m + 1)
    BY <2>2 DEF IsDigitLoop
  <2> QED
    BY <2>3
<1>3. Nat \subseteq P
  <2> HIDE DEF P
  <2> QED
    BY <1>1, <1>2, NatInductionOnSet
<1> QED
  BY <1>3

LEMMA DigitLoopFits ==
  ASSUME NEW text, Len(text) \in Nat
  PROVE  DigitLoop(text) \in {NoValue} \cup 0 .. SizeMax
<1> DEFINE f == CHOOSE g : IsDigitLoop(g, text, Len(text))
<1>1. IsDigitLoop(f, text, Len(text))
  BY DigitLoopExists
<1>2. DigitLoop(text) = f[Len(text)]
  BY DEF DigitLoop, IsDigitLoop
<1> HIDE DEF f
<1>3. \A i \in 0 .. Len(text) : f[i] = IF i = 0 THEN 0 ELSE AddDigit(f[i - 1], text[i])
  BY <1>1 DEF IsDigitLoop
<1> DEFINE P == {k \in Nat : k <= Len(text) => f[k] \in {NoValue} \cup 0 .. SizeMax}
<1>4. 0 \in P
  BY <1>3, SizeMaxAssumption
<1>5. ASSUME NEW k \in Nat, k \in P PROVE k + 1 \in P
  <2> SUFFICES ASSUME k + 1 <= Len(text)
               PROVE  f[k + 1] \in {NoValue} \cup 0 .. SizeMax
    OBVIOUS
  <2>1. f[k] \in {NoValue} \cup 0 .. SizeMax
    BY <1>5
  <2>2. k + 1 \in 0 .. Len(text) /\ k + 1 # 0 /\ (k + 1) - 1 = k
    OBVIOUS
  <2>3. f[k + 1] = AddDigit(f[k], text[k + 1])
    BY <1>3, <2>2
  <2> QED
    BY <2>1, <2>3, AddDigitFits
<1>6. Nat \subseteq P
  <2> HIDE DEF P
  <2> QED
    BY <1>4, <1>5, NatInductionOnSet
<1> QED
  BY <1>2, <1>6

(***************************************************************************)
(* TrimTrailingOws and SizeText keep the first bytes of their text: up to  *)
(* the last byte that is no blank, and up to the first semicolon.          *)
(***************************************************************************)
LEMMA TrimCuts ==
  ASSUME NEW text \in Seq(Byte)
  PROVE  \E n \in 0 .. Len(text) :
           /\ TrimTrailingOws(text) = SubSeq(text, 1, n)
           /\ n = 0 \/ text[n] \notin Ows
           /\ \A i \in n + 1 .. Len(text) : text[i] \in Ows
<1> DEFINE T == {n \in 0 .. Len(text) : \A i \in n + 1 .. Len(text) : text[i] \in Ows}
           Kept(n) == /\ n = 0 \/ text[n] \notin Ows
                      /\ \A i \in n + 1 .. Len(text) : text[i] \in Ows
<1>1. Len(text) \in Nat
  BY LenProperties
<1>2. T \subseteq Nat /\ T # {}
  <2>1. Len(text) \in T
    BY <1>1
  <2> QED
    BY <1>1, <2>1
<1>3. PICK n \in T : \A m \in T : n <= m
  BY <1>2, LeastNatural
<1>4. n = 0 \/ text[n] \notin Ows
  <2> SUFFICES ASSUME n # 0, text[n] \in Ows PROVE FALSE
    OBVIOUS
  <2>1. n \in 1 .. Len(text) /\ \A i \in n + 1 .. Len(text) : text[i] \in Ows
    BY <1>3
  <2>2. n - 1 \in 0 .. Len(text) /\ ~(n <= n - 1)
    BY <1>1, <2>1
  <2>3. \A i \in (n - 1) + 1 .. Len(text) : i = n \/ i \in n + 1 .. Len(text)
    BY <1>1, <2>1
  <2>4. n - 1 \in T
    BY <2>1, <2>2, <2>3, Zenon
  <2> QED
    BY <1>3, <2>2, <2>4, Zenon
<1>5. n \in 0 .. Len(text) /\ Kept(n)
  BY <1>3, <1>4
<1> DEFINE k == CHOOSE m \in 0 .. Len(text) : Kept(m)
<1>6. TrimTrailingOws(text) = SubSeq(text, 1, k)
  BY DEF TrimTrailingOws
<1> HIDE DEF T, Kept
<1>7. k \in 0 .. Len(text) /\ Kept(k)
  BY <1>5
<1> QED
  BY <1>6, <1>7 DEF Kept

LEMMA TrimKeepsText ==
  ASSUME NEW text \in Seq(Byte)
  PROVE  TrimTrailingOws(text) \in Seq(Byte)
<1>1. PICK n \in 0 .. Len(text) : TrimTrailingOws(text) = SubSeq(text, 1, n)
  BY TrimCuts, Zenon
<1> QED
  BY <1>1, CutInTwo

LEMMA WholeText ==
  ASSUME NEW text \in Seq(Byte)
  PROVE  SubSeq(text, 1, Len(text)) = text
<1>1. Len(text) \in Nat
  BY LenProperties
<1> DEFINE u == SubSeq(text, 1, Len(text))
<1>2. u \in Seq(Byte) /\ Len(u) = Len(text)
  BY <1>1, CutInTwo
<1>3. \A i \in 1 .. Len(text) : u[i] = text[i]
  <2> TAKE i \in 1 .. Len(text)
  <2> QED
    BY <1>1, SubSeqProperties
<1> HIDE DEF u
<1>4. u = text
  BY <1>2, <1>3, SeqEqual
<1> QED
  BY <1>4 DEF u

LEMMA SizeTextCuts ==
  ASSUME NEW line \in Seq(Byte)
  PROVE  \E w \in 0 .. Len(line) :
           /\ SizeText(line) = SubSeq(line, 1, w)
           /\ w = Len(line) \/ line[w + 1] = ";"
           /\ \A j \in 1 .. w : line[j] # ";"
<1>1. Len(line) \in Nat
  BY LenProperties
<1> DEFINE T == {i \in 1 .. Len(line) : line[i] = ";"}
<1>2. CASE T = {}
  <2>1. SizeText(line) = line
    BY <1>2 DEF SizeText
  <2>2. SubSeq(line, 1, Len(line)) = line
    BY WholeText
  <2>3. \A j \in 1 .. Len(line) : line[j] # ";"
    BY <1>2
  <2>4. Len(line) \in 0 .. Len(line)
    BY <1>1
  <2> QED
    BY <2>1, <2>2, <2>3, <2>4, Zenon
<1>3. CASE T # {}
  <2>0. \A i : i \in T <=> i \in 1 .. Len(line) /\ line[i] = ";"
    BY Zenon
  <2> HIDE DEF T
  <2>1. T \subseteq Nat
    <3>1. 1 .. Len(line) \subseteq Nat
      BY ONLY <1>1
    <3> QED
      BY <2>0, <3>1, Zenon
  <2>2. PICK i \in T : \A j \in T : i <= j
    BY <1>3, <2>1, LeastNatural
  <2>3. i \in 1 .. Len(line) /\ line[i] = ";" /\ \A j \in 1 .. i - 1 : line[j] # ";"
    <3>1. i \in 1 .. Len(line)
      BY <2>0, <2>2, Zenon
    <3>2. \A j \in 1 .. i - 1 : j \in 1 .. Len(line) /\ ~(i <= j)
      BY ONLY <1>1, <3>1
    <3> QED
      BY <2>0, <2>2, <3>1, <3>2, Zenon
  <2> DEFINE First(j) == line[j] = ";" /\ \A k \in 1 .. j - 1 : line[k] # ";"
             f == CHOOSE j \in 1 .. Len(line) : First(j)
  <2>4. First(i)
    BY <2>3
  <2>6. SizeText(line) = SubSeq(line, 1, f - 1)
    BY <2>3 DEF SizeText
  <2> HIDE DEF First
  <2>5. f \in 1 .. Len(line) /\ First(f)
    BY <2>3, <2>4
  <2> HIDE DEF f
  <2>7. PICK w \in 0 .. Len(line) : w = f - 1 /\ w + 1 = f
    BY <1>1, <2>5
  <2>8. line[w + 1] = ";" /\ \A j \in 1 .. w : line[j] # ";"
    BY <2>5, <2>7, Zenon DEF First
  <2> QED
    BY <2>6, <2>7, <2>8, Zenon
<1> QED
  BY <1>2, <1>3

LEMMA SizeTextIsText ==
  ASSUME NEW line \in Seq(Byte)
  PROVE  SizeText(line) \in Seq(Byte)
<1>1. PICK w \in 0 .. Len(line) : SizeText(line) = SubSeq(line, 1, w)
  BY SizeTextCuts, Zenon
<1> QED
  BY <1>1, CutInTwo

LEMMA ParsedSizeFits ==
  ASSUME NEW line \in Seq(Byte)
  PROVE  ParseChunkSizeLine(line) \in {NoValue} \cup 0 .. SizeMax
<1>1. TrimTrailingOws(SizeText(line)) \in Seq(Byte)
  BY SizeTextIsText, TrimKeepsText
<1>2. Len(TrimTrailingOws(SizeText(line))) \in Nat
  BY <1>1, LenProperties
<1>3. DigitLoop(TrimTrailingOws(SizeText(line))) \in {NoValue} \cup 0 .. SizeMax
  BY <1>2, DigitLoopFits
<1> QED
  BY <1>3 DEF ParseChunkSizeLine

-----------------------------------------------------------------------------
(***************************************************************************)
(* FindCrlf is the only position with a first CRLF, and LineEnd stays      *)
(* inside the stream.                                                      *)
(***************************************************************************)
LEMMA FindCrlfOnly ==
  ASSUME NEW s \in Seq(Byte), NEW p \in Nat, CrlfAt(s, p),
         \A q \in 0 .. p - 1 : ~CrlfAt(s, q)
  PROVE  FindCrlf(s) = p
<1>1. Len(s) \in Nat /\ p \in 0 .. Len(s)
  BY LenProperties DEF CrlfAt
<1> DEFINE First(e) == CrlfAt(s, e) /\ \A q \in 0 .. e - 1 : ~CrlfAt(s, q)
<1>2. \A e \in 0 .. Len(s) : First(e) => e = p
  BY <1>1
<1>3. First(p)
  OBVIOUS
<1>4. FindCrlf(s) = CHOOSE e \in 0 .. Len(s) : First(e)
  BY <1>1 DEF FindCrlf
<1> HIDE DEF First
<1> QED
  BY <1>1, <1>2, <1>3, <1>4

LEMMA LineEndBounds ==
  ASSUME NEW s \in Seq(Byte), NEW p \in 0 .. Len(s), LineEnd(s, p) # NoValue
  PROVE  LineEnd(s, p) \in Nat /\ p <= LineEnd(s, p) /\ LineEnd(s, p) + 2 <= Len(s)
<1> DEFINE r == SubSeq(s, p + 1, Len(s))
<1>1. Len(s) \in Nat /\ r \in Seq(Byte) /\ Len(r) = Len(s) - p
  BY LenProperties, CutInTwo
<1> HIDE DEF r
<1>2. FindCrlf(r) # NoValue /\ LineEnd(s, p) = p + FindCrlf(r)
  BY DEF LineEnd, r
<1>3. FindCrlf(r) \in Nat /\ FindCrlf(r) + 2 <= Len(r)
  BY <1>1, <1>2, FindCrlfInBuffer
<1> QED
  BY <1>1, <1>2, <1>3

(***************************************************************************)
(* The reference definitions satisfy their recursive equations, and no     *)
(* body ends before it begins.                                             *)
(***************************************************************************)
TrailersAt(f, s, p) ==
  IF LineEnd(s, p) = NoValue THEN NoValue
  ELSE IF LineEnd(s, p) = p THEN p + 2
  ELSE f[LineEnd(s, p) + 2]

LEMMA TrailersFacts ==
  ASSUME NEW s \in Seq(Byte), NEW p \in 0 .. Len(s)
  PROVE  /\ TrailersEnd(s)[p] = TrailersAt(TrailersEnd(s), s, p)
         /\ TrailersEnd(s)[p] \in {NoValue} \cup p .. Len(s)
<1> DEFINE N == Len(s)
           stop == [k \in 0 .. N |-> LineEnd(s, k) \in {NoValue, k}]
           base == [k \in 0 .. N |-> IF LineEnd(s, k) = NoValue THEN NoValue ELSE k + 2]
           next == [k \in 0 .. N |-> LineEnd(s, k) + 2]
           f == TrailersEnd(s)
           Is(g) == g = [k \in 0 .. N |-> TrailersAt(g, s, k)]
<1>1. N \in Nat
  BY LenProperties
<1>2. \A k \in 0 .. N : ~stop[k] => next[k] \in k + 1 .. N
  <2> SUFFICES ASSUME NEW k \in 0 .. N, ~stop[k]
               PROVE  next[k] \in k + 1 .. N
    OBVIOUS
  <2>1. LineEnd(s, k) # NoValue /\ LineEnd(s, k) # k /\ next[k] = LineEnd(s, k) + 2
    OBVIOUS
  <2>2. LineEnd(s, k) \in Nat /\ k <= LineEnd(s, k) /\ LineEnd(s, k) + 2 <= N
    BY <2>1, LineEndBounds
  <2> QED
    BY <1>1, <2>1, <2>2
<1>3. \A k \in 0 .. N : stop[k] => base[k] \in {NoValue} \cup k .. N
  <2> SUFFICES ASSUME NEW k \in 0 .. N, stop[k], LineEnd(s, k) # NoValue
               PROVE  base[k] \in k .. N
    OBVIOUS
  <2>1. LineEnd(s, k) = k /\ base[k] = k + 2
    OBVIOUS
  <2>2. k \in Nat /\ k + 2 <= N
    BY <2>1, LineEndBounds
  <2> QED
    BY <1>1, <2>1, <2>2
<1>4. ASSUME NEW g PROVE Is(g) <=> GoesOn(g, stop, base, next, 0, N)
  <2>1. ASSUME NEW k \in 0 .. N
        PROVE  TrailersAt(g, s, k) = IF stop[k] THEN base[k] ELSE g[next[k]]
    BY DEF TrailersAt
  <2> HIDE DEF stop, base, next
  <2> QED
    BY <2>1 DEF GoesOn
<1> HIDE DEF N, stop, base, next
<1>5. \E g : Is(g)
  BY <1>1, <1>2, <1>4, GoesOnExists
<1>6. f = CHOOSE g : Is(g)
  BY DEF TrailersEnd, TrailersAt, N
<1>7. Is(f)
  <2> HIDE DEF f, Is
  <2> QED
    BY <1>5, <1>6
<1>8. GoesOn(f, stop, base, next, 0, N)
  BY <1>4, <1>7
<1> HIDE DEF f
<1>9. \A k \in 0 .. N : f[k] \in {NoValue} \cup k .. N
  BY <1>1, <1>2, <1>3, <1>8, GoesOnBounds
<1>10. \A k \in 0 .. N : f[k] = TrailersAt(f, s, k)
  BY <1>7
<1> QED
  BY <1>9, <1>10 DEF f, N

ChunksAt(f, s, p) ==
  LET e == LineEnd(s, p)
      n == ParseChunkSizeLine(SubSeq(s, p + 1, e))
  IN  IF e = NoValue \/ n = NoValue THEN NoValue
      ELSE IF n = 0 THEN TrailersEnd(s)[e + 2]
      ELSE IF e + 4 + n > Len(s) THEN NoValue
      ELSE f[e + 4 + n]

LEMMA ChunksFacts ==
  ASSUME NEW s \in Seq(Byte), NEW p \in 0 .. Len(s)
  PROVE  /\ ChunksEnd(s)[p] = ChunksAt(ChunksEnd(s), s, p)
         /\ ChunksEnd(s)[p] \in {NoValue} \cup p .. Len(s)
<1> DEFINE N == Len(s)
           End(k) == LineEnd(s, k)
           Size(k) == ParseChunkSizeLine(SubSeq(s, k + 1, End(k)))
           Bad(k) == End(k) = NoValue \/ Size(k) = NoValue
           stop == [k \in 0 .. N |-> Bad(k) \/ Size(k) = 0 \/ End(k) + 4 + Size(k) > N]
           base == [k \in 0 .. N |-> IF ~Bad(k) /\ Size(k) = 0
                                     THEN TrailersEnd(s)[End(k) + 2] ELSE NoValue]
           next == [k \in 0 .. N |-> End(k) + 4 + Size(k)]
           f == ChunksEnd(s)
           Is(g) == g = [k \in 0 .. N |-> ChunksAt(g, s, k)]
<1>1. N \in Nat
  BY LenProperties
<1>2. ASSUME NEW k \in 0 .. N, ~Bad(k)
      PROVE  /\ End(k) \in Nat /\ k <= End(k) /\ End(k) + 2 <= N
             /\ Size(k) \in 0 .. SizeMax
  <2>1. End(k) \in Nat /\ k <= End(k) /\ End(k) + 2 <= N
    BY <1>2, LineEndBounds
  <2>2. SubSeq(s, k + 1, End(k)) \in Seq(Byte)
    <3>1. k + 1 \in 1 .. N + 1 /\ End(k) \in k .. N
      BY <1>1, <2>1
    <3> HIDE DEF End
    <3> QED
      BY <1>1, <3>1
  <2>3. Size(k) \in {NoValue} \cup 0 .. SizeMax
    BY <2>2, ParsedSizeFits
  <2> HIDE DEF End, Size
  <2> QED
    BY <1>2, <2>1, <2>3
<1>3. \A k \in 0 .. N : ~stop[k] => next[k] \in k + 1 .. N
  <2> SUFFICES ASSUME NEW k \in 0 .. N, ~stop[k]
               PROVE  next[k] \in k + 1 .. N
    OBVIOUS
  <2>1. ~Bad(k) /\ Size(k) # 0 /\ ~(End(k) + 4 + Size(k) > N)
        /\ next[k] = End(k) + 4 + Size(k)
    <3> HIDE DEF Bad, Size, End
    <3> QED
      OBVIOUS
  <2>2. End(k) \in Nat /\ k <= End(k) /\ Size(k) \in 0 .. SizeMax
    BY <1>2, <2>1
  <2> HIDE DEF stop, next, Size, End, Bad
  <2> QED
    BY <1>1, <2>1, <2>2, SizeMaxAssumption
<1>4. \A k \in 0 .. N : stop[k] => base[k] \in {NoValue} \cup k .. N
  <2> SUFFICES ASSUME NEW k \in 0 .. N, stop[k], ~Bad(k), Size(k) = 0
               PROVE  base[k] \in {NoValue} \cup k .. N
    <3> HIDE DEF Bad, Size
    <3> QED
      OBVIOUS
  <2>1. base[k] = TrailersEnd(s)[End(k) + 2]
    <3> HIDE DEF Bad, Size, End
    <3> QED
      OBVIOUS
  <2>2. End(k) \in Nat /\ k <= End(k) /\ End(k) + 2 <= N
    BY <1>2
  <2> HIDE DEF base, stop, End, Size, Bad
  <2>3. End(k) + 2 \in 0 .. N
    BY <1>1, <2>2
  <2>4. TrailersEnd(s)[End(k) + 2] \in {NoValue} \cup End(k) + 2 .. N
    BY <2>3, TrailersFacts
  <2>5. End(k) + 2 .. N \subseteq k .. N
    BY <1>1, <2>2
  <2> QED
    BY <2>1, <2>4, <2>5
<1>5. ASSUME NEW g PROVE Is(g) <=> GoesOn(g, stop, base, next, 0, N)
  <2>1. ASSUME NEW k \in 0 .. N
        PROVE  ChunksAt(g, s, k) = IF stop[k] THEN base[k] ELSE g[next[k]]
    <3>1. ChunksAt(g, s, k) = IF Bad(k) THEN NoValue
                              ELSE IF Size(k) = 0 THEN TrailersEnd(s)[End(k) + 2]
                              ELSE IF End(k) + 4 + Size(k) > N THEN NoValue
                              ELSE g[End(k) + 4 + Size(k)]
      BY DEF ChunksAt
    <3> HIDE DEF Bad, Size, End, N
    <3> QED
      BY <3>1
  <2> HIDE DEF stop, base, next
  <2> QED
    BY <2>1 DEF GoesOn
<1> HIDE DEF N, stop, base, next
<1>6. \E g : Is(g)
  BY <1>1, <1>3, <1>5, GoesOnExists
<1>7. f = CHOOSE g : Is(g)
  BY DEF ChunksEnd, ChunksAt, N
<1>8. Is(f)
  <2> HIDE DEF f, Is
  <2> QED
    BY <1>6, <1>7
<1>9. GoesOn(f, stop, base, next, 0, N)
  BY <1>5, <1>8
<1> HIDE DEF f
<1>10. \A k \in 0 .. N : f[k] \in {NoValue} \cup k .. N
  BY <1>1, <1>3, <1>4, <1>9, GoesOnBounds
<1>11. \A k \in 0 .. N : f[k] = ChunksAt(f, s, k)
  BY <1>8
<1> QED
  BY <1>10, <1>11 DEF f, N

-----------------------------------------------------------------------------
(***************************************************************************)
(* A line end found in the buffer is the line end of the stream at the     *)
(* place the bytes sent reach to, and the line is the same: it does not    *)
(* matter what has been read so far.                                       *)
(***************************************************************************)
LEMMA RestOfStream ==
  ASSUME NEW x \in Seq(Byte), NEW w \in Seq(Byte)
  PROVE  /\ Len(x) \in 0 .. Len(x \o w)
         /\ SubSeq(x \o w, Len(x) + 1, Len(x \o w)) = w
<1> DEFINE s == x \o w
<1>1. Len(x) \in Nat /\ Len(w) \in Nat /\ s \in Seq(Byte) /\ Len(s) = Len(x) + Len(w)
  BY LenProperties, ConcatProperties
<1>2. \A i \in 1 .. Len(w) : s[Len(x) + i] = w[i]
  <2> TAKE i \in 1 .. Len(w)
  <2>1. Len(x) + i \in 1 .. Len(x) + Len(w) /\ ~(Len(x) + i <= Len(x))
        /\ (Len(x) + i) - Len(x) = i
    BY <1>1
  <2> QED
    BY <1>1, <2>1, ConcatProperties
<1> HIDE DEF s
<1>3. Len(x) \in 0 .. Len(s)
  BY <1>1
<1> DEFINE r == SubSeq(s, Len(x) + 1, Len(s))
<1>4. r \in Seq(Byte) /\ Len(r) = Len(w)
  <2>1. r \in Seq(Byte) /\ Len(r) = Len(s) - Len(x)
    BY <1>1, <1>3, CutInTwo
  <2> QED
    BY <1>1, <2>1
<1>5. \A i \in 1 .. Len(w) : r[i] = w[i]
  <2> TAKE i \in 1 .. Len(w)
  <2>1. r[i] = s[Len(x) + 1 + i - 1]
    BY <1>1, SubSeqProperties
  <2>2. Len(x) + 1 + i - 1 = Len(x) + i
    BY <1>1
  <2> QED
    BY <1>2, <2>1, <2>2
<1> HIDE DEF r
<1>6. r = w
  BY <1>4, <1>5, SeqEqual
<1> QED
  BY <1>3, <1>6 DEF r, s

LEMMA LineStays ==
  ASSUME NEW y \in Seq(Byte), NEW z \in Seq(Byte), FindCrlf(y) # NoValue
  PROVE  /\ FindCrlf(y \o z) = FindCrlf(y)
         /\ SubSeq(y \o z, 1, FindCrlf(y)) = SubSeq(y, 1, FindCrlf(y))
<1> DEFINE w == y \o z
           e == FindCrlf(y)
<1>1. Len(y) \in Nat /\ Len(z) \in Nat /\ w \in Seq(Byte) /\ Len(w) = Len(y) + Len(z)
  BY LenProperties, ConcatProperties
<1>2. \A i \in 1 .. Len(y) : w[i] = y[i]
  BY <1>1, ConcatProperties
<1> HIDE DEF w
<1>3. /\ e \in Nat /\ CrlfAt(y, e) /\ e + 2 <= Len(y)
      /\ \A q \in 0 .. e - 1 : ~CrlfAt(y, q)
  BY FindCrlfFirst, FindCrlfInBuffer
<1> HIDE DEF e
<1>4. \A q \in 0 .. e : CrlfAt(w, q) <=> CrlfAt(y, q)
  <2> TAKE q \in 0 .. e
  <2>1. q + 1 \in 1 .. Len(y) /\ q + 2 \in 1 .. Len(y) /\ q + 2 <= Len(w)
    BY <1>1, <1>3
  <2>2. w[q + 1] = y[q + 1] /\ w[q + 2] = y[q + 2] /\ q + 2 <= Len(y)
    BY <1>1, <1>2, <2>1
  <2> QED
    BY <2>1, <2>2, Zenon DEF CrlfAt
<1>5. FindCrlf(w) = e
  <2>1. e \in 0 .. e /\ \A q \in 0 .. e - 1 : q \in 0 .. e
    BY <1>3
  <2>2. CrlfAt(w, e) /\ \A q \in 0 .. e - 1 : ~CrlfAt(w, q)
    BY <1>3, <1>4, <2>1, Zenon
  <2> QED
    BY <1>1, <1>3, <2>2, FindCrlfOnly
<1>6. SubSeq(w, 1, e) = SubSeq(y, 1, e)
  <2> DEFINE u == SubSeq(w, 1, e)
             v == SubSeq(y, 1, e)
  <2>1. e \in 0 .. Len(w) /\ e \in 0 .. Len(y)
    BY <1>1, <1>3
  <2>2. u \in Seq(Byte) /\ Len(u) = e /\ v \in Seq(Byte) /\ Len(v) = e
    BY <1>1, <2>1, CutInTwo
  <2>3. \A i \in 1 .. e : u[i] = w[i] /\ v[i] = y[i] /\ w[i] = y[i]
    <3> TAKE i \in 1 .. e
    <3>1. i \in 1 .. Len(y)
      BY <1>1, <1>3
    <3>2. u[i] = w[i] /\ v[i] = y[i]
      BY <1>1, <1>3, <2>1, SubSeqProperties
    <3> QED
      BY <1>2, <3>1, <3>2
  <2> HIDE DEF u, v
  <2>4. u = v
    BY <2>2, <2>3, SeqEqual
  <2> QED
    BY <2>4 DEF u, v
<1> QED
  BY <1>5, <1>6 DEF w, e

LEMMA ShiftedLine ==
  ASSUME NEW x \in Seq(Byte), NEW w \in Seq(Byte), NEW e \in 0 .. Len(w)
  PROVE  SubSeq(x \o w, Len(x) + 1, Len(x) + e) = SubSeq(w, 1, e)
<1> DEFINE s == x \o w
           u == SubSeq(s, Len(x) + 1, Len(x) + e)
           v == SubSeq(w, 1, e)
<1>1. Len(x) \in Nat /\ Len(w) \in Nat /\ s \in Seq(Byte) /\ Len(s) = Len(x) + Len(w)
  BY LenProperties, ConcatProperties
<1>2. \A i \in 1 .. Len(w) : s[Len(x) + i] = w[i]
  <2> TAKE i \in 1 .. Len(w)
  <2>1. Len(x) + i \in 1 .. Len(x) + Len(w) /\ ~(Len(x) + i <= Len(x))
        /\ (Len(x) + i) - Len(x) = i
    BY <1>1
  <2> QED
    BY <1>1, <2>1, ConcatProperties
<1> HIDE DEF s
<1>3. v \in Seq(Byte) /\ Len(v) = e /\ e \in Nat
  BY <1>1, CutInTwo
<1>4. \A i \in Len(x) + 1 .. Len(x) + e : s[i] \in Byte
  <2> TAKE i \in Len(x) + 1 .. Len(x) + e
  <2>1. i \in 1 .. Len(s)
    BY <1>1, <1>3
  <2> QED
    BY <1>1, <2>1, ElementOfSeq
<1>5. u \in Seq(Byte) /\ Len(u) = e /\ \A i \in 1 .. e : u[i] = s[Len(x) + i]
  <2>1. /\ Len(x) + 1 \in Int /\ Len(x) + e \in Int
        /\ (IF Len(x) + 1 <= Len(x) + e THEN Len(x) + e - (Len(x) + 1) + 1 ELSE 0) = e
        /\ Len(x) + e - (Len(x) + 1) + 1 = e
        /\ \A i \in 1 .. e : Len(x) + 1 + i - 1 = Len(x) + i
    BY <1>1, <1>3
  <2> QED
    BY <1>4, <2>1, SubSeqProperties
<1>6. \A i \in 1 .. e : v[i] = w[i] /\ i \in 1 .. Len(w)
  <2>1. \A i \in 1 .. e : i \in 1 .. Len(w) /\ w[i] \in Byte
    BY <1>1, <1>3, ElementOfSeq
  <2> QED
    BY <1>3, <2>1, SubSeqProperties
<1> HIDE DEF u, v
<1>7. u = v
  BY <1>2, <1>3, <1>5, <1>6, SeqEqual
<1> QED
  BY <1>7 DEF s, u, v

LEMMA LineOfStream ==
  ASSUME TypeOK, Conserved
  PROVE  /\ Len(target) \in 0 .. Len(stream)
         /\ Len(stream) = Len(target) + Len(buffer) + Len(source)
         /\ FindCrlf(buffer) # NoValue =>
              /\ LineEnd(stream, Len(target)) = Len(target) + FindCrlf(buffer)
              /\ SubSeq(stream, Len(target) + 1, Len(target) + FindCrlf(buffer))
                   = SubSeq(buffer, 1, FindCrlf(buffer))
         /\ FindCrlf(buffer) = NoValue /\ source = << >> =>
              LineEnd(stream, Len(target)) = NoValue
<1> DEFINE w == buffer \o source
           t == Len(target)
<1>1. target \in Seq(Byte) /\ buffer \in Seq(Byte) /\ source \in Seq(Byte)
  BY DEF TypeOK
<1>2. /\ Len(target) \in Nat /\ Len(buffer) \in Nat /\ Len(source) \in Nat
      /\ w \in Seq(Byte) /\ Len(w) = Len(buffer) + Len(source)
  BY <1>1, LenProperties, ConcatProperties
<1>3. stream = target \o w
  <2>1. Cat(Cat(target, buffer), source) = Cat(target, Cat(buffer, source))
    BY ONLY <1>1, CatAssoc
  <2> QED
    BY <2>1, Zenon DEF Cat, Conserved
<1>4. FindCrlf(buffer) # NoValue =>
        /\ FindCrlf(w) = FindCrlf(buffer)
        /\ SubSeq(w, 1, FindCrlf(buffer)) = SubSeq(buffer, 1, FindCrlf(buffer))
  BY <1>1, LineStays
<1>5. source = << >> => w = buffer
  BY <1>1, ConcatEmptySeq
<1> HIDE DEF w
<1>6. t \in 0 .. Len(stream) /\ SubSeq(stream, t + 1, Len(stream)) = w
  BY <1>1, <1>2, <1>3, RestOfStream, Zenon
<1>7. Len(stream) = t + Len(w)
  BY <1>1, <1>2, <1>3, ConcatProperties
<1>8. LineEnd(stream, t) = IF FindCrlf(w) = NoValue THEN NoValue ELSE t + FindCrlf(w)
  BY <1>6, Zenon DEF LineEnd
<1>9. ASSUME FindCrlf(buffer) # NoValue
      PROVE  /\ LineEnd(stream, t) = t + FindCrlf(buffer)
             /\ SubSeq(stream, t + 1, t + FindCrlf(buffer))
                  = SubSeq(buffer, 1, FindCrlf(buffer))
  <2>1. FindCrlf(buffer) \in Nat /\ FindCrlf(buffer) + 2 <= Len(buffer)
    BY <1>1, <1>9, FindCrlfInBuffer
  <2>2. FindCrlf(buffer) \in 0 .. Len(w)
    BY <1>2, <2>1
  <2>3. SubSeq(stream, t + 1, t + FindCrlf(buffer)) = SubSeq(w, 1, FindCrlf(buffer))
    BY <1>1, <1>2, <1>3, <2>2, ShiftedLine, Zenon
  <2> QED
    BY <1>4, <1>8, <1>9, <2>3, Zenon
<1>10. FindCrlf(buffer) = NoValue /\ source = << >> => LineEnd(stream, t) = NoValue
  BY <1>5, <1>8, Zenon
<1>11. Len(stream) = Len(target) + Len(buffer) + Len(source)
  BY <1>2, <1>7
<1> QED
  BY <1>6, <1>9, <1>10, <1>11, Zenon

(***************************************************************************)
(* The reference at the bytes sent so far, in terms of the buffer.         *)
(***************************************************************************)
End == ChunksEnd(stream)
Trailers == TrailersEnd(stream)
Sent == Len(target)

LEMMA SizeLineAt ==
  ASSUME TypeOK, Conserved, FindCrlf(buffer) # NoValue,
         NEW n, n = ParseChunkSizeLine(SubSeq(buffer, 1, FindCrlf(buffer)))
  PROVE  /\ n \in {NoValue} \cup 0 .. SizeMax
         /\ End[Sent] = IF n = NoValue THEN NoValue
                        ELSE IF n = 0 THEN Trailers[Sent + FindCrlf(buffer) + 2]
                        ELSE IF Sent + FindCrlf(buffer) + 4 + n > Len(stream) THEN NoValue
                        ELSE End[Sent + FindCrlf(buffer) + 4 + n]
<1> DEFINE l == FindCrlf(buffer)
<1>1. /\ stream \in Seq(Byte) /\ Sent \in 0 .. Len(stream)
      /\ LineEnd(stream, Sent) = Sent + l
      /\ SubSeq(stream, Sent + 1, Sent + l) = SubSeq(buffer, 1, l)
  BY LineOfStream DEF TypeOK, Sent
<1>2. /\ buffer \in Seq(Byte) /\ l \in Nat /\ l + 2 <= Len(buffer)
      /\ Sent \in Nat /\ Len(buffer) \in Nat
  BY FindCrlfInBuffer, LenProperties DEF TypeOK, Sent
<1>3. n \in {NoValue} \cup 0 .. SizeMax
  <2>1. l \in 0 .. Len(buffer)
    BY <1>2
  <2>2. SubSeq(buffer, 1, l) \in Seq(Byte)
    BY <1>2, <2>1, CutInTwo
  <2> QED
    BY <2>2, ParsedSizeFits
<1>4. End[Sent] = ChunksAt(End, stream, Sent)
  BY <1>1, ChunksFacts DEF End
<1>5. n = ParseChunkSizeLine(SubSeq(stream, Sent + 1, LineEnd(stream, Sent)))
  BY <1>1, Zenon
<1>6. Sent + l # NoValue
  BY <1>2 DEF NoValue
<1> HIDE DEF l
<1>7. End[Sent] = IF Sent + l = NoValue \/ n = NoValue THEN NoValue
                  ELSE IF n = 0 THEN Trailers[Sent + l + 2]
                  ELSE IF Sent + l + 4 + n > Len(stream) THEN NoValue
                  ELSE End[Sent + l + 4 + n]
  BY <1>1, <1>4, <1>5, Zenon DEF ChunksAt, Trailers
<1> QED
  BY <1>3, <1>6, <1>7 DEF l

LEMMA TrailerAt ==
  ASSUME TypeOK, Conserved, FindCrlf(buffer) # NoValue
  PROVE  Trailers[Sent] = IF FindCrlf(buffer) = 0 THEN Sent + 2
                          ELSE Trailers[Sent + FindCrlf(buffer) + 2]
<1> DEFINE l == FindCrlf(buffer)
<1>1. /\ stream \in Seq(Byte) /\ Sent \in 0 .. Len(stream)
      /\ LineEnd(stream, Sent) = Sent + l
  BY LineOfStream DEF TypeOK, Sent
<1>2. l \in Nat /\ Sent \in Nat
  BY FindCrlfInBuffer, LenProperties DEF TypeOK, Sent
<1>3. Trailers[Sent] = TrailersAt(Trailers, stream, Sent)
  BY <1>1, TrailersFacts DEF Trailers
<1>4. Sent + l # NoValue /\ (Sent + l = Sent <=> l = 0)
  BY <1>2 DEF NoValue
<1> HIDE DEF l
<1> QED
  BY <1>1, <1>3, <1>4 DEF TrailersAt, l

LEMMA EndBounds ==
  ASSUME TypeOK, NEW p \in 0 .. Len(stream)
  PROVE  /\ End[p] = NoValue \/ (End[p] \in Nat /\ p <= End[p])
         /\ Trailers[p] = NoValue \/ (Trailers[p] \in Nat /\ p <= Trailers[p])
<1>1. stream \in Seq(Byte) /\ Len(stream) \in Nat
  BY LenProperties DEF TypeOK
<1>2. /\ End[p] \in {NoValue} \cup p .. Len(stream)
      /\ Trailers[p] \in {NoValue} \cup p .. Len(stream)
  BY <1>1, ChunksFacts, TrailersFacts DEF End, Trailers
<1> QED
  BY <1>1, <1>2

-----------------------------------------------------------------------------
(***************************************************************************)
(* What each state of ForwardChunked knows of the end of the body: it is   *)
(* where the reference, started at the bytes sent so far, finds it.        *)
(***************************************************************************)
ChunkedStates == {"ReadChunkSizeLine", "ParseChunkSizeLine", "ForwardChunkSizeLine",
                  "ForwardChunkDataWithCrlf", "ForwardTrailers"}

ChunkedAt ==
  /\ pc = "ReadChunkSizeLine" => End[0] = End[Sent]
  /\ pc \in {"ParseChunkSizeLine", "ForwardChunkSizeLine"} =>
       /\ End[0] = End[Sent]
       /\ FindCrlf(buffer) # NoValue /\ line_length = FindCrlf(buffer)
  /\ pc = "ForwardChunkSizeLine" =>
       /\ chunk_size = ParseChunkSizeLine(SubSeq(buffer, 1, line_length))
       /\ chunk_size # NoValue
  /\ pc = "ForwardChunkDataWithCrlf" =>
       End[0] = IF Sent + remaining > Len(stream) THEN NoValue ELSE End[Sent + remaining]
  /\ pc = "ForwardTrailers" => End[0] = Trailers[Sent]

ChunkedInv ==
  framing = "Chunked" =>
    /\ pc \in ChunkedStates
    /\ result = "pending" => ChunkedAt
    /\ result = "true" => End[0] = Sent
    /\ result = "false" /\ ~fault /\ Len(stream) <= SizeMax => End[0] = NoValue
    /\ End[0] # NoValue => Sent <= End[0]

\* No state is past the end of the body, and no write it is about to make goes there.
LEMMA WritesWithin ==
  ASSUME IInv, Conserved, ChunkedAt, pc \in ChunkedStates, result = "pending",
         End[0] # NoValue
  PROVE  /\ Sent <= End[0]
         /\ Writing => Sent + BytesToWrite <= End[0]
<1>1. TypeOK /\ Sent \in 0 .. Len(stream) /\ Len(stream) \in Nat /\ Sent \in Nat
  BY LineOfStream, LenProperties DEF IInv, Sent, TypeOK
<1>2. End[Sent] = NoValue \/ (End[Sent] \in Nat /\ Sent <= End[Sent])
  BY <1>1, EndBounds
<1>3. CASE pc \in {"ReadChunkSizeLine", "ParseChunkSizeLine"}
  BY <1>2, <1>3 DEF ChunkedAt, Writing
<1>4. CASE pc = "ForwardChunkSizeLine"
  <2> DEFINE l == FindCrlf(buffer)
  <2>1. /\ l # NoValue /\ line_length = l /\ End[0] = End[Sent]
        /\ chunk_size = ParseChunkSizeLine(SubSeq(buffer, 1, l)) /\ chunk_size # NoValue
        /\ BytesToWrite = l + 2
    BY <1>4 DEF ChunkedAt, BytesToWrite
  <2>2. l \in Nat /\ l + 2 <= Len(buffer)
    BY <1>1, <2>1, FindCrlfInBuffer DEF TypeOK
  <2>3. /\ chunk_size \in {NoValue} \cup 0 .. SizeMax
        /\ End[Sent] = IF chunk_size = NoValue THEN NoValue
                       ELSE IF chunk_size = 0 THEN Trailers[Sent + l + 2]
                       ELSE IF Sent + l + 4 + chunk_size > Len(stream) THEN NoValue
                       ELSE End[Sent + l + 4 + chunk_size]
    BY <1>1, <2>1, SizeLineAt
  <2>4. Len(stream) = Sent + Len(buffer) + Len(source) /\ Len(source) \in Nat /\ Len(buffer) \in Nat
    BY <1>1, LineOfStream, LenProperties DEF Sent, TypeOK
  <2> HIDE DEF l
  <2>5. CASE chunk_size = 0
    <3>1. Sent + l + 2 \in 0 .. Len(stream)
      BY <1>1, <2>2, <2>4
    <3>2. Trailers[Sent + l + 2] = NoValue \/ Sent + l + 2 <= Trailers[Sent + l + 2]
      BY <1>1, <3>1, EndBounds
    <3> QED
      BY <1>1, <1>2, <2>1, <2>2, <2>3, <2>5, <3>2
  <2>6. CASE chunk_size # 0
    <3>1. /\ chunk_size \in Nat /\ Sent + l + 4 + chunk_size \in 0 .. Len(stream)
          /\ End[0] = End[Sent + l + 4 + chunk_size]
      BY <1>1, <2>1, <2>2, <2>3, <2>6, SizeMaxAssumption
    <3>2. End[Sent + l + 4 + chunk_size] = NoValue
          \/ (End[Sent + l + 4 + chunk_size] \in Nat
              /\ Sent + l + 4 + chunk_size <= End[Sent + l + 4 + chunk_size])
      BY <1>1, <3>1, EndBounds
    <3>3. End[0] \in Nat /\ Sent + l + 4 + chunk_size <= End[0]
      BY <3>1, <3>2
    <3> QED
      BY <1>1, <2>1, <2>2, <3>1, <3>3
  <2> QED
    BY <2>5, <2>6
<1>5. CASE pc = "ForwardChunkDataWithCrlf"
  <2>1. remaining \in Nat
    BY <1>1, SizeMaxAssumption DEF TypeOK
  <2>2. Sent + remaining \in 0 .. Len(stream) /\ End[0] = End[Sent + remaining]
    BY <1>1, <1>5, <2>1 DEF ChunkedAt
  <2>3. End[Sent + remaining] = NoValue
        \/ (End[Sent + remaining] \in Nat /\ Sent + remaining <= End[Sent + remaining])
    BY <1>1, <2>2, EndBounds
  <2>4. BytesToWrite = Least(remaining, Len(buffer)) /\ Len(buffer) \in Nat
    BY <1>1, <1>5, LenProperties DEF BytesToWrite, TypeOK
  <2> QED
    BY <1>1, <2>1, <2>2, <2>3, <2>4 DEF Least
<1>6. CASE pc = "ForwardTrailers"
  <2> DEFINE l == FindCrlf(buffer)
  <2>1. End[0] = Trailers[Sent] /\ BytesToWrite = l + 2
    BY <1>6 DEF ChunkedAt, BytesToWrite
  <2>2. Trailers[Sent] = NoValue \/ Sent <= Trailers[Sent]
    BY <1>1, EndBounds
  <2>3. ASSUME Writing PROVE Sent + BytesToWrite <= End[0]
    <3>1. l # NoValue
      BY <1>6, <2>3 DEF Writing
    <3>2. l \in Nat /\ l + 2 <= Len(buffer)
      BY <1>1, <3>1, FindCrlfInBuffer DEF TypeOK
    <3>3. Trailers[Sent] = IF l = 0 THEN Sent + 2 ELSE Trailers[Sent + l + 2]
      BY <1>1, <3>1, TrailerAt
    <3>4. Len(stream) = Sent + Len(buffer) + Len(source) /\ Len(source) \in Nat /\ Len(buffer) \in Nat
      BY <1>1, LineOfStream, LenProperties DEF Sent, TypeOK
    <3> HIDE DEF l
    <3>5. Sent + l + 2 \in 0 .. Len(stream)
      BY <1>1, <3>2, <3>4
    <3>6. Trailers[Sent + l + 2] = NoValue \/ Sent + l + 2 <= Trailers[Sent + l + 2]
      BY <1>1, <3>5, EndBounds
    <3> QED
      BY <1>1, <2>1, <3>2, <3>3, <3>6
  <2> QED
    BY <1>1, <2>1, <2>2, <2>3
<1> QED
  BY <1>3, <1>4, <1>5, <1>6 DEF ChunkedStates

Within == End[0] # NoValue => Sent <= End[0]
AtState == IInv /\ ChunkedAt /\ pc \in ChunkedStates /\ result = "pending"

LEMMA AtStateWithin == AtState => Within
<1> SUFFICES ASSUME AtState, End[0] # NoValue PROVE Sent <= End[0]
  BY DEF Within
<1>1. Conserved
  BY DEF AtState, IInv, LoopInv, StreamPreserved
<1> QED
  BY <1>1, WritesWithin DEF AtState

LEMMA AtStateWithinNext == AtState' => Within'
  BY AtStateWithin, PTL

-----------------------------------------------------------------------------
(***************************************************************************)
(* Every action preserves what the states know.                            *)
(***************************************************************************)
LEMMA ChunkedInit == Init => ChunkedInv
<1> SUFFICES ASSUME Init, framing = "Chunked" PROVE ChunkedInv
  BY DEF ChunkedInv
<1>1. IInv
  BY InitIInv
<1>2. target = << >> /\ result = "pending"
  BY DEF Init
<1>3. Sent = 0
  BY <1>2, EmptySeq DEF Sent
<1>4. pc = "ReadChunkSizeLine"
  <2>1. \E i \in Inputs : framing = i.framing /\ pc = Entry(i.framing)
    BY Zenon DEF Init
  <2> QED
    BY <2>1 DEF Entry
<1>5. AtState
  BY <1>1, <1>2, <1>3, <1>4 DEF AtState, ChunkedAt, ChunkedStates
<1>6. Within
  BY <1>5, AtStateWithin
<1> QED
  BY <1>2, <1>5, <1>6 DEF ChunkedInv, AtState, Within

\* A step that leaves the coroutine suspended in a state whose knowledge it keeps.
LEMMA StaysPending ==
  ASSUME IInv', framing' = "Chunked", result' = "pending", ChunkedAt', pc' \in ChunkedStates
  PROVE  ChunkedInv'
<1>1. AtState'
  BY DEF AtState
<1>2. Within'
  BY <1>1, AtStateWithinNext
<1> QED
  BY <1>2 DEF ChunkedInv, Within

LEMMA ChunkedReadData ==
  ASSUME IInv, IInv', ChunkedInv, framing = "Chunked", ReadData
  PROVE  ChunkedInv'
<1>1. /\ result = "pending" /\ result' = "pending" /\ framing' = "Chunked" /\ pc' = AfterRead(pc)
      /\ UNCHANGED <<stream, target, remaining>>
  BY DEF ReadData, Reading, input, locals
<1>2. pc \in {"ReadChunkSizeLine", "ForwardTrailers", "ForwardChunkDataWithCrlf"}
  BY DEF ReadData, Reading, ChunkedInv, ChunkedStates
<1>3. pc' = pc
  BY <1>1, <1>2 DEF AfterRead
<1>4. End' = End /\ Trailers' = Trailers /\ Sent' = Sent
  BY <1>1 DEF End, Trailers, Sent
<1>5. ChunkedAt
  BY <1>1 DEF ChunkedInv
<1>6. ChunkedAt'
  BY <1>1, <1>2, <1>3, <1>4, <1>5 DEF ChunkedAt
<1> QED
  BY <1>1, <1>2, <1>3, <1>6, StaysPending DEF ChunkedStates

LEMMA ChunkedReadEof ==
  ASSUME IInv, IInv', ChunkedInv, framing = "Chunked", ReadEof
  PROVE  ChunkedInv'
<1>1. /\ result = "pending" /\ framing' = "Chunked"
      /\ UNCHANGED <<stream, target, remaining>>
      /\ source = << >>
  BY DEF ReadEof, Reading, input, locals
<1>2. pc \in {"ReadChunkSizeLine", "ForwardTrailers", "ForwardChunkDataWithCrlf"}
  BY DEF ReadEof, Reading, ChunkedInv, ChunkedStates
<1>3. pc' = pc
  BY <1>2 DEF AfterRead, ReadEof
<1>4. End' = End /\ Trailers' = Trailers /\ Sent' = Sent
  BY <1>1 DEF End, Trailers, Sent
<1>5. ChunkedAt /\ (End[0] # NoValue => Sent <= End[0])
  BY <1>1 DEF ChunkedInv
<1>6. CASE pc = "ReadChunkSizeLine"
  <2>1. result' = "false" /\ FindCrlf(buffer) = NoValue
    BY <1>6 DEF ReadEof, Return, Reading
  <2>2. TypeOK /\ Conserved
    BY <1>1 DEF IInv, LoopInv, StreamPreserved
  <2>3. LineEnd(stream, Sent) = NoValue /\ Sent \in 0 .. Len(stream)
    BY <1>1, <2>1, <2>2, LineOfStream DEF Sent
  <2>4. End[Sent] = ChunksAt(End, stream, Sent)
    BY <2>2, <2>3, ChunksFacts DEF End, TypeOK
  <2>5. End[Sent] = NoValue
    BY <2>3, <2>4 DEF ChunksAt
  <2>6. End[0] = NoValue
    BY <1>5, <1>6, <2>5 DEF ChunkedAt
  <2> QED
    BY <1>1, <1>2, <1>3, <1>4, <2>1, <2>6 DEF ChunkedInv, ChunkedStates
<1>7. CASE pc # "ReadChunkSizeLine"
  <2>1. result' = "pending"
    BY <1>1, <1>7 DEF ReadEof
  <2>2. ChunkedAt'
    BY <1>1, <1>2, <1>3, <1>4, <1>5, <1>7 DEF ChunkedAt
  <2> QED
    BY <1>1, <1>2, <1>3, <2>1, <2>2, StaysPending DEF ChunkedStates
<1> QED
  BY <1>6, <1>7

LEMMA ChunkedReadFails ==
  ASSUME IInv, IInv', ChunkedInv, framing = "Chunked", ReadFails
  PROVE  ChunkedInv'
<1>1. /\ result' = "false" /\ fault' = TRUE /\ framing' = "Chunked"
      /\ UNCHANGED <<stream, target, pc>>
  BY DEF ReadFails, Return, input
<1>2. End' = End /\ Sent' = Sent
  BY <1>1 DEF End, Sent
<1> QED
  BY <1>1, <1>2 DEF ChunkedInv

LEMMA ChunkedWriteFails ==
  ASSUME IInv, IInv', ChunkedInv, framing = "Chunked", WriteFails
  PROVE  ChunkedInv'
<1>1. /\ result = "pending" /\ result' = "false" /\ fault' = TRUE /\ framing' = "Chunked"
      /\ UNCHANGED <<stream, pc>> /\ Writing
  BY DEF WriteFails, Writing, Return, input
<1>2. TypeOK /\ Conserved /\ ChunkedAt /\ pc \in ChunkedStates
  BY <1>1 DEF IInv, LoopInv, StreamPreserved, ChunkedInv
<1>3. PICK k \in 0 .. BytesToWrite : target' = target \o SubSeq(buffer, 1, k)
  BY Zenon DEF WriteFails
<1>4. BytesToWrite \in 0 .. Len(buffer) /\ Len(buffer) \in Nat /\ Sent \in Nat
  BY <1>1, <1>2, BytesToWriteInBuffer, LenProperties DEF TypeOK, Sent
<1>5. k \in 0 .. Len(buffer)
  BY <1>4
<1>6. Sent' = Sent + k
  BY <1>1, <1>2, <1>3, <1>5, PartialWrite DEF Sent
<1>7. End' = End
  BY <1>1 DEF End
<1>8. End[0] # NoValue => Sent + BytesToWrite <= End[0]
  BY <1>1, <1>2, WritesWithin
<1>9. End[0] # NoValue => Sent' <= End[0]
  <2>1. 0 \in 0 .. Len(stream) /\ (End[0] # NoValue => End[0] \in Nat)
    <3>1. 0 \in 0 .. Len(stream)
      BY <1>2, LenProperties DEF TypeOK
    <3> QED
      BY <1>2, <3>1, EndBounds
  <2> QED
    BY <1>4, <1>6, <1>8, <2>1
<1> QED
  BY <1>1, <1>2, <1>7, <1>9 DEF ChunkedInv

LEMMA ChunkedFindLine ==
  ASSUME IInv, IInv', ChunkedInv, framing = "Chunked", FindChunkSizeLine
  PROVE  ChunkedInv'
<1>1. /\ result = "pending" /\ result' = "pending" /\ framing' = "Chunked"
      /\ pc = "ReadChunkSizeLine" /\ pc' = "ParseChunkSizeLine"
      /\ FindCrlf(buffer) # NoValue /\ line_length' = FindCrlf(buffer)
      /\ UNCHANGED <<stream, target, buffer>>
  BY DEF FindChunkSizeLine, input
<1>2. End' = End /\ Sent' = Sent /\ FindCrlf(buffer)' = FindCrlf(buffer)
  BY <1>1 DEF End, Sent
<1>3. End[0] = End[Sent]
  BY <1>1 DEF ChunkedInv, ChunkedAt
<1>4. ChunkedAt'
  BY <1>1, <1>2, <1>3 DEF ChunkedAt
<1> QED
  BY <1>1, <1>4, StaysPending DEF ChunkedStates

LEMMA ChunkedParse ==
  ASSUME IInv, IInv', ChunkedInv, framing = "Chunked", ParseSizeLine
  PROVE  ChunkedInv'
<1> DEFINE size == ParseChunkSizeLine(SubSeq(buffer, 1, line_length))
<1>1. /\ result = "pending" /\ framing' = "Chunked" /\ pc = "ParseChunkSizeLine"
      /\ UNCHANGED <<stream, target, buffer, line_length>>
  BY DEF ParseSizeLine, input
<1>2. TypeOK /\ Conserved /\ ChunkedAt /\ (End[0] # NoValue => Sent <= End[0])
  BY <1>1 DEF IInv, LoopInv, StreamPreserved, ChunkedInv
<1>3. End[0] = End[Sent] /\ FindCrlf(buffer) # NoValue /\ line_length = FindCrlf(buffer)
  BY <1>1, <1>2 DEF ChunkedAt
<1>4. /\ End' = End /\ Sent' = Sent /\ FindCrlf(buffer)' = FindCrlf(buffer)
      /\ size' = size
  BY <1>1 DEF End, Sent
<1>5. CASE size = NoValue
  <2>1. result' = "false" /\ pc' = pc
    BY <1>5 DEF ParseSizeLine, Return
  <2>2. End[Sent] = NoValue
    BY <1>2, <1>3, <1>5, SizeLineAt
  <2> QED
    BY <1>1, <1>2, <1>3, <1>4, <2>1, <2>2 DEF ChunkedInv, ChunkedStates
<1>6. CASE size # NoValue
  <2>1. chunk_size' = size /\ pc' = "ForwardChunkSizeLine" /\ result' = "pending"
    BY <1>1, <1>6 DEF ParseSizeLine
  <2>2. chunk_size' = ParseChunkSizeLine(SubSeq(buffer, 1, line_length))'
    BY <1>4, <2>1
  <2>3. chunk_size' # NoValue
    BY <1>6, <2>1
  <2> HIDE DEF size
  <2>4. ChunkedAt'
    BY <1>1, <1>3, <1>4, <2>1, <2>2, <2>3 DEF ChunkedAt
  <2> QED
    BY <1>1, <2>1, <2>4, StaysPending DEF ChunkedStates
<1> QED
  BY <1>5, <1>6

LEMMA ChunkedForwardSizeLine ==
  ASSUME IInv, IInv', ChunkedInv, framing = "Chunked", ForwardChunkSizeLine
  PROVE  ChunkedInv'
<1> DEFINE l == FindCrlf(buffer)
<1>1. /\ result = "pending" /\ framing' = "Chunked" /\ pc = "ForwardChunkSizeLine"
      /\ UNCHANGED <<stream, source>> /\ Writing /\ WriteToPeer(BytesToWrite)
      /\ BytesToWrite = line_length + 2
  BY DEF ForwardChunkSizeLine, Writing, BytesToWrite, input
<1>2. TypeOK /\ Conserved /\ ChunkedAt
  BY <1>1 DEF IInv, LoopInv, StreamPreserved, ChunkedInv
<1>3. /\ End[0] = End[Sent] /\ l # NoValue /\ line_length = l
      /\ chunk_size = ParseChunkSizeLine(SubSeq(buffer, 1, l)) /\ chunk_size # NoValue
  BY <1>1, <1>2 DEF ChunkedAt
<1>4. /\ chunk_size \in {NoValue} \cup 0 .. SizeMax
      /\ End[Sent] = IF chunk_size = NoValue THEN NoValue
                     ELSE IF chunk_size = 0 THEN Trailers[Sent + l + 2]
                     ELSE IF Sent + l + 4 + chunk_size > Len(stream) THEN NoValue
                     ELSE End[Sent + l + 4 + chunk_size]
  BY <1>2, <1>3, SizeLineAt
<1>5. l \in Nat /\ Sent \in Nat /\ Len(stream) \in Nat /\ chunk_size \in 0 .. SizeMax
  BY <1>2, <1>3, <1>4, FindCrlfInBuffer, LenProperties DEF TypeOK, Sent
<1>6. Sent' = Sent + (l + 2)
  <2>1. BytesToWrite \in 0 .. Len(buffer)
    BY <1>1, BytesToWriteInBuffer
  <2> QED
    BY <1>1, <1>2, <1>3, <2>1, WriteMoves DEF Sent
<1>7. End' = End /\ Trailers' = Trailers
  BY <1>1 DEF End, Trailers
<1> HIDE DEF l
<1>8. Sent' = Sent + l + 2
  BY <1>5, <1>6
<1>9. CASE chunk_size = 0 /\ pc' = "ForwardTrailers" /\ UNCHANGED result
  <2>1. End[0] = Trailers[Sent + l + 2]
    BY <1>3, <1>4, <1>9
  <2>2. (End[0])' = (Trailers[Sent])'
    BY <1>7, <1>8, <2>1
  <2>3. ChunkedAt'
    BY <1>9, <2>2 DEF ChunkedAt
  <2> QED
    BY <1>1, <1>9, <2>3, StaysPending DEF ChunkedStates
<1>10. CASE chunk_size > SizeMax - 2 /\ result' = "false" /\ UNCHANGED pc
  <2>1. Len(stream) <= SizeMax => End[0] = NoValue
    BY <1>3, <1>4, <1>5, <1>10, SizeMaxAssumption
  <2>2. End[0] # NoValue => Sent' <= End[0]
    <3>1. 0 \in 0 .. Len(stream)
      BY <1>5
    <3>2. End[0] # NoValue => End[0] \in Nat
      BY <1>2, <3>1, EndBounds
    <3>3. End[0] # NoValue => Sent + BytesToWrite <= End[0]
      BY <1>1, <1>2, WritesWithin DEF ChunkedStates
    <3> QED
      BY <1>1, <1>3, <1>6, <3>2, <3>3
  <2> QED
    BY <1>1, <1>7, <1>10, <2>1, <2>2 DEF ChunkedInv, ChunkedStates
<1>11. CASE /\ chunk_size \in 1 .. SizeMax - 2
            /\ remaining' = (chunk_size + 2) % (SizeMax + 1)
            /\ pc' = "ForwardChunkDataWithCrlf" /\ UNCHANGED result
  <2>1. remaining' = chunk_size + 2
    <3>1. \A c \in 1 .. SizeMax - 2 : (c + 2) % (SizeMax + 1) = c + 2
      BY SizeMaxAssumption
    <3> QED
      BY <1>11, <3>1, Zenon
  <2>2. Sent' + remaining' = Sent + l + 4 + chunk_size
    BY <1>5, <1>8, <2>1
  <2>3. End[0] = IF Sent + l + 4 + chunk_size > Len(stream) THEN NoValue
                 ELSE End[Sent + l + 4 + chunk_size]
    BY <1>3, <1>4, <1>5, <1>11
  <2>4. (End[0] = IF Sent + remaining > Len(stream) THEN NoValue ELSE End[Sent + remaining])'
    BY <1>1, <1>7, <2>2, <2>3
  <2>5. ChunkedAt'
    BY <1>11, <2>4 DEF ChunkedAt
  <2> QED
    BY <1>1, <1>11, <2>5, StaysPending DEF ChunkedStates
<1> QED
  BY <1>9, <1>10, <1>11 DEF ForwardChunkSizeLine, Return

LEMMA ChunkedForwardData ==
  ASSUME IInv, IInv', ChunkedInv, framing = "Chunked", ForwardChunkDataWithCrlf
  PROVE  ChunkedInv'
<1>1. /\ result = "pending" /\ result' = "pending" /\ framing' = "Chunked"
      /\ pc = "ForwardChunkDataWithCrlf"
      /\ UNCHANGED <<stream, source>> /\ Writing /\ WriteToPeer(BytesToWrite)
      /\ remaining' = remaining - BytesToWrite
      /\ pc' = IF remaining' = 0 THEN "ReadChunkSizeLine" ELSE pc
  BY DEF ForwardChunkDataWithCrlf, Writing, input
<1>2. TypeOK /\ Conserved /\ ChunkedAt
  BY <1>1 DEF IInv, LoopInv, StreamPreserved, ChunkedInv
<1>3. End[0] = IF Sent + remaining > Len(stream) THEN NoValue ELSE End[Sent + remaining]
  BY <1>1, <1>2 DEF ChunkedAt
<1>4. BytesToWrite \in 0 .. Len(buffer) /\ Len(buffer) \in Nat
  BY <1>1, <1>2, BytesToWriteInBuffer, LenProperties DEF TypeOK
<1>5. Sent' = Sent + BytesToWrite
  BY <1>1, <1>2, <1>4, WriteMoves DEF Sent
<1>6. Sent \in Nat /\ remaining \in Nat /\ Len(stream) \in Nat
  BY <1>2, LenProperties, SizeMaxAssumption DEF TypeOK, Sent
<1>7. Sent' + remaining' = Sent + remaining
  BY <1>1, <1>4, <1>5, <1>6
<1>8. End' = End
  BY <1>1 DEF End
<1>9. CASE remaining' = 0
  <2>1. Sent' = Sent + remaining /\ pc' = "ReadChunkSizeLine"
    BY <1>1, <1>4, <1>5, <1>6, <1>7, <1>9
  <2>2. Sent' <= Len(stream)
    <3>1. TypeOK' /\ SentIsPrefix'
      BY DEF IInv, StreamPreserved
    <3> QED
      BY <1>1, <3>1 DEF SentIsPrefix, Sent
  <2>3. (End[0] = End[Sent])'
    BY <1>3, <1>6, <1>8, <2>1, <2>2
  <2>4. ChunkedAt'
    BY <2>1, <2>3 DEF ChunkedAt
  <2> QED
    BY <1>1, <2>1, <2>4, StaysPending DEF ChunkedStates
<1>10. CASE remaining' # 0
  <2>1. pc' = "ForwardChunkDataWithCrlf"
    BY <1>1, <1>10
  <2>2. (End[0] = IF Sent + remaining > Len(stream) THEN NoValue ELSE End[Sent + remaining])'
    BY <1>1, <1>3, <1>7, <1>8
  <2>3. ChunkedAt'
    BY <2>1, <2>2 DEF ChunkedAt
  <2> QED
    BY <1>1, <2>1, <2>3, StaysPending DEF ChunkedStates
<1> QED
  BY <1>9, <1>10

LEMMA ChunkedForwardTrailers ==
  ASSUME IInv, IInv', ChunkedInv, framing = "Chunked", ForwardTrailers
  PROVE  ChunkedInv'
<1> DEFINE l == FindCrlf(buffer)
<1>1. /\ result = "pending" /\ framing' = "Chunked" /\ pc = "ForwardTrailers" /\ pc' = pc
      /\ UNCHANGED <<stream, source>> /\ Writing /\ WriteToPeer(BytesToWrite)
      /\ BytesToWrite = l + 2 /\ l # NoValue
      /\ result' = IF l = 0 THEN "true" ELSE "pending"
  BY DEF ForwardTrailers, Writing, BytesToWrite, Return, input
<1>2. TypeOK /\ Conserved /\ ChunkedAt
  BY <1>1 DEF IInv, LoopInv, StreamPreserved, ChunkedInv
<1>3. End[0] = Trailers[Sent]
  BY <1>1, <1>2 DEF ChunkedAt
<1>4. Trailers[Sent] = IF l = 0 THEN Sent + 2 ELSE Trailers[Sent + l + 2]
  BY <1>1, <1>2, TrailerAt
<1>5. l \in Nat /\ Sent \in Nat
  BY <1>1, <1>2, FindCrlfInBuffer, LenProperties DEF TypeOK, Sent
<1>6. Sent' = Sent + (l + 2)
  <2>1. BytesToWrite \in 0 .. Len(buffer)
    BY <1>1, BytesToWriteInBuffer
  <2> QED
    BY <1>1, <1>2, <2>1, WriteMoves DEF Sent
<1>7. End' = End /\ Trailers' = Trailers
  BY <1>1 DEF End, Trailers
<1> HIDE DEF l
<1>8. Sent' = Sent + l + 2
  BY <1>5, <1>6
<1>9. CASE l = 0
  <2>1. End[0] = Sent'
    BY <1>3, <1>4, <1>5, <1>8, <1>9
  <2>2. End[0] # NoValue => Sent' <= End[0]
    BY <1>5, <1>8, <2>1
  <2>3. result' = "true"
    BY <1>1, <1>9
  <2> QED
    BY <1>1, <1>7, <2>1, <2>2, <2>3 DEF ChunkedInv, ChunkedStates
<1>10. CASE l # 0
  <2>1. (End[0] = Trailers[Sent])'
    BY <1>3, <1>4, <1>7, <1>8, <1>10
  <2>2. ChunkedAt'
    BY <1>1, <2>1 DEF ChunkedAt
  <2> QED
    BY <1>1, <1>10, <2>2, StaysPending DEF ChunkedStates
<1> QED
  BY <1>9, <1>10

LEMMA ChunkedNext == IInv /\ IInv' /\ ChunkedInv /\ [Next]_vars => ChunkedInv'
<1> SUFFICES ASSUME IInv, IInv', ChunkedInv, [Next]_vars, framing' = "Chunked"
             PROVE  ChunkedInv'
  BY DEF ChunkedInv
<1>1. CASE UNCHANGED vars
  <2>1. UNCHANGED <<stream, framing, target, pc, result, fault, buffer, line_length,
                    chunk_size, remaining>>
    BY <1>1 DEF vars, input, locals
  <2>2. End' = End /\ Trailers' = Trailers /\ Sent' = Sent /\ ChunkedAt' = ChunkedAt
    BY <2>1, Zenon DEF End, Trailers, Sent, ChunkedAt
  <2> QED
    BY <2>1, <2>2 DEF ChunkedInv
<1>2. CASE Next /\ ~UNCHANGED vars
  <2>1. framing = "Chunked"
    BY <1>2 DEF Next, Read, Forward, Fault, Returned, ReadData, ReadEof, ReadFails,
       WriteFails, NoBody, ExactWrite, ExactReturn, Drain, UntilEofWrite,
       FindChunkSizeLine, ParseSizeLine, ForwardChunkSizeLine,
       ForwardChunkDataWithCrlf, ForwardTrailers, input
  <2>2. pc \in ChunkedStates
    BY <2>1 DEF ChunkedInv
  <2>3. ~NoBody /\ ~ExactWrite /\ ~ExactReturn /\ ~Drain /\ ~UntilEofWrite
    BY <2>2 DEF NoBody, ExactWrite, ExactReturn, Drain, UntilEofWrite, ChunkedStates
  <2>4. \/ ReadData \/ ReadEof \/ ReadFails \/ WriteFails \/ FindChunkSizeLine
        \/ ParseSizeLine \/ ForwardChunkSizeLine \/ ForwardChunkDataWithCrlf
        \/ ForwardTrailers
    BY <1>2, <2>3 DEF Next, Read, Forward, Fault, Returned
  <2> QED
    BY <2>1, <2>4, ChunkedReadData, ChunkedReadEof, ChunkedReadFails, ChunkedWriteFails,
       ChunkedFindLine, ChunkedParse, ChunkedForwardSizeLine, ChunkedForwardData,
       ChunkedForwardTrailers, ZenonT(40)
<1> QED
  BY <1>1, <1>2

LEMMA ChunkedInductive == Spec => [](IInv /\ ChunkedInv)
<1>1. Init => IInv /\ ChunkedInv
  BY InitIInv, ChunkedInit
<1>2. IInv /\ ChunkedInv /\ [Next]_vars => IInv' /\ ChunkedInv'
  BY NextIInv, ChunkedNext
<1> QED
  BY <1>1, <1>2, PTL DEF Spec

(***************************************************************************)
(* A chunked body.                                                         *)
(***************************************************************************)
LEMMA ChunkedBodies ==
  ASSUME IInv, ChunkedInv, framing = "Chunked"
  PROVE  /\ TrueMeansWholeBody /\ NeverPastBody
         /\ Len(stream) <= SizeMax => FalseOnlyForCause
<1>1. BodyEnd = End[0]
  BY DEF BodyEnd, ChunkedBodyEnd, End
<1>2. /\ result = "true" => End[0] = Sent
      /\ result = "false" /\ ~fault /\ Len(stream) <= SizeMax => End[0] = NoValue
      /\ End[0] # NoValue => Sent <= End[0]
  BY DEF ChunkedInv
<1>3. Sent \in Nat /\ Sent # NoValue
  BY LenProperties DEF IInv, TypeOK, Sent, NoValue
<1> QED
  BY <1>1, <1>2, <1>3
     DEF TrueMeansWholeBody, NeverPastBody, FalseOnlyForCause, Sent

(***************************************************************************)
(* ForwardRequestBody and ForwardResponseBody return true only when the    *)
(* receiver has the whole body, for every framing, every stream and every  *)
(* way it is cut into reads.                                               *)
(***************************************************************************)
THEOREM WholeBodies == Spec => []TrueMeansWholeBody
<1>1. IInv /\ ChunkedInv => TrueMeansWholeBody
  BY PlainBodies, ChunkedBodies
<1> QED
  BY <1>1, ChunkedInductive, PTL

(***************************************************************************)
(* No forwarding loop sends a byte of what follows its body on the         *)
(* connection, not even in a write that fails half way.                    *)
(***************************************************************************)
THEOREM NothingPastTheBody == Spec => []NeverPastBody
<1>1. IInv /\ ChunkedInv => NeverPastBody
  BY PlainBodies, ChunkedBodies
<1> QED
  BY <1>1, ChunkedInductive, PTL

(***************************************************************************)
(* A whole body is refused only after a failing read or write; for chunked *)
(* bodies in every stream a size_t can count: ForwardChunked refuses a     *)
(* chunk of SizeMax - 1 bytes or more, which no such stream holds.         *)
(***************************************************************************)
THEOREM RefusedForCause ==
  Spec => [](framing # "Chunked" \/ Len(stream) <= SizeMax => FalseOnlyForCause)
<1>1. IInv /\ ChunkedInv =>
        (framing # "Chunked" \/ Len(stream) <= SizeMax => FalseOnlyForCause)
  BY PlainBodies, ChunkedBodies
<1> QED
  BY <1>1, ChunkedInductive, PTL

-----------------------------------------------------------------------------
(***************************************************************************)
(* The place values and the sum of the digits exist, and are natural       *)
(* numbers.                                                                *)
(***************************************************************************)
LEMMA RecursionExists ==
  ASSUME NEW n \in Nat, NEW a \in Nat, NEW g \in [1 .. n -> [Nat -> Nat]]
  PROVE  \E f \in [0 .. n -> Nat] : f[0] = a /\ \A i \in 1 .. n : f[i] = g[i][f[i - 1]]
<1> DEFINE Rec(f, m) == /\ f \in [0 .. m -> Nat]
                        /\ f[0] = a
                        /\ \A i \in 1 .. m : f[i] = g[i][f[i - 1]]
           P == {m \in Nat : m <= n => \E f : Rec(f, m)}
<1>1. 0 \in P
  <2> DEFINE f == [i \in 0 .. 0 |-> a]
  <2>1. Rec(f, 0)
    OBVIOUS
  <2> HIDE DEF f, Rec
  <2> QED
    BY <2>1
<1>2. ASSUME NEW m \in Nat, m \in P PROVE m + 1 \in P
  <2> HIDE DEF Rec
  <2> SUFFICES ASSUME m + 1 <= n PROVE \E f : Rec(f, m + 1)
    OBVIOUS
  <2>1. PICK f : Rec(f, m)
    BY <1>2
  <2>2. f \in [0 .. m -> Nat] /\ f[0] = a /\ \A i \in 1 .. m : f[i] = g[i][f[i - 1]]
    BY <2>1 DEF Rec
  <2> DEFINE b == g[m + 1][f[m]]
             h == [i \in 0 .. m + 1 |-> IF i = m + 1 THEN b ELSE f[i]]
  <2>3. b \in Nat
    <3>1. m + 1 \in 1 .. n /\ f[m] \in Nat
      BY <2>2
    <3> QED
      BY <3>1
  <2> HIDE DEF b
  <2>4. h \in [0 .. m + 1 -> Nat]
    BY <2>2, <2>3
  <2>5. h[0] = a /\ h[m + 1] = b /\ \A i \in 0 .. m : h[i] = f[i]
    BY <2>2
  <2> HIDE DEF h
  <2>6. ASSUME NEW i \in 1 .. m + 1 PROVE h[i] = g[i][h[i - 1]]
    <3>1. CASE i = m + 1
      <4>1. i - 1 = m /\ h[i - 1] = f[m] /\ h[i] = b
        BY <3>1, <2>5
      <4> QED
        BY <3>1, <4>1 DEF b
    <3>2. CASE i # m + 1
      <4>1. i \in 1 .. m /\ i \in 0 .. m /\ i - 1 \in 0 .. m
        BY <3>2
      <4> QED
        BY <4>1, <2>2, <2>5
    <3> QED
      BY <3>1, <3>2
  <2>7. Rec(h, m + 1)
    BY <2>4, <2>5, <2>6 DEF Rec
  <2> QED
    BY <2>7
<1>3. PICK f : Rec(f, n)
  <2> HIDE DEF Rec
  <2>1. Nat \subseteq P
    <3> HIDE DEF P
    <3> QED
      BY <1>1, <1>2, NatInductionOnSet
  <2> QED
    BY <2>1
<1> QED
  BY <1>3

IsPlaces(f, d) == f = [k \in 0 .. d |-> IF k = 0 THEN 1 ELSE 16 * f[k - 1]]

IsSums(f, place, s, d) ==
  f = [i \in 0 .. d |->
         IF i = 0 THEN 0 ELSE f[i - 1] + HexValue[s[i]] * place[d - i]]

LEMMA PlacesExist ==
  ASSUME NEW d \in Nat
  PROVE  \E f : IsPlaces(f, d)
<1> DEFINE g == [k \in 1 .. d |-> [x \in Nat |-> 16 * x]]
<1>1. g \in [1 .. d -> [Nat -> Nat]]
  OBVIOUS
<1>2. \A k \in 1 .. d, x \in Nat : g[k][x] = 16 * x
  OBVIOUS
<1> HIDE DEF g
<1>3. PICK f \in [0 .. d -> Nat] : f[0] = 1 /\ \A k \in 1 .. d : f[k] = g[k][f[k - 1]]
  <2>1. 1 \in Nat
    OBVIOUS
  <2> QED
    BY <1>1, <2>1, RecursionExists
<1>4. ASSUME NEW k \in 0 .. d
      PROVE  f[k] = IF k = 0 THEN 1 ELSE 16 * f[k - 1]
  <2>1. CASE k = 0
    BY <2>1, <1>3
  <2>2. CASE k # 0
    <3>1. k \in 1 .. d /\ k - 1 \in 0 .. d
      BY <2>2
    <3>2. f[k - 1] \in Nat
      BY <3>1
    <3> QED
      BY <2>2, <3>1, <3>2, <1>2, <1>3
  <2> QED
    BY <2>1, <2>2
<1>5. IsPlaces(f, d)
  BY <1>4 DEF IsPlaces
<1> QED
  BY <1>5

LEMMA PlaceValues ==
  ASSUME NEW d \in Nat, NEW f, IsPlaces(f, d)
  PROVE  /\ f \in [0 .. d -> Nat \ {0}]
         /\ f[0] = 1
         /\ \A k \in 1 .. d : f[k] = 16 * f[k - 1]
<1>1. \A k \in 0 .. d : f[k] = IF k = 0 THEN 1 ELSE 16 * f[k - 1]
  BY DEF IsPlaces
<1> DEFINE P == {k \in Nat : k <= d => f[k] \in Nat \ {0}}
<1>2. 0 \in P
  BY <1>1
<1>3. ASSUME NEW k \in Nat, k \in P PROVE k + 1 \in P
  <2> SUFFICES ASSUME k + 1 <= d PROVE f[k + 1] \in Nat \ {0}
    OBVIOUS
  <2>1. f[k] \in Nat \ {0}
    BY <1>3
  <2>2. k + 1 \in 0 .. d /\ k + 1 # 0 /\ (k + 1) - 1 = k
    OBVIOUS
  <2>3. f[k + 1] = 16 * f[k]
    BY <1>1, <2>2
  <2> QED
    BY <2>1, <2>3
<1>4. Nat \subseteq P
  <2> HIDE DEF P
  <2> QED
    BY <1>2, <1>3, NatInductionOnSet
<1>5. \A k \in 0 .. d : f[k] \in Nat \ {0}
  BY <1>4
<1>6. DOMAIN f = 0 .. d /\ f = [k \in 0 .. d |-> f[k]]
  BY DEF IsPlaces
<1>7. f \in [0 .. d -> Nat \ {0}]
  BY <1>5, <1>6
<1> QED
  BY <1>1, <1>7

LEMMA SumsExist ==
  ASSUME NEW d \in Nat, NEW s, NEW place \in [0 .. d -> Nat \ {0}], Digits(s, d)
  PROVE  \E f : IsSums(f, place, s, d)
<1> DEFINE v == [k \in 1 .. d |-> HexValue[s[k]] * place[d - k]]
<1>1. \A k \in 1 .. d : HexValue[s[k]] \in 0 .. 15
  <2>1. \A c \in DOMAIN HexValue : HexValue[c] \in 0 .. 15
    BY DEF HexValue
  <2> QED
    BY <2>1 DEF Digits
<1>2. \A k \in 1 .. d : v[k] \in Nat
  <2> TAKE k \in 1 .. d
  <2>1. d - k \in 0 .. d
    OBVIOUS
  <2>2. place[d - k] \in Nat
    BY <2>1
  <2>3. HexValue[s[k]] \in Nat
    <3>1. \A x \in 0 .. 15 : x \in Nat
      OBVIOUS
    <3> QED
      BY <1>1, <3>1, Zenon
  <2>4. HexValue[s[k]] * place[d - k] \in Nat
    <3>1. \A x \in Nat, y \in Nat : x * y \in Nat
      OBVIOUS
    <3> QED
      BY <2>2, <2>3, <3>1, Zenon
  <2>5. v[k] = HexValue[s[k]] * place[d - k]
    OBVIOUS
  <2> HIDE DEF v
  <2> QED
    BY <2>4, <2>5, Zenon
<1>3. \A k \in 1 .. d : v[k] = HexValue[s[k]] * place[d - k]
  OBVIOUS
<1> HIDE DEF v
<1> DEFINE g == [k \in 1 .. d |-> [x \in Nat |-> x + v[k]]]
<1>4. g \in [1 .. d -> [Nat -> Nat]]
  BY <1>2
<1>5. \A k \in 1 .. d, x \in Nat : g[k][x] = x + v[k]
  OBVIOUS
<1> HIDE DEF g
<1>6. PICK f \in [0 .. d -> Nat] : f[0] = 0 /\ \A k \in 1 .. d : f[k] = g[k][f[k - 1]]
  <2>1. 0 \in Nat
    OBVIOUS
  <2> QED
    BY <1>4, <2>1, RecursionExists
<1>7. ASSUME NEW k \in 0 .. d
      PROVE  f[k] = IF k = 0 THEN 0 ELSE f[k - 1] + HexValue[s[k]] * place[d - k]
  <2>1. CASE k = 0
    BY <2>1, <1>6
  <2>2. CASE k # 0
    <3>1. k \in 1 .. d /\ k - 1 \in 0 .. d
      BY <2>2
    <3>2. f[k - 1] \in Nat
      BY <3>1
    <3>3. f[k] = f[k - 1] + v[k]
      BY <3>1, <3>2, <1>5, <1>6
    <3> QED
      BY <2>2, <3>1, <3>3, <1>3
  <2> QED
    BY <2>1, <2>2
<1>8. IsSums(f, place, s, d)
  BY <1>7 DEF IsSums
<1> QED
  BY <1>8

LEMMA DigitSumIs ==
  ASSUME NEW d \in Nat, NEW s, Digits(s, d)
  PROVE  \E place, sum : /\ IsPlaces(place, d)
                         /\ IsSums(sum, place, s, d)
                         /\ DigitSum(s, d) = sum[d]
<1> DEFINE place == CHOOSE f : IsPlaces(f, d)
           sum == CHOOSE f : IsSums(f, place, s, d)
<1>1. IsPlaces(place, d)
  BY PlacesExist
<1>2. DigitSum(s, d) = sum[d]
  BY DEF DigitSum, IsPlaces, IsSums
<1> HIDE DEF place
<1>3. place \in [0 .. d -> Nat \ {0}]
  BY <1>1, PlaceValues
<1>4. IsSums(sum, place, s, d)
  BY <1>3, SumsExist
<1> HIDE DEF sum
<1> QED
  BY <1>1, <1>2, <1>4

-----------------------------------------------------------------------------
(***************************************************************************)
(* The digit loop and the sum of the digits: what the loop has so far is   *)
(* what the digits read so far contribute, divided by the place value of   *)
(* the last of them.  Once it would not fit a size_t, it never does again. *)
(***************************************************************************)
LEMMA AddDigitAdds ==
  ASSUME NEW size \in 0 .. SizeMax, NEW ch \in DOMAIN HexValue
  PROVE  AddDigit(size, ch) = IF 16 * size + HexValue[ch] > SizeMax THEN NoValue
                              ELSE 16 * size + HexValue[ch]
<1>1. HexValue[ch] \in 0 .. 15
  BY DEF HexValue
<1>2. PICK d \in 0 .. 15 : d = HexValue[ch]
  BY <1>1
<1>3. size # NoValue
  BY SizeMaxAssumption DEF NoValue
<1>4. AddDigit(size, ch) = IF size > (SizeMax - d) \div 16 THEN NoValue
                           ELSE size * 16 + d
  BY <1>2, <1>3 DEF AddDigit
<1>5. size > (SizeMax - d) \div 16 <=> 16 * size + d > SizeMax
  BY SizeMaxAssumption
<1>6. size * 16 + d = 16 * size + d
  BY SizeMaxAssumption
<1> QED
  BY <1>2, <1>4, <1>5, <1>6, Zenon

\* The arithmetic of one more digit v, whose place value is p.
LEMMA OneMoreDigit ==
  ASSUME NEW x \in Nat, NEW v \in 0 .. 15, NEW p \in Nat \ {0}, NEW M \in Nat
  PROVE  /\ x * (16 * p) + v * p = (16 * x + v) * p
         /\ 16 * x + v > M => (16 * x + v) * p >= (M + 1) * p
         /\ \A y \in Nat : y >= (M + 1) * (16 * p) => y + v * p >= (M + 1) * p
<1>1. x * (16 * p) + v * p = (16 * x + v) * p
  OBVIOUS
<1>2. \A y \in Nat : y >= M + 1 => y * p >= (M + 1) * p
  OBVIOUS
<1>3. ASSUME NEW y \in Nat, y >= (M + 1) * (16 * p) PROVE y + v * p >= (M + 1) * p
  <2>1. (M + 1) * (16 * p) = 16 * ((M + 1) * p)
    OBVIOUS
  <2>2. (M + 1) * p \in Nat /\ v * p \in Nat
    OBVIOUS
  <2> QED
    BY <1>3, <2>1, <2>2
<1> QED
  BY <1>1, <1>2, <1>3

LEMMA DigitLoopSums ==
  ASSUME NEW text \in Seq(Byte), NEW s, \A i \in 1 .. Len(text) : text[i] = s[i],
         Digits(s, Len(text))
  PROVE  DigitLoop(text) = LET size == DigitSum(s, Len(text))
                           IN  IF size > SizeMax THEN NoValue ELSE size
<1> DEFINE d == Len(text)
           f == CHOOSE g : IsDigitLoop(g, text, d)
<1>1. d \in Nat
  BY LenProperties
<1>2. IsDigitLoop(f, text, d)
  BY <1>1, DigitLoopExists
<1>3. DigitLoop(text) = f[d]
  BY DEF DigitLoop, IsDigitLoop
<1> HIDE DEF f
<1>4. \A i \in 0 .. d : f[i] = IF i = 0 THEN 0 ELSE AddDigit(f[i - 1], text[i])
  BY <1>2 DEF IsDigitLoop
<1>5. PICK place, sum : /\ IsPlaces(place, d)
                        /\ IsSums(sum, place, s, d)
                        /\ DigitSum(s, d) = sum[d]
  BY <1>1, DigitSumIs
<1>6. \A i \in 1 .. d : text[i] \in DOMAIN HexValue /\ text[i] = s[i]
  BY Zenon DEF Digits
<1> HIDE DEF d
<1>7. /\ place \in [0 .. d -> Nat \ {0}]
      /\ place[0] = 1
      /\ \A k \in 1 .. d : place[k] = 16 * place[k - 1]
  BY <1>1, <1>5, PlaceValues
<1>8. \A i \in 0 .. d : sum[i] = IF i = 0 THEN 0
                                 ELSE sum[i - 1] + HexValue[text[i]] * place[d - i]
  <2>1. \A i \in 0 .. d : sum[i] = IF i = 0 THEN 0
                                   ELSE sum[i - 1] + HexValue[s[i]] * place[d - i]
    BY <1>5 DEF IsSums
  <2>2. \A i \in 0 .. d : i # 0 => i \in 1 .. d
    BY <1>1
  <2> QED
    BY <1>6, <2>1, <2>2, Zenon
<1> DEFINE Value(i) == f[i] \in 0 .. SizeMax /\ sum[i] = f[i] * place[d - i]
           TooLarge(i) == /\ f[i] = NoValue
                          /\ sum[i] \in Nat
                          /\ sum[i] >= (SizeMax + 1) * place[d - i]
           P == {i \in Nat : i <= d => Value(i) \/ TooLarge(i)}
<1>9. 0 \in P
  <2>1. f[0] = 0 /\ sum[0] = 0 /\ place[d - 0] \in Nat
    BY <1>1, <1>4, <1>7, <1>8
  <2>2. 0 \in 0 .. SizeMax /\ \A p \in Nat : 0 = 0 * p
    BY SizeMaxAssumption
  <2>3. Value(0)
    BY <2>1, <2>2
  <2> QED
    BY <2>3
<1>10. ASSUME NEW i \in Nat, i \in P PROVE i + 1 \in P
  <2> SUFFICES ASSUME i + 1 <= d PROVE Value(i + 1) \/ TooLarge(i + 1)
    OBVIOUS
  <2>1. Value(i) \/ TooLarge(i)
    BY <1>1, <1>10
  <2>2. /\ i + 1 \in 0 .. d /\ i + 1 \in 1 .. d /\ i + 1 # 0 /\ (i + 1) - 1 = i
        /\ d - i \in 1 .. d /\ (d - i) - 1 = d - (i + 1) /\ d - (i + 1) \in 0 .. d
    BY <1>1
  <2>3. PICK p \in Nat \ {0} : p = place[d - (i + 1)] /\ place[d - i] = 16 * p
    BY <1>7, <2>2
  <2>4. PICK v \in 0 .. 15 : v = HexValue[text[i + 1]]
    <3>1. \A c \in DOMAIN HexValue : HexValue[c] \in 0 .. 15
      BY DEF HexValue
    <3> QED
      BY <3>1, <1>6, <2>2, Zenon
  <2>5. f[i + 1] = AddDigit(f[i], text[i + 1]) /\ sum[i + 1] = sum[i] + v * p
    BY <1>4, <1>8, <2>2, <2>3, <2>4, Zenon
  <2>6. v * p \in Nat
    OBVIOUS
  <2>7. CASE Value(i)
    <3>1. PICK x \in 0 .. SizeMax : x = f[i] /\ x \in Nat
      BY <2>7, SizeMaxAssumption
    <3>2. sum[i] = x * (16 * p)
      BY <2>3, <2>7, <3>1, Zenon
    <3>3. sum[i + 1] = (16 * x + v) * p
      BY <2>5, <3>1, <3>2, OneMoreDigit, SizeMaxAssumption
    <3>4. f[i + 1] = IF 16 * x + v > SizeMax THEN NoValue ELSE 16 * x + v
      BY <1>6, <2>2, <2>4, <2>5, <3>1, AddDigitAdds, Zenon
    <3>5. 16 * x + v \in Nat
      BY <3>1
    <3>6. CASE 16 * x + v > SizeMax
      <4>1. (16 * x + v) * p >= (SizeMax + 1) * p
        BY <3>1, <3>6, OneMoreDigit, SizeMaxAssumption
      <4>2. (16 * x + v) * p \in Nat
        BY <3>5
      <4> QED
        BY <2>3, <3>3, <3>4, <3>6, <4>1, <4>2, Zenon
    <3>7. CASE ~(16 * x + v > SizeMax)
      <4>1. 16 * x + v \in 0 .. SizeMax
        BY <3>5, <3>7, SizeMaxAssumption
      <4> QED
        BY <2>3, <3>3, <3>4, <3>7, <4>1, Zenon
    <3> QED
      BY <3>6, <3>7
  <2>8. CASE TooLarge(i)
    <3>1. f[i + 1] = NoValue
      BY <2>5, <2>8 DEF AddDigit
    <3>2. sum[i] \in Nat /\ sum[i] >= (SizeMax + 1) * (16 * p)
      BY <2>3, <2>8, Zenon
    <3>3. sum[i] + v * p >= (SizeMax + 1) * p
      BY <3>2, OneMoreDigit, SizeMaxAssumption
    <3>4. sum[i] + v * p \in Nat
      BY <3>2, <2>6
    <3> QED
      BY <2>3, <2>5, <3>1, <3>3, <3>4, Zenon
  <2> QED
    BY <2>1, <2>7, <2>8
<1>11. Value(d) \/ TooLarge(d)
  <2>1. Nat \subseteq P
    <3> HIDE DEF P
    <3> QED
      BY <1>9, <1>10, NatInductionOnSet
  <2> HIDE DEF Value, TooLarge
  <2> QED
    BY <1>1, <2>1
<1>12. CASE Value(d)
  <2>1. place[d - d] = 1
    BY <1>1, <1>7
  <2>2. PICK x \in 0 .. SizeMax : x = f[d] /\ sum[d] = x * 1
    BY <1>12, <2>1, Zenon
  <2>3. sum[d] = x /\ ~(x > SizeMax)
    BY <2>2, SizeMaxAssumption
  <2> QED
    BY <1>3, <1>5, <2>2, <2>3 DEF d
<1>13. CASE TooLarge(d)
  <2>1. place[d - d] = 1
    BY <1>1, <1>7
  <2>2. sum[d] > SizeMax
    <3>1. sum[d] \in Nat /\ sum[d] >= (SizeMax + 1) * 1
      BY <1>13, <2>1, Zenon
    <3> QED
      BY <3>1, SizeMaxAssumption
  <2> QED
    BY <1>3, <1>5, <1>13, <2>2 DEF d
<1> QED
  BY <1>11, <1>12, <1>13

-----------------------------------------------------------------------------
(***************************************************************************)
(* The parts of a line: SizeText and TrimTrailingOws find the size of a    *)
(* well-formed line, and in any other line they leave text with a          *)
(* character in it that is no digit, or nothing.                           *)
(***************************************************************************)
LEMMA NotDigits ==
  /\ ";" \notin DOMAIN HexValue
  /\ \A c \in Ows : c \notin DOMAIN HexValue /\ c # ";"
  BY DEF HexValue, Ows

LEMMA FirstOf ==
  ASSUME NEW s \in Seq(Byte), NEW n \in 0 .. Len(s)
  PROVE  /\ SubSeq(s, 1, n) \in Seq(Byte)
         /\ Len(SubSeq(s, 1, n)) = n
         /\ \A i \in 1 .. n : SubSeq(s, 1, n)[i] = s[i]
<1>1. Len(s) \in Nat /\ n \in Nat /\ n <= Len(s)
  BY LenProperties
<1>2. \A i \in 1 .. n : SubSeq(s, 1, n)[i] = s[i]
  <2> TAKE i \in 1 .. n
  <2> QED
    BY <1>1, SubSeqProperties
<1> QED
  BY <1>2, CutInTwo

LEMMA SizeOfWellFormed ==
  ASSUME NEW s \in Seq(Byte), NEW d \in 1 .. Len(s), NEW w \in d .. Len(s), InGrammar(s, d, w)
  PROVE  /\ SizeText(s) = SubSeq(s, 1, w)
         /\ TrimTrailingOws(SizeText(s)) = SubSeq(s, 1, d)
<1>1. Len(s) \in Nat /\ d \in Nat /\ w \in Nat /\ 1 <= d /\ d <= w /\ w <= Len(s)
  BY LenProperties
<1>2. /\ \A i \in 1 .. d : s[i] \in DOMAIN HexValue
      /\ \A i \in d + 1 .. w : s[i] \in Ows
      /\ w = Len(s) \/ s[w + 1] = ";"
  BY DEF InGrammar, Digits
<1>3. ASSUME NEW i \in 1 .. w PROVE s[i] # ";"
  <2>1. i \in 1 .. d \/ i \in d + 1 .. w
    BY <1>1
  <2> QED
    BY <1>2, <2>1, NotDigits, Zenon
<1>4. PICK t \in 0 .. Len(s) : /\ SizeText(s) = SubSeq(s, 1, t)
                               /\ t = Len(s) \/ s[t + 1] = ";"
                               /\ \A j \in 1 .. t : s[j] # ";"
  BY SizeTextCuts
<1>5. t = w
  <2>1. ~(t < w)
    <3> SUFFICES ASSUME t < w PROVE FALSE
      OBVIOUS
    <3>1. t + 1 \in 1 .. w /\ t # Len(s)
      BY <1>1
    <3> QED
      BY <1>3, <1>4, <3>1, Zenon
  <2>2. ~(w < t)
    <3> SUFFICES ASSUME w < t PROVE FALSE
      OBVIOUS
    <3>1. w + 1 \in 1 .. t /\ w # Len(s)
      BY <1>1
    <3> QED
      BY <1>2, <1>4, <3>1, Zenon
  <2> QED
    BY <1>1, <2>1, <2>2
<1> DEFINE u == SubSeq(s, 1, w)
<1>6. u \in Seq(Byte) /\ Len(u) = w /\ \A i \in 1 .. w : u[i] = s[i]
  <2>1. w \in 0 .. Len(s)
    BY <1>1
  <2> QED
    BY <2>1, FirstOf
<1> HIDE DEF u
<1>7. PICK k \in 0 .. Len(u) : /\ TrimTrailingOws(u) = SubSeq(u, 1, k)
                               /\ k = 0 \/ u[k] \notin Ows
                               /\ \A i \in k + 1 .. Len(u) : u[i] \in Ows
  BY <1>6, TrimCuts
<1>8. k \in 0 .. w
  BY <1>6, <1>7
<1>9. k = d
  <2>1. ~(k < d)
    <3> SUFFICES ASSUME k < d PROVE FALSE
      OBVIOUS
    <3>1. d \in k + 1 .. Len(u) /\ d \in 1 .. w /\ d \in 1 .. d
      BY <1>1, <1>6, <1>8
    <3>2. u[d] \in Ows /\ u[d] = s[d] /\ s[d] \in DOMAIN HexValue
      BY <1>2, <1>6, <1>7, <3>1, Zenon
    <3> QED
      BY <3>2, NotDigits, Zenon
  <2>2. ~(d < k)
    <3> SUFFICES ASSUME d < k PROVE FALSE
      OBVIOUS
    <3>1. k \in d + 1 .. w /\ k \in 1 .. w /\ k # 0
      BY <1>1, <1>8
    <3> QED
      BY <1>2, <1>6, <1>7, <3>1, Zenon
  <2> QED
    BY <1>1, <1>8, <2>1, <2>2
<1>10. SubSeq(u, 1, d) = SubSeq(s, 1, d)
  <2>1. d \in 0 .. Len(s) /\ d \in 0 .. Len(u)
    BY <1>1, <1>6
  <2>2. \A i \in 1 .. d : i \in 1 .. w
    BY <1>1
  <2> DEFINE a == SubSeq(u, 1, d)
             b == SubSeq(s, 1, d)
  <2>3. /\ a \in Seq(Byte) /\ Len(a) = d /\ \A i \in 1 .. d : a[i] = u[i]
        /\ b \in Seq(Byte) /\ Len(b) = d /\ \A i \in 1 .. d : b[i] = s[i]
    BY <1>6, <2>1, FirstOf
  <2> HIDE DEF a, b
  <2>4. \A i \in 1 .. d : a[i] = b[i]
    BY <1>6, <2>2, <2>3, Zenon
  <2>5. a = b
    BY <2>3, <2>4, SeqEqual
  <2> QED
    BY <2>5 DEF a, b
<1> QED
  BY <1>4, <1>5, <1>7, <1>9, <1>10, Zenon DEF u

LEMMA ParseOfWellFormed ==
  ASSUME NEW s \in Seq(Byte), WellFormed(s)
  PROVE  ParseChunkSizeLine(s) = RefSize(s)
<1> DEFINE d == CHOOSE n \in 1 .. Len(s) : Sized(s, n)
<1>1. d \in 1 .. Len(s) /\ Sized(s, d)
  BY DEF WellFormed
<1>2. RefSize(s) = LET size == DigitSum(s, d)
                   IN  IF size > SizeMax THEN NoValue ELSE size
  BY DEF RefSize
<1> HIDE DEF d
<1>3. PICK w \in d .. Len(s) : InGrammar(s, d, w)
  BY <1>1 DEF Sized
<1>4. Len(s) \in Nat /\ d \in Nat /\ d \in 0 .. Len(s) /\ w \in 0 .. Len(s) /\ w \in 1 .. Len(s)
  BY <1>1, LenProperties
<1>5. SizeText(s) = SubSeq(s, 1, w) /\ TrimTrailingOws(SizeText(s)) = SubSeq(s, 1, d)
  BY <1>1, <1>3, SizeOfWellFormed
<1> DEFINE u == SubSeq(s, 1, d)
<1>6. u \in Seq(Byte) /\ Len(u) = d /\ \A i \in 1 .. d : u[i] = s[i]
  BY <1>4, FirstOf
<1>7. SizeText(s) # << >>
  <2>1. Len(SubSeq(s, 1, w)) = w
    BY <1>4, FirstOf
  <2>2. w # 0 /\ Len(<< >>) = 0
    BY <1>4
  <2> QED
    BY <1>5, <2>1, <2>2, Zenon
<1> HIDE DEF u
<1>8. ~\E i \in 1 .. Len(s) : s[i] \in {"CR", "LF"}
  BY <1>3 DEF InGrammar
<1>9. ParseChunkSizeLine(s) = DigitLoop(u)
  BY <1>5, <1>7, <1>8, Zenon DEF ParseChunkSizeLine, u
<1>10. Digits(s, d)
  BY <1>3 DEF InGrammar
<1>11. DigitLoop(u) = LET size == DigitSum(s, d)
                      IN  IF size > SizeMax THEN NoValue ELSE size
  BY <1>6, <1>10, DigitLoopSums
<1> QED
  BY <1>2, <1>9, <1>11

LEMMA LoopStops ==
  ASSUME NEW text \in Seq(Byte), NEW j \in 1 .. Len(text), text[j] \notin DOMAIN HexValue
  PROVE  DigitLoop(text) = NoValue
<1> DEFINE d == Len(text)
           f == CHOOSE g : IsDigitLoop(g, text, d)
<1>1. d \in Nat
  BY LenProperties
<1>2. IsDigitLoop(f, text, d)
  BY <1>1, DigitLoopExists
<1>3. DigitLoop(text) = f[d]
  BY DEF DigitLoop, IsDigitLoop
<1> HIDE DEF f
<1>4. \A i \in 1 .. d : f[i] = AddDigit(f[i - 1], text[i])
  BY <1>2 DEF IsDigitLoop
<1> DEFINE P == {i \in Nat : j <= i /\ i <= d => f[i] = NoValue}
<1>5. 0 \in P
  OBVIOUS
<1>6. ASSUME NEW i \in Nat, i \in P PROVE i + 1 \in P
  <2> SUFFICES ASSUME j <= i + 1, i + 1 <= d PROVE f[i + 1] = NoValue
    OBVIOUS
  <2>1. i + 1 \in 1 .. d /\ (i + 1) - 1 = i
    BY <1>1
  <2>2. f[i + 1] = AddDigit(f[i], text[i + 1])
    BY <1>4, <2>1, Zenon
  <2>3. CASE j = i + 1
    BY <2>2, <2>3 DEF AddDigit
  <2>4. CASE j # i + 1
    <3>1. f[i] = NoValue
      BY <1>1, <1>6, <2>4
    <3> QED
      BY <2>2, <3>1 DEF AddDigit
  <2> QED
    BY <2>3, <2>4
<1>7. Nat \subseteq P
  <2> HIDE DEF P
  <2> QED
    BY <1>5, <1>6, NatInductionOnSet
<1>8. f[d] = NoValue
  BY <1>1, <1>7
<1> QED
  BY <1>3, <1>8

LEMMA ParseOfMalformed ==
  ASSUME NEW s \in Seq(Byte), ~WellFormed(s), ~OnlyBlanks(SizeText(s))
  PROVE  ParseChunkSizeLine(s) = NoValue
<1>1. CASE \E i \in 1 .. Len(s) : s[i] \in {"CR", "LF"}
  BY <1>1 DEF ParseChunkSizeLine
<1>2. CASE \A i \in 1 .. Len(s) : s[i] \notin {"CR", "LF"}
  <2>1. PICK w \in 0 .. Len(s) : /\ SizeText(s) = SubSeq(s, 1, w)
                                 /\ w = Len(s) \/ s[w + 1] = ";"
    BY SizeTextCuts
  <2> DEFINE u == SubSeq(s, 1, w)
  <2>2. u \in Seq(Byte) /\ Len(u) = w /\ \A i \in 1 .. w : u[i] = s[i]
    BY FirstOf
  <2> HIDE DEF u
  <2>3. PICK k \in 0 .. Len(u) : /\ TrimTrailingOws(u) = SubSeq(u, 1, k)
                                 /\ \A i \in k + 1 .. Len(u) : u[i] \in Ows
    BY <2>2, TrimCuts
  <2>4. Len(s) \in Nat /\ w \in Nat /\ k \in Nat /\ k <= w /\ w <= Len(s)
    BY <2>2, LenProperties
  <2>5. k # 0
    <3> SUFFICES ASSUME k = 0 PROVE FALSE
      OBVIOUS
    <3>1. \A i \in 1 .. Len(u) : i \in k + 1 .. Len(u)
      OBVIOUS
    <3>2. OnlyBlanks(u)
      BY <2>3, <3>1, Zenon DEF OnlyBlanks
    <3> QED
      BY <2>1, <3>2 DEF u
  <2>6. k \in 1 .. Len(s) /\ w \in k .. Len(s)
    BY <2>4, <2>5
  <2>7. \A i \in k + 1 .. w : s[i] \in Ows
    <3> TAKE i \in k + 1 .. w
    <3>1. i \in k + 1 .. Len(u) /\ i \in 1 .. w
      BY <2>2, <2>4
    <3> QED
      BY <2>2, <2>3, <3>1, Zenon
  <2>8. ~Digits(s, k)
    BY <1>2, <2>1, <2>6, <2>7, Zenon DEF WellFormed, Sized, InGrammar
  <2>9. PICK j \in 1 .. k : s[j] \notin DOMAIN HexValue
    BY <2>8 DEF Digits
  <2> DEFINE v == SubSeq(u, 1, k)
  <2>10. v \in Seq(Byte) /\ Len(v) = k /\ \A i \in 1 .. k : v[i] = u[i]
    BY <2>2, <2>3, FirstOf
  <2> HIDE DEF v
  <2>11. j \in 1 .. Len(v) /\ j \in 1 .. w
    BY <2>4, <2>10
  <2>12. v[j] \notin DOMAIN HexValue
    BY <2>2, <2>9, <2>10, <2>11, Zenon
  <2>13. DigitLoop(v) = NoValue
    BY <2>10, <2>11, <2>12, LoopStops, Zenon
  <2> QED
    BY <2>1, <2>3, <2>13, Zenon DEF ParseChunkSizeLine, u, v
<1> QED
  BY <1>1, <1>2

-----------------------------------------------------------------------------
\* What has arrived of a line is a sequence of bytes.
LEMMA LineIsBytes == LineSpec => [](size_line \in Seq(Byte))
<1>1. LineInit => size_line \in Seq(Byte)
  BY DEF LineInit
<1>2. size_line \in Seq(Byte) /\ [LineGrows]_size_line => (size_line \in Seq(Byte))'
  <2> SUFFICES ASSUME size_line \in Seq(Byte), LineGrows PROVE size_line' \in Seq(Byte)
    OBVIOUS
  <2> QED
    BY AlphabetAssumption, AppendProperties DEF LineGrows
<1> QED
  BY <1>1, <1>2, PTL DEF LineSpec

(***************************************************************************)
(* ParseChunkSizeLine gives every well-formed line the value of its        *)
(* digits, refuses it exactly when that value does not fit a size_t, and   *)
(* refuses any other line with something but blanks before its extension:  *)
(* lines of every length over every alphabet, size_t of every width.       *)
(***************************************************************************)
THEOREM ParsesTheGrammar == LineSpec => []ParseAgreesWithGrammar
<1>1. size_line \in Seq(Byte) => ParseAgreesWithGrammar
  BY ParseOfWellFormed, ParseOfMalformed DEF ParseAgreesWithGrammar
<1> QED
  BY <1>1, LineIsBytes, PTL

\* A line end found by one more byte ends with that byte.
LEMMA FoundOnArrival ==
  ASSUME NEW s \in Seq(Byte), NEW b \in Byte, FindCrlf(s) = NoValue,
         FindCrlf(Append(s, b)) # NoValue
  PROVE  FindCrlf(Append(s, b)) = Len(Append(s, b)) - 2
<1> DEFINE t == Append(s, b)
           e == FindCrlf(t)
<1>1. /\ t \in Seq(Byte) /\ Len(t) = Len(s) + 1 /\ Len(s) \in Nat
      /\ \A i \in 1 .. Len(s) : t[i] = s[i]
  BY AppendProperties, LenProperties
<1> HIDE DEF t
<1>2. e \in Nat /\ CrlfAt(t, e)
  BY <1>1, FindCrlfFirst DEF t
<1>3. e + 2 <= Len(t)
  BY <1>2 DEF CrlfAt
<1> HIDE DEF e
<1>4. ~(e + 2 <= Len(s))
  <2> SUFFICES ASSUME e + 2 <= Len(s) PROVE FALSE
    OBVIOUS
  <2>1. e + 1 \in 1 .. Len(s) /\ e + 2 \in 1 .. Len(s) /\ e \in 0 .. Len(s)
    BY <1>1, <1>2
  <2>2. CrlfAt(s, e)
    BY <1>1, <1>2, <2>1, Zenon DEF CrlfAt
  <2> DEFINE T == {p \in Nat : CrlfAt(s, p)}
  <2>3. T \subseteq Nat /\ T # {}
    BY <1>2, <2>2
  <2>4. PICK p \in T : \A q \in T : p <= q
    BY <2>3, LeastNatural
  <2>5. p \in Nat /\ CrlfAt(s, p)
    BY <2>4
  <2>6. \A q \in 0 .. p - 1 : ~CrlfAt(s, q)
    BY <2>4, <2>5
  <2>7. FindCrlf(s) = p
    BY <2>5, <2>6, FindCrlfOnly
  <2> QED
    BY <2>5, <2>7 DEF NoValue
<1>5. e = Len(t) - 2
  BY <1>1, <1>2, <1>3, <1>4
<1> QED
  BY <1>5 DEF t, e

\* A line end that was found stays where it is.
LEMMA FoundStays ==
  ASSUME NEW s \in Seq(Byte), NEW b \in Byte, FindCrlf(s) # NoValue
  PROVE  FindCrlf(Append(s, b)) = FindCrlf(s)
<1>1. <<b>> \in Seq(Byte) /\ Append(s, b) = s \o <<b>>
  BY AppendIsConcat
<1> QED
  BY <1>1, LineStays

(***************************************************************************)
(* FindCrlf keeps the line end it found when more bytes arrive, and finds  *)
(* one as soon as its LF is there.                                         *)
(***************************************************************************)
THEOREM LineEndsStay == LineSpec => FindCrlfStable
<1>1. size_line \in Seq(Byte) /\ [LineGrows]_size_line =>
        [/\ FindCrlf(size_line) # NoValue => FindCrlf(size_line') = FindCrlf(size_line)
         /\ FindCrlf(size_line) = NoValue /\ FindCrlf(size_line') # NoValue
              => FindCrlf(size_line') = Len(size_line') - 2]_size_line
  <2> SUFFICES ASSUME size_line \in Seq(Byte), LineGrows
               PROVE  /\ FindCrlf(size_line) # NoValue
                           => FindCrlf(size_line') = FindCrlf(size_line)
                      /\ FindCrlf(size_line) = NoValue /\ FindCrlf(size_line') # NoValue
                           => FindCrlf(size_line') = Len(size_line') - 2
    OBVIOUS
  <2>1. PICK b \in Byte : size_line' = Append(size_line, b)
    BY AlphabetAssumption DEF LineGrows
  <2> QED
    BY <2>1, FoundOnArrival, FoundStays
<1> QED
  BY <1>1, LineIsBytes, PTL DEF LineSpec, FindCrlfStable

=============================================================================
