--------------------------- MODULE MCBodyForward ---------------------------
(***************************************************************************)
(* Bodies of every framing, whole and cut short at every byte, with bytes  *)
(* of a next message behind them, for a size_t of eight bits.              *)
(***************************************************************************)
EXTENDS BodyForward

\* The prefixes of s, the empty one included.
CutShort(s) == {SubSeq(s, 1, n) : n \in 0 .. Len(s)}

PlainBytes == <<"a", "b", "c", "d">>

PlainInputs ==
  [framing : {"ContentLength"}, content_length : 0 .. 3,
   bytes : CutShort(PlainBytes), ending : Endings]
  \cup [framing : {"None", "CloseDelimited", "Tunnel"}, content_length : {0},
        bytes : CutShort(PlainBytes), ending : Endings]

ChunkedStreams == {
  \* one chunk, the last chunk, no trailer, then the next message
  <<"1", "CR", "LF", "x", "CR", "LF", "0", "CR", "LF", "CR", "LF", "y">>,
  \* a chunk extension; data that looks like a line end
  <<"2", ";", "x", "CR", "LF", "CR", "LF", "CR", "LF", "0", "CR", "LF",
    "CR", "LF">>,
  \* a trailer field, blanks after the size
  <<"0", " ", "CR", "LF", "t", "CR", "LF", "CR", "LF", "CR", "LF">>,
  \* data not followed by CRLF
  <<"1", "CR", "LF", "x", "x", "x", "0", "CR", "LF", "CR", "LF">>,
  \* the largest size the parser takes, the first one it refuses
  <<"F", "f", "CR", "LF", "LF", "0", "CR", "LF", "CR", "LF">>,
  <<"1", "0", "0", "CR", "LF", "CR", "LF">>,
  \* a line that is no size, a lone LF, a CR inside the line
  <<"x", "CR", "LF", "0", "CR", "LF", "CR", "LF">>,
  <<"0", "LF", "CR", "LF", "CR", "LF">>,
  <<"0", "CR", "CR", "LF", "CR", "LF">> }

ChunkedInputs ==
  [framing : {"Chunked"}, content_length : {0},
   bytes : UNION {CutShort(s) : s \in ChunkedStreams}, ending : Endings]

MCInputs == PlainInputs \cup ChunkedInputs

=============================================================================
