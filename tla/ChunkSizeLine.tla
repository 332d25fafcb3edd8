--------------------------- MODULE ChunkSizeLine ---------------------------
(***************************************************************************)
(* The pure helpers of src/proxypp/http/http_message_utils.cpp that        *)
(* ForwardChunked relies on: finding a CRLF in the read buffer and parsing *)
(* the size line of a chunk.                                               *)
(*                                                                         *)
(* A byte is a one-character string; "CR", "LF" and "TAB" stand for the    *)
(* control characters and any other value for an ordinary byte.  A         *)
(* std::size_t ranges over 0..SizeMax, so that the overflow guards of the  *)
(* code can be met by short lines.                                         *)
(***************************************************************************)
EXTENDS Bytes

CONSTANT SizeMax    \* std::numeric_limits<std::size_t>::max()

ASSUME SizeMaxAssumption == SizeMax \in Nat /\ SizeMax >= 15

\* std::nullopt, outside the range of a position and of a size.
NoValue == -1

CRLF == <<"CR", "LF">>

(***************************************************************************)
(* The value of a hexadecimal digit, of either case.                       *)
(***************************************************************************)
HexValue ==
  [c \in {"0", "1", "2", "3", "4", "5", "6", "7", "8", "9",
          "a", "b", "c", "d", "e", "f", "A", "B", "C", "D", "E", "F"} |->
     CASE c = "0" -> 0 [] c = "1" -> 1 [] c = "2" -> 2 [] c = "3" -> 3
       [] c = "4" -> 4 [] c = "5" -> 5 [] c = "6" -> 6 [] c = "7" -> 7
       [] c = "8" -> 8 [] c = "9" -> 9
       [] c \in {"a", "A"} -> 10 [] c \in {"b", "B"} -> 11
       [] c \in {"c", "C"} -> 12 [] c \in {"d", "D"} -> 13
       [] c \in {"e", "E"} -> 14 [] c \in {"f", "F"} -> 15]

Ows == {" ", "TAB"}

(***************************************************************************)
(* Position p is followed by a CRLF: p bytes of s come before it.          *)
(***************************************************************************)
CrlfAt(s, p) == /\ p + 2 <= Len(s)
                /\ s[p + 1] = "CR"
                /\ s[p + 2] = "LF"

(***************************************************************************)
(* FindCrlf: how many bytes precede the first CRLF of the buffer.  A CR    *)
(* that is the last byte read so far is not found yet.                     *)
(***************************************************************************)
FindLoneCr(s) ==   \* mutant: a CR is enough
  IF \E p \in 0 .. Len(s) - 1 : s[p + 1] = "CR"
    THEN CHOOSE p \in 0 .. Len(s) - 1 :
           s[p + 1] = "CR" /\ \A q \in 0 .. p - 1 : s[q + 1] # "CR"
    ELSE NoValue

FindCrlf(s) ==
  IF \E p \in 0 .. Len(s) : CrlfAt(s, p)
    THEN CHOOSE p \in 0 .. Len(s) :
           CrlfAt(s, p) /\ \A q \in 0 .. p - 1 : ~CrlfAt(s, q)
    ELSE NoValue

(***************************************************************************)
(* TrimTrailingOws: drop blanks from the end of the text.                  *)
(***************************************************************************)
TrimTrailingOws(text) ==
  LET kept == CHOOSE n \in 0 .. Len(text) :
                /\ n = 0 \/ text[n] \notin Ows
                /\ \A i \in n + 1 .. Len(text) : text[i] \in Ows
  IN  SubSeq(text, 1, kept)

(***************************************************************************)
(* One iteration of the digit loop: NoValue is the early return for a      *)
(* character that is no digit and for a size that would not fit.           *)
(***************************************************************************)
AddDigitWrapping(size, ch) ==   \* mutant: no overflow guard
  IF size = NoValue \/ ch \notin DOMAIN HexValue THEN NoValue
  ELSE (size * 16 + HexValue[ch]) % (SizeMax + 1)

AddDigit(size, ch) ==
  IF size = NoValue \/ ch \notin DOMAIN HexValue THEN NoValue
  ELSE IF size > (SizeMax - HexValue[ch]) \div 16 THEN NoValue
  ELSE size * 16 + HexValue[ch]

DigitLoop(text) ==
  LET size[i \in 0 .. Len(text)] ==
        IF i = 0 THEN 0 ELSE AddDigit(size[i - 1], text[i])
  IN  size[Len(text)]

\* The text before the first semicolon.
SizeText(line) ==
  IF \E i \in 1 .. Len(line) : line[i] = ";"
    THEN SubSeq(line, 1, (CHOOSE i \in 1 .. Len(line) :
           line[i] = ";" /\ \A j \in 1 .. i - 1 : line[j] # ";") - 1)
    ELSE line

(***************************************************************************)
(* ParseChunkSizeLine, on a line without its CRLF.                         *)
(***************************************************************************)
ParseChunkSizeLine(line) ==
  IF \E i \in 1 .. Len(line) : line[i] \in {"CR", "LF"} THEN NoValue
  ELSE IF SizeText(line) = << >> THEN NoValue
  ELSE DigitLoop(TrimTrailingOws(SizeText(line)))

=============================================================================
