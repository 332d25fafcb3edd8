-------------------------- MODULE SizeLineGrammar --------------------------
(***************************************************************************)
(* Every line of at most MaxLine bytes over Alphabet, grown one byte at a  *)
(* time the way the read buffer grows, against the grammar of RFC 9112:    *)
(*   chunk-size = 1*HEXDIG, then blanks, then an optional extension.       *)
(***************************************************************************)
EXTENDS ChunkSizeLine

CONSTANTS Alphabet, MaxLine

ASSUME AlphabetAssumption == Alphabet \subseteq Byte

VARIABLE size_line

LineInit == size_line = << >>

LineGrows == /\ Len(size_line) < MaxLine
             /\ \E b \in Alphabet : size_line' = Append(size_line, b)

LineSpec == LineInit /\ [][LineGrows]_size_line

Digits(s, n) == \A i \in 1 .. n : s[i] \in DOMAIN HexValue

\* The first d bytes of s are the size, bytes d + 1 .. w the blanks after it.
InGrammar(s, d, w) ==
  /\ Digits(s, d)
  /\ \A i \in d + 1 .. w : s[i] \in Ows
  /\ w = Len(s) \/ s[w + 1] = ";"
  /\ \A i \in 1 .. Len(s) : s[i] \notin {"CR", "LF"}

Sized(s, d) == \E w \in d .. Len(s) : InGrammar(s, d, w)

WellFormed(s) == \E d \in 1 .. Len(s) : Sized(s, d)

\* The first d digits of s, each at its place: the last one counts once.
DigitSum(s, d) ==
  LET place[k \in 0 .. d] == IF k = 0 THEN 1 ELSE 16 * place[k - 1]
      sum[i \in 0 .. d] ==
        IF i = 0 THEN 0 ELSE sum[i - 1] + HexValue[s[i]] * place[d - i]
  IN  sum[d]

RefSize(s) ==
  LET size == DigitSum(s, CHOOSE d \in 1 .. Len(s) : Sized(s, d))
  IN  IF size > SizeMax THEN NoValue ELSE size

OnlyBlanks(s) == \A i \in 1 .. Len(s) : s[i] \in Ows

(***************************************************************************)
(* ParseChunkSizeLine computes the value of every well-formed line that    *)
(* fits a size_t, rejects exactly the ones that do not fit, and rejects a  *)
(* malformed line unless its size text is made of blanks only (see         *)
(* NoMalformedSize).                                                       *)
(***************************************************************************)
ParseAgreesWithGrammar ==
  /\ WellFormed(size_line) => ParseChunkSizeLine(size_line) = RefSize(size_line)
  /\ ~WellFormed(size_line) /\ ~OnlyBlanks(SizeText(size_line))
       => ParseChunkSizeLine(size_line) = NoValue

(***************************************************************************)
(* A line end that FindCrlf reports stays the same however the rest of the *)
(* stream is cut into reads, and none is reported while the LF of the CRLF *)
(* is still missing.                                                       *)
(***************************************************************************)
FindCrlfStable ==
  [][/\ FindCrlf(size_line) # NoValue => FindCrlf(size_line') = FindCrlf(size_line)
     /\ FindCrlf(size_line) = NoValue /\ FindCrlf(size_line') # NoValue
          => FindCrlf(size_line') = Len(size_line') - 2]_size_line

(***************************************************************************)
(* What http_message_utils.h promises: a malformed line gives nullopt.     *)
(***************************************************************************)
NoMalformedSize == ~WellFormed(size_line) => ParseChunkSizeLine(size_line) = NoValue

=============================================================================
