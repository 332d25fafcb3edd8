------------------------------ MODULE BodyInfo ------------------------------
(***************************************************************************)
(* DetermineBodyInfo (src/proxypp/http/body_info.cpp): how the end of a    *)
(* request's and of a response's body is recognised.                       *)
(*                                                                         *)
(* A header is a record with the fields the code consults: method of a     *)
(* request, status of a response, chunked, and content_length, which is    *)
(* NoLength when the header has none.                                      *)
(***************************************************************************)
EXTENDS Integers

NoLength == -1

RequestBodyInfo(request) ==
  IF request.chunked THEN "Chunked"
  ELSE IF request.content_length # NoLength THEN "ContentLength"
  ELSE "None"

HeadIgnored(request, response) ==   \* mutant: HEAD responses taken as GET's
  IF response.status \in 100 .. 199 \cup {204, 304} THEN "None"
  ELSE IF request.method = "CONNECT" /\ response.status \in 200 .. 299
    THEN "Tunnel"
  ELSE IF response.chunked THEN "Chunked"
  ELSE IF response.content_length # NoLength THEN "ContentLength"
  ELSE "CloseDelimited"

ChunkedUnseen(request, response) ==   \* mutant: Transfer-Encoding not looked at
  IF request.method = "HEAD" \/ response.status \in 100 .. 199 \cup {204, 304}
    THEN "None"
  ELSE IF response.content_length # NoLength THEN "ContentLength" ELSE "None"

ResponseBodyInfo(request, response) ==
  IF request.method = "HEAD" THEN "None"
  ELSE IF response.status \in 100 .. 199 THEN "None"
  ELSE IF response.status \in {204, 304} THEN "None"
  ELSE IF request.method = "CONNECT" /\ response.status \in 200 .. 299
    THEN "Tunnel"
  ELSE IF response.chunked THEN "Chunked"
  ELSE IF response.content_length # NoLength THEN "ContentLength"
  ELSE "CloseDelimited"

=============================================================================
