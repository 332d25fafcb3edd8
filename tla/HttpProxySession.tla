-------------------------- MODULE HttpProxySession --------------------------
(***************************************************************************)
(* One client connection of the proxy: HttpProxySession::Run and the       *)
(* exchanges it handles one after another, with the client on one side and *)
(* the remote servers on the other.                                        *)
(*                                                                         *)
(* The wire carries units: a whole header, one piece of a body, or the     *)
(* last chunk.  A read takes any number of the units that have arrived, so *)
(* a read buffer can hold the rest of a body, or the next message, behind  *)
(* the header that was asked for.  Below the unit, BodyForward shows that  *)
(* forwarding a body is exact.                                             *)
(*                                                                         *)
(* A step is what the session does between two co_awaits.  The client and  *)
(* the servers take steps of their own at any time; they are outside the   *)
(* repository and modelled from what the session expects of HTTP.  Rules   *)
(* applied to a header leave its place in the exchange alone, or throw     *)
(* (RuleEngine).                                                           *)
(***************************************************************************)
EXTENDS BodyInfo, SequencesExt, Subsequences

CONSTANTS
  Hosts,              \* host and port of the servers
  Cases,              \* a client's script and the servers it meets
  RequestBodyLimit,   \* the body limits of Beast's parsers, in pieces
  ResponseBodyLimit

NoHost == "no host"

ASSUME HostsAssumption == NoHost \notin Hosts

ASSUME LimitsAssumption == RequestBodyLimit \in Nat /\ ResponseBodyLimit \in Nat

(***************************************************************************)
(* script is the sequence of requests a client may send.  In a request,    *)
(* host is its destination, well_formed whether the parser takes its       *)
(* header and ParseRemoteInfo its target, keep_alive what the parser says  *)
(* of the connection, pieces the number of body pieces on the wire (of a   *)
(* CONNECT: what the client sends into the tunnel), expect whether the     *)
(* client holds its body back until it has reason to send it.              *)
(*                                                                         *)
(* responses are the final responses the servers may give, behaviours what *)
(* they do beyond answering: see the server's actions.                     *)
(***************************************************************************)
RequestMessages ==
  [host : Hosts, method : {"GET", "HEAD", "CONNECT"}, chunked : BOOLEAN,
   content_length : Nat \cup {NoLength}, pieces : Nat, expect : BOOLEAN,
   well_formed : BOOLEAN, keep_alive : BOOLEAN]

ResponseMessages ==
  [status : 200 .. 599, chunked : BOOLEAN, content_length : Nat \cup {NoLength},
   pieces : Nat, keep_alive : BOOLEAN]

ASSUME ScriptsAssumption ==
  \A c \in Cases :
    /\ c.script \in Seq(RequestMessages)
    /\ \A i \in DOMAIN c.script : c.script[i].method = "CONNECT" => i = Len(c.script)

ASSUME ServersAssumption ==
  \A c \in Cases :
    /\ c.behaviours \subseteq {"close", "interim", "notice"}
    /\ c.responses \subseteq ResponseMessages

VARIABLES
  script,         \* the requests of this client
  servers,        \* the responses and behaviours of the servers it meets
  sent,           \* how many of the requests the client has sent
  withheld,       \* the body of the last of them, when it is held back
  client_eof,     \* the client closed its side
  client_wire,    \* units from the client, not read yet
  client_got,     \* units the client was sent
  conn,           \* the current connection as its server sees it
  served,         \* history: per request unit a server got, host and request
  pc,             \* where Run is
  request,        \* index of the request of this exchange
  response,       \* the header of this exchange's response
  remaining,      \* what ForwardExactly still has to forward
  client_read_buffer_,
  remote_read_buffer_,
  remote_state_,  \* host and connected
  client_open,    \* is_open() of the two sockets
  remote_open,
  closed_

environment == <<script, servers, sent, withheld, client_eof>>
buffers == <<client_read_buffer_, remote_read_buffer_>>
sockets == <<remote_state_, client_open, remote_open, closed_>>
exchange == <<request, response, remaining>>
vars == <<environment, client_wire, client_got, conn, served, pc, exchange,
          buffers, sockets>>

NoResponse == [status |-> 0]
NoConnection == [host |-> NoHost, up |-> FALSE, wire |-> << >>,
                 asked |-> << >>, interim |-> FALSE]

Unit(kind, i, h, message) ==
  [kind |-> kind, id |-> i, host |-> h, message |-> message]

\* The units of a message body as its sender puts them on the wire.
BodyUnits(i, h, message) ==
  LET n == IF ~message.chunked /\ message.content_length # NoLength
             THEN message.content_length ELSE message.pieces
  IN  [k \in 1 .. n |-> Unit("piece", i, h, NoResponse)]
        \o (IF message.chunked THEN <<Unit("last", i, h, NoResponse)>>
            ELSE << >>)

Init ==
  /\ \E c \in Cases :
       /\ script = c.script
       /\ servers = [responses |-> c.responses, behaviours |-> c.behaviours]
  /\ sent = 0 /\ withheld = << >> /\ client_eof = FALSE
  /\ client_wire = << >> /\ client_got = << >>
  /\ conn = NoConnection /\ served = << >>
  /\ pc = "read_request" /\ request = 0 /\ response = NoResponse
  /\ remaining = 0
  /\ client_read_buffer_ = << >> /\ remote_read_buffer_ = << >>
  /\ remote_state_ = [host |-> NoHost, connected |-> FALSE]
  /\ client_open = TRUE /\ remote_open = FALSE /\ closed_ = FALSE

-----------------------------------------------------------------------------
(***************************************************************************)
(* The client: sends its requests whenever it likes, several at once if it *)
(* likes, and may leave at any time, in the middle of a request too.  One  *)
(* that sends Expect: 100-continue holds the body back; nothing makes it   *)
(* send the body in the end.                                               *)
(***************************************************************************)
ClientSends ==
  /\ sent < Len(script) /\ withheld = << >> /\ ~client_eof /\ client_open
  /\ sent' = sent + 1
  /\ LET r == script[sent + 1]
         head == <<Unit("req", sent + 1, r.host, NoResponse)>>
         body == BodyUnits(sent + 1, r.host, r)
     IN  IF r.expect
           THEN client_wire' = client_wire \o head /\ withheld' = body
           ELSE client_wire' = client_wire \o head \o body /\ UNCHANGED withheld
  /\ UNCHANGED <<script, servers, client_eof, client_got, conn, served, pc,
                 exchange, buffers, sockets>>

ClientSendsBody ==
  /\ withheld # << >> /\ ~client_eof /\ client_open
  /\ client_wire' = client_wire \o withheld
  /\ withheld' = << >>
  /\ UNCHANGED <<script, servers, sent, client_eof, client_got, conn, served, pc,
                 exchange, buffers, sockets>>

ClientCloses ==
  /\ ~client_eof /\ client_eof' = TRUE
  /\ \E n \in 0 .. Len(client_wire) : client_wire' = SubSeq(client_wire, 1, n)
  /\ UNCHANGED <<script, servers, sent, withheld, client_got, conn, served, pc,
                 exchange, buffers, sockets>>

(***************************************************************************)
(* The server of the current connection: answers its requests in order,    *)
(* possibly before it has the whole body, and closes when it said so.      *)
(***************************************************************************)
\* What HTTP sends after a response header.
ServerBody(i, h, r) ==
  IF script[i].method = "HEAD" \/ r.status \in 100 .. 199 \cup {204, 304}
    THEN << >> ELSE BodyUnits(i, h, r)

DelimitedByClose(r) ==
  ~r.chunked /\ r.content_length = NoLength /\ r.status \notin {204, 304}

ServerAnswers ==
  /\ conn.up /\ conn.asked # << >>
  /\ \E r \in servers.responses :
       LET i == Head(conn.asked)
       IN  conn' = [conn EXCEPT
             !.wire = @ \o <<Unit("resp", i, conn.host, r)>>
                        \o ServerBody(i, conn.host, r),
             !.asked = Tail(@),
             !.interim = FALSE,
             !.up = r.keep_alive /\ ~DelimitedByClose(r)]
  /\ UNCHANGED <<environment, client_wire, client_got, served, pc, exchange,
                 buffers, sockets>>

\* An interim response before the final one.
ServerSendsInterim ==
  /\ "interim" \in servers.behaviours
  /\ conn.up /\ conn.asked # << >> /\ ~conn.interim
  /\ conn' = [conn EXCEPT
        !.wire = Append(@, Unit("resp", Head(conn.asked), conn.host,
                   [status |-> 103, chunked |-> FALSE, pieces |-> 0,
                    content_length |-> NoLength, keep_alive |-> TRUE])),
        !.interim = TRUE]
  /\ UNCHANGED <<environment, client_wire, client_got, served, pc, exchange,
                 buffers, sockets>>

\* A notice of an idle server that gives up the connection (status 408).
ServerSendsNotice ==
  /\ "notice" \in servers.behaviours
  /\ conn.up /\ conn.asked = << >> /\ served # << >>
  /\ conn' = [conn EXCEPT
        !.wire = Append(@, Unit("resp", 0, conn.host,
                   [status |-> 408, chunked |-> FALSE, pieces |-> 0,
                    content_length |-> 0, keep_alive |-> FALSE])),
        !.up = FALSE]
  /\ UNCHANGED <<environment, client_wire, client_got, served, pc, exchange,
                 buffers, sockets>>

\* The server goes away, idle or in the middle of a response.
ServerCloses ==
  /\ "close" \in servers.behaviours
  /\ conn.up
  /\ \E n \in 0 .. Len(conn.wire) :
       conn' = [conn EXCEPT !.up = FALSE, !.wire = SubSeq(@, 1, n)]
  /\ UNCHANGED <<environment, client_wire, client_got, served, pc, exchange,
                 buffers, sockets>>

-----------------------------------------------------------------------------
(***************************************************************************)
(* CloseRemote, and Close with the return of Run: every failure of an      *)
(* exchange ends the session at once.                                      *)
(***************************************************************************)
CloseRemoteKeepState ==   \* mutant: ResetRemoteState() forgotten
  /\ remote_open' = FALSE
  /\ conn' = NoConnection
  /\ UNCHANGED remote_state_

CloseRemote ==
  /\ remote_open' = FALSE
  /\ remote_state_' = [host |-> NoHost, connected |-> FALSE]
  /\ conn' = NoConnection

Stop ==
  /\ pc' = "stopped"
  /\ closed_' = TRUE /\ client_open' = FALSE
  /\ CloseRemote

Current == script[request]

(***************************************************************************)
(* ReadClientRequestHeader and ParseRemoteInfo.  The parser is first given *)
(* what the buffer holds.  It refuses a header that announces more than    *)
(* its body limit, which the session leaves at Beast's default.            *)
(***************************************************************************)
WithinLimit(message, limit) ==
  message.content_length = NoLength \/ message.content_length <= limit

Acceptable(r) == r.well_formed /\ WithinLimit(r, RequestBodyLimit)

ReadClientRequestHeader ==
  /\ pc = "read_request"
  /\ \E n \in IF client_read_buffer_ = << >> THEN 1 .. Len(client_wire)
                                             ELSE {0} :
       LET unread == client_read_buffer_ \o SubSeq(client_wire, 1, n)
       IN  /\ client_wire' = SubSeq(client_wire, n + 1, Len(client_wire))
           /\ client_read_buffer_' = Tail(unread)
           /\ request' = Head(unread).id
           /\ IF Head(unread).kind = "req" /\ Acceptable(script[Head(unread).id])
                THEN /\ pc' = "ensure"
                     /\ UNCHANGED <<sockets, conn>>
                ELSE Stop
  /\ UNCHANGED <<environment, client_got, served, response, remaining,
                 remote_read_buffer_>>

ClientGoneRetries ==   \* mutant: EOF is not taken for the end
  /\ pc = "read_request"
  /\ client_read_buffer_ = << >> /\ client_wire = << >> /\ client_eof
  /\ UNCHANGED vars

ClientGone ==
  /\ pc = "read_request"
  /\ client_read_buffer_ = << >> /\ client_wire = << >> /\ client_eof
  /\ Stop
  /\ UNCHANGED <<environment, client_wire, client_got, served, exchange,
                 buffers>>

(***************************************************************************)
(* EnsureRemoteConnected.  Only the local state decides about reuse, and   *)
(* giving a connection up leaves remote_read_buffer_ as it is.             *)
(***************************************************************************)
AfterConnect == IF Current.method = "CONNECT" THEN "write_established"
                ELSE "write_request"

CanReuseAnyHost ==   \* mutant: the host is not compared
  remote_state_.connected /\ remote_open

CanReuse == /\ remote_state_.connected /\ remote_open
            /\ remote_state_.host = Current.host

EnsureRemoteConnected ==
  /\ pc = "ensure"
  /\ IF CanReuse
       THEN pc' = AfterConnect /\ UNCHANGED <<conn, remote_state_, remote_open>>
       ELSE pc' = "resolving" /\ CloseRemote
  /\ UNCHANGED <<environment, client_wire, client_got, served, exchange,
                 buffers, client_open, closed_>>

\* async_connect opens the socket, and leaves it open when it fails.
ResolveRemote ==
  /\ pc = "resolving"
  /\ pc' = "connecting"
  /\ remote_open' = TRUE
  /\ UNCHANGED <<environment, client_wire, client_got, conn, served, exchange,
                 buffers, remote_state_, client_open, closed_>>

ConnectRemote ==
  /\ pc = "connecting"
  /\ conn' = [NoConnection EXCEPT !.host = Current.host, !.up = TRUE]
  /\ remote_state_' = [host |-> Current.host, connected |-> TRUE]
  /\ pc' = AfterConnect
  /\ UNCHANGED <<environment, client_wire, client_got, served, exchange,
                 buffers, client_open, remote_open, closed_>>

\* The name does not resolve, or no endpoint accepts.
ConnectFails ==
  /\ pc \in {"resolving", "connecting"}
  /\ Stop
  /\ UNCHANGED <<environment, client_wire, client_got, served, exchange,
                 buffers>>

(***************************************************************************)
(* Writing to the remote.  A write to a connection its server has closed   *)
(* may still succeed locally; then nobody gets the unit.                   *)
(***************************************************************************)
ToServer(u) ==
  /\ served' = IF conn.up THEN Append(served, [unit |-> u, at |-> conn.host])
               ELSE served
  /\ conn' = IF conn.up /\ u.kind = "req"
               THEN [conn EXCEPT !.asked = Append(@, u.id)] ELSE conn

WriteRemoteRequestHeader ==
  /\ pc = "write_request"
  /\ ToServer(Unit("req", request, Current.host, NoResponse))
  /\ remaining' = IF RequestBodyInfo(Current) = "ContentLength"
                    THEN Current.content_length ELSE 0
  /\ pc' = "request_body"
  /\ UNCHANGED <<environment, client_wire, client_got, request, response,
                 buffers, sockets>>

(***************************************************************************)
(* ForwardRequestBody, a unit at a time.  ForwardExactly counts and does   *)
(* not look at what it forwards; ForwardChunked stops at the last chunk    *)
(* and fails on what is no chunk.                                          *)
(***************************************************************************)
BodyExpectedAlways(framing) ==   \* mutant: bytes_sent <= content_length
  framing # "None"

BodyExpected(framing) ==
  \/ framing \in {"Chunked", "CloseDelimited"}
  \/ framing = "ContentLength" /\ remaining > 0

RequestBodyDone ==
  /\ pc = "request_body"
  /\ \/ RequestBodyInfo(Current) = "None"
     \/ RequestBodyInfo(Current) = "ContentLength" /\ remaining = 0
  /\ pc' = "read_response"
  /\ UNCHANGED <<environment, client_wire, client_got, conn, served, exchange,
                 buffers, sockets>>

ForwardRequestBody ==
  /\ pc = "request_body"
  /\ LET framing == RequestBodyInfo(Current)
     IN  /\ BodyExpected(framing)
         /\ \E n \in IF client_read_buffer_ = << >> THEN 1 .. Len(client_wire)
                                                    ELSE {0} :
              LET unread == client_read_buffer_ \o SubSeq(client_wire, 1, n)
                  u == Head(unread)
              IN  /\ client_wire' = SubSeq(client_wire, n + 1, Len(client_wire))
                  /\ IF framing = "Chunked" /\ u.kind = "req"
                       THEN /\ client_read_buffer_' = unread
                            /\ Stop /\ UNCHANGED <<remaining, served>>
                       ELSE /\ client_read_buffer_' = Tail(unread)
                            /\ ToServer(u)
                            /\ remaining' = IF framing = "Chunked" THEN 0
                                            ELSE remaining - 1
                            /\ pc' = IF framing = "Chunked" /\ u.kind = "last"
                                       THEN "read_response" ELSE pc
                            /\ UNCHANGED sockets
  /\ UNCHANGED <<environment, client_got, request, response,
                 remote_read_buffer_>>

(***************************************************************************)
(* The sender is gone in the middle of a body.  A read that fails, with    *)
(* any error but EOF, fails the exchange, and so does EOF where a chunk's  *)
(* size line is due.  Inside a chunk, and everywhere in a counted body,    *)
(* the loop reads the EOF again and again, and is never left               *)
(* (BodyForward).                                                          *)
(***************************************************************************)
EofInBody(framing) ==
  \/ Stop
  \/ framing \in {"Chunked", "ContentLength"} /\ pc' = "spinning"
     /\ UNCHANGED <<conn, sockets>>

RequestBodyEof ==
  /\ pc = "request_body" /\ BodyExpected(RequestBodyInfo(Current))
  /\ client_read_buffer_ = << >> /\ client_wire = << >> /\ client_eof
  /\ EofInBody(RequestBodyInfo(Current))
  /\ UNCHANGED <<environment, client_wire, client_got, served, exchange,
                 buffers>>

-----------------------------------------------------------------------------
(***************************************************************************)
(* ReadRemoteResponseHeader.  The parser is not told of a HEAD request,    *)
(* so its body limit applies to the answer too.                            *)
(***************************************************************************)
ResponseAcceptable(r) ==
  r.status \in 100 .. 199 \cup {204, 304} \/ WithinLimit(r, ResponseBodyLimit)

ReadRemoteResponseHeader ==
  /\ pc = "read_response"
  /\ \E n \in IF remote_read_buffer_ = << >> THEN 1 .. Len(conn.wire) ELSE {0} :
       LET unread == remote_read_buffer_ \o SubSeq(conn.wire, 1, n)
       IN  /\ remote_read_buffer_' = Tail(unread)
           /\ IF /\ Head(unread).kind = "resp"
                 /\ ResponseAcceptable(Head(unread).message)
                THEN /\ response' = Head(unread)
                     /\ conn' = [conn EXCEPT
                                   !.wire = SubSeq(@, n + 1, Len(@))]
                     /\ pc' = "write_response"
                     /\ UNCHANGED sockets
                ELSE Stop /\ UNCHANGED response
  /\ UNCHANGED <<environment, client_wire, client_got, served, request,
                 remaining, client_read_buffer_>>

RemoteGone ==
  /\ pc = "read_response"
  /\ remote_read_buffer_ = << >> /\ conn.wire = << >> /\ ~conn.up
  /\ Stop
  /\ UNCHANGED <<environment, client_wire, client_got, served, exchange,
                 buffers>>

WriteRemoteResponseHeaderToClient ==
  /\ pc = "write_response"
  /\ client_got' = Append(client_got, response)
  /\ remaining' = IF ResponseBodyInfo(Current, response.message)
                        = "ContentLength"
                    THEN response.message.content_length ELSE 0
  /\ pc' = "response_body"
  /\ UNCHANGED <<environment, client_wire, conn, served, request, response,
                 buffers, sockets>>

(***************************************************************************)
(* ForwardResponseBody, a unit at a time.                                  *)
(***************************************************************************)
ResponseFraming == ResponseBodyInfo(Current, response.message)

ResponseBodyDone ==
  /\ pc = "response_body"
  /\ \/ ResponseFraming = "None"
     \/ ResponseFraming = "ContentLength" /\ remaining = 0
     \/ /\ ResponseFraming = "CloseDelimited"
        /\ remote_read_buffer_ = << >> /\ conn.wire = << >> /\ ~conn.up
  /\ pc' = "decide"
  /\ UNCHANGED <<environment, client_wire, client_got, conn, served, exchange,
                 buffers, sockets>>

ForwardResponseBody ==
  /\ pc = "response_body" /\ BodyExpected(ResponseFraming)
  /\ \E n \in IF remote_read_buffer_ = << >> THEN 1 .. Len(conn.wire) ELSE {0} :
       LET unread == remote_read_buffer_ \o SubSeq(conn.wire, 1, n)
           u == Head(unread)
       IN  IF ResponseFraming = "Chunked" /\ u.kind = "resp"
             THEN /\ remote_read_buffer_' = unread
                  /\ Stop /\ UNCHANGED <<remaining, client_got>>
             ELSE /\ remote_read_buffer_' = Tail(unread)
                  /\ conn' = [conn EXCEPT !.wire = SubSeq(@, n + 1, Len(@))]
                  /\ client_got' = Append(client_got, u)
                  /\ remaining' = IF ResponseFraming = "ContentLength"
                                    THEN remaining - 1 ELSE 0
                  /\ pc' = IF ResponseFraming = "Chunked" /\ u.kind = "last"
                             THEN "decide" ELSE pc
                  /\ UNCHANGED sockets
  /\ UNCHANGED <<environment, client_wire, served, request, response,
                 client_read_buffer_>>

ResponseBodyEof ==
  /\ pc = "response_body" /\ BodyExpected(ResponseFraming)
  /\ remote_read_buffer_ = << >> /\ conn.wire = << >> /\ ~conn.up
  /\ EofInBody(ResponseFraming)
  /\ UNCHANGED <<environment, client_wire, client_got, served, exchange,
                 buffers>>

(***************************************************************************)
(* An action of the rules throws before the header is written.  Nothing    *)
(* catches it: the coroutine ends and destroys the session and its sockets.*)
(***************************************************************************)
RulesThrow ==
  /\ pc \in {"write_request", "write_response"}
  /\ Stop
  /\ UNCHANGED <<environment, client_wire, client_got, served, exchange,
                 buffers>>

(***************************************************************************)
(* Writes that fail because the peer is gone.  A body's loop only writes   *)
(* what it has read.                                                       *)
(***************************************************************************)
RemoteWriteFails ==
  /\ \/ pc = "write_request"
     \/ /\ pc = "request_body" /\ BodyExpected(RequestBodyInfo(Current))
        /\ client_read_buffer_ \o client_wire # << >>
  /\ ~conn.up
  /\ Stop
  /\ UNCHANGED <<environment, client_wire, client_got, served, exchange,
                 buffers>>

ClientWriteFails ==
  /\ \/ pc \in {"write_response", "write_established"}
     \/ /\ pc = "response_body" /\ BodyExpected(ResponseFraming)
        /\ remote_read_buffer_ \o conn.wire # << >>
  /\ client_eof
  /\ Stop
  /\ UNCHANGED <<environment, client_wire, client_got, served, exchange,
                 buffers>>

(***************************************************************************)
(* ShouldKeepAlive: what the two parsers say, and that the sockets are     *)
(* open.  A response that only EOF delimits is never kept alive.           *)
(***************************************************************************)
ParserKeepAlive(r) == r.keep_alive /\ (r.status \in 100 .. 199 \/ ~DelimitedByClose(r))

IgnoreRequestKeepAlive ==   \* mutant: the client's wish is not looked at
  /\ pc = "decide"
  /\ IF ParserKeepAlive(response.message) /\ client_open /\ remote_open
       THEN pc' = "read_request" /\ UNCHANGED <<conn, sockets>>
       ELSE Stop
  /\ UNCHANGED <<environment, client_wire, client_got, served, exchange,
                 buffers>>

ShouldKeepAlive ==
  /\ pc = "decide"
  /\ IF /\ Current.keep_alive /\ ParserKeepAlive(response.message)
        /\ client_open /\ remote_open
       THEN pc' = "read_request" /\ UNCHANGED <<conn, sockets>>
       ELSE Stop
  /\ UNCHANGED <<environment, client_wire, client_got, served, exchange,
                 buffers>>

-----------------------------------------------------------------------------
(***************************************************************************)
(* HandleConnectExchange: confirm to the client, then relay what the read  *)
(* buffers hold and what arrives, until one side is gone.  TunnelRelay     *)
(* has the relay in detail.                                                *)
(***************************************************************************)
WriteConnectEstablishedResponseToClient ==
  /\ pc = "write_established"
  /\ client_got' = Append(client_got,
                      Unit("established", request, Current.host, NoResponse))
  /\ pc' = "tunnel"
  /\ UNCHANGED <<environment, client_wire, conn, served, exchange, buffers,
                 sockets>>

TunnelToClient ==
  /\ pc = "tunnel" /\ remote_read_buffer_ \o conn.wire # << >>
  /\ client_got' = client_got \o remote_read_buffer_ \o conn.wire
  /\ remote_read_buffer_' = << >>
  /\ conn' = [conn EXCEPT !.wire = << >>]
  /\ UNCHANGED <<environment, client_wire, served, pc, exchange,
                 client_read_buffer_, sockets>>

TunnelToRemote ==
  /\ pc = "tunnel" /\ client_read_buffer_ \o client_wire # << >>
  /\ LET unread == client_read_buffer_ \o client_wire
     IN  /\ ToServer(Head(unread))
         /\ client_read_buffer_' = Tail(unread)
  /\ client_wire' = << >>
  /\ UNCHANGED <<environment, client_got, pc, exchange, remote_read_buffer_,
                 sockets>>

TunnelEnds ==
  /\ pc = "tunnel" /\ (client_eof \/ ~conn.up)
  /\ Stop
  /\ UNCHANGED <<environment, client_wire, client_got, served, exchange,
                 buffers>>

-----------------------------------------------------------------------------
Environment == \/ ClientSends \/ ClientSendsBody \/ ClientCloses
               \/ ServerAnswers \/ ServerSendsInterim \/ ServerSendsNotice
               \/ ServerCloses

Session == \/ ReadClientRequestHeader \/ ClientGone
           \/ EnsureRemoteConnected \/ ResolveRemote \/ ConnectRemote
           \/ ConnectFails
           \/ WriteRemoteRequestHeader \/ RulesThrow \/ RemoteWriteFails
           \/ RequestBodyDone \/ ForwardRequestBody \/ RequestBodyEof
           \/ ReadRemoteResponseHeader \/ RemoteGone
           \/ WriteRemoteResponseHeaderToClient \/ ClientWriteFails
           \/ ResponseBodyDone \/ ForwardResponseBody \/ ResponseBodyEof
           \/ ShouldKeepAlive
           \/ WriteConnectEstablishedResponseToClient \/ TunnelToClient
           \/ TunnelToRemote \/ TunnelEnds

Next == Environment \/ Session

(***************************************************************************)
(* What a peer that is there has not accepted yet.  A write to it has no   *)
(* timeout: the session may wait in it for ever, and sees nothing else,    *)
(* the EOF of the other peer included.                                     *)
(***************************************************************************)
FromClient == client_read_buffer_ \o client_wire
FromServer == remote_read_buffer_ \o conn.wire

AwaitsServer ==
  /\ conn.up
  /\ \/ pc = "write_request"
     \/ pc = "request_body" /\ BodyExpected(RequestBodyInfo(Current))
          /\ FromClient # << >>
     \/ pc = "tunnel" /\ FromClient # << >>

AwaitsClient ==
  /\ ~client_eof
  /\ \/ pc \in {"write_response", "write_established"}
     \/ pc = "response_body" /\ BodyExpected(ResponseFraming)
          /\ FromServer # << >>
     \/ pc = "tunnel" /\ FromServer # << >>

(***************************************************************************)
(* The io_context runs the session when it can go on without waiting for a *)
(* peer to accept bytes, and a server that is up answers in the end.       *)
(* Nobody has to send a request, accept what is written to it, close a     *)
(* connection or fail.                                                     *)
(***************************************************************************)
Spec == /\ Init /\ [][Next]_vars
        /\ WF_vars(Session /\ ~AwaitsServer /\ ~AwaitsClient)
        /\ WF_vars(ServerAnswers)

-----------------------------------------------------------------------------
(***************************************************************************)
(* Types, and that ForwardExactly never counts below zero.                 *)
(***************************************************************************)
TypeOK ==
  /\ sent \in 0 .. Len(script) /\ request \in 0 .. sent
  /\ pc \in {"read_request", "ensure", "resolving", "connecting",
            "write_request", "request_body", "read_response",
            "write_response", "response_body", "decide",
            "write_established", "tunnel", "spinning", "stopped"}
  /\ remaining \in Nat
  /\ remote_state_ \in [host : Hosts \cup {NoHost}, connected : BOOLEAN]
  /\ conn.host \in Hosts \cup {NoHost} /\ conn.up \in BOOLEAN
  /\ client_eof \in BOOLEAN /\ client_open \in BOOLEAN
  /\ remote_open \in BOOLEAN /\ closed_ \in BOOLEAN

(***************************************************************************)
(* A server is orderly when it sends nothing but one response to each      *)
(* request, if it does not go away instead.  The exchange as the client    *)
(* and the servers see it: asked is the last request of which something    *)
(* reached a server, heads are the final responses the client got.         *)
(***************************************************************************)
Orderly == servers.behaviours \subseteq {"close"}

Final(u) ==
  u.kind = "established" \/ (u.kind = "resp" /\ u.message.status >= 200)

\* The units of s that belong to request k.
OfRequest(s, k) == Subsequence(s, {j \in DOMAIN s : s[j].id = k})

asked == IF served = << >> THEN 0 ELSE served[Len(served)].unit.id
heads == Subsequence(client_got, {j \in DOMAIN client_got : Final(client_got[j])})
outstanding == asked > Len(heads)
latest == heads[Len(heads)]
Whole == OfRequest(client_got, latest.id)
           = <<latest>> \o ServerBody(latest.id, latest.host, latest.message)

seen_state ==
  IF pc \in {"stopped", "spinning"} THEN "ended"
  ELSE IF outstanding THEN "asked"
  ELSE IF heads = << >> THEN "idle"
  ELSE IF latest.kind = "established" THEN "tunnel"
  ELSE IF ~Whole \/ DelimitedByClose(latest.message) THEN "answering"
  ELSE IF script[latest.id].keep_alive /\ latest.message.keep_alive THEN "idle"
  ELSE "closing"

seen_current ==
  IF outstanding THEN asked ELSE IF heads = << >> THEN 0 ELSE latest.id

seen_host ==
  IF outstanding THEN served[Len(served)].at
  ELSE IF heads = << >> THEN NoHost ELSE latest.host

Exchanges == INSTANCE OrderedExchanges
  WITH wanted <- [k \in DOMAIN script |-> script[k].host], orderly <- Orderly,
       state <- seen_state, current <- seen_current, host <- seen_host

(***************************************************************************)
(* Seen from the client and the servers, the session is one exchange after *)
(* another: over reused and replaced connections, with requests sent ahead *)
(* and bytes left in the read buffers, nothing of a request reaches a      *)
(* server before the response to the one before is delivered to its end    *)
(* and both sides keep the connection, and the response comes from the     *)
(* host the request named.                                                 *)
(***************************************************************************)
ImplementsOrderedExchanges == Exchanges!Spec

(***************************************************************************)
(* Nothing of a response is lost or added: the client has a prefix of each *)
(* one, and all of it once a later response has begun.  HEAD, 204 and 304  *)
(* have no body whatever their headers say.  The servers are orderly.      *)
(***************************************************************************)
ResponsesWhole ==
  Orderly => \A k \in DOMAIN script :
    LET got == OfRequest(client_got, k)
        whole == <<Head(got)>>
                   \o ServerBody(k, script[k].host, Head(got).message)
    IN  got # << >> /\ Head(got).kind = "resp" =>
          /\ IsPrefix(got, whole)
          /\ (\E j \in DOMAIN client_got : client_got[j].id > k) => got = whole

(***************************************************************************)
(* Every request reaches the server it names and no other one, at most     *)
(* once, in the order the client sent them, and as a prefix of what the    *)
(* client sent: a body is never cut in the middle or mixed with the next   *)
(* request, though a server may have gone before the end of it.            *)
(***************************************************************************)
RequestsRouted ==
  /\ \A j \in DOMAIN served : served[j].at = script[served[j].unit.id].host
  /\ \A i, j \in DOMAIN served :
       i < j => served[i].unit.id <= served[j].unit.id
  /\ \A k \in DOMAIN script :
       LET units == OfRequest([j \in DOMAIN served |-> served[j].unit], k)
           head == IF script[k].method = "CONNECT" THEN << >>
                   ELSE <<Unit("req", k, script[k].host, NoResponse)>>
       IN  IsPrefix(units, head \o BodyUnits(k, script[k].host, script[k]))

(***************************************************************************)
(* remote_state_ tells the truth about the remote socket, also while a     *)
(* connect is under way and after it failed, when the socket is open and   *)
(* not connected; and from EnsureRemoteConnected to the end of the         *)
(* exchange the socket is connected to the host of the current request.    *)
(***************************************************************************)
ConnectionMatches ==
  /\ remote_state_.connected = (remote_open /\ pc # "connecting")
  /\ remote_state_.connected = (conn.host # NoHost)
  /\ remote_state_.host = conn.host
  /\ pc \notin {"read_request", "ensure", "resolving", "connecting", "stopped"} =>
       remote_state_.host = Current.host
  /\ closed_ => ~client_open /\ ~remote_open

(***************************************************************************)
(* Once a request, or the response of an orderly server, has said that its *)
(* connection ends, no later request reaches a server and no later         *)
(* response the client.                                                    *)
(***************************************************************************)
Ends(k) ==
  \/ ~script[k].keep_alive
  \/ /\ Orderly
     /\ \E j \in DOMAIN client_got :
          /\ client_got[j].id = k /\ client_got[j].kind = "resp"
          /\ ~ParserKeepAlive(client_got[j].message)
KeepAliveHonoured ==
  \A k \in DOMAIN script : Ends(k) =>
    /\ \A j \in DOMAIN served : served[j].unit.id <= k
    /\ \A j \in DOMAIN client_got : client_got[j].id <= k

(***************************************************************************)
(* Bytes read from one server are not taken for another one's: what        *)
(* ReadRemoteResponseHeader finds in remote_read_buffer_ came from the     *)
(* server that was sent the request.                                       *)
(***************************************************************************)
RemoteBufferIsCurrent ==
  pc = "read_response" =>
    \A j \in DOMAIN remote_read_buffer_ :
      remote_read_buffer_[j].host = Current.host

\* The same, as far as the servers are orderly.
OrderlyBufferIsCurrent == Orderly => RemoteBufferIsCurrent

(***************************************************************************)
(* A request the client has sent to its end gets its final response or the *)
(* session ends, although a reused connection may have been closed by its  *)
(* server, a header refused for its announced size, or the body held back  *)
(* for a while.  There are two ways to neither: a loop at EOF (EofInBody), *)
(* and a write to a peer that is there and accepts nothing any more.       *)
(***************************************************************************)
Requests == UNION {DOMAIN c.script : c \in Cases}
Sent(k) == sent > k \/ (sent = k /\ withheld = << >>)
Answered(k) ==
  \E j \in DOMAIN client_got : client_got[j].id = k /\ Final(client_got[j])
AnsweredOrEnded ==
  \A k \in Requests :
    Sent(k) ~> \/ Answered(k) \/ pc \in {"stopped", "spinning"}
               \/ [](AwaitsServer \/ AwaitsClient)

\* The same, as far as the servers are orderly.
OrderlyAnsweredOrEnded ==
  \A k \in Requests :
    Orderly /\ Sent(k) ~> \/ Answered(k) \/ pc \in {"stopped", "spinning"}
                          \/ [](AwaitsServer \/ AwaitsClient)

(***************************************************************************)
(* The session of a client that left is ended, wherever it was: both       *)
(* sockets are closed, unless a loop at EOF keeps it, or a write to a      *)
(* server that accepts nothing any more.                                   *)
(***************************************************************************)
LeftClientEnds ==
  client_eof ~> pc \in {"stopped", "spinning"} \/ []AwaitsServer

=============================================================================
