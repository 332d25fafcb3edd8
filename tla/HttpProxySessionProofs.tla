----------------------- MODULE HttpProxySessionProofs -----------------------
(***************************************************************************)
(* Theorems about HttpProxySession.                                        *)
(***************************************************************************)
EXTENDS HttpProxySession, SequenceLemmas

-----------------------------------------------------------------------------
(***************************************************************************)
(* Types.  A unit keeps the form in which its sender put it on the wire.   *)
(***************************************************************************)
ClientUnits ==
  [kind : {"req", "piece", "last"}, id : 1 .. Len(script), host : Hosts,
   message : {NoResponse}]

Headers ==
  [status : 100 .. 599, chunked : BOOLEAN, content_length : Nat \cup {NoLength},
   pieces : Nat, keep_alive : BOOLEAN]

ResponseUnits ==
  [kind : {"resp"}, id : 0 .. Len(script), host : Hosts, message : Headers]

ServerUnits ==
  ResponseUnits \cup [kind : {"piece", "last"}, id : 0 .. Len(script),
                      host : Hosts, message : {NoResponse}]

GotUnits ==
  ServerUnits \cup [kind : {"established"}, id : 0 .. Len(script),
                    host : Hosts, message : {NoResponse}]

CaseTypes ==
  /\ script \in Seq(RequestMessages)
  /\ \A i \in DOMAIN script : script[i].method = "CONNECT" => i = Len(script)
  /\ servers.responses \subseteq ResponseMessages

ClientTypes ==
  /\ sent \in 0 .. Len(script)
  /\ withheld \in Seq(ClientUnits)
  /\ client_wire \in Seq(ClientUnits)
  /\ client_read_buffer_ \in Seq(ClientUnits)
  /\ client_eof \in BOOLEAN

ServerTypes ==
  /\ conn \in [host : Hosts \cup {NoHost}, up : BOOLEAN, wire : Seq(ServerUnits),
               asked : Seq(1 .. Len(script)), interim : BOOLEAN]
  /\ conn.up => conn.host \in Hosts
  /\ remote_read_buffer_ \in Seq(ServerUnits)

HistoryTypes ==
  /\ client_got \in Seq(GotUnits)
  /\ served \in Seq([unit : ClientUnits, at : Hosts])

ToHost == {"write_request", "request_body", "read_response", "write_response",
           "response_body", "decide"}

ExchangeTypes ==
  /\ pc \in ToHost \cup {"read_request", "ensure", "resolving", "connecting",
                         "write_established", "tunnel", "spinning", "stopped"}
  /\ request \in 0 .. Len(script)
  /\ request = 0 => pc \in {"read_request", "stopped"}
  /\ remaining \in Nat
  /\ pc \in {"write_response", "response_body", "decide"} =>
       response \in ResponseUnits
  /\ pc \in ToHost => Current.method # "CONNECT"
  /\ pc \in {"write_established", "tunnel"} => Current.method = "CONNECT"

SocketTypes ==
  /\ remote_state_ \in [host : Hosts \cup {NoHost}, connected : BOOLEAN]
  /\ client_open \in BOOLEAN /\ remote_open \in BOOLEAN /\ closed_ \in BOOLEAN
  /\ closed_ => pc = "stopped"
  /\ pc = "resolving" => ~remote_open
  /\ pc = "connecting" => remote_open
  /\ ConnectionMatches

TypeInv == /\ CaseTypes /\ ClientTypes /\ ServerTypes /\ HistoryTypes
           /\ ExchangeTypes /\ SocketTypes

-----------------------------------------------------------------------------
(***************************************************************************)
(* The units of a body.                                                    *)
(***************************************************************************)
BodyElements(i, h) ==
  [kind : {"piece", "last"}, id : {i}, host : {h}, message : {NoResponse}]

Framed(m) == /\ m.chunked \in BOOLEAN /\ m.pieces \in Nat
             /\ m.content_length \in Nat \cup {NoLength}

LEMMA BodyTyped ==
  ASSUME NEW i, NEW h, NEW m, Framed(m)
  PROVE  /\ BodyUnits(i, h, m) \in Seq(BodyElements(i, h))
         /\ ~m.chunked /\ m.content_length # NoLength =>
              Len(BodyUnits(i, h, m)) = m.content_length
         /\ m.chunked => \A j \in 1 .. Len(BodyUnits(i, h, m)) :
              BodyUnits(i, h, m)[j].kind = "last" => j = Len(BodyUnits(i, h, m))
<1> DEFINE n == IF ~m.chunked /\ m.content_length # NoLength
                  THEN m.content_length ELSE m.pieces
           s == [k \in 1 .. n |-> Unit("piece", i, h, NoResponse)]
           t == IF m.chunked THEN <<Unit("last", i, h, NoResponse)>> ELSE << >>
<1>1. n \in Nat
  BY DEF Framed, NoLength
<1>2. BodyUnits(i, h, m) = s \o t
  BY DEF BodyUnits
<1>3. /\ Unit("piece", i, h, NoResponse) \in BodyElements(i, h)
      /\ Unit("last", i, h, NoResponse) \in BodyElements(i, h)
  BY DEF Unit, BodyElements
<1>4. /\ Unit("piece", i, h, NoResponse).kind = "piece"
      /\ Unit("last", i, h, NoResponse).kind = "last"
  BY DEF Unit
<1>5. s \in Seq(BodyElements(i, h)) /\ Len(s) = n
  <2>1. s \in [1 .. n -> BodyElements(i, h)]
    BY <1>3
  <2> QED
    BY <2>1, <1>1, FunctionIsSeq
<1>6. t \in Seq(BodyElements(i, h))
  BY <1>3
<1>7. \A k \in 1 .. n : s[k].kind = "piece"
  BY <1>4
<1>8. ASSUME ~m.chunked, m.content_length # NoLength
      PROVE  Len(s \o t) = m.content_length
  <2>1. t = << >> /\ n = m.content_length
    BY <1>8
  <2> HIDE DEF s, t, n
  <2> QED
    BY <2>1, <1>1, <1>5, <1>6
<1>9. ASSUME m.chunked, NEW j \in 1 .. Len(s \o t), (s \o t)[j].kind = "last"
      PROVE  j = Len(s \o t)
  <2> HIDE DEF s, n
  <2>1. t = <<Unit("last", i, h, NoResponse)>>
    BY <1>9
  <2>2. Len(s \o t) = n + 1
    BY <2>1, <1>1, <1>5, <1>6
  <2>3. j \in 1 .. n => (s \o t)[j] = s[j]
    BY <1>1, <1>5, <1>6
  <2> QED
    BY <2>2, <2>3, <1>1, <1>7, <1>9
<1> HIDE DEF s, t, n
<1> QED
  BY <1>2, <1>5, <1>6, <1>8, <1>9
(***************************************************************************)
(* A read that finds the buffer empty takes at least one unit; the first   *)
(* of the units that are then in the buffer is used up.                    *)
(***************************************************************************)
LEMMA Reading ==
  ASSUME NEW S, NEW buffer \in Seq(S), NEW wire \in Seq(S),
         NEW n \in IF buffer = << >> THEN 1 .. Len(wire) ELSE {0}
  PROVE  /\ n \in 0 .. Len(wire)
         /\ SubSeq(wire, 1, n) \in Seq(S)
         /\ SubSeq(wire, n + 1, Len(wire)) \in Seq(S)
         /\ buffer \o SubSeq(wire, 1, n) \in Seq(S)
         /\ buffer \o SubSeq(wire, 1, n) # << >>
         /\ Head(buffer \o SubSeq(wire, 1, n)) \in S
         /\ Tail(buffer \o SubSeq(wire, 1, n)) \in Seq(S)
<1> DEFINE taken == SubSeq(wire, 1, n)
           unread == buffer \o taken
<1>1. n \in 0 .. Len(wire) /\ (buffer = << >> => n >= 1)
  BY Len(wire) \in Nat
<1>2. /\ taken \in Seq(S) /\ Len(taken) = n
      /\ SubSeq(wire, n + 1, Len(wire)) \in Seq(S)
  BY <1>1, Cut
<1> HIDE DEF taken
<1>3. unread \in Seq(S) /\ unread # << >>
  BY <1>1, <1>2, Concat
<1> HIDE DEF unread
<1>4. Head(unread) \in S /\ Tail(unread) \in Seq(S)
  BY <1>3, HeadAndTail
<1> QED
  BY <1>1, <1>2, <1>3, <1>4 DEF unread, taken

LEMMA ReadingMoves ==
  ASSUME NEW S, NEW buffer \in Seq(S), NEW wire \in Seq(S),
         NEW n \in IF buffer = << >> THEN 1 .. Len(wire) ELSE {0}
  PROVE  buffer \o wire
           = <<Head(buffer \o SubSeq(wire, 1, n))>>
               \o (Tail(buffer \o SubSeq(wire, 1, n))
                     \o SubSeq(wire, n + 1, Len(wire)))
<1> DEFINE taken == SubSeq(wire, 1, n)
           unread == buffer \o taken
           left == SubSeq(wire, n + 1, Len(wire))
<1>0. \A x, y, z \in Seq(S) : (x \o y) \o z = x \o (y \o z)
  OBVIOUS
<1>1. /\ taken \in Seq(S) /\ left \in Seq(S) /\ unread \in Seq(S) /\ unread # << >>
      /\ n \in 0 .. Len(wire)
  BY Reading
<1>2. taken \o left = wire
  BY <1>1, Cut
<1> HIDE DEF taken, left
<1>3. (buffer \o taken) \o left = buffer \o (taken \o left)
  BY <1>0, <1>1, Zenon
<1>4. unread \o left = buffer \o wire
  BY <1>2, <1>3, Zenon
<1> HIDE DEF unread
<1>5. Head(unread) \in S /\ Tail(unread) \in Seq(S)
      /\ unread = <<Head(unread)>> \o Tail(unread)
  BY <1>1, HeadAndTail
<1>6. <<Head(unread)>> \in Seq(S)
  BY <1>5
<1>7. (<<Head(unread)>> \o Tail(unread)) \o left
        = <<Head(unread)>> \o (Tail(unread) \o left)
  BY <1>0, <1>1, <1>5, <1>6, Zenon
<1>8. buffer \o wire = <<Head(unread)>> \o (Tail(unread) \o left)
  BY <1>4, <1>5, <1>7, Zenon
<1> QED
  BY <1>8, Zenon DEF unread, left, taken

-----------------------------------------------------------------------------
(***************************************************************************)
(* Types are kept.                                                         *)
(***************************************************************************)
LEMMA TypesInit == Init => TypeInv
<1> SUFFICES ASSUME Init PROVE TypeInv
  OBVIOUS
<1>1. CaseTypes
  BY ScriptsAssumption, ServersAssumption DEF Init, CaseTypes
<1>2. ClientTypes
  <2>1. Len(script) \in Nat
    BY <1>1 DEF CaseTypes
  <2>2. /\ sent = 0 /\ withheld = << >> /\ client_wire = << >>
        /\ client_read_buffer_ = << >> /\ client_eof = FALSE
    BY DEF Init
  <2>3. sent \in 0 .. Len(script)
    BY <2>1, <2>2
  <2>4. withheld \in Seq(ClientUnits)
    BY <2>2
  <2>5. client_eof \in BOOLEAN
    BY <2>2
  <2> QED
    BY <2>1, <2>2, <2>3, <2>4, <2>5 DEF ClientTypes
<1>3. ServerTypes
  BY DEF Init, ServerTypes, NoConnection
<1>4. HistoryTypes
  BY DEF Init, HistoryTypes
<1>5. SocketTypes
  BY DEF Init, SocketTypes, ConnectionMatches, NoConnection
<1>6. ExchangeTypes
  BY <1>1 DEF Init, CaseTypes, ExchangeTypes, ToHost
<1> QED
  BY <1>1, <1>2, <1>3, <1>4, <1>5, <1>6 DEF TypeInv

\* What a message in the script is.
LEMMA CurrentTyped ==
  ASSUME CaseTypes, NEW k \in 1 .. Len(script)
  PROVE  /\ script[k] \in RequestMessages
         /\ Framed(script[k])
         /\ script[k].host \in Hosts
         /\ RequestBodyInfo(script[k]) \in {"Chunked", "ContentLength", "None"}
         /\ RequestBodyInfo(script[k]) = "ContentLength" =>
              script[k].content_length \in Nat
<1>1. script[k] \in RequestMessages
  BY DEF CaseTypes
<1>2. /\ script[k].chunked \in BOOLEAN /\ script[k].pieces \in Nat
      /\ script[k].content_length \in Nat \cup {NoLength}
      /\ script[k].host \in Hosts
  BY <1>1, ZenonT(40) DEF RequestMessages
<1> QED
  BY <1>1, <1>2 DEF Framed, RequestBodyInfo

\* Which actions change what.
LEMMA Frame ==
  ASSUME [Next]_vars
  PROVE  /\ UNCHANGED <<script, servers>>
         /\ \/ UNCHANGED <<sent, withheld, client_eof, client_wire,
                          client_read_buffer_>>
            \/ ClientSends \/ ClientSendsBody \/ ClientCloses
            \/ ReadClientRequestHeader \/ ForwardRequestBody \/ TunnelToRemote
         /\ \/ UNCHANGED client_got
            \/ WriteRemoteResponseHeaderToClient \/ ForwardResponseBody
            \/ WriteConnectEstablishedResponseToClient \/ TunnelToClient
         /\ \/ UNCHANGED served
            \/ WriteRemoteRequestHeader \/ ForwardRequestBody \/ TunnelToRemote
         /\ \/ UNCHANGED <<response, remote_read_buffer_>>
            \/ ReadRemoteResponseHeader \/ ForwardResponseBody \/ TunnelToClient
         /\ UNCHANGED request \/ ReadClientRequestHeader
<1> USE DEF Next, vars, environment, exchange, buffers, Environment, Session,
      ClientSends, ClientSendsBody, ClientCloses, ServerAnswers,
      ServerSendsInterim, ServerSendsNotice, ServerCloses,
      ReadClientRequestHeader, ClientGone, EnsureRemoteConnected, ResolveRemote, ConnectRemote,
      ConnectFails, WriteRemoteRequestHeader, RemoteWriteFails, RulesThrow, RequestBodyDone,
      ForwardRequestBody, RequestBodyEof, ReadRemoteResponseHeader, RemoteGone,
      WriteRemoteResponseHeaderToClient, ClientWriteFails, ResponseBodyDone,
      ForwardResponseBody, ResponseBodyEof, ShouldKeepAlive,
      WriteConnectEstablishedResponseToClient, TunnelToClient, TunnelToRemote,
      TunnelEnds
<1>1. UNCHANGED <<script, servers>>
  BY ZenonT(60)
<1>2. \/ UNCHANGED <<sent, withheld, client_eof, client_wire, client_read_buffer_>>
      \/ ClientSends \/ ClientSendsBody \/ ClientCloses
      \/ ReadClientRequestHeader \/ ForwardRequestBody \/ TunnelToRemote
  BY ZenonT(60)
<1>3. \/ UNCHANGED client_got
      \/ WriteRemoteResponseHeaderToClient \/ ForwardResponseBody
      \/ WriteConnectEstablishedResponseToClient \/ TunnelToClient
  BY ZenonT(60)
<1>4. \/ UNCHANGED served
      \/ WriteRemoteRequestHeader \/ ForwardRequestBody \/ TunnelToRemote
  BY ZenonT(60)
<1>5. \/ UNCHANGED <<response, remote_read_buffer_>>
      \/ ReadRemoteResponseHeader \/ ForwardResponseBody \/ TunnelToClient
  BY ZenonT(60)
<1>6. UNCHANGED request \/ ReadClientRequestHeader
  BY ZenonT(40)
<1> QED
  BY ONLY <1>1, <1>2, <1>3, <1>4, <1>5, <1>6

LEMMA CaseStep == CaseTypes /\ [Next]_vars => CaseTypes'
  BY Frame DEF CaseTypes
\* What the client puts on the wire for request k.
HeadUnit(k) == Unit("req", k, script[k].host, NoResponse)
RequestBody(k) == BodyUnits(k, script[k].host, script[k])

LEMMA RequestTyped ==
  ASSUME CaseTypes, NEW k \in 1 .. Len(script)
  PROVE  /\ HeadUnit(k) \in ClientUnits
         /\ RequestBody(k) \in Seq(ClientUnits)
<1>1. script[k].host \in Hosts /\ Framed(script[k])
  BY CurrentTyped
<1>2. HeadUnit(k) \in ClientUnits
  BY <1>1 DEF HeadUnit, Unit, ClientUnits
<1>3. BodyElements(k, script[k].host) \subseteq ClientUnits
  BY <1>1 DEF BodyElements, ClientUnits
<1>4. RequestBody(k) \in Seq(BodyElements(k, script[k].host))
  BY <1>1, BodyTyped DEF RequestBody
<1> QED
  BY <1>2, <1>3, <1>4, SeqMonotonic

LEMMA ClientStep ==
  ASSUME CaseTypes, ClientTypes, [Next]_vars
  PROVE  ClientTypes'
<1> USE DEF ClientTypes
<1>0. UNCHANGED script /\ ClientUnits' = ClientUnits
  BY Frame DEF ClientUnits
<1>1. CASE ClientSends
  <2> DEFINE k == sent + 1
  <2>1. k \in 1 .. Len(script) /\ sent' = k
    BY <1>1, Len(script) \in Nat DEF ClientSends, CaseTypes
  <2> HIDE DEF k
  <2>2. HeadUnit(k) \in ClientUnits /\ RequestBody(k) \in Seq(ClientUnits)
    BY <2>1, RequestTyped
  <2>3. client_wire \o <<HeadUnit(k)>> \in Seq(ClientUnits)
    BY <2>2
  <2>4. (client_wire \o <<HeadUnit(k)>>) \o RequestBody(k) \in Seq(ClientUnits)
    BY <2>2, <2>3
  <2>5. /\ withheld' \in {withheld, RequestBody(k)}
        /\ client_wire' \in {client_wire \o <<HeadUnit(k)>>,
                             (client_wire \o <<HeadUnit(k)>>) \o RequestBody(k)}
        /\ UNCHANGED <<client_read_buffer_, client_eof>>
    BY <1>1 DEF ClientSends, HeadUnit, RequestBody, buffers, k
  <2>6. sent' \in (0 .. Len(script))'
    BY <1>0, <2>1, Len(script) \in Nat DEF CaseTypes
  <2>7. withheld' \in Seq(ClientUnits) /\ client_wire' \in Seq(ClientUnits)
    BY <2>2, <2>3, <2>4, <2>5
  <2> QED
    BY <1>0, <2>5, <2>6, <2>7
<1>2. CASE ClientSendsBody
  BY <1>0, <1>2 DEF ClientSendsBody, buffers
<1>3. CASE ClientCloses
  <2>1. PICK n \in 0 .. Len(client_wire) : client_wire' = SubSeq(client_wire, 1, n)
    BY <1>3 DEF ClientCloses
  <2>2. client_wire' \in Seq(ClientUnits)
    BY <2>1, Cut
  <2>3. UNCHANGED <<sent, withheld, client_read_buffer_>> /\ client_eof' = TRUE
    BY <1>3 DEF ClientCloses, buffers
  <2> QED
    BY <1>0, <2>2, <2>3
<1>4. CASE ReadClientRequestHeader
  <2>1. PICK n \in IF client_read_buffer_ = << >> THEN 1 .. Len(client_wire) ELSE {0} :
          /\ client_wire' = SubSeq(client_wire, n + 1, Len(client_wire))
          /\ client_read_buffer_' = Tail(client_read_buffer_ \o SubSeq(client_wire, 1, n))
    BY <1>4 DEF ReadClientRequestHeader
  <2>2. client_wire' \in Seq(ClientUnits) /\ client_read_buffer_' \in Seq(ClientUnits)
    BY <2>1, Reading
  <2>3. UNCHANGED <<sent, withheld, client_eof>>
    BY <1>4 DEF ReadClientRequestHeader, environment
  <2> QED
    BY <1>0, <2>2, <2>3
<1>5. CASE ForwardRequestBody
  <2>1. PICK n \in IF client_read_buffer_ = << >> THEN 1 .. Len(client_wire) ELSE {0} :
          /\ client_wire' = SubSeq(client_wire, n + 1, Len(client_wire))
          /\ \/ client_read_buffer_' = client_read_buffer_ \o SubSeq(client_wire, 1, n)
             \/ client_read_buffer_' = Tail(client_read_buffer_ \o SubSeq(client_wire, 1, n))
    BY <1>5 DEF ForwardRequestBody
  <2> DEFINE unread == client_read_buffer_ \o SubSeq(client_wire, 1, n)
             left == SubSeq(client_wire, n + 1, Len(client_wire))
  <2>a. /\ unread \in Seq(ClientUnits) /\ Tail(unread) \in Seq(ClientUnits)
        /\ left \in Seq(ClientUnits)
    BY Reading
  <2>2. client_wire' \in Seq(ClientUnits) /\ client_read_buffer_' \in Seq(ClientUnits)
    BY <2>1, <2>a
  <2>3. UNCHANGED <<sent, withheld, client_eof>>
    BY <1>5 DEF ForwardRequestBody, environment
  <2> QED
    BY <1>0, <2>2, <2>3
<1>6. CASE TunnelToRemote
  <2> DEFINE unread == client_read_buffer_ \o client_wire
  <2>1. unread \in Seq(ClientUnits) /\ unread # << >>
    BY <1>6 DEF TunnelToRemote
  <2>2. /\ client_read_buffer_' = Tail(unread) /\ client_wire' = << >>
        /\ UNCHANGED <<sent, withheld, client_eof>>
    BY <1>6 DEF TunnelToRemote, environment
  <2> HIDE DEF unread
  <2>3. client_read_buffer_' \in Seq(ClientUnits)
    BY <2>1, <2>2, HeadAndTail
  <2> QED
    BY <1>0, <2>2, <2>3
<1> QED
  BY <1>0, <1>1, <1>2, <1>3, <1>4, <1>5, <1>6, Frame

(***************************************************************************)
(* What the four reading actions take: the first unread unit u.            *)
(***************************************************************************)
LEMMA HeaderRead ==
  ASSUME ClientTypes, ReadClientRequestHeader
  PROVE  \E u \in ClientUnits :
           /\ client_read_buffer_ \o client_wire
                = <<u>> \o (client_read_buffer_' \o client_wire')
           /\ request' = u.id
           /\ IF u.kind = "req" /\ Acceptable(script[u.id])
                THEN pc' = "ensure" /\ UNCHANGED <<sockets, conn>>
                ELSE Stop
<1>1. PICK n \in IF client_read_buffer_ = << >> THEN 1 .. Len(client_wire) ELSE {0} :
        LET unread == client_read_buffer_ \o SubSeq(client_wire, 1, n)
        IN  /\ client_wire' = SubSeq(client_wire, n + 1, Len(client_wire))
            /\ client_read_buffer_' = Tail(unread)
            /\ request' = Head(unread).id
            /\ IF Head(unread).kind = "req" /\ Acceptable(script[Head(unread).id])
                 THEN pc' = "ensure" /\ UNCHANGED <<sockets, conn>>
                 ELSE Stop
  BY Zenon DEF ReadClientRequestHeader
<1> DEFINE unread == client_read_buffer_ \o SubSeq(client_wire, 1, n)
           left == SubSeq(client_wire, n + 1, Len(client_wire))
<1>2. client_read_buffer_ \in Seq(ClientUnits) /\ client_wire \in Seq(ClientUnits)
  BY DEF ClientTypes
<1>3. /\ Head(unread) \in ClientUnits
  BY <1>2, Reading
<1>4. client_read_buffer_ \o client_wire = <<Head(unread)>> \o (Tail(unread) \o left)
  BY <1>2, ReadingMoves, Zenon
<1> QED
  BY <1>1, <1>3, <1>4, Zenon

LEMMA RequestBodyRead ==
  ASSUME ClientTypes, ForwardRequestBody
  PROVE  \E u \in ClientUnits :
           \/ /\ RequestBodyInfo(Current) = "Chunked" /\ u.kind = "req"
              /\ Stop /\ UNCHANGED <<remaining, served>>
           \/ /\ ~(RequestBodyInfo(Current) = "Chunked" /\ u.kind = "req")
              /\ client_read_buffer_ \o client_wire
                   = <<u>> \o (client_read_buffer_' \o client_wire')
              /\ ToServer(u)
              /\ remaining' = IF RequestBodyInfo(Current) = "Chunked" THEN 0
                              ELSE remaining - 1
              /\ pc' = IF RequestBodyInfo(Current) = "Chunked" /\ u.kind = "last"
                         THEN "read_response" ELSE pc
              /\ UNCHANGED sockets
<1>1. PICK n \in IF client_read_buffer_ = << >> THEN 1 .. Len(client_wire) ELSE {0} :
        LET unread == client_read_buffer_ \o SubSeq(client_wire, 1, n)
            u == Head(unread)
            framing == RequestBodyInfo(Current)
        IN  /\ client_wire' = SubSeq(client_wire, n + 1, Len(client_wire))
            /\ IF framing = "Chunked" /\ u.kind = "req"
                 THEN /\ client_read_buffer_' = unread
                      /\ Stop /\ UNCHANGED <<remaining, served>>
                 ELSE /\ client_read_buffer_' = Tail(unread)
                      /\ ToServer(u)
                      /\ remaining' = IF framing = "Chunked" THEN 0
                                      ELSE remaining - 1
                      /\ pc' = IF framing = "Chunked" /\ u.kind = "last"
                                 THEN "read_response" ELSE pc
                      /\ UNCHANGED sockets
  BY Zenon DEF ForwardRequestBody
<1> DEFINE unread == client_read_buffer_ \o SubSeq(client_wire, 1, n)
           left == SubSeq(client_wire, n + 1, Len(client_wire))
<1>2. client_read_buffer_ \in Seq(ClientUnits) /\ client_wire \in Seq(ClientUnits)
  BY DEF ClientTypes
<1>3. /\ Head(unread) \in ClientUnits
  BY <1>2, Reading
<1>4. client_read_buffer_ \o client_wire = <<Head(unread)>> \o (Tail(unread) \o left)
  BY <1>2, ReadingMoves, Zenon
<1> QED
  BY <1>1, <1>3, <1>4, Zenon

LEMMA ResponseHeaderRead ==
  ASSUME ServerTypes, ReadRemoteResponseHeader
  PROVE  \E u \in ServerUnits :
           \/ /\ u.kind = "resp" /\ ResponseAcceptable(u.message)
              /\ remote_read_buffer_ \o conn.wire
                   = <<u>> \o (remote_read_buffer_' \o conn'.wire)
              /\ conn'.wire \in Seq(ServerUnits)
              /\ conn' = [conn EXCEPT !.wire = conn'.wire]
              /\ remote_read_buffer_' \in Seq(ServerUnits)
              /\ response' = u
              /\ pc' = "write_response"
              /\ UNCHANGED sockets
           \/ Stop /\ remote_read_buffer_' \in Seq(ServerUnits) /\ UNCHANGED response
<1>1. PICK n \in IF remote_read_buffer_ = << >> THEN 1 .. Len(conn.wire) ELSE {0} :
        LET unread == remote_read_buffer_ \o SubSeq(conn.wire, 1, n)
        IN  /\ remote_read_buffer_' = Tail(unread)
            /\ IF Head(unread).kind = "resp" /\ ResponseAcceptable(Head(unread).message)
                 THEN /\ response' = Head(unread)
                      /\ conn' = [conn EXCEPT
                                    !.wire = SubSeq(@, n + 1, Len(@))]
                      /\ pc' = "write_response"
                      /\ UNCHANGED sockets
                 ELSE Stop /\ UNCHANGED response
  BY Zenon DEF ReadRemoteResponseHeader
<1> DEFINE unread == remote_read_buffer_ \o SubSeq(conn.wire, 1, n)
           left == SubSeq(conn.wire, n + 1, Len(conn.wire))
<1>2. remote_read_buffer_ \in Seq(ServerUnits) /\ conn.wire \in Seq(ServerUnits)
  BY DEF ServerTypes
<1>3. /\ Head(unread) \in ServerUnits /\ Tail(unread) \in Seq(ServerUnits)
      /\ left \in Seq(ServerUnits)
  BY <1>2, Reading
<1>a. remote_read_buffer_ \o conn.wire = <<Head(unread)>> \o (Tail(unread) \o left)
  BY <1>2, ReadingMoves, Zenon
<1>4. CASE Head(unread).kind = "resp" /\ ResponseAcceptable(Head(unread).message)
  <2>1. conn' = [conn EXCEPT !.wire = left]
    BY <1>1, <1>4
  <2>2. conn'.wire = left
    BY <2>1 DEF ServerTypes
  <2> HIDE DEF left
  <2>3. conn' = [conn EXCEPT !.wire = conn'.wire]
    BY <2>1, <2>2
  <2> HIDE DEF unread
  <2>4. /\ remote_read_buffer_' = Tail(unread) /\ response' = Head(unread)
        /\ pc' = "write_response" /\ UNCHANGED sockets
    BY <1>1, <1>4, Zenon DEF unread
  <2> QED
    BY <1>3, <1>a, <1>4, <2>2, <2>3, <2>4, Zenon
<1>5. CASE ~(Head(unread).kind = "resp" /\ ResponseAcceptable(Head(unread).message))
  BY <1>1, <1>3, <1>5, Zenon
<1> QED
  BY <1>4, <1>5

LEMMA ResponseBodyRead ==
  ASSUME ServerTypes, ForwardResponseBody
  PROVE  \E u \in ServerUnits :
           \/ /\ ResponseFraming = "Chunked" /\ u.kind = "resp"
              /\ Stop /\ UNCHANGED <<remaining, client_got>>
              /\ remote_read_buffer_' \in Seq(ServerUnits)
           \/ /\ ~(ResponseFraming = "Chunked" /\ u.kind = "resp")
              /\ remote_read_buffer_ \o conn.wire
                   = <<u>> \o (remote_read_buffer_' \o conn'.wire)
              /\ conn'.wire \in Seq(ServerUnits)
              /\ conn' = [conn EXCEPT !.wire = conn'.wire]
              /\ remote_read_buffer_' \in Seq(ServerUnits)
              /\ client_got' = Append(client_got, u)
              /\ remaining' = IF ResponseFraming = "ContentLength"
                                THEN remaining - 1 ELSE 0
              /\ pc' = IF ResponseFraming = "Chunked" /\ u.kind = "last"
                         THEN "decide" ELSE pc
              /\ UNCHANGED sockets
<1>1. PICK n \in IF remote_read_buffer_ = << >> THEN 1 .. Len(conn.wire) ELSE {0} :
        LET unread == remote_read_buffer_ \o SubSeq(conn.wire, 1, n)
            u == Head(unread)
        IN  IF ResponseFraming = "Chunked" /\ u.kind = "resp"
              THEN /\ remote_read_buffer_' = unread
                   /\ Stop /\ UNCHANGED <<remaining, client_got>>
              ELSE /\ remote_read_buffer_' = Tail(unread)
                   /\ conn' = [conn EXCEPT !.wire = SubSeq(@, n + 1, Len(@))]
                   /\ client_got' = Append(client_got, u)
                   /\ remaining' = IF ResponseFraming = "ContentLength"
                                     THEN remaining - 1 ELSE 0
                   /\ pc' = IF ResponseFraming = "Chunked" /\ u.kind = "last"
                              THEN "decide" ELSE pc
                   /\ UNCHANGED sockets
  BY Zenon DEF ForwardResponseBody
<1> DEFINE unread == remote_read_buffer_ \o SubSeq(conn.wire, 1, n)
           left == SubSeq(conn.wire, n + 1, Len(conn.wire))
<1>2. remote_read_buffer_ \in Seq(ServerUnits) /\ conn.wire \in Seq(ServerUnits)
  BY DEF ServerTypes
<1>3. /\ Head(unread) \in ServerUnits /\ Tail(unread) \in Seq(ServerUnits)
      /\ left \in Seq(ServerUnits) /\ unread \in Seq(ServerUnits)
  BY <1>2, Reading
<1>a. remote_read_buffer_ \o conn.wire = <<Head(unread)>> \o (Tail(unread) \o left)
  BY <1>2, ReadingMoves, Zenon
<1>4. CASE ~(ResponseFraming = "Chunked" /\ Head(unread).kind = "resp")
  <2>1. conn' = [conn EXCEPT !.wire = left]
    BY <1>1, <1>4
  <2>2. conn'.wire = left
    BY <2>1 DEF ServerTypes
  <2> HIDE DEF left
  <2>3. conn' = [conn EXCEPT !.wire = conn'.wire]
    BY <2>1, <2>2
  <2> HIDE DEF unread
  <2>4. /\ remote_read_buffer_' = Tail(unread)
        /\ client_got' = Append(client_got, Head(unread))
        /\ remaining' = IF ResponseFraming = "ContentLength"
                          THEN remaining - 1 ELSE 0
        /\ pc' = IF ResponseFraming = "Chunked" /\ Head(unread).kind = "last"
                   THEN "decide" ELSE pc
        /\ UNCHANGED sockets
    BY <1>1, <1>4, Zenon DEF unread
  <2> QED
    BY <1>3, <1>a, <1>4, <2>2, <2>3, <2>4, Zenon
<1>5. CASE ResponseFraming = "Chunked" /\ Head(unread).kind = "resp"
  BY <1>1, <1>3, <1>5, Zenon
<1> QED
  BY <1>4, <1>5

LEMMA ServerUnitsTyped ==
  ASSUME CaseTypes, NEW i \in 0 .. Len(script), NEW h \in Hosts,
         NEW r \in ResponseMessages
  PROVE  /\ Unit("resp", i, h, r) \in ResponseUnits
         /\ Framed(r) /\ r \in Headers
         /\ ServerBody(i, h, r) \in Seq(BodyElements(i, h))
         /\ ServerBody(i, h, r) \in Seq(ServerUnits)
<1>1. r \in Headers
  BY DEF ResponseMessages, Headers
<1>2. Framed(r)
  BY DEF ResponseMessages, Framed
<1>3. Unit("resp", i, h, r) \in ResponseUnits
  BY <1>1 DEF Unit, ResponseUnits
<1>4. BodyElements(i, h) \subseteq ServerUnits
  BY DEF BodyElements, ServerUnits
<1>5. ServerBody(i, h, r) \in Seq(BodyElements(i, h))
  BY <1>2, BodyTyped DEF ServerBody
<1> QED
  BY <1>1, <1>2, <1>3, <1>4, <1>5, SeqMonotonic

LEMMA ServerStep ==
  ASSUME CaseTypes, ClientTypes, ServerTypes, ExchangeTypes, [Next]_vars
  PROVE  ServerTypes'
<1>0. UNCHANGED script /\ ServerUnits' = ServerUnits
  BY Frame DEF ServerUnits, ResponseUnits
<1>c. /\ conn.host \in Hosts \cup {NoHost} /\ conn.up \in BOOLEAN
      /\ conn.wire \in Seq(ServerUnits) /\ conn.asked \in Seq(1 .. Len(script))
      /\ conn.interim \in BOOLEAN /\ (conn.up => conn.host \in Hosts)
      /\ remote_read_buffer_ \in Seq(ServerUnits)
      /\ Len(script) \in Nat
  BY DEF ServerTypes, CaseTypes
<1>s. ASSUME Stop, remote_read_buffer_' \in Seq(ServerUnits)
      PROVE  ServerTypes'
  BY <1>0, <1>s DEF Stop, CloseRemote, NoConnection, ServerTypes
<1>u. ASSUME UNCHANGED <<conn, remote_read_buffer_>>
      PROVE  ServerTypes'
  BY <1>0, <1>u DEF ServerTypes
<1>t. ASSUME NEW u \in ClientUnits, ToServer(u), UNCHANGED remote_read_buffer_
      PROVE  ServerTypes'
  <2>1. u.id \in 1 .. Len(script)
    BY DEF ClientUnits
  <2>2. Append(conn.asked, u.id) \in Seq(1 .. Len(script))
    BY <2>1, <1>c
  <2>3. conn' = conn \/ conn' = [conn EXCEPT !.asked = Append(conn.asked, u.id)]
    BY <1>t DEF ToServer
  <2> QED
    BY <1>0, <1>c, <1>t, <2>2, <2>3 DEF ServerTypes
<1>1. CASE ServerAnswers
  <2>1. PICK r \in servers.responses :
          LET i == Head(conn.asked)
          IN  conn' = [conn EXCEPT
                !.wire = @ \o <<Unit("resp", i, conn.host, r)>>
                           \o ServerBody(i, conn.host, r),
                !.asked = Tail(@),
                !.interim = FALSE,
                !.up = r.keep_alive /\ ~DelimitedByClose(r)]
    BY <1>1 DEF ServerAnswers
  <2> DEFINE i == Head(conn.asked)
             w == (conn.wire \o <<Unit("resp", i, conn.host, r)>>)
                    \o ServerBody(i, conn.host, r)
             up == r.keep_alive /\ ~DelimitedByClose(r)
  <2>2. conn.up /\ conn.asked # << >> /\ UNCHANGED remote_read_buffer_
    BY <1>1 DEF ServerAnswers, buffers
  <2>3. i \in 1 .. Len(script) /\ Tail(conn.asked) \in Seq(1 .. Len(script))
    BY <2>2, <1>c, HeadAndTail
  <2>4. r \in ResponseMessages /\ conn.host \in Hosts
    BY <1>c, <2>2 DEF CaseTypes
  <2>5. /\ Unit("resp", i, conn.host, r) \in ServerUnits
        /\ ServerBody(i, conn.host, r) \in Seq(ServerUnits)
    <3>1. i \in 0 .. Len(script)
      BY <2>3, <1>c
    <3> HIDE DEF i
    <3>2. /\ Unit("resp", i, conn.host, r) \in ResponseUnits
          /\ ServerBody(i, conn.host, r) \in Seq(ServerUnits)
      BY <3>1, <2>4, ServerUnitsTyped
    <3> QED
      BY <3>2 DEF ServerUnits
  <2>6. w \in Seq(ServerUnits)
    BY <1>c, <2>5
  <2>7. up \in BOOLEAN
    OBVIOUS
  <2>8. conn' = [conn EXCEPT !.wire = w, !.asked = Tail(conn.asked), !.interim = FALSE,
                             !.up = up]
    BY <2>1
  <2> HIDE DEF w, up
  <2> QED
    BY <1>0, <1>c, <2>2, <2>3, <2>4, <2>6, <2>7, <2>8 DEF ServerTypes
<1>2. CASE ServerSendsInterim
  <2> DEFINE m == [status |-> 103, chunked |-> FALSE, pieces |-> 0,
                   content_length |-> NoLength, keep_alive |-> TRUE]
             u == Unit("resp", Head(conn.asked), conn.host, m)
  <2>1. conn.host \in Hosts /\ Head(conn.asked) \in 1 .. Len(script)
    BY <1>2, <1>c, HeadAndTail DEF ServerSendsInterim
  <2>2. m \in Headers
    BY DEF Headers
  <2> HIDE DEF m
  <2>3. u \in ServerUnits
    BY <1>c, <2>1, <2>2 DEF Unit, ServerUnits, ResponseUnits
  <2>4. conn' = [conn EXCEPT !.wire = Append(conn.wire, u), !.interim = TRUE]
        /\ UNCHANGED remote_read_buffer_
    BY <1>2 DEF ServerSendsInterim, buffers, m
  <2> HIDE DEF u
  <2>5. Append(conn.wire, u) \in Seq(ServerUnits)
    BY <2>3, <1>c
  <2> QED
    BY <1>0, <1>c, <2>1, <2>4, <2>5 DEF ServerTypes
<1>3. CASE ServerSendsNotice
  <2> DEFINE m == [status |-> 408, chunked |-> FALSE, pieces |-> 0,
                   content_length |-> 0, keep_alive |-> FALSE]
             u == Unit("resp", 0, conn.host, m)
  <2>1. conn.host \in Hosts
    BY <1>3, <1>c DEF ServerSendsNotice
  <2>2. m \in Headers
    BY DEF Headers
  <2> HIDE DEF m
  <2>3. u \in ServerUnits
    BY <1>c, <2>1, <2>2 DEF Unit, ServerUnits, ResponseUnits
  <2>4. conn' = [conn EXCEPT !.wire = Append(conn.wire, u), !.up = FALSE]
        /\ UNCHANGED remote_read_buffer_
    BY <1>3 DEF ServerSendsNotice, buffers, m
  <2> HIDE DEF u
  <2>5. Append(conn.wire, u) \in Seq(ServerUnits)
    BY <2>3, <1>c
  <2> QED
    BY <1>0, <1>c, <2>1, <2>4, <2>5 DEF ServerTypes
<1>4. CASE ServerCloses
  <2>1. PICK n \in 0 .. Len(conn.wire) :
          conn' = [conn EXCEPT !.up = FALSE, !.wire = SubSeq(conn.wire, 1, n)]
    BY <1>4 DEF ServerCloses
  <2>2. SubSeq(conn.wire, 1, n) \in Seq(ServerUnits)
    BY <1>c, Cut
  <2>3. UNCHANGED remote_read_buffer_
    BY <1>4 DEF ServerCloses, buffers
  <2> QED
    BY <1>0, <1>c, <2>1, <2>2, <2>3 DEF ServerTypes
<1>5. CASE ReadClientRequestHeader
  <2>1. UNCHANGED remote_read_buffer_ /\ (Stop \/ UNCHANGED conn)
    BY <1>5, HeaderRead DEF ReadClientRequestHeader
  <2> QED
    BY <2>1, <1>c, <1>s, <1>u
<1>6. CASE EnsureRemoteConnected \/ ResolveRemote \/ ConnectRemote
  <2>1. request \in 1 .. Len(script)
    BY <1>6, <1>c DEF ExchangeTypes, EnsureRemoteConnected, ResolveRemote,
         ConnectRemote
  <2>2. Current.host \in Hosts
    BY <2>1, CurrentTyped DEF Current
  <2>3. /\ \/ conn' = conn \/ conn' = NoConnection
           \/ conn' = [NoConnection EXCEPT !.host = Current.host, !.up = TRUE]
        /\ UNCHANGED remote_read_buffer_
    BY <1>6 DEF EnsureRemoteConnected, ResolveRemote, ConnectRemote, CloseRemote,
         buffers
  <2>4. << >> \in Seq(ServerUnits) /\ << >> \in Seq(1 .. Len(script))
    OBVIOUS
  <2>5. CASE conn' = conn
    BY <2>3, <2>5, <1>u
  <2>6. CASE conn' = NoConnection
    BY <1>0, <1>c, <2>3, <2>4, <2>6 DEF ServerTypes, NoConnection
  <2>7. CASE conn' = [NoConnection EXCEPT !.host = Current.host, !.up = TRUE]
    BY <1>0, <1>c, <2>2, <2>3, <2>4, <2>7 DEF ServerTypes, NoConnection
  <2> QED
    BY <2>3, <2>5, <2>6, <2>7
<1>7. CASE WriteRemoteRequestHeader
  <2>1. request \in 1 .. Len(script)
    BY <1>7, <1>c DEF ExchangeTypes, WriteRemoteRequestHeader
  <2>2. HeadUnit(request) \in ClientUnits
    BY <2>1, RequestTyped
  <2>3. ToServer(HeadUnit(request)) /\ UNCHANGED remote_read_buffer_
    BY <1>7 DEF WriteRemoteRequestHeader, buffers, HeadUnit, Current
  <2> QED
    BY <2>2, <2>3, <1>t
<1>8. CASE ForwardRequestBody
  <2>1. UNCHANGED remote_read_buffer_ /\ (Stop \/ \E u \in ClientUnits : ToServer(u))
    BY <1>8, RequestBodyRead DEF ForwardRequestBody
  <2> QED
    BY <2>1, <1>c, <1>s, <1>t
<1>9. CASE RequestBodyEof \/ ResponseBodyEof
  <2>1. UNCHANGED remote_read_buffer_ /\ (Stop \/ UNCHANGED conn)
    BY <1>9 DEF RequestBodyEof, ResponseBodyEof, EofInBody, buffers
  <2> QED
    BY <2>1, <1>c, <1>s, <1>u
<1>10. CASE ReadRemoteResponseHeader
  <2>1. PICK w \in Seq(ServerUnits) :
          /\ remote_read_buffer_' \in Seq(ServerUnits)
          /\ Stop \/ conn' = [conn EXCEPT !.wire = w]
    BY <1>10, ResponseHeaderRead
  <2> QED
    BY <2>1, <1>0, <1>c, <1>s DEF ServerTypes
<1>11. CASE ForwardResponseBody
  <2>1. PICK w \in Seq(ServerUnits) :
          /\ remote_read_buffer_' \in Seq(ServerUnits)
          /\ Stop \/ conn' = [conn EXCEPT !.wire = w]
    BY <1>11, ResponseBodyRead
  <2> QED
    BY <2>1, <1>0, <1>c, <1>s DEF ServerTypes
<1>12. CASE ClientGone \/ ConnectFails \/ RulesThrow \/ RemoteWriteFails \/ RemoteGone
            \/ ClientWriteFails \/ TunnelEnds
  <2>1. Stop /\ UNCHANGED remote_read_buffer_
    BY <1>12 DEF ClientGone, ConnectFails, RemoteWriteFails, RulesThrow, RemoteGone,
         ClientWriteFails, TunnelEnds, buffers
  <2> QED
    BY <2>1, <1>c, <1>s
<1>13. CASE ShouldKeepAlive
  <2>1. (Stop \/ UNCHANGED conn) /\ UNCHANGED remote_read_buffer_
    BY <1>13 DEF ShouldKeepAlive, buffers
  <2> QED
    BY <2>1, <1>c, <1>s, <1>u
<1>14. CASE TunnelToClient
  <2>1. conn' = [conn EXCEPT !.wire = << >>] /\ remote_read_buffer_' = << >>
    BY <1>14 DEF TunnelToClient
  <2>2. << >> \in Seq(ServerUnits)
    OBVIOUS
  <2> QED
    BY <2>1, <2>2, <1>0, <1>c DEF ServerTypes
<1>15. CASE TunnelToRemote
  <2> DEFINE unread == client_read_buffer_ \o client_wire
  <2>1. unread \in Seq(ClientUnits) /\ unread # << >>
    BY <1>15 DEF TunnelToRemote, ClientTypes
  <2>2. ToServer(Head(unread)) /\ UNCHANGED remote_read_buffer_
    BY <1>15 DEF TunnelToRemote
  <2> HIDE DEF unread
  <2>3. Head(unread) \in ClientUnits
    BY <2>1, HeadAndTail
  <2> QED
    BY <2>2, <2>3, <1>t
<1>16. CASE UNCHANGED vars \/ ClientSends \/ ClientSendsBody \/ ClientCloses
            \/ RequestBodyDone \/ WriteRemoteResponseHeaderToClient
            \/ ResponseBodyDone \/ WriteConnectEstablishedResponseToClient
  <2>1. UNCHANGED <<conn, remote_read_buffer_>>
    BY <1>16 DEF vars, ClientSends, ClientSendsBody, ClientCloses, RequestBodyDone,
         WriteRemoteResponseHeaderToClient, ResponseBodyDone,
         WriteConnectEstablishedResponseToClient, buffers
  <2> QED
    BY <2>1, <1>u
<1> QED
  BY <1>1, <1>2, <1>3, <1>4, <1>5, <1>6, <1>7, <1>8, <1>9, <1>10, <1>11, <1>12,
     <1>13, <1>14, <1>15, <1>16 DEF Next, Environment, Session

LEMMA HistoryStep ==
  ASSUME CaseTypes, ClientTypes, ServerTypes, HistoryTypes, ExchangeTypes,
         [Next]_vars
  PROVE  HistoryTypes'
<1>0. /\ UNCHANGED script /\ ClientUnits' = ClientUnits /\ GotUnits' = GotUnits
      /\ Len(script) \in Nat
  <2>1. UNCHANGED script
    BY Frame
  <2>2. Len(script) \in Nat
    BY DEF CaseTypes
  <2> QED
    BY <2>1, <2>2 DEF ClientUnits, GotUnits, ServerUnits, ResponseUnits
<1>1. client_got' \in Seq(GotUnits)
  <2>0. client_got \in Seq(GotUnits) /\ ServerUnits \subseteq GotUnits
    BY DEF HistoryTypes, GotUnits
  <2>1. CASE WriteRemoteResponseHeaderToClient
    <3>1. response \in GotUnits
      BY <2>1 DEF WriteRemoteResponseHeaderToClient, ExchangeTypes, GotUnits,
           ServerUnits
    <3> QED
      BY <3>1, <2>0, <2>1 DEF WriteRemoteResponseHeaderToClient
  <2>2. CASE ForwardResponseBody
    <3>1. PICK u \in ServerUnits : \/ UNCHANGED client_got
                                   \/ client_got' = Append(client_got, u)
      BY <2>2, ResponseBodyRead
    <3> QED
      BY <3>1, <2>0
  <2>3. CASE WriteConnectEstablishedResponseToClient
    <3> DEFINE u == Unit("established", request, Current.host, NoResponse)
    <3>1. request \in 1 .. Len(script) /\ client_got' = Append(client_got, u)
      BY <1>0, <2>3 DEF WriteConnectEstablishedResponseToClient, ExchangeTypes
    <3>2. Current.host \in Hosts
      BY <3>1, CurrentTyped DEF Current
    <3>3. u \in GotUnits
      BY <1>0, <3>1, <3>2 DEF Unit, GotUnits
    <3> HIDE DEF u
    <3> QED
      BY <3>1, <3>3, <2>0
  <2>4. CASE TunnelToClient
    <3>1. /\ client_got' = (client_got \o remote_read_buffer_) \o conn.wire
          /\ remote_read_buffer_ \in Seq(ServerUnits) /\ conn.wire \in Seq(ServerUnits)
      BY <2>4 DEF TunnelToClient, ServerTypes
    <3>2. remote_read_buffer_ \in Seq(GotUnits) /\ conn.wire \in Seq(GotUnits)
      BY <3>1, <2>0, SeqMonotonic
    <3> QED
      BY <3>1, <3>2, <2>0
  <2> QED
    BY <2>0, <2>1, <2>2, <2>3, <2>4, Frame
<1>2. served' \in Seq([unit : ClientUnits, at : Hosts])
  <2>0. served \in Seq([unit : ClientUnits, at : Hosts])
    BY DEF HistoryTypes
  <2>1. ASSUME NEW u \in ClientUnits, ToServer(u)
        PROVE  served' \in Seq([unit : ClientUnits, at : Hosts])
    <3>1. CASE conn.up
      <4>1. [unit |-> u, at |-> conn.host] \in [unit : ClientUnits, at : Hosts]
        BY <3>1 DEF ServerTypes
      <4>2. served' = Append(served, [unit |-> u, at |-> conn.host])
        BY <2>1, <3>1 DEF ToServer
      <4> QED
        BY <2>0, <4>1, <4>2
    <3>2. CASE ~conn.up
      BY <2>0, <2>1, <3>2 DEF ToServer
    <3> QED
      BY <3>1, <3>2
  <2>2. CASE WriteRemoteRequestHeader
    <3>1. request \in 1 .. Len(script)
      BY <2>2, <1>0 DEF ExchangeTypes, WriteRemoteRequestHeader
    <3>2. HeadUnit(request) \in ClientUnits
      BY <3>1, RequestTyped
    <3>3. ToServer(HeadUnit(request))
      BY <2>2 DEF WriteRemoteRequestHeader, HeadUnit, Current
    <3> QED
      BY <3>2, <3>3, <2>1
  <2>3. CASE ForwardRequestBody
    <3>1. UNCHANGED served \/ \E u \in ClientUnits : ToServer(u)
      BY <2>3, RequestBodyRead
    <3> QED
      BY <3>1, <2>0, <2>1
  <2>4. CASE TunnelToRemote
    <3> DEFINE unread == client_read_buffer_ \o client_wire
    <3>1. unread \in Seq(ClientUnits) /\ unread # << >>
      BY <2>4 DEF TunnelToRemote, ClientTypes
    <3>2. ToServer(Head(unread))
      BY <2>4 DEF TunnelToRemote
    <3> HIDE DEF unread
    <3>3. Head(unread) \in ClientUnits
      BY <3>1, HeadAndTail
    <3> QED
      BY <3>2, <3>3, <2>1
  <2> QED
    BY <2>0, <2>2, <2>3, <2>4, Frame
<1> QED
  BY <1>0, <1>1, <1>2 DEF HistoryTypes

LEMMA ExchangeStep ==
  ASSUME CaseTypes, ClientTypes, ServerTypes, ExchangeTypes, [Next]_vars
  PROVE  ExchangeTypes'
<1>0. /\ UNCHANGED script /\ ResponseUnits' = ResponseUnits /\ Len(script) \in Nat
      /\ (UNCHANGED request => Current' = Current)
  <2>1. UNCHANGED script
    BY Frame
  <2>2. Len(script) \in Nat
    BY DEF CaseTypes
  <2> QED
    BY <2>1, <2>2 DEF ResponseUnits, Current
<1>c. /\ remaining \in Nat /\ request \in 0 .. Len(script)
      /\ pc \notin {"read_request", "stopped"} => request \in 1 .. Len(script)
  BY <1>0 DEF ExchangeTypes
<1>s. ASSUME Stop, remaining' \in Nat, request' \in 0 .. Len(script)
      PROVE  ExchangeTypes'
  BY <1>0, <1>s DEF Stop, ExchangeTypes, ToHost
<1>u. ASSUME UNCHANGED <<pc, request, response>>, remaining' \in Nat
      PROVE  ExchangeTypes'
  BY <1>0, <1>u DEF ExchangeTypes
<1>1. CASE ReadClientRequestHeader
  <2>1. PICK u \in ClientUnits :
          /\ request' = u.id
          /\ pc' = "ensure" \/ Stop
    BY <1>1, HeaderRead
  <2>2. request' \in 1 .. Len(script) /\ remaining' \in Nat
    BY <1>1, <1>c, <2>1 DEF ClientUnits, ReadClientRequestHeader
  <2>3. CASE pc' = "ensure"
    BY <1>0, <2>2, <2>3 DEF ExchangeTypes, ToHost
  <2> QED
    BY <1>0, <2>1, <2>2, <2>3, <1>s
<1>2. CASE EnsureRemoteConnected \/ ResolveRemote \/ ConnectRemote
  <2>1. /\ pc' \in {AfterConnect, "resolving", "connecting"}
        /\ pc \notin {"read_request", "stopped"}
        /\ UNCHANGED <<request, remaining>>
    BY <1>2 DEF EnsureRemoteConnected, ResolveRemote, ConnectRemote, exchange
  <2>2. /\ pc' \in {"write_established", "write_request", "resolving", "connecting"}
        /\ pc' = "write_established" => Current.method = "CONNECT"
        /\ pc' = "write_request" => Current.method # "CONNECT"
    BY <2>1 DEF AfterConnect
  <2> QED
    BY <1>0, <1>c, <2>1, <2>2 DEF ExchangeTypes, ToHost
<1>3. CASE WriteRemoteRequestHeader
  <2>1. remaining' \in Nat
    BY <1>3, <1>0, <1>c, CurrentTyped DEF WriteRemoteRequestHeader, Current
  <2> QED
    BY <1>3, <1>0, <1>c, <2>1 DEF WriteRemoteRequestHeader, ExchangeTypes, ToHost
<1>4. CASE RequestBodyDone \/ ResponseBodyDone
  BY <1>4, <1>0, <1>c DEF RequestBodyDone, ResponseBodyDone, exchange, ExchangeTypes,
       ToHost
<1>5. CASE ForwardRequestBody
  <2>1. /\ pc = "request_body" /\ BodyExpected(RequestBodyInfo(Current))
        /\ UNCHANGED <<request, response>>
    BY <1>5 DEF ForwardRequestBody
  <2>2. RequestBodyInfo(Current) \in {"Chunked", "ContentLength", "None"}
    BY <2>1, <1>c, CurrentTyped DEF Current
  <2>3. RequestBodyInfo(Current) = "Chunked" \/ remaining > 0
    BY <2>1, <2>2 DEF BodyExpected
  <2>4. /\ remaining' = remaining \/ remaining' = 0
              \/ (remaining' = remaining - 1 /\ remaining > 0)
        /\ Stop \/ pc' = pc \/ pc' = "read_response"
    BY <1>5, <2>3, RequestBodyRead
  <2>5. remaining' \in Nat
    BY <1>c, <2>4
  <2> QED
    BY <1>0, <1>c, <1>s, <2>1, <2>4, <2>5 DEF ExchangeTypes, ToHost
<1>6. CASE RequestBodyEof \/ ResponseBodyEof
  <2>1. UNCHANGED exchange /\ (Stop \/ pc' = "spinning") /\ pc \notin {"read_request", "stopped"}
    BY <1>6 DEF RequestBodyEof, ResponseBodyEof, EofInBody
  <2> QED
    BY <1>0, <1>c, <1>s, <2>1 DEF exchange, ExchangeTypes, ToHost
<1>7. CASE ReadRemoteResponseHeader
  <2>1. pc = "read_response" /\ UNCHANGED <<request, remaining>>
    BY <1>7 DEF ReadRemoteResponseHeader
  <2>2. PICK u \in ServerUnits :
          Stop \/ (u.kind = "resp" /\ response' = u /\ pc' = "write_response")
    BY <1>7, ResponseHeaderRead
  <2>3. u.kind = "resp" => u \in ResponseUnits
    BY DEF ServerUnits
  <2> QED
    BY <1>0, <1>c, <1>s, <2>1, <2>2, <2>3 DEF ExchangeTypes, ToHost
<1>8. CASE WriteRemoteResponseHeaderToClient
  <2>1. response \in ResponseUnits
    BY <1>8 DEF WriteRemoteResponseHeaderToClient, ExchangeTypes
  <2>2. /\ response.message.content_length \in Nat \cup {NoLength}
        /\ ResponseBodyInfo(Current, response.message) = "ContentLength" =>
             response.message.content_length # NoLength
    BY <2>1 DEF ResponseUnits, Headers, ResponseBodyInfo
  <2>3. remaining' \in Nat
    BY <1>8, <2>2 DEF WriteRemoteResponseHeaderToClient
  <2> QED
    BY <1>8, <1>0, <1>c, <2>1, <2>3
       DEF WriteRemoteResponseHeaderToClient, ExchangeTypes, ToHost
<1>9. CASE ForwardResponseBody
  <2>1. /\ pc = "response_body" /\ BodyExpected(ResponseFraming)
        /\ UNCHANGED <<request, response>>
    BY <1>9 DEF ForwardResponseBody
  <2>2. ResponseFraming = "ContentLength" => remaining > 0
    BY <2>1 DEF BodyExpected
  <2>3. /\ remaining' = remaining \/ remaining' = 0
              \/ (remaining' = remaining - 1 /\ remaining > 0)
        /\ Stop \/ pc' = pc \/ pc' = "decide"
    BY <1>9, <2>2, ResponseBodyRead
  <2>4. remaining' \in Nat
    BY <1>c, <2>3
  <2> QED
    BY <1>0, <1>c, <1>s, <2>1, <2>3, <2>4 DEF ExchangeTypes, ToHost
<1>10. CASE ClientGone \/ ConnectFails \/ RulesThrow \/ RemoteWriteFails \/ RemoteGone
            \/ ClientWriteFails \/ TunnelEnds
  <2>1. Stop /\ UNCHANGED exchange
    BY <1>10 DEF ClientGone, ConnectFails, RemoteWriteFails, RulesThrow, RemoteGone,
         ClientWriteFails, TunnelEnds
  <2> QED
    BY <2>1, <1>c, <1>s DEF exchange
<1>11. CASE ShouldKeepAlive
  <2>1. (Stop \/ pc' = "read_request") /\ UNCHANGED exchange
    BY <1>11 DEF ShouldKeepAlive
  <2> QED
    BY <2>1, <1>0, <1>c, <1>s DEF exchange, ExchangeTypes, ToHost
<1>12. CASE WriteConnectEstablishedResponseToClient
  BY <1>12, <1>0, <1>c DEF WriteConnectEstablishedResponseToClient, exchange,
       ExchangeTypes, ToHost
<1>13. CASE UNCHANGED vars \/ ClientSends \/ ClientSendsBody \/ ClientCloses
            \/ ServerAnswers \/ ServerSendsInterim \/ ServerSendsNotice
            \/ ServerCloses \/ TunnelToClient \/ TunnelToRemote
  <2>1. UNCHANGED <<pc, request, response, remaining>>
    BY <1>13 DEF vars, ClientSends, ClientSendsBody, ClientCloses, ServerAnswers,
         ServerSendsInterim, ServerSendsNotice, ServerCloses, TunnelToClient,
         TunnelToRemote, exchange
  <2> QED
    BY <2>1, <1>c, <1>u, SMTT(40)
<1> QED
  BY <1>1, <1>2, <1>3, <1>4, <1>5, <1>6, <1>7, <1>8, <1>9, <1>10, <1>11, <1>12,
     <1>13 DEF Next, Environment, Session

LEMMA SocketStep ==
  ASSUME CaseTypes, ClientTypes, ServerTypes, ExchangeTypes, SocketTypes,
         [Next]_vars
  PROVE  SocketTypes'
<1>0. /\ UNCHANGED script /\ Len(script) \in Nat
      /\ (UNCHANGED request => Current' = Current)
  <2>1. UNCHANGED script
    BY Frame
  <2>2. Len(script) \in Nat
    BY DEF CaseTypes
  <2> QED
    BY <2>1, <2>2 DEF Current
<1>s. ASSUME Stop PROVE SocketTypes'
  <2>1. /\ pc' = "stopped" /\ closed_' = TRUE /\ client_open' = FALSE
        /\ remote_open' = FALSE
        /\ remote_state_' = [host |-> NoHost, connected |-> FALSE]
        /\ conn'.host = NoHost
    BY <1>s DEF Stop, CloseRemote, NoConnection
  <2> QED
    BY <2>1 DEF SocketTypes, ConnectionMatches
<1>u. ASSUME UNCHANGED <<sockets, request>>, conn'.host = conn.host,
             pc' = pc \/ pc \in ToHost \cup {"write_established"},
             pc' = pc \/ pc' \notin {"resolving", "connecting", "stopped"}
      PROVE  SocketTypes'
  <2>1. pc # "stopped" => ~closed_
    BY DEF SocketTypes
  <2> QED
    BY <1>0, <1>u, <2>1 DEF SocketTypes, ConnectionMatches, sockets, ToHost
<1>h. ASSUME NEW S, NEW T, conn' = conn \/ conn' = [conn EXCEPT !.wire = S]
                           \/ conn' = [conn EXCEPT !.asked = T]
      PROVE  conn'.host = conn.host
  BY <1>h DEF ServerTypes
<1>1. CASE ReadClientRequestHeader
  <2>1. Stop \/ (pc' = "ensure" /\ UNCHANGED <<sockets, conn>>)
    BY <1>1, HeaderRead
  <2>2. pc = "read_request"
    BY <1>1 DEF ReadClientRequestHeader
  <2> QED
    BY <1>s, <2>1, <2>2 DEF SocketTypes, ConnectionMatches, sockets
<1>2. CASE EnsureRemoteConnected
  <2>1. CASE CanReuse
    <3>1. /\ UNCHANGED <<conn, remote_state_, remote_open, client_open, closed_, request>>
          /\ remote_state_.host = Current.host /\ pc = "ensure"
          /\ pc' \in {"write_established", "write_request"}
      BY <1>2, <2>1 DEF EnsureRemoteConnected, CanReuse, exchange, AfterConnect
    <3> QED
      BY <1>0, <3>1 DEF SocketTypes, ConnectionMatches
  <2>2. CASE ~CanReuse
    <3>1. /\ UNCHANGED <<client_open, closed_, request>> /\ pc = "ensure"
          /\ pc' = "resolving"
          /\ remote_open' = FALSE
          /\ remote_state_' = [host |-> NoHost, connected |-> FALSE]
          /\ conn'.host = NoHost
      BY <1>2, <2>2 DEF EnsureRemoteConnected, exchange, CloseRemote, NoConnection
    <3> QED
      BY <1>0, <3>1 DEF SocketTypes, ConnectionMatches
  <2> QED
    BY <2>1, <2>2
<1>3. CASE ConnectRemote
  <2>1. /\ UNCHANGED <<client_open, closed_, request>> /\ pc = "connecting"
        /\ pc' \in {"write_established", "write_request"}
        /\ UNCHANGED remote_open
        /\ remote_state_' = [host |-> Current.host, connected |-> TRUE]
        /\ conn'.host = Current.host
    BY <1>3 DEF ConnectRemote, exchange, NoConnection, AfterConnect
  <2>2. request \in 1 .. Len(script)
    BY <2>1, <1>0 DEF ExchangeTypes
  <2>3. Current.host \in Hosts /\ Current.host # NoHost
    BY <2>2, CurrentTyped, HostsAssumption DEF Current
  <2> QED
    BY <1>0, <2>1, <2>3 DEF SocketTypes, ConnectionMatches
<1>4. CASE ServerAnswers \/ ServerSendsInterim \/ ServerSendsNotice \/ ServerCloses
  <2>1. conn'.host = conn.host
    BY <1>4 DEF ServerAnswers, ServerSendsInterim, ServerSendsNotice, ServerCloses,
         ServerTypes
  <2>2. UNCHANGED <<sockets, request, pc>>
    BY <1>4 DEF ServerAnswers, ServerSendsInterim, ServerSendsNotice, ServerCloses,
         exchange
  <2> QED
    BY <2>1, <2>2, <1>u
<1>5. CASE WriteRemoteRequestHeader
  <2>1. /\ pc = "write_request" /\ pc' = "request_body" /\ UNCHANGED <<sockets, request>>
        /\ ToServer(Unit("req", request, Current.host, NoResponse))
    BY <1>5 DEF WriteRemoteRequestHeader
  <2>2. conn'.host = conn.host
    BY <2>1, <1>h DEF ToServer
  <2> QED
    BY <2>1, <2>2, <1>u DEF ToHost
<1>6. CASE ForwardRequestBody
  <2>1. pc = "request_body" /\ UNCHANGED request
    BY <1>6 DEF ForwardRequestBody
  <2>2. \/ Stop
        \/ \E u \in ClientUnits : /\ ToServer(u) /\ UNCHANGED sockets
                                  /\ pc' = pc \/ pc' = "read_response"
    BY <1>6, RequestBodyRead
  <2>3. ASSUME NEW u \in ClientUnits, ToServer(u)
        PROVE  conn'.host = conn.host
    BY <2>3, <1>h DEF ToServer
  <2> QED
    BY <2>1, <2>2, <2>3, <1>s, <1>u DEF ToHost
<1>7. CASE TunnelToRemote
  <2>1. /\ UNCHANGED <<sockets, request, pc>>
        /\ ToServer(Head(client_read_buffer_ \o client_wire))
    BY <1>7 DEF TunnelToRemote, exchange
  <2>2. conn'.host = conn.host
    BY <2>1, <1>h DEF ToServer
  <2> QED
    BY <2>1, <2>2, <1>u
<1>8. CASE RequestBodyEof \/ ResponseBodyEof
  <2>1. /\ Stop \/ (pc' = "spinning" /\ UNCHANGED <<conn, sockets>>)
        /\ pc \in ToHost /\ UNCHANGED request
    BY <1>8 DEF RequestBodyEof, ResponseBodyEof, EofInBody, ToHost, exchange
  <2> QED
    BY <2>1, <1>s, <1>u
<1>9. CASE ReadRemoteResponseHeader
  <2>1. pc = "read_response" /\ UNCHANGED request
    BY <1>9 DEF ReadRemoteResponseHeader
  <2>2. \/ Stop
        \/ /\ conn' = [conn EXCEPT !.wire = conn'.wire] /\ pc' = "write_response"
           /\ UNCHANGED sockets
    BY <1>9, ResponseHeaderRead
  <2> QED
    BY <2>1, <2>2, <1>s, <1>u, <1>h DEF ToHost
<1>10. CASE ForwardResponseBody
  <2>1. pc = "response_body" /\ UNCHANGED request
    BY <1>10 DEF ForwardResponseBody
  <2>2. \/ Stop
        \/ /\ conn' = [conn EXCEPT !.wire = conn'.wire]
           /\ pc' = pc \/ pc' = "decide"
           /\ UNCHANGED sockets
    BY <1>10, ResponseBodyRead
  <2> QED
    BY <2>1, <2>2, <1>s, <1>u, <1>h DEF ToHost
<1>11. CASE ClientGone \/ ConnectFails \/ RulesThrow \/ RemoteWriteFails \/ RemoteGone
            \/ ClientWriteFails \/ TunnelEnds
  <2>1. Stop
    BY <1>11 DEF ClientGone, ConnectFails, RemoteWriteFails, RulesThrow, RemoteGone,
         ClientWriteFails, TunnelEnds
  <2> QED
    BY <2>1, <1>s
<1>12. CASE ShouldKeepAlive
  <2>1. /\ Stop \/ (pc' = "read_request" /\ UNCHANGED <<conn, sockets>>)
        /\ pc = "decide" /\ UNCHANGED request
    BY <1>12 DEF ShouldKeepAlive, exchange
  <2> QED
    BY <2>1, <1>s, <1>u DEF ToHost
<1>13. CASE TunnelToClient
  <2>1. UNCHANGED <<sockets, request, pc>> /\ conn' = [conn EXCEPT !.wire = << >>]
    BY <1>13 DEF TunnelToClient, exchange
  <2> QED
    BY <2>1, <1>u, <1>h
<1>14. CASE \/ RequestBodyDone \/ WriteRemoteResponseHeaderToClient
            \/ ResponseBodyDone \/ WriteConnectEstablishedResponseToClient
  <2>1. /\ UNCHANGED <<sockets, request, conn>>
        /\ pc' \notin {"resolving", "connecting", "stopped"}
        /\ pc \in ToHost \cup {"write_established"}
    BY <1>14 DEF RequestBodyDone, WriteRemoteResponseHeaderToClient,
         ResponseBodyDone, WriteConnectEstablishedResponseToClient, exchange, ToHost
  <2> QED
    BY <2>1, <1>u
<1>15. CASE UNCHANGED vars \/ ClientSends \/ ClientSendsBody \/ ClientCloses
  <2>1. UNCHANGED <<sockets, request, conn, pc>>
    BY <1>15 DEF vars, ClientSends, ClientSendsBody, ClientCloses, exchange
  <2> QED
    BY <2>1, <1>u
<1>16. CASE ResolveRemote
  <2>1. /\ UNCHANGED <<conn, remote_state_, client_open, closed_, request>>
        /\ pc = "resolving" /\ pc' = "connecting"
        /\ remote_open' = TRUE
    BY <1>16 DEF ResolveRemote, exchange
  <2> QED
    BY <1>0, <2>1 DEF SocketTypes, ConnectionMatches
<1> QED
  BY <1>1, <1>2, <1>3, <1>4, <1>5, <1>6, <1>7, <1>8, <1>9, <1>10, <1>11, <1>12,
     <1>13, <1>14, <1>15, <1>16 DEF Next, Environment, Session

LEMMA TypesStep == TypeInv /\ [Next]_vars => TypeInv'
  BY CaseStep, ClientStep, ServerStep, HistoryStep, ExchangeStep, SocketStep
     DEF TypeInv

LEMMA TypesHold == Spec => []TypeInv
  BY TypesInit, TypesStep, PTL DEF Spec

(***************************************************************************)
(* remote_state_ always tells the truth about the remote socket, whatever  *)
(* the client and the servers do and wherever a step fails, and while an   *)
(* exchange is under way the socket is connected to the host its request   *)
(* names.                                                                  *)
(***************************************************************************)
THEOREM StateIsTruthful == Spec => []ConnectionMatches
<1>1. TypeInv => ConnectionMatches
  BY DEF TypeInv, SocketTypes
<1> QED
  BY <1>1, TypesHold, PTL

-----------------------------------------------------------------------------
(***************************************************************************)
(* What the client has sent and the session not yet taken.  s is what the  *)
(* client sends for the requests a to b.                                   *)
(***************************************************************************)
Unread == Cat(Cat(client_read_buffer_, client_wire),
              IF client_eof THEN << >> ELSE withheld)

Message(k) == Prepend(HeadUnit(k), RequestBody(k))

IsStream(a, b, s) ==
  \E f \in [a .. b + 1 -> Seq(ClientUnits)] :
    /\ f[b + 1] = << >>
    /\ \A i \in a .. b : f[i] = Cat(Message(i), f[i + 1])
    /\ s = f[a]

LEMMA StreamEmpty ==
  ASSUME NEW a \in Nat
  PROVE  /\ IsStream(a + 1, a, << >>)
         /\ \A s : IsStream(a + 1, a, s) => s = << >>
<1>1. IsStream(a + 1, a, << >>)
  <2> DEFINE f == [i \in a + 1 .. a + 1 |-> << >>]
  <2>1. f \in [a + 1 .. a + 1 -> Seq(ClientUnits)]
    OBVIOUS
  <2>2. f[a + 1] = << >> /\ \A i \in a + 1 .. a : FALSE
    OBVIOUS
  <2> HIDE DEF f
  <2> QED
    BY <2>1, <2>2 DEF IsStream
<1>2. \A s : IsStream(a + 1, a, s) => s = << >>
  BY DEF IsStream
<1> QED
  BY <1>1, <1>2

\* The client sends another request.
LEMMA StreamGrows ==
  ASSUME CaseTypes, NEW a \in Nat \ {0}, NEW b \in Nat, a <= b + 1,
         b + 1 \in 1 .. Len(script), NEW s, IsStream(a, b, s)
  PROVE  IsStream(a, b + 1, Cat(s, Message(b + 1)))
<1> DEFINE m == Message(b + 1)
<1>1. PICK f \in [a .. b + 1 -> Seq(ClientUnits)] :
        /\ f[b + 1] = << >>
        /\ \A i \in a .. b : f[i] = Cat(Message(i), f[i + 1])
        /\ s = f[a]
  BY DEF IsStream
<1>2. m \in Seq(ClientUnits)
  BY RequestTyped, PrependType DEF Message
<1> HIDE DEF m
<1> DEFINE g == [i \in a .. b + 1 + 1 |-> IF i = b + 1 + 1 THEN << >> ELSE Cat(f[i], m)]
<1>3. ASSUME NEW i \in a .. b + 1 + 1
      PROVE  g[i] \in Seq(ClientUnits)
  <2>1. CASE i = b + 1 + 1
    BY <2>1
  <2>2. CASE i # b + 1 + 1
    <3>1. i \in a .. b + 1
      BY <2>2
    <3>2. f[i] \in Seq(ClientUnits)
      BY <3>1
    <3>3. Cat(f[i], m) \in Seq(ClientUnits)
      BY <1>2, <3>2, CatType
    <3> QED
      BY <2>2, <3>3
  <2> QED
    BY <2>1, <2>2
<1>4. g \in [a .. b + 1 + 1 -> Seq(ClientUnits)]
  BY <1>3
<1>5. g[b + 1 + 1] = << >> /\ g[b + 1] = m
  <2>1. b + 1 \in a .. b + 1 + 1 /\ b + 1 + 1 \in a .. b + 1 + 1 /\ b + 1 # b + 1 + 1
    OBVIOUS
  <2>2. Cat(<< >>, m) = m
    BY <1>2, CatNone
  <2> QED
    BY <1>1, <2>1, <2>2
<1>6. ASSUME NEW i \in a .. b + 1
      PROVE  g[i] = Cat(Message(i), g[i + 1])
  <2>1. CASE i = b + 1
    <3>1. Cat(m, << >>) = m
      BY <1>2, CatNone
    <3> QED
      BY <2>1, <1>5, <3>1 DEF m
  <2>2. CASE i # b + 1
    <3>1. i \in a .. b /\ i + 1 \in a .. b + 1 /\ i # b + 1 + 1 /\ i + 1 # b + 1 + 1
          /\ i \in a .. b + 1 + 1 /\ i + 1 \in a .. b + 1 + 1
      BY <2>2
    <3>2. g[i] = Cat(f[i], m) /\ g[i + 1] = Cat(f[i + 1], m)
      BY <3>1
    <3>3. f[i] = Cat(Message(i), f[i + 1]) /\ f[i + 1] \in Seq(ClientUnits)
      BY <3>1, <1>1
    <3>4. Message(i) \in Seq(ClientUnits)
      <4>1. i \in 1 .. Len(script)
        BY <3>1
      <4> QED
        BY <4>1, RequestTyped, PrependType DEF Message
    <3> HIDE DEF g
    <3> QED
      BY <1>2, <3>2, <3>3, <3>4, CatAssoc
  <2> QED
    BY <2>1, <2>2
<1>7. g[a] = Cat(s, m)
  <2>1. a \in a .. b + 1 + 1 /\ a # b + 1 + 1
    OBVIOUS
  <2> QED
    BY <1>1, <2>1
<1> HIDE DEF g
<1> QED
  BY <1>4, <1>5, <1>6, <1>7 DEF IsStream, m

\* The session takes a request.
LEMMA StreamPops ==
  ASSUME NEW a \in Nat, NEW b \in Nat, a <= b + 1, NEW s, IsStream(a, b, s),
         s # << >>
  PROVE  /\ a <= b
         /\ \E t \in Seq(ClientUnits) : IsStream(a + 1, b, t) /\ s = Cat(Message(a), t)
<1>1. PICK f \in [a .. b + 1 -> Seq(ClientUnits)] :
        /\ f[b + 1] = << >>
        /\ \A i \in a .. b : f[i] = Cat(Message(i), f[i + 1])
        /\ s = f[a]
  BY DEF IsStream
<1>2. a <= b
  <2>1. a = b + 1 => s = << >>
    BY <1>1
  <2> QED
    BY <2>1
<1> DEFINE g == [i \in a + 1 .. b + 1 |-> f[i]]
<1>3. /\ g \in [a + 1 .. b + 1 -> Seq(ClientUnits)]
      /\ g[b + 1] = << >> /\ g[a + 1] = f[a + 1]
      /\ \A i \in a + 1 .. b : g[i] = Cat(Message(i), g[i + 1])
  <2>1. a + 1 \in a + 1 .. b + 1 /\ b + 1 \in a + 1 .. b + 1
    BY <1>2
  <2>2. \A i \in a + 1 .. b + 1 : i \in a .. b + 1 /\ g[i] = f[i]
    OBVIOUS
  <2>3. ASSUME NEW i \in a + 1 .. b PROVE g[i] = Cat(Message(i), g[i + 1])
    <3>1. i \in a .. b /\ i \in a + 1 .. b + 1 /\ i + 1 \in a + 1 .. b + 1
      OBVIOUS
    <3>2. g[i] = f[i] /\ g[i + 1] = f[i + 1]
      BY <3>1, <2>2
    <3>3. f[i] = Cat(Message(i), f[i + 1])
      BY <1>1, <3>1
    <3> HIDE DEF g
    <3> QED
      BY <3>2, <3>3
  <2>4. g \in [a + 1 .. b + 1 -> Seq(ClientUnits)]
    BY <2>2
  <2> QED
    BY <1>1, <2>1, <2>2, <2>3, <2>4
<1> HIDE DEF g
<1>4. IsStream(a + 1, b, g[a + 1])
  BY <1>3 DEF IsStream
<1>5. s = Cat(Message(a), g[a + 1]) /\ g[a + 1] \in Seq(ClientUnits)
  <2>1. a \in a .. b /\ a + 1 \in a + 1 .. b + 1
    BY <1>2
  <2>2. f[a] = Cat(Message(a), f[a + 1])
    BY <1>1, <2>1
  <2>3. g[a + 1] \in Seq(ClientUnits)
    BY <1>3, <2>1
  <2> QED
    BY <1>1, <1>3, <2>2, <2>3
<1> QED
  BY <1>2, <1>4, <1>5

(***************************************************************************)
(* The invariant of the client's side.  As long as the session goes on,    *)
(* what it has not taken is the rest of the current request's body,        *)
(* followed by the later requests, up to where the client cut it off; and  *)
(* while it forwards, the server has what was taken.                       *)
(***************************************************************************)
Asking == {"ensure", "resolving", "connecting", "write_request", "write_established"}

BodyOf(k) == IF k = 0 THEN << >> ELSE RequestBody(k)

RoutedHead(k) ==
  IF script[k].method = "CONNECT" THEN << >>
  ELSE <<Unit("req", k, script[k].host, NoResponse)>>

SentUnits == [j \in DOMAIN served |-> served[j].unit]
SentOf(k) == OfRequest(SentUnits, k)

Streaming(done, rest, later, cut) ==
  /\ BodyOf(request) = Cat(done, rest)
  /\ IsStream(request + 1, sent, later)
  /\ Cat(Unread, cut) = Cat(rest, later)
  /\ ~client_eof => cut = << >>

Forwarding(done, rest) ==
  /\ pc \in Asking => done = << >>
  /\ pc = "request_body" /\ RequestBodyInfo(Current) = "ContentLength" =>
       Len(rest) = remaining
  /\ pc \in {"request_body", "tunnel"} /\ conn.up =>
       SentOf(request) = Cat(RoutedHead(request), done)

StreamInv ==
  pc \notin {"stopped", "spinning"} =>
    \E done, rest, later, cut \in Seq(ClientUnits) :
      Streaming(done, rest, later, cut) /\ Forwarding(done, rest)

RoutedInv ==
  /\ request <= sent
  /\ \A j \in DOMAIN served : served[j].unit.id <= request
  /\ pc \in Asking => \A j \in DOMAIN served : served[j].unit.id < request
  /\ RequestsRouted

-----------------------------------------------------------------------------
LEMMA OfRequestType ==
  ASSUME NEW S, NEW s \in Seq(S), NEW k
  PROVE  OfRequest(s, k) \in Seq(S)
  BY SubsequenceType DEF OfRequest

LEMMA OfRequestNone ==
  ASSUME NEW S, NEW s \in Seq(S), NEW k, \A j \in DOMAIN s : s[j].id # k
  PROVE  OfRequest(s, k) = << >>
<1>1. \A j \in 1 .. Len(s) : j \notin {i \in DOMAIN s : s[i].id = k}
  OBVIOUS
<1> QED
  BY <1>1, SubsequenceNone DEF OfRequest

LEMMA OfRequestAppend ==
  ASSUME NEW S, NEW s \in Seq(S), NEW u \in S, NEW k
  PROVE  OfRequest(Append(s, u), k) =
           IF u.id = k THEN Append(OfRequest(s, k), u) ELSE OfRequest(s, k)
<1> DEFINE J == {j \in DOMAIN s : s[j].id = k}
           K == {j \in DOMAIN Append(s, u) : Append(s, u)[j].id = k}
<1>1. \A j \in 1 .. Len(s) : Append(s, u)[j] = s[j] /\ j \in DOMAIN Append(s, u)
                             /\ j \in DOMAIN s
  OBVIOUS
<1>2. \A j \in 1 .. Len(s) : j \in J <=> j \in K
  BY <1>1
<1>3. Len(s) + 1 \in K <=> u.id = k
  OBVIOUS
<1> HIDE DEF J, K
<1>4. Subsequence(Append(s, u), K) =
        IF Len(s) + 1 \in K THEN Append(Subsequence(s, J), u) ELSE Subsequence(s, J)
  BY <1>2, SubsequenceAppend
<1>5. OfRequest(s, k) = Subsequence(s, J)
      /\ OfRequest(Append(s, u), k) = Subsequence(Append(s, u), K)
  BY DEF OfRequest, J, K
<1> QED
  BY <1>3, <1>4, <1>5

LEMMA PrefixIntro ==
  ASSUME NEW S, NEW s \in Seq(S), NEW t \in Seq(S)
  PROVE  IsPrefix(s, s \o t)
<1>1. Len(s) <= Len(s \o t) /\ Len(s) \in Nat
  OBVIOUS
<1>2. SubSeq(s, 1, Len(s)) = SubSeq(s \o t, 1, Len(s))
  OBVIOUS
<1> QED
  BY <1>1, <1>2 DEF IsPrefix

\* The units of the history.
LEMMA SentUnitsTyped ==
  ASSUME HistoryTypes
  PROVE  /\ SentUnits \in Seq(ClientUnits) /\ Len(SentUnits) = Len(served)
         /\ DOMAIN SentUnits = 1 .. Len(served) /\ DOMAIN served = 1 .. Len(served)
         /\ Len(served) \in Nat
         /\ \A j \in 1 .. Len(served) :
              SentUnits[j] = served[j].unit /\ served[j].unit \in ClientUnits
<1>1. /\ DOMAIN served = 1 .. Len(served) /\ Len(served) \in Nat
      /\ \A j \in 1 .. Len(served) : served[j] \in [unit : ClientUnits, at : Hosts]
  <2> DEFINE T == [unit : ClientUnits, at : Hosts]
  <2>1. served \in Seq(T)
    BY DEF HistoryTypes
  <2> HIDE DEF T
  <2>2. /\ DOMAIN served = 1 .. Len(served) /\ Len(served) \in Nat
        /\ \A j \in 1 .. Len(served) : served[j] \in T
    BY <2>1
  <2> QED
    BY <2>2 DEF T
<1>2. SentUnits \in [1 .. Len(served) -> ClientUnits]
  BY <1>1 DEF SentUnits
<1>3. SentUnits \in Seq(ClientUnits) /\ Len(SentUnits) = Len(served)
  BY <1>1, <1>2, FunctionIsSeq
<1> QED
  BY <1>1, <1>2, <1>3 DEF SentUnits

(***************************************************************************)
(* A unit u of the current request reaches its server: the history grows   *)
(* by u.                                                                   *)
(***************************************************************************)
LEMMA ServedGrows ==
  ASSUME CaseTypes, ServerTypes, HistoryTypes, SocketTypes, RoutedInv,
         request \in 1 .. Len(script),
         NEW u \in ClientUnits, u.id = request, conn.up, ToServer(u),
         UNCHANGED <<script, request>>,
         conn.host = Current.host,
         NEW q \in Seq(ClientUnits),
         Cat(Append(SentOf(request), u), q) = Cat(RoutedHead(request), RequestBody(request))
  PROVE  /\ SentOf(request)' = Append(SentOf(request), u)
         /\ \A j \in DOMAIN served' : served'[j].unit.id <= request
         /\ RequestsRouted'
<1> DEFINE e == [unit |-> u, at |-> conn.host]
<1>1. e \in [unit : ClientUnits, at : Hosts] /\ e.unit = u /\ e.at = conn.host
  BY DEF ServerTypes
<1>2. served' = Append(served, e) /\ served \in Seq([unit : ClientUnits, at : Hosts])
  BY DEF ToServer, HistoryTypes
<1> HIDE DEF e
<1>3. /\ DOMAIN served' = 1 .. Len(served) + 1 /\ DOMAIN served = 1 .. Len(served)
      /\ Len(served) \in Nat
      /\ served'[Len(served) + 1] = e
      /\ \A j \in 1 .. Len(served) : served'[j] = served[j]
  BY <1>1, <1>2
<1>4. SentUnits' = Append(SentUnits, u)
  <2>1. /\ SentUnits \in Seq(ClientUnits) /\ Len(SentUnits) = Len(served)
        /\ \A j \in 1 .. Len(served) : SentUnits[j] = served[j].unit
    BY SentUnitsTyped
  <2>2. /\ DOMAIN Append(SentUnits, u) = 1 .. Len(served) + 1
        /\ Append(SentUnits, u)[Len(served) + 1] = u
        /\ \A j \in 1 .. Len(served) : Append(SentUnits, u)[j] = SentUnits[j]
    BY <2>1
  <2>3. SentUnits' = [j \in 1 .. Len(served) + 1 |-> served'[j].unit]
    BY <1>3 DEF SentUnits
  <2>4. Append(SentUnits, u) \in Seq(ClientUnits)
        /\ Len(Append(SentUnits, u)) = Len(served) + 1
    BY <2>1
  <2>5. \A j \in 1 .. Len(served) + 1 : served'[j].unit = Append(SentUnits, u)[j]
    <3> SUFFICES ASSUME NEW j \in 1 .. Len(served) + 1
                 PROVE  served'[j].unit = Append(SentUnits, u)[j]
      OBVIOUS
    <3>1. CASE j = Len(served) + 1
      BY <3>1, <1>1, <1>3, <2>2
    <3>2. CASE j # Len(served) + 1
      <4>1. j \in 1 .. Len(served)
        BY <3>2, <1>3
      <4> QED
        BY <4>1, <1>3, <2>1, <2>2
    <3> QED
      BY <3>1, <3>2
  <2>6. SentUnits' \in [1 .. Len(served) + 1 -> ClientUnits]
    <3>1. \A j \in 1 .. Len(served) + 1 : Append(SentUnits, u)[j] \in ClientUnits
      BY <2>4, ElementOfSeq
    <3> QED
      BY <2>3, <2>5, <3>1
  <2>7. SentUnits' \in Seq(ClientUnits) /\ Len(SentUnits') = Len(served) + 1
    <3>1. Len(served) + 1 \in Nat
      BY <1>3
    <3> QED
      BY <3>1, <2>6, FunctionIsSeq
  <2>8. \A j \in 1 .. Len(served) + 1 : SentUnits'[j] = Append(SentUnits, u)[j]
    BY <2>3, <2>5
  <2> QED
    BY <2>4, <2>7, <2>8, SeqEqual
<1>5. SentUnits \in Seq(ClientUnits)
  BY SentUnitsTyped
<1>6. ASSUME NEW k
      PROVE  SentOf(k)' = IF request = k THEN Append(SentOf(k), u) ELSE SentOf(k)
  <2>2. OfRequest(Append(SentUnits, u), k) =
          IF u.id = k THEN Append(OfRequest(SentUnits, k), u) ELSE OfRequest(SentUnits, k)
    BY <1>5, OfRequestAppend
  <2>4. SentOf(k)' = OfRequest(Append(SentUnits, u), k)
    BY <1>4 DEF SentOf
  <2> QED
    BY <2>2, <2>4 DEF SentOf
<1>7. SentOf(request)' = Append(SentOf(request), u)
  BY <1>6
<1>8. \A j \in DOMAIN served' : served'[j].unit.id <= request
  <2>1. \A j \in 1 .. Len(served) : served[j].unit.id <= request
    BY <1>3 DEF RoutedInv
  <2>2. e.unit.id <= request
    BY <1>1
  <2> QED
    BY <1>3, <2>1, <2>2
<1>9. \A j \in DOMAIN served' : served'[j].at = script[served'[j].unit.id].host
  <2>1. \A j \in 1 .. Len(served) : served[j].at = script[served[j].unit.id].host
    BY <1>3 DEF RoutedInv, RequestsRouted
  <2>2. e.at = script[e.unit.id].host
    BY <1>1 DEF Current
  <2>3. ASSUME NEW j \in DOMAIN served'
        PROVE  served'[j].at = script[served'[j].unit.id].host
    <3>1. CASE j \in 1 .. Len(served)
      BY <1>3, <2>1, <3>1
    <3>2. CASE j = Len(served) + 1
      BY <1>3, <2>2, <3>2
    <3> QED
      BY <1>3, <3>1, <3>2
  <2> QED
    BY <2>3
<1>10. ASSUME NEW i \in DOMAIN served', NEW j \in DOMAIN served', i < j
       PROVE  served'[i].unit.id <= served'[j].unit.id
  <2>1. i \in 1 .. Len(served) /\ served'[i] = served[i]
    BY <1>3, <1>10
  <2>2. CASE j \in 1 .. Len(served)
    BY <1>3, <1>10, <2>1, <2>2 DEF RoutedInv, RequestsRouted
  <2>3. CASE j = Len(served) + 1
    BY <1>1, <1>3, <2>1, <2>3 DEF RoutedInv
  <2> QED
    BY <1>3, <2>2, <2>3
<1>11. ASSUME NEW k \in DOMAIN script
       PROVE  IsPrefix(SentOf(k)', Cat(RoutedHead(k), RequestBody(k)))
  <2>1. CASE k = request
    <3>1. SentOf(k) \in Seq(ClientUnits) /\ Append(SentOf(k), u) \in Seq(ClientUnits)
      BY <1>5, OfRequestType DEF SentOf
    <3>2. IsPrefix(Append(SentOf(k), u), Cat(Append(SentOf(k), u), q))
      BY <3>1, PrefixIntro DEF Cat
    <3> QED
      BY <2>1, <1>7, <3>2, Zenon
  <2>2. CASE k # request
    <3>1. SentOf(k)' = SentOf(k)
      BY <2>2, <1>6
    <3>2. IsPrefix(SentOf(k), Cat(RoutedHead(k), RequestBody(k)))
      BY DEF RoutedInv, RequestsRouted, SentOf, SentUnits, RoutedHead, RequestBody, Cat
    <3> QED
      BY <3>1, <3>2
  <2> QED
    BY <2>1, <2>2
<1>12. RequestsRouted'
  BY <1>9, <1>10, <1>11 DEF RequestsRouted, SentOf, SentUnits, RoutedHead, RequestBody, Cat
<1> QED
  BY <1>7, <1>8, <1>12

-----------------------------------------------------------------------------
(***************************************************************************)
(* The session takes the first unit the client has sent.                   *)
(***************************************************************************)
LEMMA UnreadTyped ==
  ASSUME ClientTypes
  PROVE  Unread \in Seq(ClientUnits)
<1>1. (IF client_eof THEN << >> ELSE withheld) \in Seq(ClientUnits)
  BY DEF ClientTypes
<1> QED
  BY <1>1, CatType DEF ClientTypes, Unread

LEMMA UnreadTakes ==
  ASSUME ClientTypes, ClientTypes', UNCHANGED <<script, client_eof, withheld>>,
         NEW u \in ClientUnits,
         client_read_buffer_ \o client_wire
           = <<u>> \o (client_read_buffer_' \o client_wire')
  PROVE  Unread' \in Seq(ClientUnits) /\ Unread = Prepend(u, Unread')
<1> DEFINE b == Cat(client_read_buffer_', client_wire')
           w == IF client_eof THEN << >> ELSE withheld
<1>1. ClientUnits' = ClientUnits
  BY DEF ClientUnits
<1>2. b \in Seq(ClientUnits) /\ w \in Seq(ClientUnits)
  BY <1>1, CatType DEF ClientTypes
<1>3. Unread' = Cat(b, w)
  BY DEF Unread
<1>4. Unread = Cat(Prepend(u, b), w)
  BY Zenon DEF Unread, Cat, Prepend
<1> HIDE DEF b, w
<1> QED
  BY <1>2, <1>3, <1>4, PrependCat, CatType

LEMMA BodyOfTyped ==
  ASSUME CaseTypes, request \in 0 .. Len(script)
  PROVE  /\ BodyOf(request) \in Seq(ClientUnits)
         /\ \A j \in 1 .. Len(BodyOf(request)) :
              /\ BodyOf(request)[j].kind \in {"piece", "last"}
              /\ BodyOf(request)[j].id = request
<1>0. Len(script) \in Nat
  BY DEF CaseTypes
<1>1. CASE request = 0
  <2>1. BodyOf(request) = << >>
    BY <1>1 DEF BodyOf
  <2> QED
    BY <2>1
<1>2. CASE request # 0
  <2>1. request \in 1 .. Len(script)
    BY <1>0, <1>2
  <2>2. RequestBody(request) \in Seq(BodyElements(request, script[request].host))
    BY <2>1, CurrentTyped, BodyTyped DEF RequestBody
  <2>3. RequestBody(request) \in Seq(ClientUnits)
    BY <2>1, RequestTyped
  <2>4. \A j \in 1 .. Len(RequestBody(request)) :
          RequestBody(request)[j] \in BodyElements(request, script[request].host)
    BY <2>2, ElementOfSeq
  <2>5. BodyOf(request) = RequestBody(request)
    BY <1>2 DEF BodyOf
  <2>6. \A v \in BodyElements(request, script[request].host) :
          v.kind \in {"piece", "last"} /\ v.id = request
    BY DEF BodyElements
  <2> QED
    BY <2>3, <2>4, <2>5, <2>6
<1> QED
  BY <1>1, <1>2

(***************************************************************************)
(* The first unread unit belongs to the body of the current request, or    *)
(* that is at its end and the unit is the header of the next one.          *)
(***************************************************************************)
LEMMA StreamTakes ==
  ASSUME CaseTypes, ClientTypes, request \in 0 .. Len(script), request <= sent,
         NEW done \in Seq(ClientUnits), NEW rest \in Seq(ClientUnits),
         NEW later \in Seq(ClientUnits), NEW cut \in Seq(ClientUnits),
         Streaming(done, rest, later, cut),
         NEW u \in ClientUnits, NEW x \in Seq(ClientUnits), Unread = Prepend(u, x)
  PROVE  \/ /\ u.kind \in {"piece", "last"} /\ u.id = request
            /\ \E t \in Seq(ClientUnits) :
                 rest = Prepend(u, t) /\ Cat(x, cut) = Cat(t, later)
         \/ /\ rest = << >> /\ request + 1 <= sent
            /\ u = HeadUnit(request + 1)
            /\ \E t \in Seq(ClientUnits) :
                 /\ IsStream(request + 2, sent, t)
                 /\ Cat(x, cut) = Cat(RequestBody(request + 1), t)
<1>0. Len(script) \in Nat /\ sent \in 0 .. Len(script)
  BY DEF CaseTypes, ClientTypes
<1>1. Cat(Prepend(u, x), cut) = Cat(rest, later)
  BY DEF Streaming
<1>2. CASE rest # << >>
  <2>1. PICK v \in ClientUnits, t \in Seq(ClientUnits) : rest = Prepend(v, t)
    BY <1>2, Uncons
  <2>2. u = v /\ Cat(x, cut) = Cat(t, later)
    BY <1>1, <2>1, FirstSome
  <2>3. BodyOf(request) = Cat(done, Prepend(u, t))
    BY <2>1, <2>2 DEF Streaming
  <2>4. /\ Len(done) + 1 \in 1 .. Len(Cat(done, Prepend(u, t)))
        /\ Cat(done, Prepend(u, t))[Len(done) + 1] = u
    <3>1. Len(Prepend(u, t)) = Len(t) + 1 /\ Prepend(u, t)[1] = u /\ Prepend(u, t) \in Seq(ClientUnits)
      BY DEF Prepend
    <3>2. ASSUME NEW c \in Seq(ClientUnits), Len(c) = Len(t) + 1
          PROVE  /\ Len(done) + 1 \in 1 .. Len(Cat(done, c))
                 /\ Cat(done, c)[Len(done) + 1] = c[1]
      BY <3>2 DEF Cat
    <3> QED
      BY <3>1, <3>2
  <2>5. u.kind \in {"piece", "last"} /\ u.id = request
    BY <2>3, <2>4, BodyOfTyped
  <2> QED
    BY <2>1, <2>2, <2>5
<1>3. CASE rest = << >>
  <2> DEFINE next == request + 1
  <2>1. later = Prepend(u, Cat(x, cut)) /\ Cat(x, cut) \in Seq(ClientUnits)
    BY <1>1, <1>3, FirstNone, CatType
  <2>2. later # << >>
    BY <2>1, PrependSome
  <2>3. next \in Nat /\ sent \in Nat /\ next <= sent + 1 /\ next + 1 = request + 2
    BY <1>0
  <2>4. IsStream(next, sent, later)
    BY DEF Streaming
  <2> HIDE DEF next
  <2>5. /\ next <= sent
        /\ \E t \in Seq(ClientUnits) :
             IsStream(next + 1, sent, t) /\ later = Cat(Message(next), t)
    BY <2>2, <2>3, <2>4, StreamPops
  <2>6. PICK t \in Seq(ClientUnits) :
          IsStream(next + 1, sent, t) /\ later = Cat(Message(next), t)
    BY <2>5
  <2>7. HeadUnit(next) \in ClientUnits /\ RequestBody(next) \in Seq(ClientUnits)
    <3>1. next \in 1 .. Len(script)
      BY <1>0, <2>5 DEF next
    <3> QED
      BY <3>1, RequestTyped
  <2>8. Prepend(u, Cat(x, cut)) = Prepend(HeadUnit(next), Cat(RequestBody(next), t))
    BY <2>1, <2>6, <2>7, PrependCat DEF Message
  <2>9. u = HeadUnit(next) /\ Cat(x, cut) = Cat(RequestBody(next), t)
    BY <2>1, <2>7, <2>8, CatType, PrependEqual
  <2> QED
    BY <1>3, <2>3, <2>5, <2>6, <2>9 DEF next
<1> QED
  BY <1>2, <1>3

-----------------------------------------------------------------------------
(***************************************************************************)
(* Steps that take nothing from the client and send nothing to a server.   *)
(***************************************************************************)
Passing ==
  /\ UNCHANGED <<request, served>>
  /\ pc' \in Asking => pc \in Asking
  /\ pc' = "request_body" => pc = "request_body" /\ remaining' = remaining
  /\ pc' = "tunnel" => pc = "tunnel"
  /\ pc' \in {"request_body", "tunnel"} /\ conn'.up => conn.up
  /\ pc' \notin {"stopped", "spinning"} => pc \notin {"stopped", "spinning"}

LEMMA PassingSteps ==
  ASSUME ServerTypes, [Next]_vars
  PROVE  \/ Passing
         \/ ReadClientRequestHeader \/ WriteRemoteRequestHeader \/ ForwardRequestBody
         \/ WriteConnectEstablishedResponseToClient \/ TunnelToRemote
<1>1. CASE Environment
  <2>1. UNCHANGED <<pc, request, remaining, served>> /\ (conn'.up => conn.up)
    BY <1>1 DEF Environment, ClientSends, ClientSendsBody, ClientCloses, ServerAnswers,
      ServerSendsInterim, ServerSendsNotice, ServerCloses, exchange, ServerTypes
  <2> QED
    BY <2>1 DEF Passing
<1>2. CASE \/ ClientGone \/ EnsureRemoteConnected \/ ResolveRemote \/ ConnectRemote \/ ConnectFails
           \/ RulesThrow \/ RemoteWriteFails \/ RequestBodyDone \/ RequestBodyEof
           \/ RemoteGone \/ ClientWriteFails \/ ResponseBodyDone \/ ResponseBodyEof
           \/ ShouldKeepAlive \/ TunnelEnds
  BY <1>2 DEF Passing, ClientGone, EnsureRemoteConnected, ResolveRemote, ConnectRemote, ConnectFails,
    RemoteWriteFails, RulesThrow, RequestBodyDone, RequestBodyEof, EofInBody,
    RemoteGone, ClientWriteFails, ResponseBodyDone, ResponseBodyEof,
    ShouldKeepAlive, TunnelEnds, Stop, AfterConnect, exchange, Asking
<1>3. CASE ReadRemoteResponseHeader
  BY <1>3 DEF Passing, ReadRemoteResponseHeader, Stop, Asking
<1>4. CASE ForwardResponseBody
  BY <1>4 DEF Passing, ForwardResponseBody, Stop, Asking
<1>5. CASE WriteRemoteResponseHeaderToClient
  BY <1>5 DEF Passing, WriteRemoteResponseHeaderToClient, Asking
<1>6. CASE TunnelToClient
  BY <1>6 DEF Passing, TunnelToClient, exchange, Asking, ServerTypes
<1>7. CASE UNCHANGED vars
  BY <1>7 DEF Passing, vars, exchange
<1> QED
  BY <1>1, <1>2, <1>3, <1>4, <1>5, <1>6, <1>7 DEF Next, Session

LEMMA ForwardingPasses ==
  ASSUME Passing, UNCHANGED script, NEW done, NEW rest, Forwarding(done, rest)
  PROVE  Forwarding(done, rest)'
<1>1. Current' = Current /\ RequestBodyInfo(Current)' = RequestBodyInfo(Current)
  BY DEF Passing, Current
<1>2. SentOf(request)' = SentOf(request) /\ RoutedHead(request)' = RoutedHead(request)
  BY DEF Passing, SentOf, SentUnits, RoutedHead
<1>3. pc' \in Asking => done = << >>
  BY DEF Passing, Forwarding
<1>4. pc' = "request_body" /\ RequestBodyInfo(Current)' = "ContentLength" =>
        Len(rest) = remaining'
  BY <1>1 DEF Passing, Forwarding
<1>5. pc' \in {"request_body", "tunnel"} /\ conn'.up =>
        SentOf(request)' = Cat(RoutedHead(request)', done)
  BY <1>2 DEF Passing, Forwarding
<1> QED
  BY <1>3, <1>4, <1>5 DEF Forwarding

LEMMA RoutedPasses ==
  ASSUME ClientTypes, ExchangeTypes, RoutedInv, Passing, UNCHANGED script,
         sent' = sent \/ sent' = sent + 1
  PROVE  RoutedInv'
<1>1. RequestsRouted'
  BY DEF RoutedInv, RequestsRouted, Passing
<1>2. request' <= sent'
  BY DEF RoutedInv, Passing, ClientTypes, ExchangeTypes
<1> QED
  BY <1>1, <1>2 DEF RoutedInv, Passing

-----------------------------------------------------------------------------
(***************************************************************************)
(* The client's own steps.                                                 *)
(***************************************************************************)
LEMMA StreamScript ==
  ASSUME UNCHANGED script, NEW a, NEW b, NEW s
  PROVE  /\ ClientUnits' = ClientUnits
         /\ \A k : BodyOf(k)' = BodyOf(k)
         /\ IsStream(a, b, s)' <=> IsStream(a, b, s)
<1>1. ClientUnits' = ClientUnits
  BY DEF ClientUnits
<1>2. \A k : RequestBody(k)' = RequestBody(k) /\ HeadUnit(k)' = HeadUnit(k)
  BY DEF RequestBody, HeadUnit
<1>3. \A k : Message(k)' = Message(k) /\ BodyOf(k)' = BodyOf(k)
  BY <1>2 DEF Message, BodyOf
<1> QED
  BY <1>1, <1>3 DEF IsStream

LEMMA StreamingStands ==
  ASSUME UNCHANGED <<script, sent, request>>,
         NEW done, NEW rest, NEW later, NEW cut, Streaming(done, rest, later, cut),
         NEW c, Cat(Unread', c) = Cat(Unread, cut), ~client_eof' => c = << >>
  PROVE  Streaming(done, rest, later, c)'
<1>1. IsStream(request + 1, sent, later)'
  <2> DEFINE a == request + 1
  <2>1. IsStream(a, sent, later)
    BY DEF Streaming
  <2> HIDE DEF a
  <2>2. a' = a
    BY DEF a
  <2>3. IsStream(a, sent, later)'
    BY <2>1, <2>2, StreamScript
  <2> QED
    BY <2>3 DEF a
<1>2. BodyOf(request)' = Cat(done, rest)
  BY StreamScript DEF Streaming
<1>3. Cat(Unread', c) = Cat(rest, later)
  BY DEF Streaming
<1> QED
  BY <1>1, <1>2, <1>3 DEF Streaming

LEMMA ClientSendsStreams ==
  ASSUME TypeInv, TypeInv', RoutedInv, ClientSends,
         NEW done, NEW rest \in Seq(ClientUnits), NEW later \in Seq(ClientUnits),
         NEW cut, Streaming(done, rest, later, cut)
  PROVE  \E more \in Seq(ClientUnits) : Streaming(done, rest, more, cut)'
<1> DEFINE k == sent + 1
           h == <<HeadUnit(k)>>
           m == RequestBody(k)
           read == Cat(client_read_buffer_, client_wire)
<1>1. /\ UNCHANGED <<script, request, client_eof, client_read_buffer_>>
      /\ ~client_eof /\ withheld = << >> /\ sent' = k
  BY DEF ClientSends, exchange, buffers
<1>2. k \in 1 .. Len(script) /\ sent \in Nat /\ request + 1 \in Nat \ {0}
      /\ request + 1 <= sent + 1
  BY DEF TypeInv, CaseTypes, ClientTypes, ExchangeTypes, RoutedInv, ClientSends
<1>3. HeadUnit(k) \in ClientUnits /\ m \in Seq(ClientUnits)
  BY <1>2, RequestTyped DEF TypeInv
<1>4. /\ client_read_buffer_ \in Seq(ClientUnits) /\ client_wire \in Seq(ClientUnits)
      /\ h \in Seq(ClientUnits)
  BY <1>3 DEF TypeInv, ClientTypes
<1>5. Message(k) = Cat(h, m) /\ Message(k) \in Seq(ClientUnits)
  BY <1>3, PrependType DEF Message, Prepend, Cat
<1>6. \/ client_wire' = Cat(client_wire, h) /\ withheld' = m
      \/ client_wire' = Cat(Cat(client_wire, h), m) /\ withheld' = << >>
  BY DEF ClientSends, HeadUnit, RequestBody, Cat
<1>7. IsStream(request + 1, sent, later) /\ cut = << >> /\ Cat(Unread, cut) = Cat(rest, later)
      /\ BodyOf(request) = Cat(done, rest)
  BY <1>1 DEF Streaming
<1>8. Unread = read
  BY <1>1, <1>4, CatType, CatNone DEF Unread
<1>9. Cat(rest, later) = read
  <2>1. read \in Seq(ClientUnits)
    BY <1>4, CatType
  <2> QED
    BY <1>7, <1>8, <2>1, CatNone
<1>10. Unread' = Cat(read, Message(k))
  <2> HIDE DEF h, m
  <2>1. CASE client_wire' = Cat(client_wire, h) /\ withheld' = m
    <3>1. Unread' = Cat(Cat(client_read_buffer_, Cat(client_wire, h)), m)
      BY <1>1, <2>1 DEF Unread
    <3> QED
      BY <1>3, <1>4, <1>5, <3>1, CatAssoc, CatType
  <2>2. CASE client_wire' = Cat(Cat(client_wire, h), m) /\ withheld' = << >>
    <3>1. Unread' = Cat(Cat(client_read_buffer_, Cat(Cat(client_wire, h), m)), << >>)
      BY <1>1, <2>2 DEF Unread
    <3>2. Cat(client_read_buffer_, Cat(Cat(client_wire, h), m)) \in Seq(ClientUnits)
      BY <1>3, <1>4, CatType
    <3>3. Unread' = Cat(client_read_buffer_, Cat(Cat(client_wire, h), m))
      BY <3>1, <3>2, CatNone
    <3> QED
      BY <1>3, <1>4, <1>5, <3>3, CatAssoc, CatType
  <2> QED
    BY <1>6, <2>1, <2>2
<1> HIDE DEF h, m, read
<1>11. PICK more \in Seq(ClientUnits) : more = Cat(later, Message(k))
  BY <1>5, CatType
<1>12. Cat(Unread', cut) = Cat(rest, more)
  <2>1. Unread' = Cat(rest, more)
    BY <1>5, <1>9, <1>10, <1>11, CatAssoc
  <2>2. Cat(rest, more) \in Seq(ClientUnits)
    BY <1>11, CatType
  <2> QED
    BY <1>7, <2>1, <2>2, CatNone
<1>13. IsStream(request + 1, k, more)
  <2> DEFINE a == request + 1
  <2>1. a \in Nat \ {0} /\ a <= sent + 1 /\ IsStream(a, sent, later)
    BY <1>2, <1>7
  <2> HIDE DEF a
  <2>2. IsStream(a, sent + 1, Cat(later, Message(sent + 1)))
    BY <1>2, <2>1, StreamGrows DEF TypeInv
  <2> QED
    BY <1>11, <2>2 DEF a
<1>14. IsStream(request + 1, sent, more)'
  <2> DEFINE a == request + 1
  <2>1. a' = a /\ IsStream(a, k, more) /\ sent' = k
    BY <1>1, <1>13 DEF a
  <2> HIDE DEF a, k
  <2>3. IsStream(a, sent, more)'
    BY <1>1, <2>1, StreamScript
  <2> QED
    BY <2>3 DEF a
<1>15. BodyOf(request)' = Cat(done, rest)
  BY <1>1, <1>7, StreamScript
<1>16. Streaming(done, rest, more, cut)'
  BY <1>7, <1>12, <1>14, <1>15 DEF Streaming
<1> QED
  BY <1>11, <1>16

LEMMA ClientSendsBodyStreams ==
  ASSUME TypeInv, ClientSendsBody,
         NEW done, NEW rest, NEW later, NEW cut, Streaming(done, rest, later, cut)
  PROVE  Streaming(done, rest, later, cut)'
<1>1. /\ UNCHANGED <<script, sent, request, client_eof, client_read_buffer_>>
      /\ ~client_eof /\ client_wire' = Cat(client_wire, withheld) /\ withheld' = << >>
  BY DEF ClientSendsBody, exchange, buffers, Cat
<1>2. /\ client_read_buffer_ \in Seq(ClientUnits) /\ client_wire \in Seq(ClientUnits)
      /\ withheld \in Seq(ClientUnits)
  BY DEF TypeInv, ClientTypes
<1>3. Unread = Cat(Cat(client_read_buffer_, client_wire), withheld)
  BY <1>1 DEF Unread
<1>4. Unread' = Cat(Cat(client_read_buffer_, Cat(client_wire, withheld)), << >>)
  BY <1>1 DEF Unread
<1>5. Cat(client_read_buffer_, Cat(client_wire, withheld)) \in Seq(ClientUnits)
  BY <1>2, CatType
<1>6. Unread' = Unread
  BY <1>2, <1>3, <1>4, <1>5, CatNone, CatAssoc
<1>7. Cat(Unread', cut) = Cat(Unread, cut)
  BY <1>6
<1>8. ~client_eof' => cut = << >>
  BY <1>1 DEF Streaming
<1> QED
  BY <1>1, <1>7, <1>8, StreamingStands

\* What the client had sent and nobody read is cut off with it.
LEMMA ClientClosesStreams ==
  ASSUME TypeInv, ClientCloses,
         NEW done, NEW rest, NEW later, NEW cut, Streaming(done, rest, later, cut)
  PROVE  \E c \in Seq(ClientUnits) : Streaming(done, rest, later, c)'
<1>1. /\ UNCHANGED <<script, sent, request, withheld, client_read_buffer_>>
      /\ ~client_eof /\ client_eof'
  BY DEF ClientCloses, exchange, buffers
<1>2. /\ client_read_buffer_ \in Seq(ClientUnits) /\ client_wire \in Seq(ClientUnits)
      /\ withheld \in Seq(ClientUnits)
  BY DEF TypeInv, ClientTypes
<1>3. PICK n \in 0 .. Len(client_wire) : client_wire' = SubSeq(client_wire, 1, n)
  BY DEF ClientCloses
<1>4. PICK x \in Seq(ClientUnits), y \in Seq(ClientUnits) :
        client_wire' = x /\ client_wire = Cat(x, y)
  <2>1. /\ SubSeq(client_wire, 1, n) \in Seq(ClientUnits)
        /\ SubSeq(client_wire, n + 1, Len(client_wire)) \in Seq(ClientUnits)
        /\ SubSeq(client_wire, 1, n) \o SubSeq(client_wire, n + 1, Len(client_wire))
             = client_wire
    BY <1>2, Cut
  <2> QED
    BY <1>3, <2>1 DEF Cat
<1>5. PICK c \in Seq(ClientUnits) : c = Cat(y, withheld)
  BY <1>2, CatType
<1>6. Unread = Cat(Cat(client_read_buffer_, Cat(x, y)), withheld)
  BY <1>1, <1>4 DEF Unread
<1>7. Unread' = Cat(Cat(client_read_buffer_, x), << >>)
  BY <1>1, <1>4 DEF Unread
<1>8. Cat(client_read_buffer_, x) \in Seq(ClientUnits)
      /\ Cat(client_read_buffer_, Cat(x, y)) \in Seq(ClientUnits)
      /\ Unread \in Seq(ClientUnits)
  BY <1>2, CatType, UnreadTyped DEF TypeInv
<1>9. cut = << >>
  BY <1>1 DEF Streaming
<1>10. Cat(Unread', c) = Unread
  <2>1. Cat(Unread', c) = Cat(client_read_buffer_, Cat(x, c))
    BY <1>2, <1>7, <1>8, CatNone, CatAssoc
  <2>2. Unread = Cat(client_read_buffer_, Cat(Cat(x, y), withheld))
    BY <1>2, <1>6, CatType, CatAssoc
  <2>3. Cat(Cat(x, y), withheld) = Cat(x, c)
    BY <1>2, <1>5, CatAssoc
  <2> QED
    BY <2>1, <2>2, <2>3
<1>11. Cat(Unread', c) = Cat(Unread, cut)
  BY <1>8, <1>9, <1>10, CatNone
<1>12. ~client_eof' => c = << >>
  BY <1>1
<1>13. Streaming(done, rest, later, c)'
  BY <1>1, <1>11, <1>12, StreamingStands
<1> QED
  BY <1>13

LEMMA PassingKeeps ==
  ASSUME TypeInv, TypeInv', RoutedInv, StreamInv, Passing, UNCHANGED script,
         \/ UNCHANGED <<sent, withheld, client_eof, client_wire, client_read_buffer_>>
         \/ ClientSends \/ ClientSendsBody \/ ClientCloses
  PROVE  RoutedInv' /\ StreamInv'
<1>1. RoutedInv'
  <2>1. sent' = sent \/ sent' = sent + 1
    BY DEF ClientSends, ClientSendsBody, ClientCloses
  <2> QED
    BY <2>1, RoutedPasses DEF TypeInv
<1>2. ASSUME pc' \notin {"stopped", "spinning"}
      PROVE  \E done, rest, later, cut \in Seq(ClientUnits) :
               Streaming(done, rest, later, cut)' /\ Forwarding(done, rest)'
  <2>1. PICK done \in Seq(ClientUnits), rest \in Seq(ClientUnits),
             later \in Seq(ClientUnits), cut \in Seq(ClientUnits) :
          Streaming(done, rest, later, cut) /\ Forwarding(done, rest)
    BY <1>2 DEF StreamInv, Passing
  <2>2. Forwarding(done, rest)'
    BY <2>1, ForwardingPasses
  <2>3. CASE UNCHANGED <<sent, withheld, client_eof, client_wire, client_read_buffer_>>
    <3>1. Unread' = Unread /\ UNCHANGED request
      BY <2>3 DEF Unread, Passing
    <3>2. Cat(Unread', cut) = Cat(Unread, cut)
      BY <3>1
    <3>3. ~client_eof' => cut = << >>
      BY <2>1, <2>3 DEF Streaming
    <3>4. Streaming(done, rest, later, cut)'
      BY <2>1, <2>3, <3>1, <3>2, <3>3, StreamingStands
    <3> QED
      BY <2>2, <3>4
  <2>4. CASE ClientSends
    <3>1. PICK more \in Seq(ClientUnits) : Streaming(done, rest, more, cut)'
      BY <2>1, <2>4, ClientSendsStreams
    <3> QED
      BY <2>2, <3>1
  <2>5. CASE ClientSendsBody
    <3>1. Streaming(done, rest, later, cut)'
      BY <2>1, <2>5, ClientSendsBodyStreams
    <3> QED
      BY <2>2, <3>1
  <2>6. CASE ClientCloses
    <3>1. PICK c \in Seq(ClientUnits) : Streaming(done, rest, later, c)'
      BY <2>1, <2>6, ClientClosesStreams
    <3> QED
      BY <2>2, <3>1
  <2> QED
    BY <2>3, <2>4, <2>5, <2>6
<1>3. ClientUnits' = ClientUnits
  BY StreamScript
<1>4. StreamInv'
  BY <1>2, <1>3 DEF StreamInv
<1> QED
  BY <1>1, <1>4

-----------------------------------------------------------------------------
(***************************************************************************)
(* The session takes the next request.                                     *)
(***************************************************************************)
LEMMA HeaderKeeps ==
  ASSUME TypeInv, TypeInv', RoutedInv, StreamInv, ReadClientRequestHeader
  PROVE  /\ RoutedInv' /\ StreamInv'
         /\ request' = request + 1 \/ (request' = request /\ pc' = "stopped")
<1>1. /\ UNCHANGED <<script, sent, withheld, client_eof, served>> /\ pc = "read_request"
      /\ ClientUnits' = ClientUnits
  BY DEF ReadClientRequestHeader, environment, ClientUnits
<1>2. PICK u \in ClientUnits :
        /\ client_read_buffer_ \o client_wire
             = <<u>> \o (client_read_buffer_' \o client_wire')
        /\ request' = u.id
        /\ IF u.kind = "req" /\ Acceptable(script[u.id])
             THEN pc' = "ensure" /\ UNCHANGED <<sockets, conn>>
             ELSE Stop
  BY HeaderRead DEF TypeInv
<1>3. PICK done \in Seq(ClientUnits), rest \in Seq(ClientUnits),
           later \in Seq(ClientUnits), cut \in Seq(ClientUnits) :
        Streaming(done, rest, later, cut)
  BY <1>1 DEF StreamInv
<1>4. Unread' \in Seq(ClientUnits) /\ Unread = Prepend(u, Unread')
  BY <1>1, <1>2, UnreadTakes DEF TypeInv
<1>5. request \in 0 .. Len(script) /\ request <= sent
      /\ Len(script) \in Nat /\ sent \in 0 .. Len(script)
  BY DEF TypeInv, CaseTypes, ClientTypes, ExchangeTypes, RoutedInv
<1>6. PICK x \in Seq(ClientUnits) : x = Unread'
  BY <1>4
<1>7. \/ /\ u.kind \in {"piece", "last"} /\ u.id = request
      \/ /\ rest = << >> /\ request + 1 <= sent
         /\ u = HeadUnit(request + 1)
         /\ \E t \in Seq(ClientUnits) :
              /\ IsStream(request + 2, sent, t)
              /\ Cat(x, cut) = Cat(RequestBody(request + 1), t)
  BY <1>3, <1>4, <1>5, <1>6, StreamTakes DEF TypeInv
<1>8. RequestsRouted'
  BY <1>1 DEF RoutedInv, RequestsRouted
<1>9. CASE u.kind \in {"piece", "last"} /\ u.id = request
  <2>1. pc' = "stopped" /\ request' = request
    BY <1>2, <1>9 DEF Stop
  <2> QED
    BY <1>1, <1>5, <1>8, <2>1 DEF RoutedInv, StreamInv, Asking
<1>10. CASE /\ rest = << >> /\ request + 1 <= sent
            /\ u = HeadUnit(request + 1)
            /\ \E t \in Seq(ClientUnits) :
                 /\ IsStream(request + 2, sent, t)
                 /\ Cat(x, cut) = Cat(RequestBody(request + 1), t)
  <2>1. request' = request + 1 /\ pc' \in {"ensure", "stopped"}
    BY <1>2, <1>10 DEF HeadUnit, Unit, Stop
  <2>2. RoutedInv'
    <3>1. \A j \in DOMAIN served : served[j].unit.id \in Int /\ served[j].unit.id < request + 1
      <4>1. \A j \in DOMAIN served : served[j].unit.id \in Int
        <5>1. \A j \in 1 .. Len(served) : served[j].unit \in ClientUnits
              /\ DOMAIN served = 1 .. Len(served)
          BY SentUnitsTyped DEF TypeInv
        <5> QED
          BY <5>1, SentUnitsTyped DEF ClientUnits, TypeInv
      <4> QED
        BY <1>5, <4>1 DEF RoutedInv
    <3>2. request + 1 <= sent
      BY <1>10
    <3> QED
      BY <1>1, <1>5, <1>8, <2>1, <3>1, <3>2 DEF RoutedInv
  <2>3. PICK t \in Seq(ClientUnits) :
          IsStream(request + 2, sent, t) /\ Cat(x, cut) = Cat(RequestBody(request + 1), t)
    BY <1>10
  <2>4. PICK m \in Seq(ClientUnits) : m = RequestBody(request + 1)
    <3>1. request + 1 \in 1 .. Len(script)
      BY <1>5, <1>10
    <3> QED
      BY <3>1, RequestTyped DEF TypeInv
  <2>5. IsStream(request + 1, sent, t)'
    <3>1. PICK a \in Nat : a = request + 2
      BY <1>5
    <3>2. IsStream(a, sent, t)
      BY <2>3, <3>1
    <3>3. IsStream(a, sent, t)'
      BY <1>1, <3>2, StreamScript
    <3>4. a = request' + 1
      BY <1>5, <2>1, <3>1
    <3> QED
      BY <3>3, <3>4
  <2>6. BodyOf(request)' = Cat(<< >>, m)
    <3>1. request' # 0 /\ BodyOf(request)' = RequestBody(request)'
      BY <1>5, <2>1 DEF BodyOf
    <3>2. RequestBody(request)' = RequestBody(request + 1)
      BY <1>1, <2>1 DEF RequestBody
    <3> QED
      BY <2>4, <3>1, <3>2, CatNone
  <2>7. Cat(Unread', cut) = Cat(m, t)
    BY <1>6, <2>3, <2>4
  <2>8. Streaming(<< >>, m, t, cut)'
    BY <1>1, <1>3, <2>5, <2>6, <2>7 DEF Streaming
  <2>9. Forwarding(<< >>, m)'
    BY <2>1 DEF Forwarding
  <2>10. << >> \in Seq(ClientUnits)
    OBVIOUS
  <2>11. StreamInv'
    BY <1>1, <2>8, <2>9, <2>10 DEF StreamInv
  <2> QED
    BY <2>1, <2>2, <2>11
<1> QED
  BY <1>7, <1>9, <1>10

-----------------------------------------------------------------------------
(***************************************************************************)
(* The session sends a unit of the current request to its server.          *)
(***************************************************************************)
\* Nothing of the request has been sent while the session is asking.
LEMMA NothingSent ==
  ASSUME TypeInv, RoutedInv, pc \in Asking
  PROVE  SentOf(request) = << >>
<1>1. /\ SentUnits \in Seq(ClientUnits) /\ DOMAIN SentUnits = DOMAIN served
      /\ \A j \in DOMAIN served :
           SentUnits[j] = served[j].unit /\ served[j].unit \in ClientUnits
  BY SentUnitsTyped DEF TypeInv
<1>2. \A j \in DOMAIN SentUnits : SentUnits[j].id # request
  <2>1. \A j \in DOMAIN served : served[j].unit.id < request
    BY DEF RoutedInv
  <2>2. \A j \in DOMAIN served : served[j].unit.id \in Int
    BY <1>1 DEF ClientUnits
  <2>3. request \in Int
    BY DEF TypeInv, CaseTypes, ExchangeTypes
  <2> QED
    BY <1>1, <2>1, <2>2, <2>3
<1> QED
  BY <1>1, <1>2, OfRequestNone DEF SentOf

LEMMA SendingKeeps ==
  ASSUME TypeInv, RoutedInv, request # 0,
         UNCHANGED <<script, sent, request>>, pc' \notin Asking,
         conn.host = Current.host,
         NEW u \in ClientUnits, u.id = request, ToServer(u),
         NEW q \in Seq(ClientUnits),
         conn.up => Cat(Append(SentOf(request), u), q)
                      = Cat(RoutedHead(request), RequestBody(request))
  PROVE  /\ RoutedInv'
         /\ conn'.up => conn.up /\ SentOf(request)' = Append(SentOf(request), u)
<1>1. request \in 1 .. Len(script)
  BY DEF TypeInv, CaseTypes, ExchangeTypes
<1>2. CASE conn.up
  <2>1. /\ SentOf(request)' = Append(SentOf(request), u)
        /\ \A j \in DOMAIN served' : served'[j].unit.id <= request
        /\ RequestsRouted'
    BY <1>1, <1>2, ServedGrows DEF TypeInv
  <2> QED
    BY <1>2, <2>1 DEF RoutedInv
<1>3. CASE ~conn.up
  <2>1. UNCHANGED <<served, conn>>
    BY <1>3 DEF ToServer
  <2>2. RequestsRouted'
    BY <2>1 DEF RoutedInv, RequestsRouted
  <2> QED
    BY <1>3, <2>1, <2>2 DEF RoutedInv
<1> QED
  BY <1>2, <1>3

LEMMA RequestHeaderKeeps ==
  ASSUME TypeInv, TypeInv', RoutedInv, StreamInv, WriteRemoteRequestHeader
  PROVE  RoutedInv' /\ StreamInv'
<1>1. /\ UNCHANGED <<script, sent, request, withheld, client_eof, client_wire,
                     client_read_buffer_>>
      /\ pc = "write_request" /\ pc' = "request_body"
      /\ ClientUnits' = ClientUnits /\ Unread' = Unread
  BY DEF WriteRemoteRequestHeader, environment, buffers, ClientUnits, Unread
<1>2. PICK done \in Seq(ClientUnits), rest \in Seq(ClientUnits),
           later \in Seq(ClientUnits), cut \in Seq(ClientUnits) :
        Streaming(done, rest, later, cut) /\ Forwarding(done, rest)
  BY <1>1 DEF StreamInv
<1>3. /\ request # 0 /\ request \in 1 .. Len(script) /\ Current.method # "CONNECT"
      /\ conn.host = Current.host
  BY <1>1 DEF TypeInv, CaseTypes, ExchangeTypes, SocketTypes, ConnectionMatches, ToHost
<1>4. /\ HeadUnit(request) \in ClientUnits /\ HeadUnit(request).id = request
      /\ RequestBody(request) \in Seq(ClientUnits)
      /\ ToServer(HeadUnit(request))
  <2>1. /\ HeadUnit(request) \in ClientUnits /\ RequestBody(request) \in Seq(ClientUnits)
    BY <1>3, RequestTyped DEF TypeInv
  <2> QED
    BY <2>1 DEF HeadUnit, Unit, WriteRemoteRequestHeader, Current
<1>5. PICK u \in ClientUnits : u = HeadUnit(request)
  BY <1>4
<1>6. PICK q \in Seq(ClientUnits) : q = RequestBody(request)
  BY <1>4
<1>7. RoutedHead(request) = <<u>> /\ SentOf(request) = << >> /\ Append(<< >>, u) = <<u>>
  <2>1. SentOf(request) = << >>
    BY <1>1, NothingSent DEF Asking
  <2> QED
    BY <1>3, <1>5, <2>1 DEF RoutedHead, HeadUnit, Current
<1>8. Cat(Append(SentOf(request), u), q) = Cat(RoutedHead(request), RequestBody(request))
  BY <1>6, <1>7, Zenon
<1>9. /\ RoutedInv'
      /\ conn'.up => conn.up /\ SentOf(request)' = Append(SentOf(request), u)
  <2>1. pc' \notin Asking
    BY <1>1 DEF Asking
  <2> QED
    BY <1>1, <1>3, <1>4, <1>5, <1>8, <2>1, SendingKeeps
<1>10. done = << >> /\ rest = q
  <2>1. done = << >>
    BY <1>1, <1>2 DEF Forwarding, Asking
  <2>2. BodyOf(request) = q
    BY <1>3, <1>6 DEF BodyOf
  <2> QED
    BY <1>2, <2>1, <2>2, CatNone DEF Streaming
<1>11. Streaming(done, rest, later, cut)'
  <2>1. Cat(Unread', cut) = Cat(Unread, cut) /\ (~client_eof' => cut = << >>)
    BY <1>1, <1>2 DEF Streaming
  <2> QED
    BY <1>1, <1>2, <2>1, StreamingStands
<1>12. Forwarding(done, rest)'
  <2>1. RequestBodyInfo(Current)' = "ContentLength" => Len(rest) = remaining'
    <3>1. RequestBodyInfo(Current)' = RequestBodyInfo(Current)
      BY <1>1 DEF Current
    <3>2. Framed(script[request])
      BY <1>3, CurrentTyped DEF TypeInv
    <3>3. /\ ~Current.chunked /\ Current.content_length # NoLength =>
               Len(q) = Current.content_length
      BY <1>6, <3>2, BodyTyped DEF RequestBody, Current
    <3>4. RequestBodyInfo(Current) = "ContentLength" =>
            ~Current.chunked /\ Current.content_length # NoLength
      BY DEF RequestBodyInfo
    <3>5. RequestBodyInfo(Current) = "ContentLength" => remaining' = Current.content_length
      BY DEF WriteRemoteRequestHeader
    <3> QED
      BY <1>10, <3>1, <3>3, <3>4, <3>5
  <2>2. conn'.up => SentOf(request)' = Cat(RoutedHead(request)', done)
    <3>1. RoutedHead(request)' = RoutedHead(request)
      BY <1>1 DEF RoutedHead
    <3>2. Cat(<<u>>, << >>) = <<u>>
      <4>1. <<u>> \in Seq(ClientUnits)
        OBVIOUS
      <4> QED
        BY <4>1, CatNone
    <3>3. conn'.up => SentOf(request)' = <<u>>
      BY <1>7, <1>9
    <3>4. Cat(RoutedHead(request)', done) = <<u>>
      BY <1>7, <1>10, <3>1, <3>2, Zenon
    <3> QED
      BY <3>3, <3>4
  <2> QED
    BY <1>1, <1>10, <2>1, <2>2 DEF Forwarding
<1>13. StreamInv'
  BY <1>1, <1>11, <1>12 DEF StreamInv
<1> QED
  BY <1>9, <1>13

\* The tunnel begins: nothing was sent, and nothing precedes what will be.
LEMMA EstablishedKeeps ==
  ASSUME TypeInv, TypeInv', RoutedInv, StreamInv, WriteConnectEstablishedResponseToClient
  PROVE  RoutedInv' /\ StreamInv'
<1>1. /\ UNCHANGED <<script, sent, request, withheld, client_eof, client_wire,
                     client_read_buffer_, served, conn>>
      /\ pc = "write_established" /\ pc' = "tunnel"
      /\ ClientUnits' = ClientUnits /\ Unread' = Unread
  BY DEF WriteConnectEstablishedResponseToClient, environment, exchange, buffers,
         ClientUnits, Unread
<1>2. PICK done \in Seq(ClientUnits), rest \in Seq(ClientUnits),
           later \in Seq(ClientUnits), cut \in Seq(ClientUnits) :
        Streaming(done, rest, later, cut) /\ Forwarding(done, rest)
  BY <1>1 DEF StreamInv
<1>3. Current.method = "CONNECT" /\ SentOf(request) = << >> /\ done = << >>
  BY <1>1, <1>2, NothingSent DEF TypeInv, ExchangeTypes, Forwarding, Asking
<1>4. Streaming(done, rest, later, cut)'
  <2>1. Cat(Unread', cut) = Cat(Unread, cut) /\ (~client_eof' => cut = << >>)
    BY <1>1, <1>2 DEF Streaming
  <2> QED
    BY <1>1, <1>2, <2>1, StreamingStands
<1>5. Forwarding(done, rest)'
  <2>1. SentOf(request)' = SentOf(request) /\ RoutedHead(request)' = << >>
    BY <1>1, <1>3 DEF SentOf, SentUnits, RoutedHead, Current
  <2>2. Cat(<< >>, << >>) = << >>
    <3>1. << >> \in Seq(ClientUnits)
      OBVIOUS
    <3> QED
      BY <3>1, CatNone
  <2>3. SentOf(request)' = Cat(RoutedHead(request)', done)
    BY <1>3, <2>1, <2>2
  <2> QED
    BY <1>1, <2>3 DEF Forwarding, Asking
<1>6. StreamInv'
  BY <1>1, <1>4, <1>5 DEF StreamInv
<1>7. RoutedInv'
  <2>1. RequestsRouted'
    BY <1>1 DEF RoutedInv, RequestsRouted
  <2> QED
    BY <1>1, <2>1 DEF RoutedInv, Asking
<1> QED
  BY <1>6, <1>7

(***************************************************************************)
(* A unit of the body is taken from the client and sent on.                *)
(***************************************************************************)
LEMMA UnitKeeps ==
  ASSUME TypeInv, TypeInv', RoutedInv, pc \in {"request_body", "tunnel"},
         UNCHANGED <<script, sent, request, client_eof>>,
         NEW done \in Seq(ClientUnits), NEW rest \in Seq(ClientUnits),
         NEW later \in Seq(ClientUnits), NEW cut \in Seq(ClientUnits),
         Streaming(done, rest, later, cut), Forwarding(done, rest),
         NEW u \in ClientUnits, u.id = request, ToServer(u),
         NEW t \in Seq(ClientUnits), rest = Prepend(u, t),
         Cat(Unread', cut) = Cat(t, later),
         pc' \in {"request_body", "tunnel", "read_response"},
         pc' = "request_body" /\ RequestBodyInfo(Current) = "ContentLength" =>
           pc = "request_body" /\ remaining' = remaining - 1
  PROVE  RoutedInv' /\ StreamInv'
<1>1. request # 0 /\ request \in 1 .. Len(script) /\ conn.host = Current.host
  BY DEF TypeInv, CaseTypes, ExchangeTypes, SocketTypes, ConnectionMatches
<1>2. RequestBody(request) = Cat(done, Prepend(u, t))
  BY <1>1 DEF Streaming, BodyOf
<1>3. PICK more \in Seq(ClientUnits) : more = Append(done, u)
  <2>1. Append(done, u) \in Seq(ClientUnits)
    OBVIOUS
  <2> QED
    BY <2>1, Zenon
<1>4. RequestBody(request) = Cat(more, t)
  BY <1>2, <1>3, PrependBetween
<1>5. PICK h \in Seq(ClientUnits) : h = RoutedHead(request)
  <2>1. HeadUnit(request) \in ClientUnits
    BY <1>1, RequestTyped DEF TypeInv
  <2>2. << >> \in Seq(ClientUnits) /\ <<HeadUnit(request)>> \in Seq(ClientUnits)
    BY <2>1
  <2>3. RoutedHead(request) = << >> \/ RoutedHead(request) = <<HeadUnit(request)>>
    BY DEF RoutedHead, HeadUnit
  <2> QED
    BY <2>2, <2>3, Zenon
<1>6. conn.up => Append(SentOf(request), u) = Cat(h, more)
  <2>1. Append(Cat(h, done), u) = Cat(h, Append(done, u))
    BY CatAppend
  <2>2. conn.up => SentOf(request) = Cat(h, done)
    BY <1>5 DEF Forwarding
  <2> QED
    BY <1>3, <2>1, <2>2, Zenon
<1>7. conn.up => Cat(Append(SentOf(request), u), t)
                   = Cat(RoutedHead(request), RequestBody(request))
  <2>1. Cat(Cat(h, more), t) = Cat(h, Cat(more, t))
    BY CatAssoc
  <2> QED
    BY <1>4, <1>5, <1>6, <2>1, Zenon
<1>8. /\ RoutedInv'
      /\ conn'.up => conn.up /\ SentOf(request)' = Append(SentOf(request), u)
  <2>1. pc' \notin Asking
    BY DEF Asking
  <2> QED
    BY <1>1, <1>7, <2>1, SendingKeeps
<1>9. Streaming(more, t, later, cut)'
  <2>1. IsStream(request + 1, sent, later)'
    <3>1. PICK a \in Nat : a = request + 1
      BY <1>1 DEF TypeInv, CaseTypes
    <3>2. IsStream(a, sent, later)
      BY <3>1 DEF Streaming
    <3>3. IsStream(a, sent, later)'
      BY <3>2, StreamScript
    <3> QED
      BY <3>1, <3>3
  <2>2. BodyOf(request)' = Cat(more, t)
    BY <1>1, <1>4, StreamScript DEF BodyOf
  <2> QED
    BY <2>1, <2>2 DEF Streaming
<1>10. Forwarding(more, t)'
  <2>1. pc' = "request_body" /\ RequestBodyInfo(Current)' = "ContentLength" =>
          Len(t) = remaining'
    <3>1. RequestBodyInfo(Current)' = RequestBodyInfo(Current)
      BY DEF Current
    <3>2. Len(rest) = Len(t) + 1 /\ Len(t) \in Nat
      BY PrependLen
    <3> QED
      BY <3>1, <3>2 DEF Forwarding
  <2>2. conn'.up => SentOf(request)' = Cat(RoutedHead(request)', more)
    <3>1. RoutedHead(request)' = RoutedHead(request)
      BY DEF RoutedHead
    <3> QED
      BY <1>5, <1>6, <1>8, <3>1
  <2> QED
    BY <2>1, <2>2 DEF Forwarding, Asking
<1>11. ClientUnits' = ClientUnits
  BY StreamScript
<1>12. StreamInv'
  BY <1>9, <1>10, <1>11 DEF StreamInv
<1> QED
  BY <1>8, <1>12

LEMMA RequestBodyKeeps ==
  ASSUME TypeInv, TypeInv', RoutedInv, StreamInv, ForwardRequestBody
  PROVE  RoutedInv' /\ StreamInv' /\ (pc' = "stopped" \/ UNCHANGED conn)
<1>1. /\ UNCHANGED <<script, sent, request, withheld, client_eof>>
      /\ pc = "request_body" /\ BodyExpected(RequestBodyInfo(Current))
  BY DEF ForwardRequestBody, environment
<1>2. PICK done \in Seq(ClientUnits), rest \in Seq(ClientUnits),
           later \in Seq(ClientUnits), cut \in Seq(ClientUnits) :
        Streaming(done, rest, later, cut) /\ Forwarding(done, rest)
  BY <1>1 DEF StreamInv
<1>3. PICK u \in ClientUnits :
        \/ /\ RequestBodyInfo(Current) = "Chunked" /\ u.kind = "req"
           /\ Stop /\ UNCHANGED <<remaining, served>>
        \/ /\ ~(RequestBodyInfo(Current) = "Chunked" /\ u.kind = "req")
           /\ client_read_buffer_ \o client_wire
                = <<u>> \o (client_read_buffer_' \o client_wire')
           /\ ToServer(u)
           /\ remaining' = IF RequestBodyInfo(Current) = "Chunked" THEN 0
                           ELSE remaining - 1
           /\ pc' = IF RequestBodyInfo(Current) = "Chunked" /\ u.kind = "last"
                      THEN "read_response" ELSE pc
           /\ UNCHANGED sockets
  BY RequestBodyRead DEF TypeInv
<1>4. CASE Stop /\ UNCHANGED <<remaining, served>>
  <2>1. pc' = "stopped"
    BY <1>4 DEF Stop
  <2>2. RequestsRouted'
    BY <1>1, <1>4 DEF RoutedInv, RequestsRouted
  <2> QED
    BY <1>1, <1>4, <2>1, <2>2 DEF RoutedInv, StreamInv, Asking
<1>5. CASE /\ ~(RequestBodyInfo(Current) = "Chunked" /\ u.kind = "req")
           /\ client_read_buffer_ \o client_wire
                = <<u>> \o (client_read_buffer_' \o client_wire')
           /\ ToServer(u)
           /\ remaining' = IF RequestBodyInfo(Current) = "Chunked" THEN 0
                           ELSE remaining - 1
           /\ pc' = IF RequestBodyInfo(Current) = "Chunked" /\ u.kind = "last"
                      THEN "read_response" ELSE pc
           /\ UNCHANGED sockets
  <2>1. Unread' \in Seq(ClientUnits) /\ Unread = Prepend(u, Unread')
    BY <1>1, <1>5, UnreadTakes DEF TypeInv
  <2>2. request \in 0 .. Len(script) /\ request <= sent
        /\ Len(script) \in Nat /\ sent \in 0 .. Len(script)
    BY DEF TypeInv, CaseTypes, ClientTypes, ExchangeTypes, RoutedInv
  <2>3. PICK x \in Seq(ClientUnits) : x = Unread'
    BY <2>1
  <2>4. \/ /\ u.kind \in {"piece", "last"} /\ u.id = request
           /\ \E t \in Seq(ClientUnits) :
                rest = Prepend(u, t) /\ Cat(x, cut) = Cat(t, later)
        \/ /\ rest = << >> /\ request + 1 <= sent
           /\ u = HeadUnit(request + 1)
    BY <1>2, <2>1, <2>2, <2>3, StreamTakes DEF TypeInv
  <2>5. ~(rest = << >> /\ u = HeadUnit(request + 1))
    <3>1. RequestBodyInfo(Current) = "ContentLength" => Len(rest) > 0
      BY <1>1, <1>2 DEF Forwarding, BodyExpected
    <3>2. Len(<< >>) = 0
      OBVIOUS
    <3>3. HeadUnit(request + 1).kind = "req"
      BY DEF HeadUnit, Unit
    <3>4. RequestBodyInfo(Current) \in {"Chunked", "ContentLength"}
      BY <1>1 DEF BodyExpected, RequestBodyInfo
    <3> QED
      BY <1>5, <3>1, <3>2, <3>3, <3>4
  <2>6. PICK t \in Seq(ClientUnits) : rest = Prepend(u, t) /\ Cat(x, cut) = Cat(t, later)
    BY <2>4, <2>5
  <2>7. u.id = request
    BY <2>4, <2>5
  <2>8. Cat(Unread', cut) = Cat(t, later)
    BY <2>3, <2>6
  <2>9. pc' \in {"request_body", "tunnel", "read_response"}
    BY <1>1, <1>5
  <2>10. pc' = "request_body" /\ RequestBodyInfo(Current) = "ContentLength" =>
           pc = "request_body" /\ remaining' = remaining - 1
    BY <1>1, <1>5
  <2>11. ToServer(u) /\ pc \in {"request_body", "tunnel"}
    BY <1>1, <1>5
  <2>12. UNCHANGED conn
    BY <2>4, <2>5, <2>11 DEF ToServer
  <2> QED
    BY <1>1, <1>2, <2>6, <2>7, <2>8, <2>9, <2>10, <2>11, <2>12, UnitKeeps
<1> QED
  BY <1>3, <1>4, <1>5

LEMMA TunnelKeeps ==
  ASSUME TypeInv, TypeInv', RoutedInv, StreamInv, TunnelToRemote
  PROVE  RoutedInv' /\ StreamInv' /\ UNCHANGED conn
<1>1. /\ UNCHANGED <<script, sent, request, withheld, client_eof, pc>>
      /\ pc = "tunnel" /\ client_read_buffer_ \o client_wire # << >>
      /\ client_wire' = << >>
  BY DEF TunnelToRemote, environment, exchange
<1>2. PICK done \in Seq(ClientUnits), rest \in Seq(ClientUnits),
           later \in Seq(ClientUnits), cut \in Seq(ClientUnits) :
        Streaming(done, rest, later, cut) /\ Forwarding(done, rest)
  BY <1>1 DEF StreamInv
<1>3. PICK u \in ClientUnits :
        /\ ToServer(u)
        /\ client_read_buffer_ \o client_wire
             = <<u>> \o (client_read_buffer_' \o client_wire')
  <2> DEFINE unread == client_read_buffer_ \o client_wire
  <2>1. unread \in Seq(ClientUnits)
    BY DEF TypeInv, ClientTypes
  <2>2. ToServer(Head(unread)) /\ client_read_buffer_' = Tail(unread) /\ unread # << >>
    BY <1>1 DEF TunnelToRemote
  <2> HIDE DEF unread
  <2>3. /\ Head(unread) \in ClientUnits /\ Tail(unread) \in Seq(ClientUnits)
        /\ unread = <<Head(unread)>> \o Tail(unread)
    BY <2>1, <2>2, HeadAndTail
  <2>4. Tail(unread) \o << >> = Tail(unread)
    BY <2>3, Concat
  <2>5. client_read_buffer_' \o client_wire' = Tail(unread)
    BY <1>1, <2>2, <2>4, Zenon
  <2>6. unread = <<Head(unread)>> \o (client_read_buffer_' \o client_wire')
    BY <2>3, <2>5, Zenon
  <2> QED
    BY <2>2, <2>3, <2>6, Zenon DEF unread
<1>4. Unread' \in Seq(ClientUnits) /\ Unread = Prepend(u, Unread')
  BY <1>1, <1>3, UnreadTakes DEF TypeInv
<1>5. request \in 0 .. Len(script) /\ request <= sent
      /\ Len(script) \in Nat /\ sent \in 0 .. Len(script)
  BY DEF TypeInv, CaseTypes, ClientTypes, ExchangeTypes, RoutedInv
<1>6. PICK x \in Seq(ClientUnits) : x = Unread'
  BY <1>4
<1>7. \/ /\ u.kind \in {"piece", "last"} /\ u.id = request
         /\ \E t \in Seq(ClientUnits) :
              rest = Prepend(u, t) /\ Cat(x, cut) = Cat(t, later)
      \/ request + 1 <= sent
  BY <1>2, <1>4, <1>5, <1>6, StreamTakes DEF TypeInv
<1>8. ~(request + 1 <= sent)
  <2>1. Current.method = "CONNECT" /\ request # 0
    BY <1>1 DEF TypeInv, ExchangeTypes
  <2>2. request \in DOMAIN script
    BY <1>5, <2>1 DEF TypeInv, CaseTypes
  <2>3. request = Len(script)
    BY <2>1, <2>2 DEF TypeInv, CaseTypes, Current
  <2> QED
    BY <1>5, <2>3
<1>9. PICK t \in Seq(ClientUnits) : rest = Prepend(u, t) /\ Cat(x, cut) = Cat(t, later)
  BY <1>7, <1>8
<1>10. u.id = request /\ Cat(Unread', cut) = Cat(t, later)
  BY <1>6, <1>7, <1>8, <1>9
<1>11. /\ pc' \in {"request_body", "tunnel", "read_response"}
       /\ pc \in {"request_body", "tunnel"} /\ pc' # "request_body"
  BY <1>1
<1>12. UNCHANGED conn
  BY <1>3, <1>7, <1>8 DEF ToServer
<1> QED
  BY <1>1, <1>2, <1>3, <1>9, <1>10, <1>11, <1>12, UnitKeeps

-----------------------------------------------------------------------------
LEMMA RoutedInit == Init => RoutedInv /\ StreamInv
<1> SUFFICES ASSUME Init PROVE RoutedInv /\ StreamInv
  OBVIOUS
<1>1. /\ sent = 0 /\ request = 0 /\ served = << >> /\ pc = "read_request"
      /\ client_read_buffer_ = << >> /\ client_wire = << >> /\ withheld = << >>
      /\ client_eof = FALSE
  BY DEF Init
<1>2. \A j \in DOMAIN served : FALSE
  BY <1>1
<1>3. RequestsRouted
  <2>1. ASSUME NEW k \in DOMAIN script
        PROVE  IsPrefix(SentOf(k), Cat(RoutedHead(k), RequestBody(k)))
    <3>1. CaseTypes /\ HistoryTypes
      BY TypesInit DEF TypeInv
    <3>2. /\ SentUnits \in Seq(ClientUnits) /\ DOMAIN SentUnits = 1 .. Len(served)
          /\ Len(served) = 0
      BY <1>1, <3>1, SentUnitsTyped
    <3>3. \A j \in DOMAIN SentUnits : SentUnits[j].id # k
      BY <3>2
    <3>4. SentOf(k) = << >>
      BY <3>2, <3>3, OfRequestNone DEF SentOf
    <3>5. PICK s \in Seq(ClientUnits) : s = Cat(RoutedHead(k), RequestBody(k))
      <4>1. k \in 1 .. Len(script)
        BY <3>1 DEF CaseTypes
      <4>2. HeadUnit(k) \in ClientUnits /\ RequestBody(k) \in Seq(ClientUnits)
        BY <3>1, <4>1, RequestTyped
      <4>3. << >> \in Seq(ClientUnits) /\ <<HeadUnit(k)>> \in Seq(ClientUnits)
        BY <4>2
      <4>4. RoutedHead(k) = << >> \/ RoutedHead(k) = <<HeadUnit(k)>>
        BY DEF RoutedHead, HeadUnit
      <4>5. RoutedHead(k) \in Seq(ClientUnits)
        BY <4>3, <4>4, Zenon
      <4> QED
        BY <4>2, <4>5, CatType
    <3>6. IsPrefix(<< >>, Cat(<< >>, s)) /\ Cat(<< >>, s) = s
      <4>1. << >> \in Seq(ClientUnits)
        OBVIOUS
      <4>2. IsPrefix(<< >>, Cat(<< >>, s))
        BY <4>1, PrefixIntro DEF Cat
      <4> QED
        BY <4>2, CatNone
    <3> QED
      BY <3>4, <3>5, <3>6, Zenon
  <2> QED
    BY <1>2, <2>1 DEF RequestsRouted, SentOf, SentUnits, RoutedHead, RequestBody, Cat
<1>4. RoutedInv
  BY <1>1, <1>2, <1>3 DEF RoutedInv, Asking
<1>5. << >> \in Seq(ClientUnits)
  OBVIOUS
<1>6. Cat(<< >>, << >>) = << >>
  BY <1>5, CatNone
<1>7. Streaming(<< >>, << >>, << >>, << >>)
  <2>1. IsStream(request + 1, sent, << >>)
    <3>1. IsStream(0 + 1, 0, << >>)
      BY StreamEmpty
    <3> QED
      BY <1>1, <3>1
  <2>2. Unread = << >> /\ BodyOf(request) = << >>
    BY <1>1, <1>6 DEF Unread, BodyOf
  <2> QED
    BY <1>6, <2>1, <2>2 DEF Streaming
<1>8. Forwarding(<< >>, << >>)
  BY <1>1 DEF Forwarding
<1>9. StreamInv
  BY <1>5, <1>7, <1>8 DEF StreamInv
<1> QED
  BY <1>4, <1>9

LEMMA RoutedStep ==
  ASSUME TypeInv, TypeInv', RoutedInv, StreamInv, [Next]_vars
  PROVE  RoutedInv' /\ StreamInv'
<1>1. CASE ReadClientRequestHeader
  BY <1>1, HeaderKeeps
<1>2. CASE WriteRemoteRequestHeader
  BY <1>2, RequestHeaderKeeps
<1>3. CASE ForwardRequestBody
  BY <1>3, RequestBodyKeeps
<1>4. CASE WriteConnectEstablishedResponseToClient
  BY <1>4, EstablishedKeeps
<1>5. CASE TunnelToRemote
  BY <1>5, TunnelKeeps
<1>6. CASE /\ ~ReadClientRequestHeader /\ ~ForwardRequestBody /\ ~TunnelToRemote
           /\ Passing
  BY <1>6, Frame, PassingKeeps
<1> QED
  BY <1>1, <1>2, <1>3, <1>4, <1>5, <1>6, PassingSteps DEF TypeInv

LEMMA RoutedHolds == Spec => [](TypeInv /\ RoutedInv /\ StreamInv)
<1> DEFINE Inv == TypeInv /\ RoutedInv /\ StreamInv
<1>1. Init => Inv
  BY TypesInit, RoutedInit
<1>2. Inv /\ [Next]_vars => Inv'
  BY TypesStep, RoutedStep
<1> QED
  BY <1>1, <1>2, PTL DEF Spec

(***************************************************************************)
(* The session's variables keep their types, and the request of the        *)
(* exchange is one the client has sent.                                    *)
(***************************************************************************)
THEOREM TypeCorrect == Spec => []TypeOK
<1>1. TypeInv /\ RoutedInv => TypeOK
  <2> SUFFICES ASSUME TypeInv, RoutedInv PROVE TypeOK
    OBVIOUS
  <2>1. sent \in 0 .. Len(script) /\ request \in 0 .. Len(script) /\ request <= sent
        /\ Len(script) \in Nat
    BY DEF TypeInv, CaseTypes, ClientTypes, ExchangeTypes, RoutedInv
  <2>2. request \in 0 .. sent
    BY <2>1
  <2> QED
    BY <2>1, <2>2 DEF TypeOK, TypeInv, ClientTypes, ServerTypes, ExchangeTypes,
                      SocketTypes, ToHost
<1> QED
  BY <1>1, RoutedHolds, PTL

(***************************************************************************)
(* However the client's requests arrive, whatever is left in the read      *)
(* buffers and wherever a connection is reused, replaced or lost: every    *)
(* unit of a request reaches the server the request names and no other     *)
(* one, once, in order, and as a prefix of what the client sent.           *)
(***************************************************************************)
THEOREM RequestsReachTheirServer == Spec => []RequestsRouted
<1>1. RoutedInv => RequestsRouted
  BY DEF RoutedInv
<1> QED
  BY <1>1, RoutedHolds, PTL

-----------------------------------------------------------------------------
(***************************************************************************)
(* What the server of the current connection has sent and the session not  *)
(* yet taken, and how the steps change it.                                 *)
(***************************************************************************)
Remote == Cat(remote_read_buffer_, conn.wire)

Active == pc \notin {"stopped", "spinning"}

LEMMA RemoteTyped ==
  ASSUME ServerTypes
  PROVE  /\ remote_read_buffer_ \in Seq(ServerUnits) /\ conn.wire \in Seq(ServerUnits)
         /\ Remote \in Seq(ServerUnits)
         /\ conn.asked \in Seq(1 .. Len(script))
<1>1. /\ remote_read_buffer_ \in Seq(ServerUnits) /\ conn.wire \in Seq(ServerUnits)
      /\ conn.asked \in Seq(1 .. Len(script))
  BY DEF ServerTypes
<1> QED
  BY <1>1, CatType DEF Remote

LEMMA RemoteFrame ==
  ASSUME [Next]_vars, Active'
  PROVE  \/ UNCHANGED <<conn, remote_read_buffer_>>
         \/ /\ pc \in {"ensure", "resolving", "connecting"} /\ UNCHANGED remote_read_buffer_
            /\ conn'.wire = << >> /\ conn'.asked = << >>
         \/ ServerAnswers \/ ServerSendsInterim \/ ServerSendsNotice \/ ServerCloses
         \/ WriteRemoteRequestHeader \/ ForwardRequestBody \/ TunnelToRemote
         \/ ReadRemoteResponseHeader \/ ForwardResponseBody \/ TunnelToClient
<1>1. CASE UNCHANGED vars
  BY <1>1 DEF vars, buffers
<1>2. CASE ClientSends \/ ClientSendsBody \/ ClientCloses
  BY <1>2 DEF ClientSends, ClientSendsBody, ClientCloses, buffers
<1>3. CASE EnsureRemoteConnected \/ ResolveRemote \/ ConnectRemote
  <2>1. NoConnection.wire = << >> /\ NoConnection.asked = << >>
    BY DEF NoConnection
  <2>2. /\ pc \in {"ensure", "resolving", "connecting"} /\ UNCHANGED remote_read_buffer_
        /\ UNCHANGED conn \/ (conn'.wire = NoConnection.wire /\ conn'.asked = NoConnection.asked)
    BY <1>3 DEF EnsureRemoteConnected, ResolveRemote, ConnectRemote, CloseRemote, NoConnection, buffers
  <2> QED
    BY <2>1, <2>2
<1>4. CASE \/ RequestBodyDone \/ WriteRemoteResponseHeaderToClient \/ ResponseBodyDone
           \/ WriteConnectEstablishedResponseToClient
  BY <1>4 DEF RequestBodyDone, WriteRemoteResponseHeaderToClient, ResponseBodyDone,
    WriteConnectEstablishedResponseToClient, buffers
<1>5. CASE ReadClientRequestHeader
  BY <1>5 DEF ReadClientRequestHeader, Stop, Active
<1>6. CASE ShouldKeepAlive
  BY <1>6 DEF ShouldKeepAlive, Stop, Active, buffers
<1>7. CASE \/ ClientGone \/ ConnectFails \/ RulesThrow \/ RemoteWriteFails \/ RequestBodyEof
           \/ RemoteGone \/ ClientWriteFails \/ ResponseBodyEof \/ TunnelEnds
  BY <1>7 DEF ClientGone, ConnectFails, RemoteWriteFails, RulesThrow, RequestBodyEof, RemoteGone,
    ClientWriteFails, ResponseBodyEof, TunnelEnds, EofInBody, Stop, Active
<1> QED
  BY <1>1, <1>2, <1>3, <1>4, <1>5, <1>6, <1>7 DEF Next, Environment, Session

\* A server answers: the response to the request it was asked first.
LEMMA AnswerArrives ==
  ASSUME CaseTypes, ServerTypes, ServerAnswers
  PROVE  /\ conn.asked # << >> /\ conn'.asked = Tail(conn.asked)
         /\ conn.up /\ conn.host \in Hosts
         /\ \E r \in servers.responses : \E i \in 1 .. Len(script) :
              /\ i = Head(conn.asked) /\ r \in ResponseMessages
              /\ Remote' = Cat(Remote, Prepend(Unit("resp", i, conn.host, r),
                                               ServerBody(i, conn.host, r)))
<1>1. PICK r \in servers.responses :
        LET i == Head(conn.asked)
        IN  conn' = [conn EXCEPT
              !.wire = @ \o <<Unit("resp", i, conn.host, r)>> \o ServerBody(i, conn.host, r),
              !.asked = Tail(@),
              !.interim = FALSE,
              !.up = r.keep_alive /\ ~DelimitedByClose(r)]
  BY DEF ServerAnswers
<1>2. conn.up /\ conn.asked # << >> /\ UNCHANGED remote_read_buffer_
  BY DEF ServerAnswers, buffers
<1>3. /\ conn.host \in Hosts /\ conn.asked \in Seq(1 .. Len(script))
      /\ conn.wire \in Seq(ServerUnits) /\ remote_read_buffer_ \in Seq(ServerUnits)
      /\ conn \in [host : Hosts \cup {NoHost}, up : BOOLEAN, wire : Seq(ServerUnits),
                   asked : Seq(1 .. Len(script)), interim : BOOLEAN]
  BY <1>2 DEF ServerTypes
<1>4. PICK i \in 1 .. Len(script) : i = Head(conn.asked)
  BY <1>2, <1>3, HeadAndTail
<1>5. r \in ResponseMessages /\ i \in 0 .. Len(script)
  BY DEF CaseTypes
<1>6. PICK u \in ServerUnits : u = Unit("resp", i, conn.host, r)
  BY <1>3, <1>5, ServerUnitsTyped DEF ServerUnits
<1>7. PICK b \in Seq(ServerUnits) : b = ServerBody(i, conn.host, r)
  BY <1>3, <1>5, ServerUnitsTyped
<1>8. /\ conn'.wire = (conn.wire \o <<u>>) \o b
      /\ conn'.asked = Tail(conn.asked)
  BY <1>1, <1>3, <1>4, <1>6, <1>7
<1>9. conn'.wire = Cat(conn.wire, Prepend(u, b))
  <2>1. PICK w \in Seq(ServerUnits) : w = conn.wire
    BY <1>3
  <2>2. (w \o <<u>>) \o b = w \o (<<u>> \o b)
    OBVIOUS
  <2> QED
    BY <1>8, <2>1, <2>2, Zenon DEF Cat, Prepend
<1>10. Remote' = Cat(Remote, Prepend(u, b))
  BY <1>2, <1>3, <1>9, CatAssoc, PrependType DEF Remote
<1> QED
  BY <1>2, <1>3, <1>4, <1>5, <1>6, <1>7, <1>8, <1>10

LEMMA UnaskedArrives ==
  ASSUME CaseTypes, ServerTypes, ServerSendsInterim \/ ServerSendsNotice
  PROVE  /\ ~Orderly /\ conn'.asked = conn.asked
         /\ \E u \in ServerUnits :
              /\ Remote' = Cat(Remote, Prepend(u, << >>))
              /\ u.id = 0 \/ (conn.asked # << >> /\ u.id = Head(conn.asked))
<1>1. conn.up /\ UNCHANGED remote_read_buffer_
  BY DEF ServerSendsInterim, ServerSendsNotice, buffers
<1>2. /\ conn.host \in Hosts /\ conn.asked \in Seq(1 .. Len(script))
      /\ conn.wire \in Seq(ServerUnits) /\ remote_read_buffer_ \in Seq(ServerUnits)
      /\ Len(script) \in Nat
      /\ conn \in [host : Hosts \cup {NoHost}, up : BOOLEAN, wire : Seq(ServerUnits),
                   asked : Seq(1 .. Len(script)), interim : BOOLEAN]
  BY <1>1 DEF ServerTypes, CaseTypes
<1>3. PICK u \in ServerUnits :
        /\ conn'.wire = Append(conn.wire, u) /\ conn'.asked = conn.asked
        /\ u.id = 0 \/ (conn.asked # << >> /\ u.id = Head(conn.asked))
  <2>1. CASE ServerSendsInterim
    <3> DEFINE m == [status |-> 103, chunked |-> FALSE, pieces |-> 0,
                     content_length |-> NoLength, keep_alive |-> TRUE]
               v == Unit("resp", Head(conn.asked), conn.host, m)
    <3>1. conn.asked # << >> /\ Head(conn.asked) \in 1 .. Len(script)
      BY <2>1, <1>2, HeadAndTail DEF ServerSendsInterim
    <3>2. m \in Headers
      BY DEF Headers
    <3>3. conn' = [conn EXCEPT !.wire = Append(@, v), !.interim = TRUE]
      BY <2>1 DEF ServerSendsInterim
    <3> HIDE DEF m
    <3>4. v \in ServerUnits /\ v.id = Head(conn.asked)
      BY <1>2, <3>1, <3>2 DEF ServerUnits, ResponseUnits, Unit
    <3> HIDE DEF v
    <3> QED
      BY <1>2, <3>1, <3>3, <3>4
  <2>2. CASE ServerSendsNotice
    <3> DEFINE m == [status |-> 408, chunked |-> FALSE, pieces |-> 0,
                     content_length |-> 0, keep_alive |-> FALSE]
               v == Unit("resp", 0, conn.host, m)
    <3>2. m \in Headers
      BY DEF Headers
    <3>3. conn' = [conn EXCEPT !.wire = Append(@, v), !.up = FALSE]
      BY <2>2 DEF ServerSendsNotice
    <3> HIDE DEF m
    <3>4. v \in ServerUnits /\ v.id = 0
      BY <1>2, <3>2 DEF ServerUnits, ResponseUnits, Unit
    <3> HIDE DEF v
    <3> QED
      BY <1>2, <3>3, <3>4
  <2> QED
    BY <2>1, <2>2
<1>4. ~Orderly
  BY DEF Orderly, ServerSendsInterim, ServerSendsNotice
<1>5. Remote' = Cat(Remote, Prepend(u, << >>))
  <2>1. PICK w \in Seq(ServerUnits) : w = conn.wire
    BY <1>2
  <2>2. Append(w, u) = w \o (<<u>> \o << >>)
    OBVIOUS
  <2>3. conn'.wire = Cat(conn.wire, Prepend(u, << >>))
    BY <1>3, <2>1, <2>2, Zenon DEF Cat, Prepend
  <2>4. Prepend(u, << >>) \in Seq(ServerUnits)
    <3>1. << >> \in Seq(ServerUnits)
      OBVIOUS
    <3> QED
      BY <3>1, PrependType
  <2> QED
    BY <1>1, <1>2, <2>3, <2>4, CatAssoc DEF Remote
<1> QED
  BY <1>3, <1>4, <1>5

\* A server closes: the end of what it sent is lost.
LEMMA AnswerIsCut ==
  ASSUME ServerTypes, ServerTypes', UNCHANGED script, ServerCloses
  PROVE  /\ conn'.asked = conn.asked
         /\ \E lost \in Seq(ServerUnits) : Remote = Cat(Remote', lost)
<1>1. /\ conn.wire \in Seq(ServerUnits) /\ remote_read_buffer_ \in Seq(ServerUnits)
      /\ conn \in [host : Hosts \cup {NoHost}, up : BOOLEAN, wire : Seq(ServerUnits),
                   asked : Seq(1 .. Len(script)), interim : BOOLEAN]
      /\ UNCHANGED remote_read_buffer_
  BY DEF ServerTypes, ServerCloses, buffers
<1>2. PICK n \in 0 .. Len(conn.wire) :
        conn' = [conn EXCEPT !.up = FALSE, !.wire = SubSeq(@, 1, n)]
  BY DEF ServerCloses
<1>3. conn'.wire = SubSeq(conn.wire, 1, n) /\ conn'.asked = conn.asked
  BY <1>1, <1>2
<1>4. PICK x \in Seq(ServerUnits), y \in Seq(ServerUnits) :
        conn'.wire = x /\ conn.wire = Cat(x, y)
  <2>1. /\ SubSeq(conn.wire, 1, n) \in Seq(ServerUnits)
        /\ SubSeq(conn.wire, n + 1, Len(conn.wire)) \in Seq(ServerUnits)
        /\ SubSeq(conn.wire, 1, n) \o SubSeq(conn.wire, n + 1, Len(conn.wire)) = conn.wire
    BY <1>1, Cut
  <2> QED
    BY <1>3, <2>1 DEF Cat
<1>5. Remote = Cat(Remote', y)
  BY <1>1, <1>4, CatAssoc DEF Remote
<1> QED
  BY <1>3, <1>5

\* The session takes the first unit of what the server sent.
LEMMA RemoteTakes ==
  ASSUME ServerTypes,
         NEW u, conn' = [conn EXCEPT !.wire = conn'.wire],
         remote_read_buffer_ \o conn.wire = <<u>> \o (remote_read_buffer_' \o conn'.wire)
  PROVE  Remote = Prepend(u, Remote') /\ conn'.asked = conn.asked
<1>1. Remote = Prepend(u, Remote')
  BY Zenon DEF Remote, Cat, Prepend
<1>2. conn'.asked = conn.asked
  BY DEF ServerTypes
<1> QED
  BY <1>1, <1>2

LEMMA TunnelDrains ==
  ASSUME ServerTypes, TunnelToClient
  PROVE  /\ Remote # << >> /\ Remote' = << >> /\ conn'.asked = conn.asked
         /\ client_got' = (client_got \o remote_read_buffer_) \o conn.wire
<1>1. /\ remote_read_buffer_ \o conn.wire # << >> /\ remote_read_buffer_' = << >>
      /\ conn'.wire = << >> /\ conn'.asked = conn.asked
      /\ client_got' = (client_got \o remote_read_buffer_) \o conn.wire
  BY DEF TunnelToClient, ServerTypes
<1>2. Cat(<< >>, << >>) = << >>
  <2>1. << >> \in Seq({})
    OBVIOUS
  <2> QED
    BY <2>1, CatNone
<1>3. Remote' = << >>
  BY <1>1, <1>2 DEF Remote
<1> QED
  BY <1>1, <1>3 DEF Remote, Cat

-----------------------------------------------------------------------------
(***************************************************************************)
(* Whatever the servers do, nothing that has to do with a later request    *)
(* than the current one is asked, on its way or delivered.                 *)
(***************************************************************************)
Known(n) == {u \in ServerUnits : u.id <= n}
KnownGot(n) == {u \in GotUnits : u.id <= n}

NotAhead ==
  /\ Active => Remote \in Seq(Known(request)) /\ conn.asked \in Seq(1 .. request)
  /\ pc = "write_response" => response.id <= request
  /\ client_got \in Seq(KnownGot(request))

LEMMA RequestGrows ==
  ASSUME TypeInv, TypeInv', RoutedInv, StreamInv, [Next]_vars
  PROVE  /\ request \in 0 .. Len(script) /\ request' \in 0 .. Len(script)
         /\ Len(script) \in Nat
         /\ request' = request \/ (ReadClientRequestHeader /\ request' = request + 1)
<1>1. request \in 0 .. Len(script) /\ request' \in 0 .. Len(script) /\ Len(script) \in Nat
  BY Frame DEF TypeInv, CaseTypes, ExchangeTypes
<1> QED
  BY <1>1, Frame, HeaderKeeps

LEMMA NotAheadOnTheWay ==
  ASSUME TypeInv, TypeInv', RoutedInv, StreamInv, NotAhead, [Next]_vars, Active'
  PROVE  Remote' \in Seq(Known(request)') /\ conn'.asked \in Seq(1 .. request')
<1>1. PICK k \in Nat : k = request' /\ request <= k /\ request \in Nat
  BY RequestGrows
<1>2. UNCHANGED script /\ ServerUnits' = ServerUnits
  BY Frame DEF ServerUnits, ResponseUnits
<1>3. Known(request)' = Known(k)
  BY <1>1, <1>2 DEF Known
<1>4. Active
  <2>1. \/ Passing \/ ReadClientRequestHeader \/ WriteRemoteRequestHeader
        \/ ForwardRequestBody \/ WriteConnectEstablishedResponseToClient \/ TunnelToRemote
    BY PassingSteps DEF TypeInv
  <2> QED
    BY <2>1 DEF Passing, Active, ReadClientRequestHeader, WriteRemoteRequestHeader,
      ForwardRequestBody, WriteConnectEstablishedResponseToClient, TunnelToRemote
<1>5. Remote \in Seq(Known(k)) /\ conn.asked \in Seq(1 .. k)
  <2>1. Known(request) \subseteq Known(k) /\ 1 .. request \subseteq 1 .. k
    <3>1. \A u \in ServerUnits : u.id \in Int
      BY DEF ServerUnits, ResponseUnits
    <3> QED
      BY <1>1, <3>1 DEF Known
  <2> QED
    BY <1>4, <2>1, SeqMonotonic DEF NotAhead
<1>6. Remote \in Seq(ServerUnits) /\ remote_read_buffer_ \in Seq(ServerUnits)
      /\ conn.wire \in Seq(ServerUnits) /\ Remote' \in Seq(ServerUnits)
  <2>1. remote_read_buffer_' \in Seq(ServerUnits) /\ conn'.wire \in Seq(ServerUnits)
    BY <1>2 DEF TypeInv, ServerTypes
  <2>2. Remote' \in Seq(ServerUnits)
    BY <2>1, CatType DEF Remote
  <2> QED
    BY <2>2, RemoteTyped DEF TypeInv
<1>7. << >> \in Seq(Known(k)) /\ << >> \in Seq(1 .. k)
  OBVIOUS
<1> SUFFICES Remote' \in Seq(Known(k)) /\ conn'.asked \in Seq(1 .. k)
  BY <1>1, <1>3
<1>8. CASE UNCHANGED <<conn, remote_read_buffer_>>
  BY <1>5, <1>8 DEF Remote
<1>9. CASE /\ UNCHANGED remote_read_buffer_
           /\ conn'.wire = << >> /\ conn'.asked = << >>
  <2>1. remote_read_buffer_ \in Seq(Known(k))
    BY <1>5, <1>6, CatParts DEF Remote
  <2> QED
    BY <1>7, <1>9, <2>1, CatType DEF Remote
<1>10. CASE ServerAnswers
  <2>1. PICK r \in ResponseMessages, i \in 1 .. Len(script) :
          /\ i = Head(conn.asked)
          /\ Remote' = Cat(Remote, Prepend(Unit("resp", i, conn.host, r),
                                           ServerBody(i, conn.host, r)))
    BY <1>10, AnswerArrives DEF TypeInv
  <2>2. /\ conn.asked # << >> /\ conn'.asked = Tail(conn.asked)
        /\ conn.host \in Hosts
    BY <1>10, AnswerArrives DEF TypeInv
  <2>3. i \in 1 .. k /\ conn'.asked \in Seq(1 .. k)
    BY <1>5, <2>1, <2>2, HeadAndTail
  <2>4. i \in 0 .. Len(script)
    OBVIOUS
  <2>5. /\ Unit("resp", i, conn.host, r) \in ResponseUnits
        /\ ServerBody(i, conn.host, r) \in Seq(BodyElements(i, conn.host))
    BY <2>2, <2>4, ServerUnitsTyped DEF TypeInv
  <2>6. Unit("resp", i, conn.host, r) \in Known(k)
    BY <1>1, <2>3, <2>5 DEF Known, ServerUnits, Unit
  <2>7. BodyElements(i, conn.host) \subseteq Known(k)
    BY <1>1, <2>2, <2>3, <2>4 DEF Known, ServerUnits, BodyElements
  <2>8. ServerBody(i, conn.host, r) \in Seq(Known(k))
    BY <2>5, <2>7, SeqMonotonic
  <2> QED
    BY <1>5, <2>1, <2>3, <2>6, <2>8, CatType, PrependType
<1>11. CASE ServerSendsInterim \/ ServerSendsNotice
  <2>1. conn'.asked = conn.asked
    BY <1>11, UnaskedArrives DEF TypeInv
  <2>2. PICK u \in ServerUnits :
          /\ Remote' = Cat(Remote, Prepend(u, << >>))
          /\ u.id = 0 \/ (conn.asked # << >> /\ u.id = Head(conn.asked))
    BY <1>11, UnaskedArrives DEF TypeInv
  <2>3. conn.asked # << >> => Head(conn.asked) \in 1 .. k
    BY <1>5, HeadAndTail
  <2>4. u \in Known(k)
    BY <1>1, <2>2, <2>3 DEF Known
  <2> QED
    BY <1>5, <1>7, <2>1, <2>2, <2>4, CatType, PrependType
<1>12. CASE ServerCloses
  <2>1. conn'.asked = conn.asked
    BY <1>2, <1>12, AnswerIsCut DEF TypeInv
  <2>2. PICK lost \in Seq(ServerUnits) : Remote = Cat(Remote', lost)
    BY <1>2, <1>12, AnswerIsCut DEF TypeInv
  <2> QED
    BY <1>5, <1>6, <2>1, <2>2, CatParts
<1>13. CASE WriteRemoteRequestHeader
  <2>1. /\ ToServer(Unit("req", request, Current.host, NoResponse))
        /\ UNCHANGED remote_read_buffer_ /\ request # 0 /\ UNCHANGED request
    BY <1>13 DEF WriteRemoteRequestHeader, buffers, TypeInv, ExchangeTypes
  <2>2. Unit("req", request, Current.host, NoResponse).id = request
    BY DEF Unit
  <2>3. /\ conn'.wire = conn.wire
        /\ conn'.asked = conn.asked \/ conn'.asked = Append(conn.asked, request)
    BY <2>1, <2>2 DEF ToServer, TypeInv, ServerTypes
  <2>4. request \in 1 .. k
    BY <1>1, <2>1
  <2>5. Append(conn.asked, request) \in Seq(1 .. k)
    BY <1>5, <2>4
  <2> QED
    BY <1>5, <2>1, <2>3, <2>5 DEF Remote
<1>14. CASE ForwardRequestBody \/ TunnelToRemote
  <2>1. UNCHANGED <<conn, remote_read_buffer_>>
    BY <1>14, RequestBodyKeeps, TunnelKeeps DEF ForwardRequestBody, TunnelToRemote, Active
  <2> QED
    BY <1>8, <2>1
<1>15. CASE ReadRemoteResponseHeader \/ ForwardResponseBody
  <2>1. PICK u \in ServerUnits :
          /\ remote_read_buffer_ \o conn.wire
               = <<u>> \o (remote_read_buffer_' \o conn'.wire)
          /\ conn' = [conn EXCEPT !.wire = conn'.wire]
    BY <1>15, ResponseHeaderRead, ResponseBodyRead DEF TypeInv, Stop, Active
  <2>2. Remote = Prepend(u, Remote') /\ conn'.asked = conn.asked
    BY <2>1, RemoteTakes DEF TypeInv
  <2> QED
    BY <1>5, <1>6, <2>2, PrependParts
<1>16. CASE TunnelToClient
  BY <1>5, <1>7, <1>16, TunnelDrains DEF TypeInv
<1> QED
  BY <1>8, <1>9, <1>10, <1>11, <1>12, <1>13, <1>14, <1>15, <1>16, RemoteFrame

LEMMA NotAheadStep ==
  ASSUME TypeInv, TypeInv', RoutedInv, StreamInv, NotAhead, [Next]_vars
  PROVE  NotAhead'
<1>1. PICK k \in Nat : k = request' /\ request <= k /\ request \in Nat
                       /\ (request' = request \/ ReadClientRequestHeader)
  BY RequestGrows
<1>2. UNCHANGED script /\ GotUnits' = GotUnits /\ KnownGot(request)' = KnownGot(k)
  BY <1>1, Frame DEF KnownGot, GotUnits, ServerUnits, ResponseUnits
<1>3. \A u \in GotUnits : u.id \in Int
  BY DEF GotUnits, ServerUnits, ResponseUnits
<1>4. client_got \in Seq(KnownGot(k))
  <2>1. KnownGot(request) \subseteq KnownGot(k)
    BY <1>1, <1>3 DEF KnownGot
  <2> QED
    BY <2>1, SeqMonotonic DEF NotAhead
<1>5. Known(request) \subseteq KnownGot(request) /\ KnownGot(request) \subseteq KnownGot(k)
      /\ Known(request) \subseteq KnownGot(k)
  BY <1>1, <1>3 DEF Known, KnownGot, GotUnits
<1>6. client_got' \in Seq(KnownGot(k))
  <2>1. CASE UNCHANGED client_got
    BY <1>4, <2>1
  <2>2. CASE WriteRemoteResponseHeaderToClient
    <3>1. client_got' = Append(client_got, response) /\ pc = "write_response"
      BY <2>2 DEF WriteRemoteResponseHeaderToClient
    <3>2. response \in KnownGot(request)
      BY <3>1 DEF TypeInv, ExchangeTypes, NotAhead, KnownGot, GotUnits, ServerUnits
    <3> QED
      BY <1>4, <1>5, <3>1, <3>2
  <2>3. CASE ForwardResponseBody
    <3>1. CASE UNCHANGED client_got
      BY <1>4, <3>1
    <3>2. CASE client_got' # client_got
      <4>1. PICK u \in ServerUnits :
              /\ remote_read_buffer_ \o conn.wire
                   = <<u>> \o (remote_read_buffer_' \o conn'.wire)
              /\ conn' = [conn EXCEPT !.wire = conn'.wire]
              /\ client_got' = Append(client_got, u)
              /\ remote_read_buffer_' \in Seq(ServerUnits)
              /\ conn'.wire \in Seq(ServerUnits)
        BY <2>3, <3>2, ResponseBodyRead DEF TypeInv
      <4>2. Remote = Prepend(u, Remote')
        BY <4>1, RemoteTakes DEF TypeInv
      <4>3. Remote' \in Seq(ServerUnits)
        BY <4>1, CatType DEF Remote
      <4>4. Remote \in Seq(Known(request))
        BY <2>3 DEF NotAhead, Active, ForwardResponseBody
      <4>5. u \in Known(request)
        BY <4>2, <4>3, <4>4, PrependParts
      <4> QED
        BY <1>4, <1>5, <4>1, <4>5
    <3> QED
      BY <3>1, <3>2
  <2>4. CASE WriteConnectEstablishedResponseToClient
    <3> DEFINE u == Unit("established", request, Current.host, NoResponse)
    <3>1. client_got' = Append(client_got, u) /\ pc = "write_established"
      BY <2>4 DEF WriteConnectEstablishedResponseToClient
    <3>2. request \in 1 .. Len(script)
      BY <3>1 DEF TypeInv, ExchangeTypes, CaseTypes
    <3>3. Current.host \in Hosts
      BY <3>2, CurrentTyped DEF TypeInv, Current
    <3>4. u \in KnownGot(request)
      BY <1>1, <3>2, <3>3 DEF KnownGot, GotUnits, Unit
    <3> HIDE DEF u
    <3> QED
      BY <1>4, <1>5, <3>1, <3>4
  <2>5. CASE TunnelToClient
    <3>1. client_got' = (client_got \o remote_read_buffer_) \o conn.wire
      BY <2>5, TunnelDrains DEF TypeInv
    <3>2. Remote \in Seq(Known(request))
      BY <2>5 DEF NotAhead, Active, TunnelToClient
    <3>3. remote_read_buffer_ \in Seq(Known(request)) /\ conn.wire \in Seq(Known(request))
      BY <3>2, RemoteTyped, CatParts DEF Remote, TypeInv
    <3>4. remote_read_buffer_ \in Seq(KnownGot(k)) /\ conn.wire \in Seq(KnownGot(k))
      BY <1>5, <3>3, SeqMonotonic
    <3>5. Cat(Cat(client_got, remote_read_buffer_), conn.wire) \in Seq(KnownGot(k))
      BY <1>4, <3>4, CatType
    <3> QED
      BY <3>1, <3>5 DEF Cat
  <2> QED
    BY <2>1, <2>2, <2>3, <2>4, <2>5, Frame
<1>7. ASSUME pc' = "write_response" PROVE response'.id <= request'
  <2>1. CASE ReadRemoteResponseHeader
    <3>1. PICK u \in ServerUnits :
            /\ remote_read_buffer_ \o conn.wire
                 = <<u>> \o (remote_read_buffer_' \o conn'.wire)
            /\ conn' = [conn EXCEPT !.wire = conn'.wire]
            /\ response' = u
            /\ remote_read_buffer_' \in Seq(ServerUnits)
            /\ conn'.wire \in Seq(ServerUnits)
      BY <1>7, <2>1, ResponseHeaderRead DEF TypeInv, Stop
    <3>2. Remote = Prepend(u, Remote')
      BY <3>1, RemoteTakes DEF TypeInv
    <3>3. Remote' \in Seq(ServerUnits)
      BY <3>1, CatType DEF Remote
    <3>4. Remote \in Seq(Known(request))
      BY <2>1 DEF NotAhead, Active, ReadRemoteResponseHeader
    <3>5. u \in Known(request)
      BY <3>2, <3>3, <3>4, PrependParts
    <3> QED
      BY <2>1, <3>1, <3>5 DEF Known, ReadRemoteResponseHeader
  <2>2. CASE ~ReadRemoteResponseHeader
    <3>1. pc = "write_response" /\ UNCHANGED <<request, response>>
      BY <1>7, <2>2, ZenonT(40) DEF Next, Environment, Session, vars, exchange, Stop, EofInBody,
        AfterConnect, ClientSends, ClientSendsBody, ClientCloses, ServerAnswers,
        ServerSendsInterim, ServerSendsNotice, ServerCloses,
        ReadClientRequestHeader, ClientGone, EnsureRemoteConnected, ResolveRemote, ConnectRemote,
        ConnectFails, WriteRemoteRequestHeader, RemoteWriteFails, RulesThrow, RequestBodyDone,
        ForwardRequestBody, RequestBodyEof, RemoteGone,
        WriteRemoteResponseHeaderToClient, ClientWriteFails, ResponseBodyDone,
        ForwardResponseBody, ResponseBodyEof, ShouldKeepAlive,
        WriteConnectEstablishedResponseToClient, TunnelToClient, TunnelToRemote,
        TunnelEnds
    <3> QED
      BY <3>1, ZenonT(40) DEF NotAhead
  <2> QED
    BY <2>1, <2>2
<1> QED
  BY <1>2, <1>6, <1>7, NotAheadOnTheWay DEF NotAhead

-----------------------------------------------------------------------------
(***************************************************************************)
(* The server's side, when the servers are orderly.  Between exchanges     *)
(* nothing is asked and nothing on its way.  While the session waits, it   *)
(* has asked the one request and at most its answer is on its way, or the  *)
(* beginning of it when the server went away.  Then the answer is in three *)
(* parts: sofar is delivered, rest is to come, cut will not.               *)
(***************************************************************************)
Quiet == Asking \cup {"read_request", "tunnel", "decide"}
Waiting == {"request_body", "read_response"}
Delivering == {"write_response", "response_body", "decide"}
Unanswered == Asking \cup Waiting \cup {"write_response"}

AnswerHead(r) == Unit("resp", request, Current.host, r)
AnswerBody(r) == ServerBody(request, Current.host, r)
Got(k) == OfRequest(client_got, k)

Awaiting ==
  \/ Remote = << >> /\ conn.asked \in {<< >>, <<request>>}
  \/ /\ conn.asked = << >>
     /\ \E r \in servers.responses, cut \in Seq(ServerUnits) :
          Cat(Remote, cut) = Prepend(AnswerHead(r), AnswerBody(r))

Answering(r, sofar, rest, cut) ==
  /\ response = AnswerHead(r)
  /\ AnswerBody(r) = Cat(sofar, rest)
  /\ Cat(Remote, cut) = rest

Delivered(r, sofar, rest) ==
  /\ pc = "write_response" => sofar = << >>
  /\ pc # "write_response" => Got(request) = Prepend(response, sofar)
  /\ pc = "response_body" /\ ResponseFraming = "ContentLength" => Len(rest) = remaining
  /\ pc \in {"decide", "read_request"} /\ ParserKeepAlive(r) => rest = << >>
  /\ pc = "read_request" => ParserKeepAlive(r)

AnswerInv ==
  Orderly =>
    /\ pc \in Quiet => Remote = << >> /\ conn.asked = << >>
    /\ pc \in Waiting => Awaiting
    /\ pc \in Delivering \/ (pc = "read_request" /\ request # 0) =>
         /\ conn.asked = << >>
         /\ \E r \in servers.responses, sofar, rest, cut \in Seq(ServerUnits) :
              Answering(r, sofar, rest, cut) /\ Delivered(r, sofar, rest)

\* The history of the client's side.
GotInv ==
  Orderly =>
    /\ pc \in Unanswered => \A j \in DOMAIN client_got : client_got[j].id < request
    /\ pc \in {"response_body", "decide", "read_request"} =>
         \A j \in DOMAIN client_got :
           client_got[j].id = request /\ client_got[j].kind = "resp" =>
             client_got[j] = response

LEMMA AnswerTyped ==
  ASSUME TypeInv, request # 0, NEW r \in servers.responses
  PROVE  /\ r \in ResponseMessages /\ Framed(r)
         /\ AnswerHead(r) \in ServerUnits /\ AnswerHead(r).id = request
         /\ AnswerHead(r).kind = "resp" /\ AnswerHead(r).message = r
         /\ AnswerHead(r).host = Current.host
         /\ AnswerBody(r) \in Seq(BodyElements(request, Current.host))
         /\ AnswerBody(r) \in Seq(ServerUnits)
         /\ Current.host \in Hosts /\ request \in 1 .. Len(script)
<1>1. request \in 1 .. Len(script) /\ request \in 0 .. Len(script) /\ r \in ResponseMessages
  BY DEF TypeInv, CaseTypes, ExchangeTypes
<1>2. Current.host \in Hosts
  BY <1>1, CurrentTyped DEF TypeInv, Current
<1>3. /\ Unit("resp", request, Current.host, r) \in ResponseUnits /\ Framed(r)
      /\ ServerBody(request, Current.host, r) \in Seq(BodyElements(request, Current.host))
      /\ ServerBody(request, Current.host, r) \in Seq(ServerUnits)
  BY <1>1, <1>2, ServerUnitsTyped DEF TypeInv
<1>4. /\ AnswerHead(r).id = request /\ AnswerHead(r).kind = "resp"
      /\ AnswerHead(r).message = r /\ AnswerHead(r).host = Current.host
  BY DEF AnswerHead, Unit
<1> QED
  BY <1>1, <1>2, <1>3, <1>4 DEF AnswerHead, AnswerBody, ServerUnits

LEMMA AnswerSame ==
  ASSUME UNCHANGED <<script, servers, request>>
  PROVE  /\ Current' = Current /\ ServerUnits' = ServerUnits
         /\ \A r : AnswerHead(r)' = AnswerHead(r) /\ AnswerBody(r)' = AnswerBody(r)
         /\ Orderly' = Orderly
<1>1. Current' = Current /\ ServerUnits' = ServerUnits /\ Orderly' = Orderly
  BY DEF Current, ServerUnits, ResponseUnits, Orderly
<1>2. \A r : AnswerHead(r)' = AnswerHead(r) /\ AnswerBody(r)' = AnswerBody(r)
  BY <1>1 DEF AnswerHead, AnswerBody, ServerBody
<1> QED
  BY <1>1, <1>2

\* Nothing of the server is there, whether its connection is kept or left.
LEMMA NothingLeft ==
  ASSUME TypeInv, Remote = << >>
  PROVE  /\ remote_read_buffer_ = << >> /\ conn.wire = << >>
         /\ Cat(<< >>, << >>) = << >>
<1>1. Cat(<< >>, << >>) = << >>
  <2>1. << >> \in Seq(ServerUnits)
    OBVIOUS
  <2> QED
    BY <2>1, CatNone
<1>2. /\ remote_read_buffer_ \in Seq(ServerUnits) /\ conn.wire \in Seq(ServerUnits)
  BY RemoteTyped DEF TypeInv
<1>3. remote_read_buffer_ = << >> /\ conn.wire = << >>
  BY <1>2, Concat DEF Remote, Cat
<1> QED
  BY <1>1, <1>3

(***************************************************************************)
(* Steps from a quiet place to a quiet one, or to the waiting.             *)
(***************************************************************************)
LEMMA QuietStays ==
  ASSUME TypeInv, AnswerInv, Orderly, pc \in Quiet, pc' \in Asking \cup {"tunnel"},
         UNCHANGED remote_read_buffer_,
         UNCHANGED conn \/ (conn'.wire = << >> /\ conn'.asked = << >>)
  PROVE  AnswerInv'
<1>1. Remote = << >> /\ conn.asked = << >>
  BY DEF AnswerInv
<1>2. remote_read_buffer_ = << >> /\ conn.wire = << >> /\ Cat(<< >>, << >>) = << >>
  BY <1>1, NothingLeft
<1>3. Remote' = << >> /\ conn'.asked = << >>
  BY <1>1, <1>2 DEF Remote
<1>4. pc' \in Quiet /\ pc' \notin Waiting /\ pc' \notin Delivering /\ pc' # "read_request"
  BY DEF Quiet, Waiting, Delivering, Asking
<1> QED
  BY <1>3, <1>4 DEF AnswerInv

LEMMA RequestIsAsked ==
  ASSUME TypeInv, AnswerInv, Orderly, WriteRemoteRequestHeader
  PROVE  AnswerInv'
<1>1. /\ ToServer(Unit("req", request, Current.host, NoResponse))
      /\ UNCHANGED <<remote_read_buffer_, request>>
      /\ pc = "write_request" /\ pc' = "request_body"
  BY DEF WriteRemoteRequestHeader, buffers
<1>2. Remote = << >> /\ conn.asked = << >>
  BY <1>1 DEF AnswerInv, Quiet, Asking
<1>3. Unit("req", request, Current.host, NoResponse).id = request
  BY DEF Unit
<1>4. /\ conn'.wire = conn.wire
      /\ conn'.asked = conn.asked \/ conn'.asked = Append(conn.asked, request)
  BY <1>1, <1>3 DEF ToServer, TypeInv, ServerTypes
<1>5. Remote' = << >>
  BY <1>1, <1>2, <1>4 DEF Remote
<1>6. Append(<< >>, request) = <<request>>
  OBVIOUS
<1>7. conn'.asked \in {<< >>, <<request'>>}
  BY <1>1, <1>2, <1>4, <1>6, Zenon
<1>8. Awaiting'
  BY <1>5, <1>7, Zenon DEF Awaiting
<1> QED
  BY <1>1, <1>8 DEF AnswerInv, Quiet, Waiting, Delivering, Asking

LEMMA WaitingStays ==
  ASSUME AnswerInv, Orderly, pc \in Waiting, pc' \in Waiting,
         UNCHANGED <<script, servers, request, conn, remote_read_buffer_>>
  PROVE  AnswerInv'
<1>1. Remote' = Remote /\ Awaiting
  BY DEF Remote, AnswerInv
<1>2. Awaiting'
  <2>1. CASE Remote = << >> /\ conn.asked \in {<< >>, <<request>>}
    BY <1>1, <2>1 DEF Awaiting
  <2>2. CASE /\ conn.asked = << >>
             /\ \E r \in servers.responses, cut \in Seq(ServerUnits) :
                  Cat(Remote, cut) = Prepend(AnswerHead(r), AnswerBody(r))
    <3>1. PICK r \in servers.responses, cut \in Seq(ServerUnits) :
            Cat(Remote, cut) = Prepend(AnswerHead(r), AnswerBody(r))
      BY <2>2
    <3>2. Cat(Remote', cut) = Prepend(AnswerHead(r)', AnswerBody(r)')
      BY <1>1, <3>1, AnswerSame
    <3> QED
      BY <2>2, <3>2, AnswerSame DEF Awaiting
  <2> QED
    BY <1>1, <2>1, <2>2 DEF Awaiting
<1> QED
  BY <1>2 DEF AnswerInv, Quiet, Waiting, Delivering, Asking

(***************************************************************************)
(* Steps of the server, and steps that are not about the response.  What a *)
(* server that goes away takes with it is cut.                             *)
(***************************************************************************)
LEMMA AnswerStays ==
  ASSUME TypeInv, AnswerInv, Orderly,
         UNCHANGED <<script, servers, request, response, remaining, client_got, pc>>,
         conn'.asked = conn.asked, Remote' \in Seq(ServerUnits),
         NEW lost \in Seq(ServerUnits), Remote = Cat(Remote', lost)
  PROVE  AnswerInv'
<1>1. /\ Current' = Current /\ ServerUnits' = ServerUnits
      /\ \A r : AnswerHead(r)' = AnswerHead(r) /\ AnswerBody(r)' = AnswerBody(r)
  BY AnswerSame
<1>2. PICK next \in Seq(ServerUnits) : next = Remote'
  OBVIOUS
<1>3. Remote = Cat(next, lost)
  BY <1>2
<1>4. Remote = << >> => Remote' = << >>
  BY <1>2, <1>3, Concat DEF Cat
<1>5. ASSUME NEW cut \in Seq(ServerUnits)
      PROVE  /\ Cat(lost, cut) \in Seq(ServerUnits)
             /\ Cat(Remote', Cat(lost, cut)) = Cat(Remote, cut)
  BY <1>2, <1>3, CatAssoc, CatType
<1>6. ASSUME Awaiting PROVE Awaiting'
  <2>1. CASE Remote = << >> /\ conn.asked \in {<< >>, <<request>>}
    BY <1>4, <2>1 DEF Awaiting
  <2>2. CASE /\ conn.asked = << >>
             /\ \E r \in servers.responses, cut \in Seq(ServerUnits) :
                  Cat(Remote, cut) = Prepend(AnswerHead(r), AnswerBody(r))
    <3>1. PICK r \in servers.responses, cut \in Seq(ServerUnits) :
            Cat(Remote, cut) = Prepend(AnswerHead(r), AnswerBody(r))
      BY <2>2
    <3>2. PICK cut1 \in Seq(ServerUnits) :
            Cat(Remote', cut1) = Prepend(AnswerHead(r)', AnswerBody(r)')
      BY <1>1, <1>5, <3>1
    <3> QED
      BY <1>1, <2>2, <3>2 DEF Awaiting
  <2> QED
    BY <1>6, <2>1, <2>2 DEF Awaiting
<1>7. ResponseFraming' = ResponseFraming /\ Got(request)' = Got(request)
  BY <1>1 DEF ResponseFraming, Got
<1>8. ASSUME NEW r, NEW sofar, NEW rest, NEW cut \in Seq(ServerUnits),
             Answering(r, sofar, rest, cut), Delivered(r, sofar, rest)
      PROVE  /\ \E cut1 \in Seq(ServerUnits) : Answering(r, sofar, rest, cut1)'
             /\ Delivered(r, sofar, rest)'
  <2>1. Delivered(r, sofar, rest)'
    BY <1>7, <1>8 DEF Delivered
  <2>2. PICK cut1 \in Seq(ServerUnits) : Cat(Remote', cut1) = rest
    BY <1>5, <1>8 DEF Answering
  <2>3. Answering(r, sofar, rest, cut1)'
    BY <1>1, <1>8, <2>2 DEF Answering
  <2> QED
    BY <2>1, <2>3
<1>9. ASSUME pc' \in Quiet PROVE Remote' = << >> /\ conn'.asked = << >>
  BY <1>4, <1>9 DEF AnswerInv
<1>10. ASSUME pc' \in Waiting PROVE Awaiting'
  BY <1>6, <1>10 DEF AnswerInv
<1>11. ASSUME pc' \in Delivering \/ (pc' = "read_request" /\ request' # 0)
       PROVE  /\ conn'.asked = << >>
              /\ \E r \in servers'.responses, sofar, rest, cut \in Seq(ServerUnits') :
                   Answering(r, sofar, rest, cut)' /\ Delivered(r, sofar, rest)'
  <2>1. conn.asked = << >>
    BY <1>11 DEF AnswerInv
  <2>2. PICK r \in servers.responses, sofar, rest, cut \in Seq(ServerUnits) :
          Answering(r, sofar, rest, cut) /\ Delivered(r, sofar, rest)
    BY <1>11 DEF AnswerInv
  <2>3. PICK cut1 \in Seq(ServerUnits) : Answering(r, sofar, rest, cut1)'
    BY <1>8, <2>2
  <2>4. Delivered(r, sofar, rest)'
    BY <1>8, <2>2
  <2> QED
    BY <1>1, <2>1, <2>3, <2>4
<1> QED
  BY <1>9, <1>10, <1>11 DEF AnswerInv

LEMMA AnswerComes ==
  ASSUME TypeInv, AnswerInv, Orderly, ServerAnswers
  PROVE  AnswerInv'
<1>1. /\ UNCHANGED <<script, servers, request, response, remaining, client_got, pc>>
      /\ UNCHANGED remote_state_
  BY DEF ServerAnswers, environment, exchange, sockets
<1>2. conn.asked # << >> /\ conn'.asked = Tail(conn.asked)
  BY AnswerArrives DEF TypeInv
<1>3. PICK r \in servers.responses, i \in 1 .. Len(script) :
        /\ i = Head(conn.asked)
        /\ Remote' = Cat(Remote, Prepend(Unit("resp", i, conn.host, r),
                                         ServerBody(i, conn.host, r)))
  BY AnswerArrives DEF TypeInv
<1>4. pc \notin Quiet /\ pc \notin Delivering /\ pc # "read_request"
  BY <1>2 DEF AnswerInv, Quiet
<1>5. CASE pc \in Waiting
  <2>1. Remote = << >> /\ conn.asked = <<request>>
    BY <1>2, <1>5 DEF AnswerInv, Awaiting
  <2>2. i = request /\ conn'.asked = << >>
    BY <1>2, <1>3, <2>1
  <2>3. conn.host = Current.host
    BY <1>5 DEF Waiting, TypeInv, SocketTypes, ConnectionMatches
  <2>4. request # 0
    BY <1>5 DEF Waiting, TypeInv, ExchangeTypes
  <2>5. PICK whole \in Seq(ServerUnits) : whole = Prepend(AnswerHead(r), AnswerBody(r))
    BY <2>4, AnswerTyped, PrependType
  <2>6. Remote' = Cat(<< >>, whole)
    BY <1>3, <2>1, <2>2, <2>3, <2>5 DEF AnswerHead, AnswerBody
  <2>7. Remote' = whole /\ Cat(whole, << >>) = whole
    BY <2>6, CatNone
  <2>8. << >> \in Seq(ServerUnits)
    OBVIOUS
  <2>9. /\ ServerUnits' = ServerUnits
        /\ AnswerHead(r)' = AnswerHead(r) /\ AnswerBody(r)' = AnswerBody(r)
    BY <1>1, AnswerSame
  <2>10. Cat(Remote', << >>) = Prepend(AnswerHead(r)', AnswerBody(r)')
    BY <2>5, <2>7, <2>9
  <2>11. r \in servers'.responses
    BY <1>1
  <2>12. Awaiting'
    BY <2>2, <2>8, <2>9, <2>10, <2>11, Zenon DEF Awaiting
  <2> QED
    BY <1>1, <1>4, <2>12 DEF AnswerInv
<1> QED
  BY <1>1, <1>4, <1>5 DEF AnswerInv

(***************************************************************************)
(* The header of the response is taken from the server.                    *)
(***************************************************************************)
LEMMA AnswerIsRead ==
  ASSUME TypeInv, AnswerInv, Orderly, ReadRemoteResponseHeader
  PROVE  AnswerInv'
<1>1. /\ UNCHANGED <<script, servers, request>> /\ pc = "read_response"
  BY DEF ReadRemoteResponseHeader, environment
<1>2. CASE Stop
  BY <1>2 DEF Stop, AnswerInv, Quiet, Waiting, Delivering, Asking
<1>3. CASE ~Stop
  <2>1. PICK u \in ServerUnits :
          /\ remote_read_buffer_ \o conn.wire
               = <<u>> \o (remote_read_buffer_' \o conn'.wire)
          /\ conn'.wire \in Seq(ServerUnits)
          /\ conn' = [conn EXCEPT !.wire = conn'.wire]
          /\ remote_read_buffer_' \in Seq(ServerUnits)
          /\ response' = u /\ pc' = "write_response"
    BY <1>3, ResponseHeaderRead DEF TypeInv
  <2>2. Remote = Prepend(u, Remote') /\ conn'.asked = conn.asked
    BY <2>1, RemoteTakes DEF TypeInv
  <2>3. PICK next \in Seq(ServerUnits) : next = Remote'
    BY <2>1, CatType DEF Remote
  <2>4. Remote # << >>
    BY <2>2, <2>3, PrependSome
  <2>5. Awaiting /\ request # 0
    BY <1>1 DEF AnswerInv, Waiting, TypeInv, ExchangeTypes
  <2>6. PICK r \in servers.responses, cut \in Seq(ServerUnits) :
          Cat(Remote, cut) = Prepend(AnswerHead(r), AnswerBody(r))
    BY <2>4, <2>5 DEF Awaiting
  <2>7. conn.asked = << >>
    BY <2>4, <2>5 DEF Awaiting
  <2>8. /\ AnswerHead(r) \in ServerUnits /\ AnswerBody(r) \in Seq(ServerUnits)
    BY <2>5, AnswerTyped
  <2>9. Cat(Remote, cut) = Prepend(u, Cat(next, cut)) /\ Cat(next, cut) \in Seq(ServerUnits)
    BY <2>2, <2>3, PrependCat, CatType
  <2>10. u = AnswerHead(r) /\ Cat(next, cut) = AnswerBody(r)
    BY <2>6, <2>8, <2>9, PrependEqual
  <2>11. /\ ServerUnits' = ServerUnits
         /\ AnswerHead(r)' = AnswerHead(r) /\ AnswerBody(r)' = AnswerBody(r)
    BY <1>1, AnswerSame
  <2>12. PICK rest \in Seq(ServerUnits) : rest = AnswerBody(r) /\ Cat(<< >>, rest) = rest
    BY <2>8, CatNone
  <2>13. << >> \in Seq(ServerUnits)
    OBVIOUS
  <2>14. Answering(r, << >>, rest, cut)'
    BY <2>1, <2>3, <2>10, <2>11, <2>12 DEF Answering
  <2>15. Delivered(r, << >>, rest)'
    BY <2>1 DEF Delivered
  <2>16. r \in servers'.responses /\ conn'.asked = << >>
    BY <1>1, <2>2, <2>7
  <2>17. \E s \in servers'.responses, sofar, left, lost \in Seq(ServerUnits') :
           Answering(s, sofar, left, lost)' /\ Delivered(s, sofar, left)'
    BY <2>11, <2>13, <2>14, <2>15, <2>16, Zenon
  <2> QED
    BY <2>1, <2>16, <2>17 DEF AnswerInv, Quiet, Waiting, Asking
<1> QED
  BY <1>2, <1>3

(***************************************************************************)
(* How the session finds the end of a response is how its server marks it. *)
(***************************************************************************)
LEMMA FramingMatches ==
  ASSUME TypeInv, request # 0, NEW r \in servers.responses, pc \in ToHost
  PROVE  LET framing == ResponseBodyInfo(Current, r)
         IN  /\ framing = "None" => AnswerBody(r) = << >>
             /\ framing = "ContentLength" =>
                  /\ r.content_length \in Nat
                  /\ Len(AnswerBody(r)) = r.content_length
             /\ framing = "Chunked" => \A j \in 1 .. Len(AnswerBody(r)) :
                  AnswerBody(r)[j].kind = "last" => j = Len(AnswerBody(r))
             /\ framing = "CloseDelimited" => ~ParserKeepAlive(r)
             /\ framing \in {"None", "ContentLength", "Chunked", "CloseDelimited"}
<1>1. /\ r \in ResponseMessages /\ Framed(r)
  BY AnswerTyped
<1>2. Current.method # "CONNECT" /\ script[request] = Current
  BY DEF TypeInv, ExchangeTypes, Current
<1> DEFINE bodiless == Current.method = "HEAD" \/ r.status \in 100 .. 199 \cup {204, 304}
<1>3. AnswerBody(r) = IF bodiless THEN << >> ELSE BodyUnits(request, Current.host, r)
  BY <1>2, Zenon DEF AnswerBody, ServerBody
<1>4. ResponseBodyInfo(Current, r) =
        IF bodiless THEN "None" ELSE IF r.chunked THEN "Chunked"
        ELSE IF r.content_length # NoLength THEN "ContentLength" ELSE "CloseDelimited"
  BY <1>2 DEF ResponseBodyInfo
<1>5. r.status \in 200 .. 599
  BY <1>1 DEF ResponseMessages
<1>6. /\ ~r.chunked /\ r.content_length # NoLength =>
           Len(BodyUnits(request, Current.host, r)) = r.content_length
      /\ r.chunked => \A j \in 1 .. Len(BodyUnits(request, Current.host, r)) :
           BodyUnits(request, Current.host, r)[j].kind = "last" =>
             j = Len(BodyUnits(request, Current.host, r))
  BY <1>1, BodyTyped
<1>7. ~r.chunked /\ r.content_length = NoLength /\ ~bodiless => ~ParserKeepAlive(r)
  BY <1>5 DEF ParserKeepAlive, DelimitedByClose
<1>8. r.content_length # NoLength => r.content_length \in Nat
  BY <1>1 DEF Framed
<1> HIDE DEF bodiless
<1>9. CASE bodiless
  BY <1>3, <1>4, <1>9
<1>10. CASE ~bodiless /\ r.chunked
  BY <1>3, <1>4, <1>6, <1>10
<1>11. CASE ~bodiless /\ ~r.chunked /\ r.content_length # NoLength
  BY <1>3, <1>4, <1>6, <1>8, <1>11
<1>12. CASE ~bodiless /\ ~r.chunked /\ r.content_length = NoLength
  BY <1>3, <1>4, <1>7, <1>12
<1> QED
  BY <1>9, <1>10, <1>11, <1>12

(***************************************************************************)
(* The header is delivered, and then the units of the body.                *)
(***************************************************************************)
LEMMA AnswerParts ==
  ASSUME TypeInv, AnswerInv, Orderly, pc \in Delivering
  PROVE  /\ request # 0 /\ conn.asked = << >> /\ client_got \in Seq(GotUnits)
         /\ response \in GotUnits /\ response.id = request /\ Remote \in Seq(ServerUnits)
         /\ \E r \in servers.responses, sofar, rest, cut \in Seq(ServerUnits) :
              /\ Answering(r, sofar, rest, cut) /\ Delivered(r, sofar, rest)
              /\ response.message = r /\ ResponseFraming = ResponseBodyInfo(Current, r)
<1>1. request # 0 /\ client_got \in Seq(GotUnits) /\ Remote \in Seq(ServerUnits)
  BY RemoteTyped DEF TypeInv, HistoryTypes, ExchangeTypes, Delivering
<1>2. conn.asked = << >>
  BY DEF AnswerInv
<1>3. PICK r \in servers.responses, sofar, rest, cut \in Seq(ServerUnits) :
        Answering(r, sofar, rest, cut) /\ Delivered(r, sofar, rest)
  BY DEF AnswerInv
<1>4. response = AnswerHead(r)
  BY <1>3 DEF Answering
<1>5. /\ AnswerHead(r) \in ServerUnits /\ AnswerHead(r).id = request
      /\ AnswerHead(r).message = r
  BY <1>1, AnswerTyped
<1>6. response \in GotUnits /\ response.id = request /\ response.message = r
  BY <1>4, <1>5 DEF GotUnits
<1>7. ResponseFraming = ResponseBodyInfo(Current, r)
  BY <1>6 DEF ResponseFraming
<1> QED
  BY <1>1, <1>2, <1>3, <1>6, <1>7

LEMMA HeaderIsDelivered ==
  ASSUME TypeInv, AnswerInv, GotInv, Orderly, WriteRemoteResponseHeaderToClient
  PROVE  AnswerInv'
<1>1. /\ UNCHANGED <<script, servers, request, response, conn, remote_read_buffer_>>
      /\ pc = "write_response" /\ pc' = "response_body"
      /\ client_got' = Append(client_got, response)
      /\ remaining' = IF ResponseFraming = "ContentLength"
                        THEN response.message.content_length ELSE 0
  BY DEF WriteRemoteResponseHeaderToClient, environment, buffers, ResponseFraming
<1>2. /\ request # 0 /\ conn.asked = << >> /\ client_got \in Seq(GotUnits)
      /\ response \in GotUnits /\ response.id = request
  BY <1>1, AnswerParts DEF Delivering
<1>3. PICK r \in servers.responses, sofar, rest, cut \in Seq(ServerUnits) :
        /\ Answering(r, sofar, rest, cut) /\ Delivered(r, sofar, rest)
        /\ response.message = r /\ ResponseFraming = ResponseBodyInfo(Current, r)
  BY <1>1, AnswerParts DEF Delivering
<1>4. sofar = << >>
  BY <1>1, <1>3 DEF Delivered
<1>5. /\ ServerUnits' = ServerUnits /\ Current' = Current
      /\ AnswerHead(r)' = AnswerHead(r) /\ AnswerBody(r)' = AnswerBody(r)
      /\ Remote' = Remote
  BY <1>1, AnswerSame DEF Remote
<1>6. Answering(r, sofar, rest, cut)'
  BY <1>1, <1>3, <1>5 DEF Answering
<1>7. Got(request)' = Prepend(response', sofar)
  <2>1. \A j \in DOMAIN client_got : client_got[j].id # request
    <3>1. \A j \in DOMAIN client_got : client_got[j].id < request
      BY <1>1 DEF GotInv, Unanswered
    <3>2. \A j \in DOMAIN client_got : client_got[j].id \in Int
      <4>1. \A u \in GotUnits : u.id \in Int
        BY DEF GotUnits, ServerUnits, ResponseUnits
      <4> QED
        BY <1>2, <4>1, ElementOfSeq
    <3>3. request \in Int
      BY DEF TypeInv, ExchangeTypes
    <3> QED
      BY <3>1, <3>2, <3>3
  <2>2. OfRequest(client_got, request) = << >>
    BY <1>2, <2>1, OfRequestNone
  <2>3. OfRequest(Append(client_got, response), request)
          = Append(OfRequest(client_got, request), response)
    BY <1>2, OfRequestAppend
  <2>4. Got(request)' = Append(<< >>, response)
    BY <1>1, <2>2, <2>3 DEF Got
  <2>5. Append(<< >>, response) = <<response>> \o << >>
    OBVIOUS
  <2> QED
    BY <1>1, <1>4, <2>4, <2>5 DEF Prepend
<1>8. ResponseFraming' = ResponseFraming
  BY <1>1, <1>5 DEF ResponseFraming
<1>9. ResponseFraming = "ContentLength" => Len(rest) = remaining'
  <2>1. AnswerBody(r) = rest
    BY <1>3, <1>4, CatNone DEF Answering
  <2>2. ResponseFraming = "ContentLength" => Len(AnswerBody(r)) = r.content_length
    BY <1>1, <1>2, <1>3, FramingMatches DEF ToHost
  <2> QED
    BY <1>1, <1>3, <2>1, <2>2
<1>10. Delivered(r, sofar, rest)'
  BY <1>1, <1>7, <1>8, <1>9 DEF Delivered
<1>11. \E s \in servers'.responses, past, left, lost \in Seq(ServerUnits') :
         Answering(s, past, left, lost)' /\ Delivered(s, past, left)'
  BY <1>1, <1>5, <1>6, <1>10
<1> QED
  BY <1>1, <1>2, <1>11 DEF AnswerInv, Quiet, Waiting, Asking

LEMMA BodyUnitIsDelivered ==
  ASSUME TypeInv, TypeInv', AnswerInv, Orderly, ForwardResponseBody
  PROVE  /\ AnswerInv'
         /\ \/ pc' = "stopped" /\ UNCHANGED client_got
            \/ /\ pc' \in {"response_body", "decide"}
               /\ \E u \in GotUnits : /\ u.kind \in {"piece", "last"} /\ u.id = request
                                      /\ client_got' = Append(client_got, u)
<1>1. /\ UNCHANGED <<script, servers, request, response>>
      /\ pc = "response_body" /\ BodyExpected(ResponseFraming)
  BY DEF ForwardResponseBody, environment
<1>2. /\ request # 0 /\ conn.asked = << >> /\ client_got \in Seq(GotUnits)
      /\ response \in GotUnits /\ response.id = request /\ Remote \in Seq(ServerUnits)
  BY <1>1, AnswerParts DEF Delivering
<1>3. PICK r \in servers.responses, sofar, rest, cut \in Seq(ServerUnits) :
        /\ Answering(r, sofar, rest, cut) /\ Delivered(r, sofar, rest)
        /\ response.message = r /\ ResponseFraming = ResponseBodyInfo(Current, r)
  BY <1>1, AnswerParts DEF Delivering
<1>4. CASE Stop /\ UNCHANGED client_got
  BY <1>4 DEF Stop, AnswerInv, Quiet, Waiting, Delivering, Asking
<1>5. CASE ~(Stop /\ UNCHANGED client_got)
  <2>1. PICK u \in ServerUnits :
          /\ ~(ResponseFraming = "Chunked" /\ u.kind = "resp")
          /\ remote_read_buffer_ \o conn.wire
               = <<u>> \o (remote_read_buffer_' \o conn'.wire)
          /\ conn'.wire \in Seq(ServerUnits)
          /\ conn' = [conn EXCEPT !.wire = conn'.wire]
          /\ remote_read_buffer_' \in Seq(ServerUnits)
          /\ client_got' = Append(client_got, u)
          /\ remaining' = IF ResponseFraming = "ContentLength"
                            THEN remaining - 1 ELSE 0
          /\ pc' = IF ResponseFraming = "Chunked" /\ u.kind = "last"
                     THEN "decide" ELSE pc
    BY <1>5, ResponseBodyRead DEF TypeInv
  <2>2. Remote = Prepend(u, Remote') /\ conn'.asked = conn.asked
    BY <2>1, RemoteTakes DEF TypeInv
  <2>3. PICK next \in Seq(ServerUnits) : next = Remote'
    BY <2>1, CatType DEF Remote
  <2>4. PICK left \in Seq(ServerUnits) : left = Cat(next, cut)
    BY CatType
  <2>5. rest = Prepend(u, left)
    BY <1>3, <2>2, <2>3, <2>4, PrependCat DEF Answering
  <2>6. PICK past \in Seq(ServerUnits) : past = Append(sofar, u)
    <3>1. Append(sofar, u) \in Seq(ServerUnits)
      OBVIOUS
    <3> QED
      BY <3>1
  <2>7. AnswerBody(r) = Cat(sofar, rest) /\ AnswerBody(r) = Cat(past, left)
    BY <1>3, <2>5, <2>6, PrependBetween DEF Answering
  <2>8. u \in BodyElements(request, Current.host)
    <3>1. Cat(sofar, rest) \in Seq(BodyElements(request, Current.host))
      BY <1>2, <2>7, AnswerTyped
    <3>2. rest \in Seq(BodyElements(request, Current.host))
      BY <3>1, CatParts
    <3> QED
      BY <2>5, <3>2, PrependParts
  <2>9. u \in GotUnits /\ u.id = request /\ u.kind \in {"piece", "last"}
    BY <2>8 DEF BodyElements, GotUnits
  <2>10. /\ ServerUnits' = ServerUnits /\ Current' = Current
         /\ AnswerHead(r)' = AnswerHead(r) /\ AnswerBody(r)' = AnswerBody(r)
    BY <1>1, AnswerSame
  <2>11. Answering(r, past, left, cut)'
    BY <1>1, <1>3, <2>3, <2>4, <2>7, <2>10 DEF Answering
  <2>12. Got(request)' = Prepend(response', past)
    <3>1. OfRequest(Append(client_got, u), request)
            = Append(OfRequest(client_got, request), u)
      BY <1>2, <2>9, OfRequestAppend
    <3>2. Got(request) = Prepend(response, sofar)
      BY <1>1, <1>3 DEF Delivered
    <3>3. PICK w \in GotUnits : w = response
      BY <1>2
    <3>4. PICK x \in Seq(GotUnits) : x = sofar
      <4>1. ServerUnits \subseteq GotUnits
        BY DEF GotUnits
      <4> QED
        BY <4>1, SeqMonotonic
    <3>5. Append(<<w>> \o x, u) = <<w>> \o Append(x, u)
      BY <2>9
    <3>6. Got(request)' = Append(Got(request), u)
      BY <1>1, <2>1, <3>1 DEF Got
    <3>7. Append(Prepend(response, sofar), u) = Prepend(response, past)
      BY <2>6, <3>3, <3>4, <3>5, Zenon DEF Prepend
    <3> QED
      BY <1>1, <3>2, <3>6, <3>7
  <2>13. ResponseFraming' = ResponseFraming
    BY <1>1, <2>10 DEF ResponseFraming
  <2>14. ResponseFraming = "ContentLength" => Len(left) = remaining'
    <3>1. ResponseFraming = "ContentLength" => Len(rest) = remaining
      BY <1>1, <1>3 DEF Delivered
    <3>2. Len(rest) = Len(left) + 1 /\ Len(left) \in Nat
      BY <2>1, <2>5, PrependLen
    <3> QED
      BY <2>1, <3>1, <3>2
  <2>15. pc' = "decide" => left = << >>
    <3>1. SUFFICES ASSUME pc' = "decide" PROVE left = << >>
      OBVIOUS
    <3>2. ResponseFraming = "Chunked" /\ u.kind = "last"
      BY <1>1, <2>1, <3>1
    <3>3. \A j \in 1 .. Len(AnswerBody(r)) :
            AnswerBody(r)[j].kind = "last" => j = Len(AnswerBody(r))
      BY <1>1, <1>2, <1>3, <3>2, FramingMatches DEF ToHost
    <3>4. /\ Cat(past, left)[Len(sofar) + 1] = u /\ Len(sofar) \in Nat
          /\ Len(Cat(past, left)) = Len(sofar) + 1 + Len(left)
          /\ Len(left) \in Nat /\ (Len(left) = 0 => left = << >>)
      BY <2>6, Amid
    <3>5. AnswerBody(r) = Cat(past, left)
      BY <2>7
    <3>6. Len(sofar) + 1 = Len(AnswerBody(r))
      BY <3>2, <3>3, <3>4, <3>5
    <3> QED
      BY <3>4, <3>5, <3>6
  <2>16. Delivered(r, past, left)'
    <3>1. pc' \in {"response_body", "decide"}
      BY <1>1, <2>1
    <3> QED
      BY <2>12, <2>13, <2>14, <2>15, <3>1 DEF Delivered
  <2>17. pc' = "decide" => Remote' = << >>
    BY <2>3, <2>4, <2>15, Concat DEF Cat
  <2>18. \E s \in servers'.responses, a, b, c \in Seq(ServerUnits') :
           Answering(s, a, b, c)' /\ Delivered(s, a, b)'
    BY <1>1, <2>10, <2>11, <2>16
  <2>19. AnswerInv'
    BY <1>1, <1>2, <2>1, <2>2, <2>17, <2>18 DEF AnswerInv, Quiet, Waiting, Asking
  <2> QED
    BY <1>1, <2>1, <2>9, <2>19
<1> QED
  BY <1>4, <1>5

(***************************************************************************)
(* The end of the response, and the decision about the connection.  When   *)
(* the connection is kept, all of the response was delivered.              *)
(***************************************************************************)
LEMMA BodyEnds ==
  ASSUME TypeInv, AnswerInv, Orderly, ResponseBodyDone
  PROVE  AnswerInv'
<1>1. /\ UNCHANGED <<script, servers, request, response, remaining, client_got>>
      /\ UNCHANGED <<conn, remote_read_buffer_>>
      /\ pc = "response_body" /\ pc' = "decide"
  BY DEF ResponseBodyDone, environment, exchange, buffers
<1>2. request # 0 /\ conn.asked = << >> /\ Remote \in Seq(ServerUnits)
  BY <1>1, AnswerParts DEF Delivering
<1>3. PICK r \in servers.responses, sofar, rest, cut \in Seq(ServerUnits) :
        /\ Answering(r, sofar, rest, cut) /\ Delivered(r, sofar, rest)
        /\ response.message = r /\ ResponseFraming = ResponseBodyInfo(Current, r)
  BY <1>1, AnswerParts DEF Delivering
<1>4. rest = << >> => Remote = << >>
  BY <1>2, <1>3, Concat DEF Answering, Cat
<1>5. Remote = << >> /\ (ParserKeepAlive(r) => rest = << >>)
  <2>1. CASE ResponseFraming = "None"
    <3>1. AnswerBody(r) = << >>
      BY <1>1, <1>2, <1>3, <2>1, FramingMatches DEF ToHost
    <3>2. Cat(sofar, rest) = << >>
      BY <1>3, <3>1 DEF Answering
    <3>3. rest = << >>
      BY <3>2, Concat DEF Cat
    <3> QED
      BY <1>4, <3>3
  <2>2. CASE ResponseFraming = "ContentLength" /\ remaining = 0
    <3>1. Len(rest) = 0
      BY <1>1, <1>3, <2>2 DEF Delivered
    <3>2. rest = << >>
      BY <3>1
    <3> QED
      BY <1>4, <3>2
  <2>3. CASE /\ ResponseFraming = "CloseDelimited"
             /\ remote_read_buffer_ = << >> /\ conn.wire = << >>
    <3>1. ~ParserKeepAlive(r)
      BY <1>1, <1>2, <1>3, <2>3, FramingMatches DEF ToHost
    <3>2. << >> \in Seq(ServerUnits)
      OBVIOUS
    <3>3. Remote = << >>
      BY <2>3, <3>2, CatNone DEF Remote
    <3> QED
      BY <3>1, <3>3
  <2> QED
    BY <2>1, <2>2, <2>3 DEF ResponseBodyDone
<1>6. /\ ServerUnits' = ServerUnits /\ Current' = Current
      /\ AnswerHead(r)' = AnswerHead(r) /\ AnswerBody(r)' = AnswerBody(r)
      /\ Remote' = Remote
  BY <1>1, AnswerSame DEF Remote
<1>7. Answering(r, sofar, rest, cut)'
  BY <1>1, <1>3, <1>6 DEF Answering
<1>8. Got(request)' = Got(request)
  BY <1>1 DEF Got
<1>9. Delivered(r, sofar, rest)'
  BY <1>1, <1>3, <1>5, <1>8 DEF Delivered
<1>10. \E s \in servers'.responses, past, left, lost \in Seq(ServerUnits') :
         Answering(s, past, left, lost)' /\ Delivered(s, past, left)'
  BY <1>1, <1>3, <1>6, <1>7, <1>9
<1> QED
  BY <1>1, <1>2, <1>5, <1>6, <1>10 DEF AnswerInv, Quiet, Waiting, Asking

LEMMA AnswerIsDone ==
  ASSUME TypeInv, AnswerInv, Orderly, ShouldKeepAlive
  PROVE  AnswerInv'
<1>1. /\ UNCHANGED <<script, servers, request, response, remaining, client_got>>
      /\ UNCHANGED remote_read_buffer_ /\ pc = "decide"
  BY DEF ShouldKeepAlive, environment, exchange, buffers
<1>2. CASE Stop
  BY <1>2 DEF Stop, AnswerInv, Quiet, Waiting, Delivering, Asking
<1>3. CASE ~Stop
  <2>1. pc' = "read_request" /\ UNCHANGED conn /\ ParserKeepAlive(response.message)
    BY <1>3 DEF ShouldKeepAlive
  <2>2. Remote = << >> /\ conn.asked = << >>
    BY <1>1 DEF AnswerInv, Quiet
  <2>3. PICK r \in servers.responses, sofar, rest, cut \in Seq(ServerUnits) :
          /\ Answering(r, sofar, rest, cut) /\ Delivered(r, sofar, rest)
          /\ response.message = r
    BY <1>1, AnswerParts DEF Delivering
  <2>4. rest = << >> /\ Got(request) = Prepend(response, sofar)
    BY <1>1, <2>1, <2>3 DEF Delivered
  <2>5. /\ ServerUnits' = ServerUnits
        /\ AnswerHead(r)' = AnswerHead(r) /\ AnswerBody(r)' = AnswerBody(r)
        /\ Remote' = Remote
    BY <1>1, <2>1, AnswerSame DEF Remote
  <2>6. Answering(r, sofar, rest, cut)'
    BY <1>1, <2>3, <2>5 DEF Answering
  <2>7. Got(request)' = Got(request)
    BY <1>1 DEF Got
  <2>8. Delivered(r, sofar, rest)'
    BY <1>1, <2>1, <2>3, <2>4, <2>7 DEF Delivered
  <2>9. \E s \in servers'.responses, past, left, lost \in Seq(ServerUnits') :
          Answering(s, past, left, lost)' /\ Delivered(s, past, left)'
    BY <1>1, <2>3, <2>5, <2>6, <2>8
  <2> QED
    BY <2>1, <2>2, <2>5, <2>9 DEF AnswerInv, Quiet, Waiting, Delivering, Asking
<1> QED
  BY <1>2, <1>3

LEMMA AnswerStep ==
  ASSUME TypeInv, TypeInv', RoutedInv, StreamInv, AnswerInv, GotInv, [Next]_vars
  PROVE  AnswerInv'
<1>1. UNCHANGED <<script, servers>> /\ Orderly' = Orderly /\ ServerUnits' = ServerUnits
  BY Frame DEF Orderly, ServerUnits, ResponseUnits
<1>2. CASE ~Orderly
  BY <1>1, <1>2 DEF AnswerInv
<1>3. CASE ~Active'
  BY <1>3 DEF Active, AnswerInv, Quiet, Waiting, Delivering, Asking
<1> SUFFICES ASSUME Orderly, Active' PROVE AnswerInv'
  BY <1>2, <1>3
<1>4. /\ Remote \in Seq(ServerUnits) /\ Remote' \in Seq(ServerUnits)
      /\ << >> \in Seq(ServerUnits)
  <2>1. remote_read_buffer_' \in Seq(ServerUnits) /\ conn'.wire \in Seq(ServerUnits)
    BY <1>1 DEF TypeInv, ServerTypes
  <2>2. Remote' \in Seq(ServerUnits)
    BY <2>1, CatType DEF Remote
  <2>3. << >> \in Seq(ServerUnits)
    OBVIOUS
  <2> QED
    BY <2>2, <2>3, RemoteTyped DEF TypeInv
<1>5. CASE UNCHANGED vars \/ ClientSends \/ ClientSendsBody \/ ClientCloses
  <2>1. /\ UNCHANGED <<request, response, remaining, client_got, pc>>
        /\ UNCHANGED <<conn, remote_read_buffer_>>
    BY <1>5 DEF vars, ClientSends, ClientSendsBody, ClientCloses, exchange, buffers
  <2>2. Remote = Cat(Remote', << >>)
    BY <1>4, <2>1, CatNone DEF Remote
  <2> QED
    BY <1>1, <1>4, <2>1, <2>2, AnswerStays
<1>6. CASE ServerAnswers
  BY <1>6, AnswerComes
<1>7. CASE ServerSendsInterim \/ ServerSendsNotice
  BY <1>7, UnaskedArrives DEF TypeInv
<1>8. CASE ServerCloses
  <2>1. UNCHANGED <<request, response, remaining, client_got, pc>>
    BY <1>8 DEF ServerCloses, exchange
  <2>2. conn'.asked = conn.asked
    BY <1>1, <1>8, AnswerIsCut DEF TypeInv
  <2>3. PICK lost \in Seq(ServerUnits) : Remote = Cat(Remote', lost)
    BY <1>1, <1>8, AnswerIsCut DEF TypeInv
  <2> QED
    BY <1>1, <1>4, <2>1, <2>2, <2>3, AnswerStays
<1>9. CASE \/ ReadClientRequestHeader \/ EnsureRemoteConnected \/ ResolveRemote \/ ConnectRemote
           \/ WriteConnectEstablishedResponseToClient \/ TunnelToRemote
  <2>1. pc \in Quiet /\ UNCHANGED remote_read_buffer_
    BY <1>9 DEF ReadClientRequestHeader, EnsureRemoteConnected, ResolveRemote, ConnectRemote,
      WriteConnectEstablishedResponseToClient, TunnelToRemote, Quiet, Asking, buffers
  <2>2. pc' \in Asking \cup {"tunnel"}
    BY <1>9 DEF ReadClientRequestHeader, EnsureRemoteConnected, ResolveRemote, ConnectRemote,
      WriteConnectEstablishedResponseToClient, TunnelToRemote, Asking, AfterConnect,
      Stop, Active
  <2>3. UNCHANGED conn \/ (conn'.wire = << >> /\ conn'.asked = << >>)
    <3>1. CASE TunnelToRemote
      BY <3>1, TunnelKeeps
    <3>2. CASE ReadClientRequestHeader \/ WriteConnectEstablishedResponseToClient
      BY <3>2 DEF ReadClientRequestHeader, WriteConnectEstablishedResponseToClient,
        Stop, Active
    <3>3. CASE EnsureRemoteConnected \/ ResolveRemote \/ ConnectRemote
      <4>1. NoConnection.wire = << >> /\ NoConnection.asked = << >>
        BY DEF NoConnection
      <4>2. UNCHANGED conn \/ (conn'.wire = NoConnection.wire
                               /\ conn'.asked = NoConnection.asked)
        BY <3>3 DEF EnsureRemoteConnected, ResolveRemote, ConnectRemote, CloseRemote, NoConnection
      <4> QED
        BY <4>1, <4>2
    <3> QED
      BY <1>9, <3>1, <3>2, <3>3
  <2> QED
    BY <2>1, <2>2, <2>3, QuietStays
<1>10. CASE WriteRemoteRequestHeader
  BY <1>10, RequestIsAsked
<1>11. CASE RequestBodyDone \/ ForwardRequestBody
  <2>1. UNCHANGED <<request, remote_read_buffer_>> /\ pc \in Waiting /\ pc' \in Waiting
    BY <1>11 DEF RequestBodyDone, ForwardRequestBody, exchange, buffers, Waiting, Stop,
      Active
  <2>2. UNCHANGED conn
    BY <1>11, RequestBodyKeeps DEF RequestBodyDone, Active
  <2> QED
    BY <1>1, <2>1, <2>2, WaitingStays
<1>12. CASE TunnelToClient
  <2>1. Remote # << >> /\ pc = "tunnel"
    BY <1>12, TunnelDrains DEF TypeInv, TunnelToClient
  <2> QED
    BY <2>1 DEF AnswerInv, Quiet
<1>13. CASE ReadRemoteResponseHeader
  BY <1>13, AnswerIsRead
<1>14. CASE WriteRemoteResponseHeaderToClient
  BY <1>14, HeaderIsDelivered
<1>15. CASE ForwardResponseBody
  BY <1>15, BodyUnitIsDelivered
<1>16. CASE ResponseBodyDone
  BY <1>16, BodyEnds
<1>17. CASE ShouldKeepAlive
  BY <1>17, AnswerIsDone
<1>18. CASE \/ ClientGone \/ ConnectFails \/ RulesThrow \/ RemoteWriteFails \/ RequestBodyEof
            \/ RemoteGone \/ ClientWriteFails \/ ResponseBodyEof \/ TunnelEnds
  BY <1>18 DEF ClientGone, ConnectFails, RemoteWriteFails, RulesThrow, RequestBodyEof, RemoteGone,
    ClientWriteFails, ResponseBodyEof, TunnelEnds, EofInBody, Stop, Active
<1> QED
  BY <1>5, <1>6, <1>7, <1>8, <1>9, <1>10, <1>11, <1>12, <1>13, <1>14, <1>15, <1>16,
     <1>17, <1>18 DEF Next, Environment, Session

(***************************************************************************)
(* What the client is sent, in the steps that send it something.           *)
(***************************************************************************)
LEMMA GotGrows ==
  ASSUME TypeInv, TypeInv', AnswerInv, Orderly, [Next]_vars
  PROVE  \/ UNCHANGED client_got
         \/ /\ UNCHANGED <<request, response>>
            /\ \E u \in GotUnits :
                 /\ client_got' = Append(client_got, u) /\ u.id = request
                 /\ \/ pc = "write_response" /\ pc' = "response_body" /\ u = response
                    \/ /\ pc = "response_body" /\ pc' \in {"response_body", "decide"}
                       /\ u.kind \in {"piece", "last"}
                    \/ /\ pc = "write_established" /\ pc' = "tunnel"
                       /\ u.kind = "established"
<1>1. CASE WriteRemoteResponseHeaderToClient
  <2>1. /\ client_got' = Append(client_got, response) /\ UNCHANGED <<request, response>>
        /\ pc = "write_response" /\ pc' = "response_body"
    BY <1>1 DEF WriteRemoteResponseHeaderToClient
  <2>2. response \in GotUnits /\ response.id = request
    BY <2>1, AnswerParts DEF Delivering
  <2> QED
    BY <2>1, <2>2
<1>2. CASE ForwardResponseBody
  <2>1. UNCHANGED <<request, response>> /\ pc = "response_body"
    BY <1>2 DEF ForwardResponseBody
  <2> QED
    BY <1>2, <2>1, BodyUnitIsDelivered
<1>3. CASE WriteConnectEstablishedResponseToClient
  <2> DEFINE v == Unit("established", request, Current.host, NoResponse)
  <2>1. /\ client_got' = Append(client_got, v) /\ UNCHANGED <<request, response>>
        /\ pc = "write_established" /\ pc' = "tunnel"
    BY <1>3 DEF WriteConnectEstablishedResponseToClient, exchange
  <2>2. request \in 1 .. Len(script) /\ request \in 0 .. Len(script)
    BY <2>1 DEF TypeInv, ExchangeTypes, CaseTypes
  <2>3. Current.host \in Hosts
    BY <2>2, CurrentTyped DEF TypeInv, Current
  <2>4. v \in GotUnits /\ v.id = request /\ v.kind = "established"
    BY <2>2, <2>3 DEF GotUnits, Unit
  <2> HIDE DEF v
  <2> QED
    BY <2>1, <2>4
<1>4. CASE TunnelToClient
  <2>1. Remote # << >> /\ pc = "tunnel"
    BY <1>4, TunnelDrains DEF TypeInv, TunnelToClient
  <2> QED
    BY <2>1 DEF AnswerInv, Quiet
<1> QED
  BY <1>1, <1>2, <1>3, <1>4, Frame

LEMMA GotStep ==
  ASSUME TypeInv, TypeInv', RoutedInv, StreamInv, NotAhead, AnswerInv, GotInv,
         [Next]_vars
  PROVE  GotInv'
<1>1. UNCHANGED <<script, servers>> /\ Orderly' = Orderly
  BY Frame DEF Orderly
<1> SUFFICES ASSUME Orderly PROVE GotInv'
  BY <1>1 DEF GotInv
<1>2. request \in Nat /\ (request' = request \/ (ReadClientRequestHeader /\ request' = request + 1))
  BY RequestGrows
<1>3. client_got \in Seq(GotUnits)
  BY DEF TypeInv, HistoryTypes
<1>4. \A j \in DOMAIN client_got : client_got[j].id \in Int /\ client_got[j].id <= request
  <2>1. \A u \in GotUnits : u.id \in Int
    BY DEF GotUnits, ServerUnits, ResponseUnits
  <2>2. client_got \in Seq(KnownGot(request))
    BY DEF NotAhead
  <2>3. \A j \in DOMAIN client_got : client_got[j] \in KnownGot(request)
    BY <2>2, ElementOfSeq
  <2> QED
    BY <2>1, <2>3 DEF KnownGot
<1>5. CASE UNCHANGED client_got
  <2>1. CASE ReadClientRequestHeader
    <3>1. pc' \in {"ensure", "stopped"}
      BY <2>1 DEF ReadClientRequestHeader, Stop
    <3>2. pc' # "stopped" => request' = request + 1
      BY <2>1, HeaderKeeps, ZenonT(40)
    <3> QED
      BY <1>2, <1>4, <1>5, <3>1, <3>2 DEF GotInv, Unanswered, Asking, Waiting
  <2>2. CASE ~ReadClientRequestHeader
    <3>1. pc' \in Unanswered => pc \in Unanswered
      BY <2>2, ZenonT(40) DEF Unanswered, Asking, Waiting, Next, Environment, Session, vars, Stop,
        EofInBody, AfterConnect, ClientSends, ClientSendsBody, ClientCloses,
        ServerAnswers, ServerSendsInterim, ServerSendsNotice, ServerCloses, ClientGone,
        EnsureRemoteConnected, ResolveRemote, ConnectRemote, ConnectFails, WriteRemoteRequestHeader,
        RemoteWriteFails, RulesThrow, RequestBodyDone, ForwardRequestBody, RequestBodyEof,
        ReadRemoteResponseHeader, RemoteGone, WriteRemoteResponseHeaderToClient,
        ClientWriteFails, ResponseBodyDone, ForwardResponseBody, ResponseBodyEof,
        ShouldKeepAlive, WriteConnectEstablishedResponseToClient, TunnelToClient,
        TunnelToRemote, TunnelEnds
    <3>2. CASE WriteRemoteResponseHeaderToClient
      <4>1. client_got' = Append(client_got, response)
        BY <3>2 DEF WriteRemoteResponseHeaderToClient
      <4>2. PICK n \in Nat : n = Len(client_got) /\ Len(Append(client_got, response)) = n + 1
        BY <1>3
      <4> QED
        BY <1>5, <4>1, <4>2
    <3>3. CASE ~WriteRemoteResponseHeaderToClient
      <4>1. pc' \in {"response_body", "decide", "read_request"} =>
              pc \in {"response_body", "decide", "read_request"} /\ UNCHANGED response
        BY <2>2, <3>3, ZenonT(40) DEF Next, Environment, Session, vars, exchange, Stop,
          EofInBody, AfterConnect, ClientSends, ClientSendsBody, ClientCloses,
          ServerAnswers, ServerSendsInterim, ServerSendsNotice, ServerCloses, ClientGone,
          EnsureRemoteConnected, ResolveRemote, ConnectRemote, ConnectFails, WriteRemoteRequestHeader,
          RemoteWriteFails, RulesThrow, RequestBodyDone, ForwardRequestBody, RequestBodyEof,
          ReadRemoteResponseHeader, RemoteGone,
          ClientWriteFails, ResponseBodyDone, ForwardResponseBody, ResponseBodyEof,
          ShouldKeepAlive, WriteConnectEstablishedResponseToClient, TunnelToClient,
          TunnelToRemote, TunnelEnds
      <4>2. UNCHANGED request
        BY <1>2, <2>2
      <4> QED
        BY <1>5, <3>1, <4>1, <4>2 DEF GotInv
    <3> QED
      BY <3>2, <3>3
  <2> QED
    BY <2>1, <2>2
<1>6. CASE client_got' # client_got
  <2>1. UNCHANGED <<request, response>>
    BY <1>6, GotGrows
  <2>2. PICK u \in GotUnits :
          /\ client_got' = Append(client_got, u) /\ u.id = request
          /\ \/ pc = "write_response" /\ pc' = "response_body" /\ u = response
             \/ /\ pc = "response_body" /\ pc' \in {"response_body", "decide"}
                /\ u.kind # "resp"
             \/ /\ pc = "write_established" /\ pc' = "tunnel"
                /\ u.kind = "established"
    BY <1>6, GotGrows
  <2>3. \A j \in DOMAIN client_got' :
          \/ j \in DOMAIN client_got /\ client_got'[j] = client_got[j]
          \/ client_got'[j] = u
    BY <1>3, <2>2
  <2>4. pc' \notin Unanswered
    BY <2>2 DEF Unanswered, Asking, Waiting
  <2>5. CASE pc = "write_response" /\ u = response
    <3>1. \A j \in DOMAIN client_got : client_got[j].id # request
      BY <1>2, <1>4, <2>5 DEF GotInv, Unanswered
    <3> QED
      BY <2>1, <2>3, <2>4, <2>5, <3>1 DEF GotInv
  <2>6. CASE pc = "response_body" /\ u.kind # "resp"
    BY <2>1, <2>3, <2>4, <2>6 DEF GotInv
  <2>7. CASE pc' = "tunnel"
    BY <2>4, <2>7 DEF GotInv
  <2> QED
    BY <2>2, <2>5, <2>6, <2>7
<1> QED
  BY <1>5, <1>6

-----------------------------------------------------------------------------
(***************************************************************************)
(* Whichever message says that the connection ends is of the current       *)
(* exchange or of one that never comes, and after it no request is read.   *)
(***************************************************************************)
EndsInv ==
  \A k \in DOMAIN script : Ends(k) => k >= request /\ (pc = "read_request" => k > request)

LEMMA EndsStep ==
  ASSUME TypeInv, TypeInv', RoutedInv, StreamInv, AnswerInv, GotInv, EndsInv, [Next]_vars
  PROVE  EndsInv'
<1>1. UNCHANGED <<script, servers>> /\ Orderly' = Orderly
  BY Frame DEF Orderly
<1>2. request \in Nat /\ (request' = request \/ (ReadClientRequestHeader /\ request' = request + 1))
  BY RequestGrows
<1> SUFFICES ASSUME NEW k \in DOMAIN script, Ends(k)'
             PROVE  k >= request' /\ (pc' = "read_request" => k > request')
  BY <1>1 DEF EndsInv
<1>3. k \in Nat
  BY DEF TypeInv, CaseTypes
<1>4. client_got \in Seq(GotUnits)
  BY DEF TypeInv, HistoryTypes
<1>5. CASE Ends(k)
  <2>1. k >= request /\ (pc = "read_request" => k > request)
    BY <1>5 DEF EndsInv
  <2>2. CASE ReadClientRequestHeader
    BY <1>2, <1>3, <2>1, <2>2 DEF ReadClientRequestHeader, Stop
  <2>3. CASE ShouldKeepAlive
    <3>1. /\ UNCHANGED request /\ pc = "decide"
          /\ \/ pc' = "stopped"
             \/ /\ Current.keep_alive /\ ParserKeepAlive(response.message)
                /\ pc' = "read_request"
      BY <2>3 DEF ShouldKeepAlive, exchange, Stop
    <3>2. ASSUME pc' = "read_request" PROVE k # request
      <4>1. script[request].keep_alive /\ ParserKeepAlive(response.message)
        BY <3>1, <3>2 DEF Current
      <4>2. Orderly => \A j \in DOMAIN client_got :
              client_got[j].id = request /\ client_got[j].kind = "resp" =>
                client_got[j] = response
        BY <3>1 DEF GotInv
      <4> QED
        BY <1>5, <4>1, <4>2 DEF Ends
    <3> QED
      BY <1>2, <1>3, <2>1, <3>1, <3>2
  <2>4. CASE ~ReadClientRequestHeader /\ ~ShouldKeepAlive
    <3>1. pc' = "read_request" => pc = "read_request"
      BY <2>4, ZenonT(40) DEF Next, Environment, Session, vars, Stop,
        EofInBody, AfterConnect, ClientSends, ClientSendsBody, ClientCloses,
        ServerAnswers, ServerSendsInterim, ServerSendsNotice, ServerCloses, ClientGone,
        EnsureRemoteConnected, ResolveRemote, ConnectRemote, ConnectFails, WriteRemoteRequestHeader,
        RemoteWriteFails, RulesThrow, RequestBodyDone, ForwardRequestBody, RequestBodyEof,
        ReadRemoteResponseHeader, RemoteGone, WriteRemoteResponseHeaderToClient,
        ClientWriteFails, ResponseBodyDone, ForwardResponseBody, ResponseBodyEof,
        WriteConnectEstablishedResponseToClient, TunnelToClient,
        TunnelToRemote, TunnelEnds
    <3> QED
      BY <1>2, <2>1, <2>4, <3>1, ZenonT(40)
  <2> QED
    BY <2>2, <2>3, <2>4
<1>6. CASE ~Ends(k)
  <2>1. PICK j \in DOMAIN client_got' :
          /\ client_got'[j].id = k /\ client_got'[j].kind = "resp"
          /\ ~ParserKeepAlive(client_got'[j].message)
    BY <1>1, <1>6 DEF Ends
  <2>2. Orderly
    BY <1>1, <1>6 DEF Ends
  <2>3. client_got' # client_got
    BY <1>6, <2>1, <2>2 DEF Ends
  <2>4. UNCHANGED request
    BY <2>2, <2>3, GotGrows
  <2>5. PICK u \in GotUnits :
          /\ client_got' = Append(client_got, u) /\ u.id = request
          /\ pc' \in {"response_body", "decide", "tunnel"}
    BY <2>2, <2>3, GotGrows
  <2>6. \/ j \in DOMAIN client_got /\ client_got'[j] = client_got[j]
        \/ client_got'[j] = u
    BY <1>4, <2>5
  <2>7. client_got'[j] = u
    BY <1>6, <2>1, <2>2, <2>6 DEF Ends
  <2>8. k = request
    BY <2>1, <2>5, <2>7
  <2> QED
    BY <1>2, <2>4, <2>5, <2>8
<1> QED
  BY <1>5, <1>6

(***************************************************************************)
(* The responses the client has, and the whole ones of the requests before *)
(* the current one.                                                        *)
(***************************************************************************)
WholeOf(k, u) == Prepend(u, ServerBody(k, script[k].host, u.message))

WholeInv ==
  Orderly => \A k \in DOMAIN script :
    Got(k) # << >> /\ Head(Got(k)).kind = "resp" =>
      /\ IsPrefix(Got(k), WholeOf(k, Head(Got(k))))
      /\ k < request => Got(k) = WholeOf(k, Head(Got(k)))

\* What AnswerInv says of the response of the current request.
CurrentDelivered ==
  /\ IsPrefix(Got(request), WholeOf(request, Head(Got(request))))
  /\ pc = "read_request" => Got(request) = WholeOf(request, Head(Got(request)))

Delivery ==
  /\ TypeInv /\ AnswerInv /\ Orderly
  /\ pc \in {"response_body", "decide"} \/ (pc = "read_request" /\ request # 0)

LEMMA CurrentIsPart == Delivery => CurrentDelivered
<1> SUFFICES ASSUME TypeInv, AnswerInv, Orderly,
                    pc \in {"response_body", "decide"} \/ (pc = "read_request" /\ request # 0)
             PROVE  CurrentDelivered
  BY DEF Delivery
<1>1. request # 0
  BY DEF TypeInv, ExchangeTypes
<1>2. PICK r \in servers.responses, sofar, rest, cut \in Seq(ServerUnits) :
        Answering(r, sofar, rest, cut) /\ Delivered(r, sofar, rest)
  BY DEF AnswerInv, Delivering
<1>3. /\ response = AnswerHead(r) /\ AnswerBody(r) = Cat(sofar, rest)
      /\ Got(request) = Prepend(response, sofar)
      /\ pc = "read_request" => rest = << >>
  BY <1>2 DEF Answering, Delivered
<1>4. /\ response \in ServerUnits /\ response.message = r
  BY <1>1, <1>3, AnswerTyped
<1>5. PICK u \in ServerUnits : u = response
  BY <1>4
<1>6. PICK got \in Seq(ServerUnits) : got = Prepend(u, sofar) /\ got # << >>
  BY PrependType, PrependSome
<1>7. Head(got) = u
  <2>1. Head(<<u>> \o sofar) = u
    OBVIOUS
  <2> QED
    BY <1>6, <2>1 DEF Prepend
<1>8. Got(request) = got
  BY <1>3, <1>5, <1>6
<1>9. WholeOf(request, u) = Prepend(u, Cat(sofar, rest))
  BY <1>3, <1>4, <1>5 DEF WholeOf, AnswerBody, Current
<1>10. WholeOf(request, u) = Cat(got, rest)
  BY <1>6, <1>9, PrependCat
<1>11. IsPrefix(got, got \o rest)
  BY PrefixIntro
<1>12. IsPrefix(got, WholeOf(request, u))
  BY <1>10, <1>11 DEF Cat
<1>13. rest = << >> => WholeOf(request, u) = got
  BY <1>10, CatNone
<1> QED
  BY <1>3, <1>5, <1>6, <1>7, <1>8, <1>12, <1>13 DEF CurrentDelivered

\* The same of the state after a step.
LEMMA NextIsPart == Delivery' => CurrentDelivered'
  BY CurrentIsPart, PTL

LEMMA WholeStep ==
  ASSUME TypeInv, TypeInv', RoutedInv, StreamInv, AnswerInv, AnswerInv', GotInv,
         WholeInv, [Next]_vars
  PROVE  WholeInv'
<1>1. UNCHANGED <<script, servers>> /\ Orderly' = Orderly
  BY Frame DEF Orderly
<1> SUFFICES ASSUME Orderly, NEW k \in DOMAIN script,
                    Got(k)' # << >>, Head(Got(k)').kind = "resp"
             PROVE  /\ IsPrefix(Got(k)', WholeOf(k, Head(Got(k)))')
                    /\ k < request' => Got(k)' = WholeOf(k, Head(Got(k)))'
  BY <1>1 DEF WholeInv
<1>2. request \in Nat /\ (request' = request \/ (ReadClientRequestHeader /\ request' = request + 1))
  BY RequestGrows
<1>3. k \in Nat \ {0} /\ client_got \in Seq(GotUnits)
  BY DEF TypeInv, CaseTypes, HistoryTypes
<1>4. \A u : WholeOf(k, u)' = WholeOf(k, u)
  BY <1>1 DEF WholeOf, ServerBody
<1>5. WholeOf(k, Head(Got(k)))' = WholeOf(k, Head(Got(k)'))
  BY <1>1 DEF WholeOf, ServerBody
<1>6. CASE Got(k)' = Got(k)
  <2>1. /\ IsPrefix(Got(k), WholeOf(k, Head(Got(k))))
        /\ k < request => Got(k) = WholeOf(k, Head(Got(k)))
    BY <1>6 DEF WholeInv
  <2>2. CASE k < request' => k < request
    BY <1>5, <1>6, <2>1, <2>2
  <2>3. CASE k < request' /\ ~(k < request)
    <3>1. k = request /\ pc = "read_request" /\ request # 0
      BY <1>2, <1>3, <2>3 DEF ReadClientRequestHeader
    <3>2. Got(k) = WholeOf(k, Head(Got(k)))
      BY <3>1, CurrentIsPart DEF Delivery, CurrentDelivered
    <3> QED
      BY <1>5, <1>6, <2>1, <3>2
  <2> QED
    BY <2>2, <2>3
<1>7. CASE Got(k)' # Got(k)
  <2>1. client_got' # client_got
    BY <1>7 DEF Got
  <2>2. UNCHANGED request
    BY <2>1, GotGrows
  <2>3. PICK u \in GotUnits :
          /\ client_got' = Append(client_got, u) /\ u.id = request
          /\ \/ pc' \in {"response_body", "decide"}
             \/ pc = "write_established" /\ u.kind = "established"
    BY <2>1, GotGrows
  <2>4. Got(k)' = IF u.id = k THEN Append(Got(k), u) ELSE Got(k)
    BY <1>3, <2>3, OfRequestAppend DEF Got
  <2>5. k = request
    BY <1>7, <2>3, <2>4
  <2>6. CASE pc' \in {"response_body", "decide"}
    <3>1. CurrentDelivered'
      BY <1>1, <2>6, NextIsPart DEF Delivery
    <3>2. Got(request)' = Got(k)'
      BY <2>2, <2>5 DEF Got
    <3>3. WholeOf(request, Head(Got(request)))' = WholeOf(k, Head(Got(k)'))
      BY <1>1, <2>2, <2>5, <3>2 DEF WholeOf, ServerBody
    <3>4. IsPrefix(Got(k)', WholeOf(k, Head(Got(k)')))
      BY <3>1, <3>2, <3>3 DEF CurrentDelivered
    <3> QED
      BY <1>2, <1>5, <2>2, <2>5, <3>4
  <2>7. CASE pc = "write_established" /\ u.kind = "established"
    <3>1. \A j \in DOMAIN client_got : client_got[j].id # request
      <4>1. \A j \in DOMAIN client_got : client_got[j].id < request
        BY <2>7 DEF GotInv, Unanswered, Asking
      <4>2. \A v \in GotUnits : v.id \in Int
        BY DEF GotUnits, ServerUnits, ResponseUnits
      <4>3. \A j \in DOMAIN client_got : client_got[j].id \in Int
        BY <1>3, <4>2, ElementOfSeq
      <4> QED
        BY <1>2, <4>1, <4>3
    <3>2. Got(k) = << >>
      BY <1>3, <2>5, <3>1, OfRequestNone DEF Got
    <3>3. Got(k)' = Append(<< >>, u)
      BY <2>3, <2>4, <2>5, <3>2
    <3>4. Head(Append(<< >>, u)) = u
      OBVIOUS
    <3> QED
      BY <2>7, <3>3, <3>4
  <2> QED
    BY <2>3, <2>6, <2>7
<1> QED
  BY <1>6, <1>7

-----------------------------------------------------------------------------
OrderlyInv == NotAhead /\ AnswerInv /\ GotInv /\ EndsInv /\ WholeInv

LEMMA OrderlyInit == Init => OrderlyInv
<1> SUFFICES ASSUME Init PROVE OrderlyInv
  OBVIOUS
<1>1. /\ pc = "read_request" /\ request = 0 /\ client_got = << >>
      /\ remote_read_buffer_ = << >> /\ conn = NoConnection
  BY DEF Init
<1>2. conn.wire = << >> /\ conn.asked = << >>
  BY <1>1 DEF NoConnection
<1>3. Remote = << >>
  <2>1. << >> \in Seq(ServerUnits)
    OBVIOUS
  <2> QED
    BY <1>1, <1>2, <2>1, CatNone DEF Remote
<1>4. NotAhead
  <2>1. << >> \in Seq(Known(request)) /\ << >> \in Seq(1 .. request)
        /\ << >> \in Seq(KnownGot(request))
    OBVIOUS
  <2> QED
    BY <1>1, <1>2, <1>3, <2>1 DEF NotAhead
<1>5. AnswerInv
  BY <1>1, <1>2, <1>3 DEF AnswerInv, Quiet, Waiting, Delivering
<1>6. \A j : j \notin DOMAIN client_got
  BY <1>1
<1>7. GotInv
  BY <1>6 DEF GotInv
<1>8. EndsInv
  <2>1. \A k \in DOMAIN script : k \in Nat /\ k > 0
    BY TypesInit DEF TypeInv, CaseTypes
  <2> QED
    BY <1>1, <2>1 DEF EndsInv
<1>9. WholeInv
  <2>1. \A k : Got(k) = << >>
    BY <1>1, SubsequenceEmpty DEF Got, OfRequest
  <2> QED
    BY <2>1 DEF WholeInv
<1> QED
  BY <1>4, <1>5, <1>7, <1>8, <1>9 DEF OrderlyInv

LEMMA OrderlyHolds == Spec => [](TypeInv /\ RoutedInv /\ StreamInv /\ OrderlyInv)
<1> DEFINE Inv == TypeInv /\ RoutedInv /\ StreamInv /\ OrderlyInv
<1>1. Init => Inv
  BY TypesInit, RoutedInit, OrderlyInit
<1>2. Inv /\ [Next]_vars => Inv'
  <2> SUFFICES ASSUME TypeInv, RoutedInv, StreamInv, OrderlyInv, [Next]_vars PROVE Inv'
    OBVIOUS
  <2>1. TypeInv' /\ RoutedInv' /\ StreamInv'
    BY TypesStep, RoutedStep
  <2>2. NotAhead'
    BY <2>1, NotAheadStep DEF OrderlyInv
  <2>3. AnswerInv'
    BY <2>1, AnswerStep DEF OrderlyInv
  <2>4. GotInv'
    BY <2>1, GotStep DEF OrderlyInv
  <2>5. EndsInv'
    BY <2>1, EndsStep DEF OrderlyInv
  <2>6. WholeInv'
    BY <2>1, <2>3, WholeStep DEF OrderlyInv
  <2> QED
    BY <2>1, <2>2, <2>3, <2>4, <2>5, <2>6 DEF OrderlyInv
<1> QED
  BY <1>1, <1>2, PTL DEF Spec

(***************************************************************************)
(* Once a request, or the response of an orderly server, has said that its *)
(* connection ends, ShouldKeepAlive stops the session: no later request    *)
(* reaches a server and no later response the client, however many         *)
(* requests the client has sent ahead.                                     *)
(***************************************************************************)
THEOREM KeepAliveIsHonoured == Spec => []KeepAliveHonoured
<1>1. TypeInv /\ RoutedInv /\ OrderlyInv => KeepAliveHonoured
  <2> SUFFICES ASSUME TypeInv, RoutedInv, OrderlyInv, NEW k \in DOMAIN script, Ends(k)
               PROVE  /\ \A j \in DOMAIN served : served[j].unit.id <= k
                      /\ \A j \in DOMAIN client_got : client_got[j].id <= k
    BY DEF KeepAliveHonoured
  <2>1. k >= request /\ k \in Nat /\ request \in Nat
    BY DEF OrderlyInv, EndsInv, TypeInv, CaseTypes, ExchangeTypes
  <2>2. \A j \in DOMAIN served : served[j].unit.id <= request /\ served[j].unit.id \in Int
    <3>1. \A v \in [unit : ClientUnits, at : Hosts] : v.unit.id \in Int
      BY DEF ClientUnits
    <3>2. served \in Seq([unit : ClientUnits, at : Hosts])
      BY DEF TypeInv, HistoryTypes
    <3>3. PICK S : S = [unit : ClientUnits, at : Hosts]
      OBVIOUS
    <3>4. /\ served \in Seq(S) /\ \A v \in S : v.unit.id \in Int
      BY <3>1, <3>2, <3>3
    <3> QED
      BY <3>4, ElementOfSeq DEF RoutedInv
  <2>3. \A j \in DOMAIN client_got : client_got[j].id <= request /\ client_got[j].id \in Int
    <3>1. \A u \in GotUnits : u.id \in Int
      BY DEF GotUnits, ServerUnits, ResponseUnits
    <3>2. client_got \in Seq(KnownGot(request))
      BY DEF OrderlyInv, NotAhead
    <3> QED
      BY <3>1, <3>2, ElementOfSeq DEF KnownGot
  <2> QED
    BY <2>1, <2>2, <2>3
<1> QED
  BY <1>1, OrderlyHolds, PTL

(***************************************************************************)
(* Nothing of a response is lost, added or mixed with another one: the     *)
(* client has a prefix of each response an orderly server gave, and all of *)
(* it once a later one has begun, although the session reads ahead, stops  *)
(* at any point, and takes the framing from a header that may belong to    *)
(* HEAD, 204 or 304.                                                       *)
(***************************************************************************)
THEOREM ResponsesAreWhole == Spec => []ResponsesWhole
<1>1. TypeInv /\ OrderlyInv => ResponsesWhole
  <2> SUFFICES ASSUME TypeInv, OrderlyInv, Orderly, NEW k \in DOMAIN script,
                      Got(k) # << >>, Head(Got(k)).kind = "resp"
               PROVE  /\ IsPrefix(Got(k), WholeOf(k, Head(Got(k))))
                      /\ (\E j \in DOMAIN client_got : client_got[j].id > k) =>
                           Got(k) = WholeOf(k, Head(Got(k)))
    BY Zenon DEF ResponsesWhole, Got, WholeOf, Prepend
  <2>1. /\ IsPrefix(Got(k), WholeOf(k, Head(Got(k))))
        /\ k < request => Got(k) = WholeOf(k, Head(Got(k)))
    BY DEF OrderlyInv, WholeInv
  <2>2. k \in Nat /\ request \in Nat
    BY DEF TypeInv, CaseTypes, ExchangeTypes
  <2>3. \A j \in DOMAIN client_got : client_got[j].id <= request /\ client_got[j].id \in Int
    <3>1. \A u \in GotUnits : u.id \in Int
      BY DEF GotUnits, ServerUnits, ResponseUnits
    <3>2. client_got \in Seq(KnownGot(request))
      BY DEF OrderlyInv, NotAhead
    <3> QED
      BY <3>1, <3>2, ElementOfSeq DEF KnownGot
  <2> QED
    BY <2>1, <2>2, <2>3
<1> QED
  BY <1>1, OrderlyHolds, PTL

(***************************************************************************)
(* What ReadRemoteResponseHeader finds in remote_read_buffer_ came from    *)
(* the server that was sent the request, although EnsureRemoteConnected    *)
(* gives a connection up without clearing the buffer: as far as the        *)
(* servers are orderly there is never anything left to clear.              *)
(***************************************************************************)
THEOREM BufferIsCurrent == Spec => []OrderlyBufferIsCurrent
<1>1. TypeInv /\ OrderlyInv => OrderlyBufferIsCurrent
  <2> SUFFICES ASSUME TypeInv, OrderlyInv, Orderly, pc = "read_response"
               PROVE  \A j \in DOMAIN remote_read_buffer_ :
                        remote_read_buffer_[j].host = Current.host
    BY DEF OrderlyBufferIsCurrent, RemoteBufferIsCurrent
  <2>1. Awaiting /\ request # 0
    BY DEF OrderlyInv, AnswerInv, Waiting, TypeInv, ExchangeTypes
  <2>2. /\ remote_read_buffer_ \in Seq(ServerUnits) /\ conn.wire \in Seq(ServerUnits)
        /\ Remote \in Seq(ServerUnits)
    BY RemoteTyped DEF TypeInv
  <2>3. CASE Remote = << >>
    BY <2>3, NothingLeft
  <2>4. CASE Remote # << >>
    <3> DEFINE T == {u \in ServerUnits : u.host = Current.host}
    <3>1. PICK r \in servers.responses, cut \in Seq(ServerUnits) :
            Cat(Remote, cut) = Prepend(AnswerHead(r), AnswerBody(r))
      BY <2>1, <2>4 DEF Awaiting
    <3>2. /\ AnswerHead(r) \in T /\ Current.host \in Hosts
          /\ AnswerBody(r) \in Seq(BodyElements(request, Current.host))
          /\ request \in 1 .. Len(script)
      BY <2>1, AnswerTyped
    <3>3. BodyElements(request, Current.host) \subseteq T
      BY <3>2 DEF BodyElements, ServerUnits
    <3> HIDE DEF T
    <3>4. AnswerBody(r) \in Seq(T)
      BY <3>2, <3>3, SeqMonotonic
    <3>5. Cat(Remote, cut) \in Seq(T)
      BY <3>1, <3>2, <3>4, PrependType
    <3>6. Remote \in Seq(T)
      BY <2>2, <3>5, CatParts
    <3>7. remote_read_buffer_ \in Seq(T)
      BY <2>2, <3>6, CatParts DEF Remote
    <3> QED
      BY <3>7, ElementOfSeq DEF T
  <2> QED
    BY <2>3, <2>4
<1> QED
  BY <1>1, OrderlyHolds, PTL

-----------------------------------------------------------------------------
(***************************************************************************)
(* The exchange as OrderedExchanges sees it.  Once a server has got the    *)
(* request, the request is asked; when it never will, nothing comes back.  *)
(* As many final responses are delivered as there are exchanges answered,  *)
(* each by the host of its request, and a request is only read when the    *)
(* response before it is delivered and both sides keep the connection.     *)
(***************************************************************************)
HeadsOf(s) == Subsequence(s, {j \in DOMAIN s : Final(s[j])})

Settled ==
  /\ latest.kind = "resp" /\ Whole /\ ~DelimitedByClose(latest.message)
  /\ script[latest.id].keep_alive /\ latest.message.keep_alive

AskedInv ==
  Orderly =>
    /\ pc \in Waiting => asked = request \/ (~conn.up /\ Remote = << >>)
    /\ pc = "write_response" => asked = request

HeadsInv ==
  Orderly /\ Active =>
    /\ Len(heads) = IF pc \in Unanswered THEN request - 1 ELSE request
    /\ heads # << >> => latest.id = Len(heads) /\ latest.host = script[latest.id].host
    /\ pc \in {"response_body", "decide", "read_request"} /\ request # 0 =>
         latest = response
    /\ pc \in Unanswered /\ heads # << >> => Settled

SessionInv == TypeInv /\ RoutedInv /\ StreamInv /\ OrderlyInv

LEMMA HeadsAppend ==
  ASSUME NEW S, NEW s \in Seq(S), NEW u \in S
  PROVE  HeadsOf(Append(s, u)) =
           IF Final(u) THEN Append(HeadsOf(s), u) ELSE HeadsOf(s)
<1> DEFINE J == {j \in DOMAIN s : Final(s[j])}
           K == {j \in DOMAIN Append(s, u) : Final(Append(s, u)[j])}
<1>1. /\ Len(s) \in Nat /\ DOMAIN s = 1 .. Len(s) /\ DOMAIN Append(s, u) = 1 .. Len(s) + 1
      /\ \A j \in 1 .. Len(s) : Append(s, u)[j] = s[j]
      /\ Append(s, u)[Len(s) + 1] = u
  OBVIOUS
<1>2. \A j \in 1 .. Len(s) : j \in J <=> j \in K
  BY <1>1
<1>3. Len(s) + 1 \in K <=> Final(u)
  BY <1>1
<1> HIDE DEF J, K
<1>4. Subsequence(Append(s, u), K) =
        IF Len(s) + 1 \in K THEN Append(Subsequence(s, J), u) ELSE Subsequence(s, J)
  BY <1>2, SubsequenceAppend
<1>5. HeadsOf(s) = Subsequence(s, J) /\ HeadsOf(Append(s, u)) = Subsequence(Append(s, u), K)
  BY DEF HeadsOf, J, K
<1> QED
  BY <1>3, <1>4, <1>5

LEMMA HeadsTyped ==
  TypeInv => heads \in Seq(GotUnits) /\ Len(heads) \in Nat
<1> SUFFICES ASSUME TypeInv PROVE heads \in Seq(GotUnits)
  BY LenProperties
<1>1. client_got \in Seq(GotUnits)
  BY DEF TypeInv, HistoryTypes
<1> QED
  BY <1>1, SubsequenceType DEF heads

\* A unit is sent to the client.
LEMMA HeadsGrow ==
  ASSUME TypeInv, NEW u \in GotUnits, client_got' = Append(client_got, u)
  PROVE  /\ Final(u) => heads' = Append(heads, u) /\ heads' # << >>
                        /\ Len(heads') = Len(heads) + 1 /\ latest' = u
         /\ ~Final(u) => heads' = heads /\ latest' = latest
<1>1. client_got \in Seq(GotUnits) /\ heads \in Seq(GotUnits)
  BY HeadsTyped DEF TypeInv, HistoryTypes
<1>2. HeadsOf(client_got) = heads /\ HeadsOf(client_got') = heads'
  BY DEF HeadsOf, heads
<1>3. heads' = IF Final(u) THEN Append(heads, u) ELSE heads
  BY <1>1, <1>2, HeadsAppend
<1>4. PICK h \in Seq(GotUnits) : h = heads
  BY <1>1
<1>5. /\ Len(Append(h, u)) = Len(h) + 1 /\ Append(h, u)[Len(h) + 1] = u
      /\ Append(h, u) # << >>
  OBVIOUS
<1>6. CASE Final(u)
  <2>1. heads' = Append(h, u)
    BY <1>3, <1>4, <1>6
  <2>2. latest' = u
    BY <1>5, <2>1 DEF latest
  <2> QED
    BY <1>4, <1>5, <1>6, <2>1, <2>2
<1>7. CASE ~Final(u)
  BY <1>3, <1>7 DEF latest
<1> QED
  BY <1>6, <1>7

AskedFacts ==
  /\ asked \in Nat /\ request \in Nat /\ asked <= request
  /\ pc \in Asking => asked < request
  /\ asked # 0 => served # << >> /\ served[Len(served)].at = script[asked].host

\* What the servers got last.
LEMMA AskedTyped == TypeInv /\ RoutedInv => AskedFacts
<1> SUFFICES ASSUME TypeInv, RoutedInv PROVE AskedFacts
  OBVIOUS
<1> USE DEF AskedFacts
<1>1. request \in Nat /\ (pc \in Asking => request # 0)
  BY DEF TypeInv, ExchangeTypes, Asking
<1>2. CASE served = << >>
  BY <1>1, <1>2 DEF asked
<1>3. CASE served # << >>
  <2>1. /\ DOMAIN served = 1 .. Len(served) /\ Len(served) \in Nat
        /\ \A j \in 1 .. Len(served) : served[j].unit \in ClientUnits
    BY SentUnitsTyped DEF TypeInv
  <2>2. Len(served) # 0
    <3>1. PICK S : S = [unit : ClientUnits, at : Hosts]
      OBVIOUS
    <3>2. served \in Seq(S)
      BY <3>1 DEF TypeInv, HistoryTypes
    <3> QED
      BY <1>3, <3>2
  <2>3. Len(served) \in DOMAIN served /\ served[Len(served)].unit \in ClientUnits
    BY <2>1, <2>2
  <2>4. \A u \in ClientUnits : u.id \in Nat
    BY DEF ClientUnits
  <2>5. asked = served[Len(served)].unit.id
    BY <1>3 DEF asked
  <2>6. asked <= request /\ (pc \in Asking => asked < request)
    BY <2>3, <2>5 DEF RoutedInv
  <2>7. served[Len(served)].at = script[asked].host
    BY <2>3, <2>5 DEF RoutedInv, RequestsRouted
  <2> QED
    BY <1>1, <1>3, <2>3, <2>4, <2>5, <2>6, <2>7
<1> QED
  BY <1>2, <1>3

LEMMA NextAskedTyped == TypeInv' /\ RoutedInv' => AskedFacts'
  BY AskedTyped, PTL

\* A unit reaches a server.
LEMMA AskedGrows ==
  ASSUME TypeInv, NEW u \in ClientUnits, NEW h \in Hosts,
         served' = Append(served, [unit |-> u, at |-> h])
  PROVE  asked' = u.id
<1>1. PICK S : S = [unit : ClientUnits, at : Hosts]
  OBVIOUS
<1>2. PICK v \in S : v = [unit |-> u, at |-> h]
  BY <1>1
<1>3. served \in Seq(S)
  BY <1>1 DEF TypeInv, HistoryTypes
<1>4. /\ Append(served, v) # << >> /\ Append(served, v)[Len(Append(served, v))] = v
  BY <1>3
<1>5. v.unit = u
  BY <1>2
<1> QED
  BY <1>2, <1>4, <1>5 DEF asked

LEMMA ServedStep ==
  ASSUME SessionInv, TypeInv', RoutedInv', AskedInv, Orderly, [Next]_vars,
         served' # served
  PROVE  /\ UNCHANGED <<request, client_got, script>> /\ conn.up
         /\ \/ pc = "write_request" /\ pc' = "request_body" /\ asked' = request
            \/ /\ pc = "request_body" /\ pc' \in Waiting
               /\ asked = request /\ asked' = request
            \/ pc = "tunnel" /\ pc' = "tunnel"
<1>1. TypeInv /\ RoutedInv /\ UNCHANGED script
  BY Frame DEF SessionInv
<1>2. conn.up => conn.host \in Hosts
  BY <1>1 DEF TypeInv, ServerTypes
<1>3. CASE WriteRemoteRequestHeader
  <2>1. /\ UNCHANGED <<request, client_got>> /\ pc = "write_request" /\ pc' = "request_body"
        /\ ToServer(HeadUnit(request))
    BY <1>3 DEF WriteRemoteRequestHeader, HeadUnit, Current
  <2>2. request \in 1 .. Len(script)
    BY <1>1, <2>1 DEF TypeInv, CaseTypes, ExchangeTypes, ToHost
  <2>3. HeadUnit(request) \in ClientUnits /\ HeadUnit(request).id = request
    BY <1>1, <2>2, RequestTyped DEF HeadUnit, Unit, TypeInv
  <2>4. PICK u \in ClientUnits : u = HeadUnit(request)
    BY <2>3
  <2>5. conn.up /\ served' = Append(served, [unit |-> u, at |-> conn.host])
    BY <2>1, <2>4 DEF ToServer
  <2>6. asked' = request
    BY <1>1, <1>2, <2>3, <2>4, <2>5, AskedGrows
  <2> QED
    BY <1>1, <2>1, <2>5, <2>6
<1>4. CASE ForwardRequestBody
  <2>1. UNCHANGED <<request, client_got>> /\ pc = "request_body"
    BY <1>4 DEF ForwardRequestBody
  <2>2. PICK u \in ClientUnits : ToServer(u) /\ pc' \in {"read_response", pc}
    BY <1>1, <1>4, RequestBodyRead DEF TypeInv
  <2>3. conn.up /\ served' = Append(served, [unit |-> u, at |-> conn.host])
    BY <2>2 DEF ToServer
  <2>4. asked = request
    BY <2>1, <2>3 DEF AskedInv, Waiting
  <2>5. asked' <= request /\ asked' \in Nat /\ asked \in Nat
    BY <1>1, <2>1, AskedTyped, NextAskedTyped DEF AskedFacts
  <2>6. asked <= asked'
    <3>1. PICK S : S = [unit : ClientUnits, at : Hosts]
      OBVIOUS
    <3>2. PICK v \in S : v = [unit |-> u, at |-> conn.host]
      BY <1>2, <2>3, <3>1
    <3>3. served \in Seq(S) /\ served' = Append(served, v)
      BY <1>1, <2>3, <3>1, <3>2 DEF TypeInv, HistoryTypes
    <3>4. request # 0
      BY <1>1, <2>1 DEF TypeInv, ExchangeTypes
    <3>5. served # << >> /\ asked = served[Len(served)].unit.id
      BY <2>4, <3>4 DEF asked
    <3>6. /\ Len(served) \in DOMAIN served' /\ Len(served') \in DOMAIN served'
          /\ Len(served) < Len(served') /\ served' # << >>
          /\ served'[Len(served)] = served[Len(served)]
      BY <3>3, <3>5
    <3>7. asked' = served'[Len(served')].unit.id
      BY <3>6 DEF asked
    <3>8. \A i, j \in DOMAIN served' :
            i < j => served'[i].unit.id <= served'[j].unit.id
      BY DEF RoutedInv, RequestsRouted
    <3> QED
      BY <3>5, <3>6, <3>7, <3>8
  <2>7. asked' = request
    BY <2>4, <2>5, <2>6
  <2> QED
    BY <1>1, <2>1, <2>2, <2>3, <2>4, <2>7 DEF Waiting
<1>5. CASE TunnelToRemote
  BY <1>1, <1>5 DEF TunnelToRemote, ToServer, exchange
<1> QED
  BY <1>3, <1>4, <1>5, Frame

\* Where Run can have been before it is where it is.
LEMMA CameFrom ==
  ASSUME [Next]_vars
  PROVE  /\ Active' => Active
         /\ pc' \in Waiting => pc \in Waiting \/ WriteRemoteRequestHeader
         /\ pc' = "write_response" => pc = "write_response" \/ ReadRemoteResponseHeader
         /\ pc' \in Unanswered => pc \in Unanswered \/ ReadClientRequestHeader
         /\ pc \in Unanswered /\ pc' \notin Unanswered =>
              \/ ~Active' \/ WriteRemoteResponseHeaderToClient
              \/ WriteConnectEstablishedResponseToClient
         /\ pc' \in {"response_body", "decide", "read_request"} =>
              /\ UNCHANGED response
              /\ \/ pc \in {"response_body", "decide", "read_request"}
                 \/ WriteRemoteResponseHeaderToClient
<1> USE DEF Active, Unanswered, Asking, Waiting
<1>1. CASE Environment \/ UNCHANGED vars
  <2>1. UNCHANGED <<pc, response>>
    BY <1>1 DEF vars, exchange, Environment, ClientSends, ClientSendsBody, ClientCloses,
      ServerAnswers, ServerSendsInterim, ServerSendsNotice, ServerCloses
  <2> QED
    BY <2>1, ZenonT(40)
<1>2. CASE \/ ClientGone \/ ConnectFails \/ RulesThrow \/ RemoteWriteFails \/ RequestBodyEof
           \/ RemoteGone \/ ClientWriteFails \/ ResponseBodyEof \/ TunnelEnds
  <2>1. ~Active' /\ Active
    BY <1>2 DEF ClientGone, ConnectFails, RemoteWriteFails, RulesThrow, RequestBodyEof, RemoteGone,
      ClientWriteFails, ResponseBodyEof, TunnelEnds, EofInBody, Stop
  <2> QED
    BY <2>1
<1>3. CASE ReadClientRequestHeader
  BY <1>3 DEF ReadClientRequestHeader, Stop
<1>4. CASE EnsureRemoteConnected \/ ResolveRemote \/ ConnectRemote
  BY <1>4 DEF EnsureRemoteConnected, ResolveRemote, ConnectRemote, AfterConnect
<1>5. CASE WriteRemoteRequestHeader \/ RequestBodyDone
  BY <1>5 DEF WriteRemoteRequestHeader, RequestBodyDone
<1>6. CASE ForwardRequestBody
  <2>1. pc = "request_body" /\ pc' \in Waiting \cup {"stopped"}
    BY <1>6 DEF ForwardRequestBody, Stop
  <2> QED
    BY <2>1
<1>7. CASE ReadRemoteResponseHeader
  <2>1. pc = "read_response" /\ pc' \in {"write_response", "stopped"}
    BY <1>7 DEF ReadRemoteResponseHeader, Stop
  <2> QED
    BY <1>7, <2>1
<1>8. CASE WriteRemoteResponseHeaderToClient \/ ResponseBodyDone
  BY <1>8 DEF WriteRemoteResponseHeaderToClient, ResponseBodyDone, exchange
<1>9. CASE ForwardResponseBody
  <2>1. /\ pc = "response_body" /\ pc' \in {"response_body", "decide", "stopped"}
        /\ UNCHANGED response
    BY <1>9 DEF ForwardResponseBody, Stop
  <2> QED
    BY <2>1
<1>10. CASE ShouldKeepAlive
  BY <1>10 DEF ShouldKeepAlive, Stop, exchange
<1>11. CASE \/ WriteConnectEstablishedResponseToClient \/ TunnelToClient
            \/ TunnelToRemote
  BY <1>11 DEF WriteConnectEstablishedResponseToClient, TunnelToClient, TunnelToRemote
<1> QED
  BY <1>1, <1>2, <1>3, <1>4, <1>5, <1>6, <1>7, <1>8, <1>9, <1>10, <1>11
     DEF Next, Session

LEMMA AskedStep ==
  ASSUME SessionInv, TypeInv', RoutedInv', AskedInv, [Next]_vars
  PROVE  AskedInv'
<1>1. /\ TypeInv /\ RoutedInv /\ StreamInv /\ AnswerInv /\ Orderly' = Orderly
  BY Frame DEF SessionInv, OrderlyInv, Orderly
<1> SUFFICES ASSUME Orderly
             PROVE  /\ pc' \in Waiting => asked' = request' \/ (~conn'.up /\ Remote' = << >>)
                    /\ pc' = "write_response" => asked' = request'
  BY <1>1 DEF AskedInv
<1>2. CASE served' # served
  <2>1. pc' # "write_response" /\ (pc' \in Waiting => asked' = request')
    BY <1>2, ServedStep DEF Waiting
  <2> QED
    BY <2>1
<1>3. CASE served' = served
  <2>1. asked' = asked
    BY <1>3 DEF asked
  <2>2. ASSUME pc' \in Waiting \cup {"write_response"} PROVE UNCHANGED request
    BY <2>2, Frame DEF ReadClientRequestHeader, Stop, Waiting
  <2>3. ASSUME pc' = "write_response" PROVE asked' = request'
    <3>1. CASE pc = "write_response"
      BY <2>1, <2>2, <2>3, <3>1 DEF AskedInv
    <3>2. CASE ReadRemoteResponseHeader
      <4>1. pc = "read_response"
        BY <3>2 DEF ReadRemoteResponseHeader
      <4>2. PICK u \in ServerUnits :
              /\ remote_read_buffer_ \o conn.wire
                   = <<u>> \o (remote_read_buffer_' \o conn'.wire)
              /\ conn'.wire \in Seq(ServerUnits)
              /\ conn' = [conn EXCEPT !.wire = conn'.wire]
              /\ remote_read_buffer_' \in Seq(ServerUnits)
        BY <1>1, <2>3, <3>2, ResponseHeaderRead DEF TypeInv, Stop
      <4>3. Remote = Prepend(u, Remote')
        BY <1>1, <4>2, RemoteTakes DEF TypeInv
      <4>4. PICK next \in Seq(ServerUnits) : next = Remote'
        BY <4>2, CatType DEF Remote
      <4>5. Remote # << >>
        BY <4>3, <4>4, PrependSome
      <4> QED
        BY <2>1, <2>2, <2>3, <4>1, <4>5 DEF AskedInv, Waiting
    <3> QED
      BY <2>3, <3>1, <3>2, CameFrom
  <2>4. ASSUME pc' \in Waiting
        PROVE  asked' = request' \/ (~conn'.up /\ Remote' = << >>)
    <3>1. CASE WriteRemoteRequestHeader
      <4>1. /\ pc = "write_request" /\ UNCHANGED remote_read_buffer_
            /\ ToServer(HeadUnit(request))
        BY <3>1 DEF WriteRemoteRequestHeader, HeadUnit, Current, buffers
      <4>2. ~conn.up
        <5>1. SUFFICES ASSUME conn.up PROVE FALSE
          OBVIOUS
        <5>2. Append(served, [unit |-> HeadUnit(request), at |-> conn.host]) = served
          BY <1>3, <4>1, <5>1 DEF ToServer
        <5>3. PICK S : S = [unit : ClientUnits, at : Hosts]
          OBVIOUS
        <5>4. served \in Seq(S)
          BY <1>1, <5>3 DEF TypeInv, HistoryTypes
        <5>5. \A v : Len(Append(served, v)) = Len(served) + 1 /\ Len(served) \in Nat
          BY <5>4
        <5> QED
          BY <5>2, <5>5
      <4>3. UNCHANGED conn
        BY <4>1, <4>2 DEF ToServer
      <4>4. Remote = << >>
        BY <1>1, <4>1 DEF AnswerInv, Quiet, Asking
      <4> QED
        BY <4>1, <4>2, <4>3, <4>4 DEF Remote
    <3>2. CASE pc \in Waiting /\ asked = request
      BY <2>1, <2>2, <2>4, <3>2
    <3>3. CASE pc \in Waiting /\ ~conn.up /\ Remote = << >>
      <4>1. UNCHANGED <<conn, remote_read_buffer_>>
        <5>1. Active'
          BY <2>4 DEF Waiting, Active
        <5>2. CASE ForwardRequestBody
          BY <1>1, <2>4, <5>2, RequestBodyKeeps DEF ForwardRequestBody, Waiting
        <5>3. ~(ServerAnswers \/ ServerSendsInterim \/ ServerSendsNotice \/ ServerCloses)
          BY <3>3 DEF ServerAnswers, ServerSendsInterim, ServerSendsNotice, ServerCloses
        <5>4. ~(WriteRemoteRequestHeader \/ TunnelToRemote \/ ForwardResponseBody
                \/ TunnelToClient)
          BY <3>3 DEF WriteRemoteRequestHeader, TunnelToRemote, ForwardResponseBody,
            TunnelToClient, Waiting
        <5>5. ~ReadRemoteResponseHeader
          BY <2>4 DEF ReadRemoteResponseHeader, Waiting, Stop
        <5>6. pc \notin {"ensure", "resolving", "connecting"}
          BY <3>3 DEF Waiting
        <5> QED
          BY <5>1, <5>2, <5>3, <5>4, <5>5, <5>6, RemoteFrame
      <4> QED
        BY <3>3, <4>1 DEF Remote
    <3> QED
      BY <2>4, <3>1, <3>2, <3>3, CameFrom DEF AskedInv
  <2> QED
    BY <2>3, <2>4
<1> QED
  BY <1>2, <1>3

LEMMA FinalStatus ==
  \A r \in ResponseMessages : r.status >= 200 /\ r.status \notin 100 .. 199
<1> SUFFICES ASSUME NEW r \in ResponseMessages
             PROVE  r.status >= 200 /\ r.status \notin 100 .. 199
  OBVIOUS
<1>1. PICK n \in 200 .. 599 : n = r.status
  BY DEF ResponseMessages
<1>2. n >= 200 /\ n \notin 100 .. 199
  OBVIOUS
<1> QED
  BY <1>1, <1>2, Zenon

\* The response of the exchange that ended, when the next request is read.
LEMMA ResponseIsSettled ==
  ASSUME SessionInv, Orderly, pc = "read_request", request # 0, latest = response
  PROVE  Settled
<1>1. /\ TypeInv /\ AnswerInv /\ EndsInv /\ request \in 1 .. Len(script)
      /\ DOMAIN script = 1 .. Len(script)
  BY DEF SessionInv, OrderlyInv, TypeInv, ExchangeTypes, CaseTypes
<1>2. PICK r \in servers.responses, sofar, rest, cut \in Seq(ServerUnits) :
        Answering(r, sofar, rest, cut) /\ Delivered(r, sofar, rest)
  BY <1>1 DEF AnswerInv
<1>3. /\ response = AnswerHead(r) /\ Got(request) = Prepend(response, sofar)
      /\ AnswerBody(r) = Cat(sofar, rest) /\ rest = << >> /\ ParserKeepAlive(r)
  BY <1>2 DEF Answering, Delivered
<1>4. /\ r \in ResponseMessages /\ response.id = request /\ response.kind = "resp"
      /\ response.message = r /\ response.host = Current.host
  BY <1>1, <1>3, AnswerTyped
<1>5. r.keep_alive /\ ~DelimitedByClose(r)
  BY <1>3, <1>4, FinalStatus, Zenon DEF ParserKeepAlive
<1>6. script[request].keep_alive
  BY <1>1 DEF EndsInv, Ends, TypeInv, ExchangeTypes
<1>7. AnswerBody(r) = sofar
  BY <1>3, CatNone
<1>8. Whole
  BY <1>3, <1>4, <1>7 DEF Whole, Got, Prepend, AnswerBody, Current
<1> QED
  BY <1>4, <1>5, <1>6, <1>8 DEF Settled

\* The header that ends the wait for it is a final one, of the request's host.
LEMMA FinalSent ==
  ASSUME TypeInv, AnswerInv, Orderly, pc \in {"write_response", "write_established"},
         [Next]_vars, NEW u \in GotUnits, client_got' = Append(client_got, u)
  PROVE  Final(u) /\ u.host = script[request].host
<1>1. client_got \in Seq(GotUnits)
  BY DEF TypeInv, HistoryTypes
<1>2. \A v \in GotUnits : Append(client_got, v) = Append(client_got, u) => v = u
  <2>1. \A v \in GotUnits : Append(client_got, v)[Len(client_got) + 1] = v
    BY <1>1
  <2> QED
    BY <2>1
<1>3. client_got' # client_got
  <2>1. Len(Append(client_got, u)) = Len(client_got) + 1 /\ Len(client_got) \in Nat
    BY <1>1
  <2> QED
    BY <2>1
<1>4. CASE WriteRemoteResponseHeaderToClient
  <2>1. client_got' = Append(client_got, response) /\ pc = "write_response"
    BY <1>4 DEF WriteRemoteResponseHeaderToClient
  <2>2. response \in GotUnits /\ request # 0
    BY <2>1, AnswerParts DEF Delivering
  <2>3. PICK r \in servers.responses, sofar, rest, cut \in Seq(ServerUnits) :
          Answering(r, sofar, rest, cut)
    BY <2>1, AnswerParts DEF Delivering
  <2>4. u = AnswerHead(r)
    BY <1>2, <2>1, <2>2, <2>3 DEF Answering
  <2>5. /\ r \in ResponseMessages /\ u.kind = "resp" /\ u.message = r
        /\ u.host = Current.host
    BY <2>2, <2>4, AnswerTyped
  <2>6. r.status >= 200
    BY <2>5, FinalStatus
  <2> QED
    BY <2>5, <2>6 DEF Final, Current
<1>5. CASE WriteConnectEstablishedResponseToClient
  <2>1. /\ client_got' = Append(client_got,
                           Unit("established", request, Current.host, NoResponse))
        /\ pc = "write_established"
    BY <1>5 DEF WriteConnectEstablishedResponseToClient
  <2>2. request \in 1 .. Len(script) /\ request \in 0 .. Len(script)
    BY <2>1 DEF TypeInv, ExchangeTypes, CaseTypes
  <2>3. Current.host \in Hosts
    BY <2>2, CurrentTyped DEF TypeInv, Current
  <2>4. Unit("established", request, Current.host, NoResponse) \in GotUnits
    BY <2>2, <2>3 DEF GotUnits, Unit
  <2>5. u = Unit("established", request, Current.host, NoResponse)
    BY <1>2, <2>1, <2>4
  <2> QED
    BY <2>5 DEF Final, Unit, Current
<1>6. ~ForwardResponseBody /\ ~TunnelToClient
  BY DEF ForwardResponseBody, TunnelToClient
<1> QED
  BY <1>3, <1>4, <1>5, <1>6, Frame

LEMMA HeadsStep ==
  ASSUME SessionInv, TypeInv', RoutedInv', HeadsInv, [Next]_vars
  PROVE  HeadsInv'
<1>1. /\ TypeInv /\ RoutedInv /\ StreamInv /\ AnswerInv /\ Orderly' = Orderly
      /\ UNCHANGED <<script, servers>>
  BY Frame DEF SessionInv, OrderlyInv, Orderly
<1> SUFFICES ASSUME Orderly, Active' PROVE HeadsInv'
  BY <1>1 DEF HeadsInv
<1>2. Active /\ request \in Nat /\ Len(heads) \in Nat
  BY <1>1, CameFrom, HeadsTyped DEF TypeInv, ExchangeTypes
<1>3. /\ Len(heads) = IF pc \in Unanswered THEN request - 1 ELSE request
      /\ heads # << >> => latest.id = Len(heads) /\ latest.host = script[latest.id].host
      /\ pc \in {"response_body", "decide", "read_request"} /\ request # 0 =>
           latest = response
      /\ pc \in Unanswered /\ heads # << >> => Settled
  BY <1>2 DEF HeadsInv
<1>4. CASE client_got' = client_got
  <2>1. heads' = heads /\ latest' = latest /\ Settled' = Settled
    BY <1>1, <1>4 DEF heads, latest, Settled, Whole, OfRequest, ServerBody
  <2>2. CASE ReadClientRequestHeader
    <3>1. /\ pc = "read_request" /\ pc' = "ensure" /\ request' = request + 1
      BY <1>1, <2>2, HeaderKeeps DEF ReadClientRequestHeader, Stop, Active
    <3>2. heads # << >> => Settled
      <4>1. SUFFICES ASSUME heads # << >> PROVE Settled
        OBVIOUS
      <4>2. request # 0
        <5>1. heads \in Seq(GotUnits)
          BY <1>1, HeadsTyped
        <5>2. Len(heads) # 0
          BY <4>1, <5>1
        <5> QED
          BY <1>3, <3>1, <5>2 DEF Unanswered, Asking, Waiting
      <4> QED
        BY <1>3, <3>1, <4>2, ResponseIsSettled
    <3> QED
      BY <1>1, <1>2, <1>3, <2>1, <3>1, <3>2 DEF HeadsInv, Unanswered, Asking, Waiting
  <2>3. CASE ~ReadClientRequestHeader
    <3>1. UNCHANGED request
      BY <2>3, Frame
    <3>2. ~WriteRemoteResponseHeaderToClient /\ ~WriteConnectEstablishedResponseToClient
      <4>1. client_got \in Seq(GotUnits)
        BY <1>1 DEF TypeInv, HistoryTypes
      <4>2. \A u : Len(Append(client_got, u)) = Len(client_got) + 1 /\ Len(client_got) \in Nat
        BY <4>1
      <4>3. \A u : Append(client_got, u) # client_got
        BY <4>2
      <4> QED
        BY <1>4, <4>3 DEF WriteRemoteResponseHeaderToClient,
          WriteConnectEstablishedResponseToClient
    <3>3. pc' \in Unanswered <=> pc \in Unanswered
      BY <2>3, <3>2, CameFrom
    <3>4. pc' \in {"response_body", "decide", "read_request"} =>
            pc \in {"response_body", "decide", "read_request"} /\ UNCHANGED response
      BY <3>2, CameFrom
    <3> QED
      BY <1>1, <1>3, <2>1, <3>1, <3>3, <3>4 DEF HeadsInv
  <2> QED
    BY <2>2, <2>3
<1>5. CASE client_got' # client_got
  <2>1. UNCHANGED <<request, response>>
    BY <1>1, <1>5, GotGrows
  <2>2. PICK u \in GotUnits :
          /\ client_got' = Append(client_got, u) /\ u.id = request
          /\ \/ pc = "write_response" /\ pc' = "response_body" /\ u = response
             \/ /\ pc = "response_body" /\ pc' \in {"response_body", "decide"}
                /\ u.kind \in {"piece", "last"}
             \/ /\ pc = "write_established" /\ pc' = "tunnel"
                /\ u.kind = "established"
    BY <1>1, <1>5, GotGrows
  <2>3. CASE pc = "response_body" /\ u.kind \in {"piece", "last"}
    <3>1. heads' = heads /\ latest' = latest
      BY <1>1, <2>2, <2>3, HeadsGrow DEF Final
    <3> QED
      BY <1>1, <1>3, <2>1, <2>2, <2>3, <3>1 DEF HeadsInv, Unanswered, Asking, Waiting
  <2>4. CASE pc \in {"write_response", "write_established"}
    <3>1. Final(u) /\ u.host = script[request].host
      BY <1>1, <2>2, <2>4, FinalSent DEF SessionInv
    <3>2. /\ heads' # << >> /\ Len(heads') = Len(heads) + 1 /\ latest' = u
      BY <1>1, <2>2, <3>1, HeadsGrow
    <3>3. Len(heads') = request
      BY <1>2, <1>3, <2>4, <3>2 DEF Unanswered, Asking
    <3> QED
      BY <1>1, <2>1, <2>2, <2>4, <3>1, <3>2, <3>3 DEF HeadsInv, Unanswered, Asking, Waiting
  <2> QED
    BY <2>2, <2>3, <2>4
<1> QED
  BY <1>4, <1>5

ExchangeInv == SessionInv /\ AskedInv /\ HeadsInv

LEMMA ExchangeHolds == Spec => []ExchangeInv
<1>1. Spec => []SessionInv
  BY OrderlyHolds DEF SessionInv
<1>2. Init => AskedInv /\ HeadsInv
  <2> SUFFICES ASSUME Init PROVE AskedInv /\ HeadsInv
    OBVIOUS
  <2>1. pc = "read_request" /\ request = 0 /\ client_got = << >>
    BY DEF Init
  <2>2. heads = << >>
    BY <2>1, SubsequenceEmpty DEF heads
  <2>3. Len(<< >>) = 0
    OBVIOUS
  <2> QED
    BY <2>1, <2>2, <2>3 DEF AskedInv, HeadsInv, Waiting, Unanswered, Asking
<1>3. /\ AskedInv /\ HeadsInv /\ SessionInv /\ SessionInv' /\ [Next]_vars
      => AskedInv' /\ HeadsInv'
  <2> SUFFICES ASSUME AskedInv, HeadsInv, SessionInv, SessionInv', [Next]_vars
               PROVE  AskedInv' /\ HeadsInv'
    OBVIOUS
  <2>1. TypeInv' /\ RoutedInv'
    BY DEF SessionInv
  <2> QED
    BY <2>1, AskedStep, HeadsStep
<1> QED
  BY <1>1, <1>2, <1>3, PTL DEF Spec, ExchangeInv

-----------------------------------------------------------------------------
(***************************************************************************)
(* What is seen of the exchange while the session asks, waits and answers. *)
(***************************************************************************)
SeenIdle == seen_state = "idle" /\ seen_current = request - 1

SeenAsked ==
  seen_state = "asked" /\ seen_current = request /\ seen_host = Current.host

AnsweredState ==
  IF latest.kind = "established" THEN "tunnel"
  ELSE IF ~Whole \/ DelimitedByClose(latest.message) THEN "answering"
  ELSE IF script[latest.id].keep_alive /\ latest.message.keep_alive THEN "idle"
  ELSE "closing"

SeenAnswered ==
  /\ seen_state = AnsweredState /\ seen_current = request
  /\ seen_host = Current.host /\ latest.id = request

IsAsked == pc \in Waiting \cup {"write_response"} /\ asked = request
IsAnswered == Active /\ pc \notin Unanswered /\ request # 0

LEMMA HeadsCounted ==
  ASSUME ExchangeInv, Orderly, Active
  PROVE  /\ asked \in Nat /\ request \in Nat /\ Len(heads) \in Nat
         /\ asked <= request
         /\ Len(heads) = IF pc \in Unanswered THEN request - 1 ELSE request
         /\ heads = << >> <=> Len(heads) = 0
         /\ heads # << >> => latest.id = Len(heads) /\ latest.host = script[latest.id].host
<1>1. TypeInv /\ RoutedInv
  BY DEF ExchangeInv, SessionInv
<1>2. AskedFacts
  BY <1>1, AskedTyped
<1>3. heads \in Seq(GotUnits)
  BY <1>1, HeadsTyped
<1>4. Len(heads) \in Nat /\ (heads = << >> <=> Len(heads) = 0)
  BY <1>3
<1> QED
  BY <1>2, <1>4 DEF AskedFacts, ExchangeInv, HeadsInv

LEMMA IdleView == ExchangeInv /\ Orderly /\ pc \in Asking => SeenIdle
<1> SUFFICES ASSUME ExchangeInv, Orderly, pc \in Asking PROVE SeenIdle
  OBVIOUS
<1>1. Active /\ pc \in Unanswered
  BY DEF Active, Asking, Unanswered
<1>2. /\ asked \in Nat /\ request \in Nat /\ Len(heads) = request - 1
      /\ heads = << >> <=> Len(heads) = 0
      /\ heads # << >> => latest.id = Len(heads) /\ Settled
  BY <1>1, HeadsCounted DEF ExchangeInv, HeadsInv
<1>3. asked < request
  BY AskedTyped DEF ExchangeInv, SessionInv, AskedFacts
<1>4. ~outstanding
  BY <1>2, <1>3 DEF outstanding
<1>5. seen_state = "idle"
  <2>1. "resp" # "established"
    OBVIOUS
  <2> QED
    BY <1>1, <1>2, <1>4, <2>1, Zenon DEF seen_state, Active, Settled
<1>6. seen_current = request - 1
  <2>1. Len(heads) = 0 => request - 1 = 0
    BY <1>2
  <2> QED
    BY <1>2, <1>4, <2>1, Zenon DEF seen_current
<1> QED
  BY <1>5, <1>6 DEF SeenIdle

LEMMA AskedView == ExchangeInv /\ Orderly /\ IsAsked => SeenAsked
<1> SUFFICES ASSUME ExchangeInv, Orderly, IsAsked PROVE SeenAsked
  OBVIOUS
<1>1. Active /\ pc \in Unanswered /\ asked = request
  BY DEF IsAsked, Active, Waiting, Unanswered
<1>2. /\ asked \in Nat /\ request \in Nat /\ Len(heads) = request - 1
  BY <1>1, HeadsCounted
<1>3. outstanding
  BY <1>1, <1>2 DEF outstanding
<1>4. request # 0
  BY <1>1 DEF ExchangeInv, SessionInv, TypeInv, ExchangeTypes, Unanswered, Asking, Waiting
<1>5. served[Len(served)].at = Current.host
  BY <1>1, <1>4, AskedTyped DEF ExchangeInv, SessionInv, AskedFacts, Current
<1> QED
  BY <1>1, <1>3, <1>5 DEF SeenAsked, seen_state, seen_current, seen_host, Active

LEMMA AnsweredView == ExchangeInv /\ Orderly /\ IsAnswered => SeenAnswered
<1> SUFFICES ASSUME ExchangeInv, Orderly, IsAnswered PROVE SeenAnswered
  OBVIOUS
<1>1. Active /\ pc \notin Unanswered /\ request # 0
  BY DEF IsAnswered
<1>2. /\ asked \in Nat /\ request \in Nat /\ Len(heads) = request /\ asked <= request
      /\ heads # << >> /\ latest.id = request /\ latest.host = script[request].host
  BY <1>1, HeadsCounted
<1>3. ~outstanding
  BY <1>2 DEF outstanding
<1>4. seen_state = AnsweredState
  BY <1>1, <1>2, <1>3, Zenon DEF seen_state, AnsweredState, Active
<1>5. seen_current = request /\ seen_host = Current.host
  BY <1>2, <1>3, Zenon DEF seen_current, seen_host, Current
<1> QED
  BY <1>2, <1>4, <1>5 DEF SeenAnswered

\* The same of the state after a step.
LEMMA NextViews ==
  /\ ExchangeInv' /\ Orderly' /\ IsAsked' => SeenAsked'
  /\ ExchangeInv' /\ Orderly' /\ IsAnswered' => SeenAnswered'
  BY AskedView, AnsweredView, PTL

-----------------------------------------------------------------------------
(***************************************************************************)
(* The refinement.  A step that neither a server nor the client sees is a  *)
(* stutter or the end; the others are one step of the exchange each.       *)
(***************************************************************************)
Unseen == UNCHANGED <<seen_state, seen_current, seen_host>>

LEMMA UnseenStep ==
  ASSUME [Next]_vars, UNCHANGED <<client_got, served>>
  PROVE  Unseen \/ Exchanges!End
<1>1. /\ UNCHANGED <<seen_current, seen_host>>
      /\ outstanding' <=> outstanding
      /\ heads' = heads /\ latest' = latest /\ (Whole' <=> Whole)
      /\ UNCHANGED script
  <2>1. UNCHANGED script
    BY Frame
  <2>2. heads' = heads /\ asked' = asked
    BY DEF heads, asked
  <2>3. latest' = latest /\ (outstanding' <=> outstanding)
    BY <2>2, Zenon DEF latest, outstanding
  <2>4. Whole' <=> Whole
    BY <2>1, <2>3, ZenonT(40) DEF Whole, OfRequest, ServerBody
  <2>5. UNCHANGED <<seen_current, seen_host>>
    BY <2>2, <2>3 DEF seen_current, seen_host
  <2> QED
    BY <2>1, <2>2, <2>3, <2>4, <2>5
<1>2. CASE Active'
  <2>1. Active
    BY <1>2, CameFrom
  <2>2. seen_state' = seen_state
    BY <1>1, <1>2, <2>1 DEF seen_state, Active
  <2> QED
    BY <1>1, <2>2 DEF Unseen
<1>3. CASE ~Active'
  <2>1. seen_state' = "ended"
    BY <1>3 DEF seen_state, Active
  <2> QED
    BY <1>1, <2>1 DEF Unseen, Exchanges!End
<1> QED
  BY <1>2, <1>3

LEMMA BeginsAt ==
  ASSUME NEW to, seen_state = "idle", seen_current = request - 1, seen_state' = to,
         seen_current' = request, seen_host' = script[request].host,
         request \in 1 .. Len(script), script \in Seq(RequestMessages)
  PROVE  Exchanges!Begin(to)
<1> DEFINE W == [k \in DOMAIN script |-> script[k].host]
<1>1. /\ DOMAIN script = 1 .. Len(script) /\ Len(script) \in Nat
      /\ request \in DOMAIN script
  OBVIOUS
<1>2. W[request] = script[request].host
  BY <1>1
<1>3. W \in Seq({script[k].host : k \in DOMAIN script}) /\ Len(W) = Len(script)
  <2>1. W \in [1 .. Len(script) -> {script[k].host : k \in DOMAIN script}]
    BY <1>1
  <2> HIDE DEF W
  <2> QED
    BY <1>1, <2>1, FunctionIsSeq
<1> HIDE DEF W
<1>4. request - 1 < Len(W) /\ (request - 1) + 1 = request
  BY <1>1, <1>3
<1>5. /\ seen_state = "idle" /\ seen_current < Len(W)
      /\ seen_current' = seen_current + 1 /\ seen_host' = W[seen_current']
      /\ seen_state' = to
  BY <1>2, <1>4
<1> QED
  BY <1>5, Zenon DEF Exchanges!Begin, W

\* Something of a request reaches a server.
LEMMA ServedIsSeen ==
  ASSUME ExchangeInv, ExchangeInv', Orderly, Orderly', [Next]_vars, served' # served
  PROVE  Unseen \/ Exchanges!Ask
<1>1. /\ SessionInv /\ AskedInv /\ TypeInv' /\ RoutedInv'
  BY DEF ExchangeInv, SessionInv
<1>2. /\ UNCHANGED <<request, client_got, script>>
      /\ \/ pc = "write_request" /\ pc' = "request_body" /\ asked' = request
         \/ /\ pc = "request_body" /\ pc' \in Waiting
            /\ asked = request /\ asked' = request
         \/ pc = "tunnel" /\ pc' = "tunnel"
  BY <1>1, ServedStep
<1>3. Current' = Current
  BY <1>2 DEF Current
<1>4. CASE pc = "write_request" /\ pc' = "request_body" /\ asked' = request
  <2>1. SeenIdle
    BY <1>4, IdleView DEF Asking
  <2>2. SeenAsked'
    BY <1>2, <1>4, NextViews DEF IsAsked, Waiting
  <2>3. request \in 1 .. Len(script) /\ script \in Seq(RequestMessages)
    BY <1>1, <1>4 DEF SessionInv, TypeInv, CaseTypes, ExchangeTypes
  <2>4. /\ seen_state = "idle" /\ seen_current = request - 1 /\ seen_state' = "asked"
        /\ seen_current' = request /\ seen_host' = script[request].host
    BY <1>2, <1>3, <2>1, <2>2, Zenon DEF SeenIdle, SeenAsked, Current
  <2>5. Exchanges!Begin("asked")
    BY <2>3, <2>4, BeginsAt
  <2> QED
    BY <2>5 DEF Exchanges!Ask
<1>5. CASE pc = "request_body" /\ pc' \in Waiting /\ asked = request /\ asked' = request
  <2>1. SeenAsked
    BY <1>5, AskedView DEF IsAsked, Waiting
  <2>2. SeenAsked'
    BY <1>2, <1>5, NextViews DEF IsAsked
  <2> QED
    BY <1>2, <1>3, <2>1, <2>2 DEF SeenAsked, Unseen
<1>6. CASE pc = "tunnel" /\ pc' = "tunnel"
  <2>1. request # 0 /\ pc \notin Unanswered /\ Active
    BY <1>1, <1>6 DEF SessionInv, TypeInv, ExchangeTypes, Unanswered, Asking, Waiting,
      Active
  <2>2. SeenAnswered
    BY <2>1, AnsweredView DEF IsAnswered
  <2>3. SeenAnswered'
    BY <1>2, <1>6, <2>1, NextViews DEF IsAnswered, Active
  <2>4. AnsweredState' = AnsweredState
    BY <1>2 DEF AnsweredState, latest, heads, Whole, OfRequest, ServerBody
  <2> QED
    BY <1>2, <1>3, <2>2, <2>3, <2>4 DEF SeenAnswered, Unseen
<1> QED
  BY <1>2, <1>4, <1>5, <1>6

\* A response that is delivered to its end has nothing more to deliver.
LEMMA NotYetWhole ==
  ASSUME ExchangeInv, ExchangeInv', Orderly, Orderly', UNCHANGED <<script, request>>,
         request # 0, pc = "response_body", latest = response, latest.id = request,
         latest.host = Current.host,
         NEW u \in GotUnits, u.id = request, client_got' = Append(client_got, u)
  PROVE  ~Whole
<1> SUFFICES ASSUME Whole PROVE FALSE
  OBVIOUS
<1>1. TypeInv /\ AnswerInv /\ WholeInv'
  BY DEF ExchangeInv, SessionInv, OrderlyInv
<1>2. /\ client_got \in Seq(GotUnits) /\ response \in GotUnits /\ response.kind = "resp"
      /\ request \in DOMAIN script
  BY <1>1, AnswerParts DEF Delivering, TypeInv, HistoryTypes, ExchangeTypes, CaseTypes,
    ResponseUnits
<1>3. Got(request) = WholeOf(request, response)
  BY DEF Whole, Got, WholeOf, Prepend, Current
<1>4. PICK got \in Seq(GotUnits) : got = Got(request)
  BY <1>2, OfRequestType DEF Got
<1>5. PICK sofar \in Seq(ServerUnits) : got = Prepend(response, sofar)
  <2>1. \E r \in servers.responses, sofar, rest \in Seq(ServerUnits) :
          Delivered(r, sofar, rest)
    BY <1>1, AnswerParts DEF Delivering
  <2> QED
    BY <1>4, <2>1 DEF Delivered
<1>6. got # << >> /\ Head(got) = response
  <2>1. sofar \in Seq(GotUnits)
    <3>1. ServerUnits \subseteq GotUnits
      BY DEF GotUnits
    <3> QED
      BY <3>1, SeqMonotonic
  <2>2. <<response>> \o sofar # << >> /\ Head(<<response>> \o sofar) = response
    BY <1>2, <2>1
  <2> QED
    BY <1>5, <2>2 DEF Prepend
<1>7. PICK k \in DOMAIN script, w \in GotUnits : k = request /\ w = response
  BY <1>2
<1>8. Got(k)' = Append(got, u)
  <2>1. Got(k)' = OfRequest(Append(client_got, u), k)
    BY DEF Got
  <2> QED
    BY <1>2, <1>4, <1>7, <2>1, OfRequestAppend DEF Got
<1>9. /\ Append(got, u) # << >> /\ Head(Append(got, u)) = w
      /\ Len(Append(got, u)) = Len(got) + 1 /\ Len(got) \in Nat
  BY <1>6, <1>7
<1>10. WholeOf(k, Head(Got(k)))' = got
  <2>1. Head(Got(k))' = w
    BY <1>8, <1>9
  <2>2. WholeOf(k, Head(Got(k)))' = WholeOf(k, w)
    BY <2>1 DEF WholeOf, ServerBody
  <2> QED
    BY <1>3, <1>4, <1>7, <2>2
<1>11. IsPrefix(Append(got, u), got)
  <2>1. Got(k)' # << >> /\ Head(Got(k)').kind = "resp"
    BY <1>2, <1>7, <1>8, <1>9
  <2>2. IsPrefix(Got(k)', WholeOf(k, Head(Got(k)))')
    BY <1>1, <2>1 DEF WholeInv
  <2> QED
    BY <1>8, <1>10, <2>2
<1>12. Len(Append(got, u)) <= Len(got)
  BY <1>11 DEF IsPrefix
<1> QED
  BY <1>9, <1>12

\* Something of a response reaches the client.
LEMMA GotIsSeen ==
  ASSUME ExchangeInv, ExchangeInv', Orderly, Orderly', [Next]_vars,
         client_got' # client_got, UNCHANGED served
  PROVE  Unseen \/ Exchanges!Answer \/ Exchanges!Deliver \/ Exchanges!Connect
<1>1. /\ SessionInv /\ HeadsInv /\ TypeInv /\ AnswerInv /\ TypeInv' /\ UNCHANGED script
      /\ AskedInv
  BY Frame DEF ExchangeInv, SessionInv, OrderlyInv
<1>2. UNCHANGED <<request, response>>
  BY <1>1, GotGrows
<1>3. PICK u \in GotUnits :
        /\ client_got' = Append(client_got, u) /\ u.id = request
        /\ \/ pc = "write_response" /\ pc' = "response_body" /\ u = response
           \/ /\ pc = "response_body" /\ pc' \in {"response_body", "decide"}
              /\ u.kind \in {"piece", "last"}
           \/ /\ pc = "write_established" /\ pc' = "tunnel"
              /\ u.kind = "established"
  BY <1>1, GotGrows
<1>4. Current' = Current /\ script[request].host = Current.host
  BY <1>1, <1>2 DEF Current
<1>5. request # 0 /\ IsAnswered'
  <2>1. request # 0
    BY <1>1, <1>3 DEF TypeInv, ExchangeTypes
  <2>2. pc' \in {"response_body", "decide", "tunnel"}
    BY <1>3
  <2>3. pc' \notin {"stopped", "spinning"} /\ pc' \notin Unanswered
    BY <2>2 DEF Unanswered, Asking, Waiting
  <2> QED
    BY <1>2, <2>1, <2>3 DEF IsAnswered, Active
<1>6. SeenAnswered'
  BY <1>5, NextViews
<1>7. CASE pc = "write_response"
  <2>1. SeenAsked
    BY <1>1, <1>7, AskedView DEF IsAsked, AskedInv
  <2>2. latest' = response /\ response.kind = "resp"
    <3>1. Final(u) /\ u = response
      BY <1>1, <1>3, <1>7, FinalSent
    <3>2. response.kind = "resp"
      BY <1>1, <1>7 DEF TypeInv, ExchangeTypes, ResponseUnits
    <3> QED
      BY <1>1, <1>3, <3>1, <3>2, HeadsGrow
  <2>3. AnsweredState' \in {"answering", "idle", "closing"}
    BY <2>2 DEF AnsweredState
  <2> QED
    BY <1>2, <1>4, <1>6, <2>1, <2>3 DEF SeenAsked, SeenAnswered, Exchanges!Answer
<1>8. CASE pc = "response_body"
  <2>1. IsAnswered
    BY <1>5, <1>8 DEF IsAnswered, Active, Unanswered, Asking, Waiting
  <2>2. SeenAnswered
    BY <2>1, AnsweredView
  <2>3. latest' = latest /\ heads' = heads
    BY <1>1, <1>3, <1>8, HeadsGrow DEF Final
  <2>4. latest = response /\ response.kind = "resp" /\ latest.host = Current.host
        /\ latest.id = request
    <3>1. latest = response
      BY <1>1, <1>5, <1>8, <2>1 DEF HeadsInv, IsAnswered
    <3>2. PICK r \in servers.responses, sofar, rest, cut \in Seq(ServerUnits) :
            Answering(r, sofar, rest, cut)
      BY <1>1, <1>8, AnswerParts DEF Delivering
    <3>3. response.kind = "resp" /\ response.host = Current.host /\ response.id = request
      BY <1>1, <1>5, <3>2, AnswerTyped DEF Answering
    <3> QED
      BY <3>1, <3>3
  <2>5. ~Whole
    BY <1>1, <1>2, <1>3, <1>5, <1>8, <2>4, NotYetWhole
  <2>6. AnsweredState = "answering"
    BY <2>4, <2>5 DEF AnsweredState
  <2>7. AnsweredState' \in {"answering", "idle", "closing"}
    BY <2>3, <2>4 DEF AnsweredState
  <2> QED
    BY <1>2, <1>4, <1>6, <2>2, <2>6, <2>7 DEF SeenAnswered, Unseen, Exchanges!Deliver
<1>9. CASE pc = "write_established"
  <2>1. SeenIdle
    BY <1>9, IdleView DEF Asking
  <2>2. latest' = u /\ u.kind = "established"
    BY <1>1, <1>3, <1>9, FinalSent, HeadsGrow
  <2>3. AnsweredState' = "tunnel"
    BY <2>2 DEF AnsweredState
  <2>4. request \in 1 .. Len(script) /\ script \in Seq(RequestMessages)
    BY <1>1, <1>5 DEF TypeInv, CaseTypes, ExchangeTypes
  <2>5. /\ seen_state = "idle" /\ seen_current = request - 1 /\ seen_state' = "tunnel"
        /\ seen_current' = request /\ seen_host' = script[request].host
    BY <1>2, <1>4, <1>6, <2>1, <2>3 DEF SeenIdle, SeenAnswered
  <2>6. Exchanges!Begin("tunnel")
    BY <2>4, <2>5, BeginsAt
  <2> QED
    BY <2>6 DEF Exchanges!Connect
<1> QED
  BY <1>3, <1>7, <1>8, <1>9

(***************************************************************************)
(* The session implements OrderedExchanges: as far as the servers are      *)
(* orderly, what the client and the servers see of HttpProxySession::Run   *)
(* is one exchange after another, each with the host its request names.    *)
(* No request reaches a server before the response to the one before is    *)
(* delivered to its end and both sides keep the connection, although the   *)
(* client sends ahead, the servers close at any time and connections are   *)
(* reused or replaced.                                                     *)
(***************************************************************************)
THEOREM SessionImplementsExchanges == Spec => ImplementsOrderedExchanges
<1>1. Init => Exchanges!Init
  <2> SUFFICES ASSUME Init PROVE Exchanges!Init
    OBVIOUS
  <2>1. /\ pc = "read_request" /\ served = << >> /\ client_got = << >>
    BY DEF Init
  <2>2. heads = << >>
    BY <2>1, SubsequenceEmpty DEF heads
  <2>3. Len(<< >>) = 0
    OBVIOUS
  <2>4. ~outstanding
    BY <2>1, <2>2, <2>3 DEF outstanding, asked
  <2> QED
    BY <2>1, <2>2, <2>4 DEF Exchanges!Init, seen_state, seen_current, seen_host
<1>2. ExchangeInv /\ ExchangeInv' /\ [Next]_vars => [Exchanges!Next]_Exchanges!vars
  <2> SUFFICES ASSUME ExchangeInv, ExchangeInv', [Next]_vars
               PROVE  [Exchanges!Next]_Exchanges!vars
    OBVIOUS
  <2>1. UNCHANGED script /\ (Orderly' <=> Orderly)
    BY Frame DEF Orderly
  <2>2. UNCHANGED <<[k \in DOMAIN script |-> script[k].host], Orderly>>
    BY <2>1, Frame DEF Orderly
  <2>3. CASE ~Orderly
    BY <2>2, <2>3 DEF Exchanges!Next
  <2>4. CASE Orderly
    <3>1. \/ Unseen \/ Exchanges!Ask \/ Exchanges!Connect \/ Exchanges!Answer
          \/ Exchanges!Deliver \/ Exchanges!End
      <4>1. CASE served' # served
        BY <2>1, <2>4, <4>1, ServedIsSeen
      <4>2. CASE served' = served /\ client_got' # client_got
        BY <2>1, <2>4, <4>2, GotIsSeen
      <4>3. CASE served' = served /\ client_got' = client_got
        BY <4>3, UnseenStep
      <4> QED
        BY <4>1, <4>2, <4>3
    <3>2. CASE Unseen
      BY <2>2, <3>2 DEF Unseen, Exchanges!vars
    <3>3. CASE ~Unseen
      BY <2>2, <3>1, <3>3 DEF Exchanges!Next
    <3> QED
      BY <3>2, <3>3
  <2> QED
    BY <2>3, <2>4
<1> QED
  BY <1>1, <1>2, ExchangeHolds, PTL DEF Spec, ImplementsOrderedExchanges, Exchanges!Spec

=============================================================================
