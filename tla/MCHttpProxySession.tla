------------------------- MODULE MCHttpProxySession -------------------------
(***************************************************************************)
(* Clients with up to three requests, to one server or to two, and servers *)
(* with one response of every framing.                                     *)
(***************************************************************************)
EXTENDS HttpProxySession

Message(content_length, chunked, pieces, keep_alive) ==
  [content_length |-> content_length, chunked |-> chunked,
   pieces |-> pieces, keep_alive |-> keep_alive]

Request(method, host, message) ==
  message @@ [method |-> method, host |-> host, well_formed |-> TRUE,
              expect |-> FALSE]

Get(host) == Request("GET", host, Message(NoLength, FALSE, 0, TRUE))
Counted(host) == Request("GET", host, Message(1, FALSE, 0, TRUE))
Chunked(host) == Request("GET", host, Message(NoLength, TRUE, 1, TRUE))

MCHosts == {"h1", "h2"}

Connect(host) == Request("CONNECT", host, Message(NoLength, FALSE, 1, TRUE))
Large == Message(2, FALSE, 0, TRUE)

MCScripts ==
  { <<Get("h1"), Counted("h2"), Get("h1")>>, <<Counted("h1"), Get("h2")>>,
    <<Chunked("h1"), Counted("h1")>>,
    <<[Get("h1") EXCEPT !.method = "HEAD"], Chunked("h2")>>,
    <<[Counted("h1") EXCEPT !.keep_alive = FALSE], Get("h1")>>,
    <<Get("h1"), [Get("h2") EXCEPT !.well_formed = FALSE]>>,
    <<Get("h1"), Request("GET", "h1", Large)>>,
    <<[Counted("h1") EXCEPT !.expect = TRUE], Get("h1")>>,
    <<Get("h1"), [Chunked("h2") EXCEPT !.expect = TRUE]>>,
    <<Get("h1"), Connect("h2")>>, <<Get("h1"), Connect("h1")>> }

Response(status, message) == message @@ [status |-> status]

MCResponses ==
  { Response(200, Message(1, FALSE, 0, TRUE)),
    Response(200, Message(NoLength, TRUE, 1, TRUE)),
    Response(200, Message(NoLength, FALSE, 1, TRUE)),
    Response(200, Message(1, FALSE, 0, FALSE)),
    Response(200, Large),
    Response(304, Message(1, FALSE, 0, TRUE)) }

\* Fewer of both where servers do more than answer.
MCShortScripts ==
  { <<Get("h1"), Get("h1")>>, <<Counted("h1"), Get("h2")>>,
    <<Get("h1"), Connect("h1")>> }
MCShortResponses ==
  { Response(200, Message(1, FALSE, 0, TRUE)),
    Response(200, Message(NoLength, TRUE, 1, TRUE)) }

Met(scripts, responses, behaviours) ==
  [script : scripts, responses : {responses}, behaviours : {behaviours}]

MCCases ==
  Met(MCScripts, MCResponses, {"close"})
    \cup Met(MCShortScripts, MCShortResponses, {"interim", "notice", "close"})

MCInterimCases == Met({<<Get("h1")>>}, MCShortResponses, {"interim"})

MCNoticeCases == Met(MCShortScripts, MCShortResponses, {"notice"})

=============================================================================
