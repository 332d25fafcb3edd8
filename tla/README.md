# Specifications of proxy++

proxy++ is a forward HTTP proxy written in C++ on Boost.Asio and Boost.Beast. It
forwards plain HTTP exchanges, tunnels CONNECT, and lets a rule file change the
headers of requests and responses. One `io_context` runs on one thread; every
session is a coroutine, so the code of two coroutines interleaves only where one
of them is suspended in a `co_await`. That is the grain of all the modules here:
**a step is what a coroutine does between two suspension points**, and the peers,
the kernel and whoever kills the process take steps of their own in between.

Paths in this text are relative to the repository (`src/` is its root directory,
so the library is in `src/src/proxypp`).

## 1. The system

| component | state | operations | interacts with |
|---|---|---|---|
| session, exchanges (`http/http_proxy_session.cpp`) | two sockets, two read buffers, `remote_state_`, `closed_` | `Run`, `HandleOneExchange`, `EnsureRemoteConnected`, header reads and writes, `ShouldKeepAlive`, `Close` | awaits client and server; calls framing, forwarding, rules |
| session, body forwarding (same file) | read buffer, counters, `ChunkedState` | `ForwardExactly`, `ForwardChunked`, `ForwardUntilEof`, `ReadSomeFromPeer`, `WriteToPeer` | called once per body; leaves the rest of the buffer to the next message |
| session, CONNECT tunnel (same file) | the same sockets and buffers, shared by two coroutines | `RelayTunnelBidirectional`, `ForwardViaTunnel`, `Close` | two coroutines that end each other through `Close` |
| message helpers (`http/http_message_utils.cpp`) | none | `FindCrlf`, `TrimTrailingOws`, `ParseChunkSizeLine` | `ForwardChunked` |
| body framing (`http/body_info.cpp`) | none | `DetermineBodyInfo` for requests and responses | decides which forwarding loop runs |
| rule engine and HTTP rules (`rule/`) | the header being changed, position in rules and actions | `ApplyRules`, `EvaluateMatch`, `ExecuteActions` | the session, before each header is sent on |
| header adapters (`http/adapter/`) | a Beast header | set, add, replace, remove, list | rule actions and the `ctx` object |
| TCP server (`core/tcp_server.cpp`) | acceptor, `next_session_id_` | `Start`, `StartAccept` | spawns a detached session per client |
| application (`app/main.cpp`) | ready file and its temporary file | command line, log and rule loading, `WriteReadyFile` | starts the server; a parent process reads the ready file |
| rule file (`rule/rule_file.cpp`, `rule/http/model.h`, `helper/`) | none | read, validate against the schema, convert | the application, once |
| QuickJS binding (`script/qjs/`) | one runtime for all sessions; contexts; values that own one reference each | `Context`, `Value`, `ObjectBuilder`, `Evaluator` | rule engine, one context per match |
| logging, error codes | none of the program's own | output | everything |

What is hard to get right or to test:

* **Reads cut the stream anywhere.** A CRLF, a size line or a body end may be split
  between two reads, and one read may bring the end of a body and the next message.
* **Buffers outlive an exchange**, and outlive the connection they were filled from.
* **Connections are reused on local knowledge**: the server may have closed meanwhile.
* **Two coroutines share a tunnel's sockets.** One closes them while the other has an
  operation pending, or completed and not yet resumed.
* **End of file is not an error** in `ReadSomeFromPeer`; each loop must deal with it.
* **Arithmetic at the limit of `size_t`**: parsing a chunk size, and `chunk_size + 2`.
* **Rules fail half way** and the half-changed message is forwarded.
* **The rule file is described twice**, by a schema and by conversions that take more
  than the schema does and fill in defaults.
* **Script values are counted by hand**: QuickJS calls consume some arguments, also when
  they fail, and a `Value` must go before its context, which is moved about.
* **Builders report no errors** until `Build`, and exceptions are pending per runtime, which
  all sessions share.
* **A client may hold its body back** and wait for the server, while the proxy waits for
  the body before it reads from the server.
* **Descriptors run out**, and the accept loop retries at once.
* **The process may be killed** between creating, filling and renaming the ready file.

`PROJECT.json` lists these hazards one by one at their lines, with the properties
that cover them.

## 2. Modules

| module | models | abstract or reference definition |
|---|---|---|
| `Bytes` | the bytes a stream can carry | |
| `ChunkSizeLine` | the three message helpers, with a `size_t` of maximum `SizeMax` | `SizeLineGrammar`: the grammar of a size line and the value of its digits |
| `BodyForward` | the forwarding loops, byte by byte | `BodyEnd`: where the body ends in the whole stream |
| `BodyInfo` | `DetermineBodyInfo` | `ServerBody` in `HttpProxySession`: what HTTP puts behind a header |
| `DuplexPipe` | abstract: two streams, each delivered in order until one close | |
| `TunnelRelay` | the CONNECT tunnel | implements `DuplexPipe` |
| `OrderedExchanges` | abstract: one exchange after another, each with the host its request names | |
| `HttpProxySession` | a client connection with its exchanges, client and servers | implements `OrderedExchanges` |
| `Subsequences` | the elements of a sequence at chosen places, used by `RuleEngine` | |
| `RuleFile` | the schema of a rule file and the conversions to rules | each other |
| `RuleEngine` | loading the rules; rules on the two headers of an exchange | the document: `DocumentHonoured` |
| `QjsHeap` | external: the part of QuickJS the binding relies on | |
| `QjsValue` | every method of `Value`, as the set of its outcomes | |
| `ValueClient` | any code over `Context` and `Value` | reference counts recomputed from their holders |
| `MatchScope` | one match after another: context, `ctx` object, evaluation | the empty runtime |
| `ProxyServer` | process, ready file, accept loop | |
| `BodyForwardProofs`, `TunnelRelayProofs`, `HttpProxySessionProofs`, `RuleEngineProofs`, `ProxyServerProofs`, `ValueClientProofs`, `MatchScopeProofs` | theorems about the module each is named after | |
| `SequenceLemmas` | facts about sequences the proofs share | |

Each component has an `MC...` module with its small instances. The session works on *units* (a
header, a piece of a body, the last chunk). Below the unit, `BodyForward` shows what
the session model takes for granted: that a body is forwarded to its exact end and
what lies behind it stays in the buffer. Likewise `HttpProxySession` goes through a
tunnel with a few coarse steps, and `TunnelRelay` shows what happens inside.

### BodyForward

`stream` is everything the peer sends; `source` is the unread part, `buffer` the
session's read buffer, `target` what the receiver was sent. `pc` is the place in the
loop, a `ChunkedState` for chunked bodies. `ReadData`, `ReadEof` and `ReadFails` are
the outcomes of `ReadSomeFromPeer`; `WriteFails` sends any part of the bytes before it
fails. `ExactWrite`, `Drain`, `UntilEofWrite` and the states `FindChunkSizeLine`,
`ParseSizeLine`, `ForwardChunkSizeLine`, `ForwardChunkDataWithCrlf`,
`ForwardTrailers` are the loops' bodies. A successful `WriteToPeer` is one step,
because nobody else looks at the receiver's side between its parts; until it is taken, the
loop waits for the receiver to accept the bytes (`AwaitsReceiver`).

### TunnelRelay

A socket operation has three moments: pending, completed with its handler queued, and
resumed. `Kernel(d)` completes operations of a direction, `Resume(d)` runs its
coroutine. `Close` may fall at any of them: a pending operation is aborted, a queued
result still delivered. A write may send its bytes in parts.

### HttpProxySession

`pc` names the operation of `HandleOneExchange` that is suspended; `"resolving"` and
`"connecting"` are the two in `EnsureRemoteConnected`, and `async_connect` has the socket open
before it is connected. `conn` is the
current connection as its server sees it: what it was asked, what it put on the wire,
whether it is up. `served` and `client_got` are histories of what arrived on both
sides. Init picks one of the `Cases`: a client's script, the responses its servers may
give, and what they do beyond answering: `"close"` (an idle or busy server closes),
`"interim"` (a 1xx before the answer), `"notice"` (a response nobody asked for, such as
408 before closing). Servers without the last two are `Orderly`. A client with `expect`
sends its header alone; `withheld` is the body, which `ClientSendsBody` sends at any time
or never. A header that announces more than the parser's limit is refused; the
limits are Beast's defaults, counted in pieces here. `"spinning"` is a loop that takes
EOF for an empty read (section 4); a read that fails with another error ends the exchange.
`RulesThrow` is the exception of a rule's action, which ends the session. `AwaitsServer` and
`AwaitsClient` say that a write waits for a peer that is there.

`OrderedExchanges` has a request index, a host and the state of the exchange. The
refinement mapping computes them from the two histories only, so it speaks of what the
client and the servers can observe: `asked` while a request has reached a server and no
final response the client, `answering` until the body is delivered, then `idle` if both
sides keep the connection. The abstract `Begin` needs `idle`. The promise is made for
orderly servers; `ConnectionMatches`, `RequestsRouted` and `LeftClientEnds` are checked
with all. `KeepAliveHonoured` has two parts: what a request says of its connection is
honoured with all servers, what a response says with orderly ones, because a server that
sends an interim response first has its final response taken for the next one.

### RuleEngine

`RuleFile` has a JSON value as a tree: a type and a text, a number, a flag, items or
members. `Valid...` follow the schema object by object, `Converts...` and `As...` the
`jsoncons` traits: which members must be there, which texts an enumeration takes, which
alternative of `ActionData` an operation gets. In `RuleEngine`, `ReadRuleFile`,
`ValidateRuleFile` and `ConvertRuleFile` are the steps of `LoadRulesFromFile`. The file may
be changed by anyone and a failing read is not noticed, so the text read is any document.

Header fields are a sequence of name and value; `Lower` gives the lower-case form of a
spelling. Matching is external: `Meaning` says of an expression's text what header of the
`ctx` object it compares, or that it yields a text, which is an error to the engine. After
loading, `pc` goes through building the request header, the request phase, waiting for the
server, and the response phase. A failing context, expression or action ends the phase. A name
or value in `TooLong` is one that Beast's `set()` throws on (`ActionThrows`): nothing up to the
session's coroutine catches the exception, and the message is not forwarded.

### QjsHeap, QjsValue, ValueClient, MatchScope

`QjsHeap` counts references to objects, arrays and strings, sweeps what drops to zero, and
keeps one pending exception per runtime. A method of `Value` is an operator that yields the
set of its outcomes, each a heap and a value or an error: any QuickJS call may throw, and
so may fetching the message of what it threw. `ValueClient` calls them in any order on any
objects, moved-from ones too; its one obligation is that a context outlives the values that
borrow it. `MatchScope` is the caller that exists: the calls of `context_injector.cpp` in
sequence, with local values in frames that are popped, function by function, when one
fails. The width of an array index is `IndexBits`, 32 in the code.

### ProxyServer

`pc` goes through `main`; `Killed` is possible at any step and keeps the two files.
`backlog` are clients the kernel has connected and the accept loop has not taken. Each
session holds a descriptor for its client and one while it is connected to a server; with
none left, an accept fails and its client stays in the backlog.

## 3. Runs

| run | instance | shows |
|---|---|---|
| `body_forward` | every framing; nine chunked streams; every prefix of each; ending in EOF, reset or silence; every split into reads of 1 to 3 bytes; any failure | `StreamPreserved`, `TrueMeansWholeBody`, `NeverPastBody`, `FalseOnlyForCause`; `EndsOrStarves` |
| `chunk_size_line` | all lines up to five bytes over eight symbols, `size_t` of eight bits | the parser agrees with the grammar; a line end is found the same way however the stream is cut |
| `tunnel` | up to two bytes per direction, all endings, one peer that may accept no bytes | streams preserved, EOF loses nothing, both coroutines end, directions do not block each other; `DuplexPipe` is implemented, in which nothing is delivered after the close |
| `session` | eleven scripts of up to three requests to two servers, held-back and oversized bodies among them; six responses of all framings; servers that close; three scripts with servers that also send interim responses and notices | `OrderedExchanges` is implemented; responses whole; requests routed; `remote_state_` truthful; keep-alive honoured; requests answered or the session ended; a client that left is not waited for; the two ways to neither are named in the properties |
| `rules` | 1922 files: up to three rules that follow the schema, texts too long for a field among them, and 238 variations, most of which depart from it; two headers each way | what the schema accepts converts and can be executed (`SchemaSuffices`), phases treat the rules as written (`DocumentHonoured`); framing headers untouched, other fields kept, actions in order, the message forwarded unless a matched rule has a text that is too long (`ForwardedOrTooLong`) |
| `server` | three starts, two ports, three clients, three descriptors, kills anywhere | ready file whole and true; clients accepted, also after a shortage of descriptors |
| `values` | two contexts, three heap objects, three values, any calls | every JSValue freed exactly once, contexts kept apart and owned once, array lengths exact |
| `match_scope` | matches in both phases, any call of any match failing | an expression sees the whole `ctx` or does not run; the shared runtime is empty between matches; the first error is the one reported |
| `chunk_size_blank`, `session_interim`, `session_notice`, `rules_independent` | | the disagreements of section 4 |

**Bounds.** A body of two chunks, or one with a trailer, already enters every
`ChunkedState` from every state that can precede it, and reads of up to three bytes
against lines of two to five split each line at every place. Eight bits of `size_t`
take two digits to fill and three to overflow, so the overflow tests are met inside
five bytes. Three requests give: connect, switch to a second server, switch back; two give
reuse. Two bytes per tunnel direction are enough for one to be buffered
and one under way when the other direction closes. Three starts give a killed process, one that
finds its files, and one after the file was removed. Three clients and three descriptors
give a session with both sockets, one with its client only, and a client that waits; the
shortage ends when either lets go. Two contexts are what a mismatch needs, and three
objects an exception beside two values of which one holds the other. The rule files that
depart from the schema leave a member out, give it another type or a
value the schema excludes, or add one, at every level. `Descriptors` and the body limits
are small stand-ins for the system's and Beast's values. `MaxStarts`, `MaxClients`,
`MaxEarly`, `MaxLine` and `MaxRead` are bounds of the model only, except that
`MaxRead` is 64 KiB in the code.

**Fairness.** Weak fairness says that the `io_context` resumes a coroutine whose
operation can complete, which its run loop does, and that is not asked of a write to a
receiver that may accept nothing; that a server which is up answers
(`HttpProxySession`, `RuleEngine`); that a read from a peer that reset the connection
completes; and that an accept succeeds when a client and a descriptor for it stay
available (`ProxyServer`; `ClientsTaken` has the shortage that recurs for ever as its
exception). Nothing makes a client send the body it holds back: `OrderlyAnsweredOrEnded`
starts when the request has been sent to its end. Apart from the server's answers nothing
makes a peer send, accept bytes or close: the code has no timeouts, and the liveness properties
name each wait without limit instead of assuming it away. `EndsOrStarves` has a sender that
sends no more (`Starved`) and a receiver that accepts no more (`AwaitsReceiver`);
`OrderlyAnsweredOrEnded` and `LeftClientEnds` have a peer that is there and accepts no more
(`AwaitsServer`, `AwaitsClient`): a session that is held in a write does not see that the
client has left. Of a tunnel only the session's view is so coarse; `TunnelRelay` lets
either peer accept nothing and shows what the other direction still does (`Unblocked`).

**Deadlock** is not checked where the system may stop: an ended session, tunnel or
exchange, a process that is not started again. In `body_forward` it is checked:
a forwarding that has not returned always has a step, since a pending read or write may
fail at any time, and one that has returned only takes `Returned`.

## 4. Where the code and its documentation disagree

1. **Blank chunk size** (`chunk_size_blank`). `ParseChunkSizeLine` tests for an empty
   size before it trims, so a line of blanks is size 0, the last chunk. Its header
   file promises `nullopt` for a malformed line.
2. **Interim responses** (`session_interim`). One header is read per request. A 1xx
   response completes the exchange and the final response is never read for that request.
3. **Buffer of a connection that was left** (`session_notice`). When the session
   switches servers, `remote_read_buffer_` keeps unread bytes of the old one, and they
   are parsed as the new server's response. In `session`, where servers send only what was
   asked for, the buffer is always empty at that point, so the property holds.
4. **Independent rules** (`rules_independent`). The schema says that each enabled rule
   is evaluated independently; `ApplyRules` stops at the first that fails.

Also visible in the models, with nothing in the repository that says otherwise:
`ForwardExactly` and two states of `ForwardChunked` keep reading at EOF, so a body cut
short by its sender keeps the session in that loop (`Starved`, `"spinning"`). A receiver that
accepts nothing holds the coroutine in `WriteToPeer`, or in the write of a header, for as long
as it likes. The liveness properties state these exceptions explicitly. A rule whose action has
a name or a value longer than a Beast field passes the schema, and its exception ends the
session with the message held back. A header called `__proto__` becomes the prototype of the
`headers` object instead of one of its properties.

## 5. Proofs

The theorems hold for every value of the constants that satisfies the named assumptions:
all streams, scripts, documents and headers, all read sizes, every width of `size_t`. For
each module the proof finds a formula that holds at first, that every step keeps, and that
implies the properties; it has one lemma or one named step per action. TLC checked each
of these formulas on the instance of the module's run before it was proved.

### BodyForwardProofs

| theorem | states |
|---|---|
| `Inductive` | `Spec => []IInv` |
| `TypeCorrect` | `TypeOK`; `chunk_bytes_remaining` stays in the range of `size_t` |
| `BytesPreserved` | `StreamPreserved` |
| `WholeBodies` | `TrueMeansWholeBody`, for every framing |
| `NothingPastTheBody` | `NeverPastBody`, for every framing |
| `RefusedForCause` | `FalseOnlyForCause`; for a chunked body if `Len(stream) <= SizeMax` |
| `ParsesTheGrammar` | `ParseAgreesWithGrammar`, for lines of every length |
| `LineEndsStay` | `FindCrlfStable` |

Assumed: `SizeMaxAssumption`, `InputsAssumption`, `MaxReadAssumption`, `AlphabetAssumption`
(a width of at least four bits, inputs that are finite byte sequences, reads of at least one
byte, lines made of bytes).

`StreamPreserved` is not inductive alone: a step that writes `n` bytes keeps it only if
`n` bytes are in the buffer, and that depends on what the loop learnt before it was
suspended. `LoopInv` records this: a size line being parsed lies in the buffer with
its CRLF; `bytes_sent` is the number of bytes the receiver has; `ForwardUntilEof`
reads into an empty buffer and writes all it read; each place belongs to one framing.
`IInv == TypeOK /\ StreamPreserved /\ LoopInv`.

For chunked bodies `ChunkedInv` relates each `ChunkedState` to the reference definition,
which reads the whole stream at once: the body's end is where the reference comes out when
it is started at the number of bytes already sent (a size line is next), at that number
plus the bytes of the chunk that remain, or, after the last chunk, at the next trailer
line. The loop's knowledge is local, a buffer that may end inside a line, so the proof
needs that the first CRLF of the buffer is the first one of the stream behind the bytes
sent (`LineOfStream`), that the parsed size always fits a `size_t`
(`ParsedSizeFits`) and that the reference, a recursive function over positions, exists and
comes out behind the place it started (`GoesOnExists`, `GoesOnBounds`). The hypothesis of
`RefusedForCause` is what the code needs: it refuses chunks of `SizeMax - 1` bytes or more,
which a stream whose length a `size_t` holds cannot contain whole.

The last two theorems are about the helpers alone, over `LineSpec` of `SizeLineGrammar`, a
line to which one byte is added at a time. The reference weighs each digit with its place
value, the code adds one digit after another and gives up before it would overflow.
`DigitLoopSums` relates them: after some digits the loop has what these
contribute divided by the place value of the last one, or has given up, and then the sum is
already beyond `SizeMax` at this place, so that no later digit can bring it back.
`SizeOfWellFormed` and `ParseOfMalformed` show that cutting at the semicolon and trimming
finds the digits the grammar means. The place values are a recursive function, because the
provers have no laws for powers.

### TunnelRelayProofs

`TypeCorrect`, `BytesPreserved` (`StreamsPreserved`), `EofIsWhole` (`EofLosesNothing`) and
`RelayImplementsPipe`, the refinement of `DuplexPipe`, from `Inductive`. Assumed: streams are
byte sequences, `MaxEarly` is a natural number. `IInv` adds to the types and the streams
that both sockets are closed by the same step (`ClosedTogether`) and what each place of
`ForwardViaTunnel` implies about the buffer, the part of it that was written and the error
code (`BuffersMatchPc`); a result that is queued when the other direction closes keeps what
it meant. Every step delivers, shuts both directions or leaves the pipe's state alone.

### HttpProxySessionProofs

| theorem | states |
|---|---|
| `TypeCorrect`, `StateIsTruthful` | `TypeOK`, `ConnectionMatches` |
| `RequestsReachTheirServer` | `RequestsRouted` |
| `KeepAliveIsHonoured` | `KeepAliveHonoured` |
| `ResponsesAreWhole` | `ResponsesWhole` |
| `BufferIsCurrent` | `OrderlyBufferIsCurrent` |
| `SessionImplementsExchanges` | `ImplementsOrderedExchanges` |

Assumed: `HostsAssumption`, `LimitsAssumption`, `ScriptsAssumption`, `ServersAssumption`:
scripts are finite sequences of requests in which only the last may be CONNECT, and a
server's responses are well-formed. The argument has four layers.

* `TypeInv`: the form of the units on the wires and in the buffers, and what
  `remote_state_` says of the connection at every place.
* `RoutedInv /\ StreamInv`: what the client has sent and the session has not taken is the
  rest of the current request's body, then the later requests, then nothing or a message
  cut off where the client left (`done`, `rest`, `later`, `cut`). Only with this is the
  next header the session parses the header of the next request, whatever
  lies in `client_read_buffer_`, and only with it is a body forwarded to its own end.
* `OrderlyInv`: `NotAhead` (nothing that belongs to a later request was asked, is on its
  way or delivered), `AnswerInv` (with orderly servers: between exchanges nothing is
  asked or on its way; while the session waits, at most the answer or its beginning; then
  the answer in three parts, delivered, underway and never sent), `GotInv` (what the client
  has of the current response), `EndsInv` (an ended connection is not used for a later
  request) and `WholeInv` (earlier responses are whole).
* `AskedInv /\ HeadsInv`, for the refinement: while the session waits, its request reached
  the server or nothing will come back; the client has as many final responses as there are
  exchanges answered; and a request is read only when the response before it is whole and
  both sides keep the connection (`Settled`).

In the refinement a request header that reaches its server is `Ask`, a response header or
the confirmation of a CONNECT sent to the client `Answer` or `Connect`, the unit that makes
a response whole `Deliver`. The rest of a body is a stutter: by `WholeInv` of the next state a
response that has a unit to come was not whole (`NotYetWhole`). A step that changes neither what
the servers got nor what the client got is a stutter or `End`.

`ResponsesWhole` needs all of it: a response is delivered whole only if the session reads
exactly what belongs to it, for which nothing of an earlier one may be left over.

### RuleEngineProofs

| theorem | states |
|---|---|
| `Inductive`, `TypeCorrect` | `IInv`, `TypeOK` |
| `ProtectedStays`, `UntargetedStays` | `ProtectedUntouched`, `UntargetedKept` |
| `SchemaIsEnough` | `SchemaSuffices`, for every document |
| `InOrder`, `DocumentIsHonoured` | `ExecutedInOrder`, `DocumentHonoured` |

Assumed: `JsonAssumption` (a JSON value has one of the types, members and items are JSON
values), `DocumentsAssumption`, `HeadersAssumption`, `TooLongAssumption` (any set of texts),
`ContextMayFailAssumption`.
`IInv == TypeOK /\ DocumentInv /\ HeadersInv /\ LoopInv`: the rules are those of a document
the schema accepts; each header has its protected fields, and those no executed action
names, as it was received; and the cursor of the two loops separates what was
executed from what is due. The last part is what an order needs: that actions are executed in
sequence follows from all that are due before the cursor being done and none behind it.
Fields kept and fields dropped are compared as `Subsequences`.

### ProxyServerProofs

`TypeCorrect` and `ReadyFileIsWhole` (`ReadyFileWhole`) from `Inductive`. `IInv` says which
of the two files may exist with which content at each place of `main`
(`ReadyFileMatchesPc`), also for files a killed process left, and that the process listens
where it says it does (`ListeningMatchesPc`). Of a file that a killed process left,
`ReadyFileIsWhole` says only that it is whole: the server it names is dead.

### ValueClientProofs

| theorem | states |
|---|---|
| `Inductive`, `TypeCorrect` | `IInv`, `TypeOK` |
| `Refcounts` | `RefsBalanced` |
| `GraphsApart`, `OneOwner` | `ContextsApart`, `ContextsOwned` |
| `LengthReported` | `LengthExact`, for every width of an index |

Assumed: `HeapAssumption`, `KeysAssumption`, `ClientAssumption` (finitely many objects,
contexts, keys and C++ variables; the markers are no objects; indices fit their width;
`__proto__`, which QuickJS does not store as a property, is no key).

The proof follows the code's own discipline, that every function accounts for the
references it is given. `Good(h, n)` says that heap `h` is in order with `n[o]` references
to each object `o` from outside it; each primitive of `QjsHeap` turns `Good(h, n)` into
`Good` with one reference more or less (`DupGood`, `FreeGood`, `NewGood`, `SetKeyGood`,
`SweepGood`, ...), each method of `QjsValue` into `Good` with the reference of the Value it
returns (`Outcome`), on its error paths too, and each action puts that Value into a
slot. In `IInv` the outside references are the slots. It also has what the counts depend
on: no call changes the kind or the home of an object in use (`Kept`), a global object is of
its own context, no two Context objects hold the same JSContext, and the context of
a Value that refers to something is held. The last two are what freeing a context needs.

### MatchScopeProofs

| theorem | states |
|---|---|
| `Inductive`, `TypeCorrect` | `Inv`, `TypeOK` |
| `TheFirstError` | `FirstErrorReported` |
| `RuntimeClean` | `CleanBetweenMatches` |
| `WholeContextSeen` | `SeesWholeContext`, for all header names but `__proto__` |

Assumed: `HeapAssumption`, `KeysAssumption`, `MatchAssumption` (header names and the
members the code spells out are keys; an int is not an object).

`ValueClientProofs` shows that the binding keeps the counts right whatever its client does,
and that is not enough here: that the runtime is empty after a match also needs that
counting alone frees everything, so that the match builds no cycle. The invariant is
therefore a stronger picture of the heap, a `Forest`: every object has at most one owner,
which is a C++ variable, a property of another object, or the context whose global object it
is; what somebody owns has one reference, what nobody owns is blank. A call that stores a
Value moves it from a variable to a property of an object that a variable or a context
owns, hence of a root, so there never is a cycle (`NothingLeft`: a forest without roots in
which nothing waits to be freed is the empty heap).

The C++ code of a match is straight-line but for its early returns, and the proof treats it
as typed. `Step` says what each call asks of the variables and what it leaves: which hold a
Value, of which kind, with which members of `ctx` already defined, and which builder is
open. `CodeTyped` shows for every list of header names that the calls of a match fit
together, `PathOf` is what is known before each call, and `Agree` says that the running
match is where its path says. A call of the binding then either goes on along the path or
stops the match with the error it met (`CallOutcome`); because a builder that has failed
ignores what follows, the error kept is the first one. What the variables promise (`Holds`)
is kept by calls that work on other objects and by the freeing of other trees (`HoldsKept`,
`JoinedHolds`).
`Inv == Bounds /\ Sound /\ FirstErrorReported /\ Between /\ Injected /\ Ending`.

### Sequences

The provers find little by themselves about concatenations of three or more parts.
`SequenceLemmas` therefore names the two operations (`Cat`, `Prepend`), proves their laws
once, and the proofs cite these. It also has the two induction principles the proofs use,
over the naturals and over sequences, stated for sets instead of operators
(`NatInductionOnSet`, `SeqInductionOnSet`).

### Only model-checked

* Everything that needs fairness: `EndsOrStarves`, `EndTogether`, `Unblocked`,
  `OrderlyAnsweredOrEnded`, `LeftClientEnds`, `ForwardedOrTooLong`, `ClientsTaken`. Fairness is
  about `ENABLED`, which is out of the prover's reach.

## 6. Not modelled

* Logging beyond its place in the start-up, and error codes: output and names. The loggers'
  sinks rotate the same file independently; that is inside spdlog.
* JSON parsing and the evaluation of a schema, command-line syntax, URL syntax: library
  calls or text. What the schema says is modelled; a request target is accepted or refused.
* The text of match expressions. One that does not end would stop the only thread;
  nothing in the code bounds it, and the models take expressions to end.
* QuickJS itself and its garbage collection of cycles: a match builds none before its
  expression runs, and its context is freed after it.
* Beast's limit on the size of a header that is read: like any other refused header.
* The bytes of a field's value. A rule may set any text, also one with a line end in it, which
  adds a line on the wire; the models compare fields, not lines.
* Memory that runs out in a C++ string or container. `GetExceptionMessage` copies the text into
  a `std::string` before it frees the exception, so an exception there leaks it; the failures
  in `QjsValue` are those of QuickJS calls and of `new(std::nothrow)`.
* Prototypes of script objects, and with them properties called `__proto__`.
* Timeouts: there are none in the code.

## 7. Plan

Done: all modules of section 2; the proofs of section 5. Every invariant and action property
of the runs that needs no fairness has a theorem.
