----------------------------- MODULE RuleEngine -----------------------------
(***************************************************************************)
(* The rules from the file to the headers of an exchange.  The program     *)
(* starts with LoadRulesFromFile.  In an exchange, the proxy builds a      *)
(* request header from the client's one, RuleEngine::ApplyRules works on   *)
(* it before it is forwarded, and again on the response header.  The match *)
(* expressions run in QuickJS, which is external: an expression reads the  *)
(* ctx object and yields TRUE, FALSE, something else or an exception.      *)
(*                                                                         *)
(* A header is a sequence of fields.  Field names are compared without     *)
(* regard to case; Lower gives a spelling's lower-case form.               *)
(***************************************************************************)
EXTENDS RuleFile, Subsequences

CONSTANTS
  Documents,        \* JSON values a rule file may hold
  RequestHeaders,   \* headers a client may send
  ResponseHeaders,  \* headers a server may answer with
  TooLong,          \* names and values beyond the size of a Beast field
  ContextMayFail    \* whether QuickJS may fail to make a context

Fields == Seq([name : Spelling, value : STRING])
Phases == {"Request", "Response"}

ASSUME DocumentsAssumption == Documents \subseteq Json
ASSUME HeadersAssumption == RequestHeaders \cup ResponseHeaders \subseteq Fields
ASSUME TooLongAssumption == TooLong \subseteq STRING
ASSUME ContextMayFailAssumption == ContextMayFail \in BOOLEAN

VARIABLES
  text,             \* the document read from the rule file
  rules,            \* http_config.rules
  client_header,    \* the header as the client sent it
  request_header,   \* remote_request_header
  forwarded,        \* history: the request header the server was sent
  received,         \* history: the response header the server sent
  response_header,  \* remote_response_header
  pc,               \* the next step
  rule,             \* index in rules
  action,           \* index in its actions; 0 before its match is known
  matched,          \* history: per phase, the rules whose match was TRUE
  evaluated,        \* history: per phase, the rules that had their turn
  executed,         \* history: per phase, <<rule, action>> in order
  outcome           \* per phase: "none", "ok" or "error"

history == <<matched, evaluated, executed>>
vars == <<text, rules, client_header, request_header, forwarded, received,
          response_header, pc, rule, action, history, outcome>>

Init ==
  /\ text = NoJson /\ rules = << >> /\ client_header \in RequestHeaders
  /\ request_header = << >> /\ forwarded = << >>
  /\ received = << >> /\ response_header = << >>
  /\ pc = "read" /\ rule = 1 /\ action = 0
  /\ matched = [p \in Phases |-> {}] /\ evaluated = [p \in Phases |-> {}]
  /\ executed = [p \in Phases |-> << >>]
  /\ outcome = [p \in Phases |-> "none"]

-----------------------------------------------------------------------------
(***************************************************************************)
(* The fields of a header (Beast's basic_fields) and the adapters on them. *)
(***************************************************************************)
Names == {Lower[n] : n \in Spelling}

\* The fields of h whose lower-case names are in S, in their order.
Keep(h, S) == Subsequence(h, {k \in DOMAIN h : Lower[h[k].name] \in S})

Named(h, n) == Keep(h, {Lower[n]})
Others(h, n) == Keep(h, Names \ {Lower[n]})

SetHeader(h, n, v) == Append(Others(h, n), [name |-> n, value |-> v])

AddHeader(h, n, v) == IF Named(h, n) # << >> THEN h ELSE SetHeader(h, n, v)

ReplaceHeader(h, n, v) == IF Named(h, n) # << >> THEN SetHeader(h, n, v) ELSE h

RemoveHeader(h, n) == Others(h, n)

\* Headers of the ctx object: of several equal names the last one stays.
HeaderObject(h) ==
  [n \in {Lower[h[k].name] : k \in DOMAIN h} |->
     LET named == Keep(h, {n}) IN named[Len(named)].value]

(***************************************************************************)
(* EvaluateMatch on the ctx object of a phase.  An expression compares a   *)
(* header of the request or of the response; there is no response in the   *)
(* request phase, and reading its headers throws.                          *)
(***************************************************************************)
Ctx(p) ==
  IF p = "Request" THEN [request |-> HeaderObject(request_header)]
  ELSE [request |-> HeaderObject(request_header),
        response |-> HeaderObject(response_header)]

Evaluate(match, ctx) ==
  LET m == Meaning[match.expr]
  IN  IF m.kind = "text" THEN "not boolean"
      ELSE IF m.of \notin DOMAIN ctx THEN "exception"
      ELSE IF m.name \notin DOMAIN ctx[m.of] THEN "false"
      ELSE IF ctx[m.of][m.name] = m.value THEN "true" ELSE "false"

(***************************************************************************)
(* ExecuteRequestAction and ExecuteResponseAction.                         *)
(***************************************************************************)
kUnsupportedHeaders ==
  {"content-length", "transfer-encoding", "te", "trailer", "connection",
   "keep-alive", "proxy-connection", "upgrade", "host",
   "proxy-authorization", "proxy-authenticate", "content-encoding",
   "content-range", "range", "if-range", "accept-ranges", "expect",
   "authorization", "www-authenticate", "authentication-info",
   "proxy-authentication-info", "via", "x-forwarded-for",
   "x-forwarded-host", "x-forwarded-proto", "x-real-ip"}

UnsupportedAsSpelled(n) ==   \* mutant: to_lower_copy() forgotten
  n \in kUnsupportedHeaders

Unsupported(n) == Lower[n] \in kUnsupportedHeaders

\* The operation and the alternative of its data belong together.
Fits(a) ==
  DOMAIN a.data = IF a.op = "Remove" THEN {"name"} ELSE {"name", "value"}

Effect(a, h) ==
  CASE a.op = "Add" -> AddHeader(h, a.data.name, a.data.value)
    [] a.op = "Set" -> SetHeader(h, a.data.name, a.data.value)
    [] a.op = "Replace" -> ReplaceHeader(h, a.data.name, a.data.value)
    [] a.op = "Remove" -> RemoveHeader(h, a.data.name)

\* Beast's set() throws when the name or the value is too long for a field.
SetIsCalled(a, h) ==
  \/ a.op = "Set"
  \/ a.op = "Add" /\ Named(h, a.data.name) = << >>
  \/ a.op = "Replace" /\ Named(h, a.data.name) # << >>
HasTooLong(a) ==
  a.op # "Remove" /\ (a.data.name \in TooLong \/ a.data.value \in TooLong)
Throws(a, h) == SetIsCalled(a, h) /\ HasTooLong(a)

-----------------------------------------------------------------------------
(***************************************************************************)
(* LoadRulesFromFile.  Someone may be writing the file, and a read that    *)
(* fails after the file was opened is not noticed: the text may be any     *)
(* document, and one cut short is no JSON.  The program ends when the      *)
(* rules cannot be loaded.                                                 *)
(***************************************************************************)
exchange == <<client_header, request_header, forwarded, received,
              response_header, rule, action, history, outcome>>

ReadRuleFile ==
  /\ pc = "read"
  /\ \/ text' \in Documents \cup {NoJson} /\ pc' = "validate"
     \/ pc' = "refused" /\ UNCHANGED text     \* it cannot be opened
  /\ UNCHANGED <<rules, exchange>>

ValidateRuleFile ==
  /\ pc = "validate"
  /\ pc' = IF text # NoJson /\ Valid(text) THEN "convert" ELSE "refused"
  /\ UNCHANGED <<text, rules, exchange>>

ConvertRuleFile ==
  /\ pc = "convert"
  /\ IF ConvertsConfig(text)
       THEN rules' = AsRules(text) /\ pc' = "build"
       ELSE pc' = "refused" /\ UNCHANGED rules
  /\ UNCHANGED <<text, exchange>>

-----------------------------------------------------------------------------
fields_to_erase ==
  {"proxy-connection", "proxy-authorization", "proxy-authenticate"}

\* mutant: fields copied with set() instead of insert()
BuildWithoutDuplicates ==
  /\ pc = "build"
  /\ request_header' =
       SelectSeq(client_header, LAMBDA f :
         /\ Lower[f.name] \notin fields_to_erase
         /\ f = Named(client_header, f.name)[Len(Named(client_header, f.name))])
  /\ pc' = "Request"
  /\ UNCHANGED <<text, rules, client_header, forwarded, received, response_header,
                 rule, action, history, outcome>>

BuildRemoteRequestHeader ==
  /\ pc = "build"
  /\ request_header' = Keep(client_header, Names \ fields_to_erase)
  /\ pc' = "Request"
  /\ UNCHANGED <<text, rules, client_header, forwarded, received, response_header,
                 rule, action, history, outcome>>

(***************************************************************************)
(* The end of ApplyRequest or ApplyResponse.  HandleOneExchange logs an    *)
(* error and goes on: the header is forwarded as far as it was changed.    *)
(***************************************************************************)
FinishOrClose(result) ==   \* mutant: the exchange ends when rules fail
  /\ outcome' = [outcome EXCEPT ![pc] = result]
  /\ rule' = 1 /\ action' = 0
  /\ forwarded' = IF pc = "Request" THEN request_header ELSE forwarded
  /\ pc' = IF result = "error" THEN "closed"
           ELSE IF pc = "Request" THEN "await" ELSE "done"

Finish(result) ==
  /\ outcome' = [outcome EXCEPT ![pc] = result]
  /\ rule' = 1 /\ action' = 0
  /\ IF pc = "Request"
       THEN pc' = "await" /\ forwarded' = request_header
       ELSE pc' = "done" /\ UNCHANGED forwarded

(***************************************************************************)
(* The rule loop of ApplyRules.                                            *)
(***************************************************************************)
Applying == pc \in Phases
AtRule == Applying /\ rule <= Len(rules) /\ action = 0
Wanted(k, p) == rules[k].enabled /\ rules[k].phase = p
Evaluated == evaluated' = [evaluated EXCEPT ![pc] = @ \cup {rule}]

SkipRule ==
  /\ AtRule /\ ~Wanted(rule, pc)
  /\ rule' = rule + 1
  /\ UNCHANGED <<text, rules, client_header, request_header, forwarded, received,
                 response_header, pc, action, history, outcome>>

Unconditional ==
  /\ AtRule /\ Wanted(rule, pc) /\ rules[rule].match = NoMatch
  /\ action' = 1
  /\ matched' = [matched EXCEPT ![pc] = @ \cup {rule}]
  /\ Evaluated
  /\ UNCHANGED <<text, rules, client_header, request_header, forwarded, received,
                 response_header, pc, rule, executed, outcome>>

\* CreateMatchContext or the injection of ctx fails.
ContextFails ==
  /\ AtRule /\ Wanted(rule, pc) /\ rules[rule].match # NoMatch
  /\ ContextMayFail
  /\ Evaluated /\ Finish("error")
  /\ UNCHANGED <<text, rules, client_header, request_header, received,
                 response_header, matched, executed>>

EvaluateMatch ==
  /\ AtRule /\ Wanted(rule, pc) /\ rules[rule].match # NoMatch
  /\ Evaluated
  /\ LET result == Evaluate(rules[rule].match, Ctx(pc))
     IN  \/ /\ result = "true"
            /\ matched' = [matched EXCEPT ![pc] = @ \cup {rule}]
            /\ action' = 1
            /\ UNCHANGED <<pc, rule, forwarded, outcome>>
         \/ /\ result = "false"
            /\ rule' = rule + 1
            /\ UNCHANGED <<pc, action, forwarded, outcome, matched>>
         \/ /\ result \in {"exception", "not boolean"}
            /\ Finish("error") /\ UNCHANGED matched
  /\ UNCHANGED <<text, rules, client_header, request_header, received,
                 response_header, executed>>

Acting == Applying /\ rule <= Len(rules) /\ action > 0

CurrentAction == rules[rule].actions[action]
Refused(a) == Unsupported(a.data.name) \/ ~Fits(a)
Executed ==
  /\ executed' = [executed EXCEPT ![pc] = Append(@, <<rule, action>>)]
  /\ action' = action + 1
  /\ UNCHANGED <<pc, rule, forwarded, outcome>>

ExecuteRequestAction ==
  /\ pc = "Request" /\ Acting /\ action <= Len(rules[rule].actions)
  /\ IF Refused(CurrentAction)
       THEN Finish("error") /\ UNCHANGED <<request_header, executed>>
       ELSE /\ ~Throws(CurrentAction, request_header)
            /\ Executed /\ request_header' = Effect(CurrentAction, request_header)
  /\ UNCHANGED <<text, rules, client_header, received, response_header,
                 matched, evaluated>>

ExecuteResponseAction ==
  /\ pc = "Response" /\ Acting /\ action <= Len(rules[rule].actions)
  /\ IF Refused(CurrentAction)
       THEN Finish("error") /\ UNCHANGED <<response_header, executed>>
       ELSE /\ ~Throws(CurrentAction, response_header)
            /\ Executed /\ response_header' = Effect(CurrentAction, response_header)
  /\ UNCHANGED <<text, rules, client_header, received, request_header,
                 matched, evaluated>>

(***************************************************************************)
(* The exception of set() in one of the two.  ApplyRules and               *)
(* HandleOneExchange do not catch it: the coroutine of the session ends,   *)
(* and the message is not forwarded.                                       *)
(***************************************************************************)
ActionThrows ==
  /\ Acting /\ action <= Len(rules[rule].actions)
  /\ ~Refused(CurrentAction)
  /\ Throws(CurrentAction,
            IF pc = "Request" THEN request_header ELSE response_header)
  /\ pc' = "thrown"
  /\ UNCHANGED <<text, rules, exchange>>

RuleDoneEarly ==   \* mutant: the action loop returns after its first action
  /\ Acting /\ action > 1
  /\ rule' = rule + 1 /\ action' = 0
  /\ UNCHANGED <<text, rules, client_header, request_header, forwarded, received,
                 response_header, pc, history, outcome>>

RuleDoneNoReset ==   \* mutant: the next rule starts where this one ended
  /\ Acting /\ action > Len(rules[rule].actions)
  /\ rule' = rule + 1
  /\ UNCHANGED <<text, rules, client_header, request_header, forwarded, received,
                 response_header, pc, action, history, outcome>>

RuleDone ==
  /\ Acting /\ action > Len(rules[rule].actions)
  /\ rule' = rule + 1 /\ action' = 0
  /\ UNCHANGED <<text, rules, client_header, request_header, forwarded, received,
                 response_header, pc, history, outcome>>

RulesDone ==
  /\ Applying /\ rule > Len(rules)
  /\ Finish("ok")
  /\ UNCHANGED <<text, rules, client_header, request_header, received,
                 response_header, history>>

\* The server's answer, after the request was forwarded.
ReadRemoteResponseHeader ==
  /\ pc = "await"
  /\ received' \in ResponseHeaders /\ response_header' = received'
  /\ pc' = "Response"
  /\ UNCHANGED <<text, rules, client_header, request_header, forwarded, rule,
                 action, history, outcome>>

Next == \/ ReadRuleFile \/ ValidateRuleFile \/ ConvertRuleFile
        \/ BuildRemoteRequestHeader
        \/ SkipRule \/ Unconditional \/ ContextFails \/ EvaluateMatch
        \/ ExecuteRequestAction \/ ExecuteResponseAction \/ ActionThrows
        \/ RuleDone \/ RulesDone \/ ReadRemoteResponseHeader

\* A server that answers; the rest runs without a suspension point.
Spec == Init /\ [][Next]_vars /\ WF_vars(Next)

-----------------------------------------------------------------------------
(***************************************************************************)
(* Types of the rule engine's state.                                       *)
(***************************************************************************)
TypeOK ==
  /\ request_header \in Fields /\ response_header \in Fields
  /\ forwarded \in Fields /\ received \in Fields
  /\ pc \in Phases \cup {"read", "validate", "convert", "refused", "build",
                           "await", "done", "thrown"}
  /\ rule \in 1 .. Len(rules) + 1 /\ action \in Nat
  /\ (rule <= Len(rules) => action <= Len(rules[rule].actions) + 1)
  /\ outcome \in [Phases -> {"none", "ok", "error"}]

(***************************************************************************)
(* Rules cannot change how a message is framed or routed: the fields of    *)
(* kUnsupportedHeaders are forwarded as received, in any spelling, also    *)
(* when ApplyRules fails half way.  ForwardRequestBody and                 *)
(* ForwardResponseBody, which frame the bodies by the headers received,    *)
(* so agree with the headers forwarded.                                    *)
(***************************************************************************)
Built == pc \in Phases \cup {"await", "done", "thrown"}
Protected(h) == Keep(h, kUnsupportedHeaders \ fields_to_erase)
ProtectedUntouched ==
  /\ Built => Protected(request_header) = Protected(client_header)
  /\ Protected(response_header) = Protected(received)

(***************************************************************************)
(* A field that no executed action names is forwarded as it came, repeated *)
(* fields included and in their order.                                     *)
(***************************************************************************)
Targeted(p) ==
  {Lower[rules[executed[p][k][1]].actions[executed[p][k][2]].data.name] :
     k \in DOMAIN executed[p]}
Untargeted(h, p) == Keep(h, Names \ (Targeted(p) \cup fields_to_erase))
UntargetedKept ==
  /\ Built => Untargeted(request_header, "Request")
                       = Untargeted(client_header, "Request")
  /\ Untargeted(response_header, "Response") = Untargeted(received, "Response")

(***************************************************************************)
(* A phase that succeeds has executed the actions of the rules that        *)
(* matched, all of them and no others, in declaration order; one that      *)
(* fails has executed a first part of them.                                *)
(***************************************************************************)
Before(x, y) == x[1] < y[1] \/ (x[1] = y[1] /\ x[2] < y[2])
Due(p) == UNION {{<<k, a>> : a \in DOMAIN rules[k].actions} : k \in matched[p]}
ExecutedInOrder ==
  \A p \in Phases :
    LET done == {executed[p][k] : k \in DOMAIN executed[p]}
    IN  /\ \A x, y \in DOMAIN executed[p] :
             x < y => Before(executed[p][x], executed[p][y])
        /\ done \subseteq Due(p)
        /\ \A x \in Due(p), y \in done : Before(x, y) => x \in done
        /\ outcome[p] = "ok" => done = Due(p)

(***************************************************************************)
(* Failing rules hold no message back: the exchange gets through both      *)
(* phases, whatever rules are refused, do not evaluate or have no context. *)
(* The one exception is a name or value too long for a field, in an action *)
(* of a rule that matched: set() throws, and the session ends.             *)
(***************************************************************************)
MatchedTooLong ==
  \E p \in Phases : \E k \in matched[p] :
    \E a \in DOMAIN rules[k].actions : HasTooLong(rules[k].actions[a])
ForwardedOrTooLong ==
  pc = "build" ~> pc = "done" \/ (pc = "thrown" /\ MatchedTooLong)

(***************************************************************************)
(* The schema accepts no document that LoadRulesFromFile cannot convert,   *)
(* and the rules it lets through are ones the executors can carry out: an  *)
(* action with its operation's kind of data and a header name.  What is    *)
(* left to fail during an exchange is a header that rules may not change,  *)
(* and a text that is too long for a field, whose length the schema leaves *)
(* open.                                                                   *)
(***************************************************************************)
Executable(a) ==
  a.op \in {"Add", "Set", "Replace", "Remove"} /\ Fits(a) /\ a.data.name \in Spelling
SchemaSuffices ==
  /\ pc = "convert" => ConvertsConfig(text)
  /\ \A k \in DOMAIN rules :
       /\ rules[k].phase \in Phases /\ rules[k].actions # << >>
       /\ \A a \in DOMAIN rules[k].actions : Executable(rules[k].actions[a])

(***************************************************************************)
(* An exchange is treated as the document says: in a phase that succeeds,  *)
(* exactly the rules written for that phase and not disabled there had     *)
(* their turn, and one written without a match condition was carried out   *)
(* unconditionally.                                                        *)
(***************************************************************************)
WrittenFor(p) ==
  {k \in DOMAIN Written(text) :
     LET r == Written(text)[k]
     IN  /\ PhaseOf[At(r, "phase").text] = p
         /\ ~(Has(r, "enabled") /\ At(r, "enabled").flag = FALSE)}
DocumentHonoured ==
  \A p \in Phases : outcome[p] = "ok" =>
    /\ evaluated[p] = WrittenFor(p)
    /\ \A k \in WrittenFor(p) : ~Has(Written(text)[k], "match") => k \in matched[p]

(***************************************************************************)
(* The description of the rule list in the rule file's schema: each        *)
(* enabled rule is evaluated independently and evaluation continues with   *)
(* the next rule.                                                          *)
(***************************************************************************)
EachRuleEvaluated ==
  pc = "done" =>
    \A p \in Phases : \A k \in DOMAIN rules :
      Wanted(k, p) => k \in evaluated[p]

=============================================================================
