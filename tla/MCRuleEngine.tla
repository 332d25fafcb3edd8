---------------------------- MODULE MCRuleEngine ----------------------------
(***************************************************************************)
(* Rule files of up to three rules with up to two actions, over an         *)
(* ordinary header in two spellings, another one, a framing header in two  *)
(* spellings, a proxy header, and texts too long for a field; and files    *)
(* that depart from the schema in one place: a member left out, of another *)
(* type, or unknown.                                                       *)
(***************************************************************************)
EXTENDS RuleEngine

MCLower ==
  [n \in {"X-A", "x-a", "X-B", "Content-Length", "content-length",
          "Proxy-Connection", "X-Long"} |->
     CASE n \in {"X-A", "x-a"} -> "x-a"
       [] n = "X-B" -> "x-b"
       [] n \in {"Content-Length", "content-length"} -> "content-length"
       [] n = "Proxy-Connection" -> "proxy-connection"
       [] n = "X-Long" -> "x-long"]

\* Stand-ins for a value and a name that Beast's set() throws for.
MCTooLong == {"long value", "X-Long"}

Field(n, v) == [name |-> n, value |-> v]
MCRequestHeaders ==
  { <<Field("X-A", "1"), Field("x-a", "2"), Field("Content-Length", "1")>>,
    <<Field("Proxy-Connection", "1"), Field("X-B", "1")>> }
MCResponseHeaders ==
  { << >>, <<Field("content-length", "1"), Field("X-B", "1"), Field("X-B", "2")>> }

\* Expressions, named for what they compare.
Equals(side, n, v) == [kind |-> "equals", of |-> side, name |-> n, value |-> v]
MCMeaning ==
  [e \in {"text", "request x-a 1", "request x-a 2", "response x-b 2"} |->
     CASE e = "text" -> [kind |-> "text"]
       [] e = "request x-a 1" -> Equals("request", "x-a", "1")
       [] e = "request x-a 2" -> Equals("request", "x-a", "2")
       [] e = "response x-b 2" -> Equals("response", "x-b", "2")]

-----------------------------------------------------------------------------
S(t) == [type |-> "string", text |-> t]
N(n) == [type |-> "number", number |-> n]
B(b) == [type |-> "boolean", flag |-> b]
A(items) == [type |-> "array", items |-> items]
O(members) == [type |-> "object", members |-> members]
Null == [type |-> "null"]

With(j, k, v) == O([m \in DOMAIN j.members \cup {k} |->
                      IF m = k THEN v ELSE j.members[m]])
Without(j, k) == O([m \in DOMAIN j.members \ {k} |-> j.members[m]])

\* j with one member left out or another value in its place.
Variants(j, k, values) == {Without(j, k)} \cup {With(j, k, v) : v \in values}

-----------------------------------------------------------------------------
Act(op, data) == O([op |-> S(op), target |-> S("header"), data |-> O(data)])
NameValue(n, v) == [name |-> S(n), value |-> S(v)]
Actions ==
  { A(<<Act("add", NameValue("X-A", "2"))>>),
    A(<<Act("set", NameValue("x-a", "1")), Act("remove", [name |-> S("X-B")])>>),
    A(<<Act("replace", NameValue("X-B", "2")),
        Act("set", NameValue("Content-Length", "2"))>>),
    A(<<Act("remove", [name |-> S("content-length")])>>),
    A(<<Act("add", NameValue("X-A", "long value")),
        Act("replace", NameValue("X-B", "long value"))>>) }

Plain(phase, actions) ==
  O([name |-> S("r"), phase |-> S(phase), actions |-> actions])
Match(e) == O([expr |-> S(e)])
Rules ==
  LET plain == {Plain(p, a) : p \in DOMAIN PhaseOf, a \in Actions}
  IN  plain \cup {With(r, "match", Match(e)) :
                    r \in plain,
                    e \in {"text", "request x-a 2", "response x-b 2"}}
Fixed ==
  With(Plain("response", A(<<Act("replace", NameValue("X-B", "1")),
                             Act("add", NameValue("X-A", "1"))>>)),
       "match", Match("request x-a 1"))

File(list) == O([version |-> N(1), http |-> O([rules |-> A(list)])])
WellFormed ==
  {File(<<r, s, Fixed>>) : r \in Rules, s \in Rules}
    \cup {File(<<With(r, "enabled", B(b)), Fixed>>) : r \in Rules, b \in BOOLEAN}
    \cup {File(<<Plain(p, A(<<Act("set", NameValue("X-Long", "1"))>>))>>) :
            p \in DOMAIN PhaseOf}
    \cup {With(File(<< >>), "$schema", S("uri")), O([version |-> N(1)]),
          O([version |-> N(1), http |-> O([k \in {} |-> 0])])}

-----------------------------------------------------------------------------
Datas ==
  { O([name |-> S("X-A")]), O([value |-> S("1")]), O(NameValue("X-A", "1")),
    O(NameValue("a b", "1")), O([name |-> N(1), value |-> S("1")]),
    O([name |-> S("X-A"), value |-> N(1)]),
    With(O(NameValue("X-A", "1")), "more", Null), O([name |-> Null]), Null,
    A(<< >>) }
OddActions ==
  LET sound == Act("set", NameValue("X-A", "1"))
      ops == Variants(sound, "op", {S("remove"), S("add"), S("Set"), S(""), N(1)})
      targets == UNION {Variants(a, "target", {S("body"), S("header")}) : a \in ops}
  IN  UNION {Variants(a, "data", Datas) : a \in targets}
        \cup {With(sound, "more", Null)}

OddRules ==
  LET sound == Plain("request", A(<<Act("remove", [name |-> S("X-B")])>>))
  IN  {Plain("request", A(<<a>>)) : a \in OddActions}
        \cup Variants(sound, "name", {S(""), N(1)})
        \cup Variants(sound, "phase", {S("both"), N(1)})
        \cup Variants(sound, "enabled", {Null, S("true"), N(0)})
        \cup Variants(sound, "match", {Null, S("text"), Match(""),
               O([k \in {} |-> 0]), With(Match("text"), "more", Null),
               O([expr |-> N(1)])})
        \cup Variants(sound, "actions", {Null, A(<< >>), A(<<Null>>), O([k \in {} |-> 0])})
        \cup {With(sound, "more", Null)}

OddFiles ==
  LET sound == File(<<Fixed>>)
  IN  {File(<<Fixed, r>>) : r \in OddRules}
        \cup Variants(sound, "version", {N(0), N(2), S("1"), Null})
        \cup Variants(sound, "http", {Null, A(<< >>), O([rules |-> Null]),
               O([rules |-> O([k \in {} |-> 0])]), O([more |-> Null])})
        \cup Variants(sound, "$schema", {N(1), Null})
        \cup {With(sound, "more", Null), Null, A(<<sound>>)}

MCDocuments == WellFormed \cup OddFiles

\* The documents and, down to the text of a header name, their parts.
Parts(js) == UNION {CASE IsA(j, "array") -> Items(j)
                      [] IsA(j, "object") -> {At(j, k) : k \in DOMAIN j.members}
                      [] OTHER -> {} : j \in js}
Level[n \in 0 .. 7] == IF n = 0 THEN MCDocuments ELSE Parts(Level[n - 1])
AllValues == UNION {Level[n] : n \in 0 .. 7}
MCJson == AllValues   \* TLC evaluates AllValues once, a substituted name each time

=============================================================================
