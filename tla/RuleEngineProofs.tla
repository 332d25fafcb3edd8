-------------------------- MODULE RuleEngineProofs --------------------------
(***************************************************************************)
(* What holds of the rules for every document, every header and every      *)
(* outcome of the match expressions.                                       *)
(***************************************************************************)
EXTENDS RuleEngine, SequenceLemmas

-----------------------------------------------------------------------------
(***************************************************************************)
(* From the document to the rules.  What the schema accepts is converted   *)
(* without an exception, to rules the executors can carry out.             *)
(***************************************************************************)
IsSeq(s) == Len(s) \in Nat /\ DOMAIN s = 1 .. Len(s)

ActionOK(a) == Executable(a) /\ (a.op # "Remove" => a.data.value \in STRING)

RuleOK(r) ==
  /\ r.phase \in Phases /\ r.actions # << >> /\ IsSeq(r.actions)
  /\ \A a \in DOMAIN r.actions : ActionOK(r.actions[a])

\* What a valid object has as its members.
LEMMA Member ==
  ASSUME NEW j \in Json, NEW required, NEW optional, Shape(j, required, optional)
  PROVE  /\ \A k \in required : Has(j, k) /\ At(j, k) \in Json
         /\ \A k : Has(j, k) => At(j, k) \in Json
<1>1. IsA(j, "object") /\ required \subseteq DOMAIN j.members
  BY DEF Shape
<1>2. \A k \in DOMAIN j.members : At(j, k) \in Json
  BY <1>1, JsonAssumption
<1> QED
  BY <1>1, <1>2 DEF Has

LEMMA ActionConverts ==
  ASSUME NEW j \in Json, ValidAction(j)
  PROVE  ConvertsAction(j) /\ ActionOK(AsAction(j))
<1> DEFINE data == At(j, "data")
           op == At(j, "op").text
<1>1. /\ Has(j, "op") /\ Has(j, "target") /\ Has(j, "data")
      /\ data \in Json
  BY Member DEF ValidAction
<1>2. /\ OneOf(At(j, "op"), {"set", "add", "replace", "remove"})
      /\ OneOf(At(j, "target"), {"header"})
      /\ op \in {"set", "add", "replace", "remove"}
  BY DEF ValidAction, OneOf
<1>3. CASE op = "remove"
  <2>1. HeaderName(data)
    BY <1>2, <1>3 DEF ValidAction, OneOf
  <2>2. Has(data, "name") /\ At(data, "name") \in Json
    BY <1>1, <2>1, Member DEF HeaderName
  <2>3. IsA(At(data, "name"), "string") /\ At(data, "name").text \in Spelling
    BY <2>1 DEF HeaderName, ValidName, OneOf
  <2>4. ConvertsAction(j)
    BY <1>1, <1>2, <1>3, <2>2 DEF ConvertsAction, OneOf, OpOf
  <2>5. AsAction(j) = [op |-> "Remove", data |-> [name |-> At(data, "name").text]]
    BY <1>3, <2>3 DEF AsAction, OpOf, AsText
  <2> QED
    BY <2>3, <2>4, <2>5 DEF ActionOK, Executable, Fits
<1>4. CASE op # "remove"
  <2>1. HeaderNameValue(data)
    BY <1>2, <1>4 DEF ValidAction, OneOf
  <2>2. /\ Has(data, "name") /\ At(data, "name") \in Json
        /\ Has(data, "value") /\ At(data, "value") \in Json
    BY <1>1, <2>1, Member DEF HeaderNameValue
  <2>3. /\ IsA(At(data, "name"), "string") /\ At(data, "name").text \in Spelling
        /\ IsA(At(data, "value"), "string") /\ At(data, "value").text \in STRING
    BY <2>1, <2>2, JsonAssumption DEF HeaderNameValue, ValidName, OneOf
  <2>4. ConvertsAction(j)
    BY <1>1, <1>2, <1>4, <2>2 DEF ConvertsAction, OneOf, OpOf
  <2>5. AsAction(j) = [op |-> OpOf[op],
                       data |-> [name |-> At(data, "name").text,
                                 value |-> At(data, "value").text]]
    BY <1>4, <2>3 DEF AsAction, AsText
  <2>6. OpOf[op] \in {"Add", "Set", "Replace"}
    BY <1>2, <1>4 DEF OpOf
  <2> QED
    BY <2>3, <2>4, <2>5, <2>6 DEF ActionOK, Executable, Fits
<1> QED
  BY <1>3, <1>4

LEMMA RuleConverts ==
  ASSUME NEW j \in Json, ValidRule(j)
  PROVE  ConvertsRule(j) /\ RuleOK(AsRule(j))
<1> DEFINE items == At(j, "actions").items
           as == [k \in DOMAIN items |-> AsAction(items[k])]
<1>1. /\ Has(j, "name") /\ Has(j, "phase") /\ Has(j, "actions")
      /\ At(j, "actions") \in Json
      /\ Has(j, "match") => At(j, "match") \in Json
  BY Member DEF ValidRule
<1>2. /\ IsA(At(j, "actions"), "array") /\ items # << >>
      /\ OneOf(At(j, "phase"), {"request", "response"})
      /\ Has(j, "enabled") => IsA(At(j, "enabled"), "boolean")
      /\ Has(j, "match") => ValidMatch(At(j, "match"))
  BY DEF ValidRule
<1>3. items \in Seq(Json)
  BY <1>1, <1>2, JsonAssumption
<1>4. Len(items) \in Nat /\ DOMAIN items = 1 .. Len(items) /\ Len(items) # 0
  BY <1>2, <1>3, LenProperties, EmptySeq
<1>5. ASSUME NEW k \in DOMAIN items
      PROVE  ConvertsAction(items[k]) /\ ActionOK(AsAction(items[k]))
  <2>1. items[k] \in Json
    BY <1>3, <1>4, ElementOfSeq
  <2>2. ValidAction(items[k])
    BY DEF ValidRule, Items
  <2> QED
    BY <2>1, <2>2, ActionConverts
<1>6. ConvertsRule(j)
  <2>1. OneOf(At(j, "phase"), DOMAIN PhaseOf)
    BY <1>2 DEF OneOf, PhaseOf
  <2>2. Has(j, "match") => Has(At(j, "match"), "expr")
    BY <1>1, <1>2, Member DEF ValidMatch
  <2>3. \A a \in Items(At(j, "actions")) : ConvertsAction(a)
    BY <1>5 DEF Items
  <2> QED
    BY <1>1, <1>2, <2>1, <2>2, <2>3 DEF ConvertsRule, Given
<1>7. as # << >> /\ IsSeq(as) /\ \A k \in DOMAIN as : ActionOK(as[k])
  <2> DEFINE S == {AsAction(items[k]) : k \in DOMAIN items}
  <2>1. as \in [1 .. Len(items) -> S]
    BY <1>4
  <2> HIDE DEF S
  <2>2. as \in Seq(S) /\ Len(as) = Len(items)
    BY <1>4, <2>1, FunctionIsSeq
  <2>3. as # << >>
    BY <1>4, <2>2, EmptySeq
  <2>4. IsSeq(as)
    BY <1>4, <2>2 DEF IsSeq
  <2> QED
    BY <1>5, <2>3, <2>4
<1>8. AsRule(j).phase \in Phases
  BY <1>2 DEF AsRule, OneOf, PhaseOf, Phases
<1>9. AsRule(j).actions = as
  BY DEF AsRule
<1> HIDE DEF as
<1> QED
  BY <1>6, <1>7, <1>8, <1>9 DEF RuleOK

LEMMA ConfigConverts ==
  ASSUME NEW j \in Json, Valid(j)
  PROVE  /\ ConvertsConfig(j)
         /\ IsSeq(AsRules(j)) /\ DOMAIN AsRules(j) = DOMAIN Written(j)
         /\ \A k \in DOMAIN AsRules(j) :
              /\ AsRules(j)[k] = AsRule(Written(j)[k])
              /\ RuleOK(AsRules(j)[k])
              /\ Has(Written(j)[k], "match") => ValidMatch(At(Written(j)[k], "match"))
              /\ Has(Written(j)[k], "enabled") => At(Written(j)[k], "enabled").flag \in BOOLEAN
<1> DEFINE http == At(j, "http")
           list == At(http, "rules")
           w == Written(j)
<1>1. /\ Has(j, "version") /\ IsA(At(j, "version"), "number")
      /\ Has(j, "http") => http \in Json /\ ValidHttp(http)
  BY Member DEF Valid
<1>2. ASSUME Has(j, "http"), Has(http, "rules")
      PROVE  /\ IsA(list, "array") /\ list.items \in Seq(Json)
             /\ \A r \in Items(list) : ValidRule(r)
  <2>1. list \in Json
    BY <1>1, <1>2, Member DEF ValidHttp
  <2> QED
    BY <1>1, <1>2, <2>1, JsonAssumption DEF ValidHttp
<1>3. /\ w \in Seq(Json)
      /\ \A k \in DOMAIN w : w[k] \in Json /\ ValidRule(w[k])
  <2>1. CASE Given(j, "http") /\ Given(http, "rules")
    <3>1. w = list.items
      BY <2>1 DEF Written
    <3>2. w \in Seq(Json) /\ \A r \in Items(list) : ValidRule(r)
      BY <1>2, <2>1, <3>1 DEF Given
    <3>3. \A k \in DOMAIN w : ValidRule(w[k])
      BY <3>1, <3>2 DEF Items
    <3>4. \A k \in DOMAIN w : w[k] \in Json
      <4> HIDE DEF w
      <4> QED
        BY <3>2, ElementOfSeq, LenProperties
    <3> QED
      BY <3>2, <3>3, <3>4
  <2>2. CASE ~(Given(j, "http") /\ Given(http, "rules"))
    <3>1. w = << >>
      BY <2>2 DEF Written
    <3> HIDE DEF w
    <3>2. w \in Seq(Json) /\ DOMAIN w = {}
      BY <3>1, EmptySeq, LenProperties
    <3> QED
      BY <3>2
  <2> QED
    BY <2>1, <2>2
<1>4. ConvertsConfig(j)
  <2>1. ASSUME Given(j, "http") PROVE IsA(http, "object")
    BY <1>1, <2>1 DEF Given, ValidHttp, Shape
  <2>2. ASSUME Given(j, "http"), Given(http, "rules")
        PROVE  IsA(list, "array") /\ \A r \in Items(list) : ConvertsRule(r)
    <3>1. IsA(list, "array") /\ Items(list) = {w[k] : k \in DOMAIN w}
      BY <1>2, <2>2 DEF Given, Items, Written
    <3> QED
      BY <1>3, <3>1, RuleConverts
  <2> QED
    BY <1>1, <2>1, <2>2 DEF ConvertsConfig
<1> HIDE DEF w
<1>5. Len(w) \in Nat /\ DOMAIN w = 1 .. Len(w)
  BY <1>3, LenProperties
<1>6. IsSeq(AsRules(j)) /\ DOMAIN AsRules(j) = DOMAIN w
  <2> DEFINE S == {AsRule(w[k]) : k \in DOMAIN w}
  <2>1. AsRules(j) \in [1 .. Len(w) -> S]
    BY <1>5 DEF AsRules, w
  <2> HIDE DEF S
  <2>2. AsRules(j) \in Seq(S) /\ Len(AsRules(j)) = Len(w)
    BY <1>5, <2>1, FunctionIsSeq
  <2> QED
    BY <1>5, <2>1, <2>2 DEF IsSeq
<1>7. ASSUME NEW k \in DOMAIN w
      PROVE  /\ AsRules(j)[k] = AsRule(w[k])
             /\ RuleOK(AsRules(j)[k])
             /\ Has(w[k], "match") => ValidMatch(At(w[k], "match"))
             /\ Has(w[k], "enabled") => At(w[k], "enabled").flag \in BOOLEAN
  <2>1. AsRules(j)[k] = AsRule(w[k])
    BY DEF AsRules, w
  <2>2. RuleOK(AsRule(w[k]))
    BY <1>3, RuleConverts
  <2>3. Has(w[k], "match") => ValidMatch(At(w[k], "match"))
    BY <1>3 DEF ValidRule
  <2>4. ASSUME Has(w[k], "enabled") PROVE At(w[k], "enabled").flag \in BOOLEAN
    <3>1. At(w[k], "enabled") \in Json /\ IsA(At(w[k], "enabled"), "boolean")
      BY <1>3, <2>4, Member DEF ValidRule
    <3> QED
      BY <3>1, JsonAssumption
  <2> QED
    BY <2>1, <2>2, <2>3, <2>4
<1> QED
  BY <1>4, <1>6, <1>7 DEF w

-----------------------------------------------------------------------------
(***************************************************************************)
(* Keep: appending a field appends it to what is kept or not; what is kept *)
(* of what was kept; and which names matter.                               *)
(***************************************************************************)
Field == [name : Spelling, value : STRING]

LEMMA KeepEmpty == \A S : Keep(<< >>, S) = << >>
  BY SubsequenceEmpty DEF Keep

LEMMA KeepAppend ==
  ASSUME NEW A, NEW h \in Seq(A), NEW e \in A, NEW S
  PROVE  Keep(Append(h, e), S) =
           IF Lower[e.name] \in S THEN Append(Keep(h, S), e) ELSE Keep(h, S)
<1> DEFINE i == Append(h, e)
           n == Len(h)
           J == {k \in DOMAIN h : Lower[h[k].name] \in S}
           K == {k \in DOMAIN i : Lower[i[k].name] \in S}
<1>1. /\ n \in Nat /\ DOMAIN h = 1 .. n /\ DOMAIN i = 1 .. n + 1 /\ i[n + 1] = e
      /\ \A k \in 1 .. n : i[k] = h[k]
  BY LenProperties, AppendProperties
<1>2. Keep(i, S) = Subsequence(i, K) /\ Keep(h, S) = Subsequence(h, J)
  BY DEF Keep
<1> HIDE DEF i
<1>3. /\ \A k \in 1 .. n : k \in J <=> k \in K
      /\ n + 1 \in K <=> Lower[e.name] \in S
  BY <1>1
<1> HIDE DEF J, K
<1>4. Subsequence(i, K) =
        IF n + 1 \in K THEN Append(Subsequence(h, J), e) ELSE Subsequence(h, J)
  BY <1>3, SubsequenceAppend DEF i
<1> QED
  BY <1>2, <1>3, <1>4 DEF i

\* What is kept of a header is a header.
LEMMA KeepType == \A S : \A h \in Fields : Keep(h, S) \in Fields
<1> SUFFICES ASSUME NEW S PROVE \A h \in Fields : Keep(h, S) \in Fields
  OBVIOUS
<1> DEFINE P == {h \in Seq(Field) : Keep(h, S) \in Seq(Field)}
<1>1. << >> \in P
  BY EmptySeq, KeepEmpty
<1>2. ASSUME NEW h \in Seq(Field), NEW e \in Field, h \in P PROVE Append(h, e) \in P
  <2>1. Append(h, e) \in Seq(Field) /\ Append(Keep(h, S), e) \in Seq(Field)
    BY <1>2, AppendProperties
  <2> QED
    BY <1>2, <2>1, KeepAppend
<1>3. Seq(Field) \subseteq P
  <2> HIDE DEF P
  <2> QED
    BY <1>1, <1>2, SeqInductionOnSet
<1> QED
  BY <1>3 DEF Fields, Field

\* Keeping twice.
LEMMA KeepKeep ==
  \A S, T : \A h \in Fields : Keep(Keep(h, S), T) = Keep(h, S \cap T)
<1> SUFFICES ASSUME NEW S, NEW T
             PROVE  \A h \in Fields : Keep(Keep(h, S), T) = Keep(h, S \cap T)
  OBVIOUS
<1> DEFINE P == {h \in Seq(Field) : Keep(Keep(h, S), T) = Keep(h, S \cap T)}
<1>1. << >> \in P
  BY EmptySeq, KeepEmpty
<1>2. ASSUME NEW h \in Seq(Field), NEW e \in Field, h \in P PROVE Append(h, e) \in P
  <2>1. Append(h, e) \in Seq(Field) /\ Keep(h, S) \in Seq(Field)
    BY AppendProperties, KeepType DEF Fields, Field
  <2>2. Keep(Append(h, e), S) =
          IF Lower[e.name] \in S THEN Append(Keep(h, S), e) ELSE Keep(h, S)
    BY KeepAppend
  <2>3. Keep(Append(h, e), S \cap T) =
          IF Lower[e.name] \in S \cap T THEN Append(Keep(h, S \cap T), e)
          ELSE Keep(h, S \cap T)
    BY KeepAppend
  <2>4. Keep(Append(Keep(h, S), e), T) =
          IF Lower[e.name] \in T THEN Append(Keep(Keep(h, S), T), e)
          ELSE Keep(Keep(h, S), T)
    BY <2>1, KeepAppend
  <2>5. Keep(Keep(Append(h, e), S), T) = Keep(Append(h, e), S \cap T)
    <3>1. CASE Lower[e.name] \in S
      <4>1. Keep(Append(h, e), S) = Append(Keep(h, S), e)
        BY ONLY <2>2, <3>1, Zenon
      <4>2. Lower[e.name] \in S \cap T <=> Lower[e.name] \in T
        BY <3>1
      <4>3. Keep(Keep(h, S), T) = Keep(h, S \cap T)
        BY <1>2
      <4>4. CASE Lower[e.name] \in T
        BY ONLY <2>3, <2>4, <4>1, <4>2, <4>3, <4>4, Zenon
      <4>5. CASE Lower[e.name] \notin T
        BY ONLY <2>3, <2>4, <4>1, <4>2, <4>3, <4>5, Zenon
      <4> QED
        BY <4>4, <4>5
    <3>2. CASE Lower[e.name] \notin S
      BY <1>2, <2>2, <2>3, <3>2
    <3> QED
      BY <3>1, <3>2
  <2> QED
    BY <2>1, <2>5
<1>3. Seq(Field) \subseteq P
  <2> HIDE DEF P
  <2> QED
    BY <1>1, <1>2, SeqInductionOnSet
<1> QED
  BY <1>3 DEF Fields, Field

\* Only the names of fields matter.
LEMMA KeepNames ==
  \A S, T : (S \cap Names = T \cap Names) =>
              \A h \in Fields : Keep(h, S) = Keep(h, T)
<1> SUFFICES ASSUME NEW S, NEW T, S \cap Names = T \cap Names
             PROVE  \A h \in Fields : Keep(h, S) = Keep(h, T)
  OBVIOUS
<1> DEFINE P == {h \in Seq(Field) : Keep(h, S) = Keep(h, T)}
<1>1. << >> \in P
  BY EmptySeq, KeepEmpty
<1>2. ASSUME NEW h \in Seq(Field), NEW e \in Field, h \in P PROVE Append(h, e) \in P
  <2>1. Append(h, e) \in Seq(Field)
    BY AppendProperties
  <2>2. Lower[e.name] \in Names
    BY DEF Names, Field
  <2>3. Lower[e.name] \in S <=> Lower[e.name] \in T
    BY <2>2
  <2>4. /\ Keep(Append(h, e), S) =
             IF Lower[e.name] \in S THEN Append(Keep(h, S), e) ELSE Keep(h, S)
        /\ Keep(Append(h, e), T) =
             IF Lower[e.name] \in T THEN Append(Keep(h, T), e) ELSE Keep(h, T)
    BY KeepAppend
  <2> QED
    BY <1>2, <2>1, <2>3, <2>4
<1>3. Seq(Field) \subseteq P
  <2> HIDE DEF P
  <2> QED
    BY <1>1, <1>2, SeqInductionOnSet
<1> QED
  BY <1>3 DEF Fields, Field

(***************************************************************************)
(* The four operations leave the fields of other names as they are.        *)
(***************************************************************************)
LEMMA OthersKeep ==
  ASSUME NEW h \in Fields, NEW n \in Spelling, NEW T, Lower[n] \notin T
  PROVE  Others(h, n) \in Fields /\ Keep(Others(h, n), T) = Keep(h, T)
<1> DEFINE U == Names \ {Lower[n]}
<1>1. Others(h, n) = Keep(h, U)
  BY DEF Others
<1>2. Keep(h, U) \in Fields /\ Keep(Keep(h, U), T) = Keep(h, U \cap T)
  BY KeepType, KeepKeep
<1>3. (U \cap T) \cap Names = T \cap Names
  OBVIOUS
<1>4. Keep(h, U \cap T) = Keep(h, T)
  BY <1>3, KeepNames
<1> QED
  BY <1>1, <1>2, <1>4

LEMMA SetKeeps ==
  ASSUME NEW h \in Fields, NEW n \in Spelling, NEW v \in STRING,
         NEW T, Lower[n] \notin T
  PROVE  SetHeader(h, n, v) \in Fields /\ Keep(SetHeader(h, n, v), T) = Keep(h, T)
<1> DEFINE e == [name |-> n, value |-> v]
           o == Others(h, n)
<1>1. e \in Field /\ e.name = n
  BY DEF Field
<1>2. o \in Seq(Field) /\ Keep(o, T) = Keep(h, T)
  BY OthersKeep DEF Fields, Field
<1>3. SetHeader(h, n, v) = Append(o, e)
  BY DEF SetHeader
<1> HIDE DEF e, o
<1>4. Append(o, e) \in Seq(Field)
  BY <1>1, <1>2, AppendProperties
<1>5. Keep(Append(o, e), T) = Keep(o, T)
  BY <1>1, <1>2, KeepAppend
<1> QED
  BY <1>2, <1>3, <1>4, <1>5 DEF Fields, Field

LEMMA EffectKeeps ==
  ASSUME NEW h \in Fields, NEW a, ActionOK(a), NEW T, Lower[a.data.name] \notin T
  PROVE  Effect(a, h) \in Fields /\ Keep(Effect(a, h), T) = Keep(h, T)
<1>1. a.data.name \in Spelling /\ a.op \in {"Add", "Set", "Replace", "Remove"}
  BY DEF ActionOK, Executable
<1>2. CASE a.op = "Remove"
  <2>1. Effect(a, h) = Others(h, a.data.name)
    BY <1>2 DEF Effect, RemoveHeader
  <2> QED
    BY <1>1, <2>1, OthersKeep
<1>3. CASE a.op # "Remove"
  <2>1. a.data.value \in STRING
    BY <1>3 DEF ActionOK
  <2>2. Effect(a, h) \in {h, SetHeader(h, a.data.name, a.data.value)}
    BY <1>1, <1>3 DEF Effect, AddHeader, ReplaceHeader
  <2> DEFINE n == a.data.name
             v == a.data.value
  <2>3. n \in Spelling /\ v \in STRING /\ Lower[n] \notin T
    BY <1>1, <2>1
  <2>4. Effect(a, h) \in {h, SetHeader(h, n, v)}
    BY <2>2
  <2> HIDE DEF n, v
  <2>5. SetHeader(h, n, v) \in Fields /\ Keep(SetHeader(h, n, v), T) = Keep(h, T)
    BY <2>3, SetKeeps
  <2> QED
    BY <2>4, <2>5
<1> QED
  BY <1>2, <1>3

-----------------------------------------------------------------------------
(***************************************************************************)
(* The inductive invariant.  First, what is known of the document and of   *)
(* the rules made from it.                                                 *)
(***************************************************************************)
Loaded == pc \in Phases \cup {"build", "await", "done", "thrown"}

DocumentInv ==
  /\ text \in Json \cup {NoJson}
  /\ pc = "convert" => text # NoJson /\ Valid(text)
  /\ Loaded => text \in Json /\ Valid(text) /\ rules = AsRules(text)
  /\ ~Loaded => rules = << >>
  /\ IsSeq(rules) /\ \A k \in DOMAIN rules : RuleOK(rules[k])

\* Headers are only touched by their phase.
HeadersInv ==
  /\ client_header \in Fields
  /\ ~Built => request_header = << >>
  /\ pc \notin {"Response", "done", "thrown"} => response_header = received
  /\ ProtectedUntouched /\ UntargetedKept

\* A phase that has not begun.
Fresh(p) ==
  matched[p] = {} /\ evaluated[p] = {} /\ executed[p] = << >> /\ outcome[p] = "none"

PhasesInTurn ==
  /\ pc \notin Phases \cup {"thrown"} => rule = 1 /\ action = 0
  /\ pc \in Phases => outcome[pc] = "none"
  /\ pc \notin {"Response", "done", "thrown"} => Fresh("Response")
  /\ pc \notin {"Request", "await", "Response", "done", "thrown"} => Fresh("Request")

HistoryTypes ==
  /\ executed \in [Phases -> Seq(Nat \X Nat)]
  /\ matched \in [Phases -> SUBSET DOMAIN rules]
  /\ evaluated \in [Phases -> SUBSET DOMAIN rules]

(***************************************************************************)
(* Second, what the loops of ApplyRules and ExecuteActions have done when  *)
(* they are at rule k and action a: everything due before, nothing else.   *)
(***************************************************************************)
Passed(k) == k < rule \/ (k = rule /\ action > 0)
Done(p) == {executed[p][k] : k \in DOMAIN executed[p]}
Here == <<rule, action>>

CursorInv(p) ==
  /\ action > 0 => rule <= Len(rules) /\ Wanted(rule, p) /\ rule \in matched[p]
  /\ \A k \in matched[p] : Passed(k)
  /\ evaluated[p] = {k \in DOMAIN rules : Wanted(k, p) /\ Passed(k)}
  /\ \A x \in Done(p) : Before(x, Here)
  /\ \A x \in Due(p) : Before(x, Here) => x \in Done(p)

\* ExecutedInOrder and DocumentHonoured, of one phase and in terms of rules.
OrderInv(p) ==
  /\ \A x, y \in DOMAIN executed[p] :
       x < y => Before(executed[p][x], executed[p][y])
  /\ Done(p) \subseteq Due(p)
  /\ \A x \in Due(p), y \in Done(p) : Before(x, y) => x \in Done(p)
  /\ outcome[p] = "ok" => Done(p) = Due(p)

HonourInv(p) ==
  /\ outcome[p] = "ok" => evaluated[p] = {k \in DOMAIN rules : Wanted(k, p)}
  /\ outcome[p] # "error" =>
       \A k \in evaluated[p] : rules[k].match = NoMatch => k \in matched[p]

LoopInv ==
  /\ PhasesInTurn /\ HistoryTypes
  /\ pc \in Phases => CursorInv(pc)
  /\ \A p \in Phases : OrderInv(p) /\ HonourInv(p)

IInv == TypeOK /\ DocumentInv /\ HeadersInv /\ LoopInv

-----------------------------------------------------------------------------
LEMMA DocumentStep == IInv /\ [Next]_vars => DocumentInv'
<1> SUFFICES ASSUME IInv, [Next]_vars PROVE DocumentInv'
  OBVIOUS
<1> USE DEF Loaded, Phases
<1>1. DocumentInv /\ IsSeq(<< >>) /\ DOMAIN << >> = {}
  BY EmptySeq, LenProperties DEF IInv, IsSeq
<1>2. CASE ReadRuleFile
  <2>1. rules' = rules /\ text' \in Json \cup {NoJson} /\ pc' \in {"validate", "refused"}
    BY <1>1, <1>2, DocumentsAssumption DEF ReadRuleFile, DocumentInv
  <2> QED
    BY <1>1, <1>2, <2>1 DEF ReadRuleFile, DocumentInv
<1>3. CASE ValidateRuleFile
  BY <1>1, <1>3 DEF ValidateRuleFile, DocumentInv
<1>4. CASE ConvertRuleFile
  <2>1. text \in Json /\ Valid(text)
    BY <1>1, <1>4 DEF ConvertRuleFile, DocumentInv
  <2>2. rules' = AsRules(text) /\ pc' = "build" /\ text' = text
    BY <1>4, <2>1, ConfigConverts DEF ConvertRuleFile
  <2>3. IsSeq(AsRules(text)) /\ \A k \in DOMAIN AsRules(text) : RuleOK(AsRules(text)[k])
    BY <2>1, ConfigConverts
  <2> QED
    BY <2>1, <2>2, <2>3 DEF DocumentInv
<1>5. ASSUME UNCHANGED <<text, rules>>, Loaded, Loaded' PROVE DocumentInv'
  BY <1>1, <1>5 DEF DocumentInv
<1>6. CASE BuildRemoteRequestHeader
  BY <1>5, <1>6 DEF BuildRemoteRequestHeader
<1>7. ASSUME SkipRule \/ Unconditional \/ ContextFails \/ EvaluateMatch
              \/ RuleDone \/ RulesDone
      PROVE  DocumentInv'
  BY <1>5, <1>7 DEF SkipRule, Unconditional, ContextFails, EvaluateMatch, RuleDone,
     RulesDone, Finish, AtRule, Acting, Applying
<1>8. ASSUME ExecuteRequestAction \/ ExecuteResponseAction PROVE DocumentInv'
  BY <1>5, <1>8 DEF ExecuteRequestAction, ExecuteResponseAction, Finish, Executed
<1>9. CASE ReadRemoteResponseHeader \/ ActionThrows
  BY <1>5, <1>9 DEF ReadRemoteResponseHeader, ActionThrows, Acting, Applying
<1>10. CASE UNCHANGED vars
  BY <1>1, <1>10 DEF DocumentInv, vars
<1> QED
  BY <1>2, <1>3, <1>4, <1>6, <1>7, <1>8, <1>9, <1>10 DEF Next

\* The action that an executor is about to carry out.
LEMMA CurrentIsOK ==
  ASSUME IInv, Acting, action <= Len(rules[rule].actions)
  PROVE  /\ rule \in DOMAIN rules /\ action \in DOMAIN rules[rule].actions
         /\ ActionOK(CurrentAction)
<1>1. /\ rule \in DOMAIN rules /\ RuleOK(rules[rule])
      /\ action \in Nat /\ action > 0
  BY DEF IInv, TypeOK, DocumentInv, IsSeq, Acting
<1>2. action \in DOMAIN rules[rule].actions
  BY <1>1 DEF RuleOK, IsSeq
<1> QED
  BY <1>1, <1>2 DEF RuleOK, CurrentAction

LEMMA Refines ==
  ASSUME NEW h \in Fields, NEW g \in Fields, NEW S, NEW T,
         T \subseteq S, Keep(h, S) = Keep(g, S)
  PROVE  Keep(h, T) = Keep(g, T)
<1>1. S \cap T = T
  OBVIOUS
<1>2. Keep(Keep(h, S), T) = Keep(h, T) /\ Keep(Keep(g, S), T) = Keep(g, T)
  BY <1>1, KeepKeep
<1> QED
  BY <1>2

\* What one more executed action adds to the names that were targeted.
LEMMA TargetedGrows ==
  ASSUME IInv, NEW p \in Phases, rules' = rules, rule \in Nat, action \in Nat,
         executed' = [executed EXCEPT ![p] = Append(@, <<rule, action>>)]
  PROVE  /\ Targeted(p) \subseteq Targeted(p)'
         /\ Lower[CurrentAction.data.name] \in Targeted(p)'
         /\ \A q \in Phases : q # p => Targeted(q)' = Targeted(q)
<1> DEFINE e == executed[p]
           n == Len(e)
           last == <<rule, action>>
<1>1. executed \in [Phases -> Seq(Nat \X Nat)] /\ e \in Seq(Nat \X Nat)
  BY DEF IInv, LoopInv, HistoryTypes
<1>2. executed'[p] = Append(e, last) /\ \A q \in Phases : q # p => executed'[q] = executed[q]
  BY <1>1
<1>3. last \in Nat \X Nat /\ last[1] = rule /\ last[2] = action
  OBVIOUS
<1> HIDE DEF e, last
<1>4. /\ n \in Nat /\ DOMAIN e = 1 .. n
      /\ DOMAIN Append(e, last) = 1 .. n + 1 /\ Append(e, last)[n + 1] = last
      /\ \A k \in 1 .. n : Append(e, last)[k] = e[k]
  BY <1>1, <1>3, AppendProperties, LenProperties
<1> HIDE DEF n
<1> DEFINE x == Append(e, last)
<1>5. Targeted(p) = {Lower[rules[e[k][1]].actions[e[k][2]].data.name] : k \in DOMAIN e}
  BY ZenonT(40) DEF Targeted, e
<1>6. Targeted(p)' = {Lower[rules[x[k][1]].actions[x[k][2]].data.name] : k \in DOMAIN x}
  BY <1>2, ZenonT(40) DEF Targeted
<1>7. DOMAIN e \subseteq DOMAIN x /\ n + 1 \in DOMAIN x
  BY <1>4
<1>8. \A k \in DOMAIN e : x[k] = e[k]
  BY <1>4
<1>9. x[n + 1] = last
  BY <1>4
<1> HIDE DEF x
<1>10. Targeted(p) \subseteq Targeted(p)'
  BY <1>5, <1>6, <1>7, <1>8, ZenonT(40)
<1>11. Lower[CurrentAction.data.name] \in Targeted(p)'
  BY <1>3, <1>6, <1>7, <1>9, ZenonT(40) DEF CurrentAction
<1>12. \A q \in Phases : q # p => Targeted(q)' = Targeted(q)
  BY <1>2 DEF Targeted
<1> QED
  BY <1>10, <1>11, <1>12

\* An executed action leaves the protected and the untargeted fields alone.
LEMMA EffectOnHeader ==
  ASSUME IInv, NEW p \in Phases, pc = p, Acting, action <= Len(rules[rule].actions),
         ~Refused(CurrentAction), Executed, rules' = rules,
         NEW h \in Fields, NEW g \in Fields, Protected(h) = Protected(g),
         Untargeted(h, p) = Untargeted(g, p)
  PROVE  LET e == Effect(CurrentAction, h)
         IN  /\ e \in Fields /\ Protected(e) = Protected(g)
             /\ Keep(e, Names \ (Targeted(p)' \cup fields_to_erase)) =
                  Keep(g, Names \ (Targeted(p)' \cup fields_to_erase))
<1> DEFINE name == Lower[CurrentAction.data.name]
           U == kUnsupportedHeaders \ fields_to_erase
           S == Names \ (Targeted(p) \cup fields_to_erase)
           T == Names \ (Targeted(p)' \cup fields_to_erase)
<1>1. ActionOK(CurrentAction) /\ name \notin kUnsupportedHeaders
  BY CurrentIsOK DEF Refused, Unsupported
<1>2. executed' = [executed EXCEPT ![p] = Append(@, <<rule, action>>)]
  BY DEF Executed
<1>3. rule \in Nat /\ action \in Nat
  BY DEF IInv, TypeOK, DocumentInv, IsSeq
<1>4. Targeted(p) \subseteq Targeted(p)' /\ name \in Targeted(p)'
  BY <1>2, <1>3, TargetedGrows
<1>5. name \notin U /\ name \notin T /\ T \subseteq S
  BY <1>1, <1>4
<1>6. Keep(h, U) = Keep(g, U) /\ Keep(h, S) = Keep(g, S)
  BY DEF Protected, Untargeted
<1> HIDE DEF U, S, T
<1>7. Keep(h, T) = Keep(g, T)
  BY <1>5, <1>6, Refines
<1>8. /\ Effect(CurrentAction, h) \in Fields
      /\ Keep(Effect(CurrentAction, h), U) = Keep(h, U)
      /\ Keep(Effect(CurrentAction, h), T) = Keep(h, T)
  BY <1>1, <1>5, EffectKeeps
<1> QED
  BY <1>6, <1>7, <1>8 DEF Protected, U, T

HeaderTypes ==
  /\ request_header \in Fields /\ response_header \in Fields
  /\ forwarded \in Fields /\ received \in Fields

LEMMA HeadersStep == IInv /\ [Next]_vars => HeaderTypes' /\ HeadersInv'
<1> SUFFICES ASSUME IInv, [Next]_vars PROVE HeaderTypes' /\ HeadersInv'
  OBVIOUS
<1> USE DEF Phases, Built
<1>1. HeaderTypes /\ HeadersInv /\ client_header \in Fields
  BY DEF IInv, TypeOK, HeaderTypes, HeadersInv
<1>2. CASE ReadRuleFile \/ ValidateRuleFile \/ ConvertRuleFile
  <2>1. ~Built' /\ pc' \notin {"Response", "done", "thrown"} /\ UNCHANGED exchange
        /\ ~Built /\ pc \notin {"Response", "done", "thrown"}
    BY <1>2 DEF ReadRuleFile, ValidateRuleFile, ConvertRuleFile
  <2>2. UNCHANGED <<client_header, request_header, forwarded, received, response_header>>
    BY <2>1 DEF exchange
  <2> QED
    BY <1>1, <2>1, <2>2 DEF HeaderTypes, HeadersInv, ProtectedUntouched, UntargetedKept,
       Untargeted, Protected
<1>3. CASE BuildRemoteRequestHeader
  <2> DEFINE E == Names \ fields_to_erase
             U == kUnsupportedHeaders \ fields_to_erase
             T == Names \ (Targeted("Request")' \cup fields_to_erase)
             h == client_header
  <2>1. /\ request_header' = Keep(h, E) /\ pc = "build" /\ pc' = "Request"
        /\ UNCHANGED <<client_header, forwarded, received, response_header>>
    BY <1>3 DEF BuildRemoteRequestHeader
  <2>2. (E \cap U) \cap Names = U \cap Names /\ (E \cap T) \cap Names = T \cap Names
    OBVIOUS
  <2>3. T = (Names \ (Targeted("Request") \cup fields_to_erase))'
    BY DEF T, Names, fields_to_erase
  <2> HIDE DEF E, U, T
  <2>4. Keep(h, E) \in Fields
    BY <1>1, KeepType
  <2>5. Keep(Keep(h, E), U) = Keep(h, U) /\ Keep(Keep(h, E), T) = Keep(h, T)
    <3>1. Keep(Keep(h, E), U) = Keep(h, E \cap U) /\ Keep(Keep(h, E), T) = Keep(h, E \cap T)
      BY <1>1, KeepKeep
    <3>2. Keep(h, E \cap U) = Keep(h, U) /\ Keep(h, E \cap T) = Keep(h, T)
      BY <1>1, <2>2, KeepNames
    <3> QED
      BY <3>1, <3>2
  <2>6. ProtectedUntouched'
    BY <1>1, <2>1, <2>5 DEF ProtectedUntouched, Protected, HeadersInv, U
  <2>7. UntargetedKept'
    <3>1. response_header' = received'
      BY <1>1, <2>1 DEF HeadersInv
    <3> QED
      BY <2>1, <2>3, <2>5, <3>1 DEF UntargetedKept, Untargeted
  <2> QED
    BY <1>1, <2>1, <2>4, <2>6, <2>7 DEF HeaderTypes, HeadersInv
<1>4. ASSUME UNCHANGED <<rules, client_header, request_header, received,
                         response_header, executed>>,
             Built, Built',
             pc \in {"Response", "done", "thrown"} => pc' \in {"Response", "done", "thrown"}
      PROVE  HeadersInv'
  <2>1. \A p : Targeted(p)' = Targeted(p)
    BY <1>4 DEF Targeted
  <2>2. ProtectedUntouched' /\ UntargetedKept'
    BY <1>1, <1>4, <2>1 DEF HeadersInv, ProtectedUntouched, UntargetedKept, Protected,
       Untargeted
  <2> QED
    BY <1>1, <1>4, <2>2 DEF HeadersInv
<1>5. CASE SkipRule \/ Unconditional \/ RuleDone
  <2>1. /\ UNCHANGED <<rules, client_header, request_header, received,
                         response_header, executed, pc, forwarded>>
        /\ pc \in Phases
    BY <1>5 DEF SkipRule, Unconditional, RuleDone, AtRule, Acting, Applying, history
  <2> QED
    BY <1>1, <1>4, <2>1 DEF HeaderTypes
<1>6. ASSUME NEW r, Finish(r), pc \in Phases
      PROVE  /\ forwarded' \in {forwarded, request_header}
             /\ Built'
             /\ pc \in {"Response", "done", "thrown"} => pc' \in {"Response", "done", "thrown"}
  BY <1>6 DEF Finish
<1>7. CASE ContextFails \/ EvaluateMatch \/ RulesDone
  <2>1. /\ UNCHANGED <<rules, client_header, request_header, received,
                         response_header, executed>>
        /\ pc \in Phases
        /\ UNCHANGED <<pc, forwarded>> \/ \E r : Finish(r)
    <3>1. CASE ContextFails
      BY <3>1 DEF ContextFails, AtRule, Applying
    <3>2. CASE EvaluateMatch
      BY <3>2 DEF EvaluateMatch, AtRule, Applying
    <3>3. CASE RulesDone
      BY <3>3 DEF RulesDone, Applying, history
    <3> QED
      BY <1>7, <3>1, <3>2, <3>3
  <2> QED
    BY <1>1, <1>4, <1>6, <2>1 DEF HeaderTypes
<1>8. CASE ExecuteRequestAction
  <2>1. /\ pc = "Request" /\ Acting /\ action <= Len(rules[rule].actions)
        /\ UNCHANGED <<text, rules, client_header, received, response_header>>
    BY <1>8 DEF ExecuteRequestAction
  <2>2. CASE Refused(CurrentAction)
    <3>1. Finish("error") /\ UNCHANGED <<request_header, executed>>
      BY <1>8, <2>2 DEF ExecuteRequestAction
    <3> QED
      BY <1>1, <1>4, <1>6, <2>1, <3>1 DEF HeaderTypes
  <2>3. CASE ~Refused(CurrentAction)
    <3>1. /\ Executed /\ request_header' = Effect(CurrentAction, request_header)
          /\ UNCHANGED <<pc, forwarded>>
      BY <1>8, <2>3 DEF ExecuteRequestAction, Executed
    <3>2. /\ Protected(request_header) = Protected(client_header)
          /\ Untargeted(request_header, "Request") = Untargeted(client_header, "Request")
          /\ response_header = received
      BY <1>1, <2>1 DEF HeadersInv, ProtectedUntouched, UntargetedKept
    <3> DEFINE e == Effect(CurrentAction, request_header)
               T == Names \ (Targeted("Request")' \cup fields_to_erase)
    <3>3. /\ e \in Fields /\ Protected(e) = Protected(client_header)
          /\ Keep(e, T) = Keep(client_header, T)
      BY <1>1, <2>1, <2>3, <3>1, <3>2, EffectOnHeader DEF HeaderTypes
    <3> HIDE DEF e
    <3>4. ProtectedUntouched' /\ UntargetedKept'
      BY <2>1, <3>1, <3>2, <3>3 DEF ProtectedUntouched, UntargetedKept, Untargeted, Protected, e
    <3> QED
      BY <1>1, <2>1, <3>1, <3>2, <3>3, <3>4 DEF HeadersInv, HeaderTypes, e
  <2> QED
    BY <2>2, <2>3
<1>9. CASE ExecuteResponseAction
  <2>1. /\ pc = "Response" /\ Acting /\ action <= Len(rules[rule].actions)
        /\ UNCHANGED <<text, rules, client_header, received, request_header>>
    BY <1>9 DEF ExecuteResponseAction
  <2>2. CASE Refused(CurrentAction)
    <3>1. Finish("error") /\ UNCHANGED <<response_header, executed>>
      BY <1>9, <2>2 DEF ExecuteResponseAction
    <3> QED
      BY <1>1, <1>4, <1>6, <2>1, <3>1 DEF HeaderTypes
  <2>3. CASE ~Refused(CurrentAction)
    <3>1. /\ Executed /\ response_header' = Effect(CurrentAction, response_header)
          /\ UNCHANGED <<pc, forwarded>>
          /\ executed' = [executed EXCEPT !["Response"] = Append(@, <<rule, action>>)]
      BY <1>9, <2>1, <2>3 DEF ExecuteResponseAction, Executed
    <3>2. /\ Protected(response_header) = Protected(received)
          /\ Untargeted(response_header, "Response") = Untargeted(received, "Response")
          /\ Protected(request_header) = Protected(client_header)
          /\ Untargeted(request_header, "Request") = Untargeted(client_header, "Request")
      BY <1>1, <2>1 DEF HeadersInv, ProtectedUntouched, UntargetedKept
    <3> DEFINE e == Effect(CurrentAction, response_header)
               T == Names \ (Targeted("Response")' \cup fields_to_erase)
    <3>3. /\ e \in Fields /\ Protected(e) = Protected(received)
          /\ Keep(e, T) = Keep(received, T)
      BY <1>1, <2>1, <2>3, <3>1, <3>2, EffectOnHeader DEF HeaderTypes
    <3> HIDE DEF e
    <3>4. Targeted("Request")' = Targeted("Request")
      <4>1. rule \in Nat /\ action \in Nat
        BY DEF IInv, TypeOK, DocumentInv, IsSeq
      <4> QED
        BY <2>1, <3>1, <4>1, TargetedGrows
    <3>5. ProtectedUntouched' /\ UntargetedKept'
      BY <2>1, <3>1, <3>2, <3>3, <3>4, Zenon
         DEF ProtectedUntouched, UntargetedKept, Untargeted, Protected, e
    <3> QED
      BY <1>1, <2>1, <3>1, <3>3, <3>5 DEF HeadersInv, HeaderTypes, e
  <2> QED
    BY <2>2, <2>3
<1>10. CASE ReadRemoteResponseHeader
  <2>1. /\ pc = "await" /\ pc' = "Response" /\ received' \in Fields
        /\ response_header' = received'
        /\ UNCHANGED <<rules, client_header, request_header, forwarded, executed>>
    BY <1>10, HeadersAssumption DEF ReadRemoteResponseHeader, history
  <2>2. ProtectedUntouched' /\ UntargetedKept'
    BY <1>1, <2>1, Zenon DEF HeadersInv, ProtectedUntouched, UntargetedKept, Untargeted, Protected, Targeted
  <2> QED
    BY <1>1, <2>1, <2>2 DEF HeadersInv, HeaderTypes
<1>11. CASE ActionThrows
  <2>1. /\ UNCHANGED <<rules, client_header, request_header, received,
                       response_header, executed, forwarded>>
        /\ pc \in Phases /\ pc' = "thrown"
    BY <1>11 DEF ActionThrows, Acting, Applying, exchange, history
  <2> QED
    BY <1>1, <1>4, <2>1 DEF HeaderTypes
<1>12. CASE UNCHANGED vars
  <2>1. UNCHANGED <<rules, client_header, request_header, received, response_header,
                    executed, pc, forwarded>>
    BY <1>12 DEF vars, history
  <2>2. \A p : Targeted(p)' = Targeted(p)
    BY <2>1 DEF Targeted
  <2>3. ProtectedUntouched' /\ UntargetedKept'
    BY <1>1, <2>1, <2>2 DEF HeadersInv, ProtectedUntouched, UntargetedKept, Protected,
       Untargeted
  <2> QED
    BY <1>1, <2>1, <2>3 DEF HeadersInv, HeaderTypes
<1> QED
  BY <1>2, <1>3, <1>5, <1>7, <1>8, <1>9, <1>10, <1>11, <1>12 DEF Next

-----------------------------------------------------------------------------
(***************************************************************************)
(* The loops.  A phase that has not begun, and one that a step leaves as   *)
(* it is.                                                                  *)
(***************************************************************************)
CursorTypes ==
  /\ pc \in Phases \cup {"read", "validate", "convert", "refused", "build",
                           "await", "done", "thrown"}
  /\ rule \in 1 .. Len(rules) + 1 /\ action \in Nat
  /\ (rule <= Len(rules) => action <= Len(rules[rule].actions) + 1)
  /\ outcome \in [Phases -> {"none", "ok", "error"}]

LEMMA FreshPhase ==
  ASSUME NEW p, Fresh(p)
  PROVE  OrderInv(p) /\ HonourInv(p) /\ Done(p) = {} /\ Due(p) = {}
<1>1. executed[p] = << >> /\ DOMAIN << >> = {} /\ matched[p] = {} /\ evaluated[p] = {}
      /\ outcome[p] = "none"
  BY EmptySeq, LenProperties DEF Fresh
<1>2. DOMAIN executed[p] = {} /\ Done(p) = {} /\ Due(p) = {}
  BY <1>1 DEF Done, Due
<1>3. OrderInv(p)
  BY <1>1, <1>2 DEF OrderInv
<1>4. HonourInv(p)
  BY <1>1 DEF HonourInv
<1> QED
  BY <1>2, <1>3, <1>4

LEMMA FreshPhasePrimed ==
  ASSUME NEW p, Fresh(p)'
  PROVE  OrderInv(p)' /\ HonourInv(p)' /\ Done(p)' = {} /\ Due(p)' = {}
<1>1. executed'[p] = << >> /\ DOMAIN << >> = {} /\ matched'[p] = {} /\ evaluated'[p] = {}
      /\ outcome'[p] = "none"
  BY EmptySeq, LenProperties DEF Fresh
<1>2. DOMAIN executed'[p] = {} /\ Done(p)' = {} /\ Due(p)' = {}
  BY <1>1 DEF Done, Due
<1>3. OrderInv(p)'
  BY <1>1, <1>2 DEF OrderInv
<1>4. HonourInv(p)'
  BY <1>1 DEF HonourInv
<1> QED
  BY <1>2, <1>3, <1>4

\* At the first rule of a phase.
LEMMA FreshCursor ==
  ASSUME NEW p, Fresh(p)', rule' = 1, action' = 0, IsSeq(rules')
  PROVE  CursorInv(p)'
<1>1. Done(p)' = {} /\ Due(p)' = {}
  BY FreshPhasePrimed
<1>2. matched'[p] = {} /\ evaluated'[p] = {}
  BY DEF Fresh
<1>3. \A k \in DOMAIN rules' : ~Passed(k)'
  BY DEF IsSeq, Passed
<1>4. evaluated'[p] = {k \in DOMAIN rules' : Wanted(k, p)' /\ Passed(k)'}
  BY <1>2, <1>3
<1> QED
  BY <1>1, <1>2, <1>4 DEF CursorInv

LEMMA PhaseKept ==
  ASSUME NEW p, rules' = rules, OrderInv(p), HonourInv(p),
         matched'[p] = matched[p], evaluated'[p] = evaluated[p],
         executed'[p] = executed[p], outcome'[p] = outcome[p]
  PROVE  OrderInv(p)' /\ HonourInv(p)' /\ Done(p)' = Done(p) /\ Due(p)' = Due(p)
<1>1. Done(p)' = Done(p)
  BY DEF Done
<1>2. Due(p)' = Due(p)
  BY DEF Due
<1>3. OrderInv(p)'
  BY <1>1, <1>2 DEF OrderInv
<1>4. HonourInv(p)'
  BY DEF HonourInv, Wanted
<1> QED
  BY <1>1, <1>2, <1>3, <1>4

\* What executed actions and due actions are.
LEMMA DoneFacts ==
  ASSUME IInv, NEW p \in Phases, NEW x \in Done(p)
  PROVE  x \in Nat \X Nat /\ x[1] \in Nat /\ x[2] \in Nat
<1>1. executed[p] \in Seq(Nat \X Nat)
  BY DEF IInv, LoopInv, HistoryTypes
<1>2. PICK k \in DOMAIN executed[p] : x = executed[p][k]
  BY DEF Done
<1>3. x \in Nat \X Nat
  BY <1>1, <1>2, ElementOfSeq, LenProperties
<1> QED
  BY <1>3

LEMMA DueFacts ==
  ASSUME IInv, NEW p \in Phases, NEW x \in Due(p)
  PROVE  /\ x[1] \in matched[p] /\ x[1] \in DOMAIN rules /\ x[1] \in 1 .. Len(rules)
         /\ x[2] \in DOMAIN rules[x[1]].actions /\ x[2] \in 1 .. Len(rules[x[1]].actions)
         /\ x[1] \in Nat /\ x[2] \in Nat /\ x[2] >= 1 /\ x = <<x[1], x[2]>>
<1>1. PICK k \in matched[p] : \E a \in DOMAIN rules[k].actions : x = <<k, a>>
  BY DEF Due
<1>2. PICK a \in DOMAIN rules[k].actions : x = <<k, a>>
  BY <1>1
<1>3. x[1] = k /\ x[2] = a
  BY <1>2
<1>4. matched[p] \subseteq DOMAIN rules
  BY DEF IInv, LoopInv, HistoryTypes
<1>5. k \in DOMAIN rules /\ k \in 1 .. Len(rules) /\ IsSeq(rules[k].actions)
  BY <1>4 DEF IInv, DocumentInv, IsSeq, RuleOK
<1>6. a \in 1 .. Len(rules[k].actions) /\ a \in Nat /\ a >= 1 /\ k \in Nat
  BY <1>5 DEF IsSeq, IInv, DocumentInv
<1> QED
  BY <1>2, <1>3, <1>5, <1>6

\* What a step within phase p leaves to be shown.
LEMMA WithinPhase ==
  ASSUME IInv, NEW p \in Phases, pc = p, pc' = p, rules' = rules, outcome' = outcome,
         \A q \in Phases : q # p =>
           /\ matched'[q] = matched[q] /\ evaluated'[q] = evaluated[q]
           /\ executed'[q] = executed[q],
         HistoryTypes', CursorInv(p)', OrderInv(p)', HonourInv(p)'
  PROVE  LoopInv'
<1>1. PhasesInTurn'
  BY DEF IInv, LoopInv, PhasesInTurn, Fresh, Phases
<1>2. ASSUME NEW q \in Phases, q # p PROVE OrderInv(q)' /\ HonourInv(q)'
  <2>1. OrderInv(q) /\ HonourInv(q) /\ outcome'[q] = outcome[q]
    BY DEF IInv, LoopInv
  <2> QED
    BY <1>2, <2>1, PhaseKept
<1>3. \A q \in Phases : OrderInv(q)' /\ HonourInv(q)'
  BY <1>2
<1> QED
  BY <1>1, <1>3 DEF LoopInv

LEMMA AtRuleFacts ==
  ASSUME IInv, pc \in Phases, rule <= Len(rules)
  PROVE  /\ rule \in DOMAIN rules /\ rule \in Nat /\ Len(rules) \in Nat
         /\ DOMAIN rules = 1 .. Len(rules)
         /\ RuleOK(rules[rule]) /\ Len(rules[rule].actions) \in Nat
         /\ DOMAIN rules[rule].actions = 1 .. Len(rules[rule].actions)
<1>1. /\ Len(rules) \in Nat /\ DOMAIN rules = 1 .. Len(rules)
      /\ rule \in 1 .. Len(rules) + 1
  BY DEF IInv, DocumentInv, IsSeq, TypeOK
<1>2. rule \in DOMAIN rules /\ rule \in Nat
  BY <1>1
<1>3. RuleOK(rules[rule])
  BY <1>2 DEF IInv, DocumentInv
<1> QED
  BY <1>1, <1>2, <1>3 DEF RuleOK, IsSeq

\* The next rule's turn; all that is due so far has been executed.
LEMMA NextRule ==
  ASSUME IInv, NEW p \in Phases, pc = p, rule <= Len(rules), rule' = rule + 1,
         action' = 0, UNCHANGED <<rules, pc, matched, executed, outcome>>,
         evaluated' = [evaluated EXCEPT ![p] =
                         {k \in DOMAIN rules : Wanted(k, p) /\ k <= rule}],
         action > 0 => action > Len(rules[rule].actions),
         action = 0 => (Wanted(rule, p) => rules[rule].match # NoMatch)
  PROVE  LoopInv' /\ CursorTypes'
<1>1. /\ rule \in DOMAIN rules /\ rule \in Nat /\ Len(rules) \in Nat /\ action \in Nat
      /\ DOMAIN rules = 1 .. Len(rules)
      /\ DOMAIN rules[rule].actions = 1 .. Len(rules[rule].actions)
  BY AtRuleFacts DEF IInv, TypeOK
<1>2. CursorInv(p) /\ OrderInv(p) /\ HonourInv(p) /\ HistoryTypes /\ outcome[p] = "none"
  BY DEF IInv, LoopInv, PhasesInTurn
<1>3. evaluated' \in [Phases -> SUBSET DOMAIN rules]
  BY <1>2 DEF HistoryTypes
<1>4. HistoryTypes'
  BY <1>2, <1>3 DEF HistoryTypes
<1>5. evaluated'[p] = {k \in DOMAIN rules : Wanted(k, p) /\ k <= rule}
  BY <1>2 DEF HistoryTypes
<1>6. Done(p)' = Done(p) /\ Due(p)' = Due(p)
  BY DEF Done, Due
<1>7. CursorInv(p)'
  <2>1. \A k \in matched'[p] : Passed(k)'
    BY <1>1, <1>2 DEF CursorInv, Passed, HistoryTypes
  <2>2. evaluated'[p] = {k \in DOMAIN rules' : Wanted(k, p)' /\ Passed(k)'}
    <3>1. \A k \in DOMAIN rules : Passed(k)' <=> k <= rule
      BY <1>1 DEF Passed
    <3>2. \A k \in DOMAIN rules : Wanted(k, p)' <=> Wanted(k, p)
      BY DEF Wanted
    <3> QED
      BY <1>5, <3>1, <3>2
  <2>3. ASSUME NEW x \in Done(p) PROVE Before(x, Here')
    <3>1. x[1] \in Nat /\ x[2] \in Nat /\ Before(x, Here)
      BY <1>2, DoneFacts DEF CursorInv
    <3> QED
      BY <1>1, <3>1 DEF Before, Here
  <2>4. ASSUME NEW x \in Due(p), Before(x, Here') PROVE x \in Done(p)
    <3>1. /\ x[1] \in matched[p] /\ x[1] \in Nat /\ x[2] \in Nat
          /\ x[2] \in 1 .. Len(rules[x[1]].actions)
      BY DueFacts
    <3>2. Passed(x[1])
      BY <1>2, <3>1 DEF CursorInv
    <3>3. Before(x, Here)
      BY <1>1, <3>1, <3>2, AtRuleFacts DEF Passed, Before, Here
    <3> QED
      BY <1>2, <3>3 DEF CursorInv
  <2>5. ~(action' > 0)
    BY <1>1
  <2> QED
    BY <1>6, <2>1, <2>2, <2>3, <2>4, <2>5 DEF CursorInv
<1>8. OrderInv(p)'
  BY <1>2, <1>6 DEF OrderInv
<1>9. HonourInv(p)'
  <2>1. ASSUME NEW k \in evaluated'[p], rules[k].match = NoMatch PROVE k \in matched[p]
    <3>1. k \in DOMAIN rules /\ Wanted(k, p) /\ k <= rule
      BY <1>5
    <3>2. CASE k < rule \/ action > 0
      <4>1. Passed(k)
        BY <1>1, <3>1, <3>2 DEF Passed
      <4>2. k \in evaluated[p]
        BY <1>2, <3>1, <4>1 DEF CursorInv
      <4> QED
        BY <1>2, <2>1, <4>2 DEF HonourInv
    <3>3. CASE ~(k < rule \/ action > 0)
      <4>1. k = rule /\ action = 0
        BY <1>1, <3>1, <3>3
      <4> QED
        BY <2>1, <3>1, <4>1
    <3> QED
      BY <3>2, <3>3
  <2> QED
    BY <1>2, <2>1 DEF HonourInv
<1>10. LoopInv'
  <2>1. \A q \in Phases : q # p => evaluated'[q] = evaluated[q]
    BY <1>2 DEF HistoryTypes
  <2> QED
    BY <1>4, <1>7, <1>8, <1>9, <2>1, WithinPhase
<1>11. CursorTypes'
  <2>1. rule + 1 \in 1 .. Len(rules) + 1
    BY <1>1
  <2>2. ASSUME rule + 1 <= Len(rules) PROVE 0 <= Len(rules[rule + 1].actions) + 1
    <3>1. rule + 1 \in DOMAIN rules
      BY <1>1, <2>2
    <3>2. Len(rules[rule + 1].actions) \in Nat
      BY <3>1 DEF IInv, DocumentInv, RuleOK, IsSeq
    <3> QED
      BY <3>2
  <2> QED
    BY <2>1, <2>2 DEF CursorTypes, IInv, TypeOK
<1> QED
  BY <1>10, <1>11

\* The rule matches: its actions become due.
LEMMA RuleMatches ==
  ASSUME IInv, NEW p \in Phases, pc = p, rule <= Len(rules), action = 0, action' = 1,
         Wanted(rule, p), UNCHANGED <<rules, pc, rule, executed, outcome>>,
         matched' = [matched EXCEPT ![p] = @ \cup {rule}],
         evaluated' = [evaluated EXCEPT ![p] = @ \cup {rule}]
  PROVE  LoopInv' /\ CursorTypes'
<1>1. /\ rule \in DOMAIN rules /\ rule \in Nat /\ Len(rules) \in Nat
      /\ DOMAIN rules = 1 .. Len(rules) /\ Len(rules[rule].actions) \in Nat
      /\ DOMAIN rules[rule].actions = 1 .. Len(rules[rule].actions)
  BY AtRuleFacts
<1>2. CursorInv(p) /\ OrderInv(p) /\ HonourInv(p) /\ HistoryTypes /\ outcome[p] = "none"
  BY DEF IInv, LoopInv, PhasesInTurn
<1>3. /\ matched'[p] = matched[p] \cup {rule} /\ evaluated'[p] = evaluated[p] \cup {rule}
      /\ \A q \in Phases : q # p => /\ matched'[q] = matched[q]
                                    /\ evaluated'[q] = evaluated[q]
  BY <1>2 DEF HistoryTypes
<1>4. HistoryTypes'
  BY <1>1, <1>2 DEF HistoryTypes
<1>5. Done(p)' = Done(p)
  BY DEF Done
<1>6. Due(p)' = Due(p) \cup {<<rule, a>> : a \in DOMAIN rules[rule].actions}
  BY <1>3 DEF Due
<1>7. ASSUME NEW x \in Done(p) PROVE x[1] \in Nat /\ x[2] \in Nat /\ x[1] < rule
  <2>1. x[1] \in Nat /\ x[2] \in Nat /\ Before(x, Here)
    BY <1>2, DoneFacts DEF CursorInv
  <2> QED
    BY <1>1, <2>1 DEF Before, Here
<1>8. ASSUME NEW x \in Due(p)', x \notin Due(p)
      PROVE  x[1] = rule /\ x[2] \in Nat /\ x[2] >= 1
  <2>1. PICK a \in DOMAIN rules[rule].actions : x = <<rule, a>>
    BY <1>6, <1>8
  <2> QED
    BY <1>1, <2>1
<1>9. ASSUME NEW x \in Due(p) PROVE x \in Done(p)
  <2>1. x[1] \in matched[p] /\ x[1] \in Nat /\ x[2] \in Nat
    BY DueFacts
  <2>2. Passed(x[1])
    BY <1>2, <2>1 DEF CursorInv
  <2>3. Before(x, Here)
    BY <1>1, <2>1, <2>2 DEF Passed, Before, Here
  <2> QED
    BY <1>2, <2>3 DEF CursorInv
<1>10. CursorInv(p)'
  <2>1. \A k \in matched'[p] : Passed(k)'
    BY <1>1, <1>2, <1>3 DEF CursorInv, Passed, HistoryTypes
  <2>2. evaluated'[p] = {k \in DOMAIN rules' : Wanted(k, p)' /\ Passed(k)'}
    <3>1. \A k \in DOMAIN rules : Passed(k)' <=> Passed(k) \/ k = rule
      BY <1>1 DEF Passed
    <3>2. \A k \in DOMAIN rules : Wanted(k, p)' <=> Wanted(k, p)
      BY DEF Wanted
    <3> QED
      BY <1>1, <1>2, <1>3, <3>1, <3>2 DEF CursorInv
  <2>3. \A x \in Done(p) : Before(x, Here')
    BY <1>1, <1>7 DEF Before, Here
  <2>4. ASSUME NEW x \in Due(p)', Before(x, Here') PROVE x \in Done(p)
    <3>1. CASE x \notin Due(p)
      BY <1>1, <1>8, <2>4, <3>1 DEF Before, Here
    <3> QED
      BY <1>9, <3>1
  <2>5. rule' <= Len(rules') /\ Wanted(rule, p)' /\ rule' \in matched'[p]
    BY <1>3 DEF Wanted
  <2> QED
    BY <1>5, <2>1, <2>2, <2>3, <2>4, <2>5 DEF CursorInv
<1>11. OrderInv(p)'
  <2>1. ASSUME NEW x \in Due(p)', NEW y \in Done(p), Before(x, y) PROVE x \in Done(p)
    <3>1. CASE x \notin Due(p)
      BY <1>1, <1>7, <1>8, <2>1, <3>1 DEF Before
    <3> QED
      BY <1>9, <3>1
  <2>2. Done(p) \subseteq Due(p)'
    BY <1>2, <1>6 DEF OrderInv
  <2> QED
    BY <1>2, <1>5, <2>1, <2>2 DEF OrderInv
<1>12. HonourInv(p)'
  BY <1>2, <1>3 DEF HonourInv
<1>13. LoopInv'
  BY <1>3, <1>4, <1>10, <1>11, <1>12, WithinPhase
<1>14. CursorTypes'
  BY <1>1 DEF CursorTypes, IInv, TypeOK
<1> QED
  BY <1>13, <1>14

\* An action is executed.
LEMMA ActionExecuted ==
  ASSUME IInv, NEW p \in Phases, pc = p, Acting, action <= Len(rules[rule].actions),
         Executed, UNCHANGED <<rules, matched, evaluated>>
  PROVE  LoopInv' /\ CursorTypes'
<1>1. /\ rule \in DOMAIN rules /\ rule \in Nat /\ Len(rules) \in Nat
      /\ DOMAIN rules = 1 .. Len(rules) /\ Len(rules[rule].actions) \in Nat
      /\ DOMAIN rules[rule].actions = 1 .. Len(rules[rule].actions)
      /\ action \in Nat /\ action > 0 /\ rule <= Len(rules)
      /\ action \in DOMAIN rules[rule].actions
  BY AtRuleFacts, CurrentIsOK DEF IInv, TypeOK, Acting, Applying
<1>2. CursorInv(p) /\ OrderInv(p) /\ HonourInv(p) /\ HistoryTypes /\ outcome[p] = "none"
  BY DEF IInv, LoopInv, PhasesInTurn
<1>3. /\ executed' = [executed EXCEPT ![p] = Append(@, Here)]
      /\ action' = action + 1 /\ UNCHANGED <<pc, rule, forwarded, outcome>>
  BY DEF Executed, Here
<1>4. Here \in Nat \X Nat /\ Here[1] = rule /\ Here[2] = action
  BY <1>1 DEF Here
<1> DEFINE e == executed[p]
           n == Len(e)
           x == Append(e, Here)
<1>5. /\ executed'[p] = x /\ \A q \in Phases : q # p => executed'[q] = executed[q]
      /\ e \in Seq(Nat \X Nat)
  BY <1>2, <1>3 DEF HistoryTypes
<1>6. /\ n \in Nat /\ DOMAIN e = 1 .. n /\ x \in Seq(Nat \X Nat)
      /\ DOMAIN x = 1 .. n + 1 /\ x[n + 1] = Here
      /\ \A k \in 1 .. n : x[k] = e[k]
  BY <1>4, <1>5, AppendProperties, LenProperties
<1> HIDE DEF x, n
<1>7. HistoryTypes'
  BY <1>2, <1>3, <1>5, <1>6 DEF HistoryTypes, x
<1>8. Done(p)' = Done(p) \cup {Here}
  <2>1. Done(p)' = {x[k] : k \in 1 .. n + 1} /\ Done(p) = {e[k] : k \in 1 .. n}
    BY <1>5, <1>6 DEF Done
  <2>2. \A k : k \in 1 .. n + 1 <=> k \in 1 .. n \/ k = n + 1
    BY <1>6
  <2> HIDE DEF e
  <2>3. Done(p)' \subseteq Done(p) \cup {Here}
    BY <1>6, <2>1, <2>2
  <2>4. Done(p) \subseteq Done(p)' /\ Here \in Done(p)'
    BY <1>6, <2>1, <2>2
  <2> QED
    BY <2>3, <2>4
<1>9. Due(p)' = Due(p) /\ Here \in Due(p)
  <2>1. Due(p)' = Due(p)
    BY DEF Due
  <2>2. rule \in matched[p]
    BY <1>1, <1>2 DEF CursorInv
  <2> QED
    BY <1>1, <2>1, <2>2 DEF Due, Here
<1>10. CursorInv(p)'
  <2>1. \A k : Passed(k)' <=> Passed(k)
    BY <1>1, <1>3 DEF Passed
  <2>2. \A k : Wanted(k, p)' <=> Wanted(k, p)
    BY DEF Wanted
  <2>3. evaluated'[p] = {k \in DOMAIN rules' : Wanted(k, p)' /\ Passed(k)'}
    BY <1>2, <2>1, <2>2 DEF CursorInv
  <2>4. \A y \in Done(p)' : Before(y, Here')
    <3>1. \A y \in Done(p) : y[1] \in Nat /\ y[2] \in Nat /\ Before(y, Here)
      BY <1>2, DoneFacts DEF CursorInv
    <3> QED
      BY <1>1, <1>3, <1>4, <1>8, <3>1 DEF Before, Here
  <2>5. ASSUME NEW y \in Due(p), Before(y, Here') PROVE y \in Done(p)'
    <3>1. y[1] \in Nat /\ y[2] \in Nat /\ y = <<y[1], y[2]>>
      BY DueFacts
    <3>2. Before(y, Here) \/ (y[1] = rule /\ y[2] = action)
      BY <1>1, <1>3, <2>5, <3>1 DEF Before, Here
    <3>3. Before(y, Here) \/ y = Here
      BY <3>1, <3>2 DEF Here
    <3> QED
      BY <1>2, <1>8, <3>3 DEF CursorInv
  <2>6. rule' <= Len(rules') /\ Wanted(rule, p)' /\ rule' \in matched'[p]
    BY <1>1, <1>2, <1>3, <2>2 DEF CursorInv
  <2>7. \A k \in matched'[p] : Passed(k)'
    BY <1>2, <2>1 DEF CursorInv
  <2> QED
    BY <1>9, <2>3, <2>4, <2>5, <2>6, <2>7 DEF CursorInv
<1>11. OrderInv(p)'
  <2>1. ASSUME NEW i \in DOMAIN x, NEW j \in DOMAIN x, i < j PROVE Before(x[i], x[j])
    <3>1. i \in 1 .. n /\ x[i] = e[i]
      <4>1. n \in Nat /\ i \in 1 .. n + 1 /\ j \in 1 .. n + 1
        BY <1>6
      <4>2. i \in 1 .. n
        BY ONLY <2>1, <4>1
      <4> QED
        BY ONLY <1>6, <4>2
    <3>2. CASE j = n + 1
      <4>1. e[i] \in Done(p) /\ x[j] = Here
        BY <1>6, <3>1, <3>2 DEF Done
      <4>2. Before(e[i], Here)
        BY <1>2, <4>1 DEF CursorInv
      <4> QED
        BY <3>1, <4>1, <4>2
    <3>3. CASE j # n + 1
      <4>1. j \in 1 .. n /\ x[j] = e[j]
        BY <1>6, <3>3, SMTT(40)
      <4> QED
        BY <1>2, <1>6, <2>1, <3>1, <4>1 DEF OrderInv
    <3> QED
      BY <3>2, <3>3
  <2>2. Done(p)' \subseteq Due(p)
    BY <1>2, <1>8, <1>9 DEF OrderInv
  <2>3. ASSUME NEW y \in Due(p), NEW z \in Done(p)', Before(y, z) PROVE y \in Done(p)'
    BY <1>2, <1>8, <2>3 DEF OrderInv, CursorInv
  <2> QED
    BY <1>2, <1>3, <1>5, <1>9, <2>1, <2>2, <2>3 DEF OrderInv
<1>12. HonourInv(p)'
  BY <1>2, <1>3 DEF HonourInv, Wanted
<1>13. LoopInv'
  BY <1>3, <1>5, <1>7, <1>10, <1>11, <1>12, WithinPhase
<1>14. CursorTypes'
  BY <1>1, <1>3 DEF CursorTypes, IInv, TypeOK
<1> QED
  BY <1>13, <1>14

\* What the end of a phase leaves to be shown.
LEMMA PhaseEnds ==
  ASSUME IInv, NEW p \in Phases, pc = p, NEW r \in {"ok", "error"}, Finish(r),
         rules' = rules, HistoryTypes', OrderInv(p)', HonourInv(p)',
         \A q \in Phases : q # p =>
           /\ matched'[q] = matched[q] /\ evaluated'[q] = evaluated[q]
           /\ executed'[q] = executed[q]
  PROVE  LoopInv' /\ CursorTypes'
<1>1. /\ outcome \in [Phases -> {"none", "ok", "error"}]
      /\ outcome' = [outcome EXCEPT ![p] = r] /\ rule' = 1 /\ action' = 0
      /\ pc' = IF p = "Request" THEN "await" ELSE "done"
      /\ Len(rules) \in Nat
  BY DEF Finish, IInv, TypeOK, DocumentInv, IsSeq
<1>2. \A q \in Phases : q # p => outcome'[q] = outcome[q]
  BY <1>1
<1>3. pc' \notin Phases
  BY <1>1 DEF Phases
<1>4. PhasesInTurn'
  <2>1. ASSUME p = "Request" PROVE Fresh("Response")'
    BY <1>2, <2>1 DEF IInv, LoopInv, PhasesInTurn, Fresh, Phases
  <2> QED
    BY <1>1, <1>3, <2>1 DEF PhasesInTurn, Phases
<1>5. ASSUME NEW q \in Phases PROVE OrderInv(q)' /\ HonourInv(q)'
  <2>1. OrderInv(q) /\ HonourInv(q)
    BY DEF IInv, LoopInv
  <2>2. CASE q # p
    BY <1>2, <2>1, <2>2, PhaseKept
  <2> QED
    BY <2>2
<1>6. LoopInv'
  BY <1>3, <1>4, <1>5 DEF LoopInv
<1>7. CursorTypes'
  <2>1. ASSUME 1 <= Len(rules) PROVE 0 <= Len(rules[1].actions) + 1
    <3>1. Len(rules[1].actions) \in Nat
      BY <1>1, <2>1 DEF IInv, DocumentInv, RuleOK, IsSeq
    <3> QED
      BY <3>1
  <2>2. outcome' \in [Phases -> {"none", "ok", "error"}]
    BY <1>1
  <2> QED
    BY <1>1, <2>1, <2>2 DEF CursorTypes
<1> QED
  BY <1>6, <1>7

LEMMA RulesFail ==
  ASSUME IInv, NEW p \in Phases, pc = p, rule <= Len(rules), Finish("error"),
         UNCHANGED <<rules, matched, executed>>,
         evaluated' \in {evaluated, [evaluated EXCEPT ![p] = @ \cup {rule}]}
  PROVE  LoopInv' /\ CursorTypes'
<1>1. OrderInv(p) /\ HistoryTypes /\ rule \in DOMAIN rules
  BY AtRuleFacts DEF IInv, LoopInv
<1>2. outcome'[p] = "error"
  BY DEF Finish, IInv, TypeOK
<1>3. HistoryTypes' /\ \A q \in Phases : q # p => evaluated'[q] = evaluated[q]
  BY <1>1 DEF HistoryTypes
<1>4. Done(p)' = Done(p) /\ Due(p)' = Due(p)
  BY DEF Done, Due
<1>5. OrderInv(p)' /\ HonourInv(p)'
  BY <1>1, <1>2, <1>4 DEF OrderInv, HonourInv
<1> QED
  BY <1>3, <1>5, PhaseEnds

LEMMA RulesSucceed ==
  ASSUME IInv, NEW p \in Phases, pc = p, rule > Len(rules), Finish("ok"),
         UNCHANGED <<rules, matched, executed, evaluated>>
  PROVE  LoopInv' /\ CursorTypes'
<1>1. /\ OrderInv(p) /\ HonourInv(p) /\ CursorInv(p) /\ HistoryTypes
      /\ outcome[p] = "none"
      /\ Len(rules) \in Nat /\ DOMAIN rules = 1 .. Len(rules) /\ rule \in Nat
  BY DEF IInv, LoopInv, PhasesInTurn, TypeOK, DocumentInv, IsSeq
<1>2. outcome'[p] = "ok"
  BY DEF Finish, IInv, TypeOK
<1>3. Done(p)' = Done(p) /\ Due(p)' = Due(p)
  BY DEF Done, Due
<1>4. ASSUME NEW x \in Due(p) PROVE x \in Done(p)
  <2>1. x[1] \in 1 .. Len(rules)
    BY DueFacts
  <2>2. Before(x, Here)
    BY <1>1, <2>1 DEF Before, Here
  <2> QED
    BY <1>1, <2>2 DEF CursorInv
<1>5. OrderInv(p)'
  <2>1. Done(p) = Due(p)
    BY <1>1, <1>4 DEF OrderInv
  <2> QED
    BY <1>1, <1>3, <2>1 DEF OrderInv
<1>6. evaluated[p] = {k \in DOMAIN rules : Wanted(k, p)}
  <2>1. \A k \in DOMAIN rules : Passed(k)
    BY <1>1 DEF Passed
  <2> QED
    BY <1>1, <2>1 DEF CursorInv
<1>7. HonourInv(p)'
  BY <1>1, <1>2, <1>6 DEF HonourInv, Wanted
<1>8. HistoryTypes'
  BY <1>1 DEF HistoryTypes
<1> QED
  BY <1>5, <1>7, <1>8, PhaseEnds

LEMMA LoopStep == IInv /\ [Next]_vars => LoopInv' /\ CursorTypes'
<1> SUFFICES ASSUME IInv, [Next]_vars PROVE LoopInv' /\ CursorTypes'
  OBVIOUS
<1> USE DEF Phases
<1>1. LoopInv /\ PhasesInTurn /\ HistoryTypes /\ CursorTypes
  BY DEF IInv, LoopInv, TypeOK, CursorTypes
<1>2. IsSeq(rules') /\ \A k \in DOMAIN rules' : RuleOK(rules'[k])
  BY DocumentStep DEF DocumentInv
\* rule 1 comes first
<1>3. ASSUME rule' = 1, action' = 0
      PROVE  /\ rule' \in 1 .. Len(rules') + 1 /\ action' \in Nat
             /\ rule' <= Len(rules') => action' <= Len(rules'[rule'].actions) + 1
  <2>1. Len(rules') \in Nat /\ DOMAIN rules' = 1 .. Len(rules')
    BY <1>2 DEF IsSeq
  <2>2. ASSUME 1 <= Len(rules') PROVE Len(rules'[1].actions) \in Nat
    BY <1>2, <2>1, <2>2 DEF RuleOK, IsSeq
  <2> QED
    BY <1>3, <2>1, <2>2
<1>4. CASE ReadRuleFile \/ ValidateRuleFile \/ ConvertRuleFile
  <2>1. /\ UNCHANGED exchange /\ pc' \in {"validate", "convert", "refused", "build"}
        /\ pc \in {"read", "validate", "convert"}
    BY <1>4 DEF ReadRuleFile, ValidateRuleFile, ConvertRuleFile
  <2>2. UNCHANGED <<rule, action, matched, evaluated, executed, outcome>>
    BY <2>1 DEF exchange, history
  <2>3. rule = 1 /\ action = 0 /\ \A p \in Phases : Fresh(p)
    BY <1>1, <2>1 DEF PhasesInTurn
  <2>4. \A p \in Phases : Fresh(p)'
    BY <2>2, <2>3 DEF Fresh
  <2>5. HistoryTypes'
    BY <1>1, <2>2, <2>3 DEF HistoryTypes, Fresh
  <2>6. PhasesInTurn'
    BY <2>1, <2>2, <2>3, <2>4 DEF PhasesInTurn
  <2>7. LoopInv'
    BY <2>1, <2>4, <2>5, <2>6, FreshPhasePrimed DEF LoopInv
  <2> QED
    BY <1>1, <1>3, <2>1, <2>2, <2>3, <2>7 DEF CursorTypes
<1>5. ASSUME NEW p \in Phases, Fresh(p), pc' = p, pc \notin Phases \cup {"thrown"},
             UNCHANGED <<rules, rule, action, matched, evaluated, executed, outcome>>,
             p = "Request" => Fresh("Response")
      PROVE  LoopInv' /\ CursorTypes'
  <2>1. rule = 1 /\ action = 0
    BY <1>1, <1>5 DEF PhasesInTurn
  <2>2. Fresh(p)' /\ outcome'[p] = "none" /\ (p = "Request" => Fresh("Response")')
    BY <1>5 DEF Fresh
  <2>3. CursorInv(p)'
    BY <1>2, <1>5, <2>1, <2>2, FreshCursor
  <2>4. \A q \in Phases : OrderInv(q)' /\ HonourInv(q)'
    BY <1>1, <1>5, PhaseKept DEF LoopInv
  <2>5. HistoryTypes' /\ PhasesInTurn'
    BY <1>1, <1>5, <2>2 DEF HistoryTypes, PhasesInTurn
  <2> QED
    BY <1>1, <1>3, <1>5, <2>1, <2>3, <2>4, <2>5 DEF LoopInv, CursorTypes
<1>6. CASE BuildRemoteRequestHeader
  <2>1. /\ pc = "build" /\ pc' = "Request"
        /\ UNCHANGED <<rules, rule, action, matched, evaluated, executed, outcome>>
    BY <1>6 DEF BuildRemoteRequestHeader, history
  <2> QED
    BY <1>1, <1>5, <2>1 DEF PhasesInTurn
<1>7. CASE ReadRemoteResponseHeader
  <2>1. /\ pc = "await" /\ pc' = "Response"
        /\ UNCHANGED <<rules, rule, action, matched, evaluated, executed, outcome>>
    BY <1>7 DEF ReadRemoteResponseHeader, history
  <2> QED
    BY <1>1, <1>5, <2>1 DEF PhasesInTurn
<1>8. CASE SkipRule
  <2>1. /\ pc \in Phases /\ rule <= Len(rules) /\ action = 0 /\ ~Wanted(rule, pc)
        /\ rule' = rule + 1
        /\ UNCHANGED <<rules, pc, action, matched, evaluated, executed, outcome>>
    BY <1>8 DEF SkipRule, AtRule, Applying, history
  <2>2. evaluated[pc] = {k \in DOMAIN rules : Wanted(k, pc) /\ k <= rule}
    <3>1. evaluated[pc] = {k \in DOMAIN rules : Wanted(k, pc) /\ Passed(k)}
      BY <1>1, <2>1 DEF LoopInv, CursorInv
    <3>2. \A k \in DOMAIN rules : Passed(k) <=> k <= rule /\ k # rule
      BY <2>1, AtRuleFacts DEF Passed
    <3> QED
      BY <2>1, <3>1, <3>2
  <2>3. evaluated' = [evaluated EXCEPT ![pc] =
                        {k \in DOMAIN rules : Wanted(k, pc) /\ k <= rule}]
    BY <1>1, <2>1, <2>2 DEF HistoryTypes
  <2>4. ~(action > 0) /\ action' = 0
    BY <2>1
  <2> QED
    BY <2>1, <2>3, <2>4, NextRule
<1>9. ASSUME AtRule, Wanted(rule, pc), Evaluated, rule' = rule + 1,
             rules[rule].match # NoMatch,
             UNCHANGED <<rules, pc, action, matched, executed, outcome>>
      PROVE  LoopInv' /\ CursorTypes'
  <2>1. pc \in Phases /\ rule <= Len(rules) /\ action = 0
    BY <1>9 DEF AtRule, Applying
  <2>2. evaluated[pc] \cup {rule} = {k \in DOMAIN rules : Wanted(k, pc) /\ k <= rule}
    <3>1. evaluated[pc] = {k \in DOMAIN rules : Wanted(k, pc) /\ Passed(k)}
      BY <1>1, <2>1 DEF LoopInv, CursorInv
    <3>2. rule \in DOMAIN rules /\ \A k \in DOMAIN rules : Passed(k) <=> k <= rule /\ k # rule
      BY <2>1, AtRuleFacts DEF Passed
    <3>3. rule <= rule
      BY <1>1 DEF CursorTypes
    <3> QED
      BY <1>9, <3>1, <3>2, <3>3
  <2>3. evaluated' = [evaluated EXCEPT ![pc] =
                        {k \in DOMAIN rules : Wanted(k, pc) /\ k <= rule}]
    BY <1>9, <2>2 DEF Evaluated
  <2>4. ~(action > 0) /\ action' = 0
    BY <1>9, <2>1
  <2> QED
    BY <1>9, <2>1, <2>3, <2>4, NextRule
<1>10. CASE Unconditional
  <2>1. /\ pc \in Phases /\ rule <= Len(rules) /\ action = 0
        /\ UNCHANGED <<rules, pc, rule, executed, outcome>>
    BY <1>10 DEF Unconditional, AtRule, Applying
  <2> QED
    BY <1>10, <2>1, RuleMatches DEF Unconditional, Evaluated
<1>11. CASE ContextFails
  <2>1. /\ pc \in Phases /\ rule <= Len(rules) /\ Finish("error") /\ Evaluated
        /\ UNCHANGED <<rules, matched, executed>>
    BY <1>11 DEF ContextFails, AtRule, Applying
  <2> QED
    BY <2>1, RulesFail DEF Evaluated
<1>12. CASE EvaluateMatch
  <2>1. /\ AtRule /\ Wanted(rule, pc) /\ Evaluated /\ rules[rule].match # NoMatch
        /\ UNCHANGED <<rules, executed>>
        /\ \/ /\ matched' = [matched EXCEPT ![pc] = @ \cup {rule}] /\ action' = 1
              /\ UNCHANGED <<pc, rule, forwarded, outcome>>
           \/ /\ rule' = rule + 1
              /\ UNCHANGED <<pc, action, forwarded, outcome, matched>>
           \/ Finish("error") /\ UNCHANGED matched
    BY <1>12 DEF EvaluateMatch
  <2>2. pc \in Phases /\ rule <= Len(rules) /\ action = 0
    BY <2>1 DEF AtRule, Applying
  <2>3. CASE /\ matched' = [matched EXCEPT ![pc] = @ \cup {rule}] /\ action' = 1
             /\ UNCHANGED <<pc, rule, forwarded, outcome>>
    BY <2>1, <2>2, <2>3, RuleMatches DEF Evaluated
  <2>4. CASE rule' = rule + 1 /\ UNCHANGED <<pc, action, forwarded, outcome, matched>>
    BY <1>9, <2>1, <2>4
  <2>5. CASE Finish("error") /\ UNCHANGED matched
    BY <2>1, <2>2, <2>5, RulesFail DEF Evaluated
  <2> QED
    BY <2>1, <2>3, <2>4, <2>5
<1>13. CASE ExecuteRequestAction \/ ExecuteResponseAction
  <2>1. /\ pc \in Phases /\ Acting /\ action <= Len(rules[rule].actions)
        /\ (Finish("error") /\ UNCHANGED executed) \/ Executed
        /\ UNCHANGED <<rules, matched, evaluated>>
    BY <1>13 DEF ExecuteRequestAction, ExecuteResponseAction
  <2>2. CASE Finish("error") /\ UNCHANGED executed
    <3>1. rule <= Len(rules)
      BY <2>1 DEF Acting
    <3> QED
      BY <2>1, <2>2, <3>1, RulesFail
  <2>3. CASE Executed
    BY <2>1, <2>3, ActionExecuted
  <2> QED
    BY <2>1, <2>2, <2>3
<1>14. CASE RuleDone
  <2>1. /\ pc \in Phases /\ rule <= Len(rules) /\ action > 0
        /\ action > Len(rules[rule].actions)
        /\ rule' = rule + 1 /\ action' = 0
        /\ UNCHANGED <<rules, pc, matched, evaluated, executed, outcome>>
    BY <1>14 DEF RuleDone, Acting, Applying, history
  <2>2. evaluated[pc] = {k \in DOMAIN rules : Wanted(k, pc) /\ k <= rule}
    <3>1. evaluated[pc] = {k \in DOMAIN rules : Wanted(k, pc) /\ Passed(k)}
      BY <1>1, <2>1 DEF LoopInv, CursorInv
    <3>2. \A k \in DOMAIN rules : Passed(k) <=> k <= rule
      BY <2>1, AtRuleFacts DEF Passed
    <3> QED
      BY <3>1, <3>2
  <2>3. evaluated' = [evaluated EXCEPT ![pc] =
                        {k \in DOMAIN rules : Wanted(k, pc) /\ k <= rule}]
    BY <1>1, <2>1, <2>2 DEF HistoryTypes
  <2>4. action # 0
    BY <1>1, <2>1 DEF CursorTypes
  <2> QED
    BY <2>1, <2>3, <2>4, NextRule
<1>15. CASE RulesDone
  <2>1. /\ pc \in Phases /\ rule > Len(rules) /\ Finish("ok")
        /\ UNCHANGED <<rules, matched, executed, evaluated>>
    BY <1>15 DEF RulesDone, Applying, history
  <2> QED
    BY <2>1, RulesSucceed
<1>16. CASE ActionThrows
  <2>1. /\ pc \in Phases /\ pc' = "thrown"
        /\ UNCHANGED <<rules, rule, action, matched, evaluated, executed, outcome>>
    BY <1>16 DEF ActionThrows, Acting, Applying, exchange, history
  <2>2. \A q \in Phases : OrderInv(q)' /\ HonourInv(q)'
    BY <1>1, <2>1, PhaseKept DEF LoopInv
  <2>3. PhasesInTurn' /\ HistoryTypes' /\ CursorTypes'
    BY <1>1, <2>1 DEF PhasesInTurn, HistoryTypes, CursorTypes
  <2> QED
    BY <2>1, <2>2, <2>3 DEF LoopInv
<1>17. CASE UNCHANGED vars
  <2>1. UNCHANGED <<rules, rule, action, pc, matched, evaluated, executed, outcome>>
    BY <1>17 DEF vars, history
  <2>2. \A q \in Phases :
          /\ OrderInv(q)' /\ HonourInv(q)'
          /\ Done(q)' = Done(q) /\ Due(q)' = Due(q)
    BY <1>1, <2>1, PhaseKept DEF LoopInv
  <2>3. ASSUME NEW p \in Phases, pc = p PROVE CursorInv(p)'
    <3>1. CursorInv(p)
      BY <1>1, <2>3 DEF LoopInv
    <3> QED
      BY <2>1, <2>2, <3>1 DEF CursorInv, Passed, Wanted, Here
  <2>4. PhasesInTurn' /\ HistoryTypes' /\ CursorTypes'
    BY <1>1, <2>1 DEF PhasesInTurn, HistoryTypes, CursorTypes, Fresh
  <2> QED
    BY <2>1, <2>2, <2>3, <2>4 DEF LoopInv
<1> QED
  BY <1>4, <1>6, <1>7, <1>8, <1>10, <1>11, <1>12, <1>13, <1>14, <1>15, <1>16, <1>17 DEF Next

-----------------------------------------------------------------------------
LEMMA InitIInv == Init => IInv
<1> SUFFICES ASSUME Init PROVE IInv
  OBVIOUS
<1> USE DEF Init, Phases
<1>1. << >> \in Fields /\ IsSeq(<< >>) /\ DOMAIN << >> = {} /\ Len(<< >>) = 0
  BY EmptySeq, LenProperties DEF Fields, IsSeq
<1>2. TypeOK
  BY <1>1 DEF TypeOK
<1>3. DocumentInv
  BY <1>1 DEF DocumentInv, Loaded
<1>4. HeadersInv
  BY HeadersAssumption
     DEF HeadersInv, Built, ProtectedUntouched, UntargetedKept, Protected, Untargeted
<1>5. LoopInv
  <2>1. \A p \in Phases : Fresh(p)
    BY DEF Fresh
  <2>2. << >> \in Seq(Nat \X Nat)
    BY EmptySeq
  <2>3. HistoryTypes
    BY <2>2 DEF HistoryTypes
  <2>4. PhasesInTurn
    BY <2>1 DEF PhasesInTurn
  <2> QED
    BY <2>1, <2>3, <2>4, FreshPhase DEF LoopInv
<1> QED
  BY <1>2, <1>3, <1>4, <1>5 DEF IInv

LEMMA NextIInv == IInv /\ [Next]_vars => IInv'
<1> SUFFICES ASSUME IInv, [Next]_vars PROVE IInv'
  OBVIOUS
<1>1. HeaderTypes' /\ CursorTypes'
  BY HeadersStep, LoopStep
<1>2. TypeOK'
  BY <1>1 DEF TypeOK, HeaderTypes, CursorTypes
<1> QED
  BY <1>2, DocumentStep, HeadersStep, LoopStep DEF IInv

(***************************************************************************)
(* The inductive invariant holds in every state of every behaviour of      *)
(* LoadRulesFromFile, BuildRemoteRequestHeader and the two runs of         *)
(* ApplyRules.                                                             *)
(***************************************************************************)
THEOREM Inductive == Spec => []IInv
  BY InitIInv, NextIInv, PTL DEF Spec

(***************************************************************************)
(* The state of the rule engine always has its types: rule and action stay *)
(* within the bounds of the loops of ApplyRules, and what the header       *)
(* adapters leave is a header again.                                       *)
(***************************************************************************)
THEOREM TypeCorrect == Spec => []TypeOK
<1>1. IInv => TypeOK
  BY DEF IInv
<1> QED
  BY <1>1, Inductive, PTL

(***************************************************************************)
(* Whatever the rules say, and wherever ApplyRules stops, the fields of    *)
(* kUnsupportedHeaders are forwarded as they were received: the order and  *)
(* the values of all fields with these names, in any spelling.             *)
(***************************************************************************)
THEOREM ProtectedStays == Spec => []ProtectedUntouched
<1>1. IInv => ProtectedUntouched
  BY DEF IInv, HeadersInv
<1> QED
  BY <1>1, Inductive, PTL

(***************************************************************************)
(* The header operations of the rules touch the fields of the name they    *)
(* were given and no others.                                               *)
(***************************************************************************)
THEOREM UntargetedStays == Spec => []UntargetedKept
<1>1. IInv => UntargetedKept
  BY DEF IInv, HeadersInv
<1> QED
  BY <1>1, Inductive, PTL

(***************************************************************************)
(* Every document that kRuleSchema accepts is converted without an         *)
(* exception, to rules that ExecuteRequestAction and ExecuteResponseAction *)
(* can carry out.                                                          *)
(***************************************************************************)
THEOREM SchemaIsEnough == Spec => []SchemaSuffices
<1>1. IInv => SchemaSuffices
  <2> SUFFICES ASSUME IInv PROVE SchemaSuffices
    OBVIOUS
  <2>1. ASSUME pc = "convert" PROVE ConvertsConfig(text)
    <3>1. text \in Json /\ Valid(text)
      BY <2>1 DEF IInv, DocumentInv
    <3> QED
      BY <3>1, ConfigConverts
  <2>2. \A k \in DOMAIN rules : RuleOK(rules[k])
    BY DEF IInv, DocumentInv
  <2> QED
    BY <2>1, <2>2 DEF SchemaSuffices, RuleOK, ActionOK
<1> QED
  BY <1>1, Inductive, PTL

(***************************************************************************)
(* The loops of ApplyRules and ExecuteActions execute the actions that are *)
(* due in declaration order and without a gap, and all of them when they   *)
(* succeed.                                                                *)
(***************************************************************************)
THEOREM InOrder == Spec => []ExecutedInOrder
<1>1. IInv => ExecutedInOrder
  <2> SUFFICES ASSUME IInv PROVE ExecutedInOrder
    OBVIOUS
  <2>1. \A p \in Phases : OrderInv(p)
    BY DEF IInv, LoopInv
  <2> QED
    BY <2>1 DEF OrderInv, Done, ExecutedInOrder
<1> QED
  BY <1>1, Inductive, PTL

(***************************************************************************)
(* Between the text of the rule file and the loop of ApplyRules no rule is *)
(* lost, added, moved to the other phase, or given or robbed of its match. *)
(***************************************************************************)
THEOREM DocumentIsHonoured == Spec => []DocumentHonoured
<1>1. IInv => DocumentHonoured
  <2> SUFFICES ASSUME IInv, NEW p \in Phases, outcome[p] = "ok"
               PROVE  /\ evaluated[p] = WrittenFor(p)
                      /\ \A k \in WrittenFor(p) :
                           ~Has(Written(text)[k], "match") => k \in matched[p]
    BY DEF DocumentHonoured
  <2>1. pc \in {"Request", "await", "Response", "done", "thrown"}
    BY DEF IInv, LoopInv, PhasesInTurn, Fresh, Phases
  <2>2. text \in Json /\ Valid(text) /\ rules = AsRules(text)
    BY <2>1 DEF IInv, DocumentInv, Loaded, Phases
  <2>3. DOMAIN rules = DOMAIN Written(text)
    BY <2>2, ConfigConverts
  <2>4. ASSUME NEW k \in DOMAIN rules
        PROVE  /\ Wanted(k, p) <=> k \in WrittenFor(p)
               /\ ~Has(Written(text)[k], "match") => rules[k].match = NoMatch
    <3> DEFINE r == Written(text)[k]
    <3>1. /\ rules[k] = AsRule(r)
          /\ Has(r, "enabled") => At(r, "enabled").flag \in BOOLEAN
      BY <2>2, <2>4, ConfigConverts
    <3>2. /\ rules[k].phase = PhaseOf[At(r, "phase").text]
          /\ rules[k].enabled = (Has(r, "enabled") => At(r, "enabled").flag)
      BY <3>1 DEF AsRule
    <3>3. ~Has(r, "match") => rules[k].match = NoMatch
      BY <3>1 DEF AsRule, Given
    <3>4. rules[k].enabled <=> ~(Has(r, "enabled") /\ At(r, "enabled").flag = FALSE)
      BY <3>1, <3>2
    <3>5. k \in WrittenFor(p) <=>
            /\ PhaseOf[At(r, "phase").text] = p
            /\ ~(Has(r, "enabled") /\ At(r, "enabled").flag = FALSE)
      BY <2>3 DEF WrittenFor
    <3> QED
      BY <3>2, <3>3, <3>4, <3>5 DEF Wanted
  <2>5. WrittenFor(p) \subseteq DOMAIN rules
    BY <2>3 DEF WrittenFor
  <2>6. /\ evaluated[p] = {k \in DOMAIN rules : Wanted(k, p)}
        /\ \A k \in evaluated[p] : rules[k].match = NoMatch => k \in matched[p]
    BY DEF IInv, LoopInv, HonourInv
  <2>7. evaluated[p] = WrittenFor(p)
    BY <2>4, <2>5, <2>6
  <2> QED
    BY <2>4, <2>5, <2>6, <2>7
<1> QED
  BY <1>1, Inductive, PTL

=============================================================================
