------------------------------ MODULE RuleFile ------------------------------
(***************************************************************************)
(* What a rule file may say and what becomes of it: the JSON schema        *)
(* kRuleSchema on one side, the conversions to rule::Config on the other.  *)
(* Both describe the same document, each in its own words.                 *)
(*                                                                         *)
(* A JSON value has a type and, by type, a text, a number, a flag, items   *)
(* or members.  A text that is no JSON, such as one cut short by a failing *)
(* read, has the type "none".                                              *)
(***************************************************************************)
EXTENDS Integers, SequencesExt

CONSTANTS
  Lower,    \* header name -> its lower-case form
  Meaning,  \* text of a match expression -> what it computes
  Json      \* the JSON values that documents are made of

NoJson == [type |-> "none"]
Spelling == DOMAIN Lower        \* texts that match the pattern of a name

IsA(j, type) == j.type = type
OneOf(j, texts) == IsA(j, "string") /\ j.text \in texts
Has(j, k) == IsA(j, "object") /\ k \in DOMAIN j.members
At(j, k) == j.members[k]
Given(j, k) == Has(j, k) /\ ~IsA(At(j, k), "null")
NonEmpty(j) == IsA(j, "string") /\ j.text # ""
Items(j) == {j.items[k] : k \in DOMAIN j.items}

\* The parts of a JSON value are what its type says, and JSON values again.
ASSUME JsonAssumption ==
  \A j \in Json :
    /\ IsA(j, "string") => j.text \in STRING
    /\ IsA(j, "boolean") => j.flag \in BOOLEAN
    /\ IsA(j, "array") => j.items \in Seq(Json)
    /\ IsA(j, "object") => \A k \in DOMAIN j.members : At(j, k) \in Json

-----------------------------------------------------------------------------
(***************************************************************************)
(* The schema.                                                             *)
(***************************************************************************)
\* An object with additionalProperties false.
Shape(j, required, optional) ==
  /\ IsA(j, "object")
  /\ required \subseteq DOMAIN j.members
  /\ DOMAIN j.members \subseteq required \cup optional

ValidMatch(j) == Shape(j, {"expr"}, {}) /\ NonEmpty(At(j, "expr"))

ValidName(j) == OneOf(j, Spelling)
HeaderName(j) == Shape(j, {"name"}, {}) /\ ValidName(At(j, "name"))
HeaderNameValue(j) ==
  /\ Shape(j, {"name", "value"}, {})
  /\ ValidName(At(j, "name")) /\ IsA(At(j, "value"), "string")

\* mutant: the branch for remove is missing from allOf
ValidActionRemoveOpen(j) ==
  /\ Shape(j, {"op", "target", "data"}, {})
  /\ OneOf(At(j, "op"), {"set", "add", "replace", "remove"})
  /\ OneOf(At(j, "target"), {"header"})
  /\ OneOf(At(j, "op"), {"set", "add", "replace"}) => HeaderNameValue(At(j, "data"))

ValidAction(j) ==
  /\ Shape(j, {"op", "target", "data"}, {})
  /\ OneOf(At(j, "op"), {"set", "add", "replace", "remove"})
  /\ OneOf(At(j, "target"), {"header"})
  /\ OneOf(At(j, "op"), {"set", "add", "replace"}) => HeaderNameValue(At(j, "data"))
  /\ OneOf(At(j, "op"), {"remove"}) => HeaderName(At(j, "data"))

ValidRule(j) ==
  /\ Shape(j, {"name", "phase", "actions"}, {"enabled", "match"})
  /\ NonEmpty(At(j, "name"))
  /\ OneOf(At(j, "phase"), {"request", "response"})
  /\ Has(j, "enabled") => IsA(At(j, "enabled"), "boolean")
  /\ Has(j, "match") => ValidMatch(At(j, "match"))
  /\ IsA(At(j, "actions"), "array") /\ At(j, "actions").items # << >>
  /\ \A a \in Items(At(j, "actions")) : ValidAction(a)

ValidHttp(j) ==
  /\ Shape(j, {}, {"rules"})
  /\ Has(j, "rules") => /\ IsA(At(j, "rules"), "array")
                        /\ \A r \in Items(At(j, "rules")) : ValidRule(r)

Valid(j) ==
  /\ Shape(j, {"version"}, {"$schema", "http"})
  /\ IsA(At(j, "version"), "number") /\ At(j, "version").number = 1
  /\ Has(j, "$schema") => IsA(At(j, "$schema"), "string")
  /\ Has(j, "http") => ValidHttp(At(j, "http"))

-----------------------------------------------------------------------------
(***************************************************************************)
(* The conversions.  Converts...(j) says that none of them throws.  They   *)
(* take members they do not know, and any value where a text is wanted.    *)
(***************************************************************************)
OpOf == [set |-> "Set", add |-> "Add", remove |-> "Remove", replace |-> "Replace"]
PhaseOf == [request |-> "Request", response |-> "Response"]
NoMatch == [expr |-> ""]        \* std::nullopt

AsText(j) == IF IsA(j, "string") THEN j.text ELSE "JSON text"

ConvertsAction(j) ==
  /\ Has(j, "op") /\ OneOf(At(j, "op"), DOMAIN OpOf)
  /\ Has(j, "target") /\ OneOf(At(j, "target"), {"header"})
  /\ Has(j, "data") /\ Has(At(j, "data"), "name")
  /\ At(j, "op").text # "remove" => Has(At(j, "data"), "value")

\* data is HeaderNameData or HeaderNameValueData, by the operation.
AsAction(j) ==
  LET data == At(j, "data")
      op == At(j, "op").text
  IN  [op |-> OpOf[op],
       data |-> IF op = "remove" THEN [name |-> AsText(At(data, "name"))]
                ELSE [name |-> AsText(At(data, "name")),
                      value |-> AsText(At(data, "value"))]]

ConvertsRule(j) ==
  /\ Has(j, "name")
  /\ Has(j, "phase") /\ OneOf(At(j, "phase"), DOMAIN PhaseOf)
  /\ Has(j, "actions") /\ IsA(At(j, "actions"), "array")
  /\ \A a \in Items(At(j, "actions")) : ConvertsAction(a)
  /\ Has(j, "enabled") => IsA(At(j, "enabled"), "boolean")
  /\ Given(j, "match") => Has(At(j, "match"), "expr")

\* mutant: a rule is disabled unless it says otherwise
AsRuleDisabled(j) ==
  [phase |-> PhaseOf[At(j, "phase").text],
   enabled |-> Has(j, "enabled") /\ At(j, "enabled").flag,
   match |-> IF Given(j, "match")
               THEN [expr |-> AsText(At(At(j, "match"), "expr"))] ELSE NoMatch,
   actions |-> [k \in DOMAIN At(j, "actions").items |->
                  AsAction(At(j, "actions").items[k])]]

AsRule(j) ==
  [phase |-> PhaseOf[At(j, "phase").text],
   enabled |-> Has(j, "enabled") => At(j, "enabled").flag,
   match |-> IF Given(j, "match")
               THEN [expr |-> AsText(At(At(j, "match"), "expr"))] ELSE NoMatch,
   actions |-> [k \in DOMAIN At(j, "actions").items |->
                  AsAction(At(j, "actions").items[k])]]

Written(j) ==   \* the rules of a document that has any
  IF Given(j, "http") /\ Given(At(j, "http"), "rules")
    THEN At(At(j, "http"), "rules").items ELSE << >>

ConvertsConfig(j) ==
  /\ Has(j, "version") /\ IsA(At(j, "version"), "number")
  /\ Given(j, "http") =>
       /\ IsA(At(j, "http"), "object")
       /\ Given(At(j, "http"), "rules") =>
            /\ IsA(At(At(j, "http"), "rules"), "array")
            /\ \A r \in Items(At(At(j, "http"), "rules")) : ConvertsRule(r)

AsRules(j) == [k \in DOMAIN Written(j) |-> AsRule(Written(j)[k])]

=============================================================================
