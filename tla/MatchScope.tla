----------------------------- MODULE MatchScope -----------------------------
(***************************************************************************)
(* One rule's match at a time, from CreateMatchContext to the end of the   *)
(* loop's body in ApplyRules: a fresh context in the runtime that all      *)
(* sessions share, the ctx object built and injected into it, and the      *)
(* match expression evaluated.  Nothing suspends in between.               *)
(*                                                                         *)
(* The functions that build ctx are straight-line code that returns on the *)
(* first error, so each is the sequence of its calls.  Their local Values  *)
(* are kept in frames; an error pops them one function after the other.    *)
(***************************************************************************)
EXTENDS QjsValue, Sequences

CONSTANTS
  \* Header names as the adapters give them, none of them __proto__.
  RequestNames,    \* of the request
  ResponseNames    \* of the response

ASSUME MatchAssumption ==
  /\ Ctx # {} /\ "int" \in Immediate
  /\ RequestNames \in Seq(Keys) /\ ResponseNames \in Seq(Keys)
  /\ {"ctx", "phase", "request", "response", "method", "target", "version",
      "headers", "status", "reason"} \subseteq Keys

VARIABLES
  heap,     \* impl_->runtime_
  pc,       \* "start", "idle", "inject", "matched", "unwind" or "ended"
  phase,    \* which rules ApplyRules applies
  at,       \* the call that is next
  frames,   \* the local Values of the functions entered, by name
  error,    \* the call whose error is being returned; 0 when there is none
  first,    \* history: the first call of this match that failed, or 0
  result    \* history: what the last match ended with

vars == <<heap, pc, phase, at, frames, error, first, result>>

-----------------------------------------------------------------------------
(***************************************************************************)
(* The calls of context_injector.cpp.                                      *)
(***************************************************************************)
Enter == [op |-> "enter"]
Create(b) == [op |-> "create", to |-> b]
SetString(b, k) == [op |-> "field", on |-> b, key |-> k, kind |-> "string"]
SetInt32(b, k) == [op |-> "field", on |-> b, key |-> k, kind |-> "int"]
SetObject(b, k, x) == [op |-> "object", on |-> b, key |-> k, of |-> x]
ReturnBuilt(b, to) == [op |-> "return", of |-> b, to |-> to]
Build(b, to) == [op |-> "build", of |-> b, to |-> to]
AddObject(x) == [op |-> "add", of |-> x]

BuildHeaderObject(names) ==
  <<Enter, Create("header_obj_builder")>>
    \o [k \in DOMAIN names |-> SetString("header_obj_builder", names[k])]
    \o <<ReturnBuilt("header_obj_builder", "header_object")>>

BuildRequestObject ==
  <<Enter>> \o BuildHeaderObject(RequestNames)
    \o <<Create("request_obj_builder"),
         SetString("request_obj_builder", "method"),
         SetString("request_obj_builder", "target"),
         SetInt32("request_obj_builder", "version"),
         SetObject("request_obj_builder", "headers", "header_object"),
         ReturnBuilt("request_obj_builder", "request_obj")>>

BuildResponseObject ==
  <<Enter>> \o BuildHeaderObject(ResponseNames)
    \o <<Create("response_obj_builder"),
         SetInt32("response_obj_builder", "status"),
         SetString("response_obj_builder", "reason"),
         SetInt32("response_obj_builder", "version"),
         SetObject("response_obj_builder", "headers", "header_object"),
         ReturnBuilt("response_obj_builder", "response_obj")>>

InjectRequestContext ==
  BuildRequestObject
    \o <<Create("ctx_obj_builder"),
         SetString("ctx_obj_builder", "phase"),
         SetObject("ctx_obj_builder", "request", "request_obj"),
         Build("ctx_obj_builder", "ctx_obj"), AddObject("ctx_obj")>>

InjectResponseContext ==
  BuildRequestObject \o BuildResponseObject
    \o <<Create("ctx_obj_builder"),
         SetString("ctx_obj_builder", "phase"),
         SetObject("ctx_obj_builder", "request", "request_obj"),
         SetObject("ctx_obj_builder", "response", "response_obj"),
         Build("ctx_obj_builder", "ctx_obj"), AddObject("ctx_obj")>>

Calls == IF phase = "Request" THEN InjectRequestContext ELSE InjectResponseContext
Call == Calls[at]

-----------------------------------------------------------------------------
(***************************************************************************)
(* A local is a Value and, for an ObjectBuilder, its error_.               *)
(***************************************************************************)
Local(x) == [x |-> x, error |-> 0]
Top == frames[Len(frames)]
Popped == SubSeq(frames, 1, Len(frames) - 1)
With(frame, name, local) ==
  [n \in DOMAIN frame \cup {name} |-> IF n = name THEN local ELSE frame[n]]
SetTop(frame) == frames' = Append(Popped, frame)

\* The locals of a function are destroyed.
Leave(h, frame) ==
  LET held(o) == Cardinality({n \in DOMAIN frame : frame[n].x.val = o})
  IN  [h EXCEPT !.count = [o \in Obj |-> @[o] - held(o)]]

TheContext == CHOOSE c \in Ctx : TRUE

\* QuickJS sweeps its list before a call returns.
Returned == Unswept(heap) = {}
Injecting(op) == pc = "inject" /\ Returned /\ at <= Len(Calls) /\ Call.op = op

\* The error of call e is returned through all functions.
Fails(e) ==
  /\ pc' = "unwind" /\ error' = e
  /\ first' = IF first = 0 THEN at ELSE first
  /\ UNCHANGED <<phase, at, result>>

Continue == at' = at + 1 /\ UNCHANGED <<pc, phase, error, result>>

SweepObject ==
  /\ ~Returned
  /\ heap' = Sweep(heap, CHOOSE o \in Obj : o \in Unswept(heap))
  /\ UNCHANGED <<pc, phase, at, frames, error, first, result>>

-----------------------------------------------------------------------------
Init ==
  /\ heap = EmptyHeap /\ pc = "start" /\ phase = "Request"
  /\ at = 1 /\ frames = << >> /\ error = 0 /\ first = 0 /\ result = "none"

\* RuleEngine::Create; main() ends when there is no runtime.
CreateEngine ==
  /\ pc = "start"
  /\ pc' \in {"idle", "ended"}
  /\ UNCHANGED <<heap, phase, at, frames, error, first, result>>

\* ~RuleEngine: JS_FreeRuntime
DestroyEngine ==
  /\ pc = "idle" /\ Returned
  /\ pc' = "ended"
  /\ UNCHANGED <<heap, phase, at, frames, error, first, result>>

\* A rule with a match expression: CreateMatchContext.
CreateMatchContext(p) ==
  /\ pc = "idle" /\ Returned
  /\ phase' = p /\ at' = 1 /\ error' = 0 /\ first' = 0
  /\ \/ /\ heap' \in NewContext(heap, TheContext)
        /\ pc' = "inject" /\ frames' = <<[n \in {} |-> Local(Invalid)]>>
        /\ UNCHANGED result
     \/ /\ result' = "error"
        /\ UNCHANGED <<heap, pc, frames>>

EnterFunction ==
  /\ Injecting("enter")
  /\ frames' = Append(frames, [n \in {} |-> Local(Invalid)])
  /\ Continue /\ UNCHANGED <<heap, first>>

\* ObjectBuilder::Create
CreateBuilder ==
  /\ Injecting("create")
  /\ \E r \in Make(heap, TheContext, "object") :
       /\ heap' = r.h
       /\ IF r.ok THEN /\ SetTop(With(Top, Call.to, Local(r.x)))
                       /\ Continue /\ UNCHANGED first
          ELSE Fails(at) /\ UNCHANGED frames

(***************************************************************************)
(* The setters of ObjectBuilder never return an error: the first one is    *)
(* kept and makes the others do nothing.                                   *)
(***************************************************************************)
Keep(frame, e) ==
  /\ SetTop([frame EXCEPT ![Call.on].error = IF e = 0 THEN @ ELSE e])
  /\ first' = IF first = 0 THEN e ELSE first
  /\ Continue

\* ObjectBuilder::SetProperty
SetOn(h, x) == SetProperty(h, Top[Call.on].x, Call.key, x)

NewField ==
  IF Call.kind = "int" THEN MakeImmediate(heap, TheContext, "int")
  ELSE Make(heap, TheContext, Call.kind)

\* mutant: an earlier error does not stop the setter
SetFieldAnyway ==
  /\ Injecting("field")
  /\ \E v \in NewField :
       IF ~v.ok THEN heap' = v.h /\ Keep(Top, at)
       ELSE \E r \in SetOn(v.h, v.x) :
              heap' = r.h /\ Keep(Top, IF r.ok THEN 0 ELSE at)

\* ObjectBuilder::SetString, SetInt32, SetBool and SetNull
SetField ==
  /\ Injecting("field")
  /\ IF Top[Call.on].error # 0 THEN Keep(Top, 0) /\ UNCHANGED heap
     ELSE \E v \in NewField :
            IF ~v.ok THEN heap' = v.h /\ Keep(Top, at)
            ELSE \E r \in SetOn(v.h, v.x) :
                   heap' = r.h /\ Keep(Top, IF r.ok THEN 0 ELSE at)

\* ObjectBuilder::SetObject: the argument is consumed anyway.
SetObjectOf ==
  /\ Injecting("object")
  /\ LET x == Top[Call.of].x
         moved == [Top EXCEPT ![Call.of] = Local(Invalid)]
     IN  IF Top[Call.on].error # 0 THEN heap' = Destroy(heap, x) /\ Keep(moved, 0)
         ELSE IF ~IsObject(heap, x) THEN heap' = Destroy(heap, x) /\ Keep(moved, at)
         ELSE \E r \in SetOn(heap, x) :
                heap' = r.h /\ Keep(moved, IF r.ok THEN 0 ELSE at)

\* mutant: Build() returns the object whatever happened to it
BuildAnyway(return) ==
  /\ LET x == Top[Call.of].x
         rest == [Top EXCEPT ![Call.of] = Local(Invalid)]
     IN  IF return
           THEN /\ heap' = Leave(heap, rest)
                /\ frames' = [Popped EXCEPT ![Len(Popped)] = With(@, Call.to, Local(x))]
           ELSE /\ SetTop(With(rest, Call.to, Local(x)))
                /\ UNCHANGED heap
  /\ Continue /\ UNCHANGED first

(***************************************************************************)
(* ObjectBuilder::Build.  Returned from a function, the object goes to the *)
(* caller and the other locals are destroyed.                              *)
(***************************************************************************)
BuildOf(return) ==
  LET x == Top[Call.of].x
      rest == [Top EXCEPT ![Call.of] = Local(Invalid)]
  IN  IF Top[Call.of].error # 0
        THEN Fails(Top[Call.of].error) /\ UNCHANGED <<heap, frames>>
        ELSE /\ IF return
                  THEN /\ heap' = Leave(heap, rest)
                       /\ frames' = [Popped EXCEPT ![Len(Popped)] =
                                       With(@, Call.to, Local(x))]
                  ELSE /\ SetTop(With(rest, Call.to, Local(x)))
                       /\ UNCHANGED heap
             /\ Continue /\ UNCHANGED first

BuildObject == \/ Injecting("build") /\ BuildOf(FALSE)
               \/ Injecting("return") /\ BuildOf(TRUE)

\* MatchContext::AddGlobalValue
AddGlobalValue(h, c, x) ==
  UNION {IF ~g.ok THEN Refused(g.h, x)
         ELSE {[r EXCEPT !.h = Destroy(@, g.x)] :
                 r \in SetProperty(g.h, g.x, "ctx", x)} :
           g \in GlobalObject(h, c)}

\* MatchContext::AddObject; with it the injecting function returns.
InjectContext ==
  /\ Injecting("add")
  /\ LET x == Top[Call.of].x
         moved == [Top EXCEPT ![Call.of] = Local(Invalid)]
     IN  \E r \in IF ~IsObject(heap, x) THEN Refused(heap, x)
                   ELSE AddGlobalValue(heap, TheContext, x) :
           IF r.ok THEN /\ heap' = Leave(r.h, moved) /\ frames' = Popped
                        /\ Continue /\ UNCHANGED first
           ELSE heap' = r.h /\ SetTop(moved) /\ Fails(at)

\* RuleEngine::EvaluateMatch
EvaluateMatch ==
  /\ pc = "inject" /\ Returned /\ at > Len(Calls)
  /\ \E v \in Eval(heap, TheContext) :
       IF ~v.ok \/ v.x.val # "bool" THEN heap' = Destroy(v.h, v.x) /\ Fails(at)
       ELSE \E r \in Convert(v.h, v.x) :
              /\ heap' = Destroy(r.h, v.x)
              /\ IF ~r.ok THEN Fails(at)
                 ELSE /\ pc' = "matched" /\ result' \in {"true", "false"}
                      /\ UNCHANGED <<phase, at, error, first>>
  /\ UNCHANGED frames

\* An early return destroys the locals of one function.
Unwind ==
  /\ pc = "unwind" /\ Returned /\ frames # << >>
  /\ heap' = Leave(heap, Top) /\ frames' = Popped
  /\ UNCHANGED <<pc, phase, at, error, first, result>>

\* The MatchContext goes out of scope, after the actions or with the error.
EndMatch ==
  /\ pc \in {"matched", "unwind"} /\ Returned /\ frames = << >>
  /\ heap' = FreeContext(heap, TheContext)
  /\ pc' = "idle"
  /\ result' = IF pc = "unwind" THEN "error" ELSE result
  /\ UNCHANGED <<phase, at, frames, error, first>>

Next ==
  \/ SweepObject \/ CreateEngine \/ DestroyEngine
  \/ \E p \in {"Request", "Response"} : CreateMatchContext(p)
  \/ EnterFunction \/ CreateBuilder \/ SetField \/ SetObjectOf \/ BuildObject
  \/ InjectContext \/ EvaluateMatch \/ Unwind \/ EndMatch

Spec == Init /\ [][Next]_vars

-----------------------------------------------------------------------------
(***************************************************************************)
(* Types of the match's state.                                             *)
(***************************************************************************)
TypeOK ==
  /\ heap \in Heaps
  /\ pc \in {"start", "idle", "inject", "matched", "unwind", "ended"}
  /\ at \in 1 .. Len(Calls) + 1 /\ {error, first} \subseteq 0 .. Len(Calls) + 1
  /\ \A f \in DOMAIN frames : \A n \in DOMAIN frames[f] : frames[f][n].x \in Values
  /\ result \in {"none", "true", "false", "error"}

(***************************************************************************)
(* An expression only ever sees the whole ctx object of its phase: an      *)
(* allocation or a property that failed on the way, which the setters of   *)
(* ObjectBuilder do not report, stops the match before it is evaluated.    *)
(***************************************************************************)
Member(o, k) == GetKey(heap, o, k)
HasAll(o, names) == \A k \in names : Member(o, k) # "undefined"
WholeMessage(o, names, headers) ==
  /\ HasAll(o, names)
  /\ HasAll(Member(o, "headers"), {headers[k] : k \in DOMAIN headers})
SeesWholeContext ==
  pc = "inject" /\ at > Len(Calls) =>
    LET ctx == Member(heap.global[TheContext], "ctx")
    IN  /\ HasAll(ctx, {"phase", "request"})
        /\ WholeMessage(Member(ctx, "request"),
                        {"method", "target", "version"}, RequestNames)
        /\ phase = "Response" =>
             WholeMessage(Member(ctx, "response"),
                          {"status", "reason", "version"}, ResponseNames)

(***************************************************************************)
(* Between two matches the runtime all sessions share is as it was         *)
(* created: whichever call failed, every Value was freed, before its       *)
(* context, and no exception is left for another session to report.  So    *)
(* ~RuleEngine gives JS_FreeRuntime an empty runtime.                      *)
(***************************************************************************)
CleanBetweenMatches == pc \in {"idle", "ended"} /\ Returned => heap = EmptyHeap

(***************************************************************************)
(* The error ApplyRules reports is that of the first call that failed.     *)
(***************************************************************************)
FirstErrorReported == error # 0 => error = first

=============================================================================
