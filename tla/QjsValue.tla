------------------------------ MODULE QjsValue ------------------------------
(***************************************************************************)
(* The Value class of the QuickJS binding and the calls that return one.   *)
(* A Value is a handle: the context it borrows and the JSValue it owns.  A *)
(* Value that was moved from, or whose JSValue was released, is Invalid.   *)
(*                                                                         *)
(* Each method is the set of its outcomes: the heap after it, whether it   *)
(* succeeded, and the Value it returns (x).  A Value passed by value is    *)
(* destroyed when the method returns, whichever way it does.               *)
(***************************************************************************)
EXTENDS QjsHeap

Invalid == [ctx |-> "none", val |-> "undefined"]
Values == [ctx : Ctx, val : JSValue] \cup {Invalid}

IsValid(x) == x.ctx # "none"
IsObject(h, x) == IsValid(x) /\ x.val \in Obj /\ h.kind[x.val] \in {"object", "array"}
IsArray(h, x) == IsValid(x) /\ x.val \in Obj /\ h.kind[x.val] = "array"

Done(h, x) == {[h |-> h, ok |-> TRUE, x |-> x]}
Failed(h) == {[h |-> h, ok |-> FALSE, x |-> Invalid]}

\* ~Impl
Destroy(h, x) == IF IsValid(x) THEN Free(h, x.val) ELSE h

\* The exception is taken and freed; converting it may throw another one.
\* Not modelled: a std::string copy of the text that throws before the frees.
GetExceptionMessage(h, c) ==
  LET e == h.pending
      taken == [h EXCEPT !.pending = "none"]
  IN  {Free(taken, e)}
        \cup {Free(Free([t EXCEPT !.pending = "none"], t.pending), e) :
                t \in Throw(taken, c)}

\* A QuickJS call threw: the message is fetched and an error returned.
Fail(h, c) == UNION {UNION {Failed(m) : m \in GetExceptionMessage(t, c)} :
                       t \in Throw(h, c)}

\* mutant: a JSValue that could not be adopted is not freed
AdoptOrDrop(h, c, v) == Done(h, [ctx |-> c, val |-> v]) \cup Failed(h)

\* ValueAccess::Adopt: new(std::nothrow) may fail.
Adopt(h, c, v) == Done(h, [ctx |-> c, val |-> v]) \cup Failed(Free(h, v))

\* Value::GlobalObject
GlobalObject(h, c) ==
  Adopt(Dup(h, h.global[c]), c, h.global[c]) \cup Fail(h, c)

\* Value::Undefined, Null, Bool and Int32
MakeImmediate(h, c, v) == Adopt(h, c, v)

\* Value::String, Object and Array
Make(h, c, kind) ==
  (UNION {Adopt(n.h, c, n.v) : n \in New(h, c, kind)}) \cup Fail(h, c)

\* Value::ToBool, ToInt32 and ToString
Convert(h, x) ==
  IF ~IsValid(x) THEN Failed(h) ELSE Done(h, Invalid) \cup Fail(h, x.ctx)

Get(h, x, k) ==
  LET v == GetKey(h, x.val, k)
  IN  (IF x.val \in {"undefined", "null"} THEN {} ELSE Adopt(Dup(h, v), x.ctx, v))
        \cup Fail(h, x.ctx)

GetProperty(h, x, k) == IF ~IsValid(x) THEN Failed(h) ELSE Get(h, x, k)

GetElement(h, x, i) == IF ~IsArray(h, x) THEN Failed(h) ELSE Get(h, x, i)

\* The refusals before Release() leave x to the destructor of the parameter.
Refused(h, x) == Failed(Destroy(h, x))

\* mutant: the parameter still owns what was stored
StoreUnreleased(h, t, k, x) ==
  Done(Destroy(SetKey(h, t.val, k, x.val), x), Invalid)
    \cup Fail(Free(h, x.val), t.ctx)

\* mutant: the value is freed once more when the call failed
StoreFreedTwice(h, t, k, x) ==
  Done(SetKey(h, t.val, k, x.val), Invalid)
    \cup Fail(Free(Free(h, x.val), x.val), t.ctx)

\* Release() and the call that takes the JSValue over
Store(h, t, k, x) ==
  Done(SetKey(h, t.val, k, x.val), Invalid) \cup Fail(Free(h, x.val), t.ctx)

\* mutant: the contexts are not compared
SetPropertyAnyContext(h, t, k, x) ==
  IF ~IsObject(h, t) \/ ~IsValid(x) THEN Refused(h, x)
  ELSE Store(h, t, k, x)

SetProperty(h, t, k, x) ==
  IF ~IsObject(h, t) \/ ~IsValid(x) \/ t.ctx # x.ctx THEN Refused(h, x)
  ELSE Store(h, t, k, x)

SetElement(h, t, i, x) ==
  IF ~IsArray(h, t) \/ ~IsValid(x) \/ t.ctx # x.ctx THEN Refused(h, x)
  ELSE Store(h, t, i, x)

\* mutant: the length is kept in a signed integer
ReportedLengthSigned(h, o) == ToInt32(Length(h, o))

\* ToInt32() of the length property, returned as std::uint32_t
ReportedLength(h, o) == ToInt32(Length(h, o)) % 2 ^ IndexBits

ArrayLength(h, x) ==
  IF ~IsArray(h, x) THEN Failed(h)
  ELSE Adopt(h, x.ctx, "int") \cup Fail(h, x.ctx)

(***************************************************************************)
(* Evaluator::Eval.  A script may throw, or yield a value it makes or one  *)
(* it reaches through the global object.                                   *)
(***************************************************************************)
Results(h, c) ==
  {[h |-> h, v |-> v] : v \in Immediate}
    \cup New(h, c, "object")
    \cup {[h |-> Dup(h, v), v |-> v] :
            v \in {h.global[c]} \cup {GetKey(h, h.global[c], k) : k \in Keys}}

Eval(h, c) == (UNION {Adopt(r.h, c, r.v) : r \in Results(h, c)}) \cup Fail(h, c)

=============================================================================
