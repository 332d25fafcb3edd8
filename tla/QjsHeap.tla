------------------------------- MODULE QjsHeap -------------------------------
(***************************************************************************)
(* External: what the binding relies on of QuickJS.  A runtime counts the  *)
(* references to its objects, arrays and strings; undefined, null,         *)
(* booleans and numbers are not counted.  An object whose count drops to   *)
(* zero is put on a list and swept, which drops what its properties held.  *)
(* The pending exception is one per runtime.                               *)
(*                                                                         *)
(* An object is made in a context and has properties by key.  The keys in  *)
(* the domain of Index are also array indices, which are IndexBits wide.   *)
(* __proto__ is no key: setting it names a prototype and stores nothing.   *)
(***************************************************************************)
EXTENDS Integers, FiniteSets, FiniteSetsExt

CONSTANTS
  Obj,         \* what can be allocated, errors included
  Ctx,         \* JSContexts
  Immediate,   \* kinds of values that are not counted
  Keys,        \* property names
  Index,       \* the index some of them are
  IndexBits    \* width of an index: 32

ASSUME HeapAssumption ==
  /\ IsFiniteSet(Obj) /\ IsFiniteSet(Ctx) /\ IsFiniteSet(Keys)
  /\ "undefined" \in Immediate
  /\ Immediate \subseteq {"undefined", "null", "bool", "int"}
  /\ Obj \cap {"undefined", "null", "bool", "int", "absent", "none"} = {}
  /\ "none" \notin Ctx

ASSUME KeysAssumption ==
  /\ IndexBits \in Nat \ {0} /\ 2 ^ IndexBits \in Nat \ {0}
  /\ "__proto__" \notin Keys
  /\ DOMAIN Index \subseteq Keys
  /\ \A k \in DOMAIN Index : Index[k] \in 0 .. (2 ^ IndexBits) - 1

Kinds == {"object", "array", "string"}
JSValue == Obj \cup Immediate
NoProperties == [k \in Keys |-> "absent"]

Heaps == [kind : [Obj -> Kinds \cup {"free"}],
          home : [Obj -> Ctx \cup {"none"}],
          count : [Obj -> Int],
          prop : [Obj -> [Keys -> JSValue \cup {"absent"}]],
          global : [Ctx -> Obj \cup {"none"}],
          pending : JSValue \cup {"none"}]

EmptyHeap == [kind |-> [o \in Obj |-> "free"],
              home |-> [o \in Obj |-> "none"],
              count |-> [o \in Obj |-> 0],
              prop |-> [o \in Obj |-> NoProperties],
              global |-> [c \in Ctx |-> "none"],
              pending |-> "none"]

Alive(h) == {c \in Ctx : h.global[c] # "none"}
Unused(h) == {o \in Obj : h.kind[o] = "free"}
Unswept(h) == {o \in Obj : h.kind[o] # "free" /\ h.count[o] = 0}

\* JS_DupValue and JS_FreeValue
Dup(h, v) == IF v \in Obj THEN [h EXCEPT !.count[v] = @ + 1] ELSE h
Free(h, v) == IF v \in Obj THEN [h EXCEPT !.count[v] = @ - 1] ELSE h

\* The outcomes of an allocation: none when the memory is used up.
New(h, c, kind) ==
  IF Unused(h) = {} THEN {}
  ELSE LET o == CHOOSE o \in Obj : o \in Unused(h)
       IN  {[h |-> [h EXCEPT !.kind[o] = kind, !.home[o] = c, !.count[o] = 1],
             v |-> o]}

\* A call that throws an Error object, or whatever a script throws.
Throw(h, c) ==
  {[n.h EXCEPT !.pending = n.v] : n \in New(h, c, "object")}
    \cup {[h EXCEPT !.pending = "undefined"]}

\* free_zero_refcount_objects: one object of the list.
Sweep(h, o) ==
  LET held(p) == Cardinality({k \in Keys : h.prop[o][k] = p})
  IN  [h EXCEPT !.count = [p \in Obj |-> @[p] - held(p)],
                !.kind[o] = "free", !.home[o] = "none", !.prop[o] = NoProperties]

\* JS_NewContext and JS_FreeContext: a context holds its global object.
NewContext(h, c) ==
  {[n.h EXCEPT !.global[c] = n.v] : n \in New(h, c, "object")}
FreeContext(h, c) == [Free(h, h.global[c]) EXCEPT !.global[c] = "none"]

\* JS_SetPropertyStr and JS_SetPropertyUint32 consume v, also when they throw.
SetKey(h, o, k, v) == [Free(h, h.prop[o][k]) EXCEPT !.prop[o][k] = v]

\* JS_GetPropertyStr and JS_GetPropertyUint32
GetKey(h, v, k) ==
  IF v \in Obj /\ h.prop[v][k] # "absent" THEN h.prop[v][k] ELSE "undefined"

\* The length of an array; the largest index number is only a name.
Length(h, o) ==
  LET used == {Index[k] : k \in {k \in DOMAIN Index : h.prop[o][k] # "absent"}}
      set == used \ {(2 ^ IndexBits) - 1}
  IN  IF set = {} THEN 0 ELSE Max(set) + 1

\* JS_ToInt32
ToInt32(n) == IF n >= 2 ^ (IndexBits - 1) THEN n - 2 ^ IndexBits ELSE n

(***************************************************************************)
(* Every object is referred to exactly as often as it counts, and nothing  *)
(* refers to freed memory; held(o) is the number of C++ handles to o.      *)
(***************************************************************************)
Counted(h, held(_)) ==
  \A o \in Obj :
    LET refs == held(o)
                + Cardinality({x \in Obj \X Keys : h.prop[x[1]][x[2]] = o})
                + Cardinality({c \in Ctx : h.global[c] = o})
                + (IF h.pending = o THEN 1 ELSE 0)
    IN  /\ h.count[o] = refs
        /\ h.kind[o] = "free" => refs = 0

=============================================================================
