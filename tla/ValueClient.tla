---------------------------- MODULE ValueClient ----------------------------
(***************************************************************************)
(* Any C++ code over the QuickJS binding: it keeps some Context and Value  *)
(* objects and calls their methods in any order, on any of them, moved     *)
(* from or not.  One rule is the caller's: a JSContext outlives the Values *)
(* that borrow it.                                                         *)
(***************************************************************************)
EXTENDS QjsValue

CONSTANTS
  ContextVar,   \* Context objects
  Slot          \* Value objects

ASSUME ClientAssumption == IsFiniteSet(ContextVar) /\ IsFiniteSet(Slot)

VARIABLES
  heap,     \* the QuickJS runtime
  holder,   \* context_ of each Context object
  slot      \* impl_ of each Value object

vars == <<heap, holder, slot>>

Init ==
  /\ heap = EmptyHeap
  /\ holder = [a \in ContextVar |-> "none"]
  /\ slot = [s \in Slot |-> Invalid]

Borrowed == {slot[s].ctx : s \in Slot}

\* QuickJS sweeps its list before a call returns.
Returned == Unswept(heap) = {}

SweepObject ==
  /\ ~Returned
  /\ heap' = Sweep(heap, CHOOSE o \in Obj : o \in Unswept(heap))
  /\ UNCHANGED <<holder, slot>>

-----------------------------------------------------------------------------
\* Context::Create
CreateContext(a) ==
  /\ Returned /\ holder[a] = "none"
  /\ \E c \in Ctx \ Alive(heap) :
       /\ heap' \in NewContext(heap, c)
       /\ holder' = [holder EXCEPT ![a] = c]
  /\ UNCHANGED slot

\* mutant: the context moved from keeps its pointer
MoveContextCopied(a, b) ==
  /\ Returned /\ holder[a] \notin Borrowed \ {"none"}
  /\ heap' = IF a = b \/ holder[a] = "none" THEN heap ELSE FreeContext(heap, holder[a])
  /\ holder' = [holder EXCEPT ![a] = holder[b]]
  /\ UNCHANGED slot

\* Context::operator=(Context&&); into an empty one, Context(Context&&)
MoveContext(a, b) ==
  /\ Returned
  /\ IF a = b THEN UNCHANGED <<heap, holder>>
     ELSE /\ holder[a] \notin Borrowed \ {"none"}
          /\ heap' = IF holder[a] = "none" THEN heap
                     ELSE FreeContext(heap, holder[a])
          /\ holder' = [holder EXCEPT ![a] = holder[b], ![b] = "none"]
  /\ UNCHANGED slot

\* ~Context
DestroyContext(a) ==
  /\ Returned /\ holder[a] # "none" /\ holder[a] \notin Borrowed
  /\ heap' = FreeContext(heap, holder[a])
  /\ holder' = [holder EXCEPT ![a] = "none"]
  /\ UNCHANGED slot

-----------------------------------------------------------------------------
\* A new Value object s is what the call returns, if it returns one.
Returns(s, outcomes) ==
  /\ slot[s] = Invalid
  /\ \E r \in outcomes : heap' = r.h /\ slot' = [slot EXCEPT ![s] = r.x]
  /\ UNCHANGED holder

\* The calls made on a Context object; one moved from is refused.
OfContext(s, a) ==
  /\ Returned
  /\ LET c == holder[a]
     IN  Returns(s, IF c = "none" THEN Failed(heap)
                    ELSE GlobalObject(heap, c)
                           \cup (UNION {MakeImmediate(heap, c, v) : v \in Immediate})
                           \cup (UNION {Make(heap, c, kind) : kind \in Kinds})
                           \cup Eval(heap, c))

\* ~Value
DestroyValue(s) ==
  /\ Returned
  /\ heap' = Destroy(heap, slot[s])
  /\ slot' = [slot EXCEPT ![s] = Invalid]
  /\ UNCHANGED holder

\* mutant: what the target owned is forgotten
MoveValueLeaks(s, t) ==
  /\ Returned
  /\ slot' = [slot EXCEPT ![t] = Invalid, ![s] = slot[t]]
  /\ UNCHANGED <<heap, holder>>

\* Value::operator=(Value&&); into an Invalid one, Value(Value&&)
MoveValue(s, t) ==
  /\ Returned
  /\ heap' = IF s = t THEN heap ELSE Destroy(heap, slot[s])
  /\ slot' = [slot EXCEPT ![t] = Invalid, ![s] = slot[t]]
  /\ UNCHANGED holder

ConvertValue(s) ==
  /\ Returned
  /\ \E r \in Convert(heap, slot[s]) \cup ArrayLength(heap, slot[s]) : heap' = r.h
  /\ UNCHANGED <<holder, slot>>

GetValue(s, t, k) ==
  /\ Returned
  /\ Returns(s, GetProperty(heap, slot[t], k) \cup GetElement(heap, slot[t], k))

\* The argument is moved into the parameter before the target is looked at.
SetValue(t, k, s) ==
  /\ Returned
  /\ LET target == IF s = t THEN Invalid ELSE slot[t]
     IN  \E r \in SetProperty(heap, target, k, slot[s])
                    \cup SetElement(heap, target, k, slot[s]) : heap' = r.h
  /\ slot' = [slot EXCEPT ![s] = Invalid]
  /\ UNCHANGED holder

Next ==
  \/ SweepObject
  \/ \E a \in ContextVar : CreateContext(a) \/ DestroyContext(a)
  \/ \E a, b \in ContextVar : MoveContext(a, b)
  \/ \E s \in Slot, a \in ContextVar : OfContext(s, a)
  \/ \E s \in Slot : DestroyValue(s) \/ ConvertValue(s)
  \/ \E s, t \in Slot : MoveValue(s, t)
  \/ \E s, t \in Slot, k \in Keys : GetValue(s, t, k) \/ SetValue(t, k, s)

Spec == Init /\ [][Next]_vars

-----------------------------------------------------------------------------
(***************************************************************************)
(* Types of the runtime and of the C++ objects.                            *)
(***************************************************************************)
TypeOK ==
  /\ heap \in Heaps
  /\ holder \in [ContextVar -> Ctx \cup {"none"}]
  /\ slot \in [Slot -> Values]

(***************************************************************************)
(* Each JSValue is freed exactly once: an object counts the Values that    *)
(* own it, the properties that hold it, its context if it is the global    *)
(* object and the pending exception, and nothing refers to freed memory.   *)
(* It takes Release(), the parameters passed by value, the calls that      *)
(* consume their argument also when they fail, and Adopt's own failure.    *)
(***************************************************************************)
Held(o) == Cardinality({s \in Slot : slot[s].val = o})
RefsBalanced == Counted(heap, Held)

(***************************************************************************)
(* The check for ContextMismatch keeps the object graphs of two contexts   *)
(* apart: whatever a Value, a property or a global refers to was made in   *)
(* the same context, so that freeing a context leaves nothing of it behind *)
(* in another one.                                                         *)
(***************************************************************************)
ContextsApart ==
  /\ \A s \in Slot : slot[s].val \in Obj => heap.home[slot[s].val] = slot[s].ctx
  /\ \A o \in Obj, k \in Keys : heap.prop[o][k] \in Obj =>
       heap.home[heap.prop[o][k]] = heap.home[o]

(***************************************************************************)
(* A JSContext is owned by exactly one Context object through all moves,   *)
(* and the one a valid Value borrows is alive.                             *)
(***************************************************************************)
ContextsOwned ==
  /\ \A c \in Alive(heap) : Cardinality({a \in ContextVar : holder[a] = c}) = 1
  /\ \A a \in ContextVar : holder[a] # "none" => holder[a] \in Alive(heap)
  /\ \A s \in Slot : IsValid(slot[s]) => slot[s].ctx \in Alive(heap)

(***************************************************************************)
(* ArrayLength reports the length of every array, also of one longer than  *)
(* the signed integer it is read through.                                  *)
(***************************************************************************)
LengthExact ==
  \A o \in Obj : heap.kind[o] = "array" => ReportedLength(heap, o) = Length(heap, o)

=============================================================================
