-------------------------- MODULE MatchScopeProofs --------------------------
(***************************************************************************)
(* Theorems about MatchScope: what a match leaves in the shared runtime,   *)
(* which error it reports and what its expression sees, whatever headers   *)
(* the messages have and whichever call fails.                             *)
(***************************************************************************)
EXTENDS MatchScope, SequenceTheorems, FiniteSetTheorems, TLAPS

-----------------------------------------------------------------------------
(***************************************************************************)
(* The heap.  Between two calls it is a forest: whatever lives has at most *)
(* one owner, a local of a function, a property or a context, and counts   *)
(* one exactly as long as it has it.  H is the set of objects that locals  *)
(* own.                                                                    *)
(***************************************************************************)
Stored(prop, o) == \E p \in Obj, k \in Keys : prop[p][k] = o
IsGlobal(global, o) == \E c \in Ctx : global[c] = o
Owned(h, H, o) == o \in H \/ Stored(h.prop, o) \/ IsGlobal(h.global, o)

\* A set of objects, if not empty, has one that no other of the set owns.
Acyclic(prop) ==
  \A S \in SUBSET Obj :
    S # {} => \E o \in S : \A p \in S, k \in Keys : prop[p][k] # o

OneProperty(prop) ==
  \A p, q \in Obj, k, j \in Keys :
    prop[p][k] \in Obj /\ prop[p][k] = prop[q][j] => p = q /\ k = j

\* What is free is as it was created.
Blank(h) ==
  \A o \in Obj : h.kind[o] = "free" =>
    h.home[o] = "none" /\ h.prop[o] = NoProperties /\ h.count[o] = 0

SoleOwner(h, H) ==
  /\ OneProperty(h.prop)
  /\ \A o \in H : ~Stored(h.prop, o) /\ ~IsGlobal(h.global, o)
  /\ \A o \in Obj : ~(Stored(h.prop, o) /\ IsGlobal(h.global, o))
  /\ \A c \in Ctx : h.global[c] # "none" => c = TheContext

CountsOwner(h, H) ==
  \A o \in Obj : h.count[o] = IF Owned(h, H, o) THEN 1 ELSE 0

Forest(h, H) ==
  /\ h \in Heaps /\ H \in SUBSET Obj /\ h.pending = "none"
  /\ Blank(h) /\ SoleOwner(h, H) /\ CountsOwner(h, H) /\ Acyclic(h.prop)

-----------------------------------------------------------------------------
(***************************************************************************)
(* The frames.                                                             *)
(***************************************************************************)
LocalSet == [x : Values, error : Nat]
\* The locals of context_injector.cpp; a builder that is not used is "none".
Names == {"none", "header_obj_builder", "header_object", "request_obj_builder", "request_obj",
          "response_obj_builder", "response_obj", "ctx_obj_builder", "ctx_obj"}
FrameSet == UNION {[D -> LocalSet] : D \in SUBSET Names}
Pop(s) == SubSeq(s, 1, Len(s) - 1)
TopOf(s) == s[Len(s)]
Replace(s, e) == Append(Pop(s), e)

ValueOf(x) == {x.val} \cap Obj
HeldIn(frame) == {o \in Obj : \E n \in DOMAIN frame : frame[n].x.val = o}
HeldBy(fr) == {o \in Obj : \E f \in 1 .. Len(fr) : o \in HeldIn(fr[f])}

\* A local is moved from; a setter keeps its error, if it has one.
Moved(frame, n) == [frame EXCEPT ![n] = Local(Invalid)]
Marked(frame, n, k) == [frame EXCEPT ![n].error = IF k = 0 THEN @ ELSE k]

\* No two locals own the same object.
Injective(frame) ==
  \A n, m \in DOMAIN frame :
    frame[n].x.val \in Obj /\ frame[n].x.val = frame[m].x.val => n = m
Distinct(fr) ==
  \A f, g \in 1 .. Len(fr) :
    \A n \in DOMAIN fr[f], m \in DOMAIN fr[g] :
      fr[f][n].x.val \in Obj /\ fr[f][n].x.val = fr[g][m].x.val => f = g /\ n = m

Frames(fr) == fr \in Seq(FrameSet) /\ Distinct(fr)

-----------------------------------------------------------------------------
(***************************************************************************)
(* What an object promises: properties that are set, and those of the      *)
(* objects they hold, two levels down.                                     *)
(***************************************************************************)
Promises == [one : SUBSET Keys, two : SUBSET (Keys \X Keys),
             three : SUBSET (Keys \X Keys \X Keys)]
NoPromise == [one |-> {}, two |-> {}, three |-> {}]

\* The promise of an object with promise p whose property k is set to one with promise q.
Joined(p, k, q) ==
  [one |-> p.one \cup {k},
   two |-> {x \in p.two : x[1] # k} \cup {<<k, j>> : j \in q.one},
   three |-> {x \in p.three : x[1] # k} \cup {<<k, x[1], x[2]>> : x \in q.two}]

Field(p, k) == Joined(p, k, NoPromise)

Set(h, v, k) == GetKey(h, v, k) # "undefined"
Holds(h, v, p) ==
  /\ \A k \in p.one : Set(h, v, k)
  /\ \A x \in p.two : Set(h, GetKey(h, v, x[1]), x[2])
  /\ \A x \in p.three : Set(h, GetKey(h, GetKey(h, v, x[1]), x[2]), x[3])

(***************************************************************************)
(* What is known of the match while a call is next: the builder that is    *)
(* being used, or "none", what each local promises if its builder had no   *)
(* error, and what the injected ctx object promises.  Step is what a call  *)
(* asks for and what it leaves.                                            *)
(***************************************************************************)
ScopeSet == UNION {[D -> Promises] : D \in SUBSET Names}
Knowledge == [open : Names, scope : Seq(ScopeSet), ctx : Promises]
Known(b, s, p) == [open |-> b, scope |-> s, ctx |-> p]
EmptyScope == [n \in {} |-> NoPromise]
Promised(scope, n, q) == [scope EXCEPT ![n] = q]

Step(A, c, B) ==
  LET top == TopOf(A.scope)
      below == Pop(A.scope)
  IN  \/ /\ c.op = "enter" /\ A.open = "none"
         /\ B = Known("none", Append(A.scope, EmptyScope), A.ctx)
      \/ /\ c.op = "create" /\ A.open = "none"
         /\ c.to \in Names \ {"none"} /\ c.to \notin DOMAIN top
         /\ B = Known(c.to, Append(below, With(top, c.to, NoPromise)), A.ctx)
      \/ /\ c.op = "field" /\ A.open = c.on /\ c.on # "none"
         /\ c.key \in Keys /\ c.kind \in {"string", "int"}
         /\ B = Known(c.on, Append(below, Promised(top, c.on, Field(top[c.on], c.key))), A.ctx)
      \/ /\ c.op = "object" /\ A.open = c.on /\ c.on # "none" /\ c.key \in Keys
         /\ c.of \in DOMAIN top /\ c.of # c.on
         /\ B = Known(c.on,
                      Append(below, Promised(Promised(top, c.of, NoPromise), c.on,
                                             Joined(top[c.on], c.key, top[c.of]))), A.ctx)
      \/ /\ c.op = "build" /\ A.open = c.of /\ c.of # "none"
         /\ c.to \in Names /\ c.to \notin DOMAIN top
         /\ B = Known("none",
                      Append(below, With(Promised(top, c.of, NoPromise), c.to, top[c.of])), A.ctx)
      \/ /\ c.op = "return" /\ A.open = c.of /\ c.of # "none"
         /\ below # << >> /\ c.to \in Names /\ c.to \notin DOMAIN TopOf(below)
         /\ B = Known("none", Replace(below, With(TopOf(below), c.to, top[c.of])), A.ctx)
      \/ /\ c.op = "add" /\ A.open = "none" /\ c.of \in DOMAIN top
         /\ B = Known("none", below, top[c.of])

Code(p) == IF p = "Request" THEN InjectRequestContext ELSE InjectResponseContext
Leads(code, A, B, path) ==
  /\ path \in [1 .. Len(code) + 1 -> Knowledge]
  /\ path[1] = A /\ path[Len(code) + 1] = B
  /\ \A i \in 1 .. Len(code) : path[i].scope # << >> /\ Step(path[i], code[i], path[i + 1])
Typed(code, A, B) == \E path : Leads(code, A, B, path)

KeysOf(names) == [one |-> {names[k] : k \in DOMAIN names}, two |-> {}, three |-> {}]
RequestPromise ==
  Joined(Field(Field(Field(NoPromise, "method"), "target"), "version"),
         "headers", KeysOf(RequestNames))
ResponsePromise ==
  Joined(Field(Field(Field(NoPromise, "status"), "reason"), "version"),
         "headers", KeysOf(ResponseNames))
CtxPromise(p) ==
  LET request == Joined(Field(NoPromise, "phase"), "request", RequestPromise)
  IN  IF p = "Request" THEN request ELSE Joined(request, "response", ResponsePromise)

Begin == Known("none", <<EmptyScope>>, NoPromise)
End(p) == Known("none", << >>, CtxPromise(p))

-----------------------------------------------------------------------------
(***************************************************************************)
(* What is known is true of the frames.  Only the builder that is being    *)
(* used may have an error, and that is the first one of the match.         *)
(***************************************************************************)
CtxOf(h) == GetKey(h, h.global[TheContext], "ctx")

Fits(h, frame, scope, b, e) ==
  /\ DOMAIN frame = DOMAIN scope
  /\ IF b = "none" THEN e = 0 ELSE b \in DOMAIN frame
  /\ \A n \in DOMAIN frame :
       /\ frame[n].error = IF n = b THEN e ELSE 0
       /\ frame[n].error = 0 => Holds(h, frame[n].x.val, scope[n])

Matches(h, fr, scopes) ==
  /\ Len(fr) = Len(scopes)
  /\ \A f \in 1 .. Len(fr) : Fits(h, fr[f], scopes[f], "none", 0)

Agree(h, fr, e, A) ==
  /\ IF fr = << >> THEN A.scope = << >> /\ A.open = "none" /\ e = 0
     ELSE /\ A.scope # << >> /\ Matches(h, Pop(fr), Pop(A.scope))
          /\ Fits(h, TopOf(fr), TopOf(A.scope), A.open, e)
  /\ Holds(h, CtxOf(h), A.ctx)

-----------------------------------------------------------------------------
(***************************************************************************)
(* The parts of a heap, and what the calls of QuickJS change of them.      *)
(***************************************************************************)
Parts(k, h, c, p, g, e) ==
  [kind |-> k, home |-> h, count |-> c, prop |-> p, global |-> g, pending |-> e]

LEMMA HeapParts ==
  ASSUME NEW h \in Heaps
  PROVE  /\ h.kind \in [Obj -> Kinds \cup {"free"}]
         /\ h.home \in [Obj -> Ctx \cup {"none"}]
         /\ h.count \in [Obj -> Int]
         /\ h.prop \in [Obj -> [Keys -> JSValue \cup {"absent"}]]
         /\ h.global \in [Ctx -> Obj \cup {"none"}]
         /\ h.pending \in JSValue \cup {"none"}
         /\ h = Parts(h.kind, h.home, h.count, h.prop, h.global, h.pending)
BY DEF Heaps, Parts

LEMMA PartsFields ==
  ASSUME NEW k, NEW m, NEW c, NEW p, NEW g, NEW e
  PROVE  LET h == Parts(k, m, c, p, g, e)
         IN  /\ h.kind = k /\ h.home = m /\ h.count = c
             /\ h.prop = p /\ h.global = g /\ h.pending = e
BY DEF Parts

LEMMA PartsHeap ==
  ASSUME NEW k \in [Obj -> Kinds \cup {"free"}], NEW m \in [Obj -> Ctx \cup {"none"}],
         NEW c \in [Obj -> Int], NEW p \in [Obj -> [Keys -> JSValue \cup {"absent"}]],
         NEW g \in [Ctx -> Obj \cup {"none"}], NEW e \in JSValue \cup {"none"}
  PROVE  Parts(k, m, c, p, g, e) \in Heaps
BY DEF Heaps, Parts

\* A value is no object when it is one of these.
LEMMA NotObjects ==
  /\ "undefined" \notin Obj /\ "absent" \notin Obj /\ "none" \notin Obj
  /\ "int" \notin Obj /\ "bool" \notin Obj /\ "null" \notin Obj
  /\ "undefined" \in JSValue /\ "none" \notin Ctx /\ Immediate \cap Obj = {}
BY HeapAssumption DEF JSValue

LEMMA TheContextType == TheContext \in Ctx
BY MatchAssumption DEF TheContext

LEMMA FreeEqual ==
  ASSUME NEW h \in Heaps, NEW v \in Obj
  PROVE  Free(h, v) = Parts(h.kind, h.home, [h.count EXCEPT ![v] = @ - 1],
                            h.prop, h.global, h.pending)
<1> PICK k, m, c, p, g, e : h = Parts(k, m, c, p, g, e)
  BY HeapParts
<1> QED
  BY DEF Free, Parts

LEMMA DupEqual ==
  ASSUME NEW h \in Heaps, NEW v \in Obj
  PROVE  Dup(h, v) = Parts(h.kind, h.home, [h.count EXCEPT ![v] = @ + 1],
                           h.prop, h.global, h.pending)
<1> PICK k, m, c, p, g, e : h = Parts(k, m, c, p, g, e)
  BY HeapParts
<1> QED
  BY DEF Dup, Parts

LEMMA PendingEqual ==
  ASSUME NEW h \in Heaps, NEW v
  PROVE  [h EXCEPT !.pending = v] =
           Parts(h.kind, h.home, h.count, h.prop, h.global, v)
<1> PICK k, m, c, p, g, e : h = Parts(k, m, c, p, g, e)
  BY HeapParts
<1> QED
  BY DEF Parts

LEMMA GlobalEqual ==
  ASSUME NEW h \in Heaps, NEW c, NEW v
  PROVE  [h EXCEPT !.global[c] = v] =
           Parts(h.kind, h.home, h.count, h.prop, [h.global EXCEPT ![c] = v], h.pending)
<1> PICK k, m, n, p, g, e : h = Parts(k, m, n, p, g, e)
  BY HeapParts
<1> QED
  BY DEF Parts

WithProp(h, o, k, v) == [h EXCEPT !.prop[o][k] = v]

LEMMA PropEqual ==
  ASSUME NEW h \in Heaps, NEW o, NEW k, NEW v
  PROVE  WithProp(h, o, k, v) =
           Parts(h.kind, h.home, h.count, [h.prop EXCEPT ![o][k] = v], h.global, h.pending)
<1> PICK j, m, n, p, g, e : h = Parts(j, m, n, p, g, e)
  BY HeapParts
<1> QED
  BY DEF Parts, WithProp

\* One part of a heap at a time.
LEMMA PartsKind ==
  ASSUME NEW k, NEW m, NEW c, NEW p, NEW g, NEW e, NEW o, NEW x
  PROVE  [Parts(k, m, c, p, g, e) EXCEPT !.kind[o] = x] =
           Parts([k EXCEPT ![o] = x], m, c, p, g, e)
BY DEF Parts

\* Several at once.
Remade(h, o, x, y, z) == [h EXCEPT !.kind[o] = x, !.home[o] = y, !.count[o] = z]
Swept(h, o, n, x, y, z) ==
  [h EXCEPT !.count = n, !.kind[o] = x, !.home[o] = y, !.prop[o] = z]

LEMMA PartsNew ==
  ASSUME NEW k, NEW m, NEW c, NEW p, NEW g, NEW e, NEW o, NEW x, NEW y, NEW z,
         NEW h, h = Parts(k, m, c, p, g, e)
  PROVE  Remade(h, o, x, y, z) =
           Parts([k EXCEPT ![o] = x], [m EXCEPT ![o] = y], [c EXCEPT ![o] = z], p, g, e)
<1> DEFINE h0 == Parts(k, m, c, p, g, e)
           h1 == Parts([k EXCEPT ![o] = x], m, c, p, g, e)
           h2 == Parts([k EXCEPT ![o] = x], [m EXCEPT ![o] = y], c, p, g, e)
           h3 == Parts([k EXCEPT ![o] = x], [m EXCEPT ![o] = y], [c EXCEPT ![o] = z], p, g, e)
<1>1. [h0 EXCEPT !.kind[o] = x] = h1
  BY PartsKind
<1>2. [h1 EXCEPT !.home[o] = y] = h2
  BY DEF Parts
<1>3. [h2 EXCEPT !.count[o] = z] = h3
  BY DEF Parts
<1> HIDE DEF h0, h1, h2, h3
<1>4. [h0 EXCEPT !.kind[o] = x, !.home[o] = y, !.count[o] = z] =
        [[[h0 EXCEPT !.kind[o] = x] EXCEPT !.home[o] = y] EXCEPT !.count[o] = z]
  OBVIOUS
<1>5. [h0 EXCEPT !.kind[o] = x, !.home[o] = y, !.count[o] = z] = h3
  BY <1>1, <1>2, <1>3, <1>4
<1> QED
  BY <1>5 DEF h0, h3, Remade

LEMMA PartsSweep ==
  ASSUME NEW k, NEW m, NEW c, NEW p, NEW g, NEW e, NEW o, NEW x, NEW y, NEW z, NEW n,
         NEW h, h = Parts(k, m, c, p, g, e)
  PROVE  Swept(h, o, n, x, y, z) =
           Parts([k EXCEPT ![o] = x], [m EXCEPT ![o] = y], n, [p EXCEPT ![o] = z], g, e)
<1> DEFINE h0 == Parts(k, m, c, p, g, e)
           h1 == Parts(k, m, n, p, g, e)
           h2 == Parts([k EXCEPT ![o] = x], m, n, p, g, e)
           h3 == Parts([k EXCEPT ![o] = x], [m EXCEPT ![o] = y], n, p, g, e)
           h4 == Parts([k EXCEPT ![o] = x], [m EXCEPT ![o] = y], n, [p EXCEPT ![o] = z], g, e)
<1>1. [h0 EXCEPT !.count = n] = h1
  BY DEF Parts
<1>2. [h1 EXCEPT !.kind[o] = x] = h2
  BY DEF Parts
<1>3. [h2 EXCEPT !.home[o] = y] = h3
  BY DEF Parts
<1>4. [h3 EXCEPT !.prop[o] = z] = h4
  BY DEF Parts
<1> HIDE DEF h0, h1, h2, h3, h4
<1>5. [h0 EXCEPT !.count = n, !.kind[o] = x, !.home[o] = y, !.prop[o] = z] =
        [[[[h0 EXCEPT !.count = n] EXCEPT !.kind[o] = x] EXCEPT !.home[o] = y]
           EXCEPT !.prop[o] = z]
  OBVIOUS
<1>6. [h0 EXCEPT !.count = n, !.kind[o] = x, !.home[o] = y, !.prop[o] = z] = h4
  BY <1>1, <1>2, <1>3, <1>4, <1>5
<1> QED
  BY <1>6 DEF h0, h4, Swept

LEMMA NewEqual ==
  ASSUME NEW h \in Heaps, NEW c, NEW kind, NEW r \in New(h, c, kind)
  PROVE  /\ r.v \in Obj /\ h.kind[r.v] = "free"
         /\ r.h = Parts([h.kind EXCEPT ![r.v] = kind], [h.home EXCEPT ![r.v] = c],
                        [h.count EXCEPT ![r.v] = 1], h.prop, h.global, h.pending)
<1> DEFINE o == CHOOSE o \in Obj : o \in Unused(h)
           g == [h EXCEPT !.kind[o] = kind, !.home[o] = c, !.count[o] = 1]
<1>1. Unused(h) # {} /\ r = [h |-> g, v |-> o]
  BY Zenon DEF New
<1>2. o \in Obj /\ o \in Unused(h)
  BY <1>1, Zenon DEF Unused
<1> HIDE DEF o
<1>3. g = Parts([h.kind EXCEPT ![o] = kind], [h.home EXCEPT ![o] = c],
                [h.count EXCEPT ![o] = 1], h.prop, h.global, h.pending)
  <2>1. PICK k, m, n, p, q, e : h = Parts(k, m, n, p, q, e)
    BY HeapParts
  <2>2. /\ h.kind = k /\ h.home = m /\ h.count = n /\ h.prop = p /\ h.global = q
        /\ h.pending = e
    BY <2>1, PartsFields
  <2>3. g = Parts([k EXCEPT ![o] = kind], [m EXCEPT ![o] = c], [n EXCEPT ![o] = 1], p, q, e)
    <3>1. g = Remade(h, o, kind, c, 1)
      BY DEF Remade
    <3> QED
      BY <2>1, <3>1, PartsNew
  <2> QED
    BY <2>2, <2>3
<1> HIDE DEF g
<1>4. r.h = g /\ r.v = o
  BY <1>1
<1> QED
  BY <1>2, <1>3, <1>4, Zenon DEF Unused

LEMMA SweepEqual ==
  ASSUME NEW h \in Heaps, NEW o \in Obj
  PROVE  Sweep(h, o) =
           Parts([h.kind EXCEPT ![o] = "free"], [h.home EXCEPT ![o] = "none"],
                 [q \in Obj |-> h.count[q] - Cardinality({k \in Keys : h.prop[o][k] = q})],
                 [h.prop EXCEPT ![o] = NoProperties], h.global, h.pending)
<1> DEFINE n == [q \in Obj |-> h.count[q] - Cardinality({k \in Keys : h.prop[o][k] = q})]
<1>1. Sweep(h, o) = [h EXCEPT !.count = n, !.kind[o] = "free",
                              !.home[o] = "none", !.prop[o] = NoProperties]
  BY DEF Sweep
<1> HIDE DEF n
<1>2. PICK k, m, c, p, g, e : h = Parts(k, m, c, p, g, e)
  BY HeapParts
<1>3. h.kind = k /\ h.home = m /\ h.count = c /\ h.prop = p /\ h.global = g /\ h.pending = e
  BY <1>2, PartsFields
<1>4. Sweep(h, o) = Parts([k EXCEPT ![o] = "free"], [m EXCEPT ![o] = "none"],
                          n, [p EXCEPT ![o] = NoProperties], g, e)
  <2>1. Sweep(h, o) = Swept(h, o, n, "free", "none", NoProperties)
    BY <1>1 DEF Swept
  <2> QED
    BY <1>2, <2>1, PartsSweep
<1> QED
  BY <1>3, <1>4 DEF n

(***************************************************************************)
(* What each of them leaves alone.                                         *)
(***************************************************************************)
OnlyCounts(h, g, n) ==
  /\ g \in Heaps /\ g.count = n /\ g.kind = h.kind /\ g.home = h.home
  /\ g.prop = h.prop /\ g.global = h.global /\ g.pending = h.pending

OnlyPending(h, g, e) ==
  /\ g \in Heaps /\ g.pending = e /\ g.count = h.count /\ g.kind = h.kind
  /\ g.home = h.home /\ g.prop = h.prop /\ g.global = h.global

OnlyGlobal(h, g, c, v) ==
  /\ g \in Heaps /\ g.global = [h.global EXCEPT ![c] = v] /\ g.count = h.count
  /\ g.kind = h.kind /\ g.home = h.home /\ g.prop = h.prop /\ g.pending = h.pending

\* o, which was free, is allocated.
Allocated(h, g, o) ==
  /\ g \in Heaps /\ o \in Unused(h) /\ g.kind[o] # "free" /\ g.count[o] = 1
  /\ \A p \in Obj \ {o} : g.kind[p] = h.kind[p] /\ g.home[p] = h.home[p] /\ g.count[p] = h.count[p]
  /\ g.prop = h.prop /\ g.global = h.global /\ g.pending = h.pending

LEMMA CountsEqual ==
  ASSUME NEW h \in Heaps, NEW n
  PROVE  [h EXCEPT !.count = n] = Parts(h.kind, h.home, n, h.prop, h.global, h.pending)
<1> PICK k, m, c, p, g, e : h = Parts(k, m, c, p, g, e)
  BY HeapParts
<1> QED
  BY DEF Parts

LEMMA CountsParts ==
  ASSUME NEW h \in Heaps, NEW n \in [Obj -> Int]
  PROVE  OnlyCounts(h, Parts(h.kind, h.home, n, h.prop, h.global, h.pending), n)
<1> PICK k, m, c, p, g, e : k = h.kind /\ m = h.home /\ c = h.count /\ p = h.prop
                            /\ g = h.global /\ e = h.pending
  OBVIOUS
<1>1. Parts(k, m, n, p, g, e) \in Heaps
  BY HeapParts, PartsHeap
<1> QED
  BY <1>1, PartsFields DEF OnlyCounts

LEMMA FreeCounts ==
  ASSUME NEW h \in Heaps, NEW v \in Obj
  PROVE  OnlyCounts(h, Free(h, v), [h.count EXCEPT ![v] = @ - 1])
<1> PICK n : n = [h.count EXCEPT ![v] = @ - 1]
  OBVIOUS
<1>1. n \in [Obj -> Int]
  BY HeapParts
<1>2. Free(h, v) = Parts(h.kind, h.home, n, h.prop, h.global, h.pending)
  BY FreeEqual
<1> QED
  BY <1>1, <1>2, CountsParts

LEMMA DupCounts ==
  ASSUME NEW h \in Heaps, NEW v \in Obj
  PROVE  OnlyCounts(h, Dup(h, v), [h.count EXCEPT ![v] = @ + 1])
<1> PICK n : n = [h.count EXCEPT ![v] = @ + 1]
  OBVIOUS
<1>1. n \in [Obj -> Int]
  BY HeapParts
<1>2. Dup(h, v) = Parts(h.kind, h.home, n, h.prop, h.global, h.pending)
  BY DupEqual
<1> QED
  BY <1>1, <1>2, CountsParts

LEMMA PendingParts ==
  ASSUME NEW h \in Heaps, NEW v \in JSValue \cup {"none"}
  PROVE  OnlyPending(h, [h EXCEPT !.pending = v], v)
<1> PICK k, m, c, p, g : k = h.kind /\ m = h.home /\ c = h.count /\ p = h.prop /\ g = h.global
  OBVIOUS
<1>1. Parts(k, m, c, p, g, v) \in Heaps
  BY HeapParts, PartsHeap
<1> QED
  BY <1>1, PendingEqual, PartsFields DEF OnlyPending

LEMMA GlobalParts ==
  ASSUME NEW h \in Heaps, NEW c \in Ctx, NEW v \in Obj \cup {"none"}
  PROVE  OnlyGlobal(h, [h EXCEPT !.global[c] = v], c, v)
<1> PICK k, m, n, p, e : k = h.kind /\ m = h.home /\ n = h.count /\ p = h.prop /\ e = h.pending
  OBVIOUS
<1> PICK g : g = [h.global EXCEPT ![c] = v]
  OBVIOUS
<1>1. g \in [Ctx -> Obj \cup {"none"}]
  BY HeapParts
<1>2. Parts(k, m, n, p, g, e) \in Heaps
  BY <1>1, HeapParts, PartsHeap
<1>3. [h EXCEPT !.global[c] = v] = Parts(k, m, n, p, g, e)
  BY GlobalEqual
<1> QED
  BY <1>2, <1>3, PartsFields DEF OnlyGlobal

LEMMA NewParts ==
  ASSUME NEW h \in Heaps, NEW d \in Ctx, NEW kind \in Kinds, NEW n \in New(h, d, kind)
  PROVE  Allocated(h, n.h, n.v)
<1> PICK o : o = n.v
  OBVIOUS
<1> PICK k, m, c : k = [h.kind EXCEPT ![o] = kind] /\ m = [h.home EXCEPT ![o] = d]
                   /\ c = [h.count EXCEPT ![o] = 1]
  OBVIOUS
<1> PICK p, g, e : p = h.prop /\ g = h.global /\ e = h.pending
  OBVIOUS
<1>1. o \in Obj /\ h.kind[o] = "free" /\ n.h = Parts(k, m, c, p, g, e)
  BY NewEqual
<1>2. k \in [Obj -> Kinds \cup {"free"}] /\ m \in [Obj -> Ctx \cup {"none"}] /\ c \in [Obj -> Int]
  BY <1>1, HeapParts
<1>3. Parts(k, m, c, p, g, e) \in Heaps
  BY <1>2, HeapParts, PartsHeap
<1>4. k[o] = kind /\ c[o] = 1
      /\ \A q \in Obj \ {o} : k[q] = h.kind[q] /\ m[q] = h.home[q] /\ c[q] = h.count[q]
  BY <1>1, HeapParts
<1>5. kind # "free" /\ o \in Unused(h)
  BY <1>1 DEF Kinds, Unused
<1>6. /\ n.v = o /\ n.h \in Heaps /\ n.h.kind = k /\ n.h.home = m /\ n.h.count = c
      /\ n.h.prop = p /\ n.h.global = g /\ n.h.pending = e
  BY <1>1, <1>3, PartsFields
<1> QED
  BY <1>4, <1>5, <1>6 DEF Allocated

\* A property of o is set; what it held is freed.
Linked(h, g, o, k, v) ==
  /\ g \in Heaps /\ g.kind = h.kind /\ g.home = h.home
  /\ g.global = h.global /\ g.pending = h.pending
  /\ \A p \in Obj, j \in Keys :
       g.prop[p][j] = IF p = o /\ j = k THEN v ELSE h.prop[p][j]
  /\ \A p \in Obj : g.count[p] = h.count[p] - (IF h.prop[o][k] = p THEN 1 ELSE 0)

LEMMA FreeAny ==
  ASSUME NEW h \in Heaps, NEW v
  PROVE  /\ v \notin Obj => Free(h, v) = h
         /\ \E n \in [Obj -> Int] :
              /\ OnlyCounts(h, Free(h, v), n)
              /\ \A p \in Obj : n[p] = h.count[p] - (IF v = p THEN 1 ELSE 0)
<1> PICK m : m = h.count
  OBVIOUS
<1>1. m \in [Obj -> Int]
  BY HeapParts
<1>2. CASE v \notin Obj
  <2>1. Free(h, v) = h
    BY <1>2 DEF Free
  <2>2. OnlyCounts(h, Free(h, v), m)
    BY <2>1 DEF OnlyCounts
  <2>3. \A p \in Obj : m[p] = h.count[p] - (IF v = p THEN 1 ELSE 0)
    BY <1>1, <1>2
  <2> QED
    BY <1>1, <2>1, <2>2, <2>3
<1>3. CASE v \in Obj
  <2> PICK n : n = [m EXCEPT ![v] = @ - 1]
    OBVIOUS
  <2>1. n \in [Obj -> Int]
    BY <1>1, <1>3
  <2>2. OnlyCounts(h, Free(h, v), n)
    BY <1>3, FreeCounts
  <2>3. \A p \in Obj : n[p] = h.count[p] - (IF v = p THEN 1 ELSE 0)
    BY <1>1, <1>3
  <2>4. \E c \in [Obj -> Int] :
          /\ OnlyCounts(h, Free(h, v), c)
          /\ \A p \in Obj : c[p] = h.count[p] - (IF v = p THEN 1 ELSE 0)
    BY <2>1, <2>2, <2>3, Zenon
  <2> QED
    BY <1>3, <2>4, Zenon
<1> QED
  BY <1>2, <1>3

LEMMA SetKeyParts ==
  ASSUME NEW h \in Heaps, NEW o \in Obj, NEW k \in Keys, NEW v \in JSValue
  PROVE  Linked(h, SetKey(h, o, k, v), o, k, v)
<1> PICK n \in [Obj -> Int] :
      /\ OnlyCounts(h, Free(h, h.prop[o][k]), n)
      /\ \A p \in Obj : n[p] = h.count[p] - (IF h.prop[o][k] = p THEN 1 ELSE 0)
  BY FreeAny
<1> PICK f : f = Free(h, h.prop[o][k])
  OBVIOUS
<1>1. /\ f \in Heaps /\ f.count = n /\ f.kind = h.kind /\ f.home = h.home
      /\ f.prop = h.prop /\ f.global = h.global /\ f.pending = h.pending
  BY DEF OnlyCounts
<1> PICK q : q = [h.prop EXCEPT ![o][k] = v]
  OBVIOUS
<1>2. SetKey(h, o, k, v) = WithProp(f, o, k, v)
  BY DEF SetKey, WithProp
<1> PICK a, b, c, d : a = h.kind /\ b = h.home /\ c = h.global /\ d = h.pending
  OBVIOUS
<1>3. SetKey(h, o, k, v) = Parts(a, b, n, q, c, d)
  BY <1>1, <1>2, PropEqual
<1>4. h.prop \in [Obj -> [Keys -> JSValue \cup {"absent"}]]
  BY HeapParts
<1>5. q \in [Obj -> [Keys -> JSValue \cup {"absent"}]]
  BY <1>4
<1>6. \A p \in Obj, j \in Keys : q[p][j] = IF p = o /\ j = k THEN v ELSE h.prop[p][j]
  BY <1>4
<1>7. Parts(a, b, n, q, c, d) \in Heaps
  BY <1>5, HeapParts, PartsHeap
<1> PICK g : g = SetKey(h, o, k, v)
  OBVIOUS
<1>8. g \in Heaps /\ g.kind = a /\ g.home = b /\ g.count = n /\ g.prop = q /\ g.global = c
      /\ g.pending = d
  BY <1>3, <1>7, PartsFields
<1> QED
  BY <1>6, <1>8 DEF Linked

\* The memory of o is freed.
Cleared(h, g, o) ==
  /\ g \in Heaps /\ g.global = h.global /\ g.pending = h.pending
  /\ g.kind[o] = "free" /\ g.home[o] = "none" /\ g.prop[o] = NoProperties
  /\ \A p \in Obj \ {o} : g.kind[p] = h.kind[p] /\ g.home[p] = h.home[p] /\ g.prop[p] = h.prop[p]
  /\ \A p \in Obj : g.count[p] = h.count[p] - Cardinality({k \in Keys : h.prop[o][k] = p})

LEMMA SweepParts ==
  ASSUME NEW h \in Heaps, NEW o \in Obj
  PROVE  Cleared(h, Sweep(h, o), o)
<1> PICK k, m, p : /\ k = [h.kind EXCEPT ![o] = "free"] /\ m = [h.home EXCEPT ![o] = "none"]
                   /\ p = [h.prop EXCEPT ![o] = NoProperties]
  OBVIOUS
<1> PICK n : n = [q \in Obj |-> h.count[q] - Cardinality({j \in Keys : h.prop[o][j] = q})]
  OBVIOUS
<1> PICK c, d : c = h.global /\ d = h.pending
  OBVIOUS
<1>1. Sweep(h, o) = Parts(k, m, n, p, c, d)
  BY SweepEqual
<1>2. ASSUME NEW q \in Obj
      PROVE  Cardinality({j \in Keys : h.prop[o][j] = q}) \in Nat
  <2>1. {j \in Keys : h.prop[o][j] = q} \in SUBSET Keys
    OBVIOUS
  <2> QED
    BY <2>1, HeapAssumption, FS_Subset, FS_CardinalityType
<1>3. h.count \in [Obj -> Int]
  BY HeapParts
<1>4. n \in [Obj -> Int]
  BY <1>2, <1>3
<1>5. NoProperties \in [Keys -> JSValue \cup {"absent"}]
  BY DEF NoProperties
<1>6. k \in [Obj -> Kinds \cup {"free"}] /\ m \in [Obj -> Ctx \cup {"none"}]
      /\ p \in [Obj -> [Keys -> JSValue \cup {"absent"}]]
  BY <1>5, HeapParts
<1>7. k[o] = "free" /\ m[o] = "none" /\ p[o] = NoProperties
      /\ \A q \in Obj \ {o} : k[q] = h.kind[q] /\ m[q] = h.home[q] /\ p[q] = h.prop[q]
  BY HeapParts
<1>8. Parts(k, m, n, p, c, d) \in Heaps
  BY <1>4, <1>6, HeapParts, PartsHeap
<1> PICK g : g = Sweep(h, o)
  OBVIOUS
<1>9. g \in Heaps /\ g.kind = k /\ g.home = m /\ g.count = n /\ g.prop = p /\ g.global = c
      /\ g.pending = d
  BY <1>1, <1>8, PartsFields
<1>10. \A q \in Obj : n[q] = h.count[q] - Cardinality({j \in Keys : h.prop[o][j] = q})
  BY Zenon
<1> QED
  BY <1>7, <1>9, <1>10 DEF Cleared

\* A set whose members are all the same.
LEMMA AtMostOne ==
  ASSUME NEW S, \A a, b \in S : a = b
  PROVE  Cardinality(S) = (IF S = {} THEN 0 ELSE 1)
<1>1. CASE S = {}
  BY <1>1, FS_EmptySet
<1>2. CASE S # {}
  <2>1. PICK a : S = {a}
    BY <1>2
  <2> QED
    BY <1>2, <2>1, FS_Singleton
<1> QED
  BY <1>1, <1>2

-----------------------------------------------------------------------------
(***************************************************************************)
(* What a call does to a forest.                                           *)
(***************************************************************************)
LEMMA ForestFacts ==
  ASSUME NEW h, NEW H, Forest(h, H)
  PROVE  /\ h \in Heaps /\ H \in SUBSET Obj /\ h.pending = "none"
         /\ Blank(h) /\ SoleOwner(h, H) /\ CountsOwner(h, H) /\ Acyclic(h.prop)
BY DEF Forest

\* What is free has no owner and owns nothing.
LEMMA FreeHasNoOwner ==
  ASSUME NEW h, NEW H, Forest(h, H), NEW o \in Unused(h)
  PROVE  /\ o \in Obj /\ h.count[o] = 0 /\ h.prop[o] = NoProperties /\ h.home[o] = "none"
         /\ o \notin H /\ ~Stored(h.prop, o) /\ ~IsGlobal(h.global, o)
<1>1. o \in Obj /\ h.kind[o] = "free"
  BY DEF Unused
<1>2. Blank(h) /\ CountsOwner(h, H)
  BY DEF Forest
<1>3. h.count[o] = 0 /\ h.prop[o] = NoProperties /\ h.home[o] = "none"
  BY <1>1, <1>2 DEF Blank
<1>4. ~Owned(h, H, o)
  BY <1>1, <1>2, <1>3 DEF CountsOwner
<1> QED
  BY <1>1, <1>3, <1>4 DEF Owned

(***************************************************************************)
(* g is h with more garbage: objects that were free and count nothing.     *)
(***************************************************************************)
Litter(h, g) ==
  /\ g \in Heaps /\ g.count = h.count /\ g.prop = h.prop
  /\ g.global = h.global /\ g.pending = h.pending
  /\ \A o \in Obj : g.kind[o] = "free" => h.kind[o] = "free" /\ g.home[o] = h.home[o]

LEMMA LitterForest ==
  ASSUME NEW h, NEW H, NEW g, Forest(h, H), Litter(h, g)
  PROVE  Forest(g, H)
<1>1. /\ h \in Heaps /\ H \in SUBSET Obj /\ h.pending = "none"
      /\ Blank(h) /\ SoleOwner(h, H) /\ CountsOwner(h, H) /\ Acyclic(h.prop)
  BY DEF Forest
<1>2. /\ g \in Heaps /\ g.count = h.count /\ g.prop = h.prop
      /\ g.global = h.global /\ g.pending = h.pending
  BY DEF Litter
<1>3. Blank(g)
  BY <1>1, <1>2 DEF Blank, Litter
<1>4. SoleOwner(g, H)
  BY <1>1, <1>2, Zenon DEF SoleOwner
<1>5. CountsOwner(g, H)
  BY <1>1, <1>2, Zenon DEF CountsOwner, Owned
<1> QED
  BY <1>1, <1>2, <1>3, <1>4, <1>5 DEF Forest

LEMMA LitterTrans ==
  ASSUME NEW h, NEW f, NEW g, Litter(h, f), Litter(f, g)
  PROVE  Litter(h, g)
BY DEF Litter

LEMMA LitterSelf ==
  ASSUME NEW h \in Heaps
  PROVE  Litter(h, h)
BY DEF Litter

\* An object is allocated for a new owner outside the heap.
LEMMA AllocatedForest ==
  ASSUME NEW h, NEW H, NEW g, NEW o, Forest(h, H), Allocated(h, g, o)
  PROVE  Forest(g, H \cup {o}) /\ o \notin H /\ o \in Obj
<1>1. /\ h \in Heaps /\ H \in SUBSET Obj /\ h.pending = "none"
      /\ Blank(h) /\ SoleOwner(h, H) /\ CountsOwner(h, H) /\ Acyclic(h.prop)
  BY DEF Forest
<1>2. /\ g \in Heaps /\ o \in Unused(h) /\ g.kind[o] # "free" /\ g.count[o] = 1
      /\ \A p \in Obj \ {o} : g.kind[p] = h.kind[p] /\ g.home[p] = h.home[p] /\ g.count[p] = h.count[p]
      /\ g.prop = h.prop /\ g.global = h.global /\ g.pending = h.pending
  BY DEF Allocated
<1>3. /\ o \in Obj /\ h.count[o] = 0 /\ h.prop[o] = NoProperties
      /\ o \notin H /\ ~Stored(h.prop, o) /\ ~IsGlobal(h.global, o)
  BY <1>2, FreeHasNoOwner
<1>4. Blank(g)
  BY <1>1, <1>2 DEF Blank
<1>5. SoleOwner(g, H \cup {o})
  BY <1>1, <1>2, <1>3 DEF SoleOwner
<1>6. CountsOwner(g, H \cup {o})
  BY <1>1, <1>2, <1>3 DEF CountsOwner, Owned
<1> QED
  BY <1>1, <1>2, <1>3, <1>4, <1>5, <1>6 DEF Forest

\* An owner outside the heap gives its object up.
Ours(H, v) == v \in Obj => v \in H

LEMMA FreedForest ==
  ASSUME NEW h, NEW H, NEW v, Forest(h, H), Ours(H, v)
  PROVE  Forest(Free(h, v), H \ {v}) /\ Free(h, v).prop = h.prop /\ Free(h, v).global = h.global
<1>1. /\ h \in Heaps /\ H \in SUBSET Obj /\ h.pending = "none"
      /\ Blank(h) /\ SoleOwner(h, H) /\ CountsOwner(h, H) /\ Acyclic(h.prop)
  BY DEF Forest
<1> PICK g : g = Free(h, v)
  OBVIOUS
<1>2. CASE v \notin Obj
  <2>1. g = h /\ H \ {v} = H
    BY <1>1, <1>2, FreeAny
  <2> QED
    BY <2>1
<1>3. CASE v \in Obj
  <2>1. PICK n \in [Obj -> Int] :
          /\ OnlyCounts(h, g, n)
          /\ \A p \in Obj : n[p] = h.count[p] - (IF v = p THEN 1 ELSE 0)
    BY <1>1, FreeAny
  <2>2. /\ g \in Heaps /\ g.count = n /\ g.kind = h.kind /\ g.home = h.home
        /\ g.prop = h.prop /\ g.global = h.global /\ g.pending = h.pending
    BY <2>1 DEF OnlyCounts
  <2>3. v \in H /\ h.count[v] = 1
    BY <1>1, <1>3 DEF CountsOwner, Owned, Ours
  <2>4. Blank(g)
    BY <1>1, <2>1, <2>2, <2>3 DEF Blank
  <2>5. SoleOwner(g, H \ {v})
    BY <1>1, <2>2 DEF SoleOwner
  <2>6. ~Stored(h.prop, v) /\ ~IsGlobal(h.global, v)
    BY <1>1, <2>3 DEF SoleOwner
  <2>7. CountsOwner(g, H \ {v})
    BY <1>1, <2>1, <2>2, <2>3, <2>6 DEF CountsOwner, Owned
  <2>8. H \ {v} \in SUBSET Obj
    BY <1>1
  <2> QED
    BY <1>1, <2>2, <2>4, <2>5, <2>7, <2>8 DEF Forest
<1> QED
  BY <1>2, <1>3

\* What is an owner lives.
LEMMA OwnedLives ==
  ASSUME NEW h, NEW H, Forest(h, H), NEW o \in Obj, Owned(h, H, o)
  PROVE  h.count[o] = 1 /\ h.kind[o] # "free"
<1>1. Blank(h) /\ CountsOwner(h, H)
  BY DEF Forest
<1>2. h.count[o] = 1
  BY <1>1 DEF CountsOwner
<1> QED
  BY <1>1, <1>2 DEF Blank

(***************************************************************************)
(* An object that only a local or a context owns takes over what another   *)
(* local owns.  Nothing owns it in its turn, so no cycle is closed.        *)
(***************************************************************************)
LEMMA LinkedForest ==
  ASSUME NEW h, NEW H, Forest(h, H), NEW t \in Obj, NEW k \in Keys, NEW v \in JSValue, NEW g,
         Linked(h, g, t, k, v), Ours(H, v), t # v, t \in H \/ IsGlobal(h.global, t)
  PROVE  Forest(g, H \ {v})
<1>1. /\ h \in Heaps /\ H \in SUBSET Obj /\ h.pending = "none"
      /\ Blank(h) /\ SoleOwner(h, H) /\ CountsOwner(h, H) /\ Acyclic(h.prop)
  BY DEF Forest
<1>2. /\ g \in Heaps /\ g.kind = h.kind /\ g.home = h.home
      /\ g.global = h.global /\ g.pending = h.pending
  BY DEF Linked
<1>3. \A p \in Obj, j \in Keys :
        g.prop[p][j] = IF p = t /\ j = k THEN v ELSE h.prop[p][j]
  BY DEF Linked
<1>4. \A p \in Obj : g.count[p] = h.count[p] - (IF h.prop[t][k] = p THEN 1 ELSE 0)
  BY DEF Linked
<1>5. h.kind[t] # "free" /\ ~Stored(h.prop, t)
  BY <1>1, OwnedLives DEF Owned, SoleOwner
<1>6. v \in Obj => ~Stored(h.prop, v) /\ ~IsGlobal(h.global, v) /\ v \in H
  BY <1>1 DEF Ours, SoleOwner
<1>7. ASSUME NEW o \in Obj
      PROVE  Stored(g.prop, o) <=> o = v \/ (Stored(h.prop, o) /\ h.prop[t][k] # o)
  <2>1. OneProperty(h.prop)
    BY <1>1 DEF SoleOwner
  <2>2. ASSUME Stored(g.prop, o), o # v
        PROVE  Stored(h.prop, o) /\ h.prop[t][k] # o
    <3>1. PICK p \in Obj, j \in Keys : g.prop[p][j] = o
      BY <2>2 DEF Stored
    <3>2. ~(p = t /\ j = k) /\ h.prop[p][j] = o
      BY <1>3, <2>2, <3>1
    <3> QED
      BY <2>1, <3>2 DEF Stored, OneProperty
  <2>3. ASSUME Stored(h.prop, o), h.prop[t][k] # o
        PROVE  Stored(g.prop, o)
    <3>1. PICK p \in Obj, j \in Keys : h.prop[p][j] = o
      BY <2>3 DEF Stored
    <3>2. g.prop[p][j] = o
      BY <1>3, <2>3, <3>1
    <3> QED
      BY <3>2 DEF Stored
  <2>4. ASSUME o = v
        PROVE  Stored(g.prop, o)
    BY <1>3, <2>4 DEF Stored
  <2> QED
    BY <2>2, <2>3, <2>4
<1>8. Blank(g)
  <2> SUFFICES ASSUME NEW o \in Obj, g.kind[o] = "free"
               PROVE  g.home[o] = "none" /\ g.prop[o] = NoProperties /\ g.count[o] = 0
    BY DEF Blank
  <2>1. h.kind[o] = "free" /\ o # t
    BY <1>2, <1>5
  <2>2. h.home[o] = "none" /\ h.prop[o] = NoProperties /\ h.count[o] = 0
    BY <1>1, <2>1 DEF Blank
  <2>3. g.prop[o] \in [Keys -> JSValue \cup {"absent"}] /\ h.prop[o] \in [Keys -> JSValue \cup {"absent"}]
    BY <1>1, <1>2, HeapParts
  <2>4. \A j \in Keys : g.prop[o][j] = h.prop[o][j]
    BY <1>3, <2>1
  <2>5. g.prop[o] = h.prop[o]
    BY <2>3, <2>4
  <2>6. h.prop[t][k] # o
    BY <1>1, <2>1, OwnedLives DEF Owned, Stored
  <2> QED
    BY <1>2, <1>4, <2>2, <2>5, <2>6
<1>9. SoleOwner(g, H \ {v})
  <2>1. OneProperty(g.prop)
    <3> SUFFICES ASSUME NEW p \in Obj, NEW q \in Obj, NEW i \in Keys, NEW j \in Keys,
                        g.prop[p][i] \in Obj, g.prop[p][i] = g.prop[q][j]
                 PROVE  p = q /\ i = j
      BY DEF OneProperty
    <3>1. OneProperty(h.prop)
      BY <1>1 DEF SoleOwner
    <3>2. \A a \in Obj, b \in Keys : v \in Obj => h.prop[a][b] # v
      BY <1>6 DEF Stored
    <3>3. CASE p = t /\ i = k
      BY <1>3, <3>2, <3>3
    <3>4. CASE q = t /\ j = k
      BY <1>3, <3>2, <3>4
    <3>5. CASE ~(p = t /\ i = k) /\ ~(q = t /\ j = k)
      BY <1>3, <3>1, <3>5 DEF OneProperty
    <3> QED
      BY <3>3, <3>4, <3>5
  <2>2. \A o \in H \ {v} : ~Stored(g.prop, o) /\ ~IsGlobal(g.global, o)
    BY <1>1, <1>2, <1>7 DEF SoleOwner
  <2>3. \A o \in Obj : ~(Stored(g.prop, o) /\ IsGlobal(g.global, o))
    BY <1>1, <1>2, <1>6, <1>7 DEF SoleOwner
  <2>4. \A c \in Ctx : g.global[c] # "none" => c = TheContext
    BY <1>1, <1>2 DEF SoleOwner
  <2> QED
    BY <2>1, <2>2, <2>3, <2>4 DEF SoleOwner
<1>10. CountsOwner(g, H \ {v})
  <2> SUFFICES ASSUME NEW o \in Obj
               PROVE  g.count[o] = IF Owned(g, H \ {v}, o) THEN 1 ELSE 0
    BY DEF CountsOwner
  <2>1. h.count[o] = IF Owned(h, H, o) THEN 1 ELSE 0
    BY <1>1 DEF CountsOwner
  <2>2. h.prop[t][k] = o => Stored(h.prop, o) /\ o \notin H /\ ~IsGlobal(h.global, o) /\ o # v
    BY <1>1, <1>6 DEF Stored, SoleOwner
  <2>3. CASE h.prop[t][k] = o
    BY <1>2, <1>4, <1>7, <2>1, <2>2, <2>3 DEF Owned
  <2>4. CASE h.prop[t][k] # o
    <3>1. Owned(g, H \ {v}, o) <=> Owned(h, H, o)
      BY <1>2, <1>6, <1>7, <2>4, Zenon DEF Owned
    <3>2. g.count[o] = h.count[o] - 0
      BY <1>4, <2>4
    <3> QED
      BY <2>1, <3>1, <3>2
  <2> QED
    BY <2>3, <2>4
<1>11. Acyclic(g.prop)
  <2> SUFFICES ASSUME NEW S \in SUBSET Obj, S # {}
               PROVE  \E o \in S : \A p \in S, j \in Keys : g.prop[p][j] # o
    BY DEF Acyclic
  <2>1. CASE t \in S
    <3>1. \A p \in S, j \in Keys : g.prop[p][j] # t
      BY <1>3, <1>5 DEF Stored
    <3> QED
      BY <2>1, <3>1
  <2>2. CASE t \notin S
    <3>1. PICK o \in S : \A p \in S, j \in Keys : h.prop[p][j] # o
      BY <1>1 DEF Acyclic
    <3>2. \A p \in S, j \in Keys : g.prop[p][j] = h.prop[p][j]
      BY <1>3, <2>2
    <3> QED
      BY <3>1, <3>2
  <2> QED
    BY <2>1, <2>2
<1>12. H \ {v} \in SUBSET Obj
  BY <1>1
<1> QED
  BY <1>1, <1>2, <1>8, <1>9, <1>10, <1>11, <1>12 DEF Forest

(***************************************************************************)
(* What nothing owns is swept.                                             *)
(***************************************************************************)
LEMMA SweptForest ==
  ASSUME NEW h, NEW H, Forest(h, H), NEW o \in Unswept(h), NEW g, Cleared(h, g, o)
  PROVE  Forest(g, H)
<1>1. /\ h \in Heaps /\ H \in SUBSET Obj /\ h.pending = "none"
      /\ Blank(h) /\ SoleOwner(h, H) /\ CountsOwner(h, H) /\ Acyclic(h.prop)
  BY DEF Forest
<1>2. o \in Obj /\ h.kind[o] # "free" /\ h.count[o] = 0
  BY DEF Unswept
<1>3. /\ g \in Heaps /\ g.global = h.global /\ g.pending = h.pending
      /\ g.kind[o] = "free" /\ g.home[o] = "none" /\ g.prop[o] = NoProperties
      /\ \A p \in Obj \ {o} : g.kind[p] = h.kind[p] /\ g.home[p] = h.home[p] /\ g.prop[p] = h.prop[p]
  BY DEF Cleared
<1>4. ~Owned(h, H, o)
  BY <1>1, <1>2 DEF CountsOwner
<1>5. ~Stored(h.prop, o) /\ o \notin H /\ ~IsGlobal(h.global, o)
  BY <1>4 DEF Owned
<1>6. OneProperty(h.prop)
  BY <1>1 DEF SoleOwner
<1>7. ASSUME NEW p \in Obj
      PROVE  g.count[p] = h.count[p] - (IF \E k \in Keys : h.prop[o][k] = p THEN 1 ELSE 0)
  <2> PICK S : S = {k \in Keys : h.prop[o][k] = p}
    OBVIOUS
  <2>1. \A a, b \in S : a = b
    BY <1>2, <1>6 DEF OneProperty
  <2>2. Cardinality(S) = IF S = {} THEN 0 ELSE 1
    BY <2>1, AtMostOne
  <2>3. S = {} <=> ~(\E k \in Keys : h.prop[o][k] = p)
    OBVIOUS
  <2>4. g.count[p] = h.count[p] - Cardinality(S)
    BY DEF Cleared
  <2> QED
    BY <2>2, <2>3, <2>4
<1>8. \A k \in Keys, p \in Obj : g.prop[o][k] # p
  BY <1>3, NotObjects DEF NoProperties
<1>9. ASSUME NEW p \in Obj
      PROVE  Stored(g.prop, p) <=> Stored(h.prop, p) /\ ~(\E k \in Keys : h.prop[o][k] = p)
  <2>1. ASSUME Stored(g.prop, p)
        PROVE  Stored(h.prop, p) /\ ~(\E k \in Keys : h.prop[o][k] = p)
    <3>1. PICK q \in Obj, j \in Keys : g.prop[q][j] = p
      BY <2>1 DEF Stored
    <3>2. q # o /\ h.prop[q][j] = p
      BY <1>3, <1>8, <3>1
    <3> QED
      BY <1>2, <1>6, <3>2 DEF Stored, OneProperty
  <2>2. ASSUME Stored(h.prop, p), ~(\E k \in Keys : h.prop[o][k] = p)
        PROVE  Stored(g.prop, p)
    <3>1. PICK q \in Obj, j \in Keys : h.prop[q][j] = p
      BY <2>2 DEF Stored
    <3>2. q # o
      BY <2>2, <3>1
    <3> QED
      BY <1>3, <3>1, <3>2 DEF Stored
  <2> QED
    BY <2>1, <2>2
<1>10. Blank(g)
  <2> SUFFICES ASSUME NEW p \in Obj, g.kind[p] = "free"
               PROVE  g.home[p] = "none" /\ g.prop[p] = NoProperties /\ g.count[p] = 0
    BY DEF Blank
  <2>1. CASE p = o
    BY <1>2, <1>3, <1>5, <1>7, <2>1 DEF Stored
  <2>2. CASE p # o
    <3>1. h.kind[p] = "free" /\ h.home[p] = "none" /\ h.prop[p] = NoProperties /\ h.count[p] = 0
      BY <1>1, <1>3, <2>2 DEF Blank
    <3>2. ~Stored(h.prop, p)
      BY <1>1, <3>1 DEF CountsOwner, Owned
    <3> QED
      BY <1>2, <1>3, <1>7, <2>2, <3>1, <3>2 DEF Stored
  <2> QED
    BY <2>1, <2>2
<1>11. SoleOwner(g, H)
  <2>1. OneProperty(g.prop)
    <3> SUFFICES ASSUME NEW p \in Obj, NEW q \in Obj, NEW i \in Keys, NEW j \in Keys,
                        g.prop[p][i] \in Obj, g.prop[p][i] = g.prop[q][j]
                 PROVE  p = q /\ i = j
      BY DEF OneProperty
    <3>1. p # o /\ q # o
      BY <1>8
    <3> QED
      BY <1>3, <1>6, <3>1 DEF OneProperty
  <2> QED
    BY <1>1, <1>3, <1>9, <2>1 DEF SoleOwner
<1>12. CountsOwner(g, H)
  <2> SUFFICES ASSUME NEW p \in Obj
               PROVE  g.count[p] = IF Owned(g, H, p) THEN 1 ELSE 0
    BY DEF CountsOwner
  <2>1. h.count[p] = IF Owned(h, H, p) THEN 1 ELSE 0
    BY <1>1 DEF CountsOwner
  <2>2. CASE \E k \in Keys : h.prop[o][k] = p
    <3>1. Stored(h.prop, p)
      BY <1>2, <2>2 DEF Stored
    <3>2. p \notin H /\ ~IsGlobal(h.global, p)
      BY <1>1, <3>1 DEF SoleOwner
    <3>3. ~Owned(g, H, p)
      BY <1>3, <1>9, <2>2, <3>2, Zenon DEF Owned
    <3>4. h.count[p] = 1
      BY <2>1, <3>1 DEF Owned
    <3> QED
      BY <1>7, <2>2, <3>3, <3>4
  <2>3. CASE ~(\E k \in Keys : h.prop[o][k] = p)
    <3>1. Owned(g, H, p) <=> Owned(h, H, p)
      BY <1>3, <1>9, <2>3, Zenon DEF Owned
    <3>2. g.count[p] = h.count[p] - 0
      BY <1>7, <2>3
    <3> QED
      BY <2>1, <3>1, <3>2
  <2> QED
    BY <2>2, <2>3
<1>13. Acyclic(g.prop)
  <2> SUFFICES ASSUME NEW S \in SUBSET Obj, S # {}
               PROVE  \E q \in S : \A p \in S, j \in Keys : g.prop[p][j] # q
    BY DEF Acyclic
  <2>1. PICK q \in S : \A p \in S, j \in Keys : h.prop[p][j] # q
    BY <1>1 DEF Acyclic
  <2>2. \A p \in S, j \in Keys : g.prop[p][j] # q
    BY <1>3, <1>8, <2>1
  <2> QED
    BY <2>2
<1> QED
  BY <1>1, <1>3, <1>10, <1>11, <1>12, <1>13 DEF Forest

\* A context takes its global object over.
LEMMA GlobalForest ==
  ASSUME NEW h, NEW H, NEW v \in H, Forest(h, H), h.global[TheContext] = "none",
         NEW g, OnlyGlobal(h, g, TheContext, v)
  PROVE  Forest(g, H \ {v})
<1>1. /\ h \in Heaps /\ H \in SUBSET Obj /\ h.pending = "none"
      /\ Blank(h) /\ SoleOwner(h, H) /\ CountsOwner(h, H) /\ Acyclic(h.prop)
  BY DEF Forest
<1>2. /\ g \in Heaps /\ g.global = [h.global EXCEPT ![TheContext] = v] /\ g.count = h.count
      /\ g.kind = h.kind /\ g.home = h.home /\ g.prop = h.prop /\ g.pending = h.pending
  BY DEF OnlyGlobal
<1>3. /\ h.global \in [Ctx -> Obj \cup {"none"}] /\ TheContext \in Ctx
      /\ \A c \in Ctx : h.global[c] = "none"
  BY <1>1, TheContextType, HeapParts DEF SoleOwner
<1>4. /\ g.global[TheContext] = v
      /\ \A c \in Ctx \ {TheContext} : g.global[c] = "none"
  BY <1>2, <1>3
<1>5. v \in Obj /\ "none" \notin Obj
  BY <1>1, NotObjects
<1>6. \A o \in Obj : ~IsGlobal(h.global, o) /\ (IsGlobal(g.global, o) <=> o = v)
  BY <1>3, <1>4, <1>5 DEF IsGlobal
<1>7. Blank(g)
  BY <1>1, <1>2 DEF Blank
<1>8. SoleOwner(g, H \ {v})
  BY <1>1, <1>2, <1>4, <1>6 DEF SoleOwner
<1>9. \A o \in Obj : Owned(g, H \ {v}, o) <=> Owned(h, H, o)
  BY <1>2, <1>6 DEF Owned
<1>10. CountsOwner(g, H \ {v})
  BY <1>1, <1>2, <1>9 DEF CountsOwner
<1>11. H \ {v} \in SUBSET Obj
  BY <1>1
<1> QED
  BY <1>1, <1>2, <1>7, <1>8, <1>10, <1>11 DEF Forest

LEMMA NewContextForest ==
  ASSUME NEW h, NEW H, Forest(h, H), h.global[TheContext] = "none",
         NEW g \in NewContext(h, TheContext)
  PROVE  Forest(g, H) /\ g.global[TheContext] \in Obj
<1>1. PICK n \in New(h, TheContext, "object") : g = [n.h EXCEPT !.global[TheContext] = n.v]
  BY DEF NewContext
<1>2. h \in Heaps /\ TheContext \in Ctx /\ "object" \in Kinds
  BY TheContextType DEF Forest, Kinds
<1>3. Allocated(h, n.h, n.v)
  BY <1>2, NewParts
<1> PICK f, v : f = n.h /\ v = n.v
  OBVIOUS
<1>4. Forest(f, H \cup {v}) /\ v \notin H /\ v \in Obj
  BY <1>3, AllocatedForest
<1>5. f \in Heaps /\ f.global = h.global
  BY <1>3 DEF Allocated
<1>6. OnlyGlobal(f, g, TheContext, v)
  BY <1>1, <1>2, <1>4, <1>5, GlobalParts
<1> PICK K : K = H \cup {v}
  OBVIOUS
<1>7. Forest(g, K \ {v})
  BY <1>4, <1>5, <1>6, GlobalForest
<1>8. K \ {v} = H
  BY <1>4
<1>9. g.global[TheContext] = v
  BY <1>2, <1>5, <1>6, HeapParts DEF OnlyGlobal
<1> QED
  BY <1>4, <1>7, <1>8, <1>9

LEMMA FreeContextForest ==
  ASSUME NEW h, NEW H, Forest(h, H)
  PROVE  LET g == FreeContext(h, TheContext)
         IN  Forest(g, H) /\ \A c \in Ctx : g.global[c] = "none"
<1>1. /\ h \in Heaps /\ H \in SUBSET Obj /\ h.pending = "none"
      /\ Blank(h) /\ SoleOwner(h, H) /\ CountsOwner(h, H) /\ Acyclic(h.prop)
  BY DEF Forest
<1> PICK v, f, g : v = h.global[TheContext] /\ f = Free(h, v) /\ g = FreeContext(h, TheContext)
  OBVIOUS
<1>2. g = [f EXCEPT !.global[TheContext] = "none"]
  BY DEF FreeContext
<1>3. PICK n \in [Obj -> Int] :
        /\ OnlyCounts(h, f, n)
        /\ \A p \in Obj : n[p] = h.count[p] - (IF v = p THEN 1 ELSE 0)
  BY <1>1, FreeAny
<1>4. /\ f \in Heaps /\ f.count = n /\ f.kind = h.kind /\ f.home = h.home
      /\ f.prop = h.prop /\ f.global = h.global /\ f.pending = h.pending
  BY <1>3 DEF OnlyCounts
<1>5. OnlyGlobal(f, g, TheContext, "none")
  BY <1>2, <1>4, TheContextType, GlobalParts
<1>6. /\ g \in Heaps /\ g.global = [h.global EXCEPT ![TheContext] = "none"] /\ g.count = n
      /\ g.kind = h.kind /\ g.home = h.home /\ g.prop = h.prop /\ g.pending = h.pending
  BY <1>4, <1>5 DEF OnlyGlobal
<1>7. /\ h.global \in [Ctx -> Obj \cup {"none"}] /\ TheContext \in Ctx
      /\ \A c \in Ctx \ {TheContext} : h.global[c] = "none"
  BY <1>1, TheContextType, HeapParts DEF SoleOwner
<1>8. \A c \in Ctx : g.global[c] = "none"
  BY <1>6, <1>7
<1>9. \A o \in Obj : ~IsGlobal(g.global, o) /\ (IsGlobal(h.global, o) <=> o = v)
  BY <1>7, <1>8, NotObjects DEF IsGlobal
<1>10. \A o \in Obj : Owned(h, H, o) <=> Owned(g, H, o) \/ o = v
  BY <1>6, <1>9 DEF Owned
<1>11. v \in Obj => ~Owned(g, H, v) /\ h.count[v] = 1 /\ h.kind[v] # "free"
  <2>1. v \in Obj => Owned(h, H, v) /\ v \notin H /\ ~Stored(h.prop, v)
    BY <1>1, <1>9 DEF Owned, SoleOwner
  <2>2. v \in Obj => ~Owned(g, H, v)
    BY <1>6, <1>9, <2>1 DEF Owned
  <2> QED
    BY <2>1, <2>2, OwnedLives
<1>12. Blank(g)
  BY <1>1, <1>3, <1>6, <1>11 DEF Blank
<1>13. SoleOwner(g, H)
  BY <1>1, <1>6, <1>8, <1>9 DEF SoleOwner
<1>14. CountsOwner(g, H)
  <2> SUFFICES ASSUME NEW o \in Obj
               PROVE  g.count[o] = IF Owned(g, H, o) THEN 1 ELSE 0
    BY DEF CountsOwner
  <2>1. h.count[o] = IF Owned(h, H, o) THEN 1 ELSE 0
    BY <1>1 DEF CountsOwner
  <2> QED
    BY <1>3, <1>6, <1>10, <1>11, <2>1
<1> QED
  BY <1>1, <1>6, <1>8, <1>12, <1>13, <1>14 DEF Forest

LEMMA EmptyForest == Forest(EmptyHeap, {}) /\ \A c \in Ctx : EmptyHeap.global[c] = "none"
<1> PICK k, m, c, p, g, e :
      /\ k = [o \in Obj |-> "free"] /\ m = [o \in Obj |-> "none"] /\ c = [o \in Obj |-> 0]
      /\ p = [o \in Obj |-> NoProperties] /\ g = [d \in Ctx |-> "none"] /\ e = "none"
  OBVIOUS
<1>1. EmptyHeap = Parts(k, m, c, p, g, e)
  BY DEF EmptyHeap, Parts
<1>2. NoProperties \in [Keys -> JSValue \cup {"absent"}]
  BY DEF NoProperties
<1>3. Parts(k, m, c, p, g, e) \in Heaps
  BY <1>2, PartsHeap
<1> PICK h : h = EmptyHeap
  OBVIOUS
<1>4. /\ h \in Heaps /\ h.kind = k /\ h.home = m /\ h.count = c /\ h.prop = p
      /\ h.global = g /\ h.pending = e
  BY <1>1, <1>3, PartsFields
<1>5. \A q \in Obj, j \in Keys : h.prop[q][j] = "absent" /\ "absent" \notin Obj
  BY <1>4, NotObjects DEF NoProperties
<1>6. \A d \in Ctx : h.global[d] = "none" /\ "none" \notin Obj
  BY <1>4, NotObjects
<1>7. \A o \in Obj : ~Stored(h.prop, o) /\ ~IsGlobal(h.global, o)
  BY <1>5, <1>6 DEF Stored, IsGlobal
<1>8. Blank(h)
  BY <1>4 DEF Blank
<1>9. SoleOwner(h, {})
  BY <1>5, <1>6, <1>7 DEF SoleOwner, OneProperty
<1>10. CountsOwner(h, {})
  BY <1>4, <1>7 DEF CountsOwner, Owned
<1>11. Acyclic(h.prop)
  BY <1>5 DEF Acyclic
<1> QED
  BY <1>4, <1>6, <1>8, <1>9, <1>10, <1>11 DEF Forest

(***************************************************************************)
(* Nothing has an owner outside the heap and nothing is left to sweep: so  *)
(* what lives is held by a property of something that lives, and since it  *)
(* is no cycle, nothing lives.                                             *)
(***************************************************************************)
LEMMA NothingLeft ==
  ASSUME NEW h, Forest(h, {}), \A c \in Ctx : h.global[c] = "none", Unswept(h) = {}
  PROVE  h = EmptyHeap
<1>1. /\ h \in Heaps /\ h.pending = "none"
      /\ Blank(h) /\ CountsOwner(h, {}) /\ Acyclic(h.prop)
  BY DEF Forest
<1>2. \A o \in Obj : ~IsGlobal(h.global, o)
  BY NotObjects DEF IsGlobal
<1> PICK S : S = {o \in Obj : h.kind[o] # "free"}
  OBVIOUS
<1>3. ASSUME NEW o \in S
      PROVE  \E p \in S, k \in Keys : h.prop[p][k] = o
  <2>1. o \in Obj /\ h.kind[o] # "free"
    OBVIOUS
  <2>2. h.count[o] # 0
    BY <2>1 DEF Unswept
  <2>3. Stored(h.prop, o)
    BY <1>1, <1>2, <2>1, <2>2 DEF CountsOwner, Owned
  <2>4. PICK p \in Obj, k \in Keys : h.prop[p][k] = o
    BY <2>3 DEF Stored
  <2>5. h.kind[p] # "free"
    BY <1>1, <2>1, <2>4, NotObjects DEF Blank, NoProperties
  <2> QED
    BY <2>4, <2>5
<1>4. S = {}
  <2>1. S \in SUBSET Obj
    OBVIOUS
  <2>2. SUFFICES ASSUME S # {} PROVE FALSE
    OBVIOUS
  <2>3. PICK o \in S : \A p \in S, k \in Keys : h.prop[p][k] # o
    BY <1>1, <2>1, <2>2 DEF Acyclic
  <2> QED
    BY <1>3, <2>3
<1>5. \A o \in Obj : h.kind[o] = "free"
  BY <1>4
<1>6. \A o \in Obj : h.home[o] = "none" /\ h.prop[o] = NoProperties /\ h.count[o] = 0
  BY <1>1, <1>5 DEF Blank
<1> PICK k, m, c, p, g :
      /\ k = [o \in Obj |-> "free"] /\ m = [o \in Obj |-> "none"] /\ c = [o \in Obj |-> 0]
      /\ p = [o \in Obj |-> NoProperties] /\ g = [d \in Ctx |-> "none"]
  OBVIOUS
<1>7. h.kind = k /\ h.home = m /\ h.count = c
  BY <1>1, <1>5, <1>6, HeapParts
<1>8. h.prop = p /\ h.global = g
  BY <1>1, <1>6, HeapParts
<1>9. h = Parts(k, m, c, p, g, "none")
  BY <1>1, <1>7, <1>8, HeapParts
<1>10. EmptyHeap = Parts(k, m, c, p, g, "none")
  BY DEF EmptyHeap, Parts
<1> QED
  BY <1>9, <1>10

-----------------------------------------------------------------------------
(***************************************************************************)
(* What a call that returns a Value or an error does to a forest.          *)
(***************************************************************************)
\* A heap in which a call may throw.
Calm(h) == h \in Heaps /\ h.pending = "none" /\ Blank(h)

\* An exception was thrown and is pending.
Thrown(h, t) ==
  /\ t \in Heaps /\ t.prop = h.prop /\ t.global = h.global
  /\ t.pending \in JSValue /\ (t.pending \in Obj => t.kind[t.pending] # "free")
  /\ \A p \in Obj : t.count[p] = h.count[p] + (IF t.pending = p THEN 1 ELSE 0)
  /\ \A o \in Obj : t.kind[o] = "free" => h.kind[o] = "free" /\ t.home[o] = h.home[o]

LEMMA ForestCalm ==
  ASSUME NEW h, NEW H, Forest(h, H)
  PROVE  Calm(h)
BY DEF Forest, Calm

LEMMA ThrowParts ==
  ASSUME NEW h, Calm(h), NEW c \in Ctx, NEW t \in Throw(h, c)
  PROVE  Thrown(h, t)
<1>1. h \in Heaps /\ Blank(h)
  BY DEF Calm
<1>2. h.count \in [Obj -> Int] /\ "undefined" \in JSValue /\ "undefined" \notin Obj
  BY <1>1, HeapParts, NotObjects
<1>3. CASE t = [h EXCEPT !.pending = "undefined"]
  <2>1. OnlyPending(h, t, "undefined")
    BY <1>1, <1>2, <1>3, PendingParts
  <2> QED
    BY <1>2, <2>1 DEF OnlyPending, Thrown
<1>4. CASE \E n \in New(h, c, "object") : t = [n.h EXCEPT !.pending = n.v]
  <2>1. PICK n \in New(h, c, "object") : t = [n.h EXCEPT !.pending = n.v]
    BY <1>4
  <2> PICK f, o : f = n.h /\ o = n.v
    OBVIOUS
  <2>2. Allocated(h, f, o)
    BY <1>1, NewParts DEF Kinds
  <2>3. f \in Heaps /\ o \in Obj /\ o \in JSValue /\ h.kind[o] = "free" /\ h.count[o] = 0
    BY <1>1, <2>2 DEF Allocated, Unused, JSValue, Blank
  <2>4. OnlyPending(f, t, o)
    BY <2>1, <2>3, PendingParts
  <2> QED
    BY <1>2, <2>2, <2>3, <2>4 DEF OnlyPending, Thrown, Allocated
<1>5. (\E n \in New(h, c, "object") : t = [n.h EXCEPT !.pending = n.v])
        \/ t = [h EXCEPT !.pending = "undefined"]
  BY DEF Throw
<1> QED
  BY <1>3, <1>4, <1>5

\* The pending exception is taken.
LEMMA TakenParts ==
  ASSUME NEW h, Calm(h), NEW t, Thrown(h, t)
  PROVE  /\ OnlyPending(t, [t EXCEPT !.pending = "none"], "none")
         /\ Calm([t EXCEPT !.pending = "none"])
<1> PICK a, e : a = [t EXCEPT !.pending = "none"] /\ e = t.pending
  OBVIOUS
<1>1. h \in Heaps /\ Blank(h) /\ h.count \in [Obj -> Int]
  BY HeapParts DEF Calm
<1>2. OnlyPending(t, a, "none")
  BY PendingParts DEF Thrown
<1>3. Blank(a)
  BY <1>1, <1>2 DEF Blank, Thrown, OnlyPending
<1> QED
  BY <1>2, <1>3 DEF Calm, OnlyPending

\* And freed, after whatever happened in between.
LEMMA TakenFreed ==
  ASSUME NEW h, Calm(h), NEW t, Thrown(h, t), NEW a,
         Litter([t EXCEPT !.pending = "none"], a)
  PROVE  Litter(h, Free(a, t.pending))
<1> PICK b, e, g : b = [t EXCEPT !.pending = "none"] /\ e = t.pending /\ g = Free(a, e)
  OBVIOUS
<1>1. OnlyPending(t, b, "none")
  BY TakenParts
<1>2. h \in Heaps /\ h.pending = "none" /\ h.count \in [Obj -> Int]
  BY HeapParts DEF Calm
<1>3. a \in Heaps
  BY DEF Litter
<1>4. PICK n \in [Obj -> Int] :
        /\ OnlyCounts(a, g, n)
        /\ \A p \in Obj : n[p] = a.count[p] - (IF e = p THEN 1 ELSE 0)
  BY <1>3, FreeAny
<1>5. /\ g \in Heaps /\ g.count = n /\ g.kind = a.kind /\ g.home = a.home
      /\ g.prop = a.prop /\ g.global = a.global /\ g.pending = a.pending
  BY <1>4 DEF OnlyCounts
<1>6. /\ a.count = t.count /\ a.prop = h.prop /\ a.global = h.global /\ a.pending = "none"
  BY <1>1 DEF Litter, OnlyPending, Thrown
<1>7. \A p \in Obj : n[p] = h.count[p]
  BY <1>2, <1>4, <1>6 DEF Thrown
<1>8. n = h.count
  BY <1>2, <1>7
<1>9. \A o \in Obj : a.kind[o] = "free" => h.kind[o] = "free" /\ a.home[o] = h.home[o]
  BY <1>1 DEF Litter, OnlyPending, Thrown
<1> QED
  BY <1>2, <1>5, <1>6, <1>8, <1>9 DEF Litter

LEMMA MessageLitter ==
  ASSUME NEW h, Calm(h), NEW c \in Ctx, NEW t, Thrown(h, t), NEW m \in GetExceptionMessage(t, c)
  PROVE  Litter(h, m)
<1> PICK a : a = [t EXCEPT !.pending = "none"]
  OBVIOUS
<1>1. Calm(a)
  BY TakenParts
<1>2. Litter(a, a)
  BY <1>1, LitterSelf DEF Calm
<1>3. CASE m = Free(a, t.pending)
  BY <1>2, <1>3, TakenFreed
<1>4. CASE \E u \in Throw(a, c) : m = Free(Free([u EXCEPT !.pending = "none"], u.pending), t.pending)
  <2>1. PICK u \in Throw(a, c) : m = Free(Free([u EXCEPT !.pending = "none"], u.pending), t.pending)
    BY <1>4
  <2> PICK b, d : b = [u EXCEPT !.pending = "none"] /\ d = Free(b, u.pending)
    OBVIOUS
  <2>2. Thrown(a, u)
    BY <1>1, ThrowParts
  <2>3. Calm(b)
    BY <1>1, <2>2, TakenParts
  <2>4. Litter(b, b)
    BY <2>3, LitterSelf DEF Calm
  <2>5. Litter(a, d)
    BY <1>1, <2>2, <2>4, TakenFreed
  <2> QED
    BY <2>1, <2>5, TakenFreed
<1>5. m = Free(a, t.pending)
        \/ \E u \in Throw(a, c) : m = Free(Free([u EXCEPT !.pending = "none"], u.pending), t.pending)
  BY DEF GetExceptionMessage
<1> QED
  BY <1>3, <1>4, <1>5

LEMMA FailLitter ==
  ASSUME NEW h, Calm(h), NEW c \in Ctx, NEW r \in Fail(h, c)
  PROVE  ~r.ok /\ r.x = Invalid /\ Litter(h, r.h)
<1>1. PICK t \in Throw(h, c) : \E m \in GetExceptionMessage(t, c) : r \in Failed(m)
  BY DEF Fail
<1> PICK m \in GetExceptionMessage(t, c) : r \in Failed(m)
  BY <1>1
<1>2. Thrown(h, t)
  BY ThrowParts
<1>3. Litter(h, m)
  BY <1>2, MessageLitter
<1>4. r = [h |-> m, ok |-> FALSE, x |-> Invalid]
  BY DEF Failed
<1> QED
  BY <1>3, <1>4

LEMMA AdoptFacts ==
  ASSUME NEW h, NEW c, NEW v, NEW r \in Adopt(h, c, v)
  PROVE  \/ r.ok /\ r.h = h /\ r.x = [ctx |-> c, val |-> v]
         \/ ~r.ok /\ r.h = Free(h, v) /\ r.x = Invalid
BY DEF Adopt, Done, Failed

LEMMA ValuesFacts ==
  /\ \A x \in Values : x.val \in JSValue /\ x.ctx \in Ctx \cup {"none"}
                       /\ (x.ctx = "none" => x.val = "undefined")
  /\ \A c \in Ctx, v \in JSValue : [ctx |-> c, val |-> v] \in Values
  /\ Invalid \in Values /\ Invalid.val = "undefined" /\ Invalid.val \notin Obj
BY NotObjects DEF Values, Invalid

LEMMA DestroyFrees ==
  ASSUME NEW h, NEW x \in Values
  PROVE  Destroy(h, x) = Free(h, x.val)
<1>1. x.ctx = "none" => x.val = "undefined"
  BY ValuesFacts
<1>2. "undefined" \notin Obj
  BY NotObjects
<1> QED
  BY <1>1, <1>2 DEF Destroy, IsValid, Free

(***************************************************************************)
(* The heap is a forest again, for the owners K, and what its objects hold *)
(* is as it was.                                                           *)
(***************************************************************************)
Untouched(h, g, K) == Forest(g, K) /\ g.prop = h.prop /\ g.global = h.global

LEMMA LitterUntouched ==
  ASSUME NEW h, NEW H, Forest(h, H), NEW g, Litter(h, g)
  PROVE  Untouched(h, g, H)
BY LitterForest DEF Untouched, Litter

LEMMA FreedUntouched ==
  ASSUME NEW h, NEW H, Forest(h, H), NEW v, Ours(H, v)
  PROVE  Untouched(h, Free(h, v), H \ {v})
BY FreedForest DEF Untouched

LEMMA UntouchedTrans ==
  ASSUME NEW h, NEW f, NEW g, NEW K, NEW L, Untouched(h, f, K), Untouched(f, g, L)
  PROVE  Untouched(h, g, L)
BY DEF Untouched

\* A Value is returned, which nothing owns yet, or an error.
Returns(h, H, r) ==
  IF r.ok THEN /\ r.x \in Values /\ r.x.val \notin H
               /\ r.x.val \notin {"undefined", "absent"}
               /\ Untouched(h, r.h, H \cup ({r.x.val} \cap Obj))
  ELSE r.x = Invalid /\ Untouched(h, r.h, H)

LEMMA MakeOutcome ==
  ASSUME NEW h, NEW H, Forest(h, H), NEW c \in Ctx, NEW kind \in Kinds, NEW r \in Make(h, c, kind)
  PROVE  Returns(h, H, r) /\ (r.ok => r.x.val \in Obj)
<1>1. h \in Heaps /\ Calm(h)
  BY ForestCalm DEF Forest
<1>2. CASE r \in Fail(h, c)
  <2>1. ~r.ok /\ r.x = Invalid /\ Litter(h, r.h)
    BY <1>1, <1>2, FailLitter
  <2> QED
    BY <2>1, LitterUntouched DEF Returns
<1>3. CASE \E n \in New(h, c, kind) : r \in Adopt(n.h, c, n.v)
  <2>1. PICK n \in New(h, c, kind) : r \in Adopt(n.h, c, n.v)
    BY <1>3
  <2> PICK f, o : f = n.h /\ o = n.v
    OBVIOUS
  <2>2. Allocated(h, f, o)
    BY <1>1, NewParts
  <2> PICK K : K = H \cup {o}
    OBVIOUS
  <2>3. Forest(f, K) /\ o \notin H /\ o \in Obj
    BY <2>2, AllocatedForest
  <2>4. Untouched(h, f, K)
    BY <2>2, <2>3 DEF Untouched, Allocated
  <2>5. CASE r.ok /\ r.h = f /\ r.x = [ctx |-> c, val |-> o]
    <3>1. r.x \in Values /\ r.x.val = o
      BY <2>3, <2>5, ValuesFacts DEF JSValue
    <3>2. H \cup ({o} \cap Obj) = K
      BY <2>3
    <3> QED
      BY <2>3, <2>4, <2>5, <3>1, <3>2, NotObjects DEF Returns
  <2>6. CASE ~r.ok /\ r.h = Free(f, o) /\ r.x = Invalid
    <3>1. Untouched(f, r.h, K \ {o})
      BY <2>3, <2>6, FreedUntouched DEF Ours
    <3>2. K \ {o} = H
      BY <2>3
    <3> QED
      BY <2>4, <2>6, <3>1, <3>2, UntouchedTrans DEF Returns
  <2> QED
    BY <2>1, <2>5, <2>6, AdoptFacts
<1>4. r \in Fail(h, c) \/ \E n \in New(h, c, kind) : r \in Adopt(n.h, c, n.v)
  BY DEF Make
<1> QED
  BY <1>2, <1>3, <1>4

LEMMA ImmediateOutcome ==
  ASSUME NEW h, NEW H, Forest(h, H), NEW c \in Ctx, NEW r \in MakeImmediate(h, c, "int")
  PROVE  Returns(h, H, r)
<1>1. /\ h \in Heaps /\ H \in SUBSET Obj /\ "int" \notin Obj /\ "int" \in JSValue
      /\ Untouched(h, h, H)
  BY NotObjects, MatchAssumption DEF Forest, JSValue, Untouched
<1>2. Free(h, "int") = h
  BY <1>1, FreeAny
<1>3. \/ r.ok /\ r.h = h /\ r.x = [ctx |-> c, val |-> "int"]
      \/ ~r.ok /\ r.h = h /\ r.x = Invalid
  BY <1>2, AdoptFacts DEF MakeImmediate
<1>4. CASE r.ok /\ r.h = h /\ r.x = [ctx |-> c, val |-> "int"]
  <2>1. r.x \in Values /\ r.x.val = "int"
    BY <1>1, <1>4, ValuesFacts
  <2>2. H \cup ({"int"} \cap Obj) = H /\ "int" \notin H
    BY <1>1
  <2> QED
    BY <1>1, <1>4, <2>1, <2>2 DEF Returns
<1> QED
  BY <1>1, <1>3, <1>4 DEF Returns

(***************************************************************************)
(* A Value x is stored in the object t, or the call fails; x is consumed   *)
(* either way.                                                             *)
(***************************************************************************)
Consumes(h, H, t, k, x, r) ==
  IF r.ok THEN /\ t.val \in Obj /\ Linked(h, r.h, t.val, k, x.val)
               /\ Forest(r.h, H \ {x.val})
  ELSE Untouched(h, r.h, H \ {x.val})

LEMMA RefusedOutcome ==
  ASSUME NEW h, NEW H, Forest(h, H), NEW x \in Values, Ours(H, x.val), NEW r \in Refused(h, x)
  PROVE  ~r.ok /\ r.x = Invalid /\ Untouched(h, r.h, H \ {x.val})
<1>1. ~r.ok /\ r.x = Invalid /\ r.h = Destroy(h, x)
  BY DEF Refused, Failed
<1>2. Destroy(h, x) = Free(h, x.val)
  BY DestroyFrees
<1> QED
  BY <1>1, <1>2, FreedUntouched

\* An owner of the target: a local of another object than x, or the context.
MaySet(h, H, t, x) == t.val \in Obj => t.val # x.val /\ (t.val \in H \/ IsGlobal(h.global, t.val))

LEMMA SetPropertyOutcome ==
  ASSUME NEW h, NEW H, Forest(h, H), NEW t \in Values, NEW x \in Values, NEW k \in Keys,
         Ours(H, x.val), MaySet(h, H, t, x), NEW r \in SetProperty(h, t, k, x)
  PROVE  Consumes(h, H, t, k, x, r)
<1>1. h \in Heaps /\ t.val \in JSValue /\ x.val \in JSValue /\ t.ctx \in Ctx \cup {"none"}
  BY ValuesFacts DEF Forest
<1>2. CASE ~IsObject(h, t) \/ ~IsValid(x) \/ t.ctx # x.ctx
  <2>1. r \in Refused(h, x)
    BY <1>2 DEF SetProperty
  <2> QED
    BY <2>1, RefusedOutcome DEF Consumes
<1>3. CASE ~(~IsObject(h, t) \/ ~IsValid(x) \/ t.ctx # x.ctx)
  <2>1. t.val \in Obj /\ t.ctx \in Ctx
    BY <1>1, <1>3 DEF IsObject, IsValid
  <2>2. r \in Store(h, t, k, x)
    BY <1>3 DEF SetProperty
  <2>3. r \in Done(SetKey(h, t.val, k, x.val), Invalid) \/ r \in Fail(Free(h, x.val), t.ctx)
    BY <2>2 DEF Store
  <2>4. CASE r \in Done(SetKey(h, t.val, k, x.val), Invalid)
    <3>1. r.ok /\ r.h = SetKey(h, t.val, k, x.val)
      BY <2>4 DEF Done
    <3> PICK o, v : o = t.val /\ v = x.val
      OBVIOUS
    <3>2. Linked(h, r.h, o, k, v)
      BY <1>1, <2>1, <3>1, SetKeyParts
    <3>3. o \in H \/ IsGlobal(h.global, o)
      BY <2>1 DEF MaySet
    <3>4. o # v
      BY <2>1 DEF MaySet
    <3>5. Forest(r.h, H \ {v})
      BY <1>1, <2>1, <3>2, <3>3, <3>4, LinkedForest
    <3> QED
      BY <2>1, <3>1, <3>2, <3>5 DEF Consumes
  <2>5. CASE r \in Fail(Free(h, x.val), t.ctx)
    <3> PICK f, K : f = Free(h, x.val) /\ K = H \ {x.val}
      OBVIOUS
    <3>1. Untouched(h, f, K)
      BY FreedUntouched
    <3>2. Forest(f, K)
      BY <3>1 DEF Untouched
    <3>3. ~r.ok /\ Litter(f, r.h)
      BY <2>1, <2>5, <3>2, ForestCalm, FailLitter
    <3>4. Untouched(f, r.h, K)
      BY <3>2, <3>3, LitterUntouched
    <3> QED
      BY <3>1, <3>3, <3>4, UntouchedTrans DEF Consumes
  <2> QED
    BY <2>3, <2>4, <2>5
<1> QED
  BY <1>2, <1>3

(***************************************************************************)
(* f is h while the binding holds one more reference to o.                 *)
(***************************************************************************)
Extra(h, f, o) ==
  /\ f \in Heaps /\ h.kind[o] # "free" /\ f.kind = h.kind /\ f.home = h.home
  /\ f.prop = h.prop /\ f.global = h.global /\ f.pending = h.pending
  /\ \A p \in Obj : f.count[p] = h.count[p] + (IF p = o THEN 1 ELSE 0)

LEMMA ExtraDup ==
  ASSUME NEW h \in Heaps, NEW o \in Obj, h.kind[o] # "free"
  PROVE  Extra(h, Dup(h, o), o)
<1> PICK n : n = [h.count EXCEPT ![o] = @ + 1]
  OBVIOUS
<1>1. OnlyCounts(h, Dup(h, o), n)
  BY DupCounts
<1>2. \A p \in Obj : n[p] = h.count[p] + (IF p = o THEN 1 ELSE 0)
  BY HeapParts
<1> QED
  BY <1>1, <1>2 DEF Extra, OnlyCounts

LEMMA ExtraCalm ==
  ASSUME NEW h, Calm(h), NEW o \in Obj, NEW f, Extra(h, f, o)
  PROVE  Calm(f)
<1>1. h \in Heaps /\ Blank(h) /\ h.count \in [Obj -> Int]
  BY HeapParts DEF Calm
<1> QED
  BY <1>1 DEF Calm, Extra, Blank

\* The reference is given up, after whatever happened in between.
LEMMA ExtraLitter ==
  ASSUME NEW h \in Heaps, NEW o \in Obj, NEW f, Extra(h, f, o), NEW g, Litter(f, g)
  PROVE  Litter(h, Free(g, o))
<1> PICK d : d = Free(g, o)
  OBVIOUS
<1>1. g \in Heaps /\ h.count \in [Obj -> Int] /\ f.count \in [Obj -> Int]
  BY HeapParts DEF Litter, Extra
<1>2. PICK n \in [Obj -> Int] :
        /\ OnlyCounts(g, d, n)
        /\ \A p \in Obj : n[p] = g.count[p] - (IF o = p THEN 1 ELSE 0)
  BY <1>1, FreeAny
<1>3. \A p \in Obj : n[p] = h.count[p]
  BY <1>1, <1>2 DEF Litter, Extra
<1>4. n = h.count
  BY <1>1, <1>3
<1> QED
  BY <1>2, <1>4 DEF Litter, Extra, OnlyCounts

LEMMA ExtraFree ==
  ASSUME NEW h \in Heaps, NEW o \in Obj, NEW f, Extra(h, f, o), NEW v
  PROVE  Extra(Free(h, v), Free(f, v), o)
<1> PICK a, b : a = Free(h, v) /\ b = Free(f, v)
  OBVIOUS
<1>1. f \in Heaps /\ h.count \in [Obj -> Int] /\ f.count \in [Obj -> Int]
  BY HeapParts DEF Extra
<1>2. PICK n \in [Obj -> Int] :
        /\ OnlyCounts(h, a, n)
        /\ \A p \in Obj : n[p] = h.count[p] - (IF v = p THEN 1 ELSE 0)
  BY FreeAny
<1>3. PICK m \in [Obj -> Int] :
        /\ OnlyCounts(f, b, m)
        /\ \A p \in Obj : m[p] = f.count[p] - (IF v = p THEN 1 ELSE 0)
  BY <1>1, FreeAny
<1>4. \A p \in Obj : m[p] = n[p] + (IF p = o THEN 1 ELSE 0)
  BY <1>1, <1>2, <1>3 DEF Extra
<1> QED
  BY <1>2, <1>3, <1>4 DEF Extra, OnlyCounts

LEMMA ExtraLinked ==
  ASSUME NEW h \in Heaps, NEW o \in Obj, NEW f, Extra(h, f, o), NEW g, NEW t, NEW k, NEW v,
         Linked(f, g, t, k, v)
  PROVE  Linked(h, Free(g, o), t, k, v)
<1> PICK d : d = Free(g, o)
  OBVIOUS
<1>1. g \in Heaps /\ h.count \in [Obj -> Int] /\ f.count \in [Obj -> Int]
  BY HeapParts DEF Extra, Linked
<1>2. PICK n \in [Obj -> Int] :
        /\ OnlyCounts(g, d, n)
        /\ \A p \in Obj : n[p] = g.count[p] - (IF o = p THEN 1 ELSE 0)
  BY <1>1, FreeAny
<1>3. f.prop = h.prop /\ \A p \in Obj : f.count[p] = h.count[p] + (IF p = o THEN 1 ELSE 0)
  BY DEF Extra
<1>4. \A p \in Obj : g.count[p] = f.count[p] - (IF f.prop[t][k] = p THEN 1 ELSE 0)
  BY DEF Linked
<1>5. \A p \in Obj : n[p] = h.count[p] - (IF h.prop[t][k] = p THEN 1 ELSE 0)
  BY <1>1, <1>2, <1>3, <1>4
<1>6. /\ d \in Heaps /\ d.count = n /\ d.kind = h.kind /\ d.home = h.home
      /\ d.prop = g.prop /\ d.global = h.global /\ d.pending = h.pending
  BY <1>2 DEF OnlyCounts, Linked, Extra
<1>7. \A p \in Obj, j \in Keys : g.prop[p][j] = IF p = t /\ j = k THEN v ELSE h.prop[p][j]
  BY <1>3 DEF Linked
<1> QED
  BY <1>5, <1>6, <1>7 DEF Linked

\* A call that succeeded returns the global object.
LEMMA GlobalObjectOutcome ==
  ASSUME NEW h, NEW H, Forest(h, H), NEW o \in Obj, o = h.global[TheContext],
         NEW g \in GlobalObject(h, TheContext)
  PROVE  IF g.ok THEN Extra(h, g.h, o) /\ g.x = [ctx |-> TheContext, val |-> o]
         ELSE Untouched(h, g.h, H)
<1>1. h \in Heaps /\ Calm(h) /\ TheContext \in Ctx
  BY ForestCalm, TheContextType DEF Forest
<1>2. h.kind[o] # "free"
  BY <1>1, OwnedLives DEF Owned, IsGlobal
<1> PICK f : f = Dup(h, o)
  OBVIOUS
<1>3. Extra(h, f, o)
  BY <1>1, <1>2, ExtraDup
<1>4. CASE g \in Fail(h, TheContext)
  <2>1. ~g.ok /\ Litter(h, g.h)
    BY <1>1, <1>4, FailLitter
  <2> QED
    BY <2>1, LitterUntouched
<1>5. CASE g \in Adopt(f, TheContext, o)
  <2>1. CASE g.ok /\ g.h = f /\ g.x = [ctx |-> TheContext, val |-> o]
    BY <1>3, <2>1
  <2>2. CASE ~g.ok /\ g.h = Free(f, o) /\ g.x = Invalid
    <3>1. Litter(f, f)
      BY <1>3, LitterSelf DEF Extra
    <3>2. Litter(h, g.h)
      BY <1>1, <1>3, <2>2, <3>1, ExtraLitter
    <3> QED
      BY <2>2, <3>2, LitterUntouched
  <2> QED
    BY <1>5, <2>1, <2>2, AdoptFacts
<1> QED
  BY <1>4, <1>5 DEF GlobalObject

LEMMA AddGlobalValueOutcome ==
  ASSUME NEW h, NEW H, Forest(h, H), NEW t, t = [ctx |-> TheContext, val |-> h.global[TheContext]],
         h.global[TheContext] \in Obj,
         NEW x \in Values, Ours(H, x.val), NEW r \in AddGlobalValue(h, TheContext, x)
  PROVE  Consumes(h, H, t, "ctx", x, r)
<1> PICK o : o = h.global[TheContext]
  OBVIOUS
<1>1. /\ h \in Heaps /\ TheContext \in Ctx /\ o \in Obj /\ o \in JSValue /\ t \in Values
      /\ t.val = o /\ t.ctx = TheContext /\ "ctx" \in Keys /\ x.val \in JSValue /\ Calm(h)
  BY TheContextType, ValuesFacts, MatchAssumption, ForestCalm DEF Forest, JSValue
<1>2. IsGlobal(h.global, o) /\ o \notin H
  BY <1>1 DEF IsGlobal, Forest, SoleOwner
<1>3. o # x.val
  BY <1>1, <1>2 DEF Ours
<1> PICK a, K : a = Free(h, x.val) /\ K = H \ {x.val}
  OBVIOUS
<1>4. Untouched(h, a, K) /\ Forest(a, K)
  BY FreedUntouched DEF Untouched
<1>5. PICK g \in GlobalObject(h, TheContext) :
        r \in IF ~g.ok THEN Refused(g.h, x)
              ELSE {[q EXCEPT !.h = Destroy(@, g.x)] : q \in SetProperty(g.h, g.x, "ctx", x)}
  BY Zenon DEF AddGlobalValue
<1>6. IF g.ok THEN Extra(h, g.h, o) /\ g.x = t ELSE Untouched(h, g.h, H)
  BY <1>1, GlobalObjectOutcome
<1>7. CASE ~g.ok
  <2>1. r \in Refused(g.h, x) /\ Untouched(h, g.h, H)
    BY <1>5, <1>6, <1>7
  <2> PICK f : f = g.h
    OBVIOUS
  <2>2. Forest(f, H)
    BY <2>1 DEF Untouched
  <2>3. ~r.ok /\ Untouched(f, r.h, H \ {x.val})
    BY <2>1, <2>2, RefusedOutcome
  <2> QED
    BY <2>1, <2>3, UntouchedTrans DEF Consumes
<1>8. CASE g.ok
  <2> PICK f : f = g.h
    OBVIOUS
  <2>1. Extra(h, f, o)
    BY <1>6, <1>8
  <2>2. PICK q \in SetProperty(f, t, "ctx", x) : r = [q EXCEPT !.h = Destroy(@, t)]
    BY <1>5, <1>6, <1>8
  <2>3. Destroy(q.h, t) = Free(q.h, o)
    BY <1>1, DestroyFrees
  <2>4. f \in Heaps
    BY <2>1 DEF Extra
  <2> PICK b : b = Free(f, x.val)
    OBVIOUS
  <2>5. Extra(a, b, o)
    BY <1>1, <2>1, ExtraFree
  <2>6. a \in Heaps /\ Calm(a)
    BY <1>4, ForestCalm DEF Forest
  <2>7. Calm(b)
    BY <2>5, <2>6, ExtraCalm
  <2>8. CASE ~IsObject(f, t) \/ ~IsValid(x) \/ t.ctx # x.ctx
    <3>1. q \in Failed(Destroy(f, x))
      BY <2>8 DEF SetProperty, Refused
    <3>2. q = [h |-> b, ok |-> FALSE, x |-> Invalid]
      BY <3>1, DestroyFrees DEF Failed
    <3>3. ~r.ok /\ r.h = Free(b, o)
      BY <2>2, <2>3, <3>2
    <3>4. Litter(b, b)
      BY <2>7, LitterSelf DEF Calm
    <3>5. Litter(a, r.h)
      BY <2>5, <2>6, <3>3, <3>4, ExtraLitter
    <3>6. Untouched(a, r.h, K)
      BY <1>4, <3>5, LitterUntouched
    <3> QED
      BY <1>4, <3>3, <3>6, UntouchedTrans DEF Consumes
  <2>9. CASE ~(~IsObject(f, t) \/ ~IsValid(x) \/ t.ctx # x.ctx)
    <3>1. q \in Store(f, t, "ctx", x)
      BY <2>9 DEF SetProperty
    <3>2. q \in Done(SetKey(f, o, "ctx", x.val), Invalid) \/ q \in Fail(b, TheContext)
      BY <1>1, <3>1 DEF Store
    <3>3. CASE q \in Done(SetKey(f, o, "ctx", x.val), Invalid)
      <4>1. q = [h |-> SetKey(f, o, "ctx", x.val), ok |-> TRUE, x |-> Invalid]
        BY <3>3 DEF Done
      <4> PICK e, v : e = SetKey(f, o, "ctx", x.val) /\ v = x.val
        OBVIOUS
      <4>2. r.ok /\ r.h = Free(e, o)
        BY <2>2, <2>3, <4>1
      <4>3. Linked(f, e, o, "ctx", v)
        BY <1>1, <2>4, SetKeyParts
      <4>4. Linked(h, r.h, o, "ctx", v)
        BY <1>1, <2>1, <4>2, <4>3, ExtraLinked
      <4>5. Forest(r.h, H \ {v})
        BY <1>1, <1>2, <1>3, <4>4, LinkedForest
      <4> QED
        BY <1>1, <4>2, <4>4, <4>5 DEF Consumes
    <3>4. CASE q \in Fail(b, TheContext)
      <4>1. ~q.ok /\ q.x = Invalid /\ Litter(b, q.h)
        BY <1>1, <2>7, <3>4, FailLitter
      <4>2. q \in [h : {q.h}, ok : {q.ok}, x : {q.x}]
        <5>1. \A m : Failed(m) = {[h |-> m, ok |-> FALSE, x |-> Invalid]}
          BY DEF Failed
        <5> QED
          BY <3>4, <5>1 DEF Fail
      <4>3. ~r.ok /\ r.h = Free(q.h, o)
        BY <2>2, <2>3, <4>1, <4>2
      <4>4. Litter(a, r.h)
        BY <2>5, <2>6, <4>1, <4>3, ExtraLitter
      <4>5. Untouched(a, r.h, K)
        BY <1>4, <4>4, LitterUntouched
      <4> QED
        BY <1>4, <4>3, <4>5, UntouchedTrans DEF Consumes
    <3> QED
      BY <3>2, <3>3, <3>4
  <2> QED
    BY <2>8, <2>9
<1> QED
  BY <1>7, <1>8

(***************************************************************************)
(* What evaluating an expression leaves once its result is destroyed.  A   *)
(* boolean is not counted, so the heap is a forest before that, too.       *)
(***************************************************************************)
Evaluates(h, H, v) ==
  /\ v.x \in Values /\ Untouched(h, Destroy(v.h, v.x), H)
  /\ v.ok /\ v.x.val = "bool" => v.x.ctx \in Ctx /\ Untouched(h, v.h, H)

\* The result is a value that the heap already holds, or one not counted.
LEMMA SharedOutcome ==
  ASSUME NEW h, NEW H, Forest(h, H), NEW c \in Ctx, NEW w \in JSValue,
         w \in Obj => h.kind[w] # "free", NEW v \in Adopt(Dup(h, w), c, w)
  PROVE  Evaluates(h, H, v)
<1> PICK f : f = Dup(h, w)
  OBVIOUS
<1>1. h \in Heaps /\ Litter(h, h)
  BY LitterSelf DEF Forest
<1>2. Untouched(h, Free(f, w), H) /\ (w \notin Obj => f = h)
  <2>1. CASE w \notin Obj
    <3>1. f = h /\ Free(f, w) = h
      BY <2>1 DEF Dup, Free
    <3> QED
      BY <3>1 DEF Untouched
  <2>2. CASE w \in Obj
    <3>1. Extra(h, f, w)
      BY <1>1, <2>2, ExtraDup
    <3>2. Litter(f, f)
      BY <3>1, LitterSelf DEF Extra
    <3>3. Litter(h, Free(f, w))
      BY <1>1, <2>2, <3>1, <3>2, ExtraLitter
    <3> QED
      BY <2>2, <3>3, LitterUntouched
  <2> QED
    BY <2>1, <2>2
<1>3. CASE v.ok /\ v.h = f /\ v.x = [ctx |-> c, val |-> w]
  <2>1. v.x \in Values /\ v.x.val = w /\ v.x.ctx = c
    BY <1>3, ValuesFacts
  <2>2. Destroy(v.h, v.x) = Free(f, w)
    BY <1>3, <2>1, DestroyFrees
  <2>3. v.x.val = "bool" => Untouched(h, v.h, H)
    BY <1>2, <1>3, <2>1, NotObjects DEF Untouched
  <2> QED
    BY <1>2, <2>1, <2>2, <2>3 DEF Evaluates
<1>4. CASE ~v.ok /\ v.h = Free(f, w) /\ v.x = Invalid
  <2>1. v.x \in Values /\ v.x.val \notin Obj /\ Destroy(v.h, v.x) = Free(v.h, v.x.val)
    BY <1>4, ValuesFacts, DestroyFrees
  <2>2. Destroy(v.h, v.x) = v.h
    BY <2>1 DEF Free
  <2> QED
    BY <1>2, <1>4, <2>1, <2>2 DEF Evaluates
<1> QED
  BY <1>3, <1>4, AdoptFacts

LEMMA EvalOutcome ==
  ASSUME NEW h, NEW H, Forest(h, H), NEW c \in Ctx, h.global[c] \in Obj, NEW v \in Eval(h, c)
  PROVE  Evaluates(h, H, v)
<1>1. /\ h \in Heaps /\ Calm(h) /\ "object" \in Kinds
      /\ h.prop \in [Obj -> [Keys -> JSValue \cup {"absent"}]]
  BY ForestCalm, HeapParts DEF Forest, Kinds
<1>2. Invalid \in Values /\ \A g : Destroy(g, Invalid) = g
  BY ValuesFacts DEF Destroy, IsValid, Invalid
<1>3. CASE v \in Fail(h, c)
  <2>1. ~v.ok /\ v.x = Invalid /\ Litter(h, v.h)
    BY <1>1, <1>3, FailLitter
  <2>2. Destroy(v.h, v.x) = v.h /\ Untouched(h, v.h, H)
    BY <1>2, <2>1, LitterUntouched
  <2> QED
    BY <1>2, <2>1, <2>2 DEF Evaluates
<1>4. CASE \E w \in Immediate : v \in Adopt(h, c, w)
  <2>1. PICK w \in Immediate : v \in Adopt(h, c, w)
    BY <1>4
  <2>2. w \in JSValue /\ w \notin Obj /\ Dup(h, w) = h
    BY NotObjects DEF JSValue, Dup
  <2> QED
    BY <2>1, <2>2, SharedOutcome
<1>5. CASE \E n \in New(h, c, "object") : v \in Adopt(n.h, c, n.v)
  <2>1. PICK n \in New(h, c, "object") : v \in Adopt(n.h, c, n.v)
    BY <1>5
  <2> PICK f, o, K : f = n.h /\ o = n.v /\ K = H \cup {o}
    OBVIOUS
  <2>2. Allocated(h, f, o)
    BY <1>1, NewParts
  <2>3. Forest(f, K) /\ o \notin H /\ o \in Obj
    BY <2>2, AllocatedForest
  <2>4. Untouched(h, f, K)
    BY <2>2, <2>3 DEF Untouched, Allocated
  <2>5. Untouched(f, Free(f, o), K \ {o})
    BY <2>3, FreedUntouched DEF Ours
  <2>6. K \ {o} = H
    BY <2>3
  <2>7. Untouched(h, Free(f, o), H)
    BY <2>4, <2>5, <2>6, UntouchedTrans
  <2>8. CASE v.ok /\ v.h = f /\ v.x = [ctx |-> c, val |-> o]
    <3>1. v.x \in Values /\ v.x.val = o /\ Destroy(v.h, v.x) = Free(f, o)
      BY <2>3, <2>8, ValuesFacts, DestroyFrees DEF JSValue
    <3> QED
      BY <2>3, <2>7, <3>1, NotObjects DEF Evaluates
  <2>9. CASE ~v.ok /\ v.h = Free(f, o) /\ v.x = Invalid
    <3>1. Destroy(v.h, v.x) = v.h
      BY <1>2, <2>9
    <3> QED
      BY <1>2, <2>7, <2>9, <3>1 DEF Evaluates
  <2> QED
    BY <2>1, <2>8, <2>9, AdoptFacts
<1>6. CASE \E w \in {h.global[c]} \cup {GetKey(h, h.global[c], k) : k \in Keys} :
             v \in Adopt(Dup(h, w), c, w)
  <2>1. PICK w \in {h.global[c]} \cup {GetKey(h, h.global[c], k) : k \in Keys} :
          v \in Adopt(Dup(h, w), c, w)
    BY <1>6
  <2>2. CASE w = h.global[c]
    <3>1. w \in Obj /\ w \in JSValue /\ h.kind[w] # "free"
      BY <2>2, OwnedLives DEF Owned, IsGlobal, JSValue
    <3> QED
      BY <2>1, <3>1, SharedOutcome
  <2>3. CASE \E k \in Keys : w = GetKey(h, h.global[c], k)
    <3>1. PICK k \in Keys : w = GetKey(h, h.global[c], k)
      BY <2>3
    <3>2. CASE w = h.prop[h.global[c]][k] /\ w # "absent"
      <4>1. w \in JSValue
        BY <1>1, <3>2
      <4>2. w \in Obj => h.kind[w] # "free"
        BY <3>2, OwnedLives DEF Owned, Stored
      <4> QED
        BY <2>1, <4>1, <4>2, SharedOutcome
    <3>3. CASE w = "undefined"
      <4>1. w \in JSValue /\ w \notin Obj
        BY <3>3, NotObjects
      <4> QED
        BY <2>1, <4>1, SharedOutcome
    <3> QED
      BY <3>1, <3>2, <3>3 DEF GetKey
  <2> QED
    BY <2>1, <2>2, <2>3
<1>7. v \in Fail(h, c) \/ \E r \in Results(h, c) : v \in Adopt(r.h, c, r.v)
  BY DEF Eval
<1>8. CASE \E r \in Results(h, c) : v \in Adopt(r.h, c, r.v)
  <2>1. PICK r \in Results(h, c) : v \in Adopt(r.h, c, r.v)
    BY <1>8
  <2>2. \/ \E w \in Immediate : r = [h |-> h, v |-> w]
        \/ r \in New(h, c, "object")
        \/ \E w \in {h.global[c]} \cup {GetKey(h, h.global[c], k) : k \in Keys} :
             r = [h |-> Dup(h, w), v |-> w]
    BY <2>1, Zenon DEF Results
  <2>3. CASE \E w \in Immediate : r = [h |-> h, v |-> w]
    BY <1>4, <2>1, <2>3
  <2>4. CASE r \in New(h, c, "object")
    BY <1>5, <2>1, <2>4
  <2>5. CASE \E w \in {h.global[c]} \cup {GetKey(h, h.global[c], k) : k \in Keys} :
               r = [h |-> Dup(h, w), v |-> w]
    BY <1>6, <2>1, <2>5
  <2> QED
    BY <2>2, <2>3, <2>4, <2>5
<1> QED
  BY <1>3, <1>7, <1>8

LEMMA ConvertOutcome ==
  ASSUME NEW h, NEW H, NEW v, Evaluates(h, H, v), v.ok, v.x.val = "bool",
         NEW r \in Convert(v.h, v.x)
  PROVE  Untouched(h, Destroy(r.h, v.x), H)
<1> PICK f : f = v.h
  OBVIOUS
<1>1. v.x \in Values /\ v.x.ctx \in Ctx /\ Untouched(h, f, H) /\ Forest(f, H)
  BY DEF Evaluates, Untouched
<1>2. Destroy(r.h, v.x) = r.h
  <2>1. Destroy(r.h, v.x) = Free(r.h, "bool")
    BY <1>1, DestroyFrees
  <2> QED
    BY <2>1, NotObjects DEF Free
<1>3. r \in Done(f, Invalid) \/ r \in Fail(f, v.x.ctx)
  BY <1>1, NotObjects DEF Convert, IsValid
<1>4. CASE r \in Done(f, Invalid)
  <2>1. r.h = f
    BY <1>4 DEF Done
  <2> QED
    BY <1>1, <1>2, <2>1
<1>5. CASE r \in Fail(f, v.x.ctx)
  <2>1. Litter(f, r.h)
    BY <1>1, <1>5, ForestCalm, FailLitter
  <2>2. Untouched(f, r.h, H)
    BY <1>1, <2>1, LitterUntouched
  <2> QED
    BY <1>1, <1>2, <2>2, UntouchedTrans
<1> QED
  BY <1>3, <1>4, <1>5

-----------------------------------------------------------------------------
(***************************************************************************)
(* Sequences of frames and of scopes.                                      *)
(***************************************************************************)
LEMMA PopType ==
  ASSUME NEW S, NEW s \in Seq(S), s # << >>
  PROVE  /\ Pop(s) \in Seq(S) /\ TopOf(s) \in S
         /\ Len(s) \in Nat /\ Len(s) # 0 /\ Len(Pop(s)) = Len(s) - 1
         /\ \A i \in 1 .. Len(s) - 1 : Pop(s)[i] = s[i]
<1> PICK n : n = Len(s) - 1
  OBVIOUS
<1>1. Len(s) \in Nat /\ Len(s) # 0 /\ n \in Nat
  BY EmptySeq
<1>2. \A i \in 1 .. Len(s) : s[i] \in S
  BY ElementOfSeq
<1>3. 1 \in Int /\ n \in Int /\ \A i \in 1 .. n : s[i] \in S
  BY <1>1, <1>2
<1>4. /\ SubSeq(s, 1, n) \in Seq(S)
      /\ Len(SubSeq(s, 1, n)) = IF 1 <= n THEN n - 1 + 1 ELSE 0
      /\ \A i \in 1 .. n - 1 + 1 : SubSeq(s, 1, n)[i] = s[1 + i - 1]
  BY <1>3, SubSeqProperties
<1> PICK t : t = SubSeq(s, 1, n)
  OBVIOUS
<1>5. t \in Seq(S) /\ Len(t) = n /\ \A i \in 1 .. n : t[i] = s[i]
  BY <1>1, <1>4
<1>6. t = Pop(s)
  BY DEF Pop
<1> QED
  BY <1>1, <1>2, <1>5, <1>6 DEF TopOf

LEMMA PushFacts ==
  ASSUME NEW S, NEW s \in Seq(S), NEW e \in S
  PROVE  /\ Append(s, e) \in Seq(S) /\ Append(s, e) # << >>
         /\ Pop(Append(s, e)) = s /\ TopOf(Append(s, e)) = e
         /\ Len(Append(s, e)) = Len(s) + 1 /\ Append(s, e)[Len(s) + 1] = e
         /\ \A i \in 1 .. Len(s) : Append(s, e)[i] = s[i]
<1> PICK t : t = Append(s, e)
  OBVIOUS
<1>1. /\ t \in Seq(S) /\ Len(t) = Len(s) + 1 /\ t[Len(s) + 1] = e
      /\ \A i \in 1 .. Len(s) : t[i] = s[i]
      /\ Len(s) \in Nat
  BY AppendProperties, LenProperties
<1>2. t # << >>
  BY <1>1
<1> PICK p, n, m : p = Pop(t) /\ n = Len(t) /\ m = Len(s)
  OBVIOUS
<1>3. p \in Seq(S) /\ Len(p) = n - 1 /\ \A i \in 1 .. n - 1 : p[i] = t[i]
  BY <1>1, <1>2, PopType
<1>4. n - 1 = m
  BY <1>1
<1>5. Len(p) = m /\ \A i \in 1 .. m : p[i] = s[i]
  BY <1>1, <1>3, <1>4
<1>6. p = s
  BY <1>3, <1>5, SeqEqual
<1> QED
  BY <1>1, <1>2, <1>6 DEF TopOf

LEMMA PopFacts ==
  ASSUME NEW S, NEW s \in Seq(S), s # << >>
  PROVE  Pop(s) \in Seq(S) /\ TopOf(s) \in S /\ s = Append(Pop(s), TopOf(s))
<1> PICK p, e, t : p = Pop(s) /\ e = TopOf(s) /\ t = Append(p, e)
  OBVIOUS
<1>1. /\ p \in Seq(S) /\ e \in S /\ Len(s) \in Nat /\ Len(s) # 0 /\ Len(p) = Len(s) - 1
      /\ \A i \in 1 .. Len(s) - 1 : p[i] = s[i]
  BY PopType
<1>2. /\ t \in Seq(S) /\ Len(t) = Len(p) + 1 /\ t[Len(p) + 1] = e
      /\ \A i \in 1 .. Len(p) : t[i] = p[i]
  BY <1>1, PushFacts
<1>3. Len(s) = Len(t) /\ \A i \in 1 .. Len(s) : s[i] = t[i]
  BY <1>1, <1>2 DEF TopOf
<1>4. s = t
  BY <1>2, <1>3, SeqEqual
<1> QED
  BY <1>1, <1>4

LEMMA HeldFacts ==
  ASSUME NEW s \in Seq(FrameSet), NEW e \in FrameSet
  PROVE  /\ HeldBy(Append(s, e)) = HeldBy(s) \cup HeldIn(e)
         /\ Distinct(Append(s, e)) <=>
              Distinct(s) /\ Injective(e) /\ HeldBy(s) \cap HeldIn(e) = {}
<1> PICK t, n : t = Append(s, e) /\ n = Len(s)
  OBVIOUS
<1>1. /\ Len(t) = n + 1 /\ t[n + 1] = e /\ n \in Nat
      /\ \A i \in 1 .. n : t[i] = s[i]
  BY PushFacts, LenProperties
<1>2. 1 .. Len(t) = (1 .. n) \cup {n + 1} /\ n + 1 \notin 1 .. n
  BY <1>1
<1>3. HeldBy(t) = HeldBy(s) \cup HeldIn(e)
  BY <1>1, <1>2 DEF HeldBy, HeldIn
<1>4. ASSUME Distinct(t)
      PROVE  Distinct(s) /\ Injective(e) /\ HeldBy(s) \cap HeldIn(e) = {}
  <2>1. Distinct(s)
    BY <1>1, <1>2, <1>4 DEF Distinct
  <2>2. Injective(e)
    BY <1>1, <1>2, <1>4 DEF Distinct, Injective
  <2>3. ASSUME NEW o \in Obj, o \in HeldBy(s), o \in HeldIn(e)
        PROVE  FALSE
    <3>1. PICK f \in 1 .. n : \E k \in DOMAIN s[f] : s[f][k].x.val = o
      BY <2>3 DEF HeldBy, HeldIn
    <3>2. PICK m \in DOMAIN e : e[m].x.val = o
      BY <2>3 DEF HeldIn
    <3> QED
      BY <1>1, <1>2, <1>4, <3>1, <3>2 DEF Distinct
  <2> QED
    BY <2>1, <2>2, <2>3 DEF HeldIn
<1>5. ASSUME Distinct(s), Injective(e), HeldBy(s) \cap HeldIn(e) = {}
      PROVE  Distinct(t)
  <2> SUFFICES ASSUME NEW f \in 1 .. Len(t), NEW g \in 1 .. Len(t),
                      NEW k \in DOMAIN t[f], NEW m \in DOMAIN t[g],
                      t[f][k].x.val \in Obj, t[f][k].x.val = t[g][m].x.val
               PROVE  f = g /\ k = m
    BY DEF Distinct
  <2>1. CASE f \in 1 .. n /\ g \in 1 .. n
    BY <1>1, <1>5, <2>1 DEF Distinct
  <2>2. CASE f = n + 1 /\ g = n + 1
    BY <1>1, <1>5, <2>2 DEF Injective
  <2>3. CASE f \in 1 .. n /\ g = n + 1
    <3>1. t[f][k].x.val \in HeldBy(s) /\ t[g][m].x.val \in HeldIn(e)
      BY <1>1, <2>3 DEF HeldBy, HeldIn
    <3> QED
      BY <1>5, <3>1
  <2>4. CASE f = n + 1 /\ g \in 1 .. n
    <3>1. t[f][k].x.val \in HeldIn(e) /\ t[g][m].x.val \in HeldBy(s)
      BY <1>1, <2>4 DEF HeldBy, HeldIn
    <3> QED
      BY <1>5, <3>1
  <2> QED
    BY <1>2, <2>1, <2>2, <2>3, <2>4
<1> QED
  BY <1>3, <1>4, <1>5

LEMMA HeldEmpty ==
  /\ HeldBy(<< >>) = {} /\ Distinct(<< >>) /\ << >> \in Seq(FrameSet)
  /\ LET e == [n \in {} |-> Local(Invalid)]
     IN  e \in FrameSet /\ HeldIn(e) = {} /\ Injective(e) /\ DOMAIN e = {}
<1>1. Len(<< >>) = 0 /\ << >> \in Seq(FrameSet) /\ 1 .. 0 = {}
  BY EmptySeq
<1>2. HeldBy(<< >>) = {} /\ Distinct(<< >>)
  BY <1>1 DEF HeldBy, Distinct
<1> PICK e : e = [n \in {} |-> Local(Invalid)]
  OBVIOUS
<1>3. e \in [{} -> LocalSet] /\ DOMAIN e = {}
  OBVIOUS
<1>4. e \in FrameSet
  BY <1>3 DEF FrameSet
<1>5. HeldIn(e) = {} /\ Injective(e)
  BY <1>3 DEF HeldIn, Injective
<1> QED
  BY <1>1, <1>2, <1>3, <1>4, <1>5

LEMMA FrameFacts ==
  ASSUME NEW e \in FrameSet
  PROVE  /\ DOMAIN e \in SUBSET Names /\ e \in [DOMAIN e -> LocalSet]
         /\ \A n \in DOMAIN e :
              e[n] \in LocalSet /\ e[n].x \in Values /\ e[n].error \in Nat
              /\ e[n] = [x |-> e[n].x, error |-> e[n].error]
BY DEF FrameSet, LocalSet

LEMMA LocalFacts ==
  ASSUME NEW x \in Values
  PROVE  Local(x) \in LocalSet /\ Local(x).x = x /\ Local(x).error = 0
BY DEF Local, LocalSet

(***************************************************************************)
(* A local is made, moved from, or its error is set.                       *)
(***************************************************************************)
Made(e, n, x, d) ==
  /\ d \in FrameSet /\ Injective(d) /\ HeldIn(d) = HeldIn(e) \cup ValueOf(x)
  /\ DOMAIN d = DOMAIN e \cup {n} /\ d[n] = Local(x)
  /\ \A m \in DOMAIN e : d[m] = e[m]

LEMMA WithFacts ==
  ASSUME NEW e \in FrameSet, Injective(e), NEW n \in Names, n \notin DOMAIN e, NEW x \in Values,
         ValueOf(x) \cap HeldIn(e) = {}, NEW d, d = With(e, n, Local(x))
  PROVE  Made(e, n, x, d)
<1>1. /\ DOMAIN d = DOMAIN e \cup {n} /\ d[n] = Local(x)
      /\ \A m \in DOMAIN e : d[m] = e[m]
  BY DEF With
<1>2. d \in [DOMAIN e \cup {n} -> LocalSet]
  <2>1. \A m \in DOMAIN e \cup {n} : d[m] \in LocalSet
    BY <1>1, FrameFacts, LocalFacts
  <2>2. d = [m \in DOMAIN e \cup {n} |-> d[m]]
    BY DEF With
  <2> QED
    BY <2>1, <2>2
<1>3. d \in FrameSet
  <2>1. DOMAIN e \cup {n} \in SUBSET Names
    BY FrameFacts
  <2> QED
    BY <1>2, <2>1, Zenon DEF FrameSet
<1>4. d[n].x = x
  BY <1>1, LocalFacts
<1>5. HeldIn(d) = HeldIn(e) \cup ValueOf(x)
  BY <1>1, <1>4 DEF HeldIn, ValueOf
<1>6. Injective(d)
  BY <1>1, <1>4 DEF Injective, HeldIn, ValueOf
<1> QED
  BY <1>1, <1>3, <1>5, <1>6 DEF Made

LEMMA MovedFacts ==
  ASSUME NEW e \in FrameSet, Injective(e), NEW n \in DOMAIN e,
         NEW d, d = Moved(e, n)
  PROVE  /\ d \in FrameSet /\ Injective(d) /\ HeldIn(d) = HeldIn(e) \ {e[n].x.val}
         /\ DOMAIN d = DOMAIN e /\ d[n] = Local(Invalid)
         /\ \A m \in DOMAIN e \ {n} : d[m] = e[m]
<1>1. e \in [DOMAIN e -> LocalSet] /\ DOMAIN e \in SUBSET Names
  BY FrameFacts
<1>2. Local(Invalid) \in LocalSet /\ Local(Invalid).x = Invalid /\ Invalid.val \notin Obj
  BY LocalFacts, ValuesFacts
<1>3. /\ DOMAIN d = DOMAIN e /\ d[n] = Local(Invalid)
      /\ \A m \in DOMAIN e \ {n} : d[m] = e[m]
      /\ d \in [DOMAIN e -> LocalSet]
  BY <1>1, <1>2 DEF Moved
<1>4. d \in FrameSet
  BY <1>1, <1>3 DEF FrameSet
<1>5. d[n].x.val \notin Obj
  BY <1>2, <1>3
<1>6. HeldIn(d) = HeldIn(e) \ {e[n].x.val}
  BY <1>3, <1>5 DEF HeldIn, Injective
<1>7. Injective(d)
  BY <1>3, <1>5 DEF Injective
<1> QED
  BY <1>3, <1>4, <1>6, <1>7

LEMMA ErrorFacts ==
  ASSUME NEW e \in FrameSet, NEW n \in DOMAIN e, NEW k \in Nat,
         NEW d, d = Marked(e, n, k)
  PROVE  /\ d \in FrameSet /\ (Injective(e) => Injective(d)) /\ HeldIn(d) = HeldIn(e)
         /\ DOMAIN d = DOMAIN e /\ d[n].x = e[n].x
         /\ d[n].error = (IF k = 0 THEN e[n].error ELSE k)
         /\ \A m \in DOMAIN e \ {n} : d[m] = e[m]
<1>1. /\ e \in [DOMAIN e -> LocalSet] /\ DOMAIN e \in SUBSET Names /\ e[n].x \in Values
      /\ e[n].error \in Nat /\ e[n] = [x |-> e[n].x, error |-> e[n].error]
  BY FrameFacts
<1> PICK v, c : v = e[n].x /\ c = IF k = 0 THEN e[n].error ELSE k
  OBVIOUS
<1>2. d = [e EXCEPT ![n] = [x |-> v, error |-> c]]
  <2>1. d = [e EXCEPT ![n] = [@ EXCEPT !.error = c]]
    BY DEF Marked
  <2> PICK l : l = e[n]
    OBVIOUS
  <2>2. l = [x |-> v, error |-> e[n].error]
    BY <1>1
  <2>3. [l EXCEPT !.error = c] = [x |-> v, error |-> c]
    BY <2>2
  <2> QED
    BY <2>1, <2>3
<1>3. [x |-> v, error |-> c] \in LocalSet
  BY <1>1 DEF LocalSet
<1>4. /\ DOMAIN d = DOMAIN e /\ d[n] = [x |-> v, error |-> c]
      /\ \A m \in DOMAIN e \ {n} : d[m] = e[m]
      /\ d \in [DOMAIN e -> LocalSet]
  BY <1>1, <1>2, <1>3
<1>5. d \in FrameSet
  BY <1>1, <1>4 DEF FrameSet
<1>6. ASSUME NEW m \in DOMAIN e
      PROVE  d[m].x = e[m].x
  <2>1. CASE m = n
    BY <1>4, <2>1
  <2>2. CASE m # n
    BY <1>4, <2>2
  <2> QED
    BY <2>1, <2>2
<1>7. HeldIn(d) = HeldIn(e)
  BY <1>4, <1>6 DEF HeldIn
<1>8. Injective(e) => Injective(d)
  BY <1>4, <1>6 DEF Injective
<1> QED
  BY <1>4, <1>5, <1>7, <1>8

(***************************************************************************)
(* The locals of a frame are destroyed together.                           *)
(***************************************************************************)
LEMMA LeaveForest ==
  ASSUME NEW h, NEW H, Forest(h, H), NEW e, Injective(e), HeldIn(e) \subseteq H
  PROVE  Untouched(h, Leave(h, e), H \ HeldIn(e))
<1>1. /\ h \in Heaps /\ H \in SUBSET Obj /\ h.pending = "none"
      /\ Blank(h) /\ SoleOwner(h, H) /\ CountsOwner(h, H) /\ Acyclic(h.prop)
  BY DEF Forest
<1> PICK K, g : K = HeldIn(e) /\ g = Leave(h, e)
  OBVIOUS
<1> PICK c : c = h.count
  OBVIOUS
<1>2. c \in [Obj -> Int]
  BY <1>1, HeapParts
<1> PICK n : n = [o \in Obj |-> c[o] - Cardinality({m \in DOMAIN e : e[m].x.val = o})]
  OBVIOUS
<1>3. ASSUME NEW o \in Obj
      PROVE  n[o] = c[o] - (IF o \in K THEN 1 ELSE 0)
  <2> PICK S : S = {m \in DOMAIN e : e[m].x.val = o}
    OBVIOUS
  <2>1. \A a, b \in S : a = b
    BY DEF Injective
  <2>2. Cardinality(S) = IF S = {} THEN 0 ELSE 1
    BY <2>1, AtMostOne
  <2>3. S = {} <=> o \notin K
    BY DEF HeldIn
  <2>4. n[o] = c[o] - Cardinality(S)
    OBVIOUS
  <2> QED
    BY <2>2, <2>3, <2>4
<1>4. n \in [Obj -> Int]
  <2>1. \A o \in Obj : n[o] \in Int
    BY <1>2, <1>3
  <2>2. n = [o \in Obj |-> n[o]]
    OBVIOUS
  <2> QED
    BY <2>1, <2>2
<1>5. g = [h EXCEPT !.count = n]
  BY DEF Leave
<1>6. g = Parts(h.kind, h.home, n, h.prop, h.global, h.pending)
  BY <1>1, <1>5, CountsEqual
<1>7. OnlyCounts(h, g, n)
  BY <1>1, <1>4, <1>6, CountsParts
<1>8. /\ g \in Heaps /\ g.count = n /\ g.kind = h.kind /\ g.home = h.home
      /\ g.prop = h.prop /\ g.global = h.global /\ g.pending = h.pending
  BY <1>7 DEF OnlyCounts
<1>9. \A o \in K : o \in Obj /\ o \in H /\ c[o] = 1 /\ h.kind[o] # "free"
                   /\ ~Stored(h.prop, o) /\ ~IsGlobal(h.global, o)
  BY <1>1, OwnedLives DEF Owned, SoleOwner
<1>10. Blank(g)
  BY <1>1, <1>2, <1>3, <1>8, <1>9 DEF Blank
<1>11. SoleOwner(g, H \ K)
  BY <1>1, <1>8 DEF SoleOwner
<1>12. CountsOwner(g, H \ K)
  BY <1>1, <1>2, <1>3, <1>8, <1>9 DEF CountsOwner, Owned
<1>13. H \ K \in SUBSET Obj
  BY <1>1
<1> QED
  BY <1>1, <1>8, <1>10, <1>11, <1>12, <1>13 DEF Forest, Untouched

-----------------------------------------------------------------------------
(***************************************************************************)
(* What is promised stays true.                                            *)
(***************************************************************************)
\* Only the properties of o changed, and no property holds o.
ChangedAt(h, g, o) ==
  /\ o \in Obj /\ ~Stored(h.prop, o)
  /\ \A p \in Obj \ {o} : \A k \in Keys : g.prop[p][k] = h.prop[p][k]

LEMMA NoPromiseFacts ==
  /\ NoPromise \in Promises
  /\ \A h, v : Holds(h, v, NoPromise)
BY DEF NoPromise, Promises, Holds

LEMMA HoldsKept ==
  ASSUME NEW h, NEW g, NEW o, ChangedAt(h, g, o), NEW v, v # o, NEW p \in Promises, Holds(h, v, p)
  PROVE  Holds(g, v, p)
<1>1. ASSUME NEW w, w # o, NEW k \in Keys
      PROVE  GetKey(g, w, k) = GetKey(h, w, k) /\ GetKey(h, w, k) # o
  BY <1>1, NotObjects DEF GetKey, ChangedAt, Stored
<1>2. \A k \in p.one : k \in Keys
  BY DEF Promises
<1>3. \A x \in p.two : x[1] \in Keys /\ x[2] \in Keys
  BY DEF Promises
<1>4. \A x \in p.three : x[1] \in Keys /\ x[2] \in Keys /\ x[3] \in Keys
  BY DEF Promises
<1>5. \A k \in p.one : Set(g, v, k)
  BY <1>1, <1>2 DEF Holds, Set
<1>6. \A x \in p.two : Set(g, GetKey(g, v, x[1]), x[2])
  BY <1>1, <1>3 DEF Holds, Set
<1>7. \A x \in p.three : Set(g, GetKey(g, GetKey(g, v, x[1]), x[2]), x[3])
  BY <1>1, <1>4 DEF Holds, Set
<1> QED
  BY <1>5, <1>6, <1>7 DEF Holds

LEMMA HoldsSame ==
  ASSUME NEW h, NEW g, g.prop = h.prop, NEW v, NEW p, Holds(h, v, p)
  PROVE  Holds(g, v, p)
<1>1. \A w, k : GetKey(g, w, k) = GetKey(h, w, k)
  BY DEF GetKey
<1> QED
  BY <1>1 DEF Holds, Set

\* What a property that is set adds to the promise of its object.
LEMMA JoinedType ==
  ASSUME NEW p \in Promises, NEW q \in Promises, NEW k \in Keys
  PROVE  Joined(p, k, q) \in Promises
<1>1. p.one \cup {k} \in SUBSET Keys
  BY DEF Promises
<1>2. {x \in p.two : x[1] # k} \cup {<<k, j>> : j \in q.one} \in SUBSET (Keys \X Keys)
  BY DEF Promises
<1>3. {x \in p.three : x[1] # k} \cup {<<k, x[1], x[2]>> : x \in q.two}
        \in SUBSET (Keys \X Keys \X Keys)
  <2>1. p.three \in SUBSET (Keys \X Keys \X Keys) /\ q.two \in SUBSET (Keys \X Keys)
    BY DEF Promises
  <2>2. ASSUME NEW x \in q.two
        PROVE  <<k, x[1], x[2]>> \in Keys \X Keys \X Keys
    <3>1. x[1] \in Keys /\ x[2] \in Keys
      BY <2>1
    <3> QED
      BY <3>1
  <2> QED
    BY <2>1, <2>2
<1> QED
  BY <1>1, <1>2, <1>3 DEF Joined, Promises

LEMMA JoinedHolds ==
  ASSUME NEW h, NEW g, NEW t, NEW k \in Keys, NEW v, Linked(h, g, t, k, v), ChangedAt(h, g, t),
         v # t, v # "undefined", v # "absent",
         NEW p \in Promises, NEW q \in Promises, Holds(h, t, p), Holds(h, v, q)
  PROVE  Holds(g, t, Joined(p, k, q))
<1>1. t \in Obj /\ GetKey(g, t, k) = v
  BY DEF Linked, ChangedAt, GetKey
<1>2. ASSUME NEW j \in Keys, j # k
      PROVE  GetKey(g, t, j) = GetKey(h, t, j) /\ GetKey(h, t, j) # t
  BY <1>1, <1>2, NotObjects DEF Linked, ChangedAt, GetKey, Stored
<1>3. ASSUME NEW w, w # t, NEW j \in Keys
      PROVE  GetKey(g, w, j) = GetKey(h, w, j) /\ GetKey(h, w, j) # t
  BY <1>3, NotObjects DEF GetKey, ChangedAt, Stored
<1>4. \A j \in p.one \cup q.one : j \in Keys
  BY DEF Promises
<1>5. \A x \in p.two \cup q.two : x[1] \in Keys /\ x[2] \in Keys
  BY DEF Promises
<1>6. \A x \in p.three : x[1] \in Keys /\ x[2] \in Keys /\ x[3] \in Keys
  BY DEF Promises
<1>7. \A j \in p.one \cup {k} : Set(g, t, j)
  BY <1>1, <1>2, <1>4 DEF Holds, Set
<1>8. ASSUME NEW x \in p.two, x[1] # k
      PROVE  Set(g, GetKey(g, t, x[1]), x[2])
  BY <1>2, <1>3, <1>5, <1>8 DEF Holds, Set
<1>9. ASSUME NEW j \in q.one
      PROVE  Set(g, GetKey(g, t, k), j)
  BY <1>1, <1>3, <1>4 DEF Holds, Set
<1>10. ASSUME NEW x \in p.three, x[1] # k
       PROVE  Set(g, GetKey(g, GetKey(g, t, x[1]), x[2]), x[3])
  BY <1>2, <1>3, <1>6, <1>10 DEF Holds, Set
<1>11. ASSUME NEW x \in q.two
       PROVE  Set(g, GetKey(g, GetKey(g, t, k), x[1]), x[2])
  BY <1>1, <1>3, <1>5 DEF Holds, Set
<1> PICK J : J = Joined(p, k, q)
  OBVIOUS
<1>12. /\ J.one = p.one \cup {k}
       /\ J.two = {x \in p.two : x[1] # k} \cup {<<k, j>> : j \in q.one}
       /\ J.three = {x \in p.three : x[1] # k} \cup {<<k, x[1], x[2]>> : x \in q.two}
  BY DEF Joined
<1>13. \A j \in J.one : Set(g, t, j)
  BY <1>7, <1>12
<1>14. \A x \in J.two : Set(g, GetKey(g, t, x[1]), x[2])
  BY <1>8, <1>9, <1>12
<1>15. \A x \in J.three : Set(g, GetKey(g, GetKey(g, t, x[1]), x[2]), x[3])
  BY <1>10, <1>11, <1>12
<1> QED
  BY <1>13, <1>14, <1>15 DEF Holds

\* The owner of a property changes no other object.
LEMMA LinkedChanges ==
  ASSUME NEW h, NEW H, Forest(h, H), NEW t \in Obj, t \in H \/ IsGlobal(h.global, t),
         NEW g, NEW k, NEW v, Linked(h, g, t, k, v)
  PROVE  ChangedAt(h, g, t)
BY DEF Forest, SoleOwner, Linked, ChangedAt

LEMMA SweepChanges ==
  ASSUME NEW h, NEW H, Forest(h, H), NEW o \in Unswept(h), NEW g, Cleared(h, g, o)
  PROVE  ChangedAt(h, g, o) /\ o \notin H /\ ~IsGlobal(h.global, o)
<1>1. o \in Obj /\ ~Owned(h, H, o)
  BY DEF Unswept, Forest, CountsOwner
<1>2. \A p \in Obj \ {o} : g.prop[p] = h.prop[p]
  BY DEF Cleared
<1> QED
  BY <1>1, <1>2 DEF Owned, ChangedAt

-----------------------------------------------------------------------------
(***************************************************************************)
(* The functions entered: t is the frame of the one that runs, s are those *)
(* of its callers, and K is what a call in progress owns besides.          *)
(***************************************************************************)
Owns(h, s, t, K) ==
  /\ s \in Seq(FrameSet) /\ t \in FrameSet /\ Distinct(s) /\ Injective(t)
  /\ HeldBy(s) \cap HeldIn(t) = {} /\ K \cap (HeldBy(s) \cup HeldIn(t)) = {}
  /\ Forest(h, HeldBy(s) \cup HeldIn(t) \cup K)

Sound(h, fr) == Frames(fr) /\ Forest(h, HeldBy(fr))

LEMMA OwnsOpen ==
  ASSUME NEW h, NEW fr, Sound(h, fr), fr # << >>
  PROVE  Owns(h, Pop(fr), TopOf(fr), {})
<1> PICK s, t : s = Pop(fr) /\ t = TopOf(fr)
  OBVIOUS
<1>1. fr \in Seq(FrameSet) /\ Distinct(fr) /\ Forest(h, HeldBy(fr))
  BY DEF Sound, Frames
<1>2. s \in Seq(FrameSet) /\ t \in FrameSet /\ fr = Append(s, t)
  BY <1>1, PopFacts
<1>3. /\ HeldBy(fr) = HeldBy(s) \cup HeldIn(t)
      /\ Distinct(s) /\ Injective(t) /\ HeldBy(s) \cap HeldIn(t) = {}
  BY <1>1, <1>2, HeldFacts
<1>4. HeldBy(s) \cup HeldIn(t) \cup {} = HeldBy(fr)
  BY <1>3
<1> QED
  BY <1>1, <1>2, <1>3, <1>4 DEF Owns

LEMMA OwnsClose ==
  ASSUME NEW h, NEW s, NEW t, Owns(h, s, t, {})
  PROVE  Sound(h, Append(s, t))
<1> PICK fr : fr = Append(s, t)
  OBVIOUS
<1>1. /\ s \in Seq(FrameSet) /\ t \in FrameSet /\ Distinct(s) /\ Injective(t)
      /\ HeldBy(s) \cap HeldIn(t) = {} /\ Forest(h, HeldBy(s) \cup HeldIn(t) \cup {})
  BY DEF Owns
<1>2. HeldBy(fr) = HeldBy(s) \cup HeldIn(t) /\ Distinct(fr) /\ fr \in Seq(FrameSet)
  BY <1>1, HeldFacts, PushFacts
<1>3. HeldBy(s) \cup HeldIn(t) \cup {} = HeldBy(fr)
  BY <1>2
<1> QED
  BY <1>1, <1>2, <1>3 DEF Sound, Frames

LEMMA OwnsMoved ==
  ASSUME NEW h, NEW s, NEW t, Owns(h, s, t, {}), NEW n \in DOMAIN t
  PROVE  Owns(h, s, Moved(t, n), ValueOf(t[n].x))
<1> PICK d, v, K : d = Moved(t, n) /\ v = t[n].x.val /\ K = ValueOf(t[n].x)
  OBVIOUS
<1>1. /\ s \in Seq(FrameSet) /\ t \in FrameSet /\ Distinct(s) /\ Injective(t)
      /\ HeldBy(s) \cap HeldIn(t) = {} /\ Forest(h, HeldBy(s) \cup HeldIn(t) \cup {})
  BY DEF Owns
<1>2. d \in FrameSet /\ Injective(d) /\ HeldIn(d) = HeldIn(t) \ {v}
  BY <1>1, MovedFacts
<1>3. K = {v} \cap Obj /\ K \subseteq HeldIn(t) /\ HeldIn(t) \subseteq Obj
  BY DEF ValueOf, HeldIn
<1>4. HeldBy(s) \cup HeldIn(d) \cup K = HeldBy(s) \cup HeldIn(t) \cup {}
  BY <1>2, <1>3
<1> QED
  BY <1>1, <1>2, <1>3, <1>4 DEF Owns

LEMMA OwnsPut ==
  ASSUME NEW h, NEW s, NEW t, NEW x \in Values, Owns(h, s, t, ValueOf(x)),
         NEW n \in Names, n \notin DOMAIN t
  PROVE  Owns(h, s, With(t, n, Local(x)), {})
<1> PICK d, K : d = With(t, n, Local(x)) /\ K = ValueOf(x)
  OBVIOUS
<1>1. /\ s \in Seq(FrameSet) /\ t \in FrameSet /\ Distinct(s) /\ Injective(t)
      /\ HeldBy(s) \cap HeldIn(t) = {} /\ K \cap (HeldBy(s) \cup HeldIn(t)) = {}
      /\ Forest(h, HeldBy(s) \cup HeldIn(t) \cup K)
  BY DEF Owns
<1>2. K = {x.val} \cap Obj /\ HeldIn(t) \subseteq Obj
  BY DEF ValueOf, HeldIn
<1>3. K \cap HeldIn(t) = {}
  BY <1>1
<1>4. d \in FrameSet /\ Injective(d) /\ HeldIn(d) = HeldIn(t) \cup K
  <2>1. ValueOf(x) \cap HeldIn(t) = {} /\ d = With(t, n, Local(x))
    BY <1>3
  <2>2. Made(t, n, x, d)
    BY <1>1, <2>1, WithFacts
  <2> QED
    BY <2>2 DEF Made
<1>5. HeldBy(s) \cup HeldIn(d) \cup {} = HeldBy(s) \cup HeldIn(t) \cup K
  BY <1>4
<1>6. HeldBy(s) \cap HeldIn(d) = {}
  BY <1>1, <1>4
<1> QED
  BY <1>1, <1>4, <1>5, <1>6 DEF Owns

LEMMA OwnsError ==
  ASSUME NEW h, NEW s, NEW t, NEW K, Owns(h, s, t, K), NEW n \in DOMAIN t, NEW k \in Nat
  PROVE  Owns(h, s, Marked(t, n, k), K)
<1> PICK d : d = Marked(t, n, k)
  OBVIOUS
<1>1. t \in FrameSet /\ Injective(t)
  BY DEF Owns
<1>2. d \in FrameSet /\ Injective(d) /\ HeldIn(d) = HeldIn(t)
  <2>1. d \in FrameSet /\ (Injective(t) => Injective(d)) /\ HeldIn(d) = HeldIn(t)
    BY <1>1, ErrorFacts
  <2> QED
    BY <1>1, <2>1
<1> QED
  BY <1>2 DEF Owns

LEMMA OwnsPush ==
  ASSUME NEW h, NEW s, NEW t, Owns(h, s, t, {})
  PROVE  Owns(h, Append(s, t), [n \in {} |-> Local(Invalid)], {})
<1> PICK fr, e : fr = Append(s, t) /\ e = [n \in {} |-> Local(Invalid)]
  OBVIOUS
<1>1. fr \in Seq(FrameSet) /\ Distinct(fr) /\ Forest(h, HeldBy(fr))
  BY OwnsClose DEF Sound, Frames
<1>2. e \in FrameSet /\ HeldIn(e) = {} /\ Injective(e)
  BY HeldEmpty
<1>3. HeldBy(fr) \cup HeldIn(e) \cup {} = HeldBy(fr)
  BY <1>2
<1> QED
  BY <1>1, <1>2, <1>3 DEF Owns

\* The function returns and its locals are destroyed; x, if any, is handed on.
LEMMA OwnsLeave ==
  ASSUME NEW h, NEW s, NEW t, NEW K, Owns(h, s, t, K)
  PROVE  Untouched(h, Leave(h, t), HeldBy(s) \cup K) /\ Frames(s)
<1> PICK H : H = HeldBy(s) \cup HeldIn(t) \cup K
  OBVIOUS
<1>1. /\ s \in Seq(FrameSet) /\ t \in FrameSet /\ Distinct(s) /\ Injective(t)
      /\ HeldBy(s) \cap HeldIn(t) = {} /\ K \cap (HeldBy(s) \cup HeldIn(t)) = {} /\ Forest(h, H)
  BY DEF Owns
<1>2. HeldIn(t) \subseteq H /\ H \ HeldIn(t) = HeldBy(s) \cup K
  BY <1>1
<1>3. Untouched(h, Leave(h, t), H \ HeldIn(t))
  BY <1>1, <1>2, LeaveForest
<1> QED
  BY <1>1, <1>2, <1>3 DEF Frames

LEMMA OwnsReturn ==
  ASSUME NEW h, NEW s, NEW d, NEW t, NEW K, s \in Seq(FrameSet), d \in FrameSet,
         Owns(h, Append(s, d), t, K)
  PROVE  Owns(Leave(h, t), s, d, K)
<1> PICK fr, g : fr = Append(s, d) /\ g = Leave(h, t)
  OBVIOUS
<1>1. Forest(g, HeldBy(fr) \cup K) /\ Distinct(fr)
  BY OwnsLeave DEF Untouched, Frames
<1>2. /\ HeldBy(fr) = HeldBy(s) \cup HeldIn(d)
      /\ Distinct(s) /\ Injective(d) /\ HeldBy(s) \cap HeldIn(d) = {}
  BY <1>1, HeldFacts
<1>3. K \cap HeldBy(fr) = {}
  BY DEF Owns
<1> QED
  BY <1>1, <1>2, <1>3 DEF Owns

\* A call returned a Value that nothing owns yet, or an error.
LEMMA OwnsReturned ==
  ASSUME NEW h, NEW s, NEW t, Owns(h, s, t, {}), NEW r,
         Returns(h, HeldBy(s) \cup HeldIn(t), r)
  PROVE  IF r.ok THEN r.x \in Values /\ Owns(r.h, s, t, ValueOf(r.x))
         ELSE Owns(r.h, s, t, {})
<1> PICK H : H = HeldBy(s) \cup HeldIn(t)
  OBVIOUS
<1>1. CASE r.ok
  <2>1. r.x \in Values /\ r.x.val \notin H /\ Forest(r.h, H \cup ValueOf(r.x))
    BY <1>1 DEF Returns, Untouched, ValueOf
  <2>2. ValueOf(r.x) \cap H = {}
    BY <2>1 DEF ValueOf
  <2> QED
    BY <1>1, <2>1, <2>2 DEF Owns
<1>2. CASE ~r.ok
  <2>1. Forest(r.h, H) /\ H = H \cup {}
    BY <1>2 DEF Returns, Untouched
  <2> QED
    BY <1>2, <2>1 DEF Owns
<1> QED
  BY <1>1, <1>2

LEMMA OwnsForest ==
  ASSUME NEW h, NEW s, NEW t, Owns(h, s, t, {})
  PROVE  Forest(h, HeldBy(s) \cup HeldIn(t))
<1>1. HeldBy(s) \cup HeldIn(t) \cup {} = HeldBy(s) \cup HeldIn(t)
  OBVIOUS
<1> QED
  BY <1>1 DEF Owns

-----------------------------------------------------------------------------
(***************************************************************************)
(* What is known of the frames: sc of those of the callers, tc of the one  *)
(* that runs, whose builder b is in use and has the error e.               *)
(***************************************************************************)
State(h, s, t, K, b, e, sc, tc, p) ==
  /\ Owns(h, s, t, K) /\ h.global[TheContext] \in Obj
  /\ sc \in Seq(ScopeSet) /\ tc \in ScopeSet /\ p \in Promises /\ e \in Nat
  /\ Matches(h, s, sc) /\ Fits(h, t, tc, b, e) /\ Holds(h, CtxOf(h), p)

LEMMA ScopeFacts ==
  ASSUME NEW e \in ScopeSet
  PROVE  /\ DOMAIN e \in SUBSET Names /\ e \in [DOMAIN e -> Promises]
         /\ \A n \in DOMAIN e : e[n] \in Promises
BY DEF ScopeSet

Renewed(e, n, q, d) ==
  /\ d \in ScopeSet /\ DOMAIN d = DOMAIN e \cup {n} /\ d[n] = q
  /\ \A m \in DOMAIN e \ {n} : d[m] = e[m]

LEMMA PromisedFacts ==
  ASSUME NEW e \in ScopeSet, NEW n \in DOMAIN e, NEW q \in Promises, NEW d, d = Promised(e, n, q)
  PROVE  Renewed(e, n, q, d)
<1>1. e \in [DOMAIN e -> Promises] /\ DOMAIN e \in SUBSET Names
  BY ScopeFacts
<1>2. /\ DOMAIN d = DOMAIN e /\ d[n] = q /\ d \in [DOMAIN e -> Promises]
      /\ \A m \in DOMAIN e \ {n} : d[m] = e[m]
  BY <1>1 DEF Promised
<1>3. d \in ScopeSet
  BY <1>1, <1>2 DEF ScopeSet
<1>4. DOMAIN e = DOMAIN e \cup {n}
  OBVIOUS
<1> QED
  BY <1>2, <1>3, <1>4 DEF Renewed

LEMMA GrownFacts ==
  ASSUME NEW e \in ScopeSet, NEW n \in Names, n \notin DOMAIN e, NEW q \in Promises,
         NEW d, d = With(e, n, q)
  PROVE  Renewed(e, n, q, d)
<1>1. e \in [DOMAIN e -> Promises] /\ DOMAIN e \in SUBSET Names
  BY ScopeFacts
<1>2. /\ DOMAIN d = DOMAIN e \cup {n} /\ d[n] = q
      /\ \A m \in DOMAIN e \ {n} : d[m] = e[m]
  BY DEF With
<1>3. d \in [DOMAIN e \cup {n} -> Promises]
  <2>1. \A m \in DOMAIN e \cup {n} : d[m] \in Promises
    BY <1>2, ScopeFacts
  <2>2. d = [m \in DOMAIN e \cup {n} |-> d[m]]
    BY DEF With
  <2> QED
    BY <2>1, <2>2
<1>4. DOMAIN e \cup {n} \in SUBSET Names
  BY <1>1
<1>5. d \in ScopeSet
  BY <1>3, <1>4, Zenon DEF ScopeSet
<1> QED
  BY <1>2, <1>5 DEF Renewed

LEMMA EmptyScopeType == EmptyScope \in ScopeSet /\ DOMAIN EmptyScope = {}
<1>1. EmptyScope \in [{} -> Promises] /\ {} \in SUBSET Names
  BY DEF EmptyScope
<1>2. EmptyScope \in ScopeSet
  BY <1>1, Zenon DEF ScopeSet
<1> QED
  BY <1>2 DEF EmptyScope

\* What fits still does in a heap that changed elsewhere.
LEMMA FitsSame ==
  ASSUME NEW h, NEW g, g.prop = h.prop, NEW t, NEW tc, NEW b, NEW e, Fits(h, t, tc, b, e)
  PROVE  Fits(g, t, tc, b, e)
BY HoldsSame DEF Fits

LEMMA FitsKept ==
  ASSUME NEW h, NEW g, NEW o, ChangedAt(h, g, o), NEW t \in FrameSet, NEW tc \in ScopeSet,
         o \notin HeldIn(t), NEW b, NEW e, Fits(h, t, tc, b, e)
  PROVE  Fits(g, t, tc, b, e)
<1>1. \A n \in DOMAIN t : t[n].x.val # o
  BY DEF HeldIn, ChangedAt
<1>2. \A n \in DOMAIN t : tc[n] \in Promises
  BY ScopeFacts DEF Fits
<1>3. ASSUME NEW n \in DOMAIN t, t[n].error = 0
      PROVE  Holds(g, t[n].x.val, tc[n])
  BY <1>1, <1>2, <1>3, HoldsKept DEF Fits
<1> QED
  BY <1>3 DEF Fits

LEMMA MatchesSame ==
  ASSUME NEW h, NEW g, g.prop = h.prop, NEW s, NEW sc, Matches(h, s, sc)
  PROVE  Matches(g, s, sc)
BY FitsSame DEF Matches

LEMMA MatchesKept ==
  ASSUME NEW h, NEW g, NEW o, ChangedAt(h, g, o), NEW s \in Seq(FrameSet), NEW sc \in Seq(ScopeSet),
         o \notin HeldBy(s), Matches(h, s, sc)
  PROVE  Matches(g, s, sc)
<1>1. ASSUME NEW f \in 1 .. Len(s)
      PROVE  Fits(g, s[f], sc[f], "none", 0)
  <2> PICK t, tc : t = s[f] /\ tc = sc[f]
    OBVIOUS
  <2>1. t \in FrameSet /\ tc \in ScopeSet /\ Fits(h, t, tc, "none", 0)
    BY DEF Matches
  <2>2. o \notin HeldIn(t)
    BY DEF HeldBy, ChangedAt
  <2> QED
    BY <2>1, <2>2, FitsKept
<1> QED
  BY <1>1 DEF Matches

LEMMA CtxKept ==
  ASSUME NEW h, NEW g, NEW o, ChangedAt(h, g, o), g.global = h.global,
         h.global[TheContext] # o, NEW p \in Promises, Holds(h, CtxOf(h), p)
  PROVE  Holds(g, CtxOf(g), p)
<1>1. CtxOf(g) = CtxOf(h) /\ CtxOf(h) # o
  BY MatchAssumption, NotObjects DEF CtxOf, GetKey, ChangedAt, Stored
<1> QED
  BY <1>1, HoldsKept

LEMMA MatchesAppend ==
  ASSUME NEW h, NEW s \in Seq(FrameSet), NEW sc \in Seq(ScopeSet),
         NEW t \in FrameSet, NEW tc \in ScopeSet
  PROVE  Matches(h, Append(s, t), Append(sc, tc))
           <=> Matches(h, s, sc) /\ Fits(h, t, tc, "none", 0)
<1> PICK a, c : a = Append(s, t) /\ c = Append(sc, tc)
  OBVIOUS
<1>1. /\ Len(a) = Len(s) + 1 /\ a[Len(s) + 1] = t /\ \A i \in 1 .. Len(s) : a[i] = s[i]
      /\ Len(c) = Len(sc) + 1 /\ c[Len(sc) + 1] = tc /\ \A i \in 1 .. Len(sc) : c[i] = sc[i]
      /\ Len(s) \in Nat /\ Len(sc) \in Nat
  BY PushFacts
<1>2. ASSUME Matches(h, a, c)
      PROVE  Matches(h, s, sc) /\ Fits(h, t, tc, "none", 0)
  <2>1. Len(s) = Len(sc)
    BY <1>1, <1>2 DEF Matches
  <2>2. \A f \in 1 .. Len(s) + 1 : Fits(h, a[f], c[f], "none", 0)
    BY <1>1, <1>2 DEF Matches
  <2>3. ASSUME NEW f \in 1 .. Len(s)
        PROVE  Fits(h, s[f], sc[f], "none", 0)
    <3>1. f \in 1 .. Len(s) + 1 /\ f \in 1 .. Len(sc)
      BY <1>1, <2>1
    <3>2. a[f] = s[f] /\ c[f] = sc[f]
      BY <1>1, <3>1
    <3> QED
      BY <2>2, <3>1, <3>2
  <2>4. Fits(h, t, tc, "none", 0)
    <3>1. Len(s) + 1 \in 1 .. Len(s) + 1
      BY <1>1
    <3> QED
      BY <1>1, <2>1, <2>2, <3>1
  <2> QED
    BY <2>1, <2>3, <2>4 DEF Matches
<1>3. ASSUME Matches(h, s, sc), Fits(h, t, tc, "none", 0)
      PROVE  Matches(h, a, c)
  <2>1. Len(s) = Len(sc) /\ \A f \in 1 .. Len(s) : Fits(h, s[f], sc[f], "none", 0)
    BY <1>3 DEF Matches
  <2>2. ASSUME NEW f \in 1 .. Len(s) + 1
        PROVE  Fits(h, a[f], c[f], "none", 0)
    <3>1. f \in 1 .. Len(s) \/ f = Len(s) + 1
      BY <1>1
    <3> QED
      BY <1>1, <1>3, <2>1, <3>1
  <2> QED
    BY <1>1, <2>1, <2>2 DEF Matches
<1> QED
  BY <1>2, <1>3

\* The value-level steps of the calls.
LEMMA StateSame ==
  ASSUME NEW h, NEW s, NEW t, NEW K, NEW b, NEW e, NEW sc, NEW tc, NEW p,
         State(h, s, t, K, b, e, sc, tc, p),
         NEW g, g.prop = h.prop, g.global = h.global, NEW L, Owns(g, s, t, L)
  PROVE  State(g, s, t, L, b, e, sc, tc, p)
<1>1. Matches(g, s, sc) /\ Fits(g, t, tc, b, e)
  BY MatchesSame, FitsSame DEF State
<1>2. CtxOf(g) = CtxOf(h)
  BY DEF CtxOf, GetKey
<1>3. Holds(g, CtxOf(g), p)
  BY <1>2, HoldsSame DEF State
<1> QED
  BY <1>1, <1>3 DEF State

LEMMA StateMoved ==
  ASSUME NEW h, NEW s, NEW t, NEW b, NEW e, NEW sc, NEW tc, NEW p,
         State(h, s, t, {}, b, e, sc, tc, p), NEW n \in DOMAIN t, n # b \/ e = 0
  PROVE  State(h, s, Moved(t, n), ValueOf(t[n].x), b, e, sc, Promised(tc, n, NoPromise), p)
<1> PICK d, dc : d = Moved(t, n) /\ dc = Promised(tc, n, NoPromise)
  OBVIOUS
<1>1. t \in FrameSet /\ Injective(t) /\ tc \in ScopeSet /\ Fits(h, t, tc, b, e)
  BY DEF State, Owns
<1>2. /\ DOMAIN d = DOMAIN t /\ d[n] = Local(Invalid)
      /\ \A m \in DOMAIN t \ {n} : d[m] = t[m]
  BY <1>1, MovedFacts
<1>3. n \in DOMAIN tc /\ DOMAIN t = DOMAIN tc
  BY <1>1 DEF Fits
<1>4. Renewed(tc, n, NoPromise, dc)
  BY <1>1, <1>3, PromisedFacts, NoPromiseFacts
<1>5. d[n].error = 0
  BY <1>2, LocalFacts, ValuesFacts
<1>6. Fits(h, d, dc, b, e)
  <2>1. ASSUME NEW m \in DOMAIN d
        PROVE  /\ d[m].error = IF m = b THEN e ELSE 0
               /\ d[m].error = 0 => Holds(h, d[m].x.val, dc[m])
    <3>1. CASE m = n
      BY <1>4, <1>5, <3>1, NoPromiseFacts DEF Renewed
    <3>2. CASE m # n
      BY <1>1, <1>2, <1>3, <1>4, <3>2 DEF Renewed, Fits
    <3> QED
      BY <3>1, <3>2
  <2> QED
    BY <1>1, <1>2, <1>3, <1>4, <2>1 DEF Fits, Renewed
<1>7. Owns(h, s, d, ValueOf(t[n].x))
  BY OwnsMoved DEF State
<1> QED
  BY <1>4, <1>6, <1>7 DEF State, Renewed

LEMMA StatePut ==
  ASSUME NEW h, NEW s, NEW t, NEW x \in Values, NEW sc, NEW tc, NEW p,
         State(h, s, t, ValueOf(x), "none", 0, sc, tc, p), NEW n \in Names, n \notin DOMAIN t,
         NEW q \in Promises, Holds(h, x.val, q), NEW b \in {"none", n}
  PROVE  State(h, s, With(t, n, Local(x)), {}, b, 0, sc, With(tc, n, q), p)
<1> PICK d, dc : d = With(t, n, Local(x)) /\ dc = With(tc, n, q)
  OBVIOUS
<1>1. t \in FrameSet /\ tc \in ScopeSet /\ Fits(h, t, tc, "none", 0)
  BY DEF State, Owns
<1>2. /\ DOMAIN d = DOMAIN t \cup {n} /\ d[n] = Local(x)
      /\ \A m \in DOMAIN t : d[m] = t[m]
  BY DEF With
<1>3. n \notin DOMAIN tc /\ DOMAIN t = DOMAIN tc
  BY <1>1 DEF Fits
<1>4. Renewed(tc, n, q, dc)
  BY <1>1, <1>3, GrownFacts
<1>5. d[n].error = 0 /\ d[n].x = x
  BY <1>2, LocalFacts
<1>6. Fits(h, d, dc, b, 0)
  <2>1. ASSUME NEW m \in DOMAIN d
        PROVE  d[m].error = 0 /\ Holds(h, d[m].x.val, dc[m])
    <3>1. CASE m = n
      BY <1>4, <1>5, <3>1 DEF Renewed
    <3>2. CASE m # n
      BY <1>1, <1>2, <1>3, <1>4, <3>2 DEF Renewed, Fits
    <3> QED
      BY <3>1, <3>2
  <2> QED
    BY <1>1, <1>2, <1>3, <1>4, <2>1 DEF Fits, Renewed
<1>7. Owns(h, s, d, {})
  BY OwnsPut DEF State
<1> QED
  BY <1>4, <1>6, <1>7 DEF State, Renewed

LEMMA StateIdle ==
  ASSUME NEW h, NEW s, NEW t, NEW K, NEW b, NEW sc, NEW tc, NEW p,
         State(h, s, t, K, b, 0, sc, tc, p)
  PROVE  State(h, s, t, K, "none", 0, sc, tc, p)
BY DEF State, Fits

LEMMA StateMarked ==
  ASSUME NEW h, NEW s, NEW t, NEW K, NEW b, NEW e, NEW sc, NEW tc, NEW p,
         State(h, s, t, K, b, e, sc, tc, p), b # "none", NEW k \in Nat, k # 0,
         NEW q \in Promises
  PROVE  State(h, s, Marked(t, b, k), K, b, k, sc, Promised(tc, b, q), p)
<1> PICK d, dc : d = Marked(t, b, k) /\ dc = Promised(tc, b, q)
  OBVIOUS
<1>1. t \in FrameSet /\ tc \in ScopeSet /\ Fits(h, t, tc, b, e)
  BY DEF State, Owns
<1>2. b \in DOMAIN t /\ DOMAIN t = DOMAIN tc /\ b \in DOMAIN tc
  BY <1>1 DEF Fits
<1>3. Renewed(tc, b, q, dc)
  BY <1>1, <1>2, PromisedFacts
<1>4. /\ DOMAIN d = DOMAIN t /\ d[b].error = k
      /\ \A m \in DOMAIN t \ {b} : d[m] = t[m]
  BY <1>1, <1>2, ErrorFacts
<1>5. Fits(h, d, dc, b, k)
  <2>1. ASSUME NEW m \in DOMAIN d
        PROVE  /\ d[m].error = IF m = b THEN k ELSE 0
               /\ d[m].error = 0 => Holds(h, d[m].x.val, dc[m])
    <3>1. CASE m = b
      BY <1>4, <3>1
    <3>2. CASE m # b
      BY <1>1, <1>2, <1>3, <1>4, <3>2 DEF Renewed, Fits
    <3> QED
      BY <3>1, <3>2
  <2> QED
    BY <1>1, <1>2, <1>3, <1>4, <2>1 DEF Fits, Renewed
<1>6. Owns(h, s, d, K)
  BY <1>2, OwnsError DEF State
<1> QED
  BY <1>3, <1>5, <1>6 DEF State, Renewed

\* Nothing is promised of a builder that has an error.
LEMMA StateStuck ==
  ASSUME NEW h, NEW s, NEW t, NEW K, NEW b, NEW e, NEW sc, NEW tc, NEW p,
         State(h, s, t, K, b, e, sc, tc, p), e # 0, NEW q \in Promises
  PROVE  State(h, s, t, K, b, e, sc, Promised(tc, b, q), p)
<1> PICK dc : dc = Promised(tc, b, q)
  OBVIOUS
<1>1. tc \in ScopeSet /\ Fits(h, t, tc, b, e)
  BY DEF State
<1>2. b \in DOMAIN t /\ DOMAIN t = DOMAIN tc
  BY <1>1 DEF Fits
<1>3. Renewed(tc, b, q, dc)
  BY <1>1, <1>2, PromisedFacts
<1>4. ASSUME NEW m \in DOMAIN t
      PROVE  t[m].error = 0 => Holds(h, t[m].x.val, dc[m])
  BY <1>1, <1>2, <1>3 DEF Renewed, Fits
<1>5. Fits(h, t, dc, b, e)
  BY <1>1, <1>2, <1>3, <1>4 DEF Fits, Renewed
<1> QED
  BY <1>3, <1>5 DEF State, Renewed

LEMMA MarkedNot ==
  ASSUME NEW t \in FrameSet, NEW b \in DOMAIN t
  PROVE  Marked(t, b, 0) = t
<1> PICK d : d = Marked(t, b, 0)
  OBVIOUS
<1>1. t[b] = [t[b] EXCEPT !.error = t[b].error]
  <2> PICK l, x, e : l = t[b] /\ x = l.x /\ e = l.error
    OBVIOUS
  <2>1. l = [x |-> x, error |-> e]
    BY FrameFacts
  <2> QED
    BY <2>1
<1>2. d = [t EXCEPT ![b] = [t[b] EXCEPT !.error = t[b].error]]
  BY DEF Marked
<1>3. t = [n \in DOMAIN t |-> t[n]]
  BY FrameFacts
<1>4. d = [t EXCEPT ![b] = t[b]]
  BY <1>1, <1>2
<1> QED
  BY <1>3, <1>4

\* A property of the builder b is set.
LEMMA StateLinked ==
  ASSUME NEW h, NEW s, NEW t, NEW x \in Values, NEW b, NEW sc, NEW tc, NEW p,
         State(h, s, t, ValueOf(x), b, 0, sc, tc, p), b # "none",
         NEW q \in Promises, Holds(h, x.val, q), x.val \notin {"undefined", "absent"},
         NEW k \in Keys, NEW o, o = t[b].x.val, o \in Obj,
         NEW g, Linked(h, g, o, k, x.val), Forest(g, HeldBy(s) \cup HeldIn(t))
  PROVE  State(g, s, t, {}, b, 0, sc, Promised(tc, b, Joined(tc[b], k, q)), p)
<1> PICK dc, v, K : dc = Promised(tc, b, Joined(tc[b], k, q)) /\ v = x.val /\ K = ValueOf(x)
  OBVIOUS
<1>1. /\ s \in Seq(FrameSet) /\ t \in FrameSet /\ Distinct(s) /\ Injective(t)
      /\ HeldBy(s) \cap HeldIn(t) = {} /\ K \cap (HeldBy(s) \cup HeldIn(t)) = {}
      /\ Forest(h, HeldBy(s) \cup HeldIn(t) \cup K)
  BY DEF State, Owns
<1>2. sc \in Seq(ScopeSet) /\ tc \in ScopeSet /\ Fits(h, t, tc, b, 0) /\ Matches(h, s, sc)
  BY DEF State
<1>3. b \in DOMAIN t /\ DOMAIN t = DOMAIN tc /\ b \in DOMAIN tc
  BY <1>2 DEF Fits
<1>4. tc[b] \in Promises /\ Joined(tc[b], k, q) \in Promises
  BY <1>2, <1>3, ScopeFacts, JoinedType
<1>5. Renewed(tc, b, Joined(tc[b], k, q), dc)
  BY <1>2, <1>3, <1>4, PromisedFacts
<1>6. o \in HeldIn(t)
  BY <1>3 DEF HeldIn
<1>7. ChangedAt(h, g, o)
  <2>1. o \in HeldBy(s) \cup HeldIn(t) \cup K
    BY <1>6
  <2> QED
    BY <1>1, <2>1, LinkedChanges
<1>8. o \notin HeldBy(s) /\ o # v
  BY <1>1, <1>6 DEF ValueOf
<1>9. \A m \in DOMAIN t \ {b} : t[m].x.val # o
  BY <1>1, <1>3 DEF Injective
<1>10. Holds(g, o, Joined(tc[b], k, q))
  <2>1. Holds(h, o, tc[b])
    BY <1>2, <1>3 DEF Fits
  <2> QED
    BY <2>1, <1>4, <1>7, <1>8, JoinedHolds
<1>11. ASSUME NEW m \in DOMAIN t
       PROVE  t[m].error = 0 /\ Holds(g, t[m].x.val, dc[m])
  <2>1. CASE m = b
    BY <1>2, <1>5, <1>10, <2>1 DEF Renewed, Fits
  <2>2. CASE m # b
    <3>1. tc[m] \in Promises /\ dc[m] = tc[m] /\ Holds(h, t[m].x.val, tc[m]) /\ t[m].error = 0
      BY <1>2, <1>3, <1>5, <2>2, ScopeFacts DEF Renewed, Fits
    <3> QED
      BY <1>7, <1>9, <2>2, <3>1, HoldsKept
  <2> QED
    BY <2>1, <2>2
<1>12. Fits(g, t, dc, b, 0)
  BY <1>3, <1>5, <1>11 DEF Fits, Renewed
<1>13. Matches(g, s, sc)
  BY <1>1, <1>2, <1>7, <1>8, MatchesKept
<1>14. g.global = h.global /\ h.global[TheContext] # o
  <2>1. o \in HeldBy(s) \cup HeldIn(t) \cup K
    BY <1>6
  <2>2. ~IsGlobal(h.global, o)
    BY <1>1, <2>1 DEF Forest, SoleOwner
  <2> QED
    BY <2>2, TheContextType DEF Linked, IsGlobal
<1>15. Holds(g, CtxOf(g), p)
  BY <1>7, <1>14, CtxKept DEF State
<1>16. Owns(g, s, t, {})
  <2>1. HeldBy(s) \cup HeldIn(t) \cup {} = HeldBy(s) \cup HeldIn(t)
    OBVIOUS
  <2> QED
    BY <1>1, <2>1 DEF Owns
<1> QED
  BY <1>5, <1>12, <1>13, <1>14, <1>15, <1>16 DEF State, Renewed

\* The Value x is consumed, whether the call fails or not.
LEMMA StateDropped ==
  ASSUME NEW h, NEW s, NEW t, NEW x \in Values, NEW b, NEW e, NEW sc, NEW tc, NEW p,
         State(h, s, t, ValueOf(x), b, e, sc, tc, p),
         NEW g, Untouched(h, g, (HeldBy(s) \cup HeldIn(t) \cup ValueOf(x)) \ {x.val})
  PROVE  State(g, s, t, {}, b, e, sc, tc, p)
<1> PICK v, K : v = x.val /\ K = ValueOf(x)
  OBVIOUS
<1>1. /\ s \in Seq(FrameSet) /\ t \in FrameSet /\ Distinct(s) /\ Injective(t)
      /\ HeldBy(s) \cap HeldIn(t) = {} /\ K \cap (HeldBy(s) \cup HeldIn(t)) = {}
  BY DEF State, Owns
<1>2. K = {v} \cap Obj /\ HeldBy(s) \subseteq Obj /\ HeldIn(t) \subseteq Obj
  BY DEF ValueOf, HeldBy, HeldIn
<1>3. (HeldBy(s) \cup HeldIn(t) \cup K) \ {v} = HeldBy(s) \cup HeldIn(t) \cup {}
  BY <1>1, <1>2
<1>4. Forest(g, HeldBy(s) \cup HeldIn(t) \cup {}) /\ g.prop = h.prop /\ g.global = h.global
  BY <1>3 DEF Untouched
<1>5. Owns(g, s, t, {})
  BY <1>1, <1>4 DEF Owns
<1> QED
  BY <1>4, <1>5, StateSame

LEMMA StateSet ==
  ASSUME NEW h, NEW s, NEW t, NEW x \in Values, NEW b, NEW sc, NEW tc, NEW p,
         State(h, s, t, ValueOf(x), b, 0, sc, tc, p), b # "none",
         NEW q \in Promises, Holds(h, x.val, q), x.val \notin {"undefined", "absent"},
         NEW k \in Keys, NEW r \in SetProperty(h, t[b].x, k, x), NEW a \in Nat, a # 0,
         NEW e, e = IF r.ok THEN 0 ELSE a
  PROVE  State(r.h, s, Marked(t, b, e), {}, b, e, sc, Promised(tc, b, Joined(tc[b], k, q)), p)
<1> PICK H, y, K : H = HeldBy(s) \cup HeldIn(t) \cup ValueOf(x) /\ y = t[b].x /\ K = ValueOf(x)
  OBVIOUS
<1>1. /\ t \in FrameSet /\ K \cap (HeldBy(s) \cup HeldIn(t)) = {} /\ Forest(h, H)
      /\ tc \in ScopeSet /\ b \in DOMAIN t /\ b \in DOMAIN tc
  BY DEF State, Owns, Fits
<1>2. y \in Values /\ tc[b] \in Promises /\ Joined(tc[b], k, q) \in Promises
  BY <1>1, FrameFacts, ScopeFacts, JoinedType
<1>3. Ours(H, x.val)
  BY DEF Ours, ValueOf
<1>4. y.val \in Obj => y.val \in HeldIn(t)
  BY <1>1 DEF HeldIn
<1>5. MaySet(h, H, y, x)
  BY <1>1, <1>4 DEF MaySet, ValueOf
<1>6. Consumes(h, H, y, k, x, r)
  BY <1>1, <1>2, <1>3, <1>5, SetPropertyOutcome
<1>7. CASE r.ok
  <2>1. y.val \in Obj /\ Linked(h, r.h, y.val, k, x.val) /\ Forest(r.h, H \ {x.val})
    BY <1>6, <1>7 DEF Consumes
  <2>2. H \ {x.val} = HeldBy(s) \cup HeldIn(t)
    BY <1>1 DEF ValueOf, HeldBy, HeldIn
  <2>3. State(r.h, s, t, {}, b, 0, sc, Promised(tc, b, Joined(tc[b], k, q)), p)
    BY <2>1, <2>2, StateLinked
  <2> QED
    BY <1>1, <1>7, <2>3, MarkedNot
<1>8. CASE ~r.ok
  <2>1. Untouched(h, r.h, H \ {x.val})
    BY <1>6, <1>8 DEF Consumes
  <2>2. State(r.h, s, t, {}, b, 0, sc, tc, p)
    BY <2>1, StateDropped
  <2> QED
    BY <1>2, <1>8, <2>2, StateMarked
<1> QED
  BY <1>7, <1>8

-----------------------------------------------------------------------------
(***************************************************************************)
(* The calls.  What is known is A before the call and B after it.          *)
(***************************************************************************)
Going(h, fr, e, A) ==
  Sound(h, fr) /\ Agree(h, fr, e, A) /\ h.global[TheContext] \in Obj

LEMMA KnowledgeFacts ==
  ASSUME NEW A \in Knowledge
  PROVE  A.open \in Names /\ A.scope \in Seq(ScopeSet) /\ A.ctx \in Promises
         /\ A = Known(A.open, A.scope, A.ctx)
BY DEF Knowledge, Known



LEMMA Opened ==
  ASSUME NEW h, NEW fr, NEW e \in Nat, NEW A \in Knowledge, A.scope # << >>, Going(h, fr, e, A)
  PROVE  /\ fr # << >> /\ fr = Append(Pop(fr), TopOf(fr))
         /\ State(h, Pop(fr), TopOf(fr), {}, A.open, e, Pop(A.scope), TopOf(A.scope), A.ctx)
<1> PICK sc : sc = A.scope
  OBVIOUS
<1>1. sc \in Seq(ScopeSet) /\ A.ctx \in Promises /\ sc # << >>
  BY KnowledgeFacts
<1>2. /\ fr # << >> /\ Matches(h, Pop(fr), Pop(sc)) /\ Fits(h, TopOf(fr), TopOf(sc), A.open, e)
      /\ Holds(h, CtxOf(h), A.ctx)
  BY <1>1 DEF Going, Agree
<1>3. fr = Append(Pop(fr), TopOf(fr))
  BY <1>2, PopFacts DEF Going, Sound, Frames
<1>4. Pop(sc) \in Seq(ScopeSet) /\ TopOf(sc) \in ScopeSet
  BY <1>1, PopType
<1>5. Owns(h, Pop(fr), TopOf(fr), {})
  BY <1>2, OwnsOpen DEF Going
<1> QED
  BY <1>1, <1>2, <1>3, <1>4, <1>5 DEF Going, State

LEMMA Closed ==
  ASSUME NEW h, NEW s, NEW t, NEW b, NEW e, NEW sc, NEW tc, NEW p,
         State(h, s, t, {}, b, e, sc, tc, p)
  PROVE  Going(h, Append(s, t), e, Known(b, Append(sc, tc), p))
<1> PICK A, fr, c : A = Known(b, Append(sc, tc), p) /\ fr = Append(s, t) /\ c = Append(sc, tc)
  OBVIOUS
<1>1. A.open = b /\ A.scope = c /\ A.ctx = p
  BY DEF Known
<1>2. /\ Owns(h, s, t, {}) /\ s \in Seq(FrameSet) /\ t \in FrameSet
      /\ sc \in Seq(ScopeSet) /\ tc \in ScopeSet
  BY DEF State, Owns
<1>3. fr # << >> /\ Pop(fr) = s /\ TopOf(fr) = t
  BY <1>2, PushFacts
<1>4. c # << >> /\ Pop(c) = sc /\ TopOf(c) = tc
  BY <1>2, PushFacts
<1>5. Sound(h, fr)
  BY <1>2, OwnsClose
<1>6. Agree(h, fr, e, A)
  BY <1>1, <1>3, <1>4 DEF State, Agree
<1> QED
  BY <1>5, <1>6 DEF State, Going

\* The call went on, or its error ends the match.
WentOn(B) ==
  /\ pc' = "inject" /\ phase' = phase /\ at' = at + 1 /\ error' = error /\ result' = result
  /\ Going(heap', frames', first', B) /\ first' \in {first, at}
Stopped ==
  /\ pc' = "unwind" /\ phase' = phase /\ at' = at /\ result' = result
  /\ Sound(heap', frames') /\ error' = first' /\ first' \in {first, at}

CallOutcome(A, B) == WentOn(B) \/ Stopped
Before(A, B) ==
  /\ A \in Knowledge /\ A.scope # << >> /\ Step(A, Call, B) /\ Going(heap, frames, first, A)
  /\ at \in Nat /\ at # 0 /\ first \in Nat /\ pc = "inject"

LEMMA TopFacts ==
  ASSUME NEW A, NEW B, Before(A, B)
  PROVE  /\ frames = Append(Popped, Top) /\ Popped = Pop(frames) /\ Top = TopOf(frames)
         /\ State(heap, Popped, Top, {}, A.open, first, Pop(A.scope), TopOf(A.scope), A.ctx)
BY Opened DEF Before, Popped, Top, Pop, TopOf

LEMMA EnterCall ==
  ASSUME NEW A, NEW B, Before(A, B), EnterFunction
  PROVE  CallOutcome(A, B)
<1> PICK c, s, t, sc, tc, p, e :
      /\ c = Call /\ s = Popped /\ t = Top /\ sc = Pop(A.scope) /\ tc = TopOf(A.scope)
      /\ p = A.ctx /\ e = [n \in {} |-> Local(Invalid)]
  OBVIOUS
<1>1. c.op = "enter" /\ Step(A, c, B) /\ frames' = Append(frames, e)
      /\ heap' = heap /\ first' = first /\ Continue /\ pc = "inject"
  BY DEF EnterFunction, Injecting, Before
<1>2. A.open = "none" /\ B = Known("none", Append(A.scope, EmptyScope), p)
  BY <1>1 DEF Step
<1>3. frames = Append(s, t) /\ State(heap, s, t, {}, "none", first, sc, tc, p)
  BY <1>2, TopFacts
<1>4. A.scope = Append(sc, tc)
  BY KnowledgeFacts, PopFacts DEF Before
<1>5. first = 0 /\ s \in Seq(FrameSet) /\ t \in FrameSet /\ sc \in Seq(ScopeSet) /\ tc \in ScopeSet
      /\ Matches(heap, s, sc) /\ Fits(heap, t, tc, "none", 0) /\ Owns(heap, s, t, {})
  BY <1>3 DEF State, Fits, Owns
<1>6. Matches(heap, Append(s, t), Append(sc, tc)) /\ Append(sc, tc) \in Seq(ScopeSet)
  BY <1>5, MatchesAppend, PushFacts
<1>7. Fits(heap, e, EmptyScope, "none", 0)
  BY HeldEmpty, EmptyScopeType DEF Fits
<1>8. State(heap, Append(s, t), e, {}, "none", 0, Append(sc, tc), EmptyScope, p)
  BY <1>3, <1>5, <1>6, <1>7, OwnsPush, EmptyScopeType DEF State
<1>9. Going(heap', frames', first', B)
  <2>1. Going(heap, Append(Append(s, t), e), 0, Known("none", Append(Append(sc, tc), EmptyScope), p))
    BY <1>8, Closed
  <2> QED
    BY <2>1, <1>1, <1>2, <1>3, <1>4, <1>5
<1> QED
  BY <1>1, <1>9 DEF CallOutcome, WentOn, Continue

LEMMA StateForest ==
  ASSUME NEW h, NEW s, NEW t, NEW K, NEW b, NEW e, NEW sc, NEW tc, NEW p,
         State(h, s, t, K, b, e, sc, tc, p)
  PROVE  /\ Forest(h, HeldBy(s) \cup HeldIn(t) \cup K) /\ t \in FrameSet
         /\ Owns(h, s, t, K) /\ DOMAIN t = DOMAIN tc
         /\ IF b = "none" THEN e = 0 ELSE b \in DOMAIN t /\ t[b].error = e
BY DEF State, Owns, Fits

\* A Value was made, which no local has yet.
LEMMA StateReturned ==
  ASSUME NEW h, NEW s, NEW t, NEW b, NEW e, NEW sc, NEW tc, NEW p,
         State(h, s, t, {}, b, e, sc, tc, p), NEW r, Returns(h, HeldBy(s) \cup HeldIn(t), r)
  PROVE  /\ r.ok => r.x \in Values /\ State(r.h, s, t, ValueOf(r.x), b, e, sc, tc, p)
         /\ ~r.ok => State(r.h, s, t, {}, b, e, sc, tc, p)
<1>1. r.h.prop = h.prop /\ r.h.global = h.global
  BY DEF Returns, Untouched
<1>2. CASE r.ok
  <2>1. r.x \in Values /\ Owns(r.h, s, t, ValueOf(r.x))
    BY <1>2, OwnsReturned DEF State
  <2> QED
    BY <1>1, <1>2, <2>1, StateSame
<1>3. CASE ~r.ok
  <2>1. Owns(r.h, s, t, {})
    BY <1>3, OwnsReturned DEF State
  <2> QED
    BY <1>1, <1>3, <2>1, StateSame
<1> QED
  BY <1>2, <1>3

LEMMA StateSound ==
  ASSUME NEW h, NEW s, NEW t, NEW b, NEW e, NEW sc, NEW tc, NEW p,
         State(h, s, t, {}, b, e, sc, tc, p)
  PROVE  Sound(h, Append(s, t))
BY OwnsClose DEF State

LEMMA CreateCall ==
  ASSUME NEW A, NEW B, Before(A, B), CreateBuilder
  PROVE  CallOutcome(A, B)
<1> PICK c, s, t, sc, tc, p :
      /\ c = Call /\ s = Popped /\ t = Top /\ sc = Pop(A.scope) /\ tc = TopOf(A.scope)
      /\ p = A.ctx
  OBVIOUS
<1>1. c.op = "create" /\ Step(A, c, B) /\ pc = "inject"
  BY DEF CreateBuilder, Injecting, Before
<1>2. PICK r \in Make(heap, TheContext, "object") :
        /\ heap' = r.h
        /\ IF r.ok THEN /\ SetTop(With(t, c.to, Local(r.x)))
                        /\ Continue /\ UNCHANGED first
           ELSE Fails(at) /\ UNCHANGED frames
  BY DEF CreateBuilder
<1>3. /\ A.open = "none" /\ c.to \in Names \ {"none"} /\ c.to \notin DOMAIN tc
      /\ B = Known(c.to, Append(sc, With(tc, c.to, NoPromise)), p)
  BY <1>1 DEF Step
<1>4. frames = Append(s, t) /\ State(heap, s, t, {}, "none", first, sc, tc, p)
  BY <1>3, TopFacts
<1>5. first = 0 /\ c.to \notin DOMAIN t
  BY <1>3, <1>4 DEF State, Fits
<1>6. Returns(heap, HeldBy(s) \cup HeldIn(t), r)
  <2>1. Forest(heap, HeldBy(s) \cup HeldIn(t))
    BY <1>4, OwnsForest DEF State
  <2> QED
    BY <2>1, MakeOutcome, TheContextType DEF Kinds
<1>7. CASE r.ok
  <2>1. r.x \in Values /\ State(r.h, s, t, ValueOf(r.x), "none", 0, sc, tc, p)
    BY <1>4, <1>5, <1>6, <1>7, StateReturned
  <2>2. State(r.h, s, With(t, c.to, Local(r.x)), {}, c.to, 0, sc, With(tc, c.to, NoPromise), p)
    BY <1>3, <1>5, <2>1, StatePut, NoPromiseFacts
  <2>3. Going(r.h, Append(s, With(t, c.to, Local(r.x))), 0,
              Known(c.to, Append(sc, With(tc, c.to, NoPromise)), p))
    BY <2>2, Closed
  <2>4. frames' = Append(s, With(t, c.to, Local(r.x))) /\ heap' = r.h /\ first' = 0 /\ Continue
    BY <1>2, <1>5, <1>7 DEF SetTop
  <2> QED
    BY <1>1, <1>3, <1>5, <2>3, <2>4 DEF CallOutcome, WentOn, Continue
<1>8. CASE ~r.ok
  <2>1. Sound(r.h, Append(s, t))
    BY <1>4, <1>6, <1>8, StateReturned, StateSound
  <2> QED
    BY <1>2, <1>4, <1>5, <1>8, <2>1 DEF CallOutcome, Stopped, Fails
<1> QED
  BY <1>7, <1>8

\* A setter went on, with its error kept if it has one.
LEMMA KeptOn ==
  ASSUME NEW A, NEW B, Before(A, B), NEW d, NEW e, e \in {0, at}, Keep(d, e),
         NEW b, b = Call.on, NEW sc, NEW dc, NEW p, B = Known(b, Append(sc, dc), p),
         NEW f, f = IF first = 0 THEN e ELSE first,
         State(heap', Popped, Marked(d, b, e), {}, b, f, sc, dc, p)
  PROVE  CallOutcome(A, B)
<1>1. frames' = Append(Popped, Marked(d, b, e)) /\ first' = f /\ Continue
  BY DEF Keep, SetTop, Marked
<1>2. Going(heap', Append(Popped, Marked(d, b, e)), f, B)
  BY Closed
<1>3. f \in {first, at} /\ pc = "inject"
  BY DEF Before
<1> QED
  BY <1>1, <1>2, <1>3 DEF CallOutcome, WentOn, Continue

LEMMA FieldCall ==
  ASSUME NEW A, NEW B, Before(A, B), SetField
  PROVE  CallOutcome(A, B)
<1> PICK c, s, t, sc, tc, p, b, k :
      /\ c = Call /\ s = Popped /\ t = Top /\ sc = Pop(A.scope) /\ tc = TopOf(A.scope)
      /\ p = A.ctx /\ b = Call.on /\ k = Call.key
  OBVIOUS
<1> PICK q, dc : q = Field(tc[b], k) /\ dc = Promised(tc, b, q)
  OBVIOUS
<1>1. c.op = "field" /\ Step(A, c, B) /\ at \in Nat /\ at # 0 /\ first \in Nat
  BY DEF SetField, Injecting, Before
<1>2. /\ A.open = b /\ b # "none" /\ k \in Keys /\ Call.kind \in {"string", "int"}
      /\ B = Known(b, Append(sc, dc), p)
  BY <1>1 DEF Step
<1>3. State(heap, s, t, {}, b, first, sc, tc, p)
  BY <1>2, TopFacts
<1>4. t \in FrameSet /\ b \in DOMAIN t /\ t[b].error = first /\ tc[b] \in Promises
  BY <1>2, <1>3, ScopeFacts DEF State, Fits, Owns
<1>5. q \in Promises
  BY <1>2, <1>4, JoinedType, NoPromiseFacts DEF Field
<1>6. CASE first # 0
  <2>1. Keep(t, 0) /\ heap' = heap
    BY <1>4, <1>6 DEF SetField
  <2>2. State(heap, s, t, {}, b, first, sc, dc, p)
    BY <1>3, <1>5, <1>6, StateStuck
  <2>3. State(heap', s, Marked(t, b, 0), {}, b, first, sc, dc, p)
    BY <1>4, <2>1, <2>2, MarkedNot
  <2> QED
    BY <1>2, <1>6, <2>1, <2>3, KeptOn
<1>7. CASE first = 0
  <2>1. PICK v \in NewField :
          IF ~v.ok THEN heap' = v.h /\ Keep(t, at)
          ELSE \E r \in SetOn(v.h, v.x) : heap' = r.h /\ Keep(t, IF r.ok THEN 0 ELSE at)
    BY <1>4, <1>7 DEF SetField
  <2>2. Returns(heap, HeldBy(s) \cup HeldIn(t), v)
    <3>1. Forest(heap, HeldBy(s) \cup HeldIn(t))
      BY <1>3, OwnsForest DEF State
    <3>2. v \in MakeImmediate(heap, TheContext, "int") \/ v \in Make(heap, TheContext, "string")
      BY <1>2 DEF NewField
    <3> QED
      BY <3>1, <3>2, MakeOutcome, ImmediateOutcome, TheContextType DEF Kinds
  <2>3. CASE ~v.ok
    <3>1. heap' = v.h /\ Keep(t, at)
      BY <2>1, <2>3
    <3>2. State(v.h, s, t, {}, b, first, sc, tc, p)
      BY <1>3, <2>2, <2>3, StateReturned
    <3>3. State(heap', s, Marked(t, b, at), {}, b, at, sc, dc, p)
      BY <1>1, <1>2, <1>5, <3>1, <3>2, StateMarked
    <3> QED
      BY <1>2, <1>7, <3>1, <3>3, KeptOn
  <2>4. CASE v.ok
    <3>1. PICK r \in SetOn(v.h, v.x) : heap' = r.h /\ Keep(t, IF r.ok THEN 0 ELSE at)
      BY <2>1, <2>4
    <3> PICK e : e = IF r.ok THEN 0 ELSE at
      OBVIOUS
    <3>2. v.x \in Values /\ State(v.h, s, t, ValueOf(v.x), b, 0, sc, tc, p)
      BY <1>3, <1>7, <2>2, <2>4, StateReturned
    <3>3. v.x.val \notin {"undefined", "absent"} /\ r \in SetProperty(v.h, t[b].x, k, v.x)
      BY <2>2, <2>4 DEF Returns, SetOn
    <3>4. State(r.h, s, Marked(t, b, e), {}, b, e, sc, dc, p)
      BY <1>1, <1>2, <3>2, <3>3, StateSet, NoPromiseFacts DEF Field
    <3> QED
      BY <1>2, <1>7, <3>1, <3>4, KeptOn
  <2> QED
    BY <2>3, <2>4
<1> QED
  BY <1>6, <1>7

LEMMA ObjectCall ==
  ASSUME NEW A, NEW B, Before(A, B), SetObjectOf
  PROVE  CallOutcome(A, B)
<1> PICK c, s, t, sc, tc, p, b, k, n :
      /\ c = Call /\ s = Popped /\ t = Top /\ sc = Pop(A.scope) /\ tc = TopOf(A.scope)
      /\ p = A.ctx /\ b = Call.on /\ k = Call.key /\ n = Call.of
  OBVIOUS
<1> PICK x, d, mc, q, dc :
      /\ x = t[n].x /\ d = Moved(t, n) /\ mc = Promised(tc, n, NoPromise)
      /\ q = Joined(tc[b], k, tc[n]) /\ dc = Promised(mc, b, q)
  OBVIOUS
<1>1. c.op = "object" /\ Step(A, c, B) /\ at \in Nat /\ at # 0 /\ first \in Nat
  BY DEF SetObjectOf, Injecting, Before
<1>2. /\ A.open = b /\ b # "none" /\ k \in Keys /\ n \in DOMAIN tc /\ n # b
      /\ B = Known(b, Append(sc, dc), p)
  BY <1>1 DEF Step
<1>3. State(heap, s, t, {}, b, first, sc, tc, p)
  BY <1>2, TopFacts
<1>4. /\ t \in FrameSet /\ b \in DOMAIN t /\ t[b].error = first /\ n \in DOMAIN t
      /\ Injective(t) /\ tc \in ScopeSet
      /\ Holds(heap, x.val, tc[n])
  BY <1>2, <1>3 DEF State, Fits, Owns
<1>5. x \in Values /\ tc[b] \in Promises /\ tc[n] \in Promises /\ q \in Promises
  BY <1>2, <1>3, <1>4, FrameFacts, ScopeFacts, JoinedType DEF State, Fits
<1>6. State(heap, s, d, ValueOf(x), b, first, sc, mc, p)
  BY <1>2, <1>3, <1>4, StateMoved
<1>7. d \in FrameSet /\ b \in DOMAIN d /\ d[b] = t[b]
  BY <1>2, <1>4, MovedFacts
<1>8. mc[b] = tc[b]
  BY <1>2, <1>4, PromisedFacts, NoPromiseFacts DEF Renewed, Promised
<1>9. ASSUME heap' = Destroy(heap, x)
      PROVE  State(heap', s, d, {}, b, first, sc, mc, p)
  <2> PICK H : H = HeldBy(s) \cup HeldIn(d) \cup ValueOf(x)
    OBVIOUS
  <2>1. Forest(heap, H) /\ Ours(H, x.val)
    BY <1>6 DEF State, Owns, Ours, ValueOf
  <2>2. Untouched(heap, heap', H \ {x.val})
    BY <1>5, <1>9, <2>1, DestroyFrees, FreedUntouched
  <2> QED
    BY <1>5, <1>6, <2>2, StateDropped
<1>10. CASE first # 0
  <2>1. Keep(d, 0) /\ heap' = Destroy(heap, x)
    BY <1>4, <1>10 DEF SetObjectOf, Moved
  <2>2. State(heap', s, d, {}, b, first, sc, dc, p)
    BY <1>5, <1>9, <1>10, <2>1, StateStuck
  <2>3. State(heap', s, Marked(d, b, 0), {}, b, first, sc, dc, p)
    BY <1>7, <2>2, MarkedNot
  <2> QED
    BY <1>2, <1>10, <2>1, <2>3, KeptOn
<1>11. CASE first = 0 /\ ~IsObject(heap, x)
  <2>1. Keep(d, at) /\ heap' = Destroy(heap, x)
    BY <1>4, <1>11 DEF SetObjectOf, Moved
  <2>2. State(heap', s, Marked(d, b, at), {}, b, at, sc, dc, p)
    BY <1>1, <1>2, <1>5, <1>9, <2>1, StateMarked
  <2> QED
    BY <1>2, <1>11, <2>1, <2>2, KeptOn
<1>12. CASE first = 0 /\ IsObject(heap, x)
  <2>1. PICK r \in SetOn(heap, x) : heap' = r.h /\ Keep(d, IF r.ok THEN 0 ELSE at)
    BY <1>4, <1>12 DEF SetObjectOf, Moved
  <2> PICK e : e = IF r.ok THEN 0 ELSE at
    OBVIOUS
  <2>2. x.val \notin {"undefined", "absent"} /\ r \in SetProperty(heap, d[b].x, k, x)
    BY <1>7, <1>12, NotObjects DEF IsObject, SetOn
  <2>3. State(heap, s, d, ValueOf(x), b, 0, sc, mc, p)
    BY <1>6, <1>12
  <2>4. State(r.h, s, Marked(d, b, e), {}, b, e, sc, Promised(mc, b, Joined(mc[b], k, tc[n])), p)
    BY <1>1, <1>2, <1>4, <1>5, <2>2, <2>3, StateSet
  <2>5. State(r.h, s, Marked(d, b, e), {}, b, e, sc, dc, p)
    BY <1>8, <2>4
  <2> QED
    BY <1>2, <1>12, <2>1, <2>5, KeptOn
<1> QED
  BY <1>10, <1>11, <1>12

WithLast(s, e) == [s EXCEPT ![Len(s)] = e]

LEMMA ReplacedLast ==
  ASSUME NEW S, NEW s \in Seq(S), s # << >>, NEW e \in S
  PROVE  WithLast(s, e) = Append(Pop(s), e)
<1> PICK a, l, n : a = Append(Pop(s), e) /\ l = [s EXCEPT ![Len(s)] = e] /\ n = Len(s)
  OBVIOUS
<1>1. /\ Pop(s) \in Seq(S) /\ n \in Nat /\ n # 0 /\ Len(Pop(s)) = n - 1
      /\ \A i \in 1 .. n - 1 : Pop(s)[i] = s[i]
  BY PopType
<1>2. /\ a \in Seq(S) /\ Len(a) = Len(Pop(s)) + 1 /\ a[Len(Pop(s)) + 1] = e
      /\ \A i \in 1 .. Len(Pop(s)) : a[i] = Pop(s)[i]
  BY <1>1, PushFacts
<1>3. l \in Seq(S) /\ Len(l) = n /\ l[n] = e /\ \A i \in 1 .. n - 1 : l[i] = s[i]
  BY <1>1
<1>4. Len(a) = n /\ a[n] = e /\ \A i \in 1 .. n - 1 : a[i] = s[i]
  BY <1>1, <1>2, SMTT(30)
<1>5. \A i \in 1 .. n : a[i] = l[i]
  <2> TAKE i \in 1 .. n
  <2>1. i = n \/ i \in 1 .. n - 1
    BY <1>1
  <2> QED
    BY <1>3, <1>4, <2>1
<1> QED
  BY <1>2, <1>3, <1>4, <1>5, SeqEqual DEF WithLast

\* The function is left and the Value x is handed to its caller.
LEMMA StateLeft ==
  ASSUME NEW h, NEW s, NEW d, NEW t, NEW K, NEW sc, NEW dc, NEW tc, NEW p,
         s \in Seq(FrameSet), d \in FrameSet, sc \in Seq(ScopeSet), dc \in ScopeSet,
         State(h, Append(s, d), t, K, "none", 0, Append(sc, dc), tc, p)
  PROVE  /\ State(Leave(h, t), s, d, K, "none", 0, sc, dc, p)
         /\ Leave(h, t).prop = h.prop
<1> PICK g : g = Leave(h, t)
  OBVIOUS
<1>1. Owns(g, s, d, K)
  BY OwnsReturn DEF State
<1>2. g.prop = h.prop /\ g.global = h.global
  BY OwnsLeave DEF State, Untouched
<1>3. Matches(h, s, sc) /\ Fits(h, d, dc, "none", 0)
  BY MatchesAppend DEF State
<1>4. Owns(h, Append(s, d), t, K) /\ p \in Promises /\ Holds(h, CtxOf(h), p)
      /\ h.global[TheContext] \in Obj
  BY DEF State
<1>5. Holds(g, CtxOf(g), p)
  <2>1. CtxOf(g) = CtxOf(h)
    BY <1>2 DEF CtxOf, GetKey
  <2> QED
    BY <1>2, <1>4, <2>1, HoldsSame
<1>6. Matches(g, s, sc) /\ Fits(g, d, dc, "none", 0)
  BY <1>2, <1>3, MatchesSame, FitsSame
<1> QED
  BY <1>1, <1>2, <1>4, <1>5, <1>6 DEF State

LEMMA BuildCall ==
  ASSUME NEW A, NEW B, Before(A, B), BuildObject
  PROVE  CallOutcome(A, B)
<1> PICK c, s, t, sc, tc, p, n, m :
      /\ c = Call /\ s = Popped /\ t = Top /\ sc = Pop(A.scope) /\ tc = TopOf(A.scope)
      /\ p = A.ctx /\ n = Call.of /\ m = Call.to
  OBVIOUS
<1> PICK x, d, mc, q :
      x = t[n].x /\ d = Moved(t, n) /\ mc = Promised(tc, n, NoPromise) /\ q = tc[n]
  OBVIOUS
<1>1. c.op \in {"build", "return"} /\ Step(A, c, B) /\ at \in Nat /\ at # 0 /\ first \in Nat
      /\ pc = "inject" /\ Going(heap, frames, first, A)
  BY DEF BuildObject, Injecting, Before
<1>2. A.open = n /\ n # "none" /\ m \in Names
  BY <1>1 DEF Step
<1>3. State(heap, s, t, {}, n, first, sc, tc, p)
  BY <1>2, TopFacts
<1>4. /\ t \in FrameSet /\ n \in DOMAIN t /\ t[n].error = first /\ n \in DOMAIN tc
      /\ Injective(t) /\ tc \in ScopeSet /\ DOMAIN t = DOMAIN tc
      /\ first = 0 => Holds(heap, x.val, q)
  BY <1>2, <1>3 DEF State, Fits, Owns
<1>5. x \in Values /\ q \in Promises
  BY <1>4, FrameFacts, ScopeFacts
<1>6. CASE first # 0
  <2>1. Fails(first) /\ heap' = heap /\ frames' = frames
    BY <1>4, <1>6 DEF BuildObject, BuildOf
  <2> QED
    BY <1>1, <1>6, <2>1 DEF CallOutcome, Stopped, Fails, Going
<1>7. CASE first = 0
  <2>1. State(heap, s, d, ValueOf(x), "none", 0, sc, mc, p)
    BY <1>3, <1>4, <1>7, StateMoved, StateIdle
  <2>2. DOMAIN d = DOMAIN t
    BY <1>4, MovedFacts
  <2>3. CASE c.op = "build"
    <3>1. m \notin DOMAIN tc /\ B = Known("none", Append(sc, With(mc, m, q)), p)
      BY <1>1, <2>3 DEF Step
    <3>2. State(heap, s, With(d, m, Local(x)), {}, "none", 0, sc, With(mc, m, q), p)
      BY <1>2, <1>4, <1>5, <1>7, <2>1, <2>2, <3>1, StatePut
    <3>3. Going(heap, Append(s, With(d, m, Local(x))), 0, B)
      BY <3>1, <3>2, Closed
    <3>4. BuildOf(FALSE)
      BY <2>3 DEF BuildObject, Injecting
    <3>5. /\ frames' = Append(s, With(d, m, Local(x))) /\ heap' = heap
          /\ Continue /\ first' = first
      BY <1>4, <1>7, <3>4 DEF BuildOf, SetTop, Moved
    <3> QED
      BY <1>1, <1>7, <3>3, <3>5 DEF CallOutcome, WentOn, Continue
  <2>4. CASE c.op = "return"
    <3>1. sc # << >> /\ m \notin DOMAIN TopOf(sc)
          /\ B = Known("none", Append(Pop(sc), With(TopOf(sc), m, q)), p)
      BY <1>1, <2>4 DEF Step, Replace
    <3> PICK s0, d0, sc0, dc0 : s0 = Pop(s) /\ d0 = TopOf(s) /\ sc0 = Pop(sc) /\ dc0 = TopOf(sc)
      OBVIOUS
    <3>2. s \in Seq(FrameSet) /\ sc \in Seq(ScopeSet) /\ Len(s) = Len(sc)
      BY <2>1 DEF State, Owns, Matches
    <3>3. s # << >>
      BY <3>1, <3>2
    <3>4. /\ s = Append(s0, d0) /\ s0 \in Seq(FrameSet) /\ d0 \in FrameSet
          /\ sc = Append(sc0, dc0) /\ sc0 \in Seq(ScopeSet) /\ dc0 \in ScopeSet
      BY <3>1, <3>2, <3>3, PopFacts
    <3> PICK g : g = Leave(heap, d)
      OBVIOUS
    <3>5. State(g, s0, d0, ValueOf(x), "none", 0, sc0, dc0, p) /\ g.prop = heap.prop
      <4>1. State(heap, Append(s0, d0), d, ValueOf(x), "none", 0, Append(sc0, dc0), mc, p)
        BY <2>1, <3>4
      <4> QED
        BY <3>4, <4>1, StateLeft
    <3>6. m \notin DOMAIN d0 /\ Holds(g, x.val, q)
      BY <1>4, <1>7, <3>1, <3>5, HoldsSame DEF State, Fits
    <3>7. State(g, s0, With(d0, m, Local(x)), {}, "none", 0, sc0, With(dc0, m, q), p)
      BY <1>2, <1>5, <3>5, <3>6, StatePut
    <3>8. Going(g, Append(s0, With(d0, m, Local(x))), 0, B)
      BY <3>1, <3>7, Closed
    <3>9. With(d0, m, Local(x)) \in FrameSet
      BY <3>7 DEF State, Owns
    <3>10. BuildOf(TRUE)
      BY <2>4 DEF BuildObject, Injecting
    <3>11. /\ frames' = [s EXCEPT ![Len(s)] = With(@, m, Local(x))] /\ heap' = g
           /\ Continue /\ first' = first
      BY <1>4, <1>7, <3>10 DEF BuildOf, Moved
    <3>12. frames' = Append(s0, With(d0, m, Local(x)))
      <4> PICK w : w = With(d0, m, Local(x))
        OBVIOUS
      <4>1. frames' = WithLast(s, w)
        BY <3>11 DEF TopOf, WithLast
      <4>2. w \in FrameSet
        BY <3>9
      <4>3. WithLast(s, w) = Append(Pop(s), w)
        BY <3>2, <3>3, <4>2, ReplacedLast
      <4> QED
        BY <4>1, <4>3
    <3> QED
      BY <1>1, <1>7, <3>8, <3>11, <3>12 DEF CallOutcome, WentOn, Continue
  <2> QED
    BY <1>1, <2>3, <2>4
<1> QED
  BY <1>6, <1>7

LEMMA AgreeBetween ==
  ASSUME NEW h, NEW s \in Seq(FrameSet), NEW sc \in Seq(ScopeSet), Matches(h, s, sc),
         NEW p, Holds(h, CtxOf(h), p), NEW A, A = Known("none", sc, p)
  PROVE  Agree(h, s, 0, A)
<1>1. A.open = "none" /\ A.scope = sc /\ A.ctx = p
  BY DEF Known
<1>2. Len(s) = Len(sc)
  BY DEF Matches
<1>3. CASE s = << >>
  <2>1. sc = << >>
    BY <1>2, <1>3
  <2> QED
    BY <1>1, <1>3, <2>1 DEF Agree
<1>4. CASE s # << >>
  <2>1. sc # << >>
    BY <1>2, <1>4
  <2>2. /\ Pop(s) \in Seq(FrameSet) /\ TopOf(s) \in FrameSet /\ s = Append(Pop(s), TopOf(s))
        /\ Pop(sc) \in Seq(ScopeSet) /\ TopOf(sc) \in ScopeSet /\ sc = Append(Pop(sc), TopOf(sc))
    BY <1>4, <2>1, PopFacts
  <2>3. Matches(h, Append(Pop(s), TopOf(s)), Append(Pop(sc), TopOf(sc)))
    BY <2>2
  <2>4. Matches(h, Pop(s), Pop(sc)) /\ Fits(h, TopOf(s), TopOf(sc), "none", 0)
    BY <2>2, <2>3, MatchesAppend
  <2> QED
    BY <1>1, <1>4, <2>1, <2>4 DEF Agree
<1> QED
  BY <1>3, <1>4

\* The ctx object was injected.
LEMMA StateAdded ==
  ASSUME NEW h, NEW s, NEW t, NEW x \in Values, NEW sc, NEW tc, NEW p,
         State(h, s, t, ValueOf(x), "none", 0, sc, tc, p),
         NEW q \in Promises, Holds(h, x.val, q), x.val \in Obj,
         NEW g, Linked(h, g, h.global[TheContext], "ctx", x.val),
         Forest(g, (HeldBy(s) \cup HeldIn(t) \cup ValueOf(x)) \ {x.val})
  PROVE  Going(Leave(g, t), s, 0, Known("none", sc, q))
<1> PICK o, v, H, f : /\ o = h.global[TheContext] /\ v = x.val /\ f = Leave(g, t)
                      /\ H = HeldBy(s) \cup HeldIn(t) \cup ValueOf(x)
  OBVIOUS
<1>1. /\ s \in Seq(FrameSet) /\ t \in FrameSet /\ Distinct(s) /\ Injective(t)
      /\ HeldBy(s) \cap HeldIn(t) = {} /\ ValueOf(x) \cap (HeldBy(s) \cup HeldIn(t)) = {}
      /\ Forest(h, H) /\ sc \in Seq(ScopeSet) /\ Matches(h, s, sc) /\ o \in Obj
  BY DEF State, Owns
<1>2. IsGlobal(h.global, o)
  BY TheContextType DEF IsGlobal
<1>3. ChangedAt(h, g, o)
  BY <1>1, <1>2, LinkedChanges
<1>4. o \notin H /\ v \in H
  BY <1>1, <1>2 DEF Forest, SoleOwner, ValueOf
<1>5. H \ {v} = HeldBy(s) \cup HeldIn(t) \cup {}
  BY <1>1 DEF ValueOf, HeldBy, HeldIn
<1>6. Owns(g, s, t, {})
  <2>1. Forest(g, HeldBy(s) \cup HeldIn(t) \cup {})
    BY <1>5
  <2> QED
    BY <1>1, <2>1 DEF Owns
<1>7. Untouched(g, f, HeldBy(s) \cup {}) /\ Frames(s)
  BY <1>6, OwnsLeave
<1>8. Sound(f, s)
  <2>1. HeldBy(s) \cup {} = HeldBy(s)
    OBVIOUS
  <2> QED
    BY <1>7, <2>1 DEF Sound, Untouched
<1>9. g.global = h.global /\ f.prop = g.prop /\ f.global = g.global
  BY <1>7 DEF Untouched, Linked
<1>10. Matches(f, s, sc)
  <2>1. Matches(g, s, sc)
    BY <1>1, <1>3, <1>4, MatchesKept
  <2> QED
    BY <1>9, <2>1, MatchesSame
<1>11. Holds(f, v, q)
  <2>1. Holds(g, v, q)
    BY <1>3, <1>4, HoldsKept
  <2> QED
    BY <1>9, <2>1, HoldsSame
<1>12. CtxOf(f) = v
  <2>1. g.prop[o]["ctx"] = v
    BY <1>1, MatchAssumption DEF Linked
  <2> QED
    BY <1>1, <1>9, <2>1, NotObjects DEF CtxOf, GetKey
<1>13. Agree(f, s, 0, Known("none", sc, q))
  BY <1>1, <1>10, <1>11, <1>12, AgreeBetween
<1> QED
  BY <1>1, <1>8, <1>9, <1>13 DEF Going

LEMMA AddCall ==
  ASSUME NEW A, NEW B, Before(A, B), InjectContext
  PROVE  CallOutcome(A, B)
<1> PICK c, s, t, sc, tc, p, n :
      /\ c = Call /\ s = Popped /\ t = Top /\ sc = Pop(A.scope) /\ tc = TopOf(A.scope)
      /\ p = A.ctx /\ n = Call.of
  OBVIOUS
<1> PICK x, d, mc, q, H, o :
      /\ x = t[n].x /\ d = Moved(t, n) /\ mc = Promised(tc, n, NoPromise) /\ q = tc[n]
      /\ H = HeldBy(s) \cup HeldIn(d) \cup ValueOf(x) /\ o = heap.global[TheContext]
  OBVIOUS
<1>1. c.op = "add" /\ Step(A, c, B) /\ at \in Nat /\ at # 0 /\ pc = "inject"
  BY DEF InjectContext, Injecting, Before
<1>2. A.open = "none" /\ n \in DOMAIN tc /\ B = Known("none", sc, q)
  BY <1>1 DEF Step
<1>3. State(heap, s, t, {}, "none", first, sc, tc, p)
  BY <1>2, TopFacts
<1>4. /\ t \in FrameSet /\ n \in DOMAIN t /\ first = 0 /\ n \in DOMAIN tc
      /\ tc \in ScopeSet /\ Holds(heap, x.val, q) /\ o \in Obj
  BY <1>2, <1>3 DEF State, Fits, Owns
<1>5. x \in Values /\ q \in Promises
  BY <1>4, FrameFacts, ScopeFacts
<1>6. State(heap, s, d, ValueOf(x), "none", 0, sc, mc, p)
  BY <1>3, <1>4, StateMoved
<1>7. Forest(heap, H) /\ Ours(H, x.val)
  BY <1>6 DEF State, Owns, Ours, ValueOf
<1>8. PICK r \in IF ~IsObject(heap, x) THEN Refused(heap, x)
                 ELSE AddGlobalValue(heap, TheContext, x) :
        IF r.ok THEN /\ heap' = Leave(r.h, d) /\ frames' = s
                     /\ Continue /\ UNCHANGED first
        ELSE heap' = r.h /\ SetTop(d) /\ Fails(at)
  BY DEF InjectContext, Moved
<1>9. /\ ~r.ok => Untouched(heap, r.h, H \ {x.val})
      /\ r.ok => x.val \in Obj /\ Linked(heap, r.h, o, "ctx", x.val) /\ Forest(r.h, H \ {x.val})
  <2>1. CASE ~IsObject(heap, x)
    BY <1>5, <1>7, <1>8, <2>1, RefusedOutcome
  <2>2. CASE IsObject(heap, x)
    <3> PICK y : y = [ctx |-> TheContext, val |-> heap.global[TheContext]]
      OBVIOUS
    <3>1. Consumes(heap, H, y, "ctx", x, r)
      BY <1>4, <1>5, <1>7, <1>8, <2>2, AddGlobalValueOutcome
    <3> QED
      BY <2>2, <3>1 DEF Consumes, IsObject
  <2> QED
    BY <2>1, <2>2
<1>10. CASE r.ok
  <2>1. Going(Leave(r.h, d), s, 0, B)
    BY <1>2, <1>4, <1>5, <1>6, <1>9, <1>10, StateAdded
  <2>2. heap' = Leave(r.h, d) /\ frames' = s /\ Continue /\ first' = first
    BY <1>8, <1>10
  <2> QED
    BY <1>1, <1>4, <2>1, <2>2 DEF CallOutcome, WentOn, Continue
<1>11. CASE ~r.ok
  <2>1. State(r.h, s, d, {}, "none", 0, sc, mc, p)
    BY <1>5, <1>6, <1>9, <1>11, StateDropped
  <2>2. Sound(r.h, Append(s, d))
    BY <2>1, StateSound
  <2> QED
    BY <1>4, <1>8, <1>11, <2>2 DEF CallOutcome, Stopped, Fails, SetTop
<1> QED
  BY <1>10, <1>11

-----------------------------------------------------------------------------
(***************************************************************************)
(* The code of context_injector.cpp is well typed: every call finds what   *)
(* it asks for, and what is known after the last one is that the whole ctx *)
(* object was injected.                                                    *)
(***************************************************************************)
CallSet ==
  {Enter} \cup {Create(b) : b \in Names}
    \cup {SetString(b, k) : b \in Names, k \in Keys}
    \cup {SetInt32(b, k) : b \in Names, k \in Keys}
    \cup {SetObject(b, k, x) : b \in Names, k \in Keys, x \in Names}
    \cup {ReturnBuilt(b, to) : b \in Names, to \in Names}
    \cup {Build(b, to) : b \in Names, to \in Names}
    \cup {AddObject(x) : x \in Names}

LEMMA CallSetFacts ==
  /\ Enter \in CallSet
  /\ \A b \in Names : Create(b) \in CallSet /\ AddObject(b) \in CallSet
  /\ \A b \in Names, k \in Keys : SetString(b, k) \in CallSet /\ SetInt32(b, k) \in CallSet
  /\ \A b \in Names, k \in Keys, x \in Names : SetObject(b, k, x) \in CallSet
  /\ \A b \in Names, to \in Names : ReturnBuilt(b, to) \in CallSet /\ Build(b, to) \in CallSet
<1>1. Enter \in CallSet
  BY DEF CallSet
<1>2. \A b \in Names : Create(b) \in CallSet
  BY DEF CallSet
<1>3. \A b \in Names : AddObject(b) \in CallSet
  BY DEF CallSet
<1>4. \A b \in Names, k \in Keys : SetString(b, k) \in CallSet
  BY DEF CallSet
<1>5. \A b \in Names, k \in Keys : SetInt32(b, k) \in CallSet
  BY DEF CallSet
<1>6. \A b \in Names, k \in Keys, x \in Names : SetObject(b, k, x) \in CallSet
  BY DEF CallSet
<1>7. \A b \in Names, to \in Names : ReturnBuilt(b, to) \in CallSet
  BY DEF CallSet
<1>8. \A b \in Names, to \in Names : Build(b, to) \in CallSet
  BY DEF CallSet
<1> QED
  BY <1>1, <1>2, <1>3, <1>4, <1>5, <1>6, <1>7, <1>8

LEMMA TypedJoined ==
  ASSUME NEW s \in Seq(CallSet), NEW t \in Seq(CallSet), NEW A, NEW B, NEW C,
         Typed(s, A, B), Typed(t, B, C)
  PROVE  Typed(s \o t, A, C)
<1> PICK f : Leads(s, A, B, f)
  BY DEF Typed
<1> PICK g : Leads(t, B, C, g)
  BY DEF Typed
<1> PICK c, m, n : c = s \o t /\ m = Len(s) /\ n = Len(t)
  OBVIOUS
<1>1. /\ m \in Nat /\ n \in Nat /\ Len(c) = m + n
      /\ \A i \in 1 .. m : c[i] = s[i]
      /\ \A i \in 1 .. n : c[m + i] = t[i]
  OBVIOUS
<1>2. /\ f \in [1 .. m + 1 -> Knowledge] /\ f[1] = A /\ f[m + 1] = B
      /\ \A i \in 1 .. m : f[i].scope # << >> /\ Step(f[i], s[i], f[i + 1])
  BY DEF Leads
<1>3. /\ g \in [1 .. n + 1 -> Knowledge] /\ g[1] = B /\ g[n + 1] = C
      /\ \A i \in 1 .. n : g[i].scope # << >> /\ Step(g[i], t[i], g[i + 1])
  BY DEF Leads
<1> PICK h : h = [i \in 1 .. m + n + 1 |-> IF i <= m THEN f[i] ELSE g[i - m]]
  OBVIOUS
<1>4. h \in [1 .. m + n + 1 -> Knowledge]
  BY <1>1, <1>2, <1>3
<1>5. /\ \A i \in 1 .. m : h[i] = f[i]
      /\ \A i \in 1 .. n + 1 : h[m + i] = g[i]
  BY <1>1
<1>6. h[m + 1] = B
  BY <1>1, <1>3, <1>5
<1>7. h[1] = A
  BY <1>1, <1>2, <1>5, <1>6
<1>8. h[m + n + 1] = C
  BY <1>1, <1>3, <1>5
<1>9. ASSUME NEW i \in 1 .. m
      PROVE  h[i].scope # << >> /\ Step(h[i], c[i], h[i + 1])
  <2>1. h[i + 1] = f[i + 1]
    <3>1. CASE i = m
      BY <1>2, <1>6, <3>1
    <3>2. CASE i # m
      <4>1. i + 1 \in 1 .. m
        BY <1>1, <3>2
      <4> QED
        BY <1>5, <4>1
    <3> QED
      BY <3>1, <3>2
  <2> QED
    BY <1>1, <1>2, <1>5, <2>1
<1>10. ASSUME NEW i \in 1 .. n
       PROVE  h[m + i].scope # << >> /\ Step(h[m + i], c[m + i], h[m + i + 1])
  <2>1. h[m + i] = g[i] /\ h[m + (i + 1)] = g[i + 1] /\ c[m + i] = t[i]
    BY <1>1, <1>5, SMTT(30)
  <2>2. m + (i + 1) = m + i + 1
    BY <1>1
  <2> QED
    BY <1>3, <2>1, <2>2
<1>11. ASSUME NEW i \in 1 .. m + n
       PROVE  h[i].scope # << >> /\ Step(h[i], c[i], h[i + 1])
  <2>1. CASE i \in 1 .. m
    BY <1>9, <2>1
  <2>2. CASE i \notin 1 .. m
    <3> PICK j : j = i - m
      OBVIOUS
    <3>1. j \in 1 .. n /\ i = m + j
      BY <1>1, <2>2
    <3> QED
      BY <1>10, <3>1
  <2> QED
    BY <2>1, <2>2
<1>12. Leads(c, A, C, h)
  BY <1>1, <1>4, <1>7, <1>8, <1>11 DEF Leads
<1> QED
  BY <1>12 DEF Typed

LEMMA TypedCall ==
  ASSUME NEW c \in CallSet, NEW A \in Knowledge, NEW B \in Knowledge, A.scope # << >>,
         Step(A, c, B)
  PROVE  Typed(<<c>>, A, B)
<1> PICK f : f = [i \in 1 .. 2 |-> IF i = 1 THEN A ELSE B]
  OBVIOUS
<1>1. f \in [1 .. 2 -> Knowledge] /\ f[1] = A /\ f[2] = B
  OBVIOUS
<1>2. Len(<<c>>) = 1 /\ <<c>>[1] = c
  OBVIOUS
<1>3. Leads(<<c>>, A, B, f)
  BY <1>1, <1>2 DEF Leads
<1> QED
  BY <1>3 DEF Typed

\* The scopes of the callers are r, that of the function that runs is u.
Point(b, r, u, p) == Known(b, Append(r, u), p)
Points(b, r, u, p) ==
  b \in Names /\ r \in Seq(ScopeSet) /\ u \in ScopeSet /\ p \in Promises

LEMMA PointFacts ==
  ASSUME NEW b, NEW r, NEW u, NEW p, Points(b, r, u, p), NEW A, A = Point(b, r, u, p)
  PROVE  /\ A \in Knowledge /\ A.open = b /\ A.scope = Append(r, u) /\ A.ctx = p
         /\ A.scope # << >> /\ Pop(A.scope) = r /\ TopOf(A.scope) = u
<1> PICK s : s = Append(r, u)
  OBVIOUS
<1>1. s \in Seq(ScopeSet) /\ s # << >> /\ Pop(s) = r /\ TopOf(s) = u
  BY PushFacts DEF Points
<1>2. A = [open |-> b, scope |-> s, ctx |-> p]
  BY DEF Point, Known
<1> QED
  BY <1>1, <1>2 DEF Points, Knowledge

IsPoint(A, b, r, u, p) ==
  A.open = b /\ A.ctx = p /\ Pop(A.scope) = r /\ TopOf(A.scope) = u

LEMMA PointIs ==
  ASSUME NEW b, NEW r, NEW u, NEW p, Points(b, r, u, p), NEW A, A = Point(b, r, u, p)
  PROVE  IsPoint(A, b, r, u, p)
BY PointFacts DEF IsPoint

LEMMA NoneName == "none" \in Names
BY DEF Names

LEMMA WithType ==
  ASSUME NEW u \in ScopeSet, NEW b \in Names, b \notin DOMAIN u, NEW q \in Promises
  PROVE  /\ With(u, b, q) \in ScopeSet /\ DOMAIN With(u, b, q) = DOMAIN u \cup {b}
         /\ With(u, b, q)[b] = q
<1>1. Renewed(u, b, q, With(u, b, q))
  BY GrownFacts
<1> QED
  BY <1>1 DEF Renewed

LEMMA WithPromised ==
  ASSUME NEW u \in ScopeSet, NEW b \in Names, b \notin DOMAIN u, NEW q \in Promises, NEW v \in Promises
  PROVE  Promised(With(u, b, q), b, v) = With(u, b, v)
<1> PICK d, e : d = Promised(With(u, b, q), b, v) /\ e = With(u, b, v)
  OBVIOUS
<1>1. DOMAIN d = DOMAIN u \cup {b} /\ DOMAIN e = DOMAIN u \cup {b}
  BY DEF Promised, With
<1>2. \A m \in DOMAIN u \cup {b} : d[m] = e[m]
  BY DEF Promised, With
<1>3. d = [m \in DOMAIN u \cup {b} |-> d[m]] /\ e = [m \in DOMAIN u \cup {b} |-> e[m]]
  BY DEF Promised, With
<1> QED
  BY <1>2, <1>3

LEMMA PromisedWith ==
  ASSUME NEW u \in ScopeSet, NEW b \in Names, b \notin DOMAIN u, NEW q \in Promises, NEW v \in Promises,
         NEW x \in DOMAIN u
  PROVE  Promised(With(u, b, q), x, v) = With(Promised(u, x, v), b, q)
<1> PICK d, e : d = Promised(With(u, b, q), x, v) /\ e = With(Promised(u, x, v), b, q)
  OBVIOUS
<1>1. DOMAIN d = DOMAIN u \cup {b} /\ DOMAIN e = DOMAIN u \cup {b}
  BY DEF Promised, With
<1>2. \A m \in DOMAIN u \cup {b} : d[m] = e[m]
  BY DEF Promised, With
<1>3. d = [m \in DOMAIN u \cup {b} |-> d[m]] /\ e = [m \in DOMAIN u \cup {b} |-> e[m]]
  BY DEF Promised, With
<1> QED
  BY <1>2, <1>3

LEMMA EnterTyped ==
  ASSUME NEW r, NEW u, NEW p, Points("none", r, u, p)
  PROVE  Typed(<<Enter>>, Point("none", r, u, p), Point("none", Append(r, u), EmptyScope, p))
<1> PICK A, B, c : /\ A = Point("none", r, u, p) /\ B = Point("none", Append(r, u), EmptyScope, p)
                   /\ c = Enter
  OBVIOUS
<1>1. Points("none", Append(r, u), EmptyScope, p)
  BY PushFacts, EmptyScopeType DEF Points
<1>2. A \in Knowledge /\ B \in Knowledge /\ A.scope # << >>
  BY <1>1, PointFacts
<1>3. A.open = "none" /\ A.scope = Append(r, u) /\ A.ctx = p
  BY PointFacts
<1>4. c.op = "enter"
  BY DEF Enter
<1>5. Step(A, c, B)
  BY <1>3, <1>4 DEF Step, Point
<1> QED
  BY <1>2, <1>5, CallSetFacts, TypedCall

LEMMA CreateTyped ==
  ASSUME NEW r, NEW u, NEW p, Points("none", r, u, p), NEW b \in Names, b # "none", b \notin DOMAIN u
  PROVE  Typed(<<Create(b)>>, Point("none", r, u, p), Point(b, r, With(u, b, NoPromise), p))
<1> PICK A, B, c : /\ A = Point("none", r, u, p) /\ B = Point(b, r, With(u, b, NoPromise), p)
                   /\ c = Create(b)
  OBVIOUS
<1>1. Points(b, r, With(u, b, NoPromise), p)
  BY WithType, NoPromiseFacts DEF Points
<1>2. A \in Knowledge /\ B \in Knowledge /\ A.scope # << >>
  BY <1>1, PointFacts
<1>3. A.open = "none" /\ A.ctx = p /\ Pop(A.scope) = r /\ TopOf(A.scope) = u
  BY PointFacts
<1>4. c.op = "create" /\ c.to = b
  BY DEF Create
<1>5. Step(A, c, B)
  BY <1>3, <1>4 DEF Step, Point
<1> QED
  BY <1>2, <1>5, CallSetFacts, TypedCall

LEMMA FieldTyped ==
  ASSUME NEW r, NEW u, NEW p, NEW b, Points(b, r, u, p), b # "none", b \notin DOMAIN u,
         NEW q \in Promises, NEW k \in Keys, NEW c \in {SetString(b, k), SetInt32(b, k)}
  PROVE  /\ Step(Point(b, r, With(u, b, q), p), c, Point(b, r, With(u, b, Field(q, k)), p))
         /\ Typed(<<c>>, Point(b, r, With(u, b, q), p), Point(b, r, With(u, b, Field(q, k)), p))
<1> PICK v, w, A, B : /\ v = With(u, b, q) /\ w = With(u, b, Field(q, k))
                      /\ A = Point(b, r, v, p) /\ B = Point(b, r, w, p)
  OBVIOUS
<1>1. Field(q, k) \in Promises
  BY JoinedType, NoPromiseFacts DEF Field
<1>2. Points(b, r, v, p) /\ Points(b, r, w, p) /\ v[b] = q
  BY <1>1, WithType DEF Points
<1>3. A \in Knowledge /\ B \in Knowledge /\ A.scope # << >>
  BY <1>2, PointFacts
<1>4. A.open = b /\ A.ctx = p /\ Pop(A.scope) = r /\ TopOf(A.scope) = v
  BY <1>2, PointFacts
<1>5. c.op = "field" /\ c.on = b /\ c.key = k /\ c.kind \in {"string", "int"}
  BY DEF SetString, SetInt32
<1>6. Promised(v, b, Field(v[b], k)) = w
  BY <1>1, <1>2, WithPromised DEF Points
<1>7. Step(A, c, B)
  BY <1>4, <1>5, <1>6 DEF Step, Point
<1>8. c \in CallSet
  BY CallSetFacts DEF Points
<1> QED
  BY <1>3, <1>7, <1>8, TypedCall

LEMMA ObjectTyped ==
  ASSUME NEW r, NEW u, NEW p, NEW b, Points(b, r, u, p), b # "none", b \notin DOMAIN u,
         NEW q \in Promises, NEW k \in Keys, NEW x \in DOMAIN u
  PROVE  Typed(<<SetObject(b, k, x)>>, Point(b, r, With(u, b, q), p),
               Point(b, r, With(Promised(u, x, NoPromise), b, Joined(q, k, u[x])), p))
<1> PICK j, n, v, w, A, B, c :
      /\ j = Joined(q, k, u[x]) /\ n = Promised(u, x, NoPromise)
      /\ v = With(u, b, q) /\ w = With(n, b, j)
      /\ A = Point(b, r, v, p) /\ B = Point(b, r, w, p) /\ c = SetObject(b, k, x)
  OBVIOUS
<1>1. x \in Names /\ u[x] \in Promises /\ j \in Promises
  BY ScopeFacts, JoinedType DEF Points
<1>2. n \in ScopeSet /\ DOMAIN n = DOMAIN u
  <2>1. Renewed(u, x, NoPromise, n)
    BY PromisedFacts, NoPromiseFacts DEF Points
  <2> QED
    BY <2>1 DEF Renewed
<1>3. Points(b, r, v, p) /\ Points(b, r, w, p) /\ v[b] = q /\ v[x] = u[x] /\ DOMAIN v = DOMAIN u \cup {b}
  <2>3. Renewed(u, b, q, v)
    BY <1>1, GrownFacts DEF Points
  <2>1. Renewed(u, b, q, v) /\ v[x] = u[x]
    BY <2>3 DEF Renewed
  <2>2. Renewed(n, b, j, w)
    BY <1>1, <1>2, GrownFacts DEF Points
  <2> QED
    BY <1>1, <2>1, <2>2 DEF Points, Renewed
<1>4. A \in Knowledge /\ B \in Knowledge /\ A.scope # << >>
  BY <1>3, PointFacts
<1>5. A.open = b /\ A.ctx = p /\ Pop(A.scope) = r /\ TopOf(A.scope) = v
  BY <1>3, PointFacts
<1>6. c.op = "object" /\ c.on = b /\ c.key = k /\ c.of = x
  BY DEF SetObject
<1>7. Promised(Promised(v, x, NoPromise), b, Joined(v[b], k, v[x])) = w
  <2>1. Promised(v, x, NoPromise) = With(n, b, q)
    BY PromisedWith, NoPromiseFacts DEF Points
  <2>2. Promised(With(n, b, q), b, j) = w
    BY <1>1, <1>2, WithPromised DEF Points
  <2> QED
    BY <1>3, <2>1, <2>2
<1>8. Step(A, c, B)
  BY <1>3, <1>5, <1>6, <1>7 DEF Step, Point
<1>9. c \in CallSet
  BY <1>1, CallSetFacts DEF Points
<1> QED
  BY <1>4, <1>8, <1>9, TypedCall

LEMMA ReturnTyped ==
  ASSUME NEW r \in Seq(ScopeSet), NEW d \in ScopeSet, NEW u, NEW p, NEW b, NEW s, s = Append(r, d),
         Points(b, s, u, p), b # "none", b \notin DOMAIN u,
         NEW q \in Promises, NEW m \in Names, m \notin DOMAIN d
  PROVE  Typed(<<ReturnBuilt(b, m)>>, Point(b, s, With(u, b, q), p), Point("none", r, With(d, m, q), p))
<1> PICK v, w, A, B, c :
      /\ v = With(u, b, q) /\ w = With(d, m, q)
      /\ A = Point(b, s, v, p) /\ B = Point("none", r, w, p) /\ c = ReturnBuilt(b, m)
  OBVIOUS
<1>1. Points(b, s, v, p) /\ v[b] = q
  BY WithType DEF Points
<1>8. Points("none", r, w, p)
  BY NoneName, WithType DEF Points
<1>2. A \in Knowledge /\ B \in Knowledge /\ A.scope # << >>
  BY <1>1, <1>8, PointFacts
<1>3. A.open = b /\ A.ctx = p /\ Pop(A.scope) = s /\ TopOf(A.scope) = v
  <2>1. Points(b, s, v, p)
    BY <1>1
  <2>2. A = Point(b, s, v, p)
    OBVIOUS
  <2>3. IsPoint(A, b, s, v, p)
    BY <2>1, <2>2, PointIs
  <2> QED
    BY <2>3 DEF IsPoint
<1>4. s # << >> /\ Pop(s) = r /\ TopOf(s) = d
  BY PushFacts
<1>5. c.op = "return" /\ c.of = b /\ c.to = m
  BY DEF ReturnBuilt
<1>6. Step(A, c, B)
  BY <1>1, <1>3, <1>4, <1>5 DEF Step, Point, Replace
<1>7. c \in CallSet
  BY CallSetFacts DEF Points
<1> QED
  BY <1>2, <1>6, <1>7, TypedCall

LEMMA BuildTyped ==
  ASSUME NEW r, NEW u, NEW p, NEW b, Points(b, r, u, p), b # "none", b \notin DOMAIN u,
         NEW q \in Promises, NEW m \in Names, m \notin DOMAIN u, m # b
  PROVE  Typed(<<Build(b, m)>>, Point(b, r, With(u, b, q), p),
               Point("none", r, With(With(u, b, NoPromise), m, q), p))
<1> PICK n, v, w, A, B, c :
      /\ n = With(u, b, NoPromise) /\ v = With(u, b, q) /\ w = With(n, m, q)
      /\ A = Point(b, r, v, p) /\ B = Point("none", r, w, p) /\ c = Build(b, m)
  OBVIOUS
<1>1. n \in ScopeSet /\ m \notin DOMAIN n /\ Points(b, r, v, p) /\ v[b] = q /\ DOMAIN v = DOMAIN u \cup {b}
  BY WithType, NoPromiseFacts DEF Points
<1>2. Points("none", r, w, p)
  BY <1>1, NoneName, WithType DEF Points
<1>3. A \in Knowledge /\ B \in Knowledge /\ A.scope # << >>
  BY <1>1, <1>2, PointFacts
<1>4. A.open = b /\ A.ctx = p /\ Pop(A.scope) = r /\ TopOf(A.scope) = v
  BY <1>1, PointFacts
<1>5. c.op = "build" /\ c.of = b /\ c.to = m
  BY DEF Build
<1>6. Promised(v, b, NoPromise) = n
  BY WithPromised, NoPromiseFacts DEF Points
<1>7. Step(A, c, B)
  BY <1>1, <1>4, <1>5, <1>6 DEF Step, Point
<1>8. c \in CallSet
  BY CallSetFacts DEF Points
<1> QED
  BY <1>3, <1>7, <1>8, TypedCall

LEMMA AddTyped ==
  ASSUME NEW r, NEW u, NEW p, Points("none", r, u, p), NEW x \in DOMAIN u
  PROVE  Typed(<<AddObject(x)>>, Point("none", r, u, p), Known("none", r, u[x]))
<1> PICK A, B, c : A = Point("none", r, u, p) /\ B = Known("none", r, u[x]) /\ c = AddObject(x)
  OBVIOUS
<1>1. u[x] \in Promises /\ x \in Names
  BY ScopeFacts DEF Points
<1>2. A \in Knowledge /\ A.scope # << >>
  BY PointFacts
<1>3. B \in Knowledge
  BY <1>1 DEF Known, Knowledge, Points
<1>4. A.open = "none" /\ A.ctx = p /\ Pop(A.scope) = r /\ TopOf(A.scope) = u
  BY PointFacts
<1>5. c.op = "add" /\ c.of = x
  BY DEF AddObject
<1>6. Step(A, c, B)
  BY <1>4, <1>5 DEF Step
<1> QED
  BY <1>1, <1>2, <1>3, <1>6, CallSetFacts, TypedCall

LEMMA SeqFacts ==
  /\ \A c \in CallSet : <<c>> \in Seq(CallSet)
  /\ \A s, t \in Seq(CallSet) : s \o t \in Seq(CallSet)
OBVIOUS

\* One more call.
Does(c, A, B) == c \in CallSet /\ Typed(<<c>>, A, B)
Reaches(s, A, B) == s \in Seq(CallSet) /\ Typed(s, A, B)

LEMMA TypedNext ==
  ASSUME NEW s, NEW c, NEW A, NEW B, NEW C, Reaches(s, A, B), Does(c, B, C),
         NEW d, d = Append(s, c)
  PROVE  Reaches(d, A, C)
<1> PICK t : t = <<c>>
  OBVIOUS
<1>1. s \in Seq(CallSet) /\ c \in CallSet /\ Typed(s, A, B) /\ Typed(t, B, C)
  BY DEF Reaches, Does
<1>2. t \in Seq(CallSet) /\ d \in Seq(CallSet) /\ d = s \o t
  BY <1>1
<1>3. Typed(s \o t, A, C)
  BY <1>1, <1>2, TypedJoined
<1> QED
  BY <1>2, <1>3 DEF Reaches

LEMMA TypedOne ==
  ASSUME NEW c, NEW A, NEW B, Does(c, A, B)
  PROVE  Reaches(<<c>>, A, B)
BY SeqFacts DEF Does, Reaches

LEMMA CallTuples ==
  ASSUME NEW a, NEW b, NEW c, NEW d, NEW e, NEW f
  PROVE  /\ <<a, b>> = Append(<<a>>, b)
         /\ <<a, b, c>> = Append(<<a, b>>, c)
         /\ <<a, b, c, d>> = Append(<<a, b, c>>, d)
         /\ <<a, b, c, d, e>> = Append(<<a, b, c, d>>, e)
         /\ <<a, b, c, d, e, f>> = Append(<<a, b, c, d, e>>, f)
<1>1. <<a, b>> = Append(<<a>>, b)
  OBVIOUS
<1>2. <<a, b, c>> = Append(<<a, b>>, c)
  OBVIOUS
<1>3. <<a, b, c, d>> = Append(<<a, b, c>>, d)
  OBVIOUS
<1>4. <<a, b, c, d, e>> = Append(<<a, b, c, d>>, e)
  OBVIOUS
<1>5. <<a, b, c, d, e, f>> = Append(<<a, b, c, d, e>>, f)
  OBVIOUS
<1> QED
  BY <1>1, <1>2, <1>3, <1>4, <1>5

LEMMA ChainOfTwo ==
  ASSUME NEW a, NEW b, NEW P1, NEW P2, NEW P3, Does(a, P1, P2), Does(b, P2, P3)
  PROVE  Reaches(<<a, b>>, P1, P3)
<1>1. Reaches(<<a>>, P1, P2)
  BY TypedOne
<1>2. <<a, b>> = Append(<<a>>, b)
  BY CallTuples
<1> QED
  BY <1>1, <1>2, TypedNext

LEMMA ChainOfFive ==
  ASSUME NEW a, NEW b, NEW c, NEW d, NEW e,
         NEW P1, NEW P2, NEW P3, NEW P4, NEW P5, NEW P6,
         Does(a, P1, P2), Does(b, P2, P3), Does(c, P3, P4), Does(d, P4, P5), Does(e, P5, P6)
  PROVE  Reaches(<<a, b, c, d, e>>, P1, P6)
<1> PICK t2, t3, t4, t5 : /\ t2 = <<a, b>> /\ t3 = <<a, b, c>> /\ t4 = <<a, b, c, d>>
                          /\ t5 = <<a, b, c, d, e>>
  OBVIOUS
<1>1. t3 = Append(t2, c) /\ t4 = Append(t3, d) /\ t5 = Append(t4, e)
  BY CallTuples
<1>2. Reaches(t2, P1, P3)
  BY ChainOfTwo
<1>3. Reaches(t3, P1, P4)
  BY <1>1, <1>2, TypedNext
<1>4. Reaches(t4, P1, P5)
  BY <1>1, <1>3, TypedNext
<1>5. Reaches(t5, P1, P6)
  BY <1>1, <1>4, TypedNext
<1> QED
  BY <1>5

LEMMA ChainOfSix ==
  ASSUME NEW a, NEW b, NEW c, NEW d, NEW e, NEW f,
         NEW P1, NEW P2, NEW P3, NEW P4, NEW P5, NEW P6, NEW P7,
         Does(a, P1, P2), Does(b, P2, P3), Does(c, P3, P4), Does(d, P4, P5), Does(e, P5, P6),
         Does(f, P6, P7)
  PROVE  Reaches(<<a, b, c, d, e, f>>, P1, P7)
<1> PICK t5, t6 : t5 = <<a, b, c, d, e>> /\ t6 = <<a, b, c, d, e, f>>
  OBVIOUS
<1>1. t6 = Append(t5, f)
  BY CallTuples
<1>2. Reaches(t5, P1, P6)
  BY ChainOfFive
<1>3. Reaches(t6, P1, P7)
  BY <1>1, <1>2, TypedNext
<1> QED
  BY <1>3

HeaderFields(names) == [k \in DOMAIN names |-> SetString("header_obj_builder", names[k])]
UpTo(names, k) == [one |-> {names[j] : j \in 1 .. k - 1}, two |-> {}, three |-> {}]

LEMMA UpToFacts ==
  ASSUME NEW names \in Seq(Keys)
  PROVE  /\ UpTo(names, 1) = NoPromise /\ UpTo(names, Len(names) + 1) = KeysOf(names)
         /\ \A k \in 1 .. Len(names) + 1 : UpTo(names, k) \in Promises
         /\ \A k \in 1 .. Len(names) : UpTo(names, k + 1) = Field(UpTo(names, k), names[k])
<1> PICK n : n = Len(names)
  OBVIOUS
<1>1. n \in Nat /\ DOMAIN names = 1 .. n /\ \A j \in 1 .. n : names[j] \in Keys
  OBVIOUS
<1>2. UpTo(names, 1) = NoPromise
  <2>1. {names[j] : j \in 1 .. 1 - 1} = {}
    OBVIOUS
  <2> QED
    BY <2>1 DEF UpTo, NoPromise
<1>3. UpTo(names, n + 1) = KeysOf(names)
  <2>1. n + 1 - 1 = n
    BY <1>1
  <2> QED
    BY <1>1, <2>1 DEF UpTo, KeysOf
<1>4. ASSUME NEW k \in 1 .. n + 1
      PROVE  UpTo(names, k) \in Promises
  <2>1. {names[j] : j \in 1 .. k - 1} \subseteq Keys
    BY <1>1
  <2> QED
    BY <2>1 DEF UpTo, Promises
<1>5. ASSUME NEW k \in 1 .. n
      PROVE  UpTo(names, k + 1) = Field(UpTo(names, k), names[k])
  <2> PICK S, T : S = {names[j] : j \in 1 .. k - 1} /\ T = {names[j] : j \in 1 .. (k + 1) - 1}
    OBVIOUS
  <2>1. T = S \cup {names[k]}
    <3>1. 1 .. (k + 1) - 1 = (1 .. k - 1) \cup {k}
      BY <1>1
    <3> QED
      BY <3>1
  <2> PICK p, f : p = UpTo(names, k) /\ f = Field(p, names[k])
    OBVIOUS
  <2>2. p = [one |-> S, two |-> {}, three |-> {}]
    BY DEF UpTo
  <2>3. f = [one |-> p.one \cup {names[k]},
             two |-> {x \in p.two : x[1] # names[k]} \cup {<<names[k], j>> : j \in NoPromise.one},
             three |-> {x \in p.three : x[1] # names[k]} \cup {<<names[k], x[1], x[2]>> : x \in NoPromise.two}]
    BY DEF Field, Joined
  <2> PICK z : z = NoPromise
    OBVIOUS
  <2>6. z.one = {} /\ z.two = {} /\ p.one = S /\ p.two = {} /\ p.three = {}
    BY <2>2 DEF NoPromise
  <2>7. {x \in p.two : x[1] # names[k]} \cup {<<names[k], j>> : j \in z.one} = {}
    BY <2>6
  <2>8. {x \in p.three : x[1] # names[k]} \cup {<<names[k], x[1], x[2]>> : x \in z.two} = {}
    BY <2>6
  <2>4. f.one = S \cup {names[k]} /\ f.two = {} /\ f.three = {}
    BY <2>3, <2>6, <2>7, <2>8
  <2>5. f = [one |-> T, two |-> {}, three |-> {}]
    BY <2>1, <2>3, <2>4
  <2> QED
    BY <2>5 DEF UpTo
<1> QED
  BY <1>2, <1>3, <1>4, <1>5

LEMMA FieldsTyped ==
  ASSUME NEW names \in Seq(Keys), NEW s \in Seq(ScopeSet), NEW p \in Promises,
         NEW b, b = "header_obj_builder"
  PROVE  /\ HeaderFields(names) \in Seq(CallSet)
         /\ Typed(HeaderFields(names), Point(b, s, With(EmptyScope, b, NoPromise), p),
                  Point(b, s, With(EmptyScope, b, KeysOf(names)), p))
<1> PICK c, n : c = HeaderFields(names) /\ n = Len(names)
  OBVIOUS
<1>1. n \in Nat /\ DOMAIN names = 1 .. n /\ \A j \in 1 .. n : names[j] \in Keys
  OBVIOUS
<1>2. b \in Names /\ b # "none" /\ b \notin DOMAIN EmptyScope
  BY EmptyScopeType DEF Names
<1>3. c = [k \in 1 .. n |-> SetString(b, names[k])]
  BY <1>1 DEF HeaderFields
<1>4. \A k \in 1 .. n : c[k] = SetString(b, names[k]) /\ c[k] \in CallSet
  BY <1>1, <1>2, <1>3, CallSetFacts
<1>5. c \in Seq(CallSet) /\ Len(c) = n
  BY <1>1, <1>3, <1>4
<1> PICK u : u = [k \in 1 .. n + 1 |-> UpTo(names, k)]
  OBVIOUS
<1>6. /\ u[1] = NoPromise /\ u[n + 1] = KeysOf(names)
      /\ \A k \in 1 .. n + 1 : u[k] \in Promises
      /\ \A k \in 1 .. n : u[k + 1] = Field(u[k], names[k])
  BY <1>1, UpToFacts
<1> PICK f : f = [k \in 1 .. n + 1 |-> Point(b, s, With(EmptyScope, b, u[k]), p)]
  OBVIOUS
<1>7. ASSUME NEW k \in 1 .. n + 1
      PROVE  f[k] \in Knowledge /\ f[k].scope # << >>
  <2> PICK w : w = With(EmptyScope, b, u[k])
    OBVIOUS
  <2>1. Points(b, s, w, p)
    BY <1>2, <1>6, EmptyScopeType, WithType DEF Points
  <2>2. f[k] = Point(b, s, w, p)
    OBVIOUS
  <2> QED
    BY <2>1, <2>2, PointFacts
<1>8. ASSUME NEW k \in 1 .. n
      PROVE  Step(f[k], c[k], f[k + 1])
  <2> PICK q, j : q = u[k] /\ j = names[k]
    OBVIOUS
  <2>1. k \in 1 .. n + 1 /\ k + 1 \in 1 .. n + 1 /\ q \in Promises /\ j \in Keys
    BY <1>1, <1>6
  <2>2. f[k] = Point(b, s, With(EmptyScope, b, q), p)
        /\ f[k + 1] = Point(b, s, With(EmptyScope, b, Field(q, j)), p)
    BY <1>6, <2>1
  <2>3. Points(b, s, EmptyScope, p) /\ c[k] \in {SetString(b, j), SetInt32(b, j)}
    BY <1>2, <1>4, EmptyScopeType DEF Points
  <2> PICK e, x, A, B : /\ e = EmptyScope /\ x = c[k] /\ A = Point(b, s, With(e, b, q), p)
                        /\ B = Point(b, s, With(e, b, Field(q, j)), p)
    OBVIOUS
  <2>4. Step(Point(b, s, With(e, b, q), p), x, Point(b, s, With(e, b, Field(q, j)), p))
    BY <1>2, <2>1, <2>3, FieldTyped, ZenonT(30)
  <2> QED
    BY <2>2, <2>4
<1>9. f \in [1 .. n + 1 -> Knowledge]
  BY <1>7
<1>10. /\ f[1] = Point(b, s, With(EmptyScope, b, NoPromise), p)
       /\ f[n + 1] = Point(b, s, With(EmptyScope, b, KeysOf(names)), p)
  BY <1>1, <1>6
<1>11. ASSUME NEW k \in 1 .. n
       PROVE  f[k].scope # << >> /\ Step(f[k], c[k], f[k + 1])
  <2>1. k \in 1 .. n + 1
    BY <1>1
  <2> QED
    BY <1>7, <1>8, <2>1
<1>12. Leads(c, f[1], f[n + 1], f)
  BY <1>5, <1>9, <1>11 DEF Leads
<1> QED
  BY <1>5, <1>10, <1>12 DEF Typed

LEMMA KeysOfType ==
  ASSUME NEW names \in Seq(Keys)
  PROVE  KeysOf(names) \in Promises
<1>1. Len(names) + 1 \in 1 .. Len(names) + 1
  OBVIOUS
<1> QED
  BY <1>1, UpToFacts

LEMMA HeaderTyped ==
  ASSUME NEW names \in Seq(Keys), NEW r, NEW p, Points("none", r, EmptyScope, p)
  PROVE  /\ BuildHeaderObject(names) \in Seq(CallSet)
         /\ Typed(BuildHeaderObject(names), Point("none", r, EmptyScope, p),
                  Point("none", r, With(EmptyScope, "header_object", KeysOf(names)), p))
<1> PICK b, m, e, f, s, q :
      /\ b = "header_obj_builder" /\ m = "header_object" /\ e = EmptyScope
      /\ f = HeaderFields(names) /\ s = Append(r, e) /\ q = KeysOf(names)
  OBVIOUS
<1> PICK P1, P2, P3, P4, P5 :
      /\ P1 = Point("none", r, e, p) /\ P2 = Point("none", s, e, p)
      /\ P3 = Point(b, s, With(e, b, NoPromise), p) /\ P4 = Point(b, s, With(e, b, q), p)
      /\ P5 = Point("none", r, With(e, m, q), p)
  OBVIOUS
<1>1. /\ b \in Names /\ b # "none" /\ m \in Names /\ DOMAIN e = {} /\ e \in ScopeSet
      /\ q \in Promises /\ r \in Seq(ScopeSet) /\ p \in Promises
  BY EmptyScopeType, KeysOfType DEF Names, Points
<1>2. Points("none", r, e, p) /\ Points("none", s, e, p) /\ Points(b, s, e, p) /\ s \in Seq(ScopeSet)
  BY <1>1, NoneName, PushFacts DEF Points
<1>3. Typed(<<Enter>>, P1, P2)
  BY <1>2, EnterTyped
<1>4. Typed(<<Create(b)>>, P2, P3)
  BY <1>1, <1>2, CreateTyped
<1>5. f \in Seq(CallSet) /\ Typed(f, P3, P4)
  BY <1>1, <1>2, FieldsTyped
<1>6. Typed(<<ReturnBuilt(b, m)>>, P4, P5)
  BY <1>1, <1>2, ReturnTyped
<1> PICK c1, c2, c3, g, i : /\ c1 = Enter /\ c2 = Create(b) /\ c3 = ReturnBuilt(b, m)
                            /\ g = <<c1, c2>> /\ i = <<c3>>
  OBVIOUS
<1>7. c1 \in CallSet /\ c2 \in CallSet /\ c3 \in CallSet /\ <<c1>> \in Seq(CallSet) /\ i \in Seq(CallSet)
  BY <1>1, CallSetFacts, SeqFacts
<1>8. g \in Seq(CallSet) /\ Typed(g, P1, P3)
  <2>1. Does(c1, P1, P2) /\ Does(c2, P2, P3)
    BY <1>3, <1>4, <1>7 DEF Does
  <2>2. Reaches(g, P1, P3)
    BY <2>1, ChainOfTwo
  <2> QED
    BY <2>2 DEF Reaches
<1>9. g \o f \in Seq(CallSet) /\ Typed(g \o f, P1, P4)
  BY <1>5, <1>8, SeqFacts, TypedJoined
<1> PICK j : j = g \o f
  OBVIOUS
<1>10. j \o i \in Seq(CallSet) /\ Typed(j \o i, P1, P5)
  BY <1>6, <1>7, <1>9, SeqFacts, TypedJoined
<1>11. BuildHeaderObject(names) = j \o i
  BY DEF BuildHeaderObject, HeaderFields
<1> QED
  BY <1>10, <1>11

\* A builder, three properties, the headers, and the object is returned.
MessageTail(b, f, g, h, m) ==
  <<Create(b), f, g, h, SetObject(b, "headers", "header_object"), ReturnBuilt(b, m)>>
MessagePromise(i, j, k, q) ==
  Joined(Field(Field(Field(NoPromise, i), j), k), "headers", q)

TailFor(r, d, p, s, b, m, i, j, k, q, c2, c3, c4, u) ==
  /\ r \in Seq(ScopeSet) /\ d \in ScopeSet /\ p \in Promises /\ s = Append(r, d)
  /\ b \in Names /\ b # "none" /\ b # "header_object" /\ m \in Names /\ m \notin DOMAIN d
  /\ i \in Keys /\ j \in Keys /\ k \in Keys /\ q \in Promises
  /\ c2 \in {SetString(b, i), SetInt32(b, i)} /\ c3 \in {SetString(b, j), SetInt32(b, j)}
  /\ c4 \in {SetString(b, k), SetInt32(b, k)}
  /\ u = With(EmptyScope, "header_object", q)

LEMMA TailTyped ==
  ASSUME NEW r, NEW d, NEW p, NEW s, NEW b, NEW m, NEW i, NEW j, NEW k, NEW q,
         NEW c2, NEW c3, NEW c4, NEW u, TailFor(r, d, p, s, b, m, i, j, k, q, c2, c3, c4, u)
  PROVE  Reaches(MessageTail(b, c2, c3, c4, m), Point("none", s, u, p),
                 Point("none", r, With(d, m, MessagePromise(i, j, k, q)), p))
<1>0. /\ r \in Seq(ScopeSet) /\ d \in ScopeSet /\ p \in Promises /\ s = Append(r, d)
      /\ b \in Names /\ b # "none" /\ b # "header_object" /\ m \in Names /\ m \notin DOMAIN d
      /\ i \in Keys /\ j \in Keys /\ k \in Keys /\ q \in Promises
      /\ c2 \in {SetString(b, i), SetInt32(b, i)} /\ c3 \in {SetString(b, j), SetInt32(b, j)}
      /\ c4 \in {SetString(b, k), SetInt32(b, k)}
      /\ u = With(EmptyScope, "header_object", q)
  BY DEF TailFor
<1> PICK q2, q3, q4, q5, v, x :
      /\ q2 = Field(NoPromise, i) /\ q3 = Field(q2, j) /\ q4 = Field(q3, k)
      /\ q5 = Joined(q4, "headers", q) /\ x = "header_object" /\ v = Promised(u, x, NoPromise)
  OBVIOUS
<1> PICK P1, P2, P3, P4, P5, P6, P7 :
      /\ P1 = Point("none", s, u, p) /\ P2 = Point(b, s, With(u, b, NoPromise), p)
      /\ P3 = Point(b, s, With(u, b, q2), p) /\ P4 = Point(b, s, With(u, b, q3), p)
      /\ P5 = Point(b, s, With(u, b, q4), p) /\ P6 = Point(b, s, With(v, b, q5), p)
      /\ P7 = Point("none", r, With(d, m, q5), p)
  OBVIOUS
<1> PICK c1, c5, c6 : c1 = Create(b) /\ c5 = SetObject(b, "headers", x) /\ c6 = ReturnBuilt(b, m)
  OBVIOUS
<1>1. x \in Names /\ "headers" \in Keys /\ NoPromise \in Promises
  BY MatchAssumption, NoPromiseFacts DEF Names
<1>2. q2 \in Promises /\ q3 \in Promises /\ q4 \in Promises /\ q5 \in Promises
  <2>1. q2 \in Promises
    BY <1>0, <1>1, JoinedType DEF Field
  <2>2. q3 \in Promises
    BY <1>0, <1>1, <2>1, JoinedType DEF Field
  <2>3. q4 \in Promises
    BY <1>0, <1>1, <2>2, JoinedType DEF Field
  <2> QED
    BY <1>0, <1>1, <2>1, <2>2, <2>3, JoinedType
<1>3. u \in ScopeSet /\ DOMAIN u = {x} /\ u[x] = q
  <2>1. EmptyScope \in ScopeSet /\ x \notin DOMAIN EmptyScope
    BY EmptyScopeType
  <2>2. Renewed(EmptyScope, x, q, u)
    BY <1>0, <1>1, <2>1, GrownFacts
  <2> QED
    BY <2>2, EmptyScopeType DEF Renewed
<1>4. v \in ScopeSet /\ DOMAIN v = {x}
  <2>1. Renewed(u, x, NoPromise, v)
    BY <1>0, <1>1, <1>3, PromisedFacts
  <2> QED
    BY <1>0, <1>3, <2>1 DEF Renewed
<1>5. /\ Points("none", s, u, p) /\ Points(b, s, u, p) /\ Points(b, s, v, p)
      /\ b \notin DOMAIN u /\ b \notin DOMAIN v /\ x \in DOMAIN u
  BY <1>0, <1>3, <1>4, NoneName, PushFacts DEF Points
<1>12. /\ c1 \in CallSet /\ c2 \in CallSet /\ c3 \in CallSet /\ c4 \in CallSet
       /\ c5 \in CallSet /\ c6 \in CallSet
  BY <1>0, <1>1, CallSetFacts
<1>6. Does(c1, P1, P2)
  BY <1>0, <1>5, CreateTyped, <1>12 DEF Does
<1>7. Does(c2, P2, P3)
  BY <1>0, <1>1, <1>5, FieldTyped, <1>12 DEF Does
<1>8. Does(c3, P3, P4)
  BY <1>0, <1>2, <1>5, FieldTyped, <1>12 DEF Does
<1>9. Does(c4, P4, P5)
  BY <1>0, <1>2, <1>5, FieldTyped, <1>12 DEF Does
<1>10. Does(c5, P5, P6)
  BY <1>0, <1>1, <1>2, <1>3, <1>5, ObjectTyped, <1>12 DEF Does
<1>11. Does(c6, P6, P7)
  BY <1>0, <1>2, <1>5, ReturnTyped, <1>12 DEF Does
<1>13. Reaches(<<c1, c2, c3, c4, c5, c6>>, P1, P7)
  BY <1>0, <1>6, <1>7, <1>8, <1>9, <1>10, <1>11, ChainOfSix
<1> QED
  BY <1>0, <1>13 DEF MessageTail, MessagePromise

LEMMA JoinedCalls ==
  ASSUME NEW s, NEW t, NEW A, NEW B, NEW C, Reaches(s, A, B), Reaches(t, B, C),
         NEW d, d = s \o t
  PROVE  Reaches(d, A, C)
<1>1. s \in Seq(CallSet) /\ t \in Seq(CallSet) /\ Typed(s, A, B) /\ Typed(t, B, C)
  BY DEF Reaches
<1>2. Typed(s \o t, A, C)
  BY <1>1, TypedJoined
<1> QED
  BY <1>1, <1>2, SeqFacts DEF Reaches

\* BuildRequestObject and BuildResponseObject.
LEMMA MessageTyped ==
  ASSUME NEW r \in Seq(ScopeSet), NEW d \in ScopeSet, NEW p \in Promises,
         NEW b \in Names, b # "none", b # "header_object", NEW m \in Names, m \notin DOMAIN d,
         NEW i \in Keys, NEW j \in Keys, NEW k \in Keys, NEW names \in Seq(Keys),
         NEW c2 \in {SetString(b, i), SetInt32(b, i)}, NEW c3 \in {SetString(b, j), SetInt32(b, j)},
         NEW c4 \in {SetString(b, k), SetInt32(b, k)},
         NEW code, code = <<Enter>> \o BuildHeaderObject(names) \o MessageTail(b, c2, c3, c4, m)
  PROVE  Reaches(code, Point("none", r, d, p),
                 Point("none", r, With(d, m, MessagePromise(i, j, k, KeysOf(names))), p))
<1> PICK s, q, u, w : /\ s = Append(r, d) /\ q = KeysOf(names)
                      /\ u = With(EmptyScope, "header_object", q)
                      /\ w = With(d, m, MessagePromise(i, j, k, q))
  OBVIOUS
<1>1. s \in Seq(ScopeSet) /\ q \in Promises /\ EmptyScope \in ScopeSet
  BY KeysOfType, PushFacts, EmptyScopeType
<1>2. Points("none", r, d, p) /\ Points("none", s, EmptyScope, p)
  BY <1>1, NoneName DEF Points
<1> PICK P1, P2, P3, P4 :
      /\ P1 = Point("none", r, d, p) /\ P2 = Point("none", s, EmptyScope, p)
      /\ P3 = Point("none", s, u, p) /\ P4 = Point("none", r, w, p)
  OBVIOUS
<1> PICK c1, f, g : /\ c1 = <<Enter>> /\ f = BuildHeaderObject(names)
                    /\ g = MessageTail(b, c2, c3, c4, m)
  OBVIOUS
<1>3. Reaches(c1, P1, P2)
  <2>1. Typed(c1, P1, P2)
    BY <1>2, EnterTyped
  <2>2. c1 \in Seq(CallSet)
    BY CallSetFacts, SeqFacts
  <2> QED
    BY <2>1, <2>2 DEF Reaches
<1>4. Reaches(f, P2, P3)
  BY <1>2, HeaderTyped DEF Reaches
<1>5. Reaches(g, P3, P4)
  <2>1. TailFor(r, d, p, s, b, m, i, j, k, q, c2, c3, c4, u)
    BY <1>1 DEF TailFor
  <2> QED
    BY <2>1, TailTyped
<1> PICK h : h = c1 \o f
  OBVIOUS
<1>6. Reaches(h, P1, P3)
  BY <1>3, <1>4, JoinedCalls
<1>7. code = h \o g
  OBVIOUS
<1>8. Reaches(code, P1, P4)
  BY <1>5, <1>6, <1>7, JoinedCalls
<1> QED
  BY <1>8


LEMMA RequestTyped ==
  ASSUME NEW r \in Seq(ScopeSet), NEW d \in ScopeSet, NEW p \in Promises,
         "request_obj" \notin DOMAIN d
  PROVE  Reaches(BuildRequestObject, Point("none", r, d, p),
                 Point("none", r, With(d, "request_obj", RequestPromise), p))
<1> PICK b, m, i, j, k : /\ b = "request_obj_builder" /\ m = "request_obj"
                         /\ i = "method" /\ j = "target" /\ k = "version"
  OBVIOUS
<1>1. b \in Names /\ m \in Names /\ b # "none" /\ b # "header_object"
  BY DEF Names
<1>2. i \in Keys /\ j \in Keys /\ k \in Keys /\ RequestNames \in Seq(Keys)
  BY MatchAssumption
<1> PICK c2, c3, c4 : c2 = SetString(b, i) /\ c3 = SetString(b, j) /\ c4 = SetInt32(b, k)
  OBVIOUS
<1> PICK code : code = <<Enter>> \o BuildHeaderObject(RequestNames) \o MessageTail(b, c2, c3, c4, m)
  OBVIOUS
<1>3. Reaches(code, Point("none", r, d, p),
              Point("none", r, With(d, m, MessagePromise(i, j, k, KeysOf(RequestNames))), p))
  BY <1>1, <1>2, MessageTyped
<1>4. code = BuildRequestObject
  BY DEF BuildRequestObject, MessageTail
<1>5. MessagePromise(i, j, k, KeysOf(RequestNames)) = RequestPromise
  BY DEF MessagePromise, RequestPromise
<1> QED
  BY <1>3, <1>4, <1>5

LEMMA ResponseTyped ==
  ASSUME NEW r \in Seq(ScopeSet), NEW d \in ScopeSet, NEW p \in Promises,
         "response_obj" \notin DOMAIN d
  PROVE  Reaches(BuildResponseObject, Point("none", r, d, p),
                 Point("none", r, With(d, "response_obj", ResponsePromise), p))
<1> PICK b, m, i, j, k : /\ b = "response_obj_builder" /\ m = "response_obj"
                         /\ i = "status" /\ j = "reason" /\ k = "version"
  OBVIOUS
<1>1. b \in Names /\ m \in Names /\ b # "none" /\ b # "header_object"
  BY DEF Names
<1>2. i \in Keys /\ j \in Keys /\ k \in Keys /\ ResponseNames \in Seq(Keys)
  BY MatchAssumption
<1> PICK c2, c3, c4 : c2 = SetInt32(b, i) /\ c3 = SetString(b, j) /\ c4 = SetInt32(b, k)
  OBVIOUS
<1> PICK code : code = <<Enter>> \o BuildHeaderObject(ResponseNames) \o MessageTail(b, c2, c3, c4, m)
  OBVIOUS
<1>3. Reaches(code, Point("none", r, d, p),
              Point("none", r, With(d, m, MessagePromise(i, j, k, KeysOf(ResponseNames))), p))
  BY <1>1, <1>2, MessageTyped
<1>4. code = BuildResponseObject
  BY DEF BuildResponseObject, MessageTail
<1>5. MessagePromise(i, j, k, KeysOf(ResponseNames)) = ResponsePromise
  BY DEF MessagePromise, ResponsePromise
<1> QED
  BY <1>3, <1>4, <1>5

LEMMA DoesCall ==
  ASSUME NEW c \in CallSet, NEW A, NEW B, Typed(<<c>>, A, B)
  PROVE  Does(c, A, B)
BY DEF Does

\* ctx gets a phase and the request ...
LEMMA CtxOpens ==
  ASSUME NEW v \in ScopeSet, NEW b, b = "ctx_obj_builder", NEW x, x = "request_obj",
         b \notin DOMAIN v, x \in DOMAIN v, NEW r, r = << >>, NEW q, q = Field(NoPromise, "phase")
  PROVE  /\ Does(Create(b), Point("none", r, v, NoPromise),
                 Point(b, r, With(v, b, NoPromise), NoPromise))
         /\ Does(SetString(b, "phase"), Point(b, r, With(v, b, NoPromise), NoPromise),
                 Point(b, r, With(v, b, q), NoPromise))
         /\ Does(SetObject(b, "request", x), Point(b, r, With(v, b, q), NoPromise),
                 Point(b, r, With(Promised(v, x, NoPromise), b, Joined(q, "request", v[x])),
                       NoPromise))
<1>1. b \in Names /\ b # "none" /\ x \in Names /\ r \in Seq(ScopeSet)
  BY DEF Names
<1>2. NoPromise \in Promises /\ "phase" \in Keys /\ "request" \in Keys
  BY NoPromiseFacts, MatchAssumption
<1>3. q \in Promises
  BY <1>2, JoinedType DEF Field
<1>4. Points("none", r, v, NoPromise) /\ Points(b, r, v, NoPromise)
  BY <1>1, <1>2, NoneName DEF Points
<1>5. Create(b) \in CallSet /\ SetString(b, "phase") \in CallSet
      /\ SetObject(b, "request", x) \in CallSet
  BY <1>1, <1>2, CallSetFacts
<1>6. Does(Create(b), Point("none", r, v, NoPromise),
           Point(b, r, With(v, b, NoPromise), NoPromise))
  BY <1>1, <1>4, <1>5, CreateTyped, DoesCall
<1>7. Does(SetString(b, "phase"), Point(b, r, With(v, b, NoPromise), NoPromise),
           Point(b, r, With(v, b, q), NoPromise))
  BY <1>1, <1>2, <1>4, <1>5, FieldTyped, DoesCall
<1>8. Does(SetObject(b, "request", x), Point(b, r, With(v, b, q), NoPromise),
           Point(b, r, With(Promised(v, x, NoPromise), b, Joined(q, "request", v[x])), NoPromise))
  BY <1>1, <1>2, <1>3, <1>4, <1>5, ObjectTyped, DoesCall
<1> QED
  BY <1>6, <1>7, <1>8

\* ... and is built and added.
LEMMA CtxCloses ==
  ASSUME NEW v \in ScopeSet, NEW b, b = "ctx_obj_builder", NEW m, m = "ctx_obj",
         b \notin DOMAIN v, m \notin DOMAIN v, NEW r, r = << >>, NEW q \in Promises,
         NEW w, w = With(With(v, b, NoPromise), m, q)
  PROVE  /\ Does(Build(b, m), Point(b, r, With(v, b, q), NoPromise), Point("none", r, w, NoPromise))
         /\ Does(AddObject(m), Point("none", r, w, NoPromise), Known("none", r, q))
<1> PICK u : u = With(v, b, NoPromise)
  OBVIOUS
<1>1. b \in Names /\ b # "none" /\ m \in Names /\ m # b /\ r \in Seq(ScopeSet)
  BY DEF Names
<1>2. NoPromise \in Promises
  BY NoPromiseFacts
<1>3. Points(b, r, v, NoPromise)
  BY <1>1, <1>2 DEF Points
<1>4. u \in ScopeSet /\ m \notin DOMAIN u
  <2>1. With(v, b, NoPromise) \in ScopeSet /\ DOMAIN With(v, b, NoPromise) = DOMAIN v \cup {b}
    BY <1>1, <1>2, WithType
  <2> QED
    BY <1>1, <2>1
<1>5. w \in ScopeSet /\ m \in DOMAIN w /\ w[m] = q
  <2>1. Renewed(u, m, q, w)
    BY <1>1, <1>4, GrownFacts
  <2> QED
    BY <2>1 DEF Renewed
<1>6. Points("none", r, w, NoPromise)
  BY <1>1, <1>2, <1>5, NoneName DEF Points
<1>7. Build(b, m) \in CallSet /\ AddObject(m) \in CallSet
  BY <1>1, CallSetFacts
<1>8. Does(Build(b, m), Point(b, r, With(v, b, q), NoPromise), Point("none", r, w, NoPromise))
  BY <1>1, <1>3, <1>7, BuildTyped, DoesCall
<1>9. Does(AddObject(m), Point("none", r, w, NoPromise), Known("none", r, w[m]))
  BY <1>5, <1>6, <1>7, AddTyped, DoesCall
<1> QED
  BY <1>5, <1>8, <1>9

LEMMA BeginIs == Begin = Point("none", << >>, EmptyScope, NoPromise)
<1>1. Append(<< >>, EmptyScope) = <<EmptyScope>>
  OBVIOUS
<1> QED
  BY <1>1 DEF Begin, Point

LEMMA MessageType == RequestPromise \in Promises /\ ResponsePromise \in Promises
<1>1. /\ "method" \in Keys /\ "target" \in Keys /\ "version" \in Keys
      /\ "status" \in Keys /\ "reason" \in Keys /\ "headers" \in Keys
      /\ RequestNames \in Seq(Keys) /\ ResponseNames \in Seq(Keys) /\ NoPromise \in Promises
  BY MatchAssumption, NoPromiseFacts
<1>2. ASSUME NEW i \in Keys, NEW j \in Keys, NEW k \in Keys, NEW names \in Seq(Keys)
      PROVE  Joined(Field(Field(Field(NoPromise, i), j), k), "headers", KeysOf(names)) \in Promises
  <2> PICK q2, q3, q4, q : q2 = Field(NoPromise, i) /\ q3 = Field(q2, j) /\ q4 = Field(q3, k)
                           /\ q = KeysOf(names)
    OBVIOUS
  <2>1. q2 \in Promises
    BY <1>1, JoinedType DEF Field
  <2>2. q3 \in Promises
    BY <1>1, <2>1, JoinedType DEF Field
  <2>3. q4 \in Promises
    BY <1>1, <2>2, JoinedType DEF Field
  <2>4. q \in Promises
    BY KeysOfType
  <2>5. Joined(q4, "headers", q) \in Promises
    BY <1>1, <2>3, <2>4, JoinedType
  <2> QED
    BY <2>5
<1>3. RequestPromise \in Promises
  BY <1>1, <1>2 DEF RequestPromise
<1>4. ResponsePromise \in Promises
  BY <1>1, <1>2 DEF ResponsePromise
<1> QED
  BY <1>3, <1>4

LEMMA RequestScope ==
  ASSUME NEW x, x = "request_obj", NEW v, v = With(EmptyScope, x, RequestPromise)
  PROVE  v \in ScopeSet /\ DOMAIN v = {x} /\ v[x] = RequestPromise
<1> PICK e, q : e = EmptyScope /\ q = RequestPromise
  OBVIOUS
<1>1. e \in ScopeSet /\ DOMAIN e = {} /\ q \in Promises /\ x \in Names /\ x \notin DOMAIN e
  BY EmptyScopeType, MessageType DEF Names
<1>2. With(e, x, q) \in ScopeSet /\ DOMAIN With(e, x, q) = DOMAIN e \cup {x} /\ With(e, x, q)[x] = q
  BY <1>1, WithType
<1> QED
  BY <1>1, <1>2

LEMMA RequestLeads == Reaches(InjectRequestContext, Begin, End("Request"))
<1> PICK b, x, m, r, e, v, w, q, j :
      /\ b = "ctx_obj_builder" /\ x = "request_obj" /\ m = "ctx_obj" /\ r = << >>
      /\ e = EmptyScope /\ v = With(e, x, RequestPromise) /\ w = Promised(v, x, NoPromise)
      /\ q = Field(NoPromise, "phase") /\ j = Joined(q, "request", RequestPromise)
  OBVIOUS
<1>1. e \in ScopeSet /\ DOMAIN e = {} /\ r \in Seq(ScopeSet) /\ NoPromise \in Promises
  BY EmptyScopeType, NoPromiseFacts
<1>2. RequestPromise \in Promises
  BY MessageType
<1>3. v \in ScopeSet /\ DOMAIN v = {x} /\ v[x] = RequestPromise
  BY RequestScope
<1>4. w \in ScopeSet /\ DOMAIN w = {x}
  <2>1. Renewed(v, x, NoPromise, w)
    BY <1>1, <1>3, PromisedFacts
  <2> QED
    BY <1>3, <2>1 DEF Renewed
<1>5. q \in Promises /\ j \in Promises
  <2>1. "phase" \in Keys /\ "request" \in Keys
    BY MatchAssumption
  <2>2. q \in Promises
    BY <1>1, <2>1, JoinedType DEF Field
  <2> QED
    BY <1>2, <2>1, <2>2, JoinedType
<1> PICK n, P1, P2, P3, P4, P5, P6 :
      /\ n = With(With(w, b, NoPromise), m, j)
      /\ P1 = Point("none", r, v, NoPromise) /\ P2 = Point(b, r, With(v, b, NoPromise), NoPromise)
      /\ P3 = Point(b, r, With(v, b, q), NoPromise) /\ P4 = Point(b, r, With(w, b, j), NoPromise)
      /\ P5 = Point("none", r, n, NoPromise) /\ P6 = Known("none", r, j)
  OBVIOUS
<1>6. b \notin DOMAIN v /\ b \notin DOMAIN w /\ m \notin DOMAIN w /\ x \in DOMAIN v
  BY <1>3, <1>4
<1> PICK c1, c2, c3, c4, c5 :
      /\ c1 = Create(b) /\ c2 = SetString(b, "phase") /\ c3 = SetObject(b, "request", x)
      /\ c4 = Build(b, m) /\ c5 = AddObject(m)
  OBVIOUS
<1>7. Does(c1, P1, P2) /\ Does(c2, P2, P3)
      /\ Does(c3, P3, Point(b, r, With(Promised(v, x, NoPromise), b, Joined(q, "request", v[x])),
                       NoPromise))
  BY <1>3, <1>6, CtxOpens
<1>8. Does(c3, P3, P4)
  BY <1>3, <1>7
<1>9. Does(c4, P4, P5) /\ Does(c5, P5, P6)
  BY <1>4, <1>5, <1>6, CtxCloses
<1> PICK s, t : s = BuildRequestObject /\ t = <<c1, c2, c3, c4, c5>>
  OBVIOUS
<1>10. Reaches(t, P1, P6)
  BY <1>7, <1>8, <1>9, ChainOfFive
<1>11. Reaches(s, Begin, P1)
  <2>1. Reaches(s, Point("none", r, e, NoPromise), P1)
    BY <1>1, RequestTyped
  <2> QED
    BY <2>1, BeginIs
<1>12. s \o t = InjectRequestContext
  BY DEF InjectRequestContext
<1>13. P6 = End("Request")
  BY DEF End, CtxPromise
<1>14. Reaches(s \o t, Begin, P6)
  BY <1>10, <1>11, JoinedCalls
<1> QED
  BY <1>12, <1>13, <1>14

LEMMA ResponseLeads == Reaches(InjectResponseContext, Begin, End("Response"))
<1> PICK b, x, y, m, r, e :
      /\ b = "ctx_obj_builder" /\ x = "request_obj" /\ y = "response_obj" /\ m = "ctx_obj"
      /\ r = << >> /\ e = EmptyScope
  OBVIOUS
<1> PICK z, v, u, w, q, i, j :
      /\ z = With(e, x, RequestPromise) /\ v = With(z, y, ResponsePromise)
      /\ u = Promised(v, x, NoPromise) /\ w = Promised(u, y, NoPromise)
      /\ q = Field(NoPromise, "phase") /\ i = Joined(q, "request", RequestPromise)
      /\ j = Joined(i, "response", ResponsePromise)
  OBVIOUS
<1>1. e \in ScopeSet /\ DOMAIN e = {} /\ r \in Seq(ScopeSet) /\ NoPromise \in Promises
      /\ x \in Names /\ y \in Names /\ x # y
  BY EmptyScopeType, NoPromiseFacts DEF Names
<1>2. RequestPromise \in Promises /\ ResponsePromise \in Promises
  BY MessageType
<1>3. z \in ScopeSet /\ DOMAIN z = {x} /\ z[x] = RequestPromise
  BY RequestScope
<1>4. v \in ScopeSet /\ DOMAIN v = {x, y} /\ v[x] = RequestPromise /\ v[y] = ResponsePromise
  <2>1. Renewed(z, y, ResponsePromise, With(z, y, ResponsePromise))
    BY <1>1, <1>2, <1>3, GrownFacts
  <2>2. Renewed(z, y, ResponsePromise, v)
    BY <2>1
  <2> QED
    BY <1>1, <1>3, <2>2 DEF Renewed
<1>5. u \in ScopeSet /\ DOMAIN u = {x, y} /\ u[y] = ResponsePromise
  <2>1. Renewed(v, x, NoPromise, u)
    BY <1>1, <1>4, PromisedFacts
  <2> QED
    BY <1>1, <1>4, <2>1 DEF Renewed
<1>6. w \in ScopeSet /\ DOMAIN w = {x, y}
  <2>1. Renewed(u, y, NoPromise, w)
    BY <1>1, <1>5, PromisedFacts
  <2> QED
    BY <1>5, <2>1 DEF Renewed
<1>7. q \in Promises /\ i \in Promises /\ j \in Promises
  <2>1. "phase" \in Keys /\ "request" \in Keys /\ "response" \in Keys
    BY MatchAssumption
  <2>2. q \in Promises
    BY <1>1, <2>1, JoinedType DEF Field
  <2>3. i \in Promises
    BY <1>2, <2>1, <2>2, JoinedType
  <2> QED
    BY <1>2, <2>1, <2>2, <2>3, JoinedType
<1> PICK n, P1, P2, P3, P4, P5, P6, P7 :
      /\ n = With(With(w, b, NoPromise), m, j)
      /\ P1 = Point("none", r, v, NoPromise) /\ P2 = Point(b, r, With(v, b, NoPromise), NoPromise)
      /\ P3 = Point(b, r, With(v, b, q), NoPromise) /\ P4 = Point(b, r, With(u, b, i), NoPromise)
      /\ P5 = Point(b, r, With(w, b, j), NoPromise)
      /\ P6 = Point("none", r, n, NoPromise) /\ P7 = Known("none", r, j)
  OBVIOUS
<1>8. /\ b \notin DOMAIN v /\ b \notin DOMAIN u /\ b \notin DOMAIN w /\ m \notin DOMAIN w
      /\ x \in DOMAIN v /\ y \in DOMAIN u /\ b \in Names /\ b # "none"
  BY <1>4, <1>5, <1>6 DEF Names
<1> PICK c1, c2, c3, c4, c5, c6 :
      /\ c1 = Create(b) /\ c2 = SetString(b, "phase") /\ c3 = SetObject(b, "request", x)
      /\ c4 = SetObject(b, "response", y) /\ c5 = Build(b, m) /\ c6 = AddObject(m)
  OBVIOUS
<1>9. Does(c1, P1, P2) /\ Does(c2, P2, P3)
      /\ Does(c3, P3, Point(b, r, With(Promised(v, x, NoPromise), b, Joined(q, "request", v[x])),
                       NoPromise))
  BY <1>4, <1>8, CtxOpens
<1>10. Does(c3, P3, P4)
  BY <1>4, <1>9
<1>11. Does(c4, P4, P5)
  <2>1. "response" \in Keys
    BY MatchAssumption
  <2>2. Points(b, r, u, NoPromise)
    BY <1>1, <1>5, <1>8 DEF Points
  <2>3. c4 \in CallSet
    BY <1>1, <1>8, <2>1, CallSetFacts
  <2> PICK k : k = "response"
    OBVIOUS
  <2>4. Typed(<<SetObject(b, k, y)>>, Point(b, r, With(u, b, i), NoPromise),
              Point(b, r, With(Promised(u, y, NoPromise), b, Joined(i, k, u[y])), NoPromise))
    BY <1>7, <1>8, <2>1, <2>2, ObjectTyped
  <2>5. P5 = Point(b, r, With(Promised(u, y, NoPromise), b, Joined(i, k, u[y])), NoPromise)
    BY <1>5
  <2>6. c4 = SetObject(b, k, y)
    OBVIOUS
  <2>7. Typed(<<c4>>, P4, P5)
    BY <2>4, <2>5, <2>6
  <2> QED
    BY <2>3, <2>7 DEF Does
<1>12. Does(c5, P5, P6) /\ Does(c6, P6, P7)
  BY <1>6, <1>7, <1>8, CtxCloses
<1> PICK s, o, t : s = BuildRequestObject /\ o = BuildResponseObject /\ t = <<c1, c2, c3, c4, c5, c6>>
  OBVIOUS
<1>13. Reaches(t, P1, P7)
  BY <1>9, <1>10, <1>11, <1>12, ChainOfSix
<1>14. Reaches(s, Begin, Point("none", r, z, NoPromise))
  <2>1. Reaches(s, Point("none", r, e, NoPromise), Point("none", r, z, NoPromise))
    BY <1>1, RequestTyped
  <2> QED
    BY <2>1, BeginIs
<1>15. Reaches(o, Point("none", r, z, NoPromise), P1)
  <2>1. y \notin DOMAIN z
    BY <1>1, <1>3
  <2> QED
    BY <1>1, <1>3, <2>1, ResponseTyped
<1> PICK so : so = s \o o
  OBVIOUS
<1>16. Reaches(so, Begin, P1)
  BY <1>14, <1>15, JoinedCalls
<1>17. so \o t = InjectResponseContext
  BY DEF InjectResponseContext
<1>18. P7 = End("Response")
  BY DEF End, CtxPromise
<1>19. Reaches(so \o t, Begin, P7)
  BY <1>13, <1>16, JoinedCalls
<1> QED
  BY <1>17, <1>18, <1>19

-----------------------------------------------------------------------------
(***************************************************************************)
(* The inductive invariant.  While calls are made, what the typing of the  *)
(* code knows at the next one is true; an error that is returned is the    *)
(* first; and between matches there is no context.                         *)
(***************************************************************************)
Phases == {"Request", "Response"}
PathOf(p) == CHOOSE path : Leads(Code(p), Begin, End(p), path)
NoContext(h) == \A c \in Ctx : h.global[c] = "none"

Bounds ==
  /\ pc \in {"start", "idle", "inject", "matched", "unwind", "ended"} /\ phase \in Phases
  /\ at \in 1 .. Len(Calls) + 1 /\ error \in 0 .. Len(Calls) + 1 /\ first \in 0 .. Len(Calls) + 1
  /\ result \in {"none", "true", "false", "error"}

Between == pc \in {"start", "idle", "ended"} => frames = << >> /\ NoContext(heap)
Injected ==
  pc = "inject" => error = 0 /\ Going(heap, frames, first, PathOf(phase)[at])
Ending == (pc = "matched" => frames = << >>) /\ (pc = "unwind" => error = first)
Inv == Bounds /\ Sound(heap, frames) /\ FirstErrorReported /\ Between /\ Injected /\ Ending

LEMMA CodeTyped ==
  ASSUME NEW p \in Phases
  PROVE  Leads(Code(p), Begin, End(p), PathOf(p)) /\ Len(Code(p)) \in Nat
<1>1. Reaches(Code(p), Begin, End(p))
  <2>1. CASE p = "Request"
    BY <2>1, RequestLeads DEF Code
  <2>2. CASE p = "Response"
    BY <2>2, ResponseLeads DEF Code
  <2> QED
    BY <2>1, <2>2 DEF Phases
<1>2. Code(p) \in Seq(CallSet) /\ \E path : Leads(Code(p), Begin, End(p), path)
  BY <1>1 DEF Reaches, Typed
<1>3. Leads(Code(p), Begin, End(p), PathOf(p))
  BY <1>2, Zenon DEF PathOf
<1>4. Len(Code(p)) \in Nat
  BY <1>2
<1> QED
  BY <1>3, <1>4

LEMMA CodeLength ==
  ASSUME Bounds
  PROVE  Calls = Code(phase) /\ Len(Calls) \in Nat
<1>1. Calls = Code(phase)
  BY DEF Calls, Code
<1> QED
  BY <1>1, CodeTyped DEF Bounds

LEMMA SoundBetween ==
  ASSUME NEW h
  PROVE  Sound(h, << >>) <=> Forest(h, {})
BY HeldEmpty DEF Sound, Frames

LEMMA InitInv ==
  ASSUME Init
  PROVE  Inv
<1>1. phase \in Phases /\ Len(Calls) \in Nat
  <2>1. phase = "Request" /\ phase \in Phases /\ Calls = Code(phase)
    BY DEF Init, Phases, Calls, Code
  <2> QED
    BY <2>1, CodeTyped
<1>2. Bounds
  BY <1>1 DEF Init, Bounds
<1>3. Sound(heap, frames) /\ NoContext(heap)
  BY EmptyForest, SoundBetween DEF Init, NoContext
<1> QED
  BY <1>2, <1>3 DEF Init, Inv, FirstErrorReported, Between, Injected, Ending

LEMMA CallReady ==
  ASSUME Inv, pc = "inject", at <= Len(Calls)
  PROVE  Before(PathOf(phase)[at], PathOf(phase)[at + 1])
<1> PICK f, c, n : f = PathOf(phase) /\ c = Code(phase) /\ n = Len(c)
  OBVIOUS
<1>1. c = Calls /\ n \in Nat /\ Leads(c, Begin, End(phase), f)
  BY CodeLength, CodeTyped DEF Inv, Bounds
<1>2. at \in 1 .. n /\ first \in Nat
  BY <1>1 DEF Inv, Bounds
<1>3. f[at] \in Knowledge /\ f[at].scope # << >> /\ Step(f[at], c[at], f[at + 1])
  <2>1. at \in 1 .. n + 1
    BY <1>1, <1>2
  <2> QED
    BY <1>1, <1>2, <2>1 DEF Leads
<1>4. Going(heap, frames, first, f[at])
  BY DEF Inv, Injected
<1> QED
  BY <1>1, <1>2, <1>3, <1>4 DEF Before, Call

\* A call that went on, or whose error is returned.
LEMMA CallKeeps ==
  ASSUME Inv, pc = "inject", at <= Len(Calls),
         CallOutcome(PathOf(phase)[at], PathOf(phase)[at + 1])
  PROVE  Inv'
<1> PICK n : n = Len(Calls)
  OBVIOUS
<1>1. /\ n \in Nat /\ phase \in Phases /\ at \in 1 .. n /\ error = 0 /\ first \in 0 .. n + 1
      /\ result \in {"none", "true", "false", "error"}
  <2>1. n \in Nat
    BY CodeLength DEF Inv
  <2> QED
    BY <2>1 DEF Inv, Bounds, Injected
<1>2. phase' = phase /\ result' = result /\ first' \in {first, at}
  BY DEF CallOutcome, WentOn, Stopped
<1>3. Len(Calls') = n
  BY <1>2 DEF Calls, InjectRequestContext, InjectResponseContext
<1>4. CASE WentOn(PathOf(phase)[at + 1])
  <2>1. /\ pc' = "inject" /\ at' = at + 1 /\ error' = error
        /\ Going(heap', frames', first', PathOf(phase)[at + 1])
    BY <1>4 DEF WentOn
  <2>2. Bounds'
    BY <1>1, <1>2, <1>3, <2>1 DEF Bounds
  <2>3. Sound(heap', frames')
    BY <2>1 DEF Going
  <2>4. Injected'
    BY <1>1, <1>2, <2>1 DEF Injected
  <2> QED
    BY <1>1, <2>1, <2>2, <2>3, <2>4 DEF Inv, FirstErrorReported, Between, Ending
<1>5. CASE Stopped
  <2>1. /\ pc' = "unwind" /\ at' = at /\ error' = first' /\ Sound(heap', frames')
    BY <1>5 DEF Stopped
  <2>2. Bounds'
    BY <1>1, <1>2, <1>3, <2>1 DEF Bounds
  <2> QED
    BY <2>1, <2>2 DEF Inv, FirstErrorReported, Between, Injected, Ending
<1> QED
  BY <1>4, <1>5 DEF CallOutcome

LEMMA CallsKeep ==
  ASSUME Inv,
         EnterFunction \/ CreateBuilder \/ SetField \/ SetObjectOf \/ BuildObject \/ InjectContext
  PROVE  Inv'
<1> PICK A, B : A = PathOf(phase)[at] /\ B = PathOf(phase)[at + 1]
  OBVIOUS
<1>1. pc = "inject" /\ at <= Len(Calls)
  BY DEF EnterFunction, CreateBuilder, SetField, SetObjectOf, BuildObject, InjectContext, Injecting
<1>2. Before(A, B)
  BY <1>1, CallReady
<1>3. CallOutcome(A, B)
  BY <1>2, EnterCall, CreateCall, FieldCall, ObjectCall, BuildCall, AddCall
<1> QED
  BY <1>1, <1>3, CallKeeps

\* Nothing of what Bounds says changes but the program counter.
LEMMA BoundsKept ==
  ASSUME Bounds, pc' \in {"start", "idle", "inject", "matched", "unwind", "ended"},
         UNCHANGED <<phase, at, error, first>>, result' \in {"none", "true", "false", "error"}
  PROVE  Bounds'
<1>1. Len(Calls') = Len(Calls)
  BY DEF Calls, InjectRequestContext, InjectResponseContext
<1> QED
  BY <1>1 DEF Bounds

LEMMA EngineKeeps ==
  ASSUME Inv, CreateEngine \/ DestroyEngine
  PROVE  Inv'
<1>1. /\ pc \in {"start", "idle"} /\ pc' \in {"idle", "ended"}
      /\ UNCHANGED <<heap, phase, at, frames, error, first, result>>
  BY DEF CreateEngine, DestroyEngine
<1>2. Bounds'
  BY <1>1, BoundsKept DEF Inv, Bounds
<1>3. Sound(heap', frames') /\ (error' # 0 => error' = first') /\ frames' = << >> /\ NoContext(heap')
  BY <1>1 DEF Inv, FirstErrorReported, Between
<1> QED
  BY <1>1, <1>2, <1>3 DEF Inv, FirstErrorReported, Between, Injected, Ending

LEMMA OneFrame ==
  ASSUME NEW e \in FrameSet, HeldIn(e) = {}, Injective(e)
  PROVE  /\ <<e>> \in Seq(FrameSet) /\ HeldBy(<<e>>) = {} /\ Distinct(<<e>>)
         /\ Pop(<<e>>) = << >> /\ TopOf(<<e>>) = e /\ <<e>> # << >>
<1> PICK r : r = << >>
  OBVIOUS
<1>1. r \in Seq(FrameSet) /\ HeldBy(r) = {} /\ Distinct(r)
  BY HeldEmpty
<1>2. Append(r, e) \in Seq(FrameSet) /\ Append(r, e) # << >> /\ Pop(Append(r, e)) = r
      /\ TopOf(Append(r, e)) = e
  <2>1. \A s \in Seq(FrameSet) :
          /\ Append(s, e) \in Seq(FrameSet) /\ Append(s, e) # << >>
          /\ Pop(Append(s, e)) = s /\ TopOf(Append(s, e)) = e
    BY PushFacts
  <2> QED
    BY <1>1, <2>1
<1>3. HeldBy(Append(r, e)) = HeldBy(r) \cup HeldIn(e) /\ Distinct(Append(r, e))
  <2>1. HeldBy(r) \cap HeldIn(e) = {}
    OBVIOUS
  <2> QED
    BY <1>1, <2>1, HeldFacts
<1>4. HeldBy(Append(r, e)) = {}
  BY <1>1, <1>3
<1>5. Append(r, e) = <<e>>
  OBVIOUS
<1> QED
  BY <1>2, <1>3, <1>4, <1>5

LEMMA FrameBegins ==
  ASSUME NEW e, e = [n \in {} |-> Local(Invalid)]
  PROVE  /\ e \in FrameSet /\ <<e>> \in Seq(FrameSet) /\ HeldBy(<<e>>) = {} /\ Distinct(<<e>>)
         /\ Pop(<<e>>) = << >> /\ TopOf(<<e>>) = e /\ <<e>> # << >>
         /\ \A h : Fits(h, e, EmptyScope, "none", 0)
<1>1. e \in FrameSet /\ HeldIn(e) = {} /\ Injective(e) /\ DOMAIN e = {}
  BY HeldEmpty
<1>2. \A h : Fits(h, e, EmptyScope, "none", 0)
  BY <1>1, EmptyScopeType DEF Fits
<1> QED
  BY <1>1, <1>2, OneFrame

LEMMA BeginGoing ==
  ASSUME NEW h, Forest(h, {}), h.global[TheContext] \in Obj,
         NEW e, e = [n \in {} |-> Local(Invalid)]
  PROVE  Going(h, <<e>>, 0, Begin)
<1> PICK s, c, A : s = <<e>> /\ c = <<EmptyScope>> /\ A = Begin
  OBVIOUS
<1>1. /\ s \in Seq(FrameSet) /\ HeldBy(s) = {} /\ Distinct(s) /\ Pop(s) = << >> /\ TopOf(s) = e
      /\ s # << >> /\ Fits(h, e, EmptyScope, "none", 0)
  BY FrameBegins
<1>2. c \in Seq(ScopeSet) /\ c # << >> /\ Pop(c) = << >> /\ TopOf(c) = EmptyScope
  <2> PICK r, d : r = << >> /\ d = EmptyScope
    OBVIOUS
  <2>1. r \in Seq(ScopeSet) /\ d \in ScopeSet
    BY EmptyScopeType
  <2>2. Append(r, d) # << >> /\ Append(r, d) \in Seq(ScopeSet) /\ Pop(Append(r, d)) = r
        /\ TopOf(Append(r, d)) = d
    <3>1. \A x \in Seq(ScopeSet) :
            /\ Append(x, d) \in Seq(ScopeSet) /\ Append(x, d) # << >>
            /\ Pop(Append(x, d)) = x /\ TopOf(Append(x, d)) = d
      BY <2>1, PushFacts
    <3> QED
      BY <2>1, <3>1
  <2>3. Append(r, d) = c
    OBVIOUS
  <2> QED
    BY <2>2, <2>3
<1>3. A.open = "none" /\ A.scope = c /\ A.ctx = NoPromise
  BY DEF Begin, Known
<1>4. Matches(h, << >>, << >>)
  BY DEF Matches
<1>5. Agree(h, s, 0, A)
  BY <1>1, <1>2, <1>3, <1>4, NoPromiseFacts DEF Agree
<1>6. Sound(h, s)
  BY <1>1 DEF Sound, Frames
<1> QED
  BY <1>5, <1>6 DEF Going

LEMMA CreateKeeps ==
  ASSUME Inv, NEW p \in Phases, CreateMatchContext(p)
  PROVE  Inv'
<1>1. /\ pc = "idle" /\ phase' = p /\ at' = 1 /\ error' = 0 /\ first' = 0
      /\ frames = << >> /\ NoContext(heap) /\ Sound(heap, << >>)
      /\ result \in {"none", "true", "false", "error"}
  BY DEF CreateMatchContext, Inv, Between, Bounds
<1>2. Len(Calls') \in Nat
  <2>1. Calls' = Code(p)
    BY <1>1 DEF Calls, Code, InjectRequestContext, InjectResponseContext
  <2> QED
    BY <2>1, CodeTyped
<1>3. CASE pc' = "inject"
  <2> PICK e : e = [n \in {} |-> Local(Invalid)]
    OBVIOUS
  <2>1. heap' \in NewContext(heap, TheContext) /\ frames' = <<e>> /\ result' = result
    BY <1>1, <1>3 DEF CreateMatchContext
  <2>2. Forest(heap, {}) /\ heap.global[TheContext] = "none"
    BY <1>1, SoundBetween, TheContextType DEF NoContext
  <2>3. Forest(heap', {}) /\ heap'.global[TheContext] \in Obj
    BY <2>1, <2>2, NewContextForest
  <2>4. Going(heap', <<e>>, 0, Begin)
    BY <2>3, BeginGoing
  <2>5. PathOf(p)[1] = Begin
    BY CodeTyped DEF Leads
  <2>6. Going(heap', frames', first', PathOf(phase')[at'])
    BY <1>1, <2>1, <2>4, <2>5
  <2>7. Sound(heap', frames')
    BY <2>6 DEF Going
  <2>8. Bounds'
    BY <1>1, <1>2, <1>3, <2>1 DEF Bounds
  <2> QED
    BY <1>1, <1>3, <2>6, <2>7, <2>8 DEF Inv, FirstErrorReported, Between, Injected, Ending
<1>4. CASE pc' # "inject"
  <2>1. heap' = heap /\ pc' = pc /\ frames' = frames /\ result' = "error"
    BY <1>1, <1>4 DEF CreateMatchContext
  <2>2. Bounds'
    BY <1>1, <1>2, <2>1 DEF Bounds
  <2> QED
    BY <1>1, <2>1, <2>2 DEF Inv, FirstErrorReported, Between, Injected, Ending
<1> QED
  BY <1>3, <1>4

\* What is known after the last call: no function is left, and no error.
LEMMA AtEnd ==
  ASSUME Inv, pc = "inject", at > Len(Calls)
  PROVE  /\ frames = << >> /\ first = 0 /\ error = 0 /\ Forest(heap, {}) /\ heap.global[TheContext] \in Obj
         /\ Holds(heap, CtxOf(heap), CtxPromise(phase))
<1> PICK f, n, A : f = PathOf(phase) /\ n = Len(Calls) /\ A = End(phase)
  OBVIOUS
<1>1. n \in Nat /\ at \in 1 .. n + 1 /\ Calls = Code(phase) /\ phase \in Phases
  BY CodeLength DEF Inv, Bounds
<1>2. at = n + 1
  BY <1>1
<1>3. f[n + 1] = A
  BY <1>1, CodeTyped DEF Leads
<1>4. Going(heap, frames, first, A) /\ error = 0
  BY <1>2, <1>3 DEF Inv, Injected
<1>5. A.scope = << >> /\ A.ctx = CtxPromise(phase)
  BY DEF End, Known
<1>6. frames = << >> /\ first = 0 /\ Holds(heap, CtxOf(heap), A.ctx)
  BY <1>4, <1>5 DEF Going, Agree
<1>7. Forest(heap, {}) /\ heap.global[TheContext] \in Obj
  BY <1>4, <1>6, SoundBetween DEF Going
<1> QED
  BY <1>4, <1>5, <1>6, <1>7

LEMMA EvaluateKeeps ==
  ASSUME Inv, EvaluateMatch
  PROVE  Inv'
<1>1. /\ pc = "inject" /\ at > Len(Calls) /\ frames' = frames
  BY DEF EvaluateMatch
<1>2. /\ frames = << >> /\ first = 0 /\ error = 0 /\ Forest(heap, {}) /\ heap.global[TheContext] \in Obj
  BY <1>1, AtEnd
<1>3. PICK v \in Eval(heap, TheContext) :
        IF ~v.ok \/ v.x.val # "bool" THEN heap' = Destroy(v.h, v.x) /\ Fails(at)
        ELSE \E r \in Convert(v.h, v.x) :
               /\ heap' = Destroy(r.h, v.x)
               /\ IF ~r.ok THEN Fails(at)
                  ELSE /\ pc' = "matched" /\ result' \in {"true", "false"}
                       /\ UNCHANGED <<phase, at, error, first>>
  BY DEF EvaluateMatch
<1>4. Evaluates(heap, {}, v)
  BY <1>2, TheContextType, EvalOutcome
<1>5. /\ Untouched(heap, heap', {})
      /\ Fails(at) \/ /\ pc' = "matched" /\ result' \in {"true", "false"}
                      /\ UNCHANGED <<phase, at, error, first>>
  <2>1. CASE ~v.ok \/ v.x.val # "bool"
    <3>1. heap' = Destroy(v.h, v.x) /\ Fails(at)
      BY <1>3, <2>1
    <3> QED
      BY <1>4, <3>1 DEF Evaluates
  <2>2. CASE v.ok /\ v.x.val = "bool"
    <3>1. PICK r \in Convert(v.h, v.x) :
            /\ heap' = Destroy(r.h, v.x)
            /\ IF ~r.ok THEN Fails(at)
               ELSE /\ pc' = "matched" /\ result' \in {"true", "false"}
                    /\ UNCHANGED <<phase, at, error, first>>
      BY <1>3, <2>2
    <3>2. Untouched(heap, Destroy(r.h, v.x), {})
      BY <1>4, <2>2, ConvertOutcome
    <3> QED
      BY <3>1, <3>2
  <2> QED
    BY <2>1, <2>2
<1>6. Sound(heap', frames')
  BY <1>1, <1>2, <1>5, SoundBetween DEF Untouched
<1>7. CASE Fails(at)
  <2>1. /\ pc' = "unwind" /\ error' = at /\ first' = at /\ phase' = phase /\ at' = at
        /\ result' = result
    BY <1>2, <1>7 DEF Fails
  <2>2. Len(Calls') = Len(Calls)
    BY <2>1 DEF Calls, InjectRequestContext, InjectResponseContext
  <2>3. Bounds'
    BY <2>1, <2>2, CodeLength DEF Inv, Bounds
  <2> QED
    BY <1>6, <2>1, <2>3 DEF Inv, FirstErrorReported, Between, Injected, Ending
<1>8. CASE /\ pc' = "matched" /\ result' \in {"true", "false"}
           /\ UNCHANGED <<phase, at, error, first>>
  <2>1. Bounds'
    BY <1>8, BoundsKept DEF Inv
  <2> QED
    BY <1>1, <1>2, <1>6, <1>8, <2>1 DEF Inv, FirstErrorReported, Between, Injected, Ending
<1> QED
  BY <1>5, <1>7, <1>8

LEMMA UnwindKeeps ==
  ASSUME Inv, Unwind
  PROVE  Inv'
<1>1. /\ pc = "unwind" /\ frames # << >> /\ heap' = Leave(heap, Top) /\ frames' = Popped
      /\ UNCHANGED <<pc, phase, at, error, first, result>>
  BY DEF Unwind
<1> PICK s, t : s = Pop(frames) /\ t = TopOf(frames)
  OBVIOUS
<1>2. heap' = Leave(heap, t) /\ frames' = s
  BY <1>1 DEF Top, Popped, TopOf, Pop
<1>3. Owns(heap, s, t, {})
  BY <1>1, OwnsOpen DEF Inv
<1>4. Untouched(heap, Leave(heap, t), HeldBy(s) \cup {}) /\ Frames(s)
  BY <1>3, OwnsLeave
<1>5. HeldBy(s) \cup {} = HeldBy(s)
  OBVIOUS
<1>6. Sound(heap', frames')
  BY <1>2, <1>4, <1>5 DEF Sound, Untouched
<1>7. Bounds'
  BY <1>1, BoundsKept DEF Inv, Bounds
<1> QED
  BY <1>1, <1>6, <1>7 DEF Inv, FirstErrorReported, Between, Injected, Ending

LEMMA EndKeeps ==
  ASSUME Inv, EndMatch
  PROVE  Inv'
<1>1. /\ pc \in {"matched", "unwind"} /\ frames = << >> /\ heap' = FreeContext(heap, TheContext)
      /\ pc' = "idle" /\ result' = (IF pc = "unwind" THEN "error" ELSE result)
      /\ UNCHANGED <<phase, at, frames, error, first>>
  BY DEF EndMatch
<1>2. Forest(heap, {})
  BY <1>1, SoundBetween DEF Inv
<1>3. Forest(heap', {}) /\ NoContext(heap')
  BY <1>1, <1>2, FreeContextForest DEF NoContext
<1>4. Sound(heap', frames')
  BY <1>1, <1>3, SoundBetween
<1>5. Bounds'
  <2>1. result' \in {"none", "true", "false", "error"}
    BY <1>1 DEF Inv, Bounds
  <2> QED
    BY <1>1, <2>1, BoundsKept DEF Inv
<1> QED
  BY <1>1, <1>3, <1>4, <1>5 DEF Inv, FirstErrorReported, Between, Injected, Ending

\* Sweeping one object leaves what is known of the others.
LEMMA AgreeKept ==
  ASSUME NEW h, NEW g, NEW o, ChangedAt(h, g, o), NEW fr \in Seq(FrameSet), o \notin HeldBy(fr),
         g.global = h.global, h.global[TheContext] # o, NEW A \in Knowledge, NEW e, Agree(h, fr, e, A)
  PROVE  Agree(g, fr, e, A)
<1> PICK sc : sc = A.scope
  OBVIOUS
<1>1. sc \in Seq(ScopeSet) /\ A.ctx \in Promises /\ o \in Obj
  BY KnowledgeFacts DEF ChangedAt
<1>2. Holds(g, CtxOf(g), A.ctx)
  BY <1>1, CtxKept DEF Agree
<1>3. CASE fr = << >>
  BY <1>2, <1>3 DEF Agree
<1>4. CASE fr # << >>
  <2> PICK s, t : s = Pop(fr) /\ t = TopOf(fr)
    OBVIOUS
  <2>1. sc # << >> /\ Matches(h, s, Pop(sc)) /\ Fits(h, t, TopOf(sc), A.open, e)
    BY <1>4 DEF Agree
  <2>2. s \in Seq(FrameSet) /\ t \in FrameSet /\ fr = Append(s, t)
    BY <1>4, PopFacts
  <2>3. o \notin HeldBy(s) /\ o \notin HeldIn(t)
    BY <2>2, HeldFacts
  <2>4. Pop(sc) \in Seq(ScopeSet) /\ TopOf(sc) \in ScopeSet
    BY <1>1, <2>1, PopType
  <2>5. Matches(g, s, Pop(sc))
    BY <2>1, <2>2, <2>3, <2>4, MatchesKept
  <2>6. Fits(g, t, TopOf(sc), A.open, e)
    BY <2>1, <2>2, <2>3, <2>4, FitsKept
  <2> QED
    BY <1>2, <1>4, <2>1, <2>5, <2>6 DEF Agree
<1> QED
  BY <1>3, <1>4

LEMMA SweepKeeps ==
  ASSUME Inv, SweepObject
  PROVE  Inv'
<1> PICK o, g : o = (CHOOSE q \in Obj : q \in Unswept(heap)) /\ g = Sweep(heap, o)
  OBVIOUS
<1>1. /\ Unswept(heap) # {} /\ heap' = g
      /\ UNCHANGED <<pc, phase, at, frames, error, first, result>>
  BY DEF SweepObject, Returned
<1>2. o \in Obj /\ o \in Unswept(heap)
  <2>1. \E q \in Obj : q \in Unswept(heap)
    BY <1>1 DEF Unswept
  <2> QED
    BY <2>1
<1> PICK H : H = HeldBy(frames)
  OBVIOUS
<1>3. Forest(heap, H) /\ heap \in Heaps /\ Frames(frames)
  BY DEF Inv, Sound, Forest
<1>4. Cleared(heap, g, o)
  BY <1>2, <1>3, SweepParts
<1>5. Forest(g, H) /\ g.global = heap.global
  <2>1. Forest(g, H)
    BY <1>2, <1>3, <1>4, SweptForest
  <2> QED
    BY <1>4, <2>1 DEF Cleared
<1>6. ChangedAt(heap, g, o) /\ o \notin H /\ ~IsGlobal(heap.global, o)
  BY <1>2, <1>3, <1>4, SweepChanges
<1>7. Sound(heap', frames')
  BY <1>1, <1>3, <1>5 DEF Sound
<1>8. Bounds'
  BY <1>1, BoundsKept DEF Inv, Bounds
<1>9. Between'
  BY <1>1, <1>5 DEF Inv, Between, NoContext
<1>10. Injected'
  <2>1. SUFFICES ASSUME pc = "inject"
                 PROVE  error = 0 /\ Going(g, frames, first, PathOf(phase)[at])
    BY <1>1 DEF Injected
  <2> PICK A : A = PathOf(phase)[at]
    OBVIOUS
  <2>2. Sound(heap, frames) /\ Agree(heap, frames, first, A) /\ heap.global[TheContext] \in Obj
        /\ error = 0
    BY <2>1 DEF Inv, Injected, Going
  <2>3. A \in Knowledge
    <3>1. Leads(Calls, Begin, End(phase), PathOf(phase)) /\ at \in 1 .. Len(Calls) + 1
      BY CodeLength, CodeTyped DEF Inv, Bounds
    <3> QED
      BY <3>1 DEF Leads
  <2>4. heap.global[TheContext] # o
    BY <1>6, TheContextType DEF IsGlobal
  <2>5. frames \in Seq(FrameSet)
    BY <1>3 DEF Frames
  <2>6. Agree(g, frames, first, A)
    BY <1>5, <1>6, <2>2, <2>3, <2>4, <2>5, AgreeKept
  <2>7. Sound(g, frames)
    BY <1>1, <1>7
  <2> QED
    BY <1>5, <2>2, <2>6, <2>7 DEF Going
<1> QED
  BY <1>1, <1>7, <1>8, <1>9, <1>10 DEF Inv, FirstErrorReported, Ending

LEMMA NextKeeps ==
  ASSUME Inv, [Next]_vars
  PROVE  Inv'
<1>1. CASE SweepObject
  BY <1>1, SweepKeeps
<1>2. CASE CreateEngine \/ DestroyEngine
  BY <1>2, EngineKeeps
<1>3. CASE \E p \in {"Request", "Response"} : CreateMatchContext(p)
  BY <1>3, CreateKeeps DEF Phases
<1>4. CASE EnterFunction \/ CreateBuilder \/ SetField \/ SetObjectOf \/ BuildObject \/ InjectContext
  BY <1>4, CallsKeep
<1>5. CASE EvaluateMatch
  BY <1>5, EvaluateKeeps
<1>6. CASE Unwind
  BY <1>6, UnwindKeeps
<1>7. CASE EndMatch
  BY <1>7, EndKeeps
<1>8. CASE UNCHANGED vars
  BY <1>8 DEF vars, Inv, Bounds, FirstErrorReported, Between, Injected, Ending, Calls,
              InjectRequestContext, InjectResponseContext
<1> QED
  BY <1>1, <1>2, <1>3, <1>4, <1>5, <1>6, <1>7, <1>8 DEF Next

(***************************************************************************)
(* The invariant of the proofs: after any calls, failures and sweeps the   *)
(* runtime is a forest whose roots are the locals of the functions entered *)
(* and the context, and what the typing of the code knows is true of it.   *)
(***************************************************************************)
THEOREM Inductive == Spec => []Inv
<1>1. Init => Inv
  BY InitInv
<1>2. Inv /\ [Next]_vars => Inv'
  BY NextKeeps
<1> QED
  BY <1>1, <1>2, PTL DEF Spec

(***************************************************************************)
(* FirstErrorReported: the setters of ObjectBuilder keep their first error *)
(* until Build() returns it, and nobody replaces it on the way out.        *)
(***************************************************************************)
THEOREM TheFirstError == Spec => []FirstErrorReported
<1>1. Inv => FirstErrorReported
  BY DEF Inv
<1> QED
  BY <1>1, Inductive, PTL

(***************************************************************************)
(* CleanBetweenMatches: when no match is under way the runtime is as it    *)
(* was created, so nothing of one session's match reaches another's and    *)
(* ~RuleEngine frees an empty runtime.                                     *)
(***************************************************************************)
THEOREM RuntimeClean == Spec => []CleanBetweenMatches
<1>1. Inv => CleanBetweenMatches
  <2>1. SUFFICES ASSUME Inv, pc \in {"idle", "ended"}, Returned
                 PROVE  heap = EmptyHeap
    BY DEF CleanBetweenMatches
  <2>2. frames = << >> /\ NoContext(heap) /\ Sound(heap, frames)
    BY <2>1 DEF Inv, Between
  <2>3. Forest(heap, {})
    BY <2>2, SoundBetween
  <2> QED
    BY <2>1, <2>2, <2>3, NothingLeft DEF Returned, NoContext
<1> QED
  BY <1>1, Inductive, PTL

\* What a promise says of the members it names.
LEMMA HoldsMembers ==
  ASSUME NEW h, NEW v, NEW p, Holds(h, v, p)
  PROVE  /\ \A k \in p.one : GetKey(h, v, k) # "undefined"
         /\ \A k, j : <<k, j>> \in p.two => GetKey(h, GetKey(h, v, k), j) # "undefined"
         /\ \A k, j, i : <<k, j, i>> \in p.three =>
              GetKey(h, GetKey(h, GetKey(h, v, k), j), i) # "undefined"
BY DEF Holds, Set

\* What a message object promises, and the ctx object of it.
LEMMA MessageMembers ==
  ASSUME NEW i, NEW j, NEW k, NEW names, NEW q,
         q = Joined(Field(Field(Field(NoPromise, i), j), k), "headers", KeysOf(names))
  PROVE  /\ {i, j, k, "headers"} \subseteq q.one
         /\ \A n \in DOMAIN names : <<"headers", names[n]>> \in q.two
<1> PICK p : p = Field(Field(Field(NoPromise, i), j), k)
  OBVIOUS
<1>1. \A a, x : Field(a, x).one = a.one \cup {x}
  BY DEF Field, Joined
<1>2. p.one = ((NoPromise.one \cup {i}) \cup {j}) \cup {k}
  BY <1>1
<1>3. q.one = p.one \cup {"headers"}
  BY DEF Joined
<1>4. KeysOf(names).one = {names[n] : n \in DOMAIN names}
  BY DEF KeysOf
<1>5. \A x \in KeysOf(names).one : <<"headers", x>> \in q.two
  BY DEF Joined
<1> QED
  BY <1>2, <1>3, <1>4, <1>5

LEMMA JoinedMembers ==
  ASSUME NEW p, NEW k, NEW q, NEW j, j = Joined(p, k, q)
  PROVE  /\ p.one \subseteq j.one /\ k \in j.one
         /\ \A x \in q.one : <<k, x>> \in j.two
         /\ \A x, y : <<x, y>> \in q.two => <<k, x, y>> \in j.three
         /\ \A x, y : x # k /\ <<x, y>> \in p.two => <<x, y>> \in j.two
         /\ \A x, y, z : x # k /\ <<x, y, z>> \in p.three => <<x, y, z>> \in j.three
<1>1. /\ j.one = p.one \cup {k}
      /\ j.two = {x \in p.two : x[1] # k} \cup {<<k, i>> : i \in q.one}
      /\ j.three = {x \in p.three : x[1] # k} \cup {<<k, x[1], x[2]>> : x \in q.two}
  BY DEF Joined
<1>2. \A x, y : <<x, y>> \in q.two => <<k, x, y>> \in j.three
  <2>1. TAKE x, y
  <2>2. HAVE <<x, y>> \in q.two
  <2>3. <<x, y>>[1] = x /\ <<x, y>>[2] = y
    OBVIOUS
  <2> QED
    BY <1>1, <2>2, <2>3
<1>3. \A x, y : x # k /\ <<x, y>> \in p.two => <<x, y>> \in j.two
  BY <1>1
<1>4. \A x, y, z : x # k /\ <<x, y, z>> \in p.three => <<x, y, z>> \in j.three
  BY <1>1
<1> QED
  BY <1>1, <1>2, <1>3, <1>4

\* An object with property k that holds a message.
Carries(p, k, i, j, n, names) ==
  /\ k \in p.one /\ \A x \in {i, j, n, "headers"} : <<k, x>> \in p.two
  /\ \A m \in DOMAIN names : <<k, "headers", names[m]>> \in p.three

LEMMA CarriesMessage ==
  ASSUME NEW p, NEW k, NEW i, NEW j, NEW n, NEW names, NEW q,
         q = Joined(Field(Field(Field(NoPromise, i), j), n), "headers", KeysOf(names))
  PROVE  Carries(Joined(p, k, q), k, i, j, n, names)
<1> PICK d : d = Joined(p, k, q)
  OBVIOUS
<1>1. /\ {i, j, n, "headers"} \subseteq q.one
      /\ \A m \in DOMAIN names : <<"headers", names[m]>> \in q.two
  BY MessageMembers
<1>2. /\ k \in d.one /\ \A x \in q.one : <<k, x>> \in d.two
      /\ \A x, y : <<x, y>> \in q.two => <<k, x, y>> \in d.three
  BY JoinedMembers
<1> QED
  BY <1>1, <1>2 DEF Carries

LEMMA CarriesKept ==
  ASSUME NEW p, NEW k, NEW i, NEW j, NEW n, NEW names, Carries(p, k, i, j, n, names),
         NEW l, l # k, NEW q
  PROVE  Carries(Joined(p, l, q), k, i, j, n, names)
<1> PICK d : d = Joined(p, l, q)
  OBVIOUS
<1>1. /\ p.one \subseteq d.one
      /\ \A x, y : x # l /\ <<x, y>> \in p.two => <<x, y>> \in d.two
      /\ \A x, y, z : x # l /\ <<x, y, z>> \in p.three => <<x, y, z>> \in d.three
  BY JoinedMembers
<1> QED
  BY <1>1 DEF Carries

\* The members of the message that the property holds are set.
LEMMA CarriedMembers ==
  ASSUME NEW p, NEW k, NEW i, NEW j, NEW n, NEW names, Carries(p, k, i, j, n, names),
         NEW v, Holds(heap, v, p)
  PROVE  WholeMessage(Member(v, k), {i, j, n}, names)
<1>1. /\ \A x \in {i, j, n} : GetKey(heap, GetKey(heap, v, k), x) # "undefined"
      /\ \A m \in DOMAIN names :
           GetKey(heap, GetKey(heap, GetKey(heap, v, k), "headers"), names[m]) # "undefined"
  BY HoldsMembers DEF Carries
<1> QED
  BY <1>1 DEF WholeMessage, HasAll, Member

LEMMA CtxCarries ==
  ASSUME NEW p \in Phases
  PROVE  /\ {"phase", "request"} \subseteq CtxPromise(p).one
         /\ Carries(CtxPromise(p), "request", "method", "target", "version", RequestNames)
         /\ p = "Response" =>
              Carries(CtxPromise(p), "response", "status", "reason", "version", ResponseNames)
<1> PICK q, r, j, d :
      /\ q = RequestPromise /\ r = Joined(Field(NoPromise, "phase"), "request", q)
      /\ j = ResponsePromise /\ d = Joined(r, "response", j)
  OBVIOUS
<1>1. Carries(r, "request", "method", "target", "version", RequestNames)
  BY CarriesMessage DEF RequestPromise
<1>2. Carries(d, "request", "method", "target", "version", RequestNames)
  BY <1>1, CarriesKept
<1>3. Carries(d, "response", "status", "reason", "version", ResponseNames)
  BY CarriesMessage DEF ResponsePromise
<1>4. {"phase", "request"} \subseteq r.one
  <2>1. "phase" \in Field(NoPromise, "phase").one
    BY DEF Field, Joined
  <2> QED
    BY <2>1, JoinedMembers
<1>5. r.one \subseteq d.one
  BY JoinedMembers
<1>6. CtxPromise(p) = IF p = "Request" THEN r ELSE d
  BY DEF CtxPromise
<1> QED
  BY <1>1, <1>2, <1>3, <1>4, <1>5, <1>6 DEF Phases

(***************************************************************************)
(* SeesWholeContext: a match expression is evaluated only when every       *)
(* property of ctx and of the messages in it was set, although the setters *)
(* report no error, for all header names but __proto__.                    *)
(***************************************************************************)
THEOREM WholeContextSeen == Spec => []SeesWholeContext
<1>1. Inv => SeesWholeContext
  <2>1. SUFFICES ASSUME Inv, pc = "inject", at > Len(Calls),
                        NEW ctx, ctx = Member(heap.global[TheContext], "ctx")
                 PROVE  /\ HasAll(ctx, {"phase", "request"})
                        /\ WholeMessage(Member(ctx, "request"),
                                        {"method", "target", "version"}, RequestNames)
                        /\ phase = "Response" =>
                             WholeMessage(Member(ctx, "response"),
                                          {"status", "reason", "version"}, ResponseNames)
    BY DEF SeesWholeContext
  <2> PICK p : p = CtxPromise(phase)
    OBVIOUS
  <2>2. Holds(heap, ctx, p)
    BY <2>1, AtEnd DEF CtxOf, Member
  <2>3. /\ {"phase", "request"} \subseteq p.one
        /\ Carries(p, "request", "method", "target", "version", RequestNames)
        /\ phase = "Response" => Carries(p, "response", "status", "reason", "version", ResponseNames)
    BY <2>1, CtxCarries DEF Inv, Bounds
  <2>4. HasAll(ctx, {"phase", "request"})
    BY <2>2, <2>3, HoldsMembers DEF HasAll, Member
  <2> QED
    BY <2>2, <2>3, <2>4, CarriedMembers
<1> QED
  BY <1>1, Inductive, PTL

(***************************************************************************)
(* TypeOK, among them that a local is always a Value, however many calls   *)
(* of the match failed.                                                    *)
(***************************************************************************)
THEOREM TypeCorrect == Spec => []TypeOK
<1>1. Inv => TypeOK
  <2>1. SUFFICES ASSUME Inv
                 PROVE  TypeOK
    OBVIOUS
  <2>2. heap \in Heaps /\ frames \in Seq(FrameSet)
    BY <2>1 DEF Inv, Sound, Forest, Frames
  <2>3. \A f \in DOMAIN frames : \A n \in DOMAIN frames[f] : frames[f][n].x \in Values
    BY <2>2, FrameFacts
  <2> QED
    BY <2>1, <2>2, <2>3 DEF Inv, Bounds, TypeOK
<1> QED
  BY <1>1, Inductive, PTL

=============================================================================
