------------------------- MODULE ValueClientProofs -------------------------
(***************************************************************************)
(* Theorems about ValueClient: what holds of the reference counts and the  *)
(* contexts whatever the code over the binding calls.                      *)
(***************************************************************************)
EXTENDS ValueClient, FiniteSetTheorems, WellFoundedInduction, TLAPS

-----------------------------------------------------------------------------
(***************************************************************************)
(* Counting references.                                                    *)
(***************************************************************************)
Same(a, b) == IF a = b THEN 1 ELSE 0

\* The properties and the contexts that refer to o.
PropsTo(prop, o) == {x \in Obj \X Keys : prop[x[1]][x[2]] = o}
PropRefs(prop, o) == Cardinality(PropsTo(prop, o))
GlobalsTo(global, o) == {c \in Ctx : global[c] = o}
GlobalRefs(global, o) == Cardinality(GlobalsTo(global, o))
HoldersOf(slots, o) == {s \in Slot : slots[s].val = o}
SlotRefs(slots, o) == Cardinality(HoldersOf(slots, o))

\* Two functions that differ at one place at most.
OnlyAt(f, g, S, c) == \A b \in S : b # c => g[b] = f[b]
OnlyAtKey(f, g, o, k) == \A x \in Obj, j \in Keys : x # o \/ j # k => g[x][j] = f[x][j]

\* A count from which a is taken and to which b is added.
Moved(x, y, a, b) == y = x - a + b

\* Two sets that differ in d at most.
LEMMA CountDiffers ==
  ASSUME NEW A, NEW B, NEW d, IsFiniteSet(A), IsFiniteSet(B), A \ {d} = B \ {d}
  PROVE  /\ Cardinality(A) \in Nat /\ Cardinality(B) \in Nat
         /\ Cardinality(B) = Cardinality(A) - (IF d \in A THEN 1 ELSE 0)
                                            + (IF d \in B THEN 1 ELSE 0)
<1>1. Cardinality(A) \in Nat /\ Cardinality(B) \in Nat
  BY FS_CardinalityType
<1>2. Cardinality(A \ {d}) = IF d \in A THEN Cardinality(A) - 1 ELSE Cardinality(A)
  BY FS_RemoveElement
<1>3. Cardinality(B \ {d}) = IF d \in B THEN Cardinality(B) - 1 ELSE Cardinality(B)
  BY FS_RemoveElement
<1>4. Cardinality(A \ {d}) = Cardinality(B \ {d})
  BY Zenon
<1> QED
  BY <1>1, <1>2, <1>3, <1>4

LEMMA CountZero ==
  ASSUME NEW A, IsFiniteSet(A)
  PROVE  Cardinality(A) \in Nat /\ (Cardinality(A) = 0 <=> A = {})
BY FS_CardinalityType, FS_EmptySet

LEMMA PropsFinite ==
  ASSUME NEW prop, NEW o
  PROVE  IsFiniteSet(PropsTo(prop, o))
<1>1. IsFiniteSet(Obj \X Keys)
  BY HeapAssumption, FS_Product
<1>2. PropsTo(prop, o) \in SUBSET (Obj \X Keys)
  BY DEF PropsTo
<1> QED
  BY <1>1, <1>2, FS_Subset

LEMMA PropRefsZero ==
  ASSUME NEW prop, NEW o
  PROVE  /\ PropRefs(prop, o) \in Nat
         /\ PropRefs(prop, o) = 0 <=> \A x \in Obj, k \in Keys : prop[x][k] # o
<1>1. PropRefs(prop, o) \in Nat /\ (PropRefs(prop, o) = 0 <=> PropsTo(prop, o) = {})
  BY PropsFinite, CountZero DEF PropRefs
<1>2. ASSUME NEW x \in Obj, NEW k \in Keys, prop[x][k] = o PROVE PropsTo(prop, o) # {}
  <2>1. <<x, k>> \in Obj \X Keys /\ <<x, k>>[1] = x /\ <<x, k>>[2] = k
    OBVIOUS
  <2> QED
    BY <2>1, <1>2 DEF PropsTo
<1>3. ASSUME NEW z \in PropsTo(prop, o) PROVE \E x \in Obj, k \in Keys : prop[x][k] = o
  BY DEF PropsTo
<1> QED
  BY <1>1, <1>2, <1>3, Zenon

LEMMA PropRefsSet ==
  ASSUME NEW prop, NEW new, NEW o \in Obj, NEW k \in Keys, NEW q,
         OnlyAtKey(prop, new, o, k)
  PROVE  Moved(PropRefs(prop, q), PropRefs(new, q), Same(prop[o][k], q), Same(new[o][k], q))
<1> DEFINE A == PropsTo(prop, q)
           B == PropsTo(new, q)
           d == <<o, k>>
<1>1. d \in Obj \X Keys /\ d[1] = o /\ d[2] = k
  OBVIOUS
<1>2. A \ {d} = B \ {d}
  <2>1. ASSUME NEW z \in Obj \X Keys, z # d
        PROVE  new[z[1]][z[2]] = prop[z[1]][z[2]]
    <3>1. z[1] \in Obj /\ z[2] \in Keys /\ z = <<z[1], z[2]>>
      OBVIOUS
    <3> QED
      BY <2>1, <3>1 DEF OnlyAtKey
  <2> QED
    BY <2>1, Zenon DEF PropsTo
<1>3. (d \in A <=> prop[o][k] = q) /\ (d \in B <=> new[o][k] = q)
  BY <1>1 DEF PropsTo
<1>4. IsFiniteSet(A) /\ IsFiniteSet(B)
  BY PropsFinite, Zenon
<1>5. PropRefs(prop, q) = Cardinality(A) /\ PropRefs(new, q) = Cardinality(B)
  BY Zenon DEF PropRefs
<1> HIDE DEF A, B, d
<1>6. Cardinality(A) \in Nat /\ Cardinality(B) \in Nat
      /\ Cardinality(B) = Cardinality(A) - (IF d \in A THEN 1 ELSE 0)
                                          + (IF d \in B THEN 1 ELSE 0)
  BY <1>2, <1>4, CountDiffers
<1> QED
  BY <1>3, <1>5, <1>6 DEF Same, Moved

\* What refers to q from one object's properties is counted key by key.
LEMMA PropRefsSweep ==
  ASSUME NEW prop, NEW new, NEW o \in Obj, NEW q \in Obj,
         new[o] = NoProperties, OnlyAt(prop, new, Obj, o)
  PROVE  /\ Cardinality({k \in Keys : prop[o][k] = q}) \in Nat
         /\ PropRefs(prop, q) = PropRefs(new, q) + Cardinality({k \in Keys : prop[o][k] = q})
<1> DEFINE K == {k \in Keys : prop[o][k] = q}
           A == PropsTo(prop, q)
           B == PropsTo(new, q)
           D == {x \in Obj \X Keys : x[1] = o /\ prop[o][x[2]] = q}
           f == [k \in K |-> <<o, k>>]
<1>1. q # "absent"
  BY HeapAssumption
<1>2. \A k \in Keys : new[o][k] = "absent"
  BY DEF NoProperties
<1>4. IsFiniteSet(K) /\ Cardinality(K) \in Nat
  <2>1. K \in SUBSET Keys /\ IsFiniteSet(Keys)
    BY HeapAssumption
  <2> QED
    BY <2>1, FS_Subset, FS_CardinalityType
<1>5. IsFiniteSet(A) /\ IsFiniteSet(B)
  BY PropsFinite, Zenon
<1>6. IsFiniteSet(D) /\ Cardinality(D) = Cardinality(K)
  <2>1. f \in [K -> D] /\ \A k \in K : f[k] = <<o, k>>
    <3>1. ASSUME NEW k \in K PROVE <<o, k>> \in D
      OBVIOUS
    <3> QED
      BY <3>1, Zenon
  <2>2. \A k, j \in K : f[k] = f[j] => k = j
    BY <2>1
  <2>3. ASSUME NEW x \in D PROVE \E k \in K : f[k] = x
    <3>1. x[2] \in K /\ x = <<o, x[2]>>
      OBVIOUS
    <3> QED
      BY <3>1, <2>1
  <2>4. f \in Bijection(K, D)
    BY <2>1, <2>2, <2>3, Zenon DEF Bijection, Injection, Surjection, IsInjective
  <2>5. ExistsBijection(K, D)
    BY <2>4, Zenon DEF ExistsBijection
  <2> QED
    BY <1>4, <2>5, FS_Bijection
<1>7. A = B \cup D /\ B \cap D = {}
  <2>1. ASSUME NEW x \in Obj \X Keys
        PROVE  /\ x \in A <=> x \in B \/ x \in D
               /\ ~(x \in B /\ x \in D)
    <3>1. x[1] \in Obj /\ x[2] \in Keys
      OBVIOUS
    <3>2. CASE x[1] = o
      BY <3>1, <3>2, <1>1, <1>2 DEF PropsTo
    <3>3. CASE x[1] # o
      BY <3>1, <3>3 DEF PropsTo, OnlyAt
    <3> QED
      BY <3>2, <3>3
  <2>2. A \subseteq Obj \X Keys /\ B \subseteq Obj \X Keys /\ D \subseteq Obj \X Keys
    BY Zenon DEF PropsTo
  <2> HIDE DEF A, B, D
  <2> QED
    BY <2>1, <2>2, Zenon
<1> HIDE DEF A, B, D, K, f
<1>8. Cardinality(A) = Cardinality(B) + Cardinality(D) - Cardinality(B \cap D)
  BY <1>5, <1>6, <1>7, FS_Union
<1>9. Cardinality(B \cap D) = 0 /\ Cardinality(B) \in Nat
  BY <1>5, <1>7, FS_EmptySet, FS_CardinalityType
<1>10. PropRefs(prop, q) = Cardinality(A) /\ PropRefs(new, q) = Cardinality(B)
  BY Zenon DEF PropRefs, A, B
<1>11. PropRefs(prop, q) = PropRefs(new, q) + Cardinality(K)
  BY <1>4, <1>6, <1>8, <1>9, <1>10
<1> QED
  BY <1>4, <1>11, Zenon DEF K

LEMMA GlobalRefsZero ==
  ASSUME NEW global, NEW o
  PROVE  /\ IsFiniteSet(GlobalsTo(global, o))
         /\ GlobalRefs(global, o) \in Nat
         /\ GlobalRefs(global, o) = 0 <=> \A c \in Ctx : global[c] # o
<1>1. GlobalsTo(global, o) \in SUBSET Ctx
  BY DEF GlobalsTo
<1>2. IsFiniteSet(GlobalsTo(global, o))
  BY <1>1, HeapAssumption, FS_Subset
<1>3. GlobalRefs(global, o) \in Nat /\ (GlobalRefs(global, o) = 0 <=> GlobalsTo(global, o) = {})
  BY <1>2, CountZero DEF GlobalRefs
<1> QED
  BY <1>2, <1>3, Zenon DEF GlobalsTo

LEMMA GlobalRefsSet ==
  ASSUME NEW global, NEW new, NEW c \in Ctx, NEW q,
         OnlyAt(global, new, Ctx, c)
  PROVE  Moved(GlobalRefs(global, q), GlobalRefs(new, q), Same(global[c], q), Same(new[c], q))
<1> DEFINE A == GlobalsTo(global, q)
           B == GlobalsTo(new, q)
<1>1. A \ {c} = B \ {c}
  BY Zenon DEF GlobalsTo, OnlyAt
<1>2. (c \in A <=> global[c] = q) /\ (c \in B <=> new[c] = q)
  BY Zenon DEF GlobalsTo
<1>3. IsFiniteSet(A) /\ IsFiniteSet(B)
  BY GlobalRefsZero, Zenon
<1>4. GlobalRefs(global, q) = Cardinality(A) /\ GlobalRefs(new, q) = Cardinality(B)
  BY Zenon DEF GlobalRefs
<1> HIDE DEF A, B
<1>5. Cardinality(A) \in Nat /\ Cardinality(B) \in Nat
      /\ Cardinality(B) = Cardinality(A) - (IF c \in A THEN 1 ELSE 0)
                                          + (IF c \in B THEN 1 ELSE 0)
  BY <1>1, <1>3, CountDiffers
<1> QED
  BY <1>2, <1>4, <1>5 DEF Same, Moved

LEMMA SlotRefsZero ==
  ASSUME NEW slots, NEW o
  PROVE  /\ IsFiniteSet(HoldersOf(slots, o))
         /\ SlotRefs(slots, o) \in Nat
         /\ SlotRefs(slots, o) = 0 <=> \A s \in Slot : slots[s].val # o
<1>1. HoldersOf(slots, o) \in SUBSET Slot
  BY DEF HoldersOf
<1>2. IsFiniteSet(HoldersOf(slots, o))
  BY <1>1, ClientAssumption, FS_Subset
<1>3. SlotRefs(slots, o) \in Nat /\ (SlotRefs(slots, o) = 0 <=> HoldersOf(slots, o) = {})
  BY <1>2, CountZero DEF SlotRefs
<1> QED
  BY <1>2, <1>3, Zenon DEF HoldersOf

LEMMA SlotRefsSet ==
  ASSUME NEW slots, NEW new, NEW s \in Slot, NEW q,
         OnlyAt(slots, new, Slot, s)
  PROVE  Moved(SlotRefs(slots, q), SlotRefs(new, q), Same(slots[s].val, q), Same(new[s].val, q))
<1> DEFINE A == HoldersOf(slots, q)
           B == HoldersOf(new, q)
<1>1. A \ {s} = B \ {s}
  BY Zenon DEF HoldersOf, OnlyAt
<1>2. (s \in A <=> slots[s].val = q) /\ (s \in B <=> new[s].val = q)
  BY Zenon DEF HoldersOf
<1>3. IsFiniteSet(A) /\ IsFiniteSet(B)
  BY SlotRefsZero, Zenon
<1>4. SlotRefs(slots, q) = Cardinality(A) /\ SlotRefs(new, q) = Cardinality(B)
  BY Zenon DEF SlotRefs
<1> HIDE DEF A, B
<1>5. Cardinality(A) \in Nat /\ Cardinality(B) \in Nat
      /\ Cardinality(B) = Cardinality(A) - (IF s \in A THEN 1 ELSE 0)
                                          + (IF s \in B THEN 1 ELSE 0)
  BY <1>1, <1>3, CountDiffers
<1> QED
  BY <1>2, <1>4, <1>5 DEF Same, Moved

-----------------------------------------------------------------------------
(***************************************************************************)
(* The parts of a heap, and what a change of one of them leaves alone.     *)
(***************************************************************************)
Parts(k, h, c, p, g, e) ==
  [kind |-> k, home |-> h, count |-> c, prop |-> p, global |-> g, pending |-> e]

KindFcns == [Obj -> Kinds \cup {"free"}]
HomeFcns == [Obj -> Ctx \cup {"none"}]
CountFcns == [Obj -> Int]
PropFcns == [Obj -> [Keys -> JSValue \cup {"absent"}]]
GlobalFcns == [Ctx -> Obj \cup {"none"}]
Pendings == JSValue \cup {"none"}

LEMMA HeapParts ==
  ASSUME NEW h \in Heaps
  PROVE  /\ h.kind \in KindFcns /\ h.home \in HomeFcns /\ h.count \in CountFcns
         /\ h.prop \in PropFcns /\ h.global \in GlobalFcns /\ h.pending \in Pendings
         /\ h = Parts(h.kind, h.home, h.count, h.prop, h.global, h.pending)
BY DEF Heaps, Parts, KindFcns, HomeFcns, CountFcns, PropFcns, GlobalFcns, Pendings

LEMMA PartsFields ==
  ASSUME NEW k, NEW m, NEW c, NEW p, NEW g, NEW e
  PROVE  LET h == Parts(k, m, c, p, g, e)
         IN  /\ h.kind = k /\ h.home = m /\ h.count = c
             /\ h.prop = p /\ h.global = g /\ h.pending = e
BY DEF Parts

LEMMA PartsHeap ==
  ASSUME NEW k \in KindFcns, NEW m \in HomeFcns, NEW c \in CountFcns,
         NEW p \in PropFcns, NEW g \in GlobalFcns, NEW e \in Pendings
  PROVE  Parts(k, m, c, p, g, e) \in Heaps
BY DEF Heaps, Parts, KindFcns, HomeFcns, CountFcns, PropFcns, GlobalFcns, Pendings

LEMMA DupParts ==
  ASSUME NEW h \in Heaps, NEW v \in Obj
  PROVE  Dup(h, v) = Parts(h.kind, h.home, [h.count EXCEPT ![v] = @ + 1],
                           h.prop, h.global, h.pending)
<1> PICK k, m, c, p, g, e : h = Parts(k, m, c, p, g, e)
  BY HeapParts
<1> QED
  BY DEF Dup, Parts

LEMMA FreeParts ==
  ASSUME NEW h \in Heaps, NEW v \in Obj
  PROVE  Free(h, v) = Parts(h.kind, h.home, [h.count EXCEPT ![v] = @ - 1],
                            h.prop, h.global, h.pending)
<1> PICK k, m, c, p, g, e : h = Parts(k, m, c, p, g, e)
  BY HeapParts
<1> QED
  BY DEF Free, Parts

LEMMA PendingParts ==
  ASSUME NEW h \in Heaps, NEW v
  PROVE  [h EXCEPT !.pending = v] =
           Parts(h.kind, h.home, h.count, h.prop, h.global, v)
<1> PICK k, m, c, p, g, e : h = Parts(k, m, c, p, g, e)
  BY HeapParts
<1> QED
  BY DEF Parts

LEMMA GlobalParts ==
  ASSUME NEW h \in Heaps, NEW c, NEW v
  PROVE  [h EXCEPT !.global[c] = v] =
           Parts(h.kind, h.home, h.count, h.prop, [h.global EXCEPT ![c] = v], h.pending)
<1> PICK k, m, n, p, g, e : h = Parts(k, m, n, p, g, e)
  BY HeapParts
<1> QED
  BY DEF Parts

Stored(h, o, k, v) == [h EXCEPT !.prop[o][k] = v]

LEMMA PropParts ==
  ASSUME NEW h \in Heaps, NEW o, NEW k, NEW v
  PROVE  Stored(h, o, k, v) =
           Parts(h.kind, h.home, h.count, [h.prop EXCEPT ![o][k] = v], h.global, h.pending)
<1> PICK j, m, n, p, g, e : h = Parts(j, m, n, p, g, e)
  BY HeapParts
<1> QED
  BY DEF Parts, Stored

\* One part of a heap at a time.
LEMMA PartsKind ==
  ASSUME NEW k, NEW m, NEW c, NEW p, NEW g, NEW e, NEW o, NEW x
  PROVE  [Parts(k, m, c, p, g, e) EXCEPT !.kind[o] = x] =
           Parts([k EXCEPT ![o] = x], m, c, p, g, e)
BY DEF Parts

LEMMA PartsHome ==
  ASSUME NEW k, NEW m, NEW c, NEW p, NEW g, NEW e, NEW o, NEW x
  PROVE  [Parts(k, m, c, p, g, e) EXCEPT !.home[o] = x] =
           Parts(k, [m EXCEPT ![o] = x], c, p, g, e)
BY DEF Parts

LEMMA PartsCount ==
  ASSUME NEW k, NEW m, NEW c, NEW p, NEW g, NEW e, NEW o, NEW x
  PROVE  /\ [Parts(k, m, c, p, g, e) EXCEPT !.count[o] = x] =
              Parts(k, m, [c EXCEPT ![o] = x], p, g, e)
         /\ [Parts(k, m, c, p, g, e) EXCEPT !.count = x] = Parts(k, m, x, p, g, e)
BY DEF Parts

LEMMA PartsProp ==
  ASSUME NEW k, NEW m, NEW c, NEW p, NEW g, NEW e, NEW o, NEW x
  PROVE  [Parts(k, m, c, p, g, e) EXCEPT !.prop[o] = x] =
           Parts(k, m, c, [p EXCEPT ![o] = x], g, e)
BY DEF Parts

\* Several at once.
Remade(h, o, x, y, z) == [h EXCEPT !.kind[o] = x, !.home[o] = y, !.count[o] = z]
Swept(h, o, n, x, y, z) ==
  [h EXCEPT !.count = n, !.kind[o] = x, !.home[o] = y, !.prop[o] = z]

LEMMA PartsNew ==
  ASSUME NEW k, NEW m, NEW c, NEW p, NEW g, NEW e, NEW o, NEW x, NEW y, NEW z,
         NEW h, h = Parts(k, m, c, p, g, e)
  PROVE  Remade(h, o, x, y, z) =
           Parts([k EXCEPT ![o] = x], [m EXCEPT ![o] = y], [c EXCEPT ![o] = z], p, g, e)
<1> DEFINE h0 == Parts(k, m, c, p, g, e)
           h1 == Parts([k EXCEPT ![o] = x], m, c, p, g, e)
           h2 == Parts([k EXCEPT ![o] = x], [m EXCEPT ![o] = y], c, p, g, e)
           h3 == Parts([k EXCEPT ![o] = x], [m EXCEPT ![o] = y], [c EXCEPT ![o] = z], p, g, e)
<1>1. [h0 EXCEPT !.kind[o] = x] = h1
  BY PartsKind
<1>2. [h1 EXCEPT !.home[o] = y] = h2
  BY DEF Parts
<1>3. [h2 EXCEPT !.count[o] = z] = h3
  BY DEF Parts
<1> HIDE DEF h0, h1, h2, h3
<1>4. [h0 EXCEPT !.kind[o] = x, !.home[o] = y, !.count[o] = z] =
        [[[h0 EXCEPT !.kind[o] = x] EXCEPT !.home[o] = y] EXCEPT !.count[o] = z]
  OBVIOUS
<1>5. [h0 EXCEPT !.kind[o] = x, !.home[o] = y, !.count[o] = z] = h3
  BY <1>1, <1>2, <1>3, <1>4
<1> QED
  BY <1>5 DEF h0, h3, Remade

LEMMA PartsSweep ==
  ASSUME NEW k, NEW m, NEW c, NEW p, NEW g, NEW e, NEW o, NEW x, NEW y, NEW z, NEW n,
         NEW h, h = Parts(k, m, c, p, g, e)
  PROVE  Swept(h, o, n, x, y, z) =
           Parts([k EXCEPT ![o] = x], [m EXCEPT ![o] = y], n, [p EXCEPT ![o] = z], g, e)
<1> DEFINE h0 == Parts(k, m, c, p, g, e)
           h1 == Parts(k, m, n, p, g, e)
           h2 == Parts([k EXCEPT ![o] = x], m, n, p, g, e)
           h3 == Parts([k EXCEPT ![o] = x], [m EXCEPT ![o] = y], n, p, g, e)
           h4 == Parts([k EXCEPT ![o] = x], [m EXCEPT ![o] = y], n, [p EXCEPT ![o] = z], g, e)
<1>1. [h0 EXCEPT !.count = n] = h1
  BY DEF Parts
<1>2. [h1 EXCEPT !.kind[o] = x] = h2
  BY DEF Parts
<1>3. [h2 EXCEPT !.home[o] = y] = h3
  BY DEF Parts
<1>4. [h3 EXCEPT !.prop[o] = z] = h4
  BY DEF Parts
<1> HIDE DEF h0, h1, h2, h3, h4
<1>5. [h0 EXCEPT !.count = n, !.kind[o] = x, !.home[o] = y, !.prop[o] = z] =
        [[[[h0 EXCEPT !.count = n] EXCEPT !.kind[o] = x] EXCEPT !.home[o] = y]
           EXCEPT !.prop[o] = z]
  OBVIOUS
<1>6. [h0 EXCEPT !.count = n, !.kind[o] = x, !.home[o] = y, !.prop[o] = z] = h4
  BY <1>1, <1>2, <1>3, <1>4, <1>5
<1> QED
  BY <1>6 DEF h0, h4, Swept

LEMMA NewParts ==
  ASSUME NEW h \in Heaps, NEW c, NEW kind, NEW r \in New(h, c, kind)
  PROVE  /\ r.v \in Obj /\ h.kind[r.v] = "free"
         /\ r.h = Parts([h.kind EXCEPT ![r.v] = kind], [h.home EXCEPT ![r.v] = c],
                        [h.count EXCEPT ![r.v] = 1], h.prop, h.global, h.pending)
<1> DEFINE o == CHOOSE o \in Obj : o \in Unused(h)
           g == [h EXCEPT !.kind[o] = kind, !.home[o] = c, !.count[o] = 1]
<1>1. Unused(h) # {} /\ r = [h |-> g, v |-> o]
  BY Zenon DEF New
<1>2. o \in Obj /\ o \in Unused(h)
  BY <1>1, Zenon DEF Unused
<1> HIDE DEF o
<1>3. g = Parts([h.kind EXCEPT ![o] = kind], [h.home EXCEPT ![o] = c],
                [h.count EXCEPT ![o] = 1], h.prop, h.global, h.pending)
  <2>1. PICK k, m, n, p, q, e : h = Parts(k, m, n, p, q, e)
    BY HeapParts
  <2>2. /\ h.kind = k /\ h.home = m /\ h.count = n /\ h.prop = p /\ h.global = q
        /\ h.pending = e
    BY <2>1, PartsFields
  <2>3. g = Parts([k EXCEPT ![o] = kind], [m EXCEPT ![o] = c], [n EXCEPT ![o] = 1], p, q, e)
    <3>1. g = Remade(h, o, kind, c, 1)
      BY DEF Remade
    <3> QED
      BY <2>1, <3>1, PartsNew
  <2> QED
    BY <2>2, <2>3
<1> HIDE DEF g
<1>4. r.h = g /\ r.v = o
  BY <1>1
<1> QED
  BY <1>2, <1>3, <1>4, Zenon DEF Unused

LEMMA SweepParts ==
  ASSUME NEW h \in Heaps, NEW o \in Obj
  PROVE  Sweep(h, o) =
           Parts([h.kind EXCEPT ![o] = "free"], [h.home EXCEPT ![o] = "none"],
                 [q \in Obj |-> h.count[q] - Cardinality({k \in Keys : h.prop[o][k] = q})],
                 [h.prop EXCEPT ![o] = NoProperties], h.global, h.pending)
<1> DEFINE n == [q \in Obj |-> h.count[q] - Cardinality({k \in Keys : h.prop[o][k] = q})]
<1>1. Sweep(h, o) = [h EXCEPT !.count = n, !.kind[o] = "free",
                              !.home[o] = "none", !.prop[o] = NoProperties]
  BY DEF Sweep
<1> HIDE DEF n
<1>2. PICK k, m, c, p, g, e : h = Parts(k, m, c, p, g, e)
  BY HeapParts
<1>3. h.kind = k /\ h.home = m /\ h.count = c /\ h.prop = p /\ h.global = g /\ h.pending = e
  BY <1>2, PartsFields
<1>4. Sweep(h, o) = Parts([k EXCEPT ![o] = "free"], [m EXCEPT ![o] = "none"],
                          n, [p EXCEPT ![o] = NoProperties], g, e)
  <2>1. Sweep(h, o) = Swept(h, o, n, "free", "none", NoProperties)
    BY <1>1 DEF Swept
  <2> QED
    BY <1>2, <2>1, PartsSweep
<1> QED
  BY <1>3, <1>4 DEF n

-----------------------------------------------------------------------------
(***************************************************************************)
(* A heap in order, when n[o] references to o are held outside it.  While  *)
(* a method runs, n also counts what its local variables own.              *)
(***************************************************************************)
Plus(n, v) == IF v \in Obj THEN [n EXCEPT ![v] = @ + 1] ELSE n

RefsTo(h, n, o) ==
  n[o] + PropRefs(h.prop, o) + GlobalRefs(h.global, o) + Same(h.pending, o)

Balanced(h, n) ==
  /\ n \in [Obj -> Nat]
  /\ \A o \in Obj : h.count[o] = RefsTo(h, n, o)
  /\ \A o \in Obj : h.kind[o] = "free" => h.count[o] = 0 /\ h.prop[o] = NoProperties

Apart(h) ==
  /\ \A o \in Obj, k \in Keys : h.prop[o][k] \in Obj => h.home[h.prop[o][k]] = h.home[o]
  /\ \A c \in Ctx : h.global[c] \in Obj => h.home[h.global[c]] = c

Good(h, n) == h \in Heaps /\ Balanced(h, n) /\ Apart(h)

\* What a call never does to the objects there are.
Kept(h, g) ==
  /\ g.global = h.global
  /\ \A o \in Obj : h.kind[o] # "free" => g.kind[o] = h.kind[o] /\ g.home[o] = h.home[o]

LEMMA KeptTrans ==
  ASSUME NEW f, NEW g, NEW h, Kept(f, g), Kept(g, h)
  PROVE  Kept(f, h)
BY Zenon DEF Kept

LEMMA KeptSame == \A h : Kept(h, h)
BY Zenon DEF Kept

LEMMA PlusType ==
  ASSUME NEW n \in [Obj -> Nat], NEW v
  PROVE  /\ Plus(n, v) \in [Obj -> Nat]
         /\ \A o \in Obj : Plus(n, v)[o] = n[o] + Same(v, o)
BY DEF Plus, Same

LEMMA NotObjects ==
  /\ "none" \notin Obj /\ "absent" \notin Obj /\ "undefined" \notin Obj
  /\ "undefined" \in JSValue /\ Obj \subseteq JSValue
  /\ "none" \notin JSValue /\ "absent" \notin JSValue /\ Immediate \subseteq JSValue
  /\ \A v \in Immediate : v \notin Obj
BY HeapAssumption DEF JSValue

LEMMA PlusNothing == \A n, v : v \notin Obj => Plus(n, v) = n
BY Zenon DEF Plus

\* The parts of a reference count.
LEMMA RefsParts ==
  ASSUME NEW h, NEW n \in [Obj -> Nat], NEW o \in Obj
  PROVE  /\ n[o] \in Nat /\ PropRefs(h.prop, o) \in Nat /\ GlobalRefs(h.global, o) \in Nat
         /\ Same(h.pending, o) \in 0 .. 1 /\ RefsTo(h, n, o) \in Nat
         /\ RefsTo(h, n, o) = 0 =>
              /\ n[o] = 0 /\ h.pending # o
              /\ \A x \in Obj, k \in Keys : h.prop[x][k] # o
              /\ \A c \in Ctx : h.global[c] # o
<1>1. PropRefs(h.prop, o) \in Nat /\ GlobalRefs(h.global, o) \in Nat
  BY PropRefsZero, GlobalRefsZero
<1>2. n[o] \in Nat /\ Same(h.pending, o) \in 0 .. 1
      /\ (Same(h.pending, o) = 0 => h.pending # o)
  BY DEF Same
<1>3. RefsTo(h, n, o) \in Nat
  BY <1>1, <1>2 DEF RefsTo
<1>4. ASSUME RefsTo(h, n, o) = 0
      PROVE  /\ n[o] = 0 /\ Same(h.pending, o) = 0
             /\ PropRefs(h.prop, o) = 0 /\ GlobalRefs(h.global, o) = 0
  <2> DEFINE a == n[o]
             b == PropRefs(h.prop, o)
             c == GlobalRefs(h.global, o)
             d == Same(h.pending, o)
  <2>1. a \in Nat /\ b \in Nat /\ c \in Nat /\ d \in 0 .. 1 /\ a + b + c + d = 0
    BY <1>1, <1>2, <1>4, Zenon DEF RefsTo
  <2> HIDE DEF a, b, c, d
  <2>2. a = 0 /\ b = 0 /\ c = 0 /\ d = 0
    BY <2>1
  <2> QED
    BY <2>2 DEF a, b, c, d
<1> QED
  BY <1>1, <1>2, <1>3, <1>4, PropRefsZero, GlobalRefsZero, Zenon

\* Nothing refers to an object that counts nothing.
LEMMA NoRefs ==
  ASSUME NEW h, NEW n, Good(h, n), NEW o \in Obj, h.count[o] = 0
  PROVE  /\ n[o] = 0 /\ h.pending # o
         /\ \A x \in Obj, k \in Keys : h.prop[x][k] # o
         /\ \A c \in Ctx : h.global[c] # o
<1>1. n \in [Obj -> Nat] /\ RefsTo(h, n, o) = 0
  BY DEF Good, Balanced
<1> QED
  BY <1>1, RefsParts

LEMMA FreeNoRefs ==
  ASSUME NEW h, NEW n, Good(h, n), NEW o \in Obj, h.kind[o] = "free"
  PROVE  /\ n[o] = 0 /\ h.pending # o /\ h.count[o] = 0 /\ h.prop[o] = NoProperties
         /\ \A x \in Obj, k \in Keys : h.prop[x][k] # o
         /\ \A c \in Ctx : h.global[c] # o
<1>1. h.count[o] = 0 /\ h.prop[o] = NoProperties
  BY DEF Good, Balanced
<1> QED
  BY <1>1, NoRefs

\* A heap with the same references and other counts.
LEMMA DupGood ==
  ASSUME NEW h, NEW n, Good(h, n), NEW v \in JSValue, v \in Obj => h.kind[v] # "free"
  PROVE  Good(Dup(h, v), Plus(n, v)) /\ Kept(h, Dup(h, v)) /\ Dup(h, v).pending = h.pending
<1>1. CASE v \notin Obj
  BY <1>1, KeptSame, PlusNothing DEF Dup
<1>2. CASE v \in Obj
  <2> DEFINE g == Dup(h, v)
             c == [h.count EXCEPT ![v] = @ + 1]
  <2>1. h \in Heaps /\ n \in [Obj -> Nat]
    BY DEF Good, Balanced
  <2>2. g = Parts(h.kind, h.home, c, h.prop, h.global, h.pending)
    BY <1>2, <2>1, DupParts
  <2>3. /\ h.kind \in KindFcns /\ h.home \in HomeFcns /\ h.count \in CountFcns
        /\ h.prop \in PropFcns /\ h.global \in GlobalFcns /\ h.pending \in Pendings
    BY <2>1, HeapParts
  <2>4. c \in CountFcns /\ \A o \in Obj : c[o] = h.count[o] + Same(v, o)
    BY <2>3, <1>2 DEF CountFcns, Same
  <2> HIDE DEF c, g
  <2>5. /\ g.kind = h.kind /\ g.home = h.home /\ g.count = c
        /\ g.prop = h.prop /\ g.global = h.global /\ g.pending = h.pending
    BY <2>2, PartsFields
  <2>6. g \in Heaps
    BY <2>2, <2>3, <2>4, PartsHeap
  <2>7. Plus(n, v) \in [Obj -> Nat] /\ \A o \in Obj : Plus(n, v)[o] = n[o] + Same(v, o)
    BY <2>1, PlusType
  <2>8. ASSUME NEW o \in Obj PROVE g.count[o] = RefsTo(g, Plus(n, v), o)
    <3>1. h.count[o] = RefsTo(h, n, o)
      BY DEF Good, Balanced
    <3>2. /\ n[o] \in Nat /\ PropRefs(h.prop, o) \in Nat /\ GlobalRefs(h.global, o) \in Nat
          /\ Same(h.pending, o) \in 0 .. 1
      BY <2>1, RefsParts
    <3>3. Same(v, o) \in 0 .. 1
      BY DEF Same
    <3> QED
      BY <3>1, <3>2, <3>3, <2>4, <2>5, <2>7 DEF RefsTo
  <2>9. ASSUME NEW o \in Obj, g.kind[o] = "free"
        PROVE  g.count[o] = 0 /\ g.prop[o] = NoProperties
    <3>1. h.count[o] = 0 /\ h.prop[o] = NoProperties /\ o # v
      BY <1>2, <2>9, <2>5 DEF Good, Balanced
    <3> QED
      BY <3>1, <2>4, <2>5 DEF Same
  <2>10. Balanced(g, Plus(n, v))
    BY <2>7, <2>8, <2>9, Zenon DEF Balanced
  <2>11. Apart(g)
    BY <2>5 DEF Good, Apart
  <2>12. Kept(h, g)
    BY <2>5, Zenon DEF Kept
  <2> QED
    BY <2>5, <2>6, <2>10, <2>11, <2>12 DEF Good, g
<1> QED
  BY <1>1, <1>2

LEMMA FreeGood ==
  ASSUME NEW h, NEW n \in [Obj -> Nat], NEW v \in JSValue, Good(h, Plus(n, v))
  PROVE  Good(Free(h, v), n) /\ Kept(h, Free(h, v)) /\ Free(h, v).pending = h.pending
<1>1. CASE v \notin Obj
  BY <1>1, KeptSame, PlusNothing DEF Free
<1>2. CASE v \in Obj
  <2> DEFINE g == Free(h, v)
             c == [h.count EXCEPT ![v] = @ - 1]
  <2>1. h \in Heaps
    BY DEF Good
  <2>2. g = Parts(h.kind, h.home, c, h.prop, h.global, h.pending)
    BY <1>2, <2>1, FreeParts
  <2>3. /\ h.kind \in KindFcns /\ h.home \in HomeFcns /\ h.count \in CountFcns
        /\ h.prop \in PropFcns /\ h.global \in GlobalFcns /\ h.pending \in Pendings
    BY <2>1, HeapParts
  <2>4. c \in CountFcns /\ \A o \in Obj : c[o] = h.count[o] - Same(v, o)
    BY <2>3, <1>2 DEF CountFcns, Same
  <2> HIDE DEF c, g
  <2>5. /\ g.kind = h.kind /\ g.home = h.home /\ g.count = c
        /\ g.prop = h.prop /\ g.global = h.global /\ g.pending = h.pending
    BY <2>2, PartsFields
  <2>6. g \in Heaps
    BY <2>2, <2>3, <2>4, PartsHeap
  <2>7. Plus(n, v) \in [Obj -> Nat] /\ \A o \in Obj : Plus(n, v)[o] = n[o] + Same(v, o)
    BY PlusType
  <2>8. ASSUME NEW o \in Obj PROVE g.count[o] = RefsTo(g, n, o)
    <3>1. h.count[o] = RefsTo(h, Plus(n, v), o)
      BY DEF Good, Balanced
    <3>2. /\ PropRefs(h.prop, o) \in Nat /\ GlobalRefs(h.global, o) \in Nat
          /\ Same(h.pending, o) \in 0 .. 1
      BY RefsParts
    <3>3. Same(v, o) \in 0 .. 1 /\ n[o] \in Nat
      BY DEF Same
    <3> QED
      BY <3>1, <3>2, <3>3, <2>4, <2>5, <2>7 DEF RefsTo
  <2>9. ASSUME NEW o \in Obj, g.kind[o] = "free"
        PROVE  g.count[o] = 0 /\ g.prop[o] = NoProperties
    <3>1. Plus(n, v)[o] = 0 /\ h.count[o] = 0 /\ h.prop[o] = NoProperties
      BY <2>9, <2>5, FreeNoRefs
    <3>2. Same(v, o) = 0
      BY <3>1, <2>7 DEF Same
    <3> QED
      BY <3>1, <3>2, <2>4, <2>5
  <2>10. Balanced(g, n)
    BY <2>8, <2>9, Zenon DEF Balanced
  <2>11. Apart(g)
    BY <2>5 DEF Good, Apart
  <2>12. Kept(h, g)
    BY <2>5, Zenon DEF Kept
  <2> QED
    BY <2>5, <2>6, <2>10, <2>11, <2>12 DEF Good, g
<1> QED
  BY <1>1, <1>2

LEMMA NewGood ==
  ASSUME NEW h, NEW n, Good(h, n), NEW c \in Ctx, NEW kind \in Kinds,
         NEW r \in New(h, c, kind)
  PROVE  /\ r.v \in Obj /\ Good(r.h, Plus(n, r.v)) /\ Kept(h, r.h)
         /\ r.h.pending = h.pending /\ r.h.home[r.v] = c /\ r.h.kind[r.v] = kind
<1> DEFINE g == r.h
           v == r.v
           kk == [h.kind EXCEPT ![v] = kind]
           hh == [h.home EXCEPT ![v] = c]
           cc == [h.count EXCEPT ![v] = 1]
<1>1. h \in Heaps /\ n \in [Obj -> Nat]
  BY DEF Good, Balanced
<1>2. /\ v \in Obj /\ h.kind[v] = "free"
      /\ g = Parts(kk, hh, cc, h.prop, h.global, h.pending)
  BY <1>1, NewParts
<1>3. /\ h.kind \in KindFcns /\ h.home \in HomeFcns /\ h.count \in CountFcns
      /\ h.prop \in PropFcns /\ h.global \in GlobalFcns /\ h.pending \in Pendings
  BY <1>1, HeapParts
<1>4. /\ n[v] = 0 /\ h.pending # v /\ h.count[v] = 0 /\ h.prop[v] = NoProperties
      /\ \A x \in Obj, k \in Keys : h.prop[x][k] # v
      /\ \A b \in Ctx : h.global[b] # v
  BY <1>2, FreeNoRefs
<1>5. kk \in KindFcns /\ kk[v] = kind /\ \A o \in Obj : o # v => kk[o] = h.kind[o]
  BY <1>2, <1>3 DEF KindFcns
<1>6. hh \in HomeFcns /\ hh[v] = c /\ \A o \in Obj : o # v => hh[o] = h.home[o]
  BY <1>2, <1>3 DEF HomeFcns
<1>7. cc \in CountFcns /\ \A o \in Obj : cc[o] = h.count[o] + Same(v, o)
  BY <1>2, <1>3, <1>4 DEF CountFcns, Same
<1> HIDE DEF g, v, kk, hh, cc
<1>8. /\ g.kind = kk /\ g.home = hh /\ g.count = cc
      /\ g.prop = h.prop /\ g.global = h.global /\ g.pending = h.pending
  BY <1>2, PartsFields
<1>9. g \in Heaps
  BY <1>2, <1>3, <1>5, <1>6, <1>7, PartsHeap
<1>10. Plus(n, v) \in [Obj -> Nat] /\ \A o \in Obj : Plus(n, v)[o] = n[o] + Same(v, o)
  BY <1>1, PlusType
<1>11. ASSUME NEW o \in Obj PROVE g.count[o] = RefsTo(g, Plus(n, v), o)
  <2>1. h.count[o] = RefsTo(h, n, o)
    BY DEF Good, Balanced
  <2>2. /\ n[o] \in Nat /\ PropRefs(h.prop, o) \in Nat /\ GlobalRefs(h.global, o) \in Nat
        /\ Same(h.pending, o) \in 0 .. 1
    BY <1>1, RefsParts
  <2>3. Same(v, o) \in 0 .. 1
    BY DEF Same
  <2> QED
    BY <2>1, <2>2, <2>3, <1>7, <1>8, <1>10 DEF RefsTo
<1>12. ASSUME NEW o \in Obj, g.kind[o] = "free"
       PROVE  g.count[o] = 0 /\ g.prop[o] = NoProperties
  <2>1. o # v
    BY <1>12, <1>5, <1>8 DEF Kinds
  <2>2. h.count[o] = 0 /\ h.prop[o] = NoProperties
    BY <2>1, <1>12, <1>5, <1>8 DEF Good, Balanced
  <2> QED
    BY <2>1, <2>2, <1>7, <1>8 DEF Same
<1>13. Balanced(g, Plus(n, v))
  BY <1>10, <1>11, <1>12, Zenon DEF Balanced
<1>14. Kept(h, g)
  BY <1>2, <1>5, <1>6, <1>8, Zenon DEF Kept
<1>15. ASSUME NEW o \in Obj, NEW k \in Keys, g.prop[o][k] \in Obj
       PROVE  g.home[g.prop[o][k]] = g.home[o]
  <2>1. h.prop[o][k] \in Obj /\ h.prop[o][k] # v
    BY <1>15, <1>4, <1>8
  <2>2. o # v
    BY <2>1, <1>4, NotObjects DEF NoProperties
  <2>3. h.home[h.prop[o][k]] = h.home[o]
    BY <2>1 DEF Good, Apart
  <2> QED
    BY <2>1, <2>2, <2>3, <1>6, <1>8
<1>16. ASSUME NEW b \in Ctx, g.global[b] \in Obj PROVE g.home[g.global[b]] = b
  <2>1. h.global[b] \in Obj /\ h.global[b] # v
    BY <1>16, <1>4, <1>8
  <2>2. h.home[h.global[b]] = b
    BY <2>1 DEF Good, Apart
  <2> QED
    BY <2>1, <2>2, <1>6, <1>8
<1>17. Apart(g)
  BY <1>15, <1>16, Zenon DEF Apart
<1> QED
  BY <1>2, <1>5, <1>6, <1>8, <1>9, <1>13, <1>14, <1>17 DEF Good, g, v

\* An exception becomes pending, or is taken.
LEMMA PendingSet ==
  ASSUME NEW h, NEW n \in [Obj -> Nat], NEW v \in JSValue, Good(h, Plus(n, v)),
         h.pending = "none"
  PROVE  Good([h EXCEPT !.pending = v], n) /\ Kept(h, [h EXCEPT !.pending = v])
         /\ [h EXCEPT !.pending = v].pending = v
<1> DEFINE g == [h EXCEPT !.pending = v]
<1>1. h \in Heaps
  BY DEF Good
<1>2. g = Parts(h.kind, h.home, h.count, h.prop, h.global, v)
  BY <1>1, PendingParts
<1>3. /\ h.kind \in KindFcns /\ h.home \in HomeFcns /\ h.count \in CountFcns
      /\ h.prop \in PropFcns /\ h.global \in GlobalFcns /\ v \in Pendings
  BY <1>1, HeapParts DEF Pendings
<1> HIDE DEF g
<1>4. /\ g.kind = h.kind /\ g.home = h.home /\ g.count = h.count
      /\ g.prop = h.prop /\ g.global = h.global /\ g.pending = v
  BY <1>2, PartsFields
<1>5. g \in Heaps
  BY <1>2, <1>3, PartsHeap
<1>6. \A o \in Obj : Plus(n, v)[o] = n[o] + Same(v, o)
  BY PlusType
<1>7. ASSUME NEW o \in Obj PROVE g.count[o] = RefsTo(g, n, o)
  <2>1. h.count[o] = RefsTo(h, Plus(n, v), o)
    BY DEF Good, Balanced
  <2>2. PropRefs(h.prop, o) \in Nat /\ GlobalRefs(h.global, o) \in Nat
    BY RefsParts
  <2>3. Same(v, o) \in 0 .. 1 /\ n[o] \in Nat /\ Same(h.pending, o) = 0
    BY NotObjects DEF Same
  <2> QED
    BY <2>1, <2>2, <2>3, <1>4, <1>6 DEF RefsTo
<1>8. Balanced(g, n)
  BY <1>4, <1>7 DEF Good, Balanced
<1>9. Apart(g)
  BY <1>4 DEF Good, Apart
<1>10. Kept(h, g)
  BY <1>4, Zenon DEF Kept
<1> QED
  BY <1>4, <1>5, <1>8, <1>9, <1>10 DEF Good, g

LEMMA PendingTake ==
  ASSUME NEW h, NEW n, Good(h, n), h.pending \in JSValue
  PROVE  /\ Good([h EXCEPT !.pending = "none"], Plus(n, h.pending))
         /\ Kept(h, [h EXCEPT !.pending = "none"])
         /\ [h EXCEPT !.pending = "none"].pending = "none"
<1> DEFINE g == [h EXCEPT !.pending = "none"]
           v == h.pending
<1>1. h \in Heaps /\ n \in [Obj -> Nat]
  BY DEF Good, Balanced
<1>2. g = Parts(h.kind, h.home, h.count, h.prop, h.global, "none")
  BY <1>1, PendingParts
<1>3. /\ h.kind \in KindFcns /\ h.home \in HomeFcns /\ h.count \in CountFcns
      /\ h.prop \in PropFcns /\ h.global \in GlobalFcns /\ "none" \in Pendings
  BY <1>1, HeapParts DEF Pendings
<1> HIDE DEF g
<1>4. /\ g.kind = h.kind /\ g.home = h.home /\ g.count = h.count
      /\ g.prop = h.prop /\ g.global = h.global /\ g.pending = "none"
  BY <1>2, PartsFields
<1>5. g \in Heaps
  BY <1>2, <1>3, PartsHeap
<1>6. Plus(n, v) \in [Obj -> Nat] /\ \A o \in Obj : Plus(n, v)[o] = n[o] + Same(v, o)
  BY <1>1, PlusType
<1>7. ASSUME NEW o \in Obj PROVE g.count[o] = RefsTo(g, Plus(n, v), o)
  <2>1. h.count[o] = RefsTo(h, n, o)
    BY DEF Good, Balanced
  <2>2. PropRefs(h.prop, o) \in Nat /\ GlobalRefs(h.global, o) \in Nat
    BY <1>1, RefsParts
  <2>3. Same(v, o) \in 0 .. 1 /\ n[o] \in Nat /\ Same(g.pending, o) = 0
    BY <1>1, <1>4, NotObjects DEF Same
  <2> QED
    BY <2>1, <2>2, <2>3, <1>4, <1>6 DEF RefsTo
<1>8. Balanced(g, Plus(n, v))
  BY <1>4, <1>6, <1>7 DEF Good, Balanced
<1>9. Apart(g)
  BY <1>4 DEF Good, Apart
<1>10. Kept(h, g)
  BY <1>4, Zenon DEF Kept
<1> QED
  BY <1>4, <1>5, <1>8, <1>9, <1>10 DEF Good, g

\* A context gets the object it was made with, or gives its reference up.
LEMMA GlobalSet ==
  ASSUME NEW h, NEW n \in [Obj -> Nat], NEW c \in Ctx, NEW v \in Obj \cup {"none"},
         Good(h, Plus(n, v)), h.global[c] = "none", v \in Obj => h.home[v] = c
  PROVE  LET g == [h EXCEPT !.global[c] = v]
         IN  /\ Good(g, n) /\ g.pending = h.pending /\ g.kind = h.kind /\ g.home = h.home
             /\ g.global = [h.global EXCEPT ![c] = v]
<1> DEFINE g == [h EXCEPT !.global[c] = v]
           gg == [h.global EXCEPT ![c] = v]
<1>1. h \in Heaps
  BY DEF Good
<1>2. g = Parts(h.kind, h.home, h.count, h.prop, gg, h.pending)
  BY <1>1, GlobalParts
<1>3. /\ h.kind \in KindFcns /\ h.home \in HomeFcns /\ h.count \in CountFcns
      /\ h.prop \in PropFcns /\ h.global \in GlobalFcns /\ h.pending \in Pendings
  BY <1>1, HeapParts
<1>4. gg \in GlobalFcns /\ gg[c] = v /\ \A b \in Ctx : b # c => gg[b] = h.global[b]
  BY <1>3 DEF GlobalFcns
<1>5. \A o \in Obj : GlobalRefs(gg, o) =
                       GlobalRefs(h.global, o) - Same(h.global[c], o) + Same(v, o)
  <2> HIDE DEF gg
  <2>1. OnlyAt(h.global, gg, Ctx, c)
    BY <1>4 DEF OnlyAt
  <2>2. \A o \in Obj : Moved(GlobalRefs(h.global, o), GlobalRefs(gg, o),
                               Same(h.global[c], o), Same(gg[c], o))
    BY <2>1, GlobalRefsSet
  <2> QED
    BY <1>4, <2>2 DEF Moved
<1> HIDE DEF g, gg
<1>6. /\ g.kind = h.kind /\ g.home = h.home /\ g.count = h.count
      /\ g.prop = h.prop /\ g.global = gg /\ g.pending = h.pending
  BY <1>2, PartsFields
<1>7. g \in Heaps
  BY <1>2, <1>3, <1>4, PartsHeap
<1>8. \A o \in Obj : Plus(n, v)[o] = n[o] + Same(v, o)
  BY PlusType
<1>9. ASSUME NEW o \in Obj PROVE g.count[o] = RefsTo(g, n, o)
  <2>1. h.count[o] = RefsTo(h, Plus(n, v), o)
    BY DEF Good, Balanced
  <2>2. /\ PropRefs(h.prop, o) \in Nat /\ GlobalRefs(h.global, o) \in Nat
        /\ Same(h.pending, o) \in 0 .. 1
    BY RefsParts
  <2>3. Same(v, o) \in 0 .. 1 /\ n[o] \in Nat /\ Same(h.global[c], o) = 0
    BY NotObjects DEF Same
  <2> QED
    BY <2>1, <2>2, <2>3, <1>5, <1>6, <1>8 DEF RefsTo
<1>10. Balanced(g, n)
  BY <1>6, <1>9 DEF Good, Balanced
<1>11. ASSUME NEW b \in Ctx, g.global[b] \in Obj PROVE g.home[g.global[b]] = b
  BY <1>4, <1>6, <1>11 DEF Good, Apart
<1>12. Apart(g)
  BY <1>6, <1>11 DEF Good, Apart
<1> QED
  BY <1>6, <1>7, <1>10, <1>12 DEF Good, g, gg

LEMMA FreeContextGood ==
  ASSUME NEW h, NEW n, Good(h, n), NEW c \in Ctx, h.global[c] \in Obj
  PROVE  LET g == FreeContext(h, c)
         IN  /\ Good(g, n) /\ g.pending = h.pending /\ g.kind = h.kind /\ g.home = h.home
             /\ g.global = [h.global EXCEPT ![c] = "none"]
<1> DEFINE v == h.global[c]
           f == Free(h, v)
           g == [f EXCEPT !.global[c] = "none"]
           cc == [h.count EXCEPT ![v] = @ - 1]
           gg == [h.global EXCEPT ![c] = "none"]
<1>1. h \in Heaps /\ n \in [Obj -> Nat]
  BY DEF Good, Balanced
<1>2. /\ h.kind \in KindFcns /\ h.home \in HomeFcns /\ h.count \in CountFcns
      /\ h.prop \in PropFcns /\ h.global \in GlobalFcns /\ h.pending \in Pendings
  BY <1>1, HeapParts
<1>3. f = Parts(h.kind, h.home, cc, h.prop, h.global, h.pending)
  BY <1>1, FreeParts
<1>4. cc \in CountFcns /\ \A o \in Obj : cc[o] = h.count[o] - Same(v, o)
  BY <1>2 DEF CountFcns, Same
<1>5. gg \in GlobalFcns /\ gg[c] = "none" /\ \A b \in Ctx : b # c => gg[b] = h.global[b]
  BY <1>2 DEF GlobalFcns
<1>6. \A o \in Obj : GlobalRefs(gg, o) =
                       GlobalRefs(h.global, o) - Same(h.global[c], o) + Same("none", o)
  <2> HIDE DEF gg
  <2>1. OnlyAt(h.global, gg, Ctx, c)
    BY <1>5 DEF OnlyAt
  <2>2. \A o \in Obj : Moved(GlobalRefs(h.global, o), GlobalRefs(gg, o),
                               Same(h.global[c], o), Same(gg[c], o))
    BY <2>1, GlobalRefsSet
  <2> QED
    BY <1>5, <2>2 DEF Moved
<1>7. g = FreeContext(h, c)
  BY DEF FreeContext
<1> HIDE DEF f, cc
<1>8. f \in Heaps
  BY <1>2, <1>3, <1>4, PartsHeap
<1>9. /\ f.kind = h.kind /\ f.home = h.home /\ f.count = cc
      /\ f.prop = h.prop /\ f.global = h.global /\ f.pending = h.pending
  BY <1>3, PartsFields
<1>10. g = Parts(h.kind, h.home, cc, h.prop, gg, h.pending)
  BY <1>8, <1>9, GlobalParts
<1> HIDE DEF g, gg
<1>11. /\ g.kind = h.kind /\ g.home = h.home /\ g.count = cc
       /\ g.prop = h.prop /\ g.global = gg /\ g.pending = h.pending
  BY <1>10, PartsFields
<1>12. g \in Heaps
  BY <1>10, <1>2, <1>4, <1>5, PartsHeap
<1>13. ASSUME NEW o \in Obj PROVE g.count[o] = RefsTo(g, n, o)
  <2>1. h.count[o] = RefsTo(h, n, o)
    BY DEF Good, Balanced
  <2>2. /\ PropRefs(h.prop, o) \in Nat /\ GlobalRefs(h.global, o) \in Nat
        /\ Same(h.pending, o) \in 0 .. 1 /\ n[o] \in Nat
    BY <1>1, RefsParts
  <2>3. Same(v, o) \in 0 .. 1 /\ Same("none", o) = 0
    BY NotObjects DEF Same
  <2> QED
    BY <2>1, <2>2, <2>3, <1>4, <1>6, <1>11 DEF RefsTo
<1>14. ASSUME NEW o \in Obj, g.kind[o] = "free"
       PROVE  g.count[o] = 0 /\ g.prop[o] = NoProperties
  <2>1. h.count[o] = 0 /\ h.prop[o] = NoProperties /\ v # o
    BY <1>14, <1>11, FreeNoRefs
  <2> QED
    BY <2>1, <1>4, <1>11 DEF Same
<1>15. Balanced(g, n)
  BY <1>1, <1>13, <1>14, Zenon DEF Balanced
<1>16. ASSUME NEW b \in Ctx, g.global[b] \in Obj PROVE g.home[g.global[b]] = b
  BY <1>5, <1>11, <1>16, NotObjects DEF Good, Apart
<1>17. Apart(g)
  BY <1>11, <1>16 DEF Good, Apart
<1> QED
  BY <1>7, <1>11, <1>12, <1>15, <1>17 DEF Good, gg

\* A property takes over a reference and gives up the one it had.
LEMMA SetKeyGood ==
  ASSUME NEW h, NEW n \in [Obj -> Nat], NEW v \in JSValue, Good(h, Plus(n, v)),
         NEW o \in Obj, NEW k \in Keys, h.kind[o] # "free",
         v \in Obj => h.home[v] = h.home[o]
  PROVE  /\ Good(SetKey(h, o, k, v), n) /\ Kept(h, SetKey(h, o, k, v))
         /\ SetKey(h, o, k, v).pending = h.pending
<1> DEFINE w == h.prop[o][k]
           f == Free(h, w)
           g == Stored(f, o, k, v)
           pp == [h.prop EXCEPT ![o][k] = v]
<1>1. h \in Heaps
  BY DEF Good
<1>2. /\ h.kind \in KindFcns /\ h.home \in HomeFcns /\ h.count \in CountFcns
      /\ h.prop \in PropFcns /\ h.global \in GlobalFcns /\ h.pending \in Pendings
  BY <1>1, HeapParts
<1>3. PICK cc \in CountFcns : /\ f = Parts(h.kind, h.home, cc, h.prop, h.global, h.pending)
                              /\ \A q \in Obj : cc[q] = h.count[q] - Same(w, q)
  <2>1. CASE w \in Obj
    <3> DEFINE cc == [h.count EXCEPT ![w] = @ - 1]
    <3>1. f = Parts(h.kind, h.home, cc, h.prop, h.global, h.pending)
      BY <1>1, <2>1, FreeParts
    <3>2. cc \in CountFcns /\ \A q \in Obj : cc[q] = h.count[q] - Same(w, q)
      BY <1>2, <2>1 DEF CountFcns, Same
    <3> QED
      BY <3>1, <3>2, Zenon
  <2>2. CASE w \notin Obj
    <3>1. f = Parts(h.kind, h.home, h.count, h.prop, h.global, h.pending)
      BY <1>1, <2>2, HeapParts DEF Free
    <3>2. \A q \in Obj : h.count[q] = h.count[q] - Same(w, q)
      BY <1>2, <2>2 DEF CountFcns, Same
    <3> QED
      BY <1>2, <3>1, <3>2, Zenon
  <2> QED
    BY <2>1, <2>2
<1>4. /\ pp \in PropFcns /\ pp[o][k] = v
      /\ \A x \in Obj, j \in Keys : x # o \/ j # k => pp[x][j] = h.prop[x][j]
      /\ \A x \in Obj : x # o => pp[x] = h.prop[x]
  BY <1>2 DEF PropFcns
<1>5. \A q \in Obj : PropRefs(pp, q) = PropRefs(h.prop, q) - Same(w, q) + Same(v, q)
  <2> HIDE DEF pp
  <2>1. OnlyAtKey(h.prop, pp, o, k)
    BY <1>4 DEF OnlyAtKey
  <2>2. \A q \in Obj : Moved(PropRefs(h.prop, q), PropRefs(pp, q),
                               Same(h.prop[o][k], q), Same(pp[o][k], q))
    BY <2>1, PropRefsSet
  <2> QED
    BY <1>4, <2>2 DEF Moved
<1>6. g = SetKey(h, o, k, v)
  BY DEF SetKey, Stored
<1> HIDE DEF f
<1>7. f \in Heaps
  BY <1>2, <1>3, PartsHeap
<1>8. /\ f.kind = h.kind /\ f.home = h.home /\ f.count = cc
      /\ f.prop = h.prop /\ f.global = h.global /\ f.pending = h.pending
  BY <1>3, PartsFields
<1>9. g = Parts(h.kind, h.home, cc, pp, h.global, h.pending)
  <2>1. g = Parts(f.kind, f.home, f.count, [f.prop EXCEPT ![o][k] = v], f.global, f.pending)
    BY <1>7, PropParts
  <2> QED
    BY <2>1, <1>8
<1> HIDE DEF g, pp
<1>10. /\ g.kind = h.kind /\ g.home = h.home /\ g.count = cc
       /\ g.prop = pp /\ g.global = h.global /\ g.pending = h.pending
  BY <1>9, PartsFields
<1>11. g \in Heaps
  BY <1>9, <1>2, <1>3, <1>4, PartsHeap
<1>12. \A q \in Obj : Plus(n, v)[q] = n[q] + Same(v, q)
  BY PlusType
<1>13. ASSUME NEW q \in Obj PROVE g.count[q] = RefsTo(g, n, q)
  <2>1. h.count[q] = RefsTo(h, Plus(n, v), q)
    BY DEF Good, Balanced
  <2>2. /\ PropRefs(h.prop, q) \in Nat /\ GlobalRefs(h.global, q) \in Nat
        /\ Same(h.pending, q) \in 0 .. 1
    BY RefsParts
  <2>3. Same(v, q) \in 0 .. 1 /\ Same(w, q) \in 0 .. 1 /\ n[q] \in Nat
    BY DEF Same
  <2> HIDE DEF w
  <2> QED
    BY <2>1, <2>2, <2>3, <1>3, <1>5, <1>10, <1>12 DEF RefsTo
<1>14. ASSUME NEW q \in Obj, g.kind[q] = "free"
       PROVE  g.count[q] = 0 /\ g.prop[q] = NoProperties
  <2>1. h.count[q] = 0 /\ h.prop[q] = NoProperties /\ w # q /\ q # o
    BY <1>14, <1>10, FreeNoRefs
  <2> HIDE DEF w
  <2> QED
    BY <2>1, <1>3, <1>4, <1>10 DEF Same
<1>15. Balanced(g, n)
  BY <1>13, <1>14, Zenon DEF Balanced
<1>16. ASSUME NEW x \in Obj, NEW j \in Keys, g.prop[x][j] \in Obj
       PROVE  g.home[g.prop[x][j]] = g.home[x]
  <2>1. CASE x = o /\ j = k
    BY <2>1, <1>4, <1>10, <1>16
  <2>2. CASE x # o \/ j # k
    BY <2>2, <1>4, <1>10, <1>16 DEF Good, Apart
  <2> QED
    BY <2>1, <2>2
<1>17. Apart(g)
  BY <1>10, <1>16 DEF Good, Apart
<1>18. Kept(h, g)
  BY <1>10, Zenon DEF Kept
<1> QED
  BY <1>6, <1>10, <1>11, <1>15, <1>17, <1>18 DEF Good

\* An object nothing refers to is given back, and with it what it refers to.
LEMMA SweepGood ==
  ASSUME NEW h, NEW n, Good(h, n), NEW o \in Obj, h.count[o] = 0
  PROVE  LET g == Sweep(h, o)
         IN  /\ Good(g, n) /\ g.pending = h.pending /\ g.global = h.global
             /\ \A q \in Obj : q # o => g.kind[q] = h.kind[q] /\ g.home[q] = h.home[q]
<1> DEFINE g == Sweep(h, o)
           kk == [h.kind EXCEPT ![o] = "free"]
           hh == [h.home EXCEPT ![o] = "none"]
           held(q) == Cardinality({k \in Keys : h.prop[o][k] = q})
           cc == [q \in Obj |-> h.count[q] - held(q)]
           pp == [h.prop EXCEPT ![o] = NoProperties]
<1>1. h \in Heaps /\ n \in [Obj -> Nat]
  BY DEF Good, Balanced
<1>2. g = Parts(kk, hh, cc, pp, h.global, h.pending)
  BY <1>1, SweepParts
<1>3. /\ h.kind \in KindFcns /\ h.home \in HomeFcns /\ h.count \in CountFcns
      /\ h.prop \in PropFcns /\ h.global \in GlobalFcns /\ h.pending \in Pendings
  BY <1>1, HeapParts
<1>4. /\ n[o] = 0 /\ h.pending # o
      /\ \A x \in Obj, k \in Keys : h.prop[x][k] # o
      /\ \A b \in Ctx : h.global[b] # o
  BY NoRefs
<1>5. kk \in KindFcns /\ kk[o] = "free" /\ \A q \in Obj : q # o => kk[q] = h.kind[q]
  BY <1>3 DEF KindFcns
<1>6. hh \in HomeFcns /\ \A q \in Obj : q # o => hh[q] = h.home[q]
  BY <1>3 DEF HomeFcns
<1>7. pp \in PropFcns /\ pp[o] = NoProperties /\ \A q \in Obj : q # o => pp[q] = h.prop[q]
  BY <1>3 DEF PropFcns, NoProperties
<1>8. \A q \in Obj : held(q) \in Nat /\ PropRefs(h.prop, q) = PropRefs(pp, q) + held(q)
  <2> HIDE DEF pp
  <2>1. OnlyAt(h.prop, pp, Obj, o)
    BY <1>7 DEF OnlyAt
  <2> QED
    BY <1>7, <2>1, PropRefsSweep
<1> HIDE DEF held, pp, kk, hh
<1>9. cc \in CountFcns /\ \A q \in Obj : cc[q] = h.count[q] - held(q)
  BY <1>3, <1>8 DEF CountFcns
<1> HIDE DEF g, cc
<1>10. /\ g.kind = kk /\ g.home = hh /\ g.count = cc
       /\ g.prop = pp /\ g.global = h.global /\ g.pending = h.pending
  BY <1>2, PartsFields
<1>11. g \in Heaps
  BY <1>2, <1>3, <1>5, <1>6, <1>7, <1>9, PartsHeap
<1>12. ASSUME NEW q \in Obj PROVE g.count[q] = RefsTo(g, n, q)
  <2>1. h.count[q] = RefsTo(h, n, q)
    BY DEF Good, Balanced
  <2>2. /\ n[q] \in Nat /\ PropRefs(h.prop, q) \in Nat /\ GlobalRefs(h.global, q) \in Nat
        /\ Same(h.pending, q) \in 0 .. 1
    BY <1>1, RefsParts
  <2>3. PropRefs(pp, q) \in Nat
    BY PropRefsZero
  <2> QED
    BY <2>1, <2>2, <2>3, <1>8, <1>9, <1>10 DEF RefsTo
<1>13. ASSUME NEW q \in Obj, g.kind[q] = "free"
       PROVE  g.count[q] = 0 /\ g.prop[q] = NoProperties
  <2>1. h.count[q] = 0
    BY <1>13, <1>5, <1>10 DEF Good, Balanced
  <2>2. g.count[q] = 0 - held(q) /\ held(q) \in Nat
    BY <2>1, <1>8, <1>9, <1>10
  <2>3. g.count[q] \in Nat
    <3>1. RefsTo(g, n, q) \in Nat
      BY <1>1, RefsParts
    <3> QED
      BY <3>1, <1>12
  <2>4. g.count[q] = 0
    BY <2>2, <2>3
  <2>5. g.prop[q] = NoProperties
    BY <1>13, <1>5, <1>7, <1>10 DEF Good, Balanced
  <2> QED
    BY <2>4, <2>5
<1>14. Balanced(g, n)
  BY <1>1, <1>12, <1>13, Zenon DEF Balanced
<1>15. ASSUME NEW x \in Obj, NEW j \in Keys, g.prop[x][j] \in Obj
       PROVE  g.home[g.prop[x][j]] = g.home[x]
  <2>1. x # o
    BY <1>15, <1>7, <1>10, NotObjects DEF NoProperties
  <2>2. g.prop[x][j] = h.prop[x][j] /\ h.prop[x][j] \in Obj /\ h.prop[x][j] # o
    BY <2>1, <1>4, <1>7, <1>10, <1>15
  <2>3. h.home[h.prop[x][j]] = h.home[x]
    BY <2>2 DEF Good, Apart
  <2> QED
    BY <2>1, <2>2, <2>3, <1>6, <1>10
<1>16. ASSUME NEW b \in Ctx, g.global[b] \in Obj PROVE g.home[g.global[b]] = b
  <2>1. h.global[b] \in Obj /\ h.global[b] # o /\ h.home[h.global[b]] = b
    BY <1>4, <1>10, <1>16 DEF Good, Apart
  <2> QED
    BY <2>1, <1>6, <1>10
<1>17. Apart(g)
  BY <1>15, <1>16, Zenon DEF Apart
<1> QED
  BY <1>5, <1>6, <1>10, <1>11, <1>14, <1>17 DEF Good, g

LEMMA EmptyGood ==
  /\ Good(EmptyHeap, [o \in Obj |-> 0]) /\ EmptyHeap.pending = "none"
  /\ \A c \in Ctx : EmptyHeap.global[c] = "none"
<1> DEFINE h == EmptyHeap
           n == [o \in Obj |-> 0]
<1>1. /\ h.kind = [o \in Obj |-> "free"] /\ h.home = [o \in Obj |-> "none"]
      /\ h.count = [o \in Obj |-> 0] /\ h.prop = [o \in Obj |-> NoProperties]
      /\ h.global = [c \in Ctx |-> "none"] /\ h.pending = "none"
      /\ h = Parts(h.kind, h.home, h.count, h.prop, h.global, h.pending)
  BY DEF EmptyHeap, Parts
<1>2. n \in [Obj -> Nat] /\ \A o \in Obj : n[o] = 0
  OBVIOUS
<1> HIDE DEF h, n
<1>3. /\ h.kind \in KindFcns /\ h.home \in HomeFcns /\ h.count \in CountFcns
      /\ h.prop \in PropFcns /\ h.global \in GlobalFcns /\ h.pending \in Pendings
  BY <1>1 DEF KindFcns, HomeFcns, CountFcns, PropFcns, GlobalFcns, Pendings, NoProperties
<1>4. h \in Heaps
  BY <1>1, <1>3, PartsHeap
<1>5. ASSUME NEW o \in Obj PROVE h.count[o] = RefsTo(h, n, o)
  <2>1. \A x \in Obj, k \in Keys : h.prop[x][k] # o
    BY <1>1, NotObjects DEF NoProperties
  <2>2. \A c \in Ctx : h.global[c] # o
    BY <1>1, NotObjects
  <2>3. PropRefs(h.prop, o) = 0 /\ GlobalRefs(h.global, o) = 0
    BY <2>1, <2>2, PropRefsZero, GlobalRefsZero, Zenon
  <2>4. Same(h.pending, o) = 0
    BY <1>1, NotObjects DEF Same
  <2> QED
    BY <1>1, <1>2, <2>3, <2>4 DEF RefsTo
<1>6. Balanced(h, n)
  BY <1>1, <1>2, <1>5 DEF Balanced
<1>7. Apart(h)
  <2>1. \A o \in Obj, k \in Keys : h.prop[o][k] \notin Obj
    BY <1>1, NotObjects DEF NoProperties
  <2>2. \A c \in Ctx : h.global[c] \notin Obj
    BY <1>1, NotObjects
  <2> QED
    BY <2>1, <2>2, Zenon DEF Apart
<1>8. \A c \in Ctx : h.global[c] = "none"
  BY <1>1
<1> QED
  BY <1>1, <1>4, <1>6, <1>7, <1>8 DEF Good, h, n

-----------------------------------------------------------------------------
(***************************************************************************)
(* The methods of Value.  Called with n references held besides what the   *)
(* method consumes, an outcome leaves the heap in order with n references  *)
(* and the one of the Value it returns, which is of the method's context.  *)
(***************************************************************************)
Quiet(h, n) == Good(h, n) /\ h.pending = "none"

Owns(h, x) ==
  /\ x \in Values
  /\ x.val \in Obj => h.home[x.val] = x.ctx

Outcome(h, c, n, r) ==
  /\ Quiet(r.h, Plus(n, r.x.val)) /\ Kept(h, r.h)
  /\ Owns(r.h, r.x) /\ (IsValid(r.x) => r.x.ctx = c)

LEMMA ValuesFacts ==
  /\ Invalid \in Values /\ ~IsValid(Invalid) /\ Invalid.val = "undefined"
  /\ \A x \in Values : /\ x.val \in JSValue
                       /\ ~IsValid(x) => x = Invalid /\ x.val \notin Obj
                       /\ IsValid(x) => x.ctx \in Ctx
  /\ \A c \in Ctx, v \in JSValue :
       LET x == [ctx |-> c, val |-> v]
       IN  x \in Values /\ IsValid(x) /\ x.ctx = c /\ x.val = v
<1>1. "none" \notin Ctx /\ "undefined" \in JSValue /\ "undefined" \notin Obj
  BY HeapAssumption, NotObjects
<1>2. Invalid.ctx = "none" /\ Invalid.val = "undefined" /\ Invalid \in Values
  BY DEF Invalid, Values
<1>3. ASSUME NEW x \in [ctx : Ctx, val : JSValue] PROVE x.ctx \in Ctx /\ x.val \in JSValue
  OBVIOUS
<1>4. ASSUME NEW c \in Ctx, NEW v \in JSValue
      PROVE  LET x == [ctx |-> c, val |-> v]
             IN  x \in [ctx : Ctx, val : JSValue] /\ x.ctx = c /\ x.val = v
  OBVIOUS
<1> QED
  BY <1>1, <1>2, <1>3, <1>4 DEF Values, IsValid

LEMMA ThrowGood ==
  ASSUME NEW h, NEW n, Quiet(h, n), NEW c \in Ctx, NEW t \in Throw(h, c)
  PROVE  Good(t, n) /\ Kept(h, t) /\ t.pending \in JSValue
<1>1. Good(h, n) /\ h.pending = "none" /\ n \in [Obj -> Nat]
  BY DEF Quiet, Good, Balanced
<1>2. CASE \E r \in New(h, c, "object") : t = [r.h EXCEPT !.pending = r.v]
  <2>1. PICK r \in New(h, c, "object") : t = [r.h EXCEPT !.pending = r.v]
    BY <1>2
  <2>2. "object" \in Kinds
    BY DEF Kinds
  <2>3. r.v \in Obj /\ Good(r.h, Plus(n, r.v)) /\ Kept(h, r.h) /\ r.h.pending = "none"
    BY <1>1, <2>2, NewGood
  <2>4. r.v \in JSValue
    BY <2>3, NotObjects
  <2>5. Good(t, n) /\ Kept(r.h, t) /\ t.pending = r.v
    BY <1>1, <2>1, <2>3, <2>4, PendingSet
  <2> QED
    BY <2>3, <2>4, <2>5, KeptTrans
<1>3. CASE t = [h EXCEPT !.pending = "undefined"]
  <2>1. "undefined" \in JSValue /\ Plus(n, "undefined") = n
    BY NotObjects, PlusNothing
  <2> QED
    BY <1>1, <1>3, <2>1, PendingSet
<1> QED
  BY <1>2, <1>3, Zenon DEF Throw

LEMMA MessageGood ==
  ASSUME NEW h, NEW n, Good(h, n), h.pending \in JSValue, NEW c \in Ctx,
         NEW m \in GetExceptionMessage(h, c)
  PROVE  Quiet(m, n) /\ Kept(h, m)
<1> DEFINE e == h.pending
           taken == [h EXCEPT !.pending = "none"]
<1>1. n \in [Obj -> Nat] /\ Plus(n, e) \in [Obj -> Nat]
  BY PlusType DEF Good, Balanced
<1>2. Quiet(taken, Plus(n, e)) /\ Kept(h, taken)
  BY PendingTake DEF Quiet
<1>3. CASE m = Free(taken, e)
  <2>1. Good(taken, Plus(n, e)) /\ taken.pending = "none"
    BY <1>2 DEF Quiet
  <2> HIDE DEF taken, e
  <2>2. e \in JSValue
    BY DEF e
  <2>3. Good(Free(taken, e), n) /\ Kept(taken, Free(taken, e))
        /\ Free(taken, e).pending = taken.pending
    BY <1>1, <2>1, <2>2, FreeGood
  <2> QED
    BY <1>2, <1>3, <2>1, <2>3, KeptTrans DEF Quiet
<1>4. CASE \E t \in Throw(taken, c) :
             m = Free(Free([t EXCEPT !.pending = "none"], t.pending), e)
  <2>1. PICK t \in Throw(taken, c) :
               m = Free(Free([t EXCEPT !.pending = "none"], t.pending), e)
    BY <1>4
  <2> DEFINE u == [t EXCEPT !.pending = "none"]
             d == t.pending
             f == Free(u, d)
  <2>2. Good(t, Plus(n, e)) /\ Kept(taken, t) /\ d \in JSValue
    BY <1>2, ThrowGood
  <2>3. Good(u, Plus(Plus(n, e), d)) /\ Kept(t, u) /\ u.pending = "none"
    BY <2>2, PendingTake
  <2> HIDE DEF u, d, e, taken
  <2>4. Good(f, Plus(n, e)) /\ Kept(u, f) /\ f.pending = "none"
    BY <1>1, <2>2, <2>3, FreeGood
  <2>5. e \in JSValue /\ m = Free(f, e)
    BY <2>1 DEF e, f, u, d
  <2> HIDE DEF f
  <2>6. Good(m, n) /\ Kept(f, m) /\ m.pending = "none"
    BY <1>1, <2>4, <2>5, FreeGood
  <2>7. Kept(h, m)
    BY <1>2, <2>2, <2>3, <2>4, <2>6, KeptTrans, Zenon
  <2> QED
    BY <2>6, <2>7 DEF Quiet
<1> QED
  BY <1>3, <1>4, Zenon DEF GetExceptionMessage

LEMMA FailedOutcome ==
  ASSUME NEW h, NEW g, NEW n, NEW c, Quiet(g, n), Kept(h, g), NEW r \in Failed(g)
  PROVE  Outcome(h, c, n, r) /\ r.h = g /\ ~r.ok /\ r.x = Invalid
<1>1. r.h = g /\ r.x = Invalid /\ r.ok = FALSE
  BY DEF Failed
<1>2. Plus(n, Invalid.val) = n /\ Owns(g, Invalid) /\ ~IsValid(Invalid)
  BY ValuesFacts, NotObjects, PlusNothing DEF Owns
<1> QED
  BY <1>1, <1>2 DEF Outcome

LEMMA FailOutcome ==
  ASSUME NEW h, NEW n, Quiet(h, n), NEW c \in Ctx, NEW r \in Fail(h, c)
  PROVE  Outcome(h, c, n, r) /\ ~r.ok /\ r.x = Invalid
<1> DEFINE ends(t) == UNION {Failed(m) : m \in GetExceptionMessage(t, c)}
<1>1. Fail(h, c) = UNION {ends(t) : t \in Throw(h, c)}
  BY Zenon DEF Fail
<1> HIDE DEF ends
<1>2. PICK t \in Throw(h, c) : r \in ends(t)
  BY <1>1, Zenon
<1>3. PICK m \in GetExceptionMessage(t, c) : r \in Failed(m)
  BY <1>2, Zenon DEF ends
<1>4. Good(t, n) /\ Kept(h, t) /\ t.pending \in JSValue
  BY ThrowGood
<1>5. Quiet(m, n) /\ Kept(t, m)
  BY <1>4, MessageGood
<1>6. Kept(h, m)
  BY <1>4, <1>5, KeptTrans
<1> QED
  BY <1>3, <1>5, <1>6, FailedOutcome

\* An outcome seen from an earlier heap.
LEMMA OutcomeFrom ==
  ASSUME NEW h, NEW g, NEW c, NEW n, NEW r, Kept(h, g), Outcome(g, c, n, r)
  PROVE  Outcome(h, c, n, r)
BY KeptTrans DEF Outcome

LEMMA AdoptOutcome ==
  ASSUME NEW h, NEW n \in [Obj -> Nat], NEW c \in Ctx, NEW v \in JSValue,
         Quiet(h, Plus(n, v)), v \in Obj => h.home[v] = c, NEW r \in Adopt(h, c, v)
  PROVE  Outcome(h, c, n, r)
<1>1. CASE r \in Done(h, [ctx |-> c, val |-> v])
  <2>1. r.h = h /\ r.x = [ctx |-> c, val |-> v]
    BY <1>1 DEF Done
  <2>2. r.x \in Values /\ IsValid(r.x) /\ r.x.ctx = c /\ r.x.val = v
    BY <2>1, ValuesFacts
  <2> QED
    BY <2>1, <2>2, KeptSame DEF Outcome, Owns
<1>2. CASE r \in Failed(Free(h, v))
  <2>1. Good(h, Plus(n, v)) /\ h.pending = "none"
    BY DEF Quiet
  <2>2. Quiet(Free(h, v), n) /\ Kept(h, Free(h, v))
    BY <2>1, FreeGood DEF Quiet
  <2> QED
    BY <1>2, <2>2, FailedOutcome
<1> QED
  BY <1>1, <1>2, Zenon DEF Adopt

\* An object is of the context; a JSValue is in use in it.
Of(h, w, c) == w \in Obj => h.home[w] = c
InUse(h, v, c) == v \in JSValue /\ (v \in Obj => h.kind[v] # "free" /\ h.home[v] = c)

\* A JSValue in use is duplicated and adopted.
LEMMA SharedOutcome ==
  ASSUME NEW h, NEW n, Quiet(h, n), NEW c \in Ctx, NEW v, InUse(h, v, c),
         NEW r \in Adopt(Dup(h, v), c, v)
  PROVE  Outcome(h, c, n, r)
<1> DEFINE g == Dup(h, v)
<1>1. Good(h, n) /\ h.pending = "none" /\ n \in [Obj -> Nat]
  BY DEF Quiet, Good, Balanced
<1>0. v \in JSValue /\ (v \in Obj => h.kind[v] # "free" /\ h.home[v] = c)
  BY DEF InUse
<1>2. Good(g, Plus(n, v)) /\ Kept(h, g) /\ g.pending = h.pending
  BY <1>0, <1>1, DupGood
<1>3. v \in Obj => g.home[v] = c
  BY <1>0, <1>2 DEF Kept
<1>4. r \in Adopt(g, c, v)
  OBVIOUS
<1> HIDE DEF g
<1>5. Quiet(g, Plus(n, v))
  BY <1>1, <1>2 DEF Quiet
<1>6. Outcome(g, c, n, r)
  BY <1>0, <1>1, <1>3, <1>4, <1>5, AdoptOutcome
<1> QED
  BY <1>2, <1>6, OutcomeFrom

\* What a heap in order refers to is in use, and of the referring context.
LEMMA GetKeyFacts ==
  ASSUME NEW h, NEW n, Good(h, n), NEW c, NEW w, Of(h, w, c),
         NEW k \in Keys
  PROVE  InUse(h, GetKey(h, w, k), c)
<1> DEFINE p == h.prop[w][k]
<1>1. CASE w \in Obj /\ p # "absent"
  <2>1. h.prop \in PropFcns
    BY HeapParts DEF Good
  <2>2. p \in JSValue
    BY <1>1, <2>1 DEF PropFcns
  <2>3. p \in Obj => h.kind[p] # "free"
    BY <1>1, FreeNoRefs
  <2>4. p \in Obj => h.home[p] = c
    BY <1>1 DEF Good, Apart, Of
  <2>5. GetKey(h, w, k) = p
    BY <1>1 DEF GetKey
  <2> HIDE DEF p
  <2> QED
    BY <2>2, <2>3, <2>4, <2>5 DEF InUse
<1>2. CASE ~(w \in Obj /\ p # "absent")
  BY <1>2, NotObjects DEF GetKey, InUse
<1> QED
  BY <1>1, <1>2

LEMMA GlobalFacts ==
  ASSUME NEW h, NEW n, Good(h, n), NEW c \in Ctx, h.global[c] # "none"
  PROVE  /\ h.global[c] \in Obj /\ h.global[c] \in JSValue
         /\ h.kind[h.global[c]] # "free" /\ h.home[h.global[c]] = c
<1>1. h.global \in GlobalFcns
  BY HeapParts DEF Good
<1>2. h.global[c] \in Obj
  BY <1>1 DEF GlobalFcns
<1> QED
  BY <1>2, FreeNoRefs, NotObjects DEF Good, Apart

LEMMA GlobalObjectOutcome ==
  ASSUME NEW h, NEW n, Quiet(h, n), NEW c \in Ctx, h.global[c] # "none",
         NEW r \in GlobalObject(h, c)
  PROVE  Outcome(h, c, n, r)
<1> DEFINE v == h.global[c]
<1>1. Good(h, n)
  BY DEF Quiet
<1>2. InUse(h, v, c)
  BY <1>1, GlobalFacts DEF InUse
<1>3. CASE r \in Adopt(Dup(h, v), c, v)
  BY <1>2, <1>3, SharedOutcome
<1>4. CASE r \in Fail(h, c)
  BY <1>4, FailOutcome
<1> QED
  BY <1>3, <1>4, Zenon DEF GlobalObject

LEMMA ImmediateOutcome ==
  ASSUME NEW h, NEW n, Quiet(h, n), NEW c \in Ctx, NEW v \in Immediate,
         NEW r \in Adopt(h, c, v)
  PROVE  Outcome(h, c, n, r)
<1>1. n \in [Obj -> Nat] /\ v \in JSValue /\ v \notin Obj
  BY NotObjects DEF Quiet, Good, Balanced
<1>2. Quiet(h, Plus(n, v))
  BY <1>1, PlusNothing
<1> QED
  BY <1>1, <1>2, AdoptOutcome

\* A new object is adopted.
LEMMA NewOutcome ==
  ASSUME NEW h, NEW n, Quiet(h, n), NEW c \in Ctx, NEW kind \in Kinds,
         NEW m \in New(h, c, kind), NEW r \in Adopt(m.h, c, m.v)
  PROVE  Outcome(h, c, n, r)
<1>1. Good(h, n) /\ h.pending = "none" /\ n \in [Obj -> Nat]
  BY DEF Quiet, Good, Balanced
<1>2. /\ m.v \in Obj /\ Good(m.h, Plus(n, m.v)) /\ Kept(h, m.h)
      /\ m.h.pending = h.pending /\ m.h.home[m.v] = c
  BY <1>1, NewGood
<1>3. m.v \in JSValue /\ Quiet(m.h, Plus(n, m.v))
  BY <1>1, <1>2, NotObjects DEF Quiet
<1>4. Outcome(m.h, c, n, r)
  BY <1>1, <1>2, <1>3, AdoptOutcome
<1> QED
  BY <1>2, <1>4, OutcomeFrom

LEMMA MakeOutcome ==
  ASSUME NEW h, NEW n, Quiet(h, n), NEW c \in Ctx, NEW kind \in Kinds,
         NEW r \in Make(h, c, kind)
  PROVE  Outcome(h, c, n, r)
<1>1. CASE \E m \in New(h, c, kind) : r \in Adopt(m.h, c, m.v)
  BY <1>1, NewOutcome
<1>2. CASE r \in Fail(h, c)
  BY <1>2, FailOutcome
<1> QED
  BY <1>1, <1>2, Zenon DEF Make

LEMMA EvalOutcome ==
  ASSUME NEW h, NEW n, Quiet(h, n), NEW c \in Ctx, h.global[c] # "none",
         NEW r \in Eval(h, c)
  PROVE  Outcome(h, c, n, r)
<1>1. CASE \E m \in Results(h, c) : r \in Adopt(m.h, c, m.v)
  <2>1. PICK m \in Results(h, c) : r \in Adopt(m.h, c, m.v)
    BY <1>1
  <2>2. CASE \E v \in Immediate : m = [h |-> h, v |-> v]
    <3>1. PICK v \in Immediate : m = [h |-> h, v |-> v]
      BY <2>2
    <3>2. m.h = h /\ m.v = v
      BY <3>1
    <3> QED
      BY <2>1, <3>2, ImmediateOutcome
  <2>3. CASE m \in New(h, c, "object")
    <3>1. "object" \in Kinds
      BY DEF Kinds
    <3> QED
      BY <2>1, <2>3, <3>1, NewOutcome
  <2>4. CASE \E v \in {h.global[c]} \cup {GetKey(h, h.global[c], k) : k \in Keys} :
               m = [h |-> Dup(h, v), v |-> v]
    <3>1. PICK v \in {h.global[c]} \cup {GetKey(h, h.global[c], k) : k \in Keys} :
                 m = [h |-> Dup(h, v), v |-> v]
      BY <2>4
    <3>2. m.h = Dup(h, v) /\ m.v = v
      BY <3>1
    <3>3. Good(h, n)
      BY DEF Quiet
    <3>4. InUse(h, h.global[c], c) /\ Of(h, h.global[c], c)
      BY <3>3, GlobalFacts DEF InUse, Of
    <3>5. InUse(h, v, c)
      BY <3>1, <3>3, <3>4, GetKeyFacts, Zenon
    <3>6. r \in Adopt(Dup(h, v), c, v)
      BY <2>1, <3>2
    <3> QED
      BY <3>5, <3>6, SharedOutcome
  <2> QED
    BY <2>2, <2>3, <2>4, Zenon DEF Results
<1>2. CASE r \in Fail(h, c)
  BY <1>2, FailOutcome
<1> QED
  BY <1>1, <1>2, Zenon DEF Eval

LEMMA GetOutcome ==
  ASSUME NEW h, NEW n, Quiet(h, n), NEW x, Owns(h, x), NEW k \in Keys,
         NEW r \in GetProperty(h, x, k) \cup GetElement(h, x, k)
  PROVE  Outcome(h, x.ctx, n, r)
<1>1. CASE r \in Failed(h)
  BY <1>1, FailedOutcome, KeptSame
<1>2. CASE IsValid(x) /\ r \in Get(h, x, k)
  <2>1. x.ctx \in Ctx /\ (x.val \in Obj => h.home[x.val] = x.ctx)
    BY <1>2, ValuesFacts DEF Owns
  <2>2. CASE r \in Fail(h, x.ctx)
    BY <2>1, <2>2, FailOutcome
  <2>3. CASE r \in Adopt(Dup(h, GetKey(h, x.val, k)), x.ctx, GetKey(h, x.val, k))
    <3>1. Good(h, n) /\ Of(h, x.val, x.ctx)
      BY DEF Quiet, Owns, Of
    <3>2. InUse(h, GetKey(h, x.val, k), x.ctx)
      BY <3>1, GetKeyFacts
    <3> QED
      BY <2>1, <2>3, <3>2, SharedOutcome
  <2> QED
    BY <1>2, <2>2, <2>3, Zenon DEF Get
<1> QED
  BY <1>1, <1>2, Zenon DEF GetProperty, GetElement, IsArray

\* ~Impl gives up the reference of the Value it is part of.
LEMMA DestroyGood ==
  ASSUME NEW h, NEW n \in [Obj -> Nat], NEW x \in Values, Quiet(h, Plus(n, x.val))
  PROVE  Quiet(Destroy(h, x), n) /\ Kept(h, Destroy(h, x))
<1>1. CASE IsValid(x)
  <2> DEFINE v == x.val
  <2>1. v \in JSValue /\ Destroy(h, x) = Free(h, v)
    BY <1>1, ValuesFacts DEF Destroy
  <2>2. Good(h, Plus(n, v)) /\ h.pending = "none"
    BY DEF Quiet
  <2> HIDE DEF v
  <2> QED
    BY <2>1, <2>2, FreeGood DEF Quiet
<1>2. CASE ~IsValid(x)
  BY <1>2, ValuesFacts, PlusNothing, KeptSame DEF Destroy
<1> QED
  BY <1>1, <1>2

\* The methods that return no Value.
LEMMA ReadGood ==
  ASSUME NEW h, NEW n, Quiet(h, n), NEW x \in Values,
         NEW r \in Convert(h, x) \cup ArrayLength(h, x)
  PROVE  Quiet(r.h, n) /\ Kept(h, r.h)
<1>1. CASE r \in Failed(h)
  BY <1>1, KeptSame DEF Failed
<1>2. CASE IsValid(x) /\ r \in Fail(h, x.ctx)
  <2>1. x.ctx \in Ctx
    BY <1>2, ValuesFacts
  <2>2. Outcome(h, x.ctx, n, r) /\ r.x = Invalid
    BY <1>2, <2>1, FailOutcome
  <2>3. Plus(n, r.x.val) = n
    BY <2>2, ValuesFacts, NotObjects, PlusNothing
  <2> QED
    BY <2>2, <2>3 DEF Outcome
<1>3. CASE r \in Done(h, Invalid)
  BY <1>3, KeptSame DEF Done
<1>4. CASE r \in Adopt(h, x.ctx, "int")
  <2>1. Free(h, "int") = h
    BY HeapAssumption DEF Free
  <2>2. r.h = h
    BY <1>4, <2>1 DEF Adopt, Done, Failed
  <2> QED
    BY <2>2, KeptSame
<1> QED
  BY <1>1, <1>2, <1>3, <1>4, Zenon DEF Convert, ArrayLength, IsArray

LEMMA StoreGood ==
  ASSUME NEW h, NEW n \in [Obj -> Nat], NEW x, NEW t, NEW k \in Keys,
         Owns(h, x), Owns(h, t), Quiet(h, Plus(n, x.val)),
         IsValid(t), t.val \in Obj, h.kind[t.val] # "free", IsValid(x), t.ctx = x.ctx,
         NEW r \in Store(h, t, k, x)
  PROVE  Quiet(r.h, n) /\ Kept(h, r.h)
<1> DEFINE v == x.val
           o == t.val
           c == t.ctx
<1>1. Good(h, Plus(n, v)) /\ h.pending = "none"
  BY DEF Quiet
<1>2. /\ v \in JSValue /\ o \in Obj /\ h.kind[o] # "free" /\ c \in Ctx
      /\ (v \in Obj => h.home[v] = h.home[o])
  BY ValuesFacts DEF Owns
<1>3. CASE r \in Done(SetKey(h, o, k, v), Invalid)
  <2>1. r.h = SetKey(h, o, k, v)
    BY <1>3 DEF Done
  <2> HIDE DEF v, o
  <2>2. /\ Good(SetKey(h, o, k, v), n) /\ Kept(h, SetKey(h, o, k, v))
        /\ SetKey(h, o, k, v).pending = h.pending
    BY <1>1, <1>2, SetKeyGood
  <2> QED
    BY <1>1, <2>1, <2>2 DEF Quiet
<1>4. CASE r \in Fail(Free(h, v), c)
  <2> HIDE DEF v, o, c
  <2>1. Quiet(Free(h, v), n) /\ Kept(h, Free(h, v))
    BY <1>1, <1>2, FreeGood DEF Quiet
  <2>2. Outcome(Free(h, v), c, n, r) /\ r.x = Invalid
    BY <1>2, <1>4, <2>1, FailOutcome
  <2>3. Plus(n, r.x.val) = n
    BY <2>2, ValuesFacts, NotObjects, PlusNothing
  <2> QED
    BY <2>1, <2>2, <2>3, KeptTrans DEF Outcome
<1> QED
  BY <1>3, <1>4, Zenon DEF Store

\* SetProperty and SetElement use up the reference of the argument.
LEMMA SetGood ==
  ASSUME NEW h, NEW n \in [Obj -> Nat], NEW x, NEW t, NEW k \in Keys,
         Owns(h, x), Owns(h, t), Quiet(h, Plus(n, x.val)),
         NEW r \in SetProperty(h, t, k, x) \cup SetElement(h, t, k, x)
  PROVE  Quiet(r.h, n) /\ Kept(h, r.h)
<1>1. CASE r \in Refused(h, x)
  <2>1. r.h = Destroy(h, x)
    BY <1>1 DEF Refused, Failed
  <2>2. x \in Values
    BY DEF Owns
  <2> QED
    BY <2>1, <2>2, DestroyGood
<1>2. CASE /\ IsObject(h, t) \/ IsArray(h, t)
           /\ IsValid(x) /\ t.ctx = x.ctx /\ r \in Store(h, t, k, x)
  <2>1. IsValid(t) /\ t.val \in Obj /\ h.kind[t.val] # "free"
    BY <1>2 DEF IsObject, IsArray
  <2> QED
    BY <1>2, <2>1, StoreGood
<1> QED
  BY <1>1, <1>2, Zenon DEF SetProperty, SetElement

-----------------------------------------------------------------------------
(***************************************************************************)
(* The inductive invariant: between two calls the heap is in order with    *)
(* what the Values refer to, each of them refers to an object of its own   *)
(* context, and the contexts alive are those the Context objects hold.     *)
(***************************************************************************)
SlotFcns == [Slot -> Values]
HeldBy(slots) == [o \in Obj |-> SlotRefs(slots, o)]
Put(slots, s, x) == [slots EXCEPT ![s] = x]
Emptied(slots, s) == [slots EXCEPT ![s] = Invalid]

Live(h, c) == c # "none" => h.global[c] # "none"

Owned(h, slots) ==
  /\ slots \in SlotFcns
  /\ \A s \in Slot : Owns(h, slots[s]) /\ Live(h, slots[s].ctx)

Holding(global, hold) ==
  /\ hold \in [ContextVar -> Ctx \cup {"none"}]
  /\ \A a, b \in ContextVar : hold[a] # "none" /\ hold[a] = hold[b] => a = b
  /\ \A a \in ContextVar : hold[a] # "none" => global[hold[a]] # "none"
  /\ \A c \in Ctx : global[c] # "none" => \E a \in ContextVar : hold[a] = c

Sound(h, hold, slots) ==
  Quiet(h, HeldBy(slots)) /\ Owned(h, slots) /\ Holding(h.global, hold)

IInv == Sound(heap, holder, slot)

LEMMA HeldType ==
  ASSUME NEW slots
  PROVE  HeldBy(slots) \in [Obj -> Nat]
BY SlotRefsZero DEF HeldBy

LEMMA HeldInUse ==
  ASSUME NEW h, NEW slots, Good(h, HeldBy(slots)), NEW s \in Slot, slots[s].val \in Obj
  PROVE  h.kind[slots[s].val] # "free" /\ h.count[slots[s].val] # 0
<1> DEFINE o == slots[s].val
<1>1. SlotRefs(slots, o) # 0
  BY SlotRefsZero
<1>2. HeldBy(slots)[o] # 0
  BY <1>1 DEF HeldBy
<1> HIDE DEF o
<1> QED
  BY <1>2, FreeNoRefs, NoRefs DEF o

LEMMA HeldPut ==
  ASSUME NEW slots \in SlotFcns, NEW s \in Slot, NEW x \in Values
  PROVE  /\ HeldBy(Put(slots, s, x)) = Plus(HeldBy(Emptied(slots, s)), x.val)
         /\ Put(slots, s, x) \in SlotFcns
         /\ Put(slots, s, x)[s] = x
         /\ \A t \in Slot : t # s => Put(slots, s, x)[t] = slots[t]
<1> DEFINE e == Emptied(slots, s)
           p == Put(slots, s, x)
           n == HeldBy(e)
<1>1. p \in SlotFcns /\ p[s] = x /\ \A t \in Slot : t # s => p[t] = slots[t]
  BY DEF Put, SlotFcns
<1>2. e \in SlotFcns /\ e[s] = Invalid /\ \A t \in Slot : t # s => e[t] = slots[t]
  BY ValuesFacts DEF Emptied, SlotFcns
<1>3. OnlyAt(e, p, Slot, s)
  BY <1>1, <1>2 DEF OnlyAt
<1> HIDE DEF e, p
<1>4. ASSUME NEW o \in Obj PROVE SlotRefs(p, o) = SlotRefs(e, o) + Same(x.val, o)
  <2>1. Moved(SlotRefs(e, o), SlotRefs(p, o), Same(e[s].val, o), Same(p[s].val, o))
    BY <1>3, SlotRefsSet
  <2>2. Same(e[s].val, o) = 0
    BY <1>2, ValuesFacts, NotObjects DEF Same
  <2>3. SlotRefs(e, o) \in Nat
    BY SlotRefsZero
  <2> QED
    BY <1>1, <2>1, <2>2, <2>3 DEF Moved
<1>5. n \in [Obj -> Nat] /\ \A o \in Obj : n[o] = SlotRefs(e, o)
  BY HeldType DEF HeldBy
<1> HIDE DEF n
<1>6. Plus(n, x.val) \in [Obj -> Nat]
      /\ \A o \in Obj : Plus(n, x.val)[o] = n[o] + Same(x.val, o)
  BY <1>5, PlusType
<1>7. HeldBy(p) \in [Obj -> Nat] /\ \A o \in Obj : HeldBy(p)[o] = SlotRefs(p, o)
  BY HeldType DEF HeldBy
<1>8. HeldBy(p) = Plus(n, x.val)
  BY <1>4, <1>5, <1>6, <1>7
<1> QED
  BY <1>1, <1>8 DEF n, e, p

LEMMA PutFacts ==
  ASSUME NEW slots \in SlotFcns, NEW s \in Slot
  PROVE  /\ Put(slots, s, slots[s]) = slots
         /\ Emptied(slots, s) = Put(slots, s, Invalid)
         /\ slots[s] = Invalid => Emptied(slots, s) = slots
BY DEF Put, Emptied, SlotFcns

LEMMA HeldSplit ==
  ASSUME NEW slots \in SlotFcns, NEW s \in Slot
  PROVE  HeldBy(slots) = Plus(HeldBy(Emptied(slots, s)), slots[s].val)
<1>1. slots[s] \in Values
  BY DEF SlotFcns
<1>2. HeldBy(Put(slots, s, slots[s])) = Plus(HeldBy(Emptied(slots, s)), slots[s].val)
  BY <1>1, HeldPut
<1> QED
  BY <1>2, PutFacts

\* A call leaves what the Values refer to alone.
LEMMA OwnedKept ==
  ASSUME NEW h, NEW g, NEW slots, Good(h, HeldBy(slots)), Owned(h, slots), Kept(h, g)
  PROVE  Owned(g, slots)
<1>1. ASSUME NEW s \in Slot PROVE Owns(g, slots[s]) /\ Live(g, slots[s].ctx)
  <2>1. Owns(h, slots[s]) /\ Live(h, slots[s].ctx)
    BY DEF Owned
  <2>2. slots[s].val \in Obj => g.home[slots[s].val] = h.home[slots[s].val]
    BY HeldInUse DEF Kept
  <2> QED
    BY <2>1, <2>2 DEF Owns, Live, Kept
<1> QED
  BY <1>1 DEF Owned

LEMMA SoundCall ==
  ASSUME NEW h, NEW g, NEW hold, NEW slots, Sound(h, hold, slots),
         Kept(h, g), Quiet(g, HeldBy(slots))
  PROVE  Sound(g, hold, slots)
<1>1. Good(h, HeldBy(slots)) /\ Owned(h, slots)
  BY DEF Sound, Quiet
<1>2. Owned(g, slots)
  BY <1>1, OwnedKept
<1>3. Holding(g.global, hold)
  BY DEF Sound, Kept
<1> QED
  BY <1>2, <1>3 DEF Sound

LEMMA SoundReturn ==
  ASSUME NEW h, NEW hold, NEW slots, Sound(h, hold, slots), NEW s \in Slot,
         slots[s] = Invalid, NEW c, Live(h, c), NEW r, Outcome(h, c, HeldBy(slots), r)
  PROVE  Sound(r.h, hold, Put(slots, s, r.x))
<1> DEFINE p == Put(slots, s, r.x)
           g == r.h
           x == r.x
<1>1. /\ Quiet(g, Plus(HeldBy(slots), x.val)) /\ Kept(h, g) /\ Owns(g, x)
      /\ (IsValid(x) => x.ctx = c)
  BY DEF Outcome
<1>2. Good(h, HeldBy(slots)) /\ Owned(h, slots) /\ slots \in SlotFcns
  BY DEF Sound, Quiet, Owned
<1>3. Owned(g, slots)
  BY <1>1, <1>2, OwnedKept
<1>4. x \in Values
  BY <1>1 DEF Owns
<1>5. /\ HeldBy(p) = Plus(HeldBy(slots), x.val)
      /\ p \in SlotFcns /\ p[s] = x
      /\ \A t \in Slot : t # s => p[t] = slots[t]
  BY <1>2, <1>4, HeldPut, PutFacts
<1>6. Live(g, x.ctx)
  BY <1>1 DEF Live, Kept, IsValid
<1>7. Holding(g.global, hold)
  BY <1>1 DEF Sound, Kept
<1> HIDE DEF p, g, x
<1>8. Owned(g, p)
  BY <1>1, <1>3, <1>5, <1>6, Zenon DEF Owned
<1>9. Sound(g, hold, p)
  BY <1>1, <1>5, <1>7, <1>8 DEF Sound
<1> QED
  BY <1>9 DEF p, g, x

LEMMA SoundDrop ==
  ASSUME NEW h, NEW g, NEW hold, NEW slots, Sound(h, hold, slots), NEW s \in Slot,
         Kept(h, g), Quiet(g, HeldBy(Emptied(slots, s)))
  PROVE  Sound(g, hold, Emptied(slots, s))
<1> DEFINE e == Emptied(slots, s)
<1>1. Good(h, HeldBy(slots)) /\ Owned(h, slots) /\ slots \in SlotFcns
  BY DEF Sound, Quiet, Owned
<1>2. Owned(g, slots)
  BY <1>1, OwnedKept
<1>3. e \in SlotFcns /\ e[s] = Invalid /\ \A t \in Slot : t # s => e[t] = slots[t]
  BY <1>1, ValuesFacts DEF Emptied, SlotFcns
<1>4. Owns(g, Invalid) /\ Live(g, Invalid.ctx)
  BY ValuesFacts, NotObjects DEF Owns, Live, IsValid
<1>5. Holding(g.global, hold)
  BY DEF Sound, Kept
<1> HIDE DEF e
<1>6. Owned(g, e)
  BY <1>2, <1>3, <1>4, Zenon DEF Owned
<1> QED
  BY <1>5, <1>6 DEF Sound, e

\* A Value is moved from t to s, which holds nothing.
LEMMA SoundMove ==
  ASSUME NEW h, NEW hold, NEW slots, Sound(h, hold, slots),
         NEW s \in Slot, NEW t \in Slot, s # t, slots[s] = Invalid
  PROVE  Sound(h, hold, Put(Emptied(slots, t), s, slots[t]))
<1>0. PICK e, x, p : e = Emptied(slots, t) /\ x = slots[t] /\ p = Put(e, s, x)
  OBVIOUS
<1>1. Owned(h, slots) /\ slots \in SlotFcns /\ x \in Values
  BY <1>0 DEF Sound, Owned, SlotFcns
<1>2. e \in SlotFcns /\ e[t] = Invalid /\ \A u \in Slot : u # t => e[u] = slots[u]
  BY <1>0, <1>1, ValuesFacts DEF Emptied, SlotFcns
<1>3. HeldBy(slots) = Plus(HeldBy(e), x.val)
  BY <1>0, <1>1, HeldSplit
<1>4. Emptied(e, s) = e
  BY <1>0, <1>2, PutFacts
<1>5. /\ HeldBy(p) = Plus(HeldBy(Emptied(e, s)), x.val)
      /\ p \in SlotFcns /\ p[s] = x
      /\ \A u \in Slot : u # s => p[u] = e[u]
  BY <1>0, <1>1, <1>2, HeldPut
<1>6. HeldBy(p) = HeldBy(slots)
  BY <1>3, <1>4, <1>5, Zenon
<1>7. Owns(h, Invalid) /\ Live(h, Invalid.ctx) /\ Owns(h, x) /\ Live(h, x.ctx)
  BY <1>0, <1>1, ValuesFacts, NotObjects DEF Owns, Live, IsValid, Owned
<1>8. ASSUME NEW u \in Slot PROVE Owns(h, p[u]) /\ Live(h, p[u].ctx)
  <2>1. CASE u = s
    BY <2>1, <1>5, <1>7
  <2>2. CASE u = t
    <3>1. p[u] = Invalid
      BY <2>2, <1>2, <1>5
    <3> QED
      BY <3>1, <1>7
  <2>3. CASE u # s /\ u # t
    <3>1. p[u] = slots[u]
      BY <2>3, <1>2, <1>5
    <3> QED
      BY <3>1, <1>1 DEF Owned
  <2> QED
    BY <2>1, <2>2, <2>3
<1>9. Owned(h, p)
  BY <1>5, <1>8, Zenon DEF Owned
<1>10. Sound(h, hold, p)
  BY <1>6, <1>9 DEF Sound
<1> QED
  BY <1>0, <1>10

-----------------------------------------------------------------------------
(***************************************************************************)
(* One lemma for each action.                                              *)
(***************************************************************************)
LEMMA InvFacts ==
  ASSUME IInv
  PROVE  /\ Good(heap, HeldBy(slot)) /\ heap.pending = "none" /\ Quiet(heap, HeldBy(slot))
         /\ Owned(heap, slot) /\ slot \in SlotFcns
         /\ Holding(heap.global, holder) /\ holder \in [ContextVar -> Ctx \cup {"none"}]
         /\ Sound(heap, holder, slot)
BY DEF IInv, Sound, Quiet, Owned, Holding

LEMMA SweepObjectStep ==
  ASSUME IInv, SweepObject
  PROVE  IInv'
<1>1. /\ Good(heap, HeldBy(slot)) /\ heap.pending = "none"
      /\ Owned(heap, slot) /\ Holding(heap.global, holder)
  BY InvFacts
<1>2. PICK o \in Obj : o \in Unswept(heap) /\ heap' = Sweep(heap, o)
  <2>1. \E o \in Obj : o \in Unswept(heap)
    BY DEF SweepObject, Returned, Unswept
  <2> QED
    BY <2>1, Zenon DEF SweepObject
<1>3. heap.count[o] = 0
  BY <1>2 DEF Unswept
<1>4. /\ Good(heap', HeldBy(slot)) /\ heap'.pending = heap.pending
      /\ heap'.global = heap.global
      /\ \A q \in Obj : q # o => heap'.kind[q] = heap.kind[q] /\ heap'.home[q] = heap.home[q]
  BY <1>1, <1>2, <1>3, SweepGood
<1>5. ASSUME NEW s \in Slot PROVE Owns(heap', slot[s]) /\ Live(heap', slot[s].ctx)
  <2>1. Owns(heap, slot[s]) /\ Live(heap, slot[s].ctx)
    BY <1>1 DEF Owned
  <2>2. slot[s].val \in Obj => slot[s].val # o
    BY <1>1, <1>3, HeldInUse
  <2> QED
    BY <1>4, <2>1, <2>2 DEF Owns, Live
<1>6. Owned(heap', slot)
  BY <1>1, <1>5 DEF Owned
<1>7. Sound(heap', holder, slot)
  BY <1>1, <1>4, <1>6 DEF Sound, Quiet
<1>8. holder' = holder /\ slot' = slot
  BY DEF SweepObject
<1> QED
  BY <1>7, <1>8 DEF IInv

LEMMA CreateContextStep ==
  ASSUME IInv, NEW a \in ContextVar, CreateContext(a)
  PROVE  IInv'
<1> DEFINE n == HeldBy(slot)
<1>1. /\ Good(heap, n) /\ heap.pending = "none" /\ n \in [Obj -> Nat]
      /\ Owned(heap, slot) /\ Holding(heap.global, holder)
      /\ slot \in SlotFcns /\ holder \in [ContextVar -> Ctx \cup {"none"}]
  BY InvFacts, HeldType
<1>2. PICK c \in Ctx \ Alive(heap) : /\ heap' \in NewContext(heap, c)
                                     /\ holder' = [holder EXCEPT ![a] = c]
  BY DEF CreateContext
<1>3. c \in Ctx /\ heap.global[c] = "none" /\ c # "none" /\ holder[a] = "none" /\ slot' = slot
  BY <1>2, HeapAssumption DEF Alive, CreateContext
<1>4. PICK r \in New(heap, c, "object") : heap' = [r.h EXCEPT !.global[c] = r.v]
  BY <1>2 DEF NewContext
<1> DEFINE g == r.h
           v == r.v
<1>5. "object" \in Kinds
  BY DEF Kinds
<1>6. /\ v \in Obj /\ Good(g, Plus(n, v)) /\ Kept(heap, g)
      /\ g.pending = heap.pending /\ g.home[v] = c
  BY <1>1, <1>3, <1>5, NewGood
<1> HIDE DEF n
<1>7. g.global = heap.global
  BY <1>6 DEF Kept
<1>8. heap' = [g EXCEPT !.global[c] = v]
  BY <1>4
<1> HIDE DEF g, v
<1>9. /\ Good(heap', n) /\ heap'.pending = g.pending
      /\ heap'.kind = g.kind /\ heap'.home = g.home
      /\ heap'.global = [g.global EXCEPT ![c] = v]
  BY <1>1, <1>3, <1>6, <1>7, <1>8, GlobalSet
<1>10. Owned(g, slot)
  BY <1>1, <1>6, OwnedKept DEF n
<1>11. heap.global \in GlobalFcns
  BY <1>1, HeapParts DEF Good
<1>12. /\ heap'.global[c] = v /\ v # "none"
       /\ \A d \in Ctx : d # c => heap'.global[d] = heap.global[d]
  BY <1>6, <1>7, <1>9, <1>11, NotObjects DEF GlobalFcns
<1>13. ASSUME NEW s \in Slot PROVE Owns(heap', slot[s]) /\ Live(heap', slot[s].ctx)
  <2>1. Owns(g, slot[s]) /\ Live(g, slot[s].ctx) /\ slot[s] \in Values
    BY <1>10 DEF Owned, SlotFcns
  <2>2. Owns(heap', slot[s])
    BY <1>9, <2>1 DEF Owns
  <2>3. slot[s].ctx # "none" => slot[s].ctx \in Ctx
    BY <2>1, ValuesFacts DEF IsValid
  <2>4. Live(heap', slot[s].ctx)
    BY <1>7, <1>12, <2>1, <2>3 DEF Live
  <2> QED
    BY <2>2, <2>4
<1>14. Owned(heap', slot)
  BY <1>1, <1>13 DEF Owned
<1>15. /\ holder' \in [ContextVar -> Ctx \cup {"none"}] /\ holder'[a] = c
       /\ \A b \in ContextVar : b # a => holder'[b] = holder[b]
  BY <1>1, <1>2, <1>3
<1>16. \A b \in ContextVar : b # a => holder[b] # c
  BY <1>1, <1>3 DEF Holding
<1>17. Holding(heap'.global, holder')
  <2>1. \A b, d \in ContextVar : holder'[b] # "none" /\ holder'[b] = holder'[d] => b = d
    BY <1>1, <1>15, <1>16 DEF Holding
  <2>2. ASSUME NEW b \in ContextVar, holder'[b] # "none"
        PROVE  heap'.global[holder'[b]] # "none"
    BY <2>2, <1>1, <1>12, <1>15, <1>16 DEF Holding
  <2>3. ASSUME NEW d \in Ctx, heap'.global[d] # "none"
        PROVE  \E b \in ContextVar : holder'[b] = d
    <3>1. CASE d = c
      BY <3>1, <1>15
    <3>2. CASE d # c
      <4>1. PICK b \in ContextVar : holder[b] = d
        BY <2>3, <3>2, <1>1, <1>12 DEF Holding
      <4>2. b # a
        BY <4>1, <1>3, HeapAssumption
      <4> QED
        BY <4>1, <4>2, <1>15
    <3> QED
      BY <3>1, <3>2
  <2> QED
    BY <1>15, <2>1, <2>2, <2>3, Zenon DEF Holding
<1>18. Sound(heap', holder', slot)
  BY <1>1, <1>6, <1>9, <1>14, <1>17 DEF Sound, Quiet, n
<1> QED
  BY <1>3, <1>18 DEF IInv

\* A Context object gives up its JSContext, which no Value borrows.
LEMMA SoundFreeContext ==
  ASSUME NEW h, NEW hold, NEW slots, Sound(h, hold, slots), NEW a \in ContextVar,
         hold[a] # "none", \A s \in Slot : slots[s].ctx # hold[a]
  PROVE  Sound(FreeContext(h, hold[a]), [hold EXCEPT ![a] = "none"], slots)
<1>1. PICK c, g, new : /\ c = hold[a] /\ g = FreeContext(h, c)
                       /\ new = [hold EXCEPT ![a] = "none"]
  OBVIOUS
<1>2. /\ Good(h, HeldBy(slots)) /\ h.pending = "none"
      /\ Owned(h, slots) /\ Holding(h.global, hold) /\ hold \in [ContextVar -> Ctx \cup {"none"}]
  BY DEF Sound, Quiet, Holding
<1>3. c \in Ctx /\ c # "none" /\ h.global[c] # "none"
  BY <1>1, <1>2 DEF Holding
<1>4. h.global[c] \in Obj /\ h.global \in GlobalFcns
  BY <1>2, <1>3, GlobalFacts, HeapParts DEF Good
<1>5. /\ Good(g, HeldBy(slots)) /\ g.pending = h.pending
      /\ g.kind = h.kind /\ g.home = h.home
      /\ g.global = [h.global EXCEPT ![c] = "none"]
  BY <1>1, <1>2, <1>3, <1>4, FreeContextGood
<1>6. /\ g.global[c] = "none"
      /\ \A d \in Ctx : d # c => g.global[d] = h.global[d]
  BY <1>3, <1>4, <1>5 DEF GlobalFcns
<1>7. ASSUME NEW s \in Slot PROVE Owns(g, slots[s]) /\ Live(g, slots[s].ctx)
  <2>1. Owns(h, slots[s]) /\ Live(h, slots[s].ctx) /\ slots[s] \in Values
    BY <1>2 DEF Owned, SlotFcns
  <2>2. Owns(g, slots[s])
    BY <1>5, <2>1 DEF Owns
  <2>3. slots[s].ctx # "none" => slots[s].ctx \in Ctx
    BY <2>1, ValuesFacts DEF IsValid
  <2>4. slots[s].ctx # c
    BY <1>1
  <2>5. Live(g, slots[s].ctx)
    BY <1>6, <2>1, <2>3, <2>4 DEF Live
  <2> QED
    BY <2>2, <2>5
<1>8. Owned(g, slots)
  BY <1>2, <1>7 DEF Owned
<1>9. /\ new \in [ContextVar -> Ctx \cup {"none"}] /\ new[a] = "none"
      /\ \A b \in ContextVar : b # a => new[b] = hold[b]
  BY <1>1, <1>2
<1>10. \A b \in ContextVar : b # a => hold[b] # c
  BY <1>1, <1>2, <1>3 DEF Holding
<1>11. Holding(g.global, new)
  <2>1. ASSUME NEW b \in ContextVar, NEW d \in ContextVar, new[b] # "none", new[b] = new[d]
        PROVE  b = d
    BY <2>1, <1>2, <1>9 DEF Holding
  <2>2. ASSUME NEW b \in ContextVar, new[b] # "none"
        PROVE  g.global[new[b]] # "none"
    BY <2>2, <1>2, <1>6, <1>9, <1>10 DEF Holding
  <2>3. ASSUME NEW d \in Ctx, g.global[d] # "none"
        PROVE  \E b \in ContextVar : new[b] = d
    <3>1. d # c /\ h.global[d] # "none"
      BY <2>3, <1>6
    <3>2. PICK b \in ContextVar : hold[b] = d
      BY <3>1, <1>2 DEF Holding
    <3>3. b # a
      BY <1>1, <3>1, <3>2
    <3> QED
      BY <3>2, <3>3, <1>9
  <2> QED
    BY <1>9, <2>1, <2>2, <2>3, Zenon DEF Holding
<1> QED
  BY <1>1, <1>2, <1>5, <1>8, <1>11 DEF Sound, Quiet

\* A JSContext is moved from b to a, which holds none.
LEMMA SoundMoveContext ==
  ASSUME NEW h, NEW hold, NEW slots, Sound(h, hold, slots),
         NEW a \in ContextVar, NEW b \in ContextVar, a # b, hold[a] = "none"
  PROVE  Sound(h, [hold EXCEPT ![a] = hold[b], ![b] = "none"], slots)
<1>1. PICK new : new = [hold EXCEPT ![a] = hold[b], ![b] = "none"]
  OBVIOUS
<1>2. Holding(h.global, hold) /\ hold \in [ContextVar -> Ctx \cup {"none"}]
  BY DEF Sound, Holding
<1>3. /\ new \in [ContextVar -> Ctx \cup {"none"}] /\ new[a] = hold[b] /\ new[b] = "none"
      /\ \A d \in ContextVar : d # a /\ d # b => new[d] = hold[d]
  BY <1>1, <1>2
<1>4. ASSUME NEW d \in ContextVar, NEW e \in ContextVar, new[d] # "none", new[d] = new[e]
      PROVE  d = e
  BY <1>2, <1>3, <1>4 DEF Holding
<1>5. ASSUME NEW d \in ContextVar, new[d] # "none" PROVE h.global[new[d]] # "none"
  BY <1>2, <1>3, <1>5 DEF Holding
<1>6. ASSUME NEW c \in Ctx, h.global[c] # "none" PROVE \E d \in ContextVar : new[d] = c
  <2>1. PICK d \in ContextVar : hold[d] = c
    BY <1>2, <1>6 DEF Holding
  <2>2. d # a
    BY <2>1, HeapAssumption
  <2> QED
    BY <2>1, <2>2, <1>3
<1>7. Holding(h.global, new)
  BY <1>3, <1>4, <1>5, <1>6, Zenon DEF Holding
<1> QED
  BY <1>1, <1>7 DEF Sound

LEMMA DestroyContextStep ==
  ASSUME IInv, NEW a \in ContextVar, DestroyContext(a)
  PROVE  IInv'
<1>1. Sound(heap, holder, slot) /\ holder[a] # "none"
  BY InvFacts DEF DestroyContext
<1>2. \A s \in Slot : slot[s].ctx # holder[a]
  BY DEF DestroyContext, Borrowed
<1>3. Sound(FreeContext(heap, holder[a]), [holder EXCEPT ![a] = "none"], slot)
  BY <1>1, <1>2, SoundFreeContext
<1> QED
  BY <1>3 DEF DestroyContext, IInv

LEMMA MoveContextStep ==
  ASSUME IInv, NEW a \in ContextVar, NEW b \in ContextVar, MoveContext(a, b)
  PROVE  IInv'
<1>1. Sound(heap, holder, slot) /\ slot' = slot /\ holder \in [ContextVar -> Ctx \cup {"none"}]
  BY InvFacts DEF MoveContext
<1>2. CASE a = b
  BY <1>1, <1>2 DEF MoveContext, IInv
<1>3. CASE a # b /\ holder[a] = "none"
  <2>1. Sound(heap, [holder EXCEPT ![a] = holder[b], ![b] = "none"], slot)
    BY <1>1, <1>3, SoundMoveContext
  <2>2. heap' = heap /\ holder' = [holder EXCEPT ![a] = holder[b], ![b] = "none"]
    BY <1>3 DEF MoveContext
  <2> QED
    BY <1>1, <2>1, <2>2 DEF IInv
<1>4. CASE a # b /\ holder[a] # "none"
  <2>1. PICK new : new = [holder EXCEPT ![a] = "none"]
    OBVIOUS
  <2>2. \A s \in Slot : slot[s].ctx # holder[a]
    BY <1>4 DEF MoveContext, Borrowed
  <2>3. Sound(FreeContext(heap, holder[a]), new, slot)
    BY <1>1, <1>4, <2>1, <2>2, SoundFreeContext
  <2>4. new[a] = "none" /\ new[b] = holder[b]
    BY <1>1, <1>4, <2>1
  <2>5. Sound(FreeContext(heap, holder[a]), [new EXCEPT ![a] = new[b], ![b] = "none"], slot)
    BY <1>4, <2>3, <2>4, SoundMoveContext
  <2>6. [new EXCEPT ![a] = new[b], ![b] = "none"]
          = [holder EXCEPT ![a] = holder[b], ![b] = "none"]
    BY <1>1, <1>4, <2>1, <2>4
  <2>7. /\ heap' = FreeContext(heap, holder[a])
        /\ holder' = [holder EXCEPT ![a] = holder[b], ![b] = "none"]
    BY <1>4 DEF MoveContext
  <2> QED
    BY <1>1, <2>5, <2>6, <2>7 DEF IInv
<1> QED
  BY <1>2, <1>3, <1>4

\* What a call on a context that is held returns.
LEMMA OfContextOutcome ==
  ASSUME NEW h, NEW n, Quiet(h, n), NEW c \in Ctx, h.global[c] # "none",
         NEW r \in GlobalObject(h, c)
                     \cup (UNION {MakeImmediate(h, c, v) : v \in Immediate})
                     \cup (UNION {Make(h, c, kind) : kind \in Kinds})
                     \cup Eval(h, c)
  PROVE  Outcome(h, c, n, r)
<1>1. CASE r \in GlobalObject(h, c)
  BY <1>1, GlobalObjectOutcome
<1>2. CASE \E v \in Immediate : r \in MakeImmediate(h, c, v)
  BY <1>2, ImmediateOutcome DEF MakeImmediate
<1>3. CASE \E kind \in Kinds : r \in Make(h, c, kind)
  BY <1>3, MakeOutcome
<1>4. CASE r \in Eval(h, c)
  BY <1>4, EvalOutcome
<1> QED
  BY <1>1, <1>2, <1>3, <1>4, Zenon

LEMMA OfContextStep ==
  ASSUME IInv, NEW s \in Slot, NEW a \in ContextVar, OfContext(s, a)
  PROVE  IInv'
<1>1. PICK c : c = holder[a]
  OBVIOUS
<1> DEFINE calls == IF c = "none" THEN Failed(heap)
                    ELSE GlobalObject(heap, c)
                           \cup (UNION {MakeImmediate(heap, c, v) : v \in Immediate})
                           \cup (UNION {Make(heap, c, kind) : kind \in Kinds})
                           \cup Eval(heap, c)
<1>2. Returns(s, calls)
  BY <1>1, Zenon DEF OfContext
<1>3. PICK r \in calls : heap' = r.h /\ slot' = Put(slot, s, r.x)
  BY <1>2, Zenon DEF Returns, Put
<1>4. slot[s] = Invalid /\ holder' = holder
  BY <1>2, Zenon DEF Returns
<1>5. /\ Sound(heap, holder, slot) /\ Quiet(heap, HeldBy(slot))
      /\ Holding(heap.global, holder) /\ holder \in [ContextVar -> Ctx \cup {"none"}]
  BY InvFacts
<1>6. Live(heap, c)
  BY <1>1, <1>5 DEF Live, Holding
<1>7. Outcome(heap, c, HeldBy(slot), r)
  <2>1. CASE c = "none"
    <3>1. r \in Failed(heap)
      BY <2>1
    <3> QED
      BY <1>5, <3>1, FailedOutcome, KeptSame
  <2>2. CASE c # "none"
    <3>1. c \in Ctx /\ heap.global[c] # "none"
      BY <1>1, <1>5, <1>6, <2>2 DEF Live
    <3>2. r \in GlobalObject(heap, c)
                  \cup (UNION {MakeImmediate(heap, c, v) : v \in Immediate})
                  \cup (UNION {Make(heap, c, kind) : kind \in Kinds})
                  \cup Eval(heap, c)
      BY <2>2, Zenon
    <3> QED
      BY <1>5, <3>1, <3>2, OfContextOutcome
  <2> QED
    BY <2>1, <2>2
<1>8. Sound(r.h, holder, Put(slot, s, r.x))
  BY <1>4, <1>5, <1>6, <1>7, SoundReturn
<1> QED
  BY <1>3, <1>4, <1>8 DEF IInv

LEMMA GetValueStep ==
  ASSUME IInv, NEW s \in Slot, NEW t \in Slot, NEW k \in Keys, GetValue(s, t, k)
  PROVE  IInv'
<1> DEFINE x == slot[t]
<1>1. Returns(s, GetProperty(heap, x, k) \cup GetElement(heap, x, k))
  BY Zenon DEF GetValue
<1>2. PICK r \in GetProperty(heap, x, k) \cup GetElement(heap, x, k) :
             heap' = r.h /\ slot' = Put(slot, s, r.x)
  BY <1>1, Zenon DEF Returns, Put
<1>3. slot[s] = Invalid /\ holder' = holder
  BY <1>1, Zenon DEF Returns
<1>4. Sound(heap, holder, slot) /\ Quiet(heap, HeldBy(slot))
  BY InvFacts
<1>5. Owns(heap, x) /\ Live(heap, x.ctx)
  BY InvFacts DEF Owned
<1> HIDE DEF x
<1>6. Outcome(heap, x.ctx, HeldBy(slot), r)
  BY <1>4, <1>5, GetOutcome
<1>7. Sound(r.h, holder, Put(slot, s, r.x))
  BY <1>3, <1>4, <1>5, <1>6, SoundReturn
<1> QED
  BY <1>2, <1>3, <1>7 DEF IInv

LEMMA ConvertValueStep ==
  ASSUME IInv, NEW s \in Slot, ConvertValue(s)
  PROVE  IInv'
<1>1. PICK r \in Convert(heap, slot[s]) \cup ArrayLength(heap, slot[s]) : heap' = r.h
  BY Zenon DEF ConvertValue
<1>2. slot' = slot /\ holder' = holder
  BY DEF ConvertValue
<1>3. Sound(heap, holder, slot) /\ Quiet(heap, HeldBy(slot)) /\ slot[s] \in Values
  BY InvFacts DEF SlotFcns
<1>4. Quiet(r.h, HeldBy(slot)) /\ Kept(heap, r.h)
  BY <1>3, ReadGood
<1>5. Sound(r.h, holder, slot)
  BY <1>3, <1>4, SoundCall
<1> QED
  BY <1>1, <1>2, <1>5 DEF IInv

\* What a slot refers to besides the others.
LEMMA SlotHeld ==
  ASSUME IInv, NEW s \in Slot
  PROVE  /\ HeldBy(Emptied(slot, s)) \in [Obj -> Nat] /\ slot[s] \in Values
         /\ Quiet(heap, Plus(HeldBy(Emptied(slot, s)), slot[s].val))
<1>1. slot \in SlotFcns /\ Quiet(heap, HeldBy(slot))
  BY InvFacts
<1>2. HeldBy(slot) = Plus(HeldBy(Emptied(slot, s)), slot[s].val)
  BY <1>1, HeldSplit
<1> QED
  BY <1>1, <1>2, HeldType DEF SlotFcns

LEMMA SoundDestroy ==
  ASSUME IInv, NEW s \in Slot
  PROVE  Sound(Destroy(heap, slot[s]), holder, Emptied(slot, s))
<1>1. Quiet(Destroy(heap, slot[s]), HeldBy(Emptied(slot, s)))
      /\ Kept(heap, Destroy(heap, slot[s]))
  BY SlotHeld, DestroyGood
<1>2. Sound(heap, holder, slot)
  BY InvFacts
<1> QED
  BY <1>1, <1>2, SoundDrop

LEMMA DestroyValueStep ==
  ASSUME IInv, NEW s \in Slot, DestroyValue(s)
  PROVE  IInv'
<1>1. heap' = Destroy(heap, slot[s]) /\ slot' = Emptied(slot, s) /\ holder' = holder
  BY Zenon DEF DestroyValue, Emptied
<1>2. Sound(Destroy(heap, slot[s]), holder, Emptied(slot, s))
  BY SoundDestroy
<1> QED
  BY <1>1, <1>2 DEF IInv

LEMMA MoveValueStep ==
  ASSUME IInv, NEW s \in Slot, NEW t \in Slot, MoveValue(s, t)
  PROVE  IInv'
<1>1. slot \in [Slot -> Values]
  BY InvFacts DEF SlotFcns
<1>2. CASE s = t
  <2>1. heap' = heap /\ holder' = holder /\ slot' = [slot EXCEPT ![t] = Invalid, ![s] = slot[t]]
    BY <1>2 DEF MoveValue
  <2>2. slot' = slot
    BY <1>1, <1>2, <2>1
  <2> QED
    BY <2>1, <2>2 DEF IInv
<1>3. CASE s # t
  <2>1. PICK e : e = Emptied(slot, s)
    OBVIOUS
  <2>2. Sound(Destroy(heap, slot[s]), holder, e)
    BY <2>1, SoundDestroy
  <2>3. e[s] = Invalid /\ e[t] = slot[t]
    BY <1>1, <1>3, <2>1 DEF Emptied
  <2>4. Sound(Destroy(heap, slot[s]), holder, Put(Emptied(e, t), s, e[t]))
    BY <1>3, <2>2, <2>3, SoundMove
  <2>5. Put(Emptied(e, t), s, e[t]) = [slot EXCEPT ![t] = Invalid, ![s] = slot[t]]
    BY <1>1, <1>3, <2>1, <2>3 DEF Put, Emptied
  <2>6. /\ heap' = Destroy(heap, slot[s]) /\ holder' = holder
        /\ slot' = [slot EXCEPT ![t] = Invalid, ![s] = slot[t]]
    BY <1>3 DEF MoveValue
  <2> QED
    BY <2>4, <2>5, <2>6 DEF IInv
<1> QED
  BY <1>2, <1>3

LEMMA SetValueStep ==
  ASSUME IInv, NEW t \in Slot, NEW k \in Keys, NEW s \in Slot, SetValue(t, k, s)
  PROVE  IInv'
<1>1. PICK y : y = IF s = t THEN Invalid ELSE slot[t]
  OBVIOUS
<1>2. PICK r \in SetProperty(heap, y, k, slot[s]) \cup SetElement(heap, y, k, slot[s]) :
             heap' = r.h
  BY <1>1, Zenon DEF SetValue
<1>3. slot' = Emptied(slot, s) /\ holder' = holder
  BY Zenon DEF SetValue, Emptied
<1>4. Owns(heap, slot[s]) /\ Owns(heap, slot[t]) /\ Sound(heap, holder, slot)
  BY InvFacts DEF Owned
<1>5. Owns(heap, y)
  BY <1>1, <1>4, ValuesFacts, NotObjects DEF Owns
<1>6. Quiet(r.h, HeldBy(Emptied(slot, s))) /\ Kept(heap, r.h)
  BY <1>4, <1>5, SlotHeld, SetGood
<1>7. Sound(r.h, holder, Emptied(slot, s))
  BY <1>4, <1>6, SoundDrop
<1> QED
  BY <1>2, <1>3, <1>7 DEF IInv

-----------------------------------------------------------------------------
LEMMA InitInv ==
  ASSUME Init
  PROVE  IInv
<1>1. heap = EmptyHeap /\ holder = [a \in ContextVar |-> "none"] /\ slot = [s \in Slot |-> Invalid]
  BY DEF Init
<1>2. Good(heap, [o \in Obj |-> 0]) /\ heap.pending = "none"
      /\ \A c \in Ctx : heap.global[c] = "none"
  BY <1>1, EmptyGood
<1>3. \A s \in Slot : slot[s] = Invalid
  BY <1>1
<1>4. HeldBy(slot) = [o \in Obj |-> 0]
  <2>1. ASSUME NEW o \in Obj PROVE SlotRefs(slot, o) = 0
    <3>1. \A s \in Slot : slot[s].val # o
      BY <1>3, ValuesFacts, NotObjects
    <3> QED
      BY <3>1, SlotRefsZero
  <2> QED
    BY <2>1, Zenon DEF HeldBy
<1>5. Owned(heap, slot)
  <2>1. slot \in SlotFcns
    BY <1>1, ValuesFacts DEF SlotFcns
  <2>2. Owns(heap, Invalid) /\ Live(heap, Invalid.ctx)
    BY ValuesFacts, NotObjects DEF Owns, Live, IsValid
  <2> QED
    BY <1>3, <2>1, <2>2 DEF Owned
<1>6. Holding(heap.global, holder)
  BY <1>1, <1>2 DEF Holding
<1> QED
  BY <1>2, <1>4, <1>5, <1>6 DEF IInv, Sound, Quiet

\* The invariant holds in every state of every behaviour of the client.
THEOREM Inductive == Spec => []IInv
<1>1. Init => IInv
  BY InitInv
<1>2. IInv /\ [Next]_vars => IInv'
  <2> SUFFICES ASSUME IInv, [Next]_vars
               PROVE  IInv'
    OBVIOUS
  <2>1. CASE SweepObject
    BY <2>1, SweepObjectStep
  <2>2. ASSUME NEW a \in ContextVar, CreateContext(a) PROVE IInv'
    BY <2>2, CreateContextStep
  <2>3. ASSUME NEW a \in ContextVar, DestroyContext(a) PROVE IInv'
    BY <2>3, DestroyContextStep
  <2>4. ASSUME NEW a \in ContextVar, NEW b \in ContextVar, MoveContext(a, b) PROVE IInv'
    BY <2>4, MoveContextStep
  <2>5. ASSUME NEW s \in Slot, NEW a \in ContextVar, OfContext(s, a) PROVE IInv'
    BY <2>5, OfContextStep
  <2>6. ASSUME NEW s \in Slot, DestroyValue(s) PROVE IInv'
    BY <2>6, DestroyValueStep
  <2>7. ASSUME NEW s \in Slot, ConvertValue(s) PROVE IInv'
    BY <2>7, ConvertValueStep
  <2>8. ASSUME NEW s \in Slot, NEW t \in Slot, MoveValue(s, t) PROVE IInv'
    BY <2>8, MoveValueStep
  <2>9. ASSUME NEW s \in Slot, NEW t \in Slot, NEW k \in Keys, GetValue(s, t, k) PROVE IInv'
    BY <2>9, GetValueStep
  <2>10. ASSUME NEW s \in Slot, NEW t \in Slot, NEW k \in Keys, SetValue(t, k, s) PROVE IInv'
    BY <2>10, SetValueStep
  <2>11. CASE UNCHANGED vars
    BY <2>11 DEF vars, IInv
  <2> QED
    BY <2>1, <2>2, <2>3, <2>4, <2>5, <2>6, <2>7, <2>8, <2>9, <2>10, <2>11, Zenon DEF Next
<1> QED
  BY <1>1, <1>2, PTL DEF Spec

(***************************************************************************)
(* The heap, the Context objects and the Value objects keep their types.   *)
(***************************************************************************)
THEOREM TypeCorrect == Spec => []TypeOK
<1>1. IInv => TypeOK
  BY InvFacts DEF TypeOK, Good, SlotFcns
<1> QED
  BY <1>1, Inductive, PTL

(***************************************************************************)
(* Whatever methods of Context and Value are called on whatever objects,   *)
(* an object counts exactly the references to it, and freed memory has     *)
(* none: ~Impl, Release(), Adopt and the calls that consume a JSValue free *)
(* each exactly once.                                                      *)
(***************************************************************************)
THEOREM Refcounts == Spec => []RefsBalanced
<1>1. IInv => RefsBalanced
  <2> SUFFICES ASSUME IInv PROVE RefsBalanced
    OBVIOUS
  <2>1. Balanced(heap, HeldBy(slot))
    BY InvFacts DEF Good
  <2>2. ASSUME NEW o \in Obj
        PROVE  /\ heap.count[o] = RefsTo(heap, HeldBy(slot), o)
               /\ heap.kind[o] = "free" => RefsTo(heap, HeldBy(slot), o) = 0
    BY <2>1 DEF Balanced
  <2>3. ASSUME NEW o \in Obj
        PROVE  RefsTo(heap, HeldBy(slot), o)
                 = Held(o)
                   + Cardinality({x \in Obj \X Keys : heap.prop[x[1]][x[2]] = o})
                   + Cardinality({c \in Ctx : heap.global[c] = o})
                   + (IF heap.pending = o THEN 1 ELSE 0)
    <3>1. HeldBy(slot)[o] = Held(o)
      BY DEF HeldBy, SlotRefs, HoldersOf, Held
    <3> QED
      BY <3>1, Zenon DEF RefsTo, PropRefs, PropsTo, GlobalRefs, GlobalsTo, Same
  <2> QED
    BY <2>2, <2>3, Zenon DEF RefsBalanced, Counted
<1> QED
  BY <1>1, Inductive, PTL

(***************************************************************************)
(* No Value and no property refers to an object of another context: the    *)
(* comparison of contexts in SetProperty and SetElement is enough.         *)
(***************************************************************************)
THEOREM GraphsApart == Spec => []ContextsApart
<1>1. IInv => ContextsApart
  <2> SUFFICES ASSUME IInv PROVE ContextsApart
    OBVIOUS
  <2>1. Owned(heap, slot) /\ Apart(heap)
    BY InvFacts DEF Good
  <2> QED
    BY <2>1 DEF ContextsApart, Owned, Owns, Apart
<1> QED
  BY <1>1, Inductive, PTL

(***************************************************************************)
(* Each JSContext alive has exactly one Context object, through the move   *)
(* constructor and the move assignment, and a valid Value borrows one that *)
(* is alive.                                                               *)
(***************************************************************************)
THEOREM OneOwner == Spec => []ContextsOwned
<1>1. IInv => ContextsOwned
  <2> SUFFICES ASSUME IInv PROVE ContextsOwned
    OBVIOUS
  <2>1. /\ Holding(heap.global, holder) /\ Owned(heap, slot)
        /\ holder \in [ContextVar -> Ctx \cup {"none"}] /\ slot \in [Slot -> Values]
    BY InvFacts DEF SlotFcns
  <2>2. ASSUME NEW c \in Alive(heap)
        PROVE  Cardinality({a \in ContextVar : holder[a] = c}) = 1
    <3>1. c \in Ctx /\ heap.global[c] # "none" /\ c # "none"
      BY HeapAssumption DEF Alive
    <3>2. PICK a \in ContextVar : holder[a] = c
      BY <2>1, <3>1 DEF Holding
    <3>3. \A b \in ContextVar : holder[b] = c => b = a
      BY <2>1, <3>1, <3>2 DEF Holding
    <3>4. {b \in ContextVar : holder[b] = c} = {a}
      BY <3>2, <3>3
    <3> QED
      BY <3>4, FS_Singleton
  <2>3. ASSUME NEW a \in ContextVar, holder[a] # "none" PROVE holder[a] \in Alive(heap)
    BY <2>1, <2>3 DEF Holding, Alive
  <2>4. ASSUME NEW s \in Slot, IsValid(slot[s]) PROVE slot[s].ctx \in Alive(heap)
    <3>1. slot[s].ctx \in Ctx /\ Live(heap, slot[s].ctx) /\ slot[s].ctx # "none"
      BY <2>1, <2>4, ValuesFacts DEF Owned, IsValid
    <3> QED
      BY <3>1 DEF Live, Alive
  <2> QED
    BY <2>2, <2>3, <2>4, Zenon DEF ContextsOwned
<1> QED
  BY <1>1, Inductive, PTL

-----------------------------------------------------------------------------
(***************************************************************************)
(* The length of an array.                                                 *)
(***************************************************************************)
Less == {p \in Nat \X Nat : p[1] < p[2]}

LEMMA LessWellFounded == IsWellFoundedOn(Less, Nat)
<1>1. OpToRel(<, Nat) = Less
  BY DEF OpToRel, Less
<1> QED
  BY <1>1, NatLessThanWellFounded

\* A set of bounded numbers has a greatest one: b less the least b - x.
LEMMA Greatest ==
  ASSUME NEW b \in Nat, NEW S \in SUBSET (0 .. b), S # {}
  PROVE  \E x \in S : \A y \in S : x >= y
<1> DEFINE T == {n \in Nat : b - n \in S}
<1>1. T # {}
  <2>1. PICK x \in S : TRUE
    OBVIOUS
  <2>2. b - x \in Nat /\ b - (b - x) = x
    OBVIOUS
  <2> QED
    BY <2>2
<1>2. PICK m \in T : \A n \in T : ~(<<n, m>> \in Less)
  BY <1>1, LessWellFounded, WFMin
<1>3. \A y \in S : b - y \in T
  OBVIOUS
<1>4. ASSUME NEW y \in S PROVE b - m >= y
  <2>1. <<b - y, m>> \notin Less
    BY <1>2, <1>3
  <2>2. b - y \in Nat /\ m \in Nat /\ y \in Nat
    OBVIOUS
  <2>3. ~(b - y < m)
    BY <2>1, <2>2 DEF Less
  <2> QED
    BY <2>2, <2>3
<1> QED
  BY <1>4

\* Taken modulo p, a number below p stays, also after p was subtracted.
LEMMA Wraps ==
  ASSUME NEW p \in Nat \ {0}, NEW n \in 0 .. p - 1
  PROVE  n % p = n /\ (n - p) % p = n
OBVIOUS

\* The largest index is only a name, so a length has the width of an index.
LEMMA LengthRange ==
  ASSUME NEW h, NEW o
  PROVE  Length(h, o) \in 0 .. (2 ^ IndexBits) - 1
<1>1. PICK p \in Nat \ {0} : p = 2 ^ IndexBits
  BY KeysAssumption
<1> DEFINE used == {Index[k] : k \in {k \in DOMAIN Index : h.prop[o][k] # "absent"}}
           set == used \ {p - 1}
<1>2. \A k \in DOMAIN Index : Index[k] \in 0 .. p - 1
  BY <1>1, KeysAssumption
<1>3. set \in SUBSET (0 .. p - 1) /\ p - 1 \notin set /\ p - 1 \in Nat
  BY <1>2
<1>4. Length(h, o) = IF set = {} THEN 0 ELSE Max(set) + 1
  BY <1>1, Zenon DEF Length
<1> HIDE DEF set
<1>5. CASE set # {}
  <2>1. \E x \in set : \A y \in set : x >= y
    BY <1>3, <1>5, Greatest
  <2>2. Max(set) \in set
    BY <2>1, Zenon DEF Max
  <2>3. Max(set) \in 0 .. p - 1 /\ Max(set) # p - 1
    BY <1>3, <2>2
  <2>4. Max(set) + 1 \in 0 .. p - 1
    BY <2>3
  <2> QED
    BY <1>1, <1>4, <1>5, <2>4
<1>6. CASE set = {}
  BY <1>1, <1>4, <1>6
<1> QED
  BY <1>5, <1>6

(***************************************************************************)
(* ArrayLength reports the length of every array, for every width of an    *)
(* index: what reading it as a signed integer takes away, the conversion   *)
(* to an unsigned one puts back.                                           *)
(***************************************************************************)
THEOREM LengthReported == Spec => []LengthExact
<1>1. LengthExact
  <2>1. ASSUME NEW o \in Obj PROVE ReportedLength(heap, o) = Length(heap, o)
    <3>0. PICK p \in Nat \ {0} : p = 2 ^ IndexBits
      BY KeysAssumption
    <3>1. PICK n \in 0 .. p - 1 : n = Length(heap, o)
      BY <3>0, LengthRange
    <3>2. n % p = n /\ (n - p) % p = n
      BY Wraps
    <3>3. ToInt32(n) = n \/ ToInt32(n) = n - p
      BY <3>0, Zenon DEF ToInt32
    <3> QED
      BY <3>0, <3>1, <3>2, <3>3, Zenon DEF ReportedLength
  <2> QED
    BY <2>1 DEF LengthExact
<1> QED
  BY <1>1, PTL

=============================================================================
