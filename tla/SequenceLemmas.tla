--------------------------- MODULE SequenceLemmas ---------------------------
(***************************************************************************)
(* What the proofs share about sequences: cutting a stream of bytes in two *)
(* and moving a piece across the boundaries of what was sent, buffered and *)
(* not yet read; induction; and subsequences.                              *)
(***************************************************************************)
EXTENDS Bytes, Subsequences, SequenceTheorems, WellFoundedInduction, TLAPS

(***************************************************************************)
(* A set of natural numbers that is not empty has a least element.         *)
(***************************************************************************)
LEMMA LeastNatural ==
  ASSUME NEW T, T \subseteq Nat, T # {}
  PROVE  \E x \in T : \A y \in T : x <= y
<1>1. PICK x \in T : \A y \in T : ~(<<y, x>> \in OpToRel(<, Nat))
  BY NatLessThanWellFounded, WFMin
<1>2. \A y \in T : ~(y < x)
  BY <1>1 DEF OpToRel
<1> QED
  BY <1>2

(***************************************************************************)
(* Sequences: cutting one in two, joining two, and taking the first        *)
(* element off.                                                            *)
(***************************************************************************)
LEMMA Cut ==
  ASSUME NEW S, NEW s \in Seq(S), NEW n \in 0 .. Len(s)
  PROVE  /\ SubSeq(s, 1, n) \in Seq(S)
         /\ SubSeq(s, n + 1, Len(s)) \in Seq(S)
         /\ Len(SubSeq(s, 1, n)) = n
         /\ Len(SubSeq(s, n + 1, Len(s))) = Len(s) - n
         /\ SubSeq(s, 1, n) \o SubSeq(s, n + 1, Len(s)) = s
<1> DEFINE a == SubSeq(s, 1, n)
           b == SubSeq(s, n + 1, Len(s))
<1>1. /\ Len(s) \in Nat
      /\ \A i \in 1 .. Len(s) : s[i] \in S
  BY LenProperties, ElementOfSeq
<1>2. a \o b = SubSeq(s, 1, Len(s))
  <2>1. 1 \in 1 .. Len(s) + 1 /\ n \in 1 - 1 .. Len(s) /\ Len(s) \in n .. Len(s)
    BY <1>1
  <2> QED
    BY <2>1, ConcatAdjacentSubSeq
<1>3. a \o b = s
  BY <1>2, SubSeqFull, Zenon
<1>4. /\ a \in Seq(S)
      /\ Len(a) = IF 1 <= n THEN n - 1 + 1 ELSE 0
  <2>1. 1 \in Int /\ n \in Int /\ \A i \in 1 .. n : s[i] \in S
    BY <1>1
  <2> QED
    BY <2>1, SubSeqProperties
<1>5. /\ b \in Seq(S)
      /\ Len(b) = IF n + 1 <= Len(s) THEN Len(s) - (n + 1) + 1 ELSE 0
  <2>1. n + 1 \in Int /\ Len(s) \in Int
        /\ \A i \in n + 1 .. Len(s) : s[i] \in S
    BY <1>1
  <2> QED
    BY <2>1, SubSeqProperties
<1> HIDE DEF a, b
<1>6. /\ a \in Seq(S) /\ b \in Seq(S) /\ a \o b = s
      /\ Len(a) = n /\ Len(b) = Len(s) - n
  BY <1>1, <1>3, <1>4, <1>5
<1> QED
  BY <1>6, Zenon DEF a, b

LEMMA Concat ==
  ASSUME NEW S, NEW s \in Seq(S), NEW t \in Seq(S)
  PROVE  /\ s \o t \in Seq(S) /\ Len(s \o t) = Len(s) + Len(t)
         /\ s \o << >> = s /\ << >> \o s = s
         /\ s \o t = << >> <=> (s = << >> /\ t = << >>)
  OBVIOUS

LEMMA HeadAndTail ==
  ASSUME NEW S, NEW s \in Seq(S), s # << >>
  PROVE  /\ Head(s) \in S /\ Tail(s) \in Seq(S)
         /\ s = <<Head(s)>> \o Tail(s)
         /\ Len(Tail(s)) = Len(s) - 1
  OBVIOUS

(***************************************************************************)
(* Sequences of bytes: moving a piece across the boundaries of target,     *)
(* buffer and source.                                                      *)
(***************************************************************************)
LEMMA CutInTwo ==
  ASSUME NEW s \in Seq(Byte), NEW n \in 0 .. Len(s)
  PROVE  /\ SubSeq(s, 1, n) \in Seq(Byte)
         /\ SubSeq(s, n + 1, Len(s)) \in Seq(Byte)
         /\ Len(SubSeq(s, 1, n)) = n
         /\ Len(SubSeq(s, n + 1, Len(s))) = Len(s) - n
         /\ SubSeq(s, 1, n) \o SubSeq(s, n + 1, Len(s)) = s
  BY Cut

\* Concatenation is associative.
LEMMA Assoc ==
  \A s, t, u \in Seq(Byte) : (s \o t) \o u = s \o (t \o u)
  BY ConcatAssociative

(***************************************************************************)
(* Concatenation, and putting one element in front, as operations of their *)
(* own: the laws a proof needs, without the functions behind them.         *)
(***************************************************************************)
Cat(s, t) == s \o t
Prepend(e, s) == <<e>> \o s

LEMMA CatType ==
  \A S : \A s, t \in Seq(S) : Cat(s, t) \in Seq(S)
  BY DEF Cat

LEMMA PrependType ==
  \A S : \A e \in S, s \in Seq(S) : Prepend(e, s) \in Seq(S)
  BY DEF Prepend

LEMMA CatAssoc ==
  \A S : \A s, t, w \in Seq(S) : Cat(Cat(s, t), w) = Cat(s, Cat(t, w))
  BY DEF Cat

LEMMA CatNone ==
  \A S : \A s \in Seq(S) : Cat(<< >>, s) = s /\ Cat(s, << >>) = s
  BY DEF Cat

\* A sequence is the prefix, of its own length, of what it is a part of.
LEMMA PrefixOfConcat ==
  ASSUME NEW s \in Seq(Byte), NEW t \in Seq(Byte)
  PROVE  /\ s \o t \in Seq(Byte)
         /\ Len(s) <= Len(s \o t)
         /\ Len(s \o t) = Len(s) + Len(t)
         /\ s = SubSeq(s \o t, 1, Len(s))
<1>1. /\ s \o t \in Seq(Byte)
      /\ Len(s \o t) = Len(s) + Len(t)
      /\ \A i \in 1 .. Len(s) + Len(t) :
           (s \o t)[i] = IF i <= Len(s) THEN s[i] ELSE t[i - Len(s)]
  BY ConcatProperties
<1>2. Len(s) \in Nat /\ Len(t) \in Nat
  BY LenProperties
<1>3. Len(s) \in 0 .. Len(s \o t)
  BY <1>1, <1>2
<1>4. /\ SubSeq(s \o t, 1, Len(s)) \in Seq(Byte)
      /\ Len(SubSeq(s \o t, 1, Len(s))) = Len(s)
  BY <1>1, <1>3, CutInTwo
<1>5. \A i \in 1 .. Len(s) - 1 + 1 : SubSeq(s \o t, 1, Len(s))[i] = (s \o t)[1 + i - 1]
  <2>1. \A i \in 1 .. Len(s) : (s \o t)[i] \in Byte
    BY <1>1, <1>2, ElementOfSeq
  <2> QED
    BY <1>2, <2>1, SubSeqProperties
<1>6. \A i \in 1 .. Len(s) : s[i] = SubSeq(s \o t, 1, Len(s))[i]
  BY <1>1, <1>2, <1>5
<1>7. s = SubSeq(s \o t, 1, Len(s))
  BY <1>4, <1>6, SeqEqual
<1> QED
  BY <1>1, <1>2, <1>7

\* A read moves the first n bytes of z to the end of y.
LEMMA MoveLeft ==
  ASSUME NEW x \in Seq(Byte), NEW y \in Seq(Byte), NEW z \in Seq(Byte),
         NEW n \in 0 .. Len(z)
  PROVE  x \o (y \o SubSeq(z, 1, n)) \o SubSeq(z, n + 1, Len(z)) = x \o y \o z
<1> DEFINE a == SubSeq(z, 1, n)
           b == SubSeq(z, n + 1, Len(z))
<1>1. a \in Seq(Byte) /\ b \in Seq(Byte)
  BY CutInTwo
<1>2. Cat(a, b) = z
  BY CutInTwo DEF Cat
<1> HIDE DEF a, b
<1>3. Cat(Cat(x, y), a) = Cat(x, Cat(y, a))
  BY <1>1, CatAssoc
<1>4. Cat(Cat(Cat(x, y), a), b) = Cat(Cat(x, y), Cat(a, b))
  BY <1>1, CatType, CatAssoc
<1>5. Cat(Cat(x, Cat(y, a)), b) = Cat(Cat(x, y), z)
  BY <1>2, <1>3, <1>4
<1> QED
  BY <1>5, Zenon DEF Cat, a, b

\* A write moves the first n bytes of y to the end of x.
LEMMA MoveOut ==
  ASSUME NEW x \in Seq(Byte), NEW y \in Seq(Byte), NEW z \in Seq(Byte),
         NEW n \in 0 .. Len(y)
  PROVE  /\ (x \o SubSeq(y, 1, n)) \o SubSeq(y, n + 1, Len(y)) \o z = x \o y \o z
         /\ x \o SubSeq(y, 1, n) \in Seq(Byte)
         /\ Len(x \o SubSeq(y, 1, n)) = Len(x) + n
<1> DEFINE a == SubSeq(y, 1, n)
           b == SubSeq(y, n + 1, Len(y))
<1>1. a \in Seq(Byte) /\ b \in Seq(Byte) /\ a \o b = y /\ Len(a) = n
  BY CutInTwo
<1> HIDE DEF a, b
<1>2. (x \o a) \o b = x \o (a \o b)
  <2>1. Cat(Cat(x, a), b) = Cat(x, Cat(a, b))
    BY ONLY <1>1, x \in Seq(Byte), CatAssoc
  <2> QED
    BY <2>1, Zenon DEF Cat
<1>3. /\ ((x \o a) \o b) \o z = (x \o y) \o z
      /\ x \o a \in Seq(Byte)
      /\ Len(x \o a) = Len(x) + n
  BY <1>1, <1>2, PrefixOfConcat, Zenon
<1> QED
  BY <1>3, Zenon DEF a, b

\* The only sequence of length 0 is the empty one.
LEMMA Lengths ==
  ASSUME NEW s \in Seq(Byte)
  PROVE  Len(s) \in Nat /\ (s = << >> <=> Len(s) = 0)
  BY LenProperties, EmptySeq

\* What was sent is a prefix of what is sent, buffered and unread.
LEMMA ConservedFacts ==
  \A x, y, z \in Seq(Byte) : \A s :
     x \o y \o z = s => /\ Len(s) = Len(x) + Len(y) + Len(z)
                        /\ Len(x) <= Len(s)
                        /\ x = SubSeq(s, 1, Len(x))
<1> SUFFICES ASSUME NEW x \in Seq(Byte), NEW y \in Seq(Byte),
                    NEW z \in Seq(Byte), NEW s, x \o y \o z = s
             PROVE  /\ Len(s) = Len(x) + Len(y) + Len(z)
                    /\ Len(x) <= Len(s)
                    /\ x = SubSeq(s, 1, Len(x))
  BY Zenon
<1> DEFINE yz == y \o z
<1>1. yz \in Seq(Byte) /\ Len(yz) = Len(y) + Len(z)
  BY PrefixOfConcat
<1>2. x \o yz = s
  <2>1. Cat(Cat(x, y), z) = Cat(x, Cat(y, z))
    BY ONLY x \in Seq(Byte), y \in Seq(Byte), z \in Seq(Byte), CatAssoc
  <2> QED
    BY <2>1, Zenon DEF Cat
<1> HIDE DEF yz
<1>3. Len(s) = Len(x) + Len(yz) /\ Len(x) <= Len(s) /\ x = SubSeq(s, 1, Len(x))
  BY <1>1, <1>2, PrefixOfConcat, ZenonT(60)
<1> QED
  BY <1>1, <1>3, LenProperties

\* The unwritten rest of a buffer, cut where a partial write of n bytes ends.
LEMMA CutRest ==
  ASSUME NEW s \in Seq(Byte), NEW w \in 0 .. Len(s), NEW n \in 0 .. Len(s) - w
  PROVE  /\ SubSeq(s, w + 1, w + n) \in Seq(Byte)
         /\ SubSeq(s, w + n + 1, Len(s)) \in Seq(Byte)
         /\ SubSeq(s, w + 1, Len(s)) \in Seq(Byte)
         /\ Len(SubSeq(s, w + 1, w + n)) = n
         /\ SubSeq(s, w + 1, w + n) \o SubSeq(s, w + n + 1, Len(s))
              = SubSeq(s, w + 1, Len(s))
<1>1. /\ Len(s) \in Nat /\ w \in Nat /\ n \in Nat /\ w + n <= Len(s)
      /\ \A i \in 1 .. Len(s) : s[i] \in Byte
  BY LenProperties, ElementOfSeq
<1>2. /\ w + 1 \in 1 .. Len(s) + 1 /\ w + n \in w + 1 - 1 .. Len(s)
      /\ Len(s) \in w + n .. Len(s)
  BY <1>1
<1>3. SubSeq(s, w + 1, w + n) \o SubSeq(s, w + n + 1, Len(s))
        = SubSeq(s, w + 1, Len(s))
  <2> DEFINE m == w + 1
             k == w + n
             l == Len(s)
  <2>1. m \in 1 .. Len(s) + 1 /\ k \in m - 1 .. Len(s) /\ l \in k .. Len(s)
    BY <1>2
  <2> HIDE DEF m, k, l
  <2>2. SubSeq(s, m, k) \o SubSeq(s, k + 1, l) = SubSeq(s, m, l)
    BY <2>1, ConcatAdjacentSubSeq
  <2> QED
    BY <2>2, Zenon DEF m, k, l
<1>4. /\ SubSeq(s, w + 1, w + n) \in Seq(Byte)
      /\ Len(SubSeq(s, w + 1, w + n))
           = IF w + 1 <= w + n THEN w + n - (w + 1) + 1 ELSE 0
  <2>1. w + 1 \in Int /\ w + n \in Int /\ \A i \in w + 1 .. w + n : s[i] \in Byte
    BY <1>1
  <2> QED
    BY <2>1, SubSeqProperties
<1>5. SubSeq(s, w + n + 1, Len(s)) \in Seq(Byte)
  BY <1>1, CutInTwo
<1>6. SubSeq(s, w + 1, Len(s)) \in Seq(Byte)
  BY <1>1, CutInTwo
<1>7. Len(SubSeq(s, w + 1, w + n)) = n
  BY <1>1, <1>4
<1> QED
  BY <1>3, <1>4, <1>5, <1>6, <1>7

\* A function on 1 .. n is a sequence of length n.
LEMMA FunctionIsSeq ==
  ASSUME NEW n \in Nat, NEW S, NEW f \in [1 .. n -> S]
  PROVE  f \in Seq(S) /\ Len(f) = n
<1>1. f \in Seq(S)
  BY SeqDef
<1>2. Len(f) \in Nat /\ 1 .. Len(f) = 1 .. n
  BY <1>1, LenProperties
<1>3. Len(f) = n
  <2>1. Len(f) <= n
    BY <1>2
  <2>2. n <= Len(f)
    BY <1>2
  <2> QED
    BY <1>2, <2>1, <2>2
<1> QED
  BY <1>1, <1>3

-----------------------------------------------------------------------------
(***************************************************************************)
(* Induction over numbers and over sequences, for sets of them.            *)
(***************************************************************************)
LEMMA NatInductionOnSet ==
  ASSUME NEW P, 0 \in P, \A n \in Nat : n \in P => n + 1 \in P
  PROVE  Nat \subseteq P
<1> SUFFICES ASSUME Nat \ P # {} PROVE FALSE
  OBVIOUS
<1>1. PICK x \in Nat \ P : \A y \in Nat \ P : x <= y
  BY LeastNatural
<1>2. x - 1 \in Nat /\ x - 1 \in P
  BY <1>1
<1> QED
  BY <1>1, <1>2

LEMMA SeqInductionOnSet ==
  ASSUME NEW A, NEW P, << >> \in P,
         \A s \in Seq(A), e \in A : s \in P => Append(s, e) \in P
  PROVE  Seq(A) \subseteq P
<1> DEFINE Q == {n \in Nat : \A s \in Seq(A) : Len(s) = n => s \in P}
<1>1. 0 \in Q
  BY EmptySeq
<1>2. ASSUME NEW n \in Nat, n \in Q PROVE n + 1 \in Q
  <2>1. ASSUME NEW s \in Seq(A), Len(s) = n + 1 PROVE s \in P
    <3>1. s # << >>
      BY <2>1, EmptySeq
    <3>2. PICK r \in Seq(A), e \in A : s = Append(r, e)
      BY <3>1, SequenceEmptyOrAppend
    <3>3. Len(r) \in Nat /\ Len(s) = Len(r) + 1
      BY <3>2, AppendProperties, LenProperties
    <3>4. r \in P
      BY <1>2, <2>1, <3>3
    <3> QED
      BY <3>2, <3>4
  <2> QED
    BY <2>1
<1>3. Nat \subseteq Q
  <2> HIDE DEF Q
  <2> QED
    BY <1>1, <1>2, NatInductionOnSet
<1> QED
  BY <1>3, LenProperties

-----------------------------------------------------------------------------
(***************************************************************************)
(* Subsequence.  Its recursive function exists, and appending an element   *)
(* appends it to what is taken or not.                                     *)
(***************************************************************************)
IsTaken(f, s, J, n) ==
  f = [k \in 0 .. n |->
        IF k = 0 THEN << >>
        ELSE IF k \in J THEN Append(f[k - 1], s[k])
        ELSE f[k - 1]]

LEMMA TakenExists ==
  ASSUME NEW s, NEW J, NEW n \in Nat
  PROVE  \E f : IsTaken(f, s, J, n)
<1> DEFINE P == {m \in Nat : \E f : IsTaken(f, s, J, m)}
<1>1. 0 \in P
  <2> DEFINE g == [k \in 0 .. 0 |-> << >>]
  <2>1. IsTaken(g, s, J, 0)
    BY DEF IsTaken
  <2> QED
    BY <2>1
<1>2. ASSUME NEW m \in Nat, m \in P PROVE m + 1 \in P
  <2>1. PICK f : IsTaken(f, s, J, m)
    BY <1>2
  <2> DEFINE last == IF m + 1 \in J THEN Append(f[m], s[m + 1]) ELSE f[m]
             g == [k \in 0 .. m + 1 |-> IF k = m + 1 THEN last ELSE f[k]]
  <2>2. ASSUME NEW k \in 0 .. m + 1
        PROVE  g[k] = IF k = 0 THEN << >>
                      ELSE IF k \in J THEN Append(g[k - 1], s[k])
                      ELSE g[k - 1]
    <3>1. CASE k = m + 1
      BY <3>1
    <3>2. CASE k # m + 1
      <4>1. k \in 0 .. m
        BY <3>2
      <4>2. f[k] = IF k = 0 THEN << >>
                   ELSE IF k \in J THEN Append(f[k - 1], s[k])
                   ELSE f[k - 1]
        BY <2>1, <4>1 DEF IsTaken
      <4>3. g[k] = f[k] /\ (k # 0 => g[k - 1] = f[k - 1])
        BY <3>2, <4>1
      <4> HIDE DEF g
      <4> QED
        BY <4>2, <4>3
    <3> QED
      BY <3>1, <3>2
  <2>3. IsTaken(g, s, J, m + 1)
    BY <2>2 DEF IsTaken
  <2> QED
    BY <2>3
<1>3. Nat \subseteq P
  <2> HIDE DEF P
  <2> QED
    BY <1>1, <1>2, NatInductionOnSet
<1> QED
  BY <1>3

\* The first n values only depend on the first n elements and indices.
LEMMA TakenAgree ==
  ASSUME NEW f, NEW g, NEW s, NEW t, NEW J, NEW K,
         NEW n \in Nat, NEW m \in Nat, n <= m,
         IsTaken(f, s, J, n), IsTaken(g, t, K, m),
         \A k \in 1 .. n : s[k] = t[k] /\ (k \in J <=> k \in K)
  PROVE  f[n] = g[n]
<1> DEFINE P == {k \in Nat : k <= n => f[k] = g[k]}
<1>1. \A k \in 0 .. n :
        f[k] = IF k = 0 THEN << >>
               ELSE IF k \in J THEN Append(f[k - 1], s[k])
               ELSE f[k - 1]
  BY DEF IsTaken
<1>2. \A k \in 0 .. m :
        g[k] = IF k = 0 THEN << >>
               ELSE IF k \in K THEN Append(g[k - 1], t[k])
               ELSE g[k - 1]
  BY DEF IsTaken
<1>3. 0 \in P
  BY <1>1, <1>2
<1>4. ASSUME NEW k \in Nat, k \in P PROVE k + 1 \in P
  <2>1. CASE k + 1 <= n
    <3>1. f[k] = g[k] /\ s[k + 1] = t[k + 1] /\ (k + 1 \in J <=> k + 1 \in K)
      BY <1>4, <2>1
    <3>2. k + 1 \in 0 .. n /\ k + 1 \in 0 .. m /\ k + 1 # 0 /\ (k + 1) - 1 = k
      BY <2>1
    <3>3. f[k + 1] = IF k + 1 \in J THEN Append(f[k], s[k + 1]) ELSE f[k]
      BY <1>1, <3>2
    <3>4. g[k + 1] = IF k + 1 \in K THEN Append(g[k], t[k + 1]) ELSE g[k]
      BY <1>2, <3>2
    <3> QED
      BY <3>1, <3>3, <3>4
  <2> QED
    BY <2>1
<1>5. Nat \subseteq P
  <2> HIDE DEF P
  <2> QED
    BY <1>3, <1>4, NatInductionOnSet
<1> QED
  BY <1>5

LEMMA SubsequenceIsTaken ==
  ASSUME NEW s, NEW J, Len(s) \in Nat
  PROVE  \E f : IsTaken(f, s, J, Len(s)) /\ Subsequence(s, J) = f[Len(s)]
<1> DEFINE f == CHOOSE g : IsTaken(g, s, J, Len(s))
<1>1. IsTaken(f, s, J, Len(s))
  BY TakenExists
<1>2. Subsequence(s, J) = f[Len(s)]
  BY DEF Subsequence, IsTaken
<1> QED
  BY <1>1, <1>2

LEMMA SubsequenceEmpty == \A J : Subsequence(<< >>, J) = << >>
<1> SUFFICES ASSUME NEW J PROVE Subsequence(<< >>, J) = << >>
  OBVIOUS
<1>1. Len(<< >>) = 0
  BY EmptySeq
<1>2. PICK f : IsTaken(f, << >>, J, 0) /\ Subsequence(<< >>, J) = f[0]
  BY <1>1, SubsequenceIsTaken
<1> QED
  BY <1>2 DEF IsTaken

LEMMA SubsequenceAppend ==
  ASSUME NEW A, NEW s \in Seq(A), NEW e \in A, NEW J, NEW K,
         \A k \in 1 .. Len(s) : k \in J <=> k \in K
  PROVE  Subsequence(Append(s, e), K) =
           IF Len(s) + 1 \in K THEN Append(Subsequence(s, J), e) ELSE Subsequence(s, J)
<1> DEFINE t == Append(s, e)
           n == Len(s)
<1>1. /\ n \in Nat /\ Len(t) = n + 1 /\ t[n + 1] = e
      /\ \A k \in 1 .. n : t[k] = s[k]
  BY LenProperties, AppendProperties
<1>2. \A k \in 1 .. n : k \in J <=> k \in K
  OBVIOUS
<1> HIDE DEF t, n
<1>3. PICK f : IsTaken(f, s, J, n) /\ Subsequence(s, J) = f[n]
  BY <1>1, SubsequenceIsTaken DEF n
<1>4. PICK g : IsTaken(g, t, K, n + 1) /\ Subsequence(t, K) = g[n + 1]
  BY <1>1, SubsequenceIsTaken
<1>5. f[n] = g[n]
  <2>1. n + 1 \in Nat /\ n <= n + 1
        /\ \A k \in 1 .. n : s[k] = t[k] /\ (k \in J <=> k \in K)
    BY <1>1, <1>2
  <2> QED
    BY <1>1, <1>3, <1>4, <2>1, TakenAgree
<1>6. g[n + 1] = IF n + 1 \in K THEN Append(g[n], t[n + 1]) ELSE g[n]
  <2>1. n + 1 \in 0 .. n + 1 /\ n + 1 # 0 /\ (n + 1) - 1 = n
    BY <1>1
  <2> QED
    BY <1>4, <2>1 DEF IsTaken
<1>7. Subsequence(t, K) =
        IF n + 1 \in K THEN Append(Subsequence(s, J), e) ELSE Subsequence(s, J)
  BY <1>1, <1>3, <1>4, <1>5, <1>6
<1> QED
  BY <1>7 DEF t, n

LEMMA SubsequenceType ==
  ASSUME NEW A, NEW s \in Seq(A), NEW J
  PROVE  Subsequence(s, J) \in Seq(A)
<1> DEFINE P == {t \in Seq(A) : \A K : Subsequence(t, K) \in Seq(A)}
<1>1. << >> \in P
  <2>1. << >> \in Seq(A)
    OBVIOUS
  <2>2. \A K : Subsequence(<< >>, K) \in Seq(A)
    BY <2>1, SubsequenceEmpty, Zenon
  <2> QED
    BY <2>1, <2>2
<1>2. ASSUME NEW t \in Seq(A), NEW e \in A, t \in P
      PROVE  Append(t, e) \in P
  <2>1. ASSUME NEW K
        PROVE  Subsequence(Append(t, e), K) \in Seq(A)
    <3>1. Subsequence(Append(t, e), K) =
            IF Len(t) + 1 \in K THEN Append(Subsequence(t, K), e) ELSE Subsequence(t, K)
      BY SubsequenceAppend
    <3>2. Subsequence(t, K) \in Seq(A)
      BY <1>2
    <3> QED
      BY <3>1, <3>2
  <2> QED
    BY <2>1
<1> HIDE DEF P
<1>3. Seq(A) \subseteq P
  BY <1>1, <1>2, SeqInductionOnSet
<1> QED
  BY <1>3 DEF P

LEMMA SubsequenceNone ==
  ASSUME NEW A, NEW s \in Seq(A), NEW J, \A k \in 1 .. Len(s) : k \notin J
  PROVE  Subsequence(s, J) = << >>
<1> DEFINE P == {t \in Seq(A) : \A K :
                   (\A k \in 1 .. Len(t) : k \notin K) => Subsequence(t, K) = << >>}
<1>1. << >> \in P
  BY SubsequenceEmpty
<1>2. ASSUME NEW t \in Seq(A), NEW e \in A, t \in P
      PROVE  Append(t, e) \in P
  <2>1. ASSUME NEW K, \A k \in 1 .. Len(Append(t, e)) : k \notin K
        PROVE  Subsequence(Append(t, e), K) = << >>
    <3>1. Subsequence(Append(t, e), K) =
            IF Len(t) + 1 \in K THEN Append(Subsequence(t, K), e) ELSE Subsequence(t, K)
      BY SubsequenceAppend
    <3>2. Len(Append(t, e)) = Len(t) + 1 /\ Len(t) \in Nat
      OBVIOUS
    <3>3. Len(t) + 1 \notin K /\ \A k \in 1 .. Len(t) : k \notin K
      BY <3>2, <2>1
    <3>4. Subsequence(t, K) = << >>
      BY <1>2, <3>3
    <3> QED
      BY <3>1, <3>3, <3>4
  <2> QED
    BY <2>1
<1> HIDE DEF P
<1>3. Seq(A) \subseteq P
  BY <1>1, <1>2, SeqInductionOnSet
<1>4. s \in P
  BY <1>3
<1> QED
  BY <1>4, Zenon DEF P

LEMMA PrependLen ==
  \A S : \A e \in S, s \in Seq(S) : Len(Prepend(e, s)) = Len(s) + 1
  BY DEF Prepend

LEMMA PrependSome ==
  \A S : \A e \in S, s \in Seq(S) : Prepend(e, s) # << >>
  BY DEF Prepend

LEMMA PrependCat ==
  \A S : \A e \in S, s, t \in Seq(S) : Cat(Prepend(e, s), t) = Prepend(e, Cat(s, t))
<1> SUFFICES ASSUME NEW S, NEW s \in Seq(S), NEW t \in Seq(S), NEW e \in S
             PROVE  (<<e>> \o s) \o t = <<e>> \o (s \o t)
  BY DEF Cat, Prepend
<1> QED
  OBVIOUS

\* e can stand at the end of what is before it, or in front of what follows.
LEMMA PrependBetween ==
  \A S : \A e \in S, s, t \in Seq(S) : Cat(Append(s, e), t) = Cat(s, Prepend(e, t))
<1> SUFFICES ASSUME NEW S, NEW s \in Seq(S), NEW t \in Seq(S), NEW e \in S
             PROVE  Append(s, e) \o t = s \o (<<e>> \o t)
  BY DEF Cat, Prepend
<1>1. Append(s, e) = s \o <<e>> /\ <<e>> \in Seq(S)
  BY AppendIsConcat
<1>2. (s \o <<e>>) \o t = s \o (<<e>> \o t)
  BY <1>1
<1> QED
  BY ONLY <1>1, <1>2, Zenon

LEMMA PrependEqual ==
  \A S : \A d, e \in S, s, t \in Seq(S) : Prepend(d, s) = Prepend(e, t) => d = e /\ s = t
<1> SUFFICES ASSUME NEW S, NEW d \in S, NEW e \in S, NEW s \in Seq(S), NEW t \in Seq(S),
                    <<d>> \o s = <<e>> \o t
             PROVE  d = e /\ s = t
  BY DEF Prepend
<1>1. Head(<<d>> \o s) = d /\ Head(<<e>> \o t) = e
  OBVIOUS
<1>2. Tail(<<d>> \o s) = s /\ Tail(<<e>> \o t) = t
  OBVIOUS
<1> QED
  BY ONLY <1>1, <1>2, <<d>> \o s = <<e>> \o t, Zenon

LEMMA Uncons ==
  \A S : \A s \in Seq(S) : s # << >> => \E e \in S, t \in Seq(S) : s = Prepend(e, t)
<1> SUFFICES ASSUME NEW S, NEW s \in Seq(S), s # << >>
             PROVE  Head(s) \in S /\ Tail(s) \in Seq(S) /\ s = <<Head(s)>> \o Tail(s)
  BY DEF Prepend
<1> QED
  OBVIOUS

\* The first element of a concatenation is that of the part that has one.
LEMMA FirstSome ==
  \A S : \A d, e \in S, s, t, w, z \in Seq(S) :
    Cat(Prepend(d, s), w) = Cat(Prepend(e, t), z) => d = e /\ Cat(s, w) = Cat(t, z)
  BY CatType, PrependType, PrependCat, PrependEqual

LEMMA FirstNone ==
  \A S : \A d \in S, s, w, z \in Seq(S) :
    Cat(Prepend(d, s), w) = Cat(<< >>, z) => z = Prepend(d, Cat(s, w))
  BY CatType, PrependCat, CatNone

\* The elements of a concatenation are those of its parts.
LEMMA CatParts ==
  \A S, T : \A s, t \in Seq(S) :
    Cat(s, t) \in Seq(T) => s \in Seq(T) /\ t \in Seq(T)
<1> SUFFICES ASSUME NEW S, NEW T, NEW s \in Seq(S), NEW t \in Seq(S), s \o t \in Seq(T)
             PROVE  s \in Seq(T) /\ t \in Seq(T)
  BY DEF Cat
<1>1. /\ Len(s) \in Nat /\ Len(t) \in Nat /\ Len(s \o t) = Len(s) + Len(t)
      /\ \A i \in 1 .. Len(s) : (s \o t)[i] = s[i]
      /\ \A i \in 1 .. Len(t) : (s \o t)[Len(s) + i] = t[i]
  OBVIOUS
<1>2. \A i \in 1 .. Len(s) + Len(t) : (s \o t)[i] \in T
  BY <1>1, ElementOfSeq
<1>3. \A i \in 1 .. Len(s) : s[i] \in T
  BY <1>1, <1>2
<1>4. \A i \in 1 .. Len(t) : t[i] \in T
  <2> SUFFICES ASSUME NEW i \in 1 .. Len(t) PROVE t[i] \in T
    OBVIOUS
  <2>1. Len(s) + i \in 1 .. Len(s) + Len(t)
    BY <1>1
  <2> QED
    BY <1>1, <1>2, <2>1
<1>5. s \in [1 .. Len(s) -> T] /\ t \in [1 .. Len(t) -> T]
  <2>1. s = [i \in 1 .. Len(s) |-> s[i]] /\ t = [i \in 1 .. Len(t) |-> t[i]]
    OBVIOUS
  <2> QED
    BY <1>3, <1>4, <2>1
<1> QED
  BY <1>1, <1>5, FunctionIsSeq

LEMMA PrependParts ==
  \A S, T : \A e \in S, s \in Seq(S) :
    Prepend(e, s) \in Seq(T) => e \in T /\ s \in Seq(T)
<1> SUFFICES ASSUME NEW S, NEW T, NEW e \in S, NEW s \in Seq(S), Prepend(e, s) \in Seq(T)
             PROVE  e \in T /\ s \in Seq(T)
  OBVIOUS
<1>0. <<e>> \in Seq(S)
  OBVIOUS
<1>1. PICK o \in Seq(S) : o = <<e>>
  BY <1>0, Zenon
<1>2. Prepend(e, s) = Cat(o, s)
  BY <1>1 DEF Prepend, Cat
<1>3. o \in Seq(T) /\ s \in Seq(T)
  BY <1>2, CatParts
<1>4. Len(o) = 1 /\ o[1] = e
  BY <1>1
<1>5. \A i \in 1 .. Len(o) : o[i] \in T
  BY <1>3, ElementOfSeq
<1>6. o[1] \in T
  BY <1>4, <1>5
<1> QED
  BY <1>3, <1>4, <1>6, Zenon

LEMMA CatAppend ==
  \A S : \A s, t \in Seq(S), e \in S : Append(Cat(s, t), e) = Cat(s, Append(t, e))
<1> SUFFICES ASSUME NEW S, NEW s \in Seq(S), NEW t \in Seq(S), NEW e \in S
             PROVE  Append(s \o t, e) = s \o Append(t, e)
  BY DEF Cat
<1> QED
  OBVIOUS

\* An element between two sequences.
LEMMA Amid ==
  ASSUME NEW S, NEW s \in Seq(S), NEW e \in S, NEW t \in Seq(S)
  PROVE  /\ Cat(Append(s, e), t)[Len(s) + 1] = e /\ Len(s) \in Nat
         /\ Len(Cat(Append(s, e), t)) = Len(s) + 1 + Len(t)
         /\ Len(t) \in Nat /\ (Len(t) = 0 => t = << >>)
<1>1. PICK p \in Seq(S) : p = Append(s, e) /\ Len(p) = Len(s) + 1 /\ p[Len(s) + 1] = e
  <2>1. Append(s, e) \in Seq(S) /\ Len(Append(s, e)) = Len(s) + 1
        /\ Append(s, e)[Len(s) + 1] = e
    OBVIOUS
  <2> QED
    BY <2>1
<1>2. /\ (p \o t)[Len(p)] = p[Len(p)] /\ Len(p \o t) = Len(p) + Len(t)
      /\ Len(t) \in Nat /\ Len(s) \in Nat
  BY <1>1
<1>3. Len(t) = 0 => t = << >>
  OBVIOUS
<1> QED
  BY <1>1, <1>2, <1>3 DEF Cat

=============================================================================
