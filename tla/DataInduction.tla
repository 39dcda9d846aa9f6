--------------------------- MODULE DataInduction ---------------------------
(***************************************************************************)
(* Induction over the natural numbers, the functions it defines, and what  *)
(* it shows of concatenated sequences, of powers of two and of sums, for   *)
(* the proofs about recursive functions.                                   *)
(*                                                                         *)
(* The library states its induction with an operator as a parameter.  Here *)
(* it comes from the well-foundedness of < on Nat: a set of naturals has a *)
(* least element, so a claim that fails has a first failure.  That a       *)
(* recursive function exists is shown by its approximations on 0 .. m; the *)
(* step is given as a function, not as an operator.                        *)
(***************************************************************************)
EXTENDS Integers, FiniteSets, SequencesExt, SequenceTheorems, FiniteSetTheorems, WellFoundedInduction, TLAPS

(* The least element of a set of natural numbers. *)
LEMMA Least ==
  ASSUME NEW T \in SUBSET Nat, T # {}
  PROVE  \E x \in T : \A y \in T : x <= y
<1> DEFINE R == OpToRel(<, Nat)
<1>1. IsWellFoundedOn(R, Nat)
  BY NatLessThanWellFounded
<1>2. PICK x \in T : \A y \in T : ~ (<<y, x>> \in R)
  <2> HIDE DEF R
  <2> QED BY <1>1, WFMin
<1>3. \A y \in T : ~ (y < x)
  BY <1>2 DEF OpToRel
<1> HIDE DEF R
<1> QED BY <1>3

LEMMA Induction ==
  ASSUME NEW S, 0 \in S, \A m \in Nat : m \in S => m + 1 \in S
  PROVE  Nat \subseteq S
<1> SUFFICES ASSUME NEW m \in Nat, m \notin S PROVE FALSE
  OBVIOUS
<1> DEFINE T == {k \in Nat : k \notin S}
<1>1. PICK k \in T : \A y \in T : k <= y
  BY Least
<1>2. k # 0
  OBVIOUS
<1>3. k - 1 \in Nat /\ k - 1 \in S
  BY <1>1, <1>2
<1> QED BY <1>3

(* A function on 0 .. top by its value at 0 and a step. *)
Iterates(f, base, G, top) == f[0] = base /\ \A k \in 1 .. top : f[k] = G[k][f[k - 1]]

LEMMA Recursion ==
  ASSUME NEW V, NEW base \in V, NEW G \in [Nat -> [V -> V]], NEW top \in Nat
  PROVE  \E f \in [0 .. top -> V] : Iterates(f, base, G, top)
<1> DEFINE Right(f, m) == f[0] = base /\ \A k \in 1 .. m : f[k] = G[k][f[k - 1]]
           S == {m \in Nat : \E f \in [0 .. m -> V] : Right(f, m)}
<1>1. 0 \in S
  <2>1. Right([k \in 0 .. 0 |-> base], 0)
    OBVIOUS
  <2> QED BY <2>1
<1>2. ASSUME NEW m \in Nat, m \in S PROVE m + 1 \in S
  <2>1. PICK f \in [0 .. m -> V] : Right(f, m)
    BY <1>2
  <2> DEFINE last == G[m + 1][f[m]]
             g == [k \in 0 .. m + 1 |-> IF k = m + 1 THEN last ELSE f[k]]
  <2>2. last \in V
    <3>1. f[m] \in V /\ m + 1 \in Nat
      OBVIOUS
    <3> QED BY <3>1
  <2>3. g \in [0 .. m + 1 -> V]
    <3> HIDE DEF last
    <3> QED BY <2>2
  <2>4. Right(g, m + 1)
    <3>1. g[0] = base
      BY <2>1
    <3>2. ASSUME NEW k \in 1 .. m PROVE g[k] = G[k][g[k - 1]]
      BY <2>1, <3>2
    <3>3. g[m + 1] = G[m + 1][g[m]]
      <4>1. g[m + 1] = last /\ g[m] = f[m]
        <5> HIDE DEF last
        <5> QED OBVIOUS
      <4> QED BY <4>1
    <3> HIDE DEF g
    <3>4. ASSUME NEW k \in 1 .. m + 1 PROVE g[k] = G[k][g[k - 1]]
      <4>1. CASE k = m + 1
        BY <3>3, <4>1
      <4>2. CASE k # m + 1
        BY <3>2, <4>2
      <4> QED BY <4>1, <4>2
    <3> QED BY <3>1, <3>4
  <2> HIDE DEF g, Right
  <2> QED BY <2>3, <2>4
<1> HIDE DEF S
<1>3. Nat \subseteq S
  BY <1>1, <1>2, Induction
<1>4. \E f \in [0 .. top -> V] : Right(f, top)
  BY <1>3 DEF S
<1> QED BY <1>4 DEF Iterates

(* A function on low .. high whose value at an index is given, or comes    *)
(* from the value at a greater index.                                      *)
Descends(f, low, high, Stop, B, G, next) ==
  \A p \in low .. high : f[p] = IF p \in Stop THEN B[p] ELSE G[p][f[next[p]]]

LEMMA Descent ==
  ASSUME NEW V, NEW low \in Nat, NEW high \in Nat, low <= high,
         NEW Stop, NEW B \in [low .. high -> V], NEW G \in [low .. high -> [V -> V]],
         NEW next \in [low .. high -> Int],
         \A p \in (low .. high) \ Stop : next[p] \in p + 1 .. high
  PROVE  \E f \in [low .. high -> V] : Descends(f, low, high, Stop, B, G, next)
<1> DEFINE Right(f, p) == f[p] = IF p \in Stop THEN B[p] ELSE G[p][f[next[p]]]
           S == {m \in Nat : \E f \in [low .. high -> V] :
                                \A p \in low .. high : p > high - m => Right(f, p)}
<1>1. 0 \in S
  <2>1. \A p \in low .. high : p > high - 0 => Right(B, p)
    OBVIOUS
  <2> QED BY <2>1
<1>2. ASSUME NEW m \in Nat, m \in S PROVE m + 1 \in S
  <2>1. PICK f \in [low .. high -> V] : \A p \in low .. high : p > high - m => Right(f, p)
    BY <1>2
  <2>2. CASE high - m < low
    <3>1. \A p \in low .. high : p > high - (m + 1) => Right(f, p)
      BY <2>1, <2>2
    <3> HIDE DEF Right
    <3> QED BY <3>1
  <2>3. CASE high - m >= low
    <3> DEFINE q == high - m
               v == IF q \in Stop THEN B[q] ELSE G[q][f[next[q]]]
               g == [f EXCEPT ![q] = v]
    <3>1. q \in low .. high
      BY <2>3
    <3>2. v \in V
      <4>1. CASE q \in Stop
        BY <3>1, <4>1
      <4>2. CASE q \notin Stop
        <5>1. next[q] \in low .. high
          BY <3>1, <4>2
        <5>2. f[next[q]] \in V
          BY <3>1, <5>1
        <5>3. G[q] \in [V -> V]
          BY <3>1
        <5> QED BY <4>2, <5>2, <5>3
      <4> QED BY <4>1, <4>2
    <3>3. g \in [low .. high -> V] /\ g[q] = v /\ \A p \in (low .. high) \ {q} : g[p] = f[p]
      <4> HIDE DEF v, q
      <4> QED BY <3>1, <3>2
    <3>4. ASSUME NEW p \in low .. high, p > high - (m + 1) PROVE Right(g, p)
      <4>1. p \notin Stop => next[p] \in low .. high /\ next[p] > p
        OBVIOUS
      <4>2. CASE p = q
        <5>1. p \notin Stop => g[next[p]] = f[next[p]]
          <6> HIDE DEF g, v
          <6> QED BY <3>3, <4>1, <4>2
        <5>2. g[p] = v
          BY <3>3, <4>2
        <5> HIDE DEF g
        <5> QED BY <4>2, <5>1, <5>2
      <4>3. CASE p # q
        <5>1. p > high - m /\ Right(f, p) /\ g[p] = f[p]
          <6> HIDE DEF g, v, Right
          <6>1. p > high - m
            BY <3>4, <4>3
          <6> QED BY <2>1, <3>3, <4>3, <6>1
        <5>2. p \notin Stop => g[next[p]] = f[next[p]]
          <6> HIDE DEF g, v, Right
          <6> QED BY <3>3, <4>1, <5>1
        <5> HIDE DEF g, v, q
        <5> QED BY <5>1, <5>2
      <4> QED BY <4>2, <4>3
    <3> HIDE DEF g, v, Right, q
    <3>5. \E f2 \in [low .. high -> V] : \A p \in low .. high : p > high - (m + 1) => Right(f2, p)
      BY <3>3, <3>4
    <3> QED BY <3>5
  <2> HIDE DEF S
  <2> QED BY <2>2, <2>3
<1>3. Nat \subseteq S
  <2> HIDE DEF S
  <2> QED BY <1>1, <1>2, Induction
<1>4. high + 1 \in S
  <2> HIDE DEF S
  <2> QED BY <1>3
<1>5. PICK f \in [low .. high -> V] : \A p \in low .. high : p > high - (high + 1) => Right(f, p)
  BY <1>4
<1>6. \A p \in low .. high : Right(f, p)
  <2> HIDE DEF Right
  <2> QED BY <1>5
<1> QED BY <1>6 DEF Descends
-----------------------------------------------------------------------------
(* Where the elements of a concatenation come from.                        *)
LEMMA ConcatIs ==
  ASSUME NEW S, NEW x \in Seq(S), NEW y \in Seq(S)
  PROVE  /\ x \o y \in Seq(S) /\ Len(x \o y) = Len(x) + Len(y)
         /\ \A j \in 1 .. Len(x) : (x \o y)[j] = x[j]
         /\ \A j \in 1 .. Len(y) : (x \o y)[Len(x) + j] = y[j]
<1>1. ASSUME NEW j \in 1 .. Len(y) PROVE (x \o y)[Len(x) + j] = y[j]
  <2>1. Len(x) + j \in 1 .. Len(x) + Len(y) /\ Len(x) + j > Len(x) /\ (Len(x) + j) - Len(x) = j
    OBVIOUS
  <2> QED BY <2>1
<1> QED BY <1>1

(* FlattenSeq, from its front.                                             *)
LEMMA FlattenIs ==
  ASSUME NEW V, NEW s \in Seq(Seq(V)), Len(s) # 0
  PROVE  \E f \in [1 .. Len(s) -> Seq(V)] :
           /\ f[1] = s[1] /\ FlattenSeq(s) = f[Len(s)]
           /\ \A k \in 2 .. Len(s) : f[k] = f[k - 1] \o s[k]
<1> DEFINE top == Len(s)
           F == CHOOSE h : h = [k \in 1 .. top |-> IF k = 1 THEN s[k] ELSE h[k - 1] \o s[k]]
           G == [k \in Nat |-> [v \in Seq(V) |-> IF k \in 1 .. top THEN v \o s[k] ELSE v]]
<1>1. top \in Nat \ {0} /\ \A k \in 1 .. top : s[k] \in Seq(V)
  OBVIOUS
<1>2. FlattenSeq(s) = F[top]
  BY DEF FlattenSeq
<1> HIDE DEF top
<1>3. G \in [Nat -> [Seq(V) -> Seq(V)]]
  <2> SUFFICES ASSUME NEW k \in Nat, NEW v \in Seq(V)
               PROVE  (IF k \in 1 .. top THEN v \o s[k] ELSE v) \in Seq(V)
    OBVIOUS
  <2>1. CASE k \in 1 .. top
    <3>1. s[k] \in Seq(V)
      BY <1>1, <2>1
    <3> QED BY <2>1, <3>1
  <2> QED BY <2>1
<1>4. <<>> \in Seq(V)
  OBVIOUS
<1>5. PICK g \in [0 .. top -> Seq(V)] : Iterates(g, <<>>, G, top)
  <2> HIDE DEF G
  <2> QED BY <1>1, <1>3, <1>4, Recursion
<1>6. g[0] = <<>> /\ \A k \in 1 .. top : g[k] = g[k - 1] \o s[k] /\ g[k - 1] \in Seq(V)
  <2>1. \A k \in 1 .. top : k \in Nat /\ k - 1 \in 0 .. top
    BY <1>1
  <2>2. \A k \in 1 .. top : g[k - 1] \in Seq(V) /\ g[k] = G[k][g[k - 1]]
    BY <1>5, <2>1 DEF Iterates
  <2> QED BY <1>5, <2>1, <2>2 DEF Iterates
<1> DEFINE f == [k \in 1 .. top |-> g[k]]
<1>7. f \in [1 .. top -> Seq(V)]
  BY <1>1
<1>8. f[1] = s[1]
  <2>1. 1 \in 1 .. top /\ 1 - 1 = 0
    BY <1>1
  <2>2. g[1] = <<>> \o s[1] /\ s[1] \in Seq(V)
    BY <1>1, <1>6, <2>1
  <2>3. <<>> \o s[1] = s[1]
    BY <2>2, ConcatEmptySeq
  <2> QED BY <2>1, <2>2, <2>3
<1>9. \A k \in 2 .. top : f[k] = f[k - 1] \o s[k]
  <2>1. \A k \in 2 .. top : k \in 1 .. top /\ k - 1 \in 1 .. top
    BY <1>1
  <2> QED BY <1>6, <2>1
<1> HIDE DEF f
<1>10. f = [k \in 1 .. top |-> IF k = 1 THEN s[k] ELSE f[k - 1] \o s[k]]
  <2>1. \A k \in 1 .. top : f[k] = IF k = 1 THEN s[k] ELSE f[k - 1] \o s[k]
    <3>1. \A k \in 1 .. top : k # 1 => k \in 2 .. top
      BY <1>1
    <3> QED BY <1>8, <1>9, <3>1
  <2>2. f = [k \in 1 .. top |-> f[k]]
    BY <1>7
  <2> QED BY <2>1, <2>2
<1>11. F = [k \in 1 .. top |-> IF k = 1 THEN s[k] ELSE F[k - 1] \o s[k]]
  BY <1>10, Zenon
<1> HIDE DEF F, G
<1> DEFINE S == {k \in Nat : k \in 1 .. top => F[k] = f[k]}
<1>12. Nat \subseteq S
  <2>1. 0 \in S
    OBVIOUS
  <2>2. ASSUME NEW m \in Nat, m \in S PROVE m + 1 \in S
    <3> SUFFICES ASSUME m + 1 \in 1 .. top PROVE F[m + 1] = f[m + 1]
      OBVIOUS
    <3>1. CASE m = 0
      BY <1>8, <1>11, <3>1
    <3>2. CASE m # 0
      <4>1. m \in 1 .. top /\ m + 1 \in 2 .. top /\ m + 1 # 1 /\ (m + 1) - 1 = m
        BY <1>1, <3>2
      <4>2. F[m + 1] = F[m] \o s[m + 1] /\ f[m + 1] = f[m] \o s[m + 1]
        BY <1>9, <1>11, <4>1
      <4> QED BY <2>2, <4>1, <4>2
    <3> QED BY <3>1, <3>2
  <2> HIDE DEF S
  <2> QED BY <2>1, <2>2, Induction
<1>13. F[top] = f[top]
  BY <1>1, <1>12
<1> QED BY <1>2, <1>7, <1>8, <1>9, <1>13 DEF top

(* FlattenSeq, from its end.                                               *)
LEMMA FlattenAppend ==
  ASSUME NEW V, NEW s \in Seq(Seq(V)), NEW x \in Seq(V)
  PROVE  FlattenSeq(s) \in Seq(V) /\ FlattenSeq(Append(s, x)) = FlattenSeq(s) \o x
<1> DEFINE t == Append(s, x)
<1>1. t \in Seq(Seq(V)) /\ Len(t) = Len(s) + 1 /\ Len(t) # 0 /\ t[Len(t)] = x
      /\ \A k \in 1 .. Len(s) : t[k] = s[k]
  OBVIOUS
<1> HIDE DEF t
<1>2. PICK f \in [1 .. Len(t) -> Seq(V)] :
         /\ f[1] = t[1] /\ FlattenSeq(t) = f[Len(t)]
         /\ \A k \in 2 .. Len(t) : f[k] = f[k - 1] \o t[k]
  <2>1. t \in Seq(Seq(V)) /\ Len(t) # 0
    BY <1>1
  <2> QED BY <2>1, FlattenIs
<1>3. CASE Len(s) = 0
  <2>1. FlattenSeq(s) = <<>>
    BY <1>3 DEF FlattenSeq
  <2>2. f[1] = x /\ f[Len(t)] = f[1]
    BY <1>1, <1>2, <1>3
  <2>3. <<>> \o x = x /\ <<>> \in Seq(V)
    BY ConcatEmptySeq
  <2> QED BY <1>2, <2>1, <2>2, <2>3 DEF t
<1>4. CASE Len(s) # 0
  <2>1. PICK g \in [1 .. Len(s) -> Seq(V)] :
           /\ g[1] = s[1] /\ FlattenSeq(s) = g[Len(s)]
           /\ \A k \in 2 .. Len(s) : g[k] = g[k - 1] \o s[k]
    BY <1>4, FlattenIs
  <2> DEFINE S == {k \in Nat : k \in 1 .. Len(s) => f[k] = g[k]}
  <2>2. Nat \subseteq S
    <3>1. 0 \in S
      OBVIOUS
    <3>2. ASSUME NEW m \in Nat, m \in S PROVE m + 1 \in S
      <4> SUFFICES ASSUME m + 1 \in 1 .. Len(s) PROVE f[m + 1] = g[m + 1]
        OBVIOUS
      <4>1. CASE m = 0
        <5>1. 1 \in 1 .. Len(s) /\ m + 1 = 1
          BY <4>1
        <5> QED BY <1>1, <1>2, <2>1, <5>1
      <4>2. CASE m # 0
        <5>1. m \in 1 .. Len(s) /\ m + 1 \in 2 .. Len(s) /\ m + 1 \in 2 .. Len(t) /\ (m + 1) - 1 = m
          <6>1. Len(s) \in Nat /\ Len(t) \in Nat /\ Len(t) = Len(s) + 1
            BY <1>1
          <6> QED BY <4>2, <6>1
        <5>2. f[m + 1] = f[m] \o t[m + 1] /\ g[m + 1] = g[m] \o s[m + 1]
          BY <1>2, <2>1, <5>1
        <5> QED BY <1>1, <3>2, <5>1, <5>2
      <4> QED BY <4>1, <4>2
    <3> HIDE DEF S
    <3> QED BY <3>1, <3>2, Induction
  <2>3. Len(s) \in Nat /\ Len(s) \in 1 .. Len(s) /\ Len(t) \in 2 .. Len(t) /\ Len(t) - 1 = Len(s)
    BY <1>1, <1>4
  <2>4. f[Len(s)] = g[Len(s)]
    BY <2>2, <2>3
  <2>5. f[Len(t)] = f[Len(s)] \o x
    BY <1>1, <1>2, <2>3
  <2>6. g[Len(s)] \in Seq(V)
    BY <2>1, <2>3
  <2> QED BY <1>2, <2>1, <2>4, <2>5, <2>6 DEF t
<1> QED BY <1>3, <1>4

(* A sequence ends with an element or is empty: induction over prefixes.   *)
LEMMA FrontAndLast ==
  ASSUME NEW S, NEW s \in Seq(S), NEW m \in Nat, Len(s) = m + 1
  PROVE  \E r \in Seq(S), x \in S : s = Append(r, x) /\ Len(r) = m
<1>1. s # <<>>
  OBVIOUS
<1>2. PICK r \in Seq(S), x \in S : s = Append(r, x)
  BY <1>1, SequenceEmptyOrAppend
<1>3. Len(r) = m
  BY <1>2
<1> QED BY <1>2, <1>3

LEMMA FlattenConcat ==
  ASSUME NEW V, NEW s \in Seq(Seq(V)), NEW t \in Seq(Seq(V))
  PROVE  FlattenSeq(s \o t) = FlattenSeq(s) \o FlattenSeq(t)
<1> DEFINE W == Seq(V)
           S == {m \in Nat : \A u \in Seq(W) : Len(u) = m => FlattenSeq(s \o u) = FlattenSeq(s) \o FlattenSeq(u)}
<1>0. s \in Seq(W) /\ t \in Seq(W)
  OBVIOUS
<1>e. <<>> \in W
  OBVIOUS
<1>1. \A u \in Seq(W) : FlattenSeq(u) \in W
  BY <1>e, FlattenAppend
<1>2. \A u \in Seq(W), x \in W : FlattenSeq(Append(u, x)) = FlattenSeq(u) \o x
  BY FlattenAppend
<1>3. \A x, y, z \in W : (x \o y) \o z = x \o (y \o z)
  BY ConcatAssociative
<1>4. \A x \in W : x \o <<>> = x
  BY ConcatEmptySeq
<1> HIDE DEF W
<1>5. 0 \in S
  <2>1. ASSUME NEW u \in Seq(W), Len(u) = 0 PROVE FlattenSeq(s \o u) = FlattenSeq(s) \o FlattenSeq(u)
    <3>1. u = <<>>
      BY <2>1
    <3>2. s \o u = s
      BY <1>0, <3>1, ConcatEmptySeq
    <3>3. FlattenSeq(u) = <<>>
      BY <3>1 DEF FlattenSeq
    <3> QED BY <1>0, <1>1, <1>4, <3>2, <3>3
  <2> QED BY <2>1
<1>6. ASSUME NEW m \in Nat, m \in S PROVE m + 1 \in S
  <2>1. ASSUME NEW u \in Seq(W), Len(u) = m + 1 PROVE FlattenSeq(s \o u) = FlattenSeq(s) \o FlattenSeq(u)
    <3>1. PICK r \in Seq(W), x \in W : u = Append(r, x) /\ Len(r) = m
      BY <2>1, FrontAndLast
    <3>2. s \o u = Append(s \o r, x) /\ s \o r \in Seq(W)
      BY <1>0, <3>1
    <3>3. FlattenSeq(s \o r) = FlattenSeq(s) \o FlattenSeq(r)
      BY <1>6, <3>1
    <3>4. FlattenSeq(Append(s \o r, x)) = FlattenSeq(s \o r) \o x /\ FlattenSeq(Append(r, x)) = FlattenSeq(r) \o x
      BY <1>2, <3>1, <3>2
    <3>5. FlattenSeq(s) \in W /\ FlattenSeq(r) \in W
      BY <1>0, <1>1, <3>1
    <3>6. (FlattenSeq(s) \o FlattenSeq(r)) \o x = FlattenSeq(s) \o (FlattenSeq(r) \o x)
      BY <1>3, <3>1, <3>5
    <3> QED BY <3>1, <3>2, <3>3, <3>4, <3>6
  <2> QED BY <2>1
<1>7. Nat \subseteq S
  <2> HIDE DEF S
  <2> QED BY <1>5, <1>6, Induction
<1>8. Len(t) \in Nat
  BY <1>0
<1> QED BY <1>0, <1>7, <1>8

(* The elements of a concatenation, and when they are all different.       *)
LEMMA ConcatRange ==
  ASSUME NEW S, NEW x \in Seq(S), NEW y \in Seq(S)
  PROVE  Range(x \o y) = Range(x) \cup Range(y)
BY RangeConcatenation

Disjoint(x, y) == \A a \in Range(x), b \in Range(y) : a # b

LEMMA ConcatInjective ==
  ASSUME NEW S, NEW x \in Seq(S), NEW y \in Seq(S)
  PROVE  IsInjective(x \o y) <=> /\ IsInjective(x) /\ IsInjective(y)
                                 /\ Disjoint(x, y)
<1> DEFINE z == x \o y
<1>1. /\ z \in Seq(S) /\ Len(z) = Len(x) + Len(y)
      /\ \A j \in 1 .. Len(x) : z[j] = x[j]
      /\ \A j \in 1 .. Len(y) : z[Len(x) + j] = y[j]
  BY ConcatIs
<1>2. /\ DOMAIN x = 1 .. Len(x) /\ DOMAIN y = 1 .. Len(y) /\ DOMAIN z = 1 .. Len(x) + Len(y)
      /\ Len(x) \in Nat /\ Len(y) \in Nat
  BY <1>1
<1> HIDE DEF z
<1>3. ASSUME IsInjective(z) PROVE IsInjective(x) /\ IsInjective(y) /\ Disjoint(x, y)
  <2>0. \A a, b \in 1 .. Len(x) + Len(y) : z[a] = z[b] => a = b
    BY <1>2, <1>3 DEF IsInjective
  <2>1. IsInjective(x)
    <3>1. ASSUME NEW a \in 1 .. Len(x), NEW b \in 1 .. Len(x), x[a] = x[b] PROVE a = b
      BY <1>1, <1>2, <2>0, <3>1
    <3> QED BY <1>2, <3>1 DEF IsInjective
  <2>2. IsInjective(y)
    <3>1. ASSUME NEW a \in 1 .. Len(y), NEW b \in 1 .. Len(y), y[a] = y[b] PROVE a = b
      <4>1. Len(x) + a \in 1 .. Len(x) + Len(y) /\ Len(x) + b \in 1 .. Len(x) + Len(y)
        BY <1>2
      <4>2. Len(x) + a = Len(x) + b
        BY <1>1, <2>0, <3>1, <4>1
      <4> QED BY <1>2, <4>2
    <3> QED BY <1>2, <3>1 DEF IsInjective
  <2>3. Disjoint(x, y)
    <3>1. ASSUME NEW a \in 1 .. Len(x), NEW b \in 1 .. Len(y), x[a] = y[b] PROVE FALSE
      <4>1. a \in 1 .. Len(x) + Len(y) /\ Len(x) + b \in 1 .. Len(x) + Len(y) /\ a # Len(x) + b
        BY <1>2
      <4> QED BY <1>1, <2>0, <3>1, <4>1
    <3> QED BY <1>2, <3>1 DEF Disjoint, Range
  <2> QED BY <2>1, <2>2, <2>3
<1>4. ASSUME IsInjective(x), IsInjective(y), Disjoint(x, y) PROVE IsInjective(z)
  <2>1. \A a, b \in 1 .. Len(x) : x[a] = x[b] => a = b
    BY <1>2, <1>4 DEF IsInjective
  <2>2. \A a, b \in 1 .. Len(y) : y[a] = y[b] => a = b
    BY <1>2, <1>4 DEF IsInjective
  <2>3. \A a \in 1 .. Len(x), b \in 1 .. Len(y) : x[a] # y[b]
    BY <1>2, <1>4 DEF Disjoint, Range
  <2>4. \A a \in 1 .. Len(x) + Len(y) :
           \/ a \in 1 .. Len(x) /\ z[a] = x[a]
           \/ a - Len(x) \in 1 .. Len(y) /\ z[a] = y[a - Len(x)] /\ a > Len(x)
    <3> SUFFICES ASSUME NEW a \in 1 .. Len(x) + Len(y), a > Len(x) PROVE a - Len(x) \in 1 .. Len(y) /\ z[a] = y[a - Len(x)]
      BY <1>1, <1>2
    <3>1. a - Len(x) \in 1 .. Len(y) /\ Len(x) + (a - Len(x)) = a
      BY <1>2
    <3> QED BY <1>1, <3>1
  <2>5. ASSUME NEW a \in 1 .. Len(x) + Len(y), NEW b \in 1 .. Len(x) + Len(y), z[a] = z[b] PROVE a = b
    <3>1. a - Len(x) = b - Len(x) => a = b
      BY <1>2
    <3> QED BY <2>1, <2>2, <2>3, <2>4, <2>5, <3>1
  <2> QED BY <1>2, <2>5 DEF IsInjective
<1> QED BY <1>3, <1>4 DEF z

(* The elements of a flattened sequence, and when they are all different.  *)
Separate(s) == /\ \A k \in DOMAIN s : IsInjective(s[k])
               /\ \A j, k \in DOMAIN s : j # k => Disjoint(s[j], s[k])

LEMMA FlattenRange ==
  ASSUME NEW V, NEW s \in Seq(Seq(V))
  PROVE  Range(FlattenSeq(s)) = UNION {Range(s[k]) : k \in DOMAIN s}
<1> DEFINE W == Seq(V)
           Whole(u) == Range(FlattenSeq(u)) = UNION {Range(u[k]) : k \in DOMAIN u}
           S == {m \in Nat : \A u \in Seq(W) : Len(u) = m => Whole(u)}
<1>1. \A u \in Seq(W), x \in W : /\ FlattenSeq(u) \in W
                                 /\ FlattenSeq(Append(u, x)) = FlattenSeq(u) \o x
  BY FlattenAppend
<1>2. \A x, y \in W : Range(x \o y) = Range(x) \cup Range(y)
  BY ConcatRange
<1>0. s \in Seq(W)
  OBVIOUS
<1> HIDE DEF W
<1>3. 0 \in S
  <2>1. ASSUME NEW u \in Seq(W), Len(u) = 0 PROVE Whole(u)
    <3>1. u = <<>> /\ DOMAIN u = {}
      BY <2>1
    <3>2. FlattenSeq(u) = u
      BY <2>1 DEF FlattenSeq
    <3> QED BY <3>1, <3>2 DEF Range
  <2> HIDE DEF Whole
  <2> QED BY <2>1
<1>4. ASSUME NEW m \in Nat, m \in S PROVE m + 1 \in S
  <2>1. ASSUME NEW u \in Seq(W), Len(u) = m + 1 PROVE Whole(u)
    <3>1. PICK r \in Seq(W), x \in W : u = Append(r, x) /\ Len(r) = m
      BY <2>1, FrontAndLast
    <3>2. Whole(r)
      BY <1>4, <3>1
    <3>3. Range(FlattenSeq(u)) = Range(FlattenSeq(r)) \cup Range(x)
      BY <1>1, <1>2, <3>1
    <3>4. /\ DOMAIN r = 1 .. m /\ DOMAIN u = 1 .. m + 1
          /\ \A k \in 1 .. m : u[k] = r[k]
          /\ u[m + 1] = x
      BY <3>1
    <3>5. ASSUME NEW a PROVE a \in UNION {Range(u[k]) : k \in DOMAIN u} <=> (a \in UNION {Range(r[k]) : k \in DOMAIN r} \/ a \in Range(x))
      <4>1. a \in UNION {Range(u[k]) : k \in DOMAIN u} <=> \E k \in 1 .. m + 1 : a \in Range(u[k])
        BY <3>4
      <4>2. a \in UNION {Range(r[k]) : k \in DOMAIN r} <=> \E k \in 1 .. m : a \in Range(r[k])
        BY <3>4
      <4>3. \A k \in 1 .. m + 1 : k \in 1 .. m \/ k = m + 1
        OBVIOUS
      <4>4. m + 1 \in 1 .. m + 1 /\ \A k \in 1 .. m : k \in 1 .. m + 1
        OBVIOUS
      <4> QED BY <3>4, <4>1, <4>2, <4>3, <4>4
    <3>6. UNION {Range(u[k]) : k \in DOMAIN u} = (UNION {Range(r[k]) : k \in DOMAIN r}) \cup Range(x)
      BY <3>5
    <3> QED BY <3>2, <3>3, <3>6
  <2> HIDE DEF Whole
  <2> QED BY <2>1
<1> HIDE DEF S
<1>5. Nat \subseteq S
  BY <1>3, <1>4, Induction
<1>6. Len(s) \in Nat
  BY <1>0
<1>7. Whole(s)
  <2> HIDE DEF Whole
  <2> QED BY <1>0, <1>5, <1>6 DEF S
<1> QED BY <1>7

LEMMA FlattenInjective ==
  ASSUME NEW V, NEW s \in Seq(Seq(V))
  PROVE  IsInjective(FlattenSeq(s)) <=> Separate(s)
<1> DEFINE W == Seq(V)
           Good(u) == IsInjective(FlattenSeq(u)) <=> Separate(u)
           S == {m \in Nat : \A u \in Seq(W) : Len(u) = m => Good(u)}
<1>1. \A u \in Seq(W), x \in W : /\ FlattenSeq(u) \in W
                                 /\ FlattenSeq(Append(u, x)) = FlattenSeq(u) \o x
  BY FlattenAppend
<1>2. \A x, y \in W : IsInjective(x \o y) <=> IsInjective(x) /\ IsInjective(y) /\ Disjoint(x, y)
  BY ConcatInjective
<1>r. \A u \in Seq(W) : Range(FlattenSeq(u)) = UNION {Range(u[k]) : k \in DOMAIN u}
  BY FlattenRange
<1>0. s \in Seq(W)
  OBVIOUS
<1> HIDE DEF W
<1>3. 0 \in S
  <2>1. ASSUME NEW u \in Seq(W), Len(u) = 0 PROVE Good(u)
    <3>1. u = <<>> /\ DOMAIN u = {}
      BY <2>1
    <3>2. FlattenSeq(u) = u
      BY <2>1 DEF FlattenSeq
    <3> QED BY <3>1, <3>2 DEF IsInjective, Separate
  <2> HIDE DEF Good
  <2> QED BY <2>1
<1>4. ASSUME NEW m \in Nat, m \in S PROVE m + 1 \in S
  <2>1. ASSUME NEW u \in Seq(W), Len(u) = m + 1 PROVE Good(u)
    <3>1. PICK r \in Seq(W), x \in W : u = Append(r, x) /\ Len(r) = m
      BY <2>1, FrontAndLast
    <3>2. IsInjective(FlattenSeq(r)) <=> Separate(r)
      BY <1>4, <3>1
    <3>3. IsInjective(FlattenSeq(u)) <=> (IsInjective(FlattenSeq(r)) /\ IsInjective(x) /\ Disjoint(FlattenSeq(r), x))
      <4>1. FlattenSeq(r) \in W /\ FlattenSeq(u) = FlattenSeq(r) \o x
        BY <1>1, <3>1
      <4>2. IsInjective(FlattenSeq(r) \o x) <=> (IsInjective(FlattenSeq(r)) /\ IsInjective(x) /\ Disjoint(FlattenSeq(r), x))
        BY <1>2, <3>1, <4>1, Zenon
      <4> QED BY <4>1, <4>2
    <3>4. /\ DOMAIN r = 1 .. m /\ DOMAIN u = 1 .. m + 1
          /\ \A k \in 1 .. m : u[k] = r[k]
          /\ u[m + 1] = x
      BY <3>1
    <3>5. Disjoint(FlattenSeq(r), x) <=> \A k \in 1 .. m : Disjoint(r[k], x)
      <4>1. \A a : a \in Range(FlattenSeq(r)) <=> \E k \in 1 .. m : a \in Range(r[k])
        BY <1>r, <3>1, <3>4
      <4> QED BY <4>1 DEF Disjoint
    <3>6. \A y, z : Disjoint(y, z) => Disjoint(z, y)
      BY DEF Disjoint
    <3>7. /\ \A k \in 1 .. m + 1 : k \in 1 .. m \/ k = m + 1
          /\ m + 1 \in 1 .. m + 1 /\ \A k \in 1 .. m : k \in 1 .. m + 1 /\ k # m + 1
      OBVIOUS
    <3>8. Separate(u) <=> Separate(r) /\ IsInjective(x) /\ \A k \in 1 .. m : Disjoint(r[k], x)
      <4>1. ASSUME Separate(u) PROVE Separate(r) /\ IsInjective(x) /\ \A k \in 1 .. m : Disjoint(r[k], x)
        <5>1. /\ \A k \in 1 .. m + 1 : IsInjective(u[k])
              /\ \A j, k \in 1 .. m + 1 : j # k => Disjoint(u[j], u[k])
          BY <3>4, <4>1 DEF Separate
        <5>2. \A k \in 1 .. m : IsInjective(r[k])
          BY <3>4, <3>7, <5>1
        <5>3. \A j, k \in 1 .. m : j # k => Disjoint(r[j], r[k])
          <6>1. ASSUME NEW j \in 1 .. m, NEW k \in 1 .. m, j # k PROVE Disjoint(r[j], r[k])
            <7>1. Disjoint(u[j], u[k])
              BY <3>7, <5>1, <6>1
            <7>2. u[j] = r[j] /\ u[k] = r[k]
              BY <3>4
            <7> QED BY <7>1, <7>2
          <6> QED BY <6>1
        <5>4. \A k \in 1 .. m : Disjoint(r[k], x)
          <6>1. ASSUME NEW k \in 1 .. m PROVE Disjoint(r[k], x)
            <7>1. Disjoint(u[k], u[m + 1])
              BY <3>7, <5>1
            <7>2. u[k] = r[k] /\ u[m + 1] = x
              BY <3>4
            <7> QED BY <7>1, <7>2
          <6> QED BY <6>1
        <5>5. IsInjective(x)
          BY <3>4, <3>7, <5>1
        <5> QED BY <3>4, <5>2, <5>3, <5>4, <5>5 DEF Separate
      <4>2. ASSUME Separate(r), IsInjective(x), \A k \in 1 .. m : Disjoint(r[k], x) PROVE Separate(u)
        <5>1. /\ \A k \in 1 .. m : IsInjective(r[k])
              /\ \A j, k \in 1 .. m : j # k => Disjoint(r[j], r[k])
          BY <3>4, <4>2 DEF Separate
        <5>2. \A k \in 1 .. m + 1 : IsInjective(u[k])
          BY <3>4, <3>7, <4>2, <5>1
        <5>3. ASSUME NEW j \in 1 .. m + 1, NEW k \in 1 .. m + 1, j # k PROVE Disjoint(u[j], u[k])
          <6>1. CASE j \in 1 .. m /\ k \in 1 .. m
            BY <3>4, <5>1, <5>3, <6>1
          <6>2. CASE j = m + 1
            <7>1. k \in 1 .. m
              BY <3>7, <5>3, <6>2
            <7>2. Disjoint(r[k], x) /\ u[k] = r[k] /\ u[j] = x
              BY <3>4, <4>2, <6>2, <7>1
            <7> QED BY <3>6, <7>2
          <6>3. CASE k = m + 1
            <7>1. j \in 1 .. m
              BY <3>7, <5>3, <6>3
            <7>2. Disjoint(r[j], x) /\ u[j] = r[j] /\ u[k] = x
              BY <3>4, <4>2, <6>3, <7>1
            <7> QED BY <7>2
          <6> QED BY <3>7, <6>1, <6>2, <6>3
        <5> QED BY <3>4, <5>2, <5>3 DEF Separate
      <4> QED BY <4>1, <4>2
    <3> QED BY <3>2, <3>3, <3>5, <3>8
  <2> HIDE DEF Good
  <2> QED BY <2>1
<1> HIDE DEF S
<1>5. Nat \subseteq S
  BY <1>3, <1>4, Induction
<1>6. Len(s) \in Nat
  BY <1>0
<1>7. Good(s)
  <2> HIDE DEF Good
  <2> QED BY <1>0, <1>5, <1>6 DEF S
<1> QED BY <1>7
-----------------------------------------------------------------------------
(* Counting.                                                               *)
LEMMA CountsNat ==
  ASSUME NEW n \in Nat, NEW P, P \subseteq 1 .. n
  PROVE  Cardinality(P) \in Nat /\ (P # {} => Cardinality(P) > 0)
<1>1. IsFiniteSet(P)
  <2>1. IsFiniteSet(1 .. n)
    BY FS_Interval
  <2> QED BY <2>1, FS_Subset
<1>2. Cardinality(P) \in Nat /\ (Cardinality(P) = 0 <=> P = {})
  BY <1>1, FS_CardinalityType, FS_EmptySet
<1> DEFINE c == Cardinality(P)
<1> HIDE DEF c
<1>3. c \in Nat /\ (P # {} => c # 0)
  BY <1>2 DEF c
<1> QED BY <1>3 DEF c

LEMMA Interval ==
  ASSUME NEW a \in Nat, NEW c \in Nat, a <= c
  PROVE  IsFiniteSet(a .. c - 1) /\ Cardinality(a .. c - 1) = c - a
<1>1. a \in Int /\ c - 1 \in Int
  OBVIOUS
<1>2. IsFiniteSet(a .. c - 1) /\ Cardinality(a .. c - 1) = IF a > c - 1 THEN 0 ELSE (c - 1) - a + 1
  BY <1>1, FS_Interval
<1> QED BY <1>2

LEMMA TwoIntervals ==
  ASSUME NEW a \in Nat, NEW c \in Nat, NEW d \in Nat, a <= c, c <= d
  PROVE  Cardinality((0 .. a - 1) \cup (c .. d - 1)) = a + (d - c)
<1>1. IsFiniteSet(0 .. a - 1) /\ Cardinality(0 .. a - 1) = a - 0 /\ IsFiniteSet(c .. d - 1) /\ Cardinality(c .. d - 1) = d - c
  <2>1. 0 \in Nat /\ 0 <= a
    OBVIOUS
  <2> QED BY <2>1, Interval
<1> DEFINE A == 0 .. a - 1
           C == c .. d - 1
<1>2. A \cap C = {}
  OBVIOUS
<1> HIDE DEF A, C
<1>3. Cardinality(A \cup C) = Cardinality(A) + Cardinality(C) - Cardinality(A \cap C)
  BY <1>1, FS_Union DEF A, C
<1>4. Cardinality(A \cap C) = 0
  BY <1>2, FS_EmptySet
<1>5. Cardinality(A) = a /\ Cardinality(C) = d - c
  BY <1>1 DEF A, C
<1> QED BY <1>3, <1>4, <1>5 DEF A, C

(* What is counted up to a bound lies in one stretch of symbols, or two.   *)
InOne(A, n, a, c) ==
  /\ A \subseteq 0 .. n /\ a <= c /\ c <= n + 1
  /\ \A t \in 0 .. n : t \in A <=> a <= t /\ t < c

InTwo(A, n, a, c, d) ==
  /\ A \subseteq 0 .. n /\ a <= c /\ c <= d /\ d <= n + 1
  /\ \A t \in 0 .. n : t \in A <=> t < a \/ (c <= t /\ t < d)

LEMMA Between ==
  ASSUME NEW n \in Nat, NEW a \in Nat, NEW c \in Nat, NEW A, InOne(A, n, a, c)
  PROVE  Cardinality(A) = c - a
<1>1. a <= c /\ A = a .. c - 1
  <2>1. \A t \in a .. c - 1 : t \in 0 .. n /\ a <= t /\ t < c
    BY DEF InOne
  <2>2. \A t \in 0 .. n : a <= t /\ t < c => t \in a .. c - 1
    OBVIOUS
  <2> QED BY <2>1, <2>2 DEF InOne
<1> QED BY <1>1, Interval

LEMMA BetweenTwo ==
  ASSUME NEW n \in Nat, NEW a \in Nat, NEW c \in Nat, NEW d \in Nat, NEW A, InTwo(A, n, a, c, d)
  PROVE  Cardinality(A) = a + (d - c)
<1>1. a <= c /\ c <= d /\ A = (0 .. a - 1) \cup (c .. d - 1)
  <2>1. \A t \in c .. d - 1 : t \in 0 .. n /\ c <= t /\ t < d
    BY DEF InTwo
  <2>2. \A t \in 0 .. a - 1 : t \in 0 .. n /\ t < a
    BY DEF InTwo
  <2>3. \A t \in 0 .. n : (c <= t /\ t < d => t \in c .. d - 1) /\ (t < a => t \in 0 .. a - 1)
    OBVIOUS
  <2> QED BY <2>1, <2>2, <2>3 DEF InTwo
<1> QED BY <1>1, TwoIntervals
-----------------------------------------------------------------------------
(* The sum of t[1 .. n].                                                   *)
Summed(t, n) ==
  LET Sum[k \in 0 .. n] == IF k = 0 THEN 0 ELSE Sum[k - 1] + t[k]
  IN  Sum

LEMMA SummedIs ==
  ASSUME NEW n \in Nat, NEW t, \A k \in 1 .. n : t[k] \in Nat
  PROVE  /\ Summed(t, n) \in [0 .. n -> Nat] /\ Summed(t, n)[0] = 0
         /\ \A k \in 1 .. n : Summed(t, n)[k] = Summed(t, n)[k - 1] + t[k]
<1> DEFINE F == CHOOSE f : f = [k \in 0 .. n |-> IF k = 0 THEN 0 ELSE f[k - 1] + t[k]]
           G == [k \in Nat |-> [v \in Nat |-> IF k \in 1 .. n THEN v + t[k] ELSE v]]
<1>1. Summed(t, n) = F
  BY DEF Summed
<1>2. G \in [Nat -> [Nat -> Nat]]
  OBVIOUS
<1>3. PICK g \in [0 .. n -> Nat] : Iterates(g, 0, G, n)
  <2> HIDE DEF G
  <2> QED BY <1>2, Recursion
<1>4. \A k \in 1 .. n : g[k] = g[k - 1] + t[k]
  <2> TAKE k \in 1 .. n
  <2>1. k \in Nat /\ k - 1 \in 0 .. n
    OBVIOUS
  <2>2. g[k - 1] \in Nat /\ g[k] = G[k][g[k - 1]]
    BY <1>3, <2>1 DEF Iterates
  <2> QED BY <2>1, <2>2
<1>5. g = [k \in 0 .. n |-> IF k = 0 THEN 0 ELSE g[k - 1] + t[k]]
  <2>1. g[0] = 0
    BY <1>3 DEF Iterates
  <2>2. \A k \in 0 .. n : g[k] = IF k = 0 THEN 0 ELSE g[k - 1] + t[k]
    BY <1>4, <2>1
  <2>3. g = [k \in 0 .. n |-> g[k]]
    OBVIOUS
  <2> HIDE DEF G
  <2> QED BY <2>2, <2>3
<1>6. F = [k \in 0 .. n |-> IF k = 0 THEN 0 ELSE F[k - 1] + t[k]]
  BY <1>5, Zenon
<1> HIDE DEF F, G
<1>7. F[0] = 0 /\ \A k \in 1 .. n : F[k] = F[k - 1] + t[k]
  <2>1. 0 \in 0 .. n /\ \A k \in 1 .. n : k \in 0 .. n /\ k # 0
    OBVIOUS
  <2>2. \A k \in 0 .. n : F[k] = IF k = 0 THEN 0 ELSE F[k - 1] + t[k]
    BY <1>6, Zenon
  <2> QED BY <2>1, <2>2
<1> DEFINE T == {m \in Nat : m <= n => F[m] \in Nat}
<1>8. 0 \in T
  BY <1>7
<1>9. ASSUME NEW m \in Nat, m \in T PROVE m + 1 \in T
  <2>1. ASSUME m + 1 <= n PROVE F[m + 1] \in Nat
    <3>1. m + 1 \in 1 .. n /\ (m + 1) - 1 = m /\ F[m] \in Nat
      BY <1>9, <2>1
    <3>2. F[m + 1] = F[m] + t[m + 1] /\ t[m + 1] \in Nat
      BY <1>7, <3>1
    <3> QED BY <3>1, <3>2
  <2> QED BY <2>1
<1>10. \A k \in 0 .. n : F[k] \in Nat
  <2> HIDE DEF T
  <2>1. Nat \subseteq T
    BY <1>8, <1>9, Induction
  <2>2. \A k \in 0 .. n : k \in Nat /\ k <= n
    OBVIOUS
  <2> QED BY <2>1, <2>2 DEF T
<1>11. F \in [0 .. n -> Nat]
  <2>1. F = [k \in 0 .. n |-> F[k]]
    BY <1>6, Zenon
  <2> QED BY <1>10, <2>1
<1> QED BY <1>1, <1>7, <1>11
-----------------------------------------------------------------------------
(* Powers of two, up to the longest code.                                  *)
Pow == [k \in 0 .. 16 |-> 2^k]

LEMMA PowIs == \A k \in 0 .. 16 : Pow[k] = 2^k
BY DEF Pow

LEMMA Powers ==
  /\ Pow \in [0 .. 16 -> Nat \ {0}]
  /\ Pow[0] = 1 /\ Pow[8] = 256 /\ Pow[9] = 512 /\ Pow[16] = 65536
  /\ \A k \in 0 .. 15 : Pow[k + 1] = 2 * Pow[k]
<1>1. Pow[0] = 1
  BY DEF Pow
<1>2. Pow[1] = 2
  BY DEF Pow
<1>3. Pow[2] = 4
  BY DEF Pow
<1>4. Pow[3] = 8
  BY DEF Pow
<1>5. Pow[4] = 16
  BY DEF Pow
<1>6. Pow[5] = 32
  BY DEF Pow
<1>7. Pow[6] = 64
  BY DEF Pow
<1>8. Pow[7] = 128
  BY DEF Pow
<1>9. Pow[8] = 256
  BY DEF Pow
<1>10. Pow[9] = 512
  BY DEF Pow
<1>11. Pow[10] = 1024
  BY DEF Pow
<1>12. Pow[11] = 2048
  BY DEF Pow
<1>13. Pow[12] = 4096
  BY DEF Pow
<1>14. Pow[13] = 8192
  BY DEF Pow
<1>15. Pow[14] = 16384
  BY DEF Pow
<1>16. Pow[15] = 32768
  BY DEF Pow
<1>17. Pow[16] = 65536
  BY DEF Pow
<1>18. \A k \in 0 .. 16 : k \in {0, 1, 2, 3, 4, 5, 6, 7, 8, 9, 10, 11, 12, 13, 14, 15, 16}
  OBVIOUS
<1>19. Pow = [k \in 0 .. 16 |-> Pow[k]]
  BY DEF Pow
<1>20. ASSUME NEW k \in 0 .. 16 PROVE Pow[k] \in Nat \ {0}
  BY <1>1, <1>2, <1>3, <1>4, <1>5, <1>6, <1>7, <1>8, <1>9, <1>10, <1>11, <1>12, <1>13, <1>14,
     <1>15, <1>16, <1>17, <1>18, SMT
<1>21. ASSUME NEW k \in 0 .. 15 PROVE Pow[k + 1] = 2 * Pow[k]
  BY <1>1, <1>2, <1>3, <1>4, <1>5, <1>6, <1>7, <1>8, <1>9, <1>10, <1>11, <1>12, <1>13, <1>14,
     <1>15, <1>16, <1>17, <1>18, SMT
<1> QED BY <1>1, <1>9, <1>10, <1>17, <1>19, <1>20, <1>21

LEMMA PowNat == \A k \in 0 .. 16 : Pow[k] \in Nat /\ Pow[k] > 0
BY Powers

LEMMA PowersGrow ==
  ASSUME NEW a \in 0 .. 15, NEW k \in 0 .. 15, a < k
  PROVE  2 * Pow[a] <= Pow[k]
<1> DEFINE T == {d \in Nat : a + 1 + d <= 15 => 2 * Pow[a] <= Pow[a + 1 + d]}
<1>1. 0 \in T
  BY Powers
<1>2. ASSUME NEW d \in Nat, d \in T PROVE d + 1 \in T
  <2>1. CASE a + 1 + (d + 1) <= 15
    <3> DEFINE e == a + 1 + d
    <3>1. e \in 0 .. 14 /\ e + 1 = a + 1 + (d + 1) /\ 2 * Pow[a] <= Pow[e]
      BY <1>2, <2>1
    <3>2. Pow[e] \in Nat /\ Pow[a] \in Nat /\ Pow[e + 1] = 2 * Pow[e]
      BY <3>1, Powers
    <3> HIDE DEF e
    <3>3. 2 * Pow[a] <= Pow[e + 1]
      BY <3>1, <3>2
    <3>4. 2 * Pow[a] <= Pow[a + 1 + (d + 1)]
      BY <3>1, <3>3
    <3> QED BY <3>4
  <2> QED BY <2>1
<1> HIDE DEF T
<1>3. k - (a + 1) \in T
  BY <1>1, <1>2, Induction
<1>4. a + 1 + (k - (a + 1)) = k
  OBVIOUS
<1> QED BY <1>3, <1>4 DEF T
-----------------------------------------------------------------------------
(* The sums of the first elements of t[0 .. d].                            *)
Sums(t, d) ==
  LET Sum[k \in 0 .. d] == IF k = 0 THEN t[0] ELSE Sum[k - 1] + t[k]
  IN  Sum

LEMMA SumsAre ==
  ASSUME NEW d \in Nat, NEW t \in [0 .. d -> Nat]
  PROVE  /\ Sums(t, d) \in [0 .. d -> Nat] /\ Sums(t, d)[0] = t[0]
         /\ \A k \in 1 .. d : Sums(t, d)[k] = Sums(t, d)[k - 1] + t[k]
<1> DEFINE F == CHOOSE f : f = [k \in 0 .. d |-> IF k = 0 THEN t[0] ELSE f[k - 1] + t[k]]
           G == [k \in Nat |-> [v \in Nat |-> IF k \in 1 .. d THEN v + t[k] ELSE v]]
<1>1. Sums(t, d) = F
  BY DEF Sums
<1>2. t[0] \in Nat /\ \A k \in 1 .. d : t[k] \in Nat
  OBVIOUS
<1>3. G \in [Nat -> [Nat -> Nat]]
  BY <1>2
<1>4. PICK g \in [0 .. d -> Nat] : Iterates(g, t[0], G, d)
  <2> HIDE DEF G
  <2> QED BY <1>2, <1>3, Recursion
<1>5. \A k \in 1 .. d : g[k] = g[k - 1] + t[k]
  <2> TAKE k \in 1 .. d
  <2>1. k \in Nat /\ k - 1 \in 0 .. d /\ k - 1 \in Nat
    OBVIOUS
  <2>2. g[k - 1] \in Nat /\ g[k] = G[k][g[k - 1]]
    BY <1>4, <2>1 DEF Iterates
  <2> QED BY <2>1, <2>2
<1>6. g[0] = t[0] /\ g = [k \in 0 .. d |-> IF k = 0 THEN t[0] ELSE g[k - 1] + t[k]]
  <2>1. g[0] = t[0]
    BY <1>4 DEF Iterates
  <2>2. \A k \in 0 .. d : g[k] = IF k = 0 THEN t[0] ELSE g[k - 1] + t[k]
    BY <1>5, <2>1
  <2>3. g = [k \in 0 .. d |-> g[k]]
    OBVIOUS
  <2> HIDE DEF G
  <2> QED BY <2>1, <2>2, <2>3
<1>7. F = [k \in 0 .. d |-> IF k = 0 THEN t[0] ELSE F[k - 1] + t[k]]
  BY <1>6, Zenon
<1> HIDE DEF F, G
<1>8. \A k \in 0 .. d : F[k] = g[k]
  <2> DEFINE T == {m \in Nat : m <= d => F[m] = g[m]}
  <2>1. 0 \in T
    BY <1>6, <1>7
  <2>2. ASSUME NEW m \in Nat, m \in T PROVE m + 1 \in T
    <3>1. CASE m + 1 <= d
      <4>1. F[m] = g[m] /\ m + 1 \in 1 .. d /\ (m + 1) - 1 = m
        BY <2>2, <3>1
      <4>2. F[m + 1] = F[m] + t[m + 1] /\ g[m + 1] = g[m] + t[m + 1]
        BY <1>5, <1>7, <4>1
      <4> QED BY <4>1, <4>2
    <3> QED BY <3>1
  <2> HIDE DEF T
  <2>3. Nat \subseteq T
    BY <2>1, <2>2, Induction
  <2> QED BY <2>3 DEF T
<1>9. F = g
  <2>1. F = [k \in 0 .. d |-> F[k]] /\ g = [k \in 0 .. d |-> g[k]]
    BY <1>7
  <2> QED BY <1>8, <2>1
<1> QED BY <1>1, <1>5, <1>6, <1>9

LEMMA SumsAdd ==
  ASSUME NEW d \in Nat, NEW t \in [0 .. d -> Nat], NEW u \in [0 .. d -> Nat], NEW v \in [0 .. d -> Nat],
         \A k \in 0 .. d : t[k] = u[k] + v[k]
  PROVE  Sums(t, d)[d] = Sums(u, d)[d] + Sums(v, d)[d]
<1> DEFINE f == Sums(t, d)
           g == Sums(u, d)
           h == Sums(v, d)
           T == {m \in Nat : m <= d => f[m] = g[m] + h[m]}
<1>1. /\ f \in [0 .. d -> Nat] /\ g \in [0 .. d -> Nat] /\ h \in [0 .. d -> Nat]
      /\ f[0] = t[0] /\ g[0] = u[0] /\ h[0] = v[0]
      /\ \A k \in 1 .. d : f[k] = f[k - 1] + t[k] /\ g[k] = g[k - 1] + u[k] /\ h[k] = h[k - 1] + v[k]
  BY SumsAre
<1> HIDE DEF f, g, h
<1>2. 0 \in T
  BY <1>1
<1>3. ASSUME NEW m \in Nat, m \in T PROVE m + 1 \in T
  <2>1. CASE m + 1 <= d
    <3>1. m + 1 \in 1 .. d /\ (m + 1) - 1 = m /\ f[m] = g[m] + h[m] /\ m \in 0 .. d
      BY <1>3, <2>1
    <3>2. f[m + 1] = f[m] + t[m + 1] /\ g[m + 1] = g[m] + u[m + 1] /\ h[m + 1] = h[m] + v[m + 1]
      BY <1>1, <3>1
    <3>3. t[m + 1] = u[m + 1] + v[m + 1] /\ u[m + 1] \in Nat /\ v[m + 1] \in Nat
      BY <3>1
    <3>4. f[m + 1] = g[m + 1] + h[m + 1]
      BY <1>1, <3>1, <3>2, <3>3
    <3> QED BY <3>4
  <2> QED BY <2>1
<1> HIDE DEF T
<1>4. Nat \subseteq T
  BY <1>2, <1>3, Induction
<1> QED BY <1>4 DEF T, f, g, h

LEMMA SumsShift ==
  ASSUME NEW d \in Nat, NEW t \in [0 .. d + 1 -> Nat], NEW u \in [0 .. d -> Nat],
         t[0] = 0, \A k \in 0 .. d : t[k + 1] = u[k]
  PROVE  Sums(t, d + 1)[d + 1] = Sums(u, d)[d]
<1> DEFINE f == Sums(t, d + 1)
           g == Sums(u, d)
           T == {m \in Nat : m <= d => f[m + 1] = g[m]}
<1>1. /\ f \in [0 .. d + 1 -> Nat] /\ f[0] = t[0]
      /\ \A k \in 1 .. d + 1 : f[k] = f[k - 1] + t[k]
  <2> DEFINE e == d + 1
  <2>1. e \in Nat /\ t \in [0 .. e -> Nat]
    OBVIOUS
  <2> HIDE DEF e
  <2>2. /\ Sums(t, e) \in [0 .. e -> Nat] /\ Sums(t, e)[0] = t[0]
        /\ \A k \in 1 .. e : Sums(t, e)[k] = Sums(t, e)[k - 1] + t[k]
    BY <2>1, SumsAre
  <2> QED BY <2>2 DEF e
<1>2. g \in [0 .. d -> Nat] /\ g[0] = u[0] /\ \A k \in 1 .. d : g[k] = g[k - 1] + u[k]
  BY SumsAre
<1> HIDE DEF f, g
<1>3. 0 \in T
  <2>1. f[1] = f[0] + t[1] /\ t[1] = u[0] /\ u[0] \in Nat
    <3>1. 1 \in 1 .. d + 1 /\ 1 - 1 = 0 /\ 0 + 1 = 1 /\ 0 \in 0 .. d
      OBVIOUS
    <3> QED BY <1>1, <3>1
  <2> QED BY <1>1, <1>2, <2>1
<1>4. ASSUME NEW m \in Nat, m \in T PROVE m + 1 \in T
  <2>1. CASE m + 1 <= d
    <3>1. m + 1 \in 1 .. d /\ (m + 1) - 1 = m /\ f[m + 1] = g[m] /\ (m + 1) + 1 \in 1 .. d + 1
          /\ ((m + 1) + 1) - 1 = m + 1 /\ m + 1 \in 0 .. d
      BY <1>4, <2>1
    <3>2. f[(m + 1) + 1] = f[m + 1] + t[(m + 1) + 1] /\ g[m + 1] = g[m] + u[m + 1] /\ t[(m + 1) + 1] = u[m + 1]
      BY <1>1, <1>2, <3>1
    <3> QED BY <3>1, <3>2
  <2> QED BY <2>1
<1> HIDE DEF T
<1>5. Nat \subseteq T
  BY <1>3, <1>4, Induction
<1> QED BY <1>5 DEF T, f, g

(* The sum of a sequence with one element other than zero.                 *)
LEMMA SumOfOne ==
  ASSUME NEW d \in Nat, NEW t \in [0 .. d -> Nat], NEW j \in 0 .. d, \A k \in 0 .. d : k # j => t[k] = 0
  PROVE  Sums(t, d)[d] = t[j]
<1> DEFINE f == Sums(t, d)
           T == {m \in Nat : m <= d => f[m] = IF m < j THEN 0 ELSE t[j]}
<1>1. /\ f \in [0 .. d -> Nat] /\ f[0] = t[0]
      /\ \A k \in 1 .. d : f[k] = f[k - 1] + t[k]
  BY SumsAre
<1> HIDE DEF f
<1>2. 0 \in T
  BY <1>1
<1>3. ASSUME NEW m \in Nat, m \in T PROVE m + 1 \in T
  <2>1. CASE m + 1 <= d
    <3>1. m + 1 \in 1 .. d /\ (m + 1) - 1 = m /\ f[m] = IF m < j THEN 0 ELSE t[j]
      BY <1>3, <2>1
    <3>2. f[m + 1] = f[m] + t[m + 1] /\ t[m + 1] \in Nat /\ t[j] \in Nat
      BY <1>1, <3>1
    <3>3. m + 1 # j => t[m + 1] = 0
      BY <3>1
    <3>4. f[m + 1] = IF m + 1 < j THEN 0 ELSE t[j]
      BY <3>1, <3>2, <3>3
    <3> QED BY <3>4
  <2> QED BY <2>1
<1> HIDE DEF T
<1>4. Nat \subseteq T
  BY <1>2, <1>3, Induction
<1> QED BY <1>4 DEF T, f
-----------------------------------------------------------------------------
LEMMA ProductNat == ASSUME NEW a \in Nat, NEW b \in Nat PROVE a * b \in Nat
OBVIOUS

LEMMA Distributes ==
  ASSUME NEW a \in Nat, NEW b \in Nat, NEW p \in Nat PROVE (a + b) * p = a * p + b * p
OBVIOUS
-----------------------------------------------------------------------------
LEMMA Regroup == ASSUME NEW a \in Nat, NEW b \in Nat PROVE (2 * a) * b = 2 * (a * b)
OBVIOUS

LEMMA CancelFactor == ASSUME NEW a \in Nat, NEW b \in Nat, NEW p \in Nat, p > 0, a * p = b * p PROVE a = b
OBVIOUS

LEMMA PowersMultiply ==
  ASSUME NEW v \in Nat, NEW r \in Nat, v + r <= 15
  PROVE  Pow[v + r] = Pow[v] * Pow[r]
<1> DEFINE T == {m \in Nat : m + r <= 15 => Pow[m + r] = Pow[m] * Pow[r]}
<1>1. 0 \in T
  <2>1. r <= 15 => r \in 0 .. 16 /\ 0 + r = r
    OBVIOUS
  <2>2. r <= 15 => Pow[r] \in Nat
    BY <2>1, PowNat
  <2>3. r <= 15 => Pow[r] = 1 * Pow[r]
    BY <2>2
  <2> QED BY <2>1, <2>3, Powers
<1>2. ASSUME NEW m \in Nat, m \in T PROVE m + 1 \in T
  <2>1. CASE m + 1 + r <= 15
    <3>1. m + r \in 0 .. 15 /\ m \in 0 .. 15 /\ m \in 0 .. 16 /\ r \in 0 .. 16 /\ (m + r) + 1 = (m + 1) + r /\ m + r <= 15
      BY <2>1
    <3>2. Pow[m + r] = Pow[m] * Pow[r]
      BY <1>2, <3>1
    <3> DEFINE x == Pow[m]
               y == Pow[r]
               w == m + r
    <3>3. x \in Nat /\ y \in Nat /\ Pow[m + 1] = 2 * x
      BY <3>1, Powers, PowNat
    <3>4. Pow[w + 1] = 2 * Pow[w]
      <4> HIDE DEF w
      <4>1. w \in 0 .. 15
        BY <3>1 DEF w
      <4> QED BY <4>1, Powers
    <3> HIDE DEF x, y
    <3>5. 2 * (x * y) = (2 * x) * y
      BY <3>3, Regroup
    <3>6. Pow[w + 1] = 2 * (x * y)
      BY <3>2, <3>4 DEF x, y
    <3>7. Pow[w + 1] = Pow[m + 1] * y
      BY <3>3, <3>5, <3>6
    <3>8. Pow[(m + 1) + r] = Pow[m + 1] * Pow[r]
      BY <3>1, <3>7 DEF y
    <3> QED BY <3>8
  <2>2. CASE ~ (m + 1 + r <= 15)
    BY <2>2
  <2> QED BY <2>1, <2>2
<1> HIDE DEF T
<1>3. v \in T
  BY <1>1, <1>2, Induction
<1> QED BY <1>3 DEF T
-----------------------------------------------------------------------------
(* The bits of a number.                                                   *)
BitAt(v, k) == (v \div Pow[k]) % 2

LEMMA AddHigh ==
  ASSUME NEW k \in 0 .. 14, NEW v \in Nat, v < Pow[k]
  PROVE  /\ BitAt(v + Pow[k], k) = 1 /\ BitAt(v, k) = 0
         /\ \A j \in 0 .. k - 1 : BitAt(v + Pow[k], j) = BitAt(v, j)
<1> DEFINE q == Pow[k]
<1>1. q \in Nat /\ q > 0 /\ v < q
  <2>1. k \in 0 .. 16
    OBVIOUS
  <2> QED BY <2>1, PowNat
<1> HIDE DEF q
<1>2. (v + q) \div q = 1 /\ v \div q = 0
  <2>1. v + q = 1 * q + v /\ v = 0 * q + v /\ v \in 0 .. q - 1
    BY <1>1
  <2> QED BY <1>1, <2>1
<1>3. 1 % 2 = 1 /\ 0 % 2 = 0
  OBVIOUS
<1>4. BitAt(v + q, k) = 1 /\ BitAt(v, k) = 0
  BY <1>2, <1>3, Zenon DEF BitAt, q
<1>5. ASSUME NEW j \in 0 .. k - 1 PROVE BitAt(v + q, j) = BitAt(v, j)
  <2> DEFINE p == Pow[j]
             m == Pow[k - 1 - j]
  <2>1. /\ j \in Nat /\ k - 1 - j \in Nat /\ j + (k - 1 - j) = k - 1 /\ (k - 1) + 1 = k /\ j + (k - 1 - j) <= 15
        /\ j \in 0 .. 16 /\ k - 1 - j \in 0 .. 16 /\ k - 1 \in 0 .. 15
    OBVIOUS
  <2>2. Pow[k - 1] = p * m /\ q = 2 * Pow[k - 1] /\ p \in Nat /\ p > 0 /\ m \in Nat
    <3>1. Pow[j + (k - 1 - j)] = Pow[j] * Pow[k - 1 - j]
      BY <2>1, PowersMultiply
    <3>2. Pow[(k - 1) + 1] = 2 * Pow[k - 1]
      BY <2>1, Powers
    <3> QED BY <2>1, <3>1, <3>2, PowNat DEF q
  <2> HIDE DEF p, m
  <2>3. q = 2 * (p * m)
    BY <2>2
  <2> DEFINE x == v \div p
             r == v % p
  <2>4. v = x * p + r /\ r \in 0 .. p - 1 /\ x \in Nat
    BY <2>2
  <2> HIDE DEF x, r
  <2>5. v + q = (x + 2 * m) * p + r
    BY <2>2, <2>3, <2>4
  <2>6. (v + q) \div p = x + 2 * m
    <3> DEFINE y == x + 2 * m
    <3>1. y \in Nat /\ v + q = y * p + r
      BY <2>2, <2>4, <2>5
    <3> HIDE DEF y
    <3>2. (y * p + r) \div p = y
      BY <2>2, <2>4, <3>1
    <3> QED BY <3>1, <3>2 DEF y
  <2>7. (x + 2 * m) % 2 = x % 2
    BY <2>2, <2>4
  <2> QED BY <2>6, <2>7, Zenon DEF BitAt, p, x
<1> QED BY <1>4, <1>5 DEF q

(* A number whose ones are below a bound is below that power of two, and   *)
(* has these ones.                                                         *)
-----------------------------------------------------------------------------
(* The powers of two that fit a code.                                      *)
SixteenPowers ==
  /\ Pow[0] = 1 /\ Pow[1] = 2 /\ Pow[2] = 4 /\ Pow[3] = 8 /\ Pow[4] = 16 /\ Pow[5] = 32
  /\ Pow[6] = 64 /\ Pow[7] = 128 /\ Pow[8] = 256 /\ Pow[9] = 512 /\ Pow[10] = 1024
  /\ Pow[11] = 2048 /\ Pow[12] = 4096 /\ Pow[13] = 8192 /\ Pow[14] = 16384 /\ Pow[15] = 32768

LEMMA PowersTo15 == SixteenPowers
<1>1. Pow[0] = 1 /\ Pow[1] = 2 /\ Pow[2] = 4 /\ Pow[3] = 8
  BY DEF Pow
<1>2. Pow[4] = 16 /\ Pow[5] = 32 /\ Pow[6] = 64 /\ Pow[7] = 128
  BY DEF Pow
<1>3. Pow[8] = 256 /\ Pow[9] = 512 /\ Pow[10] = 1024 /\ Pow[11] = 2048
  BY DEF Pow
<1>4. Pow[12] = 4096 /\ Pow[13] = 8192 /\ Pow[14] = 16384 /\ Pow[15] = 32768
  BY DEF Pow
<1> QED BY <1>1, <1>2, <1>3, <1>4 DEF SixteenPowers
-----------------------------------------------------------------------------
LEMMA PowDoubles == \A k \in 0 .. 15 : Pow[k + 1] = 2 * Pow[k]
BY Powers

LEMMA DoubleMod ==
  ASSUME NEW v \in Nat, NEW p \in Nat, p > 0, NEW q, q = 2 * p
  PROVE  /\ v % q = (v % p) + ((v \div p) % 2) * p /\ v % p \in Nat
         /\ v \div p = 2 * (v \div q) + ((v \div p) % 2) /\ v \div p \in Nat
<1> DEFINE x == v \div p
           y == x \div 2
           z == x % 2
           r == v % p
<1>1. v = x * p + r /\ r \in 0 .. p - 1 /\ x \in Nat
  OBVIOUS
<1>2. x = 2 * y + z /\ z \in 0 .. 1 /\ y \in Nat
  BY <1>1
<1> HIDE DEF x, y, z, r
<1>3. v = y * q + (z * p + r)
  BY <1>1, <1>2
<1>4. z * p + r \in 0 .. q - 1
  BY <1>1, <1>2
<1>5. v % q = z * p + r /\ v \div q = y
  BY <1>3, <1>4, <1>2
<1>6. z * p \in Nat
  BY <1>2
<1>7. v % q = r + z * p
  BY <1>1, <1>5, <1>6
<1>8. v % q = r + z * p /\ r \in Nat /\ x = 2 * (v \div q) + z /\ x \in Nat
  BY <1>1, <1>2, <1>5, <1>7
<1> QED BY <1>8, Zenon DEF x, z, r
-----------------------------------------------------------------------------
(* The low bits from the lowest on, and the high bits from the highest on. *)
LEMMA LowBits ==
  ASSUME NEW v \in Nat, NEW k \in 0 .. 14
  PROVE  /\ v % Pow[k + 1] = (v % Pow[k]) + BitAt(v, k) * Pow[k] /\ v % Pow[k] \in Nat
         /\ v \div Pow[k] = 2 * (v \div Pow[k + 1]) + BitAt(v, k) /\ v \div Pow[k] \in Nat
<1>1. k \in 0 .. 16 /\ k \in 0 .. 15
  OBVIOUS
<1>2. Pow[k] \in Nat /\ Pow[k] > 0 /\ Pow[k + 1] = 2 * Pow[k]
  BY <1>1, Powers, PowNat
<1> QED BY <1>2, DoubleMod DEF BitAt
-----------------------------------------------------------------------------
LEMMA SmallPowers ==
  /\ Pow[0] = 1 /\ Pow[1] = 2 /\ Pow[2] = 4 /\ Pow[3] = 8 /\ Pow[4] = 16 /\ Pow[5] = 32 /\ Pow[6] = 64
  /\ Pow[7] = 128 /\ Pow[8] = 256 /\ Pow[9] = 512 /\ Pow[10] = 1024 /\ Pow[11] = 2048 /\ Pow[12] = 4096
  /\ Pow[13] = 8192
BY DEF Pow

(* No number of literals is a power of two: codes of one length for all of *)
(* them are not complete.                                                  *)
LEMMA NoPower == ASSUME NEW v \in 0 .. 15, NEW a \in 257 .. 286 PROVE Pow[v] # a
<1>1. CASE v < 8
  <2>1. 2 * Pow[v] <= Pow[8] /\ Pow[8] = 256 /\ Pow[v] \in Nat
    <3>1. v \in 0 .. 15 /\ 8 \in 0 .. 15 /\ v \in 0 .. 16
      OBVIOUS
    <3> QED BY <1>1, <3>1, Powers, PowersGrow, PowNat
  <2> QED BY <2>1
<1>2. CASE v = 8
  BY <1>2, Powers
<1>3. CASE v = 9
  BY <1>3, Powers
<1>4. CASE v > 9
  <2>1. 2 * Pow[9] <= Pow[v] /\ Pow[9] = 512 /\ Pow[v] \in Nat
    <3>1. v \in 0 .. 15 /\ 9 \in 0 .. 15 /\ v \in 0 .. 16 /\ 9 < v
      BY <1>4
    <3> QED BY <3>1, Powers, PowersGrow, PowNat
  <2> QED BY <2>1
<1> QED BY <1>1, <1>2, <1>3, <1>4

LEMMA DivMod == ASSUME NEW r \in 0 .. 255, NEW m \in Nat PROVE (r + m * 256) % 256 = r /\ (r + m * 256) \div 256 = m
OBVIOUS
-----------------------------------------------------------------------------
(* No bits, no ones.                                                       *)
LEMMA ZeroBits == \A j \in 0 .. 15 : BitAt(0, j) = 0
<1> SUFFICES ASSUME NEW j \in 0 .. 15 PROVE BitAt(0, j) = 0
  OBVIOUS
<1> DEFINE p == Pow[j]
<1>1. p \in Nat /\ p > 0
  <2>1. j \in 0 .. 16
    OBVIOUS
  <2> QED BY <2>1, PowNat
<1> HIDE DEF p
<1>2. 0 \div p = 0 /\ 0 % 2 = 0
  BY <1>1
<1> QED BY <1>2 DEF BitAt, p

LEMMA OnesOfThree == BitAt(3, 0) = 1 /\ BitAt(3, 1) = 1 /\ BitAt(3, 2) = 0
<1>1. Pow[0] = 1 /\ Pow[1] = 2 /\ Pow[2] = 4
  BY SmallPowers
<1>2. 3 \div 1 = 3 /\ 3 \div 2 = 1 /\ 3 \div 4 = 0 /\ 3 % 2 = 1 /\ 1 % 2 = 1 /\ 0 % 2 = 0
  OBVIOUS
<1> QED BY <1>1, <1>2 DEF BitAt
=============================================================================
