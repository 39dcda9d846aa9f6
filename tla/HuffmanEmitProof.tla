-------------------------- MODULE HuffmanEmitProof --------------------------
(***************************************************************************)
(* The offsets and the output of the GPU emission are those of one writer  *)
(* that goes through the tokens in order, for every size of a workgroup,   *)
(* every block and every order in which the invocations run.               *)
(*                                                                         *)
(* The heart is the invariant of one scan.  pre is the prefix sum of the   *)
(* inputs; in a round of a given step every invocation holds the sum of    *)
(* the step inputs that end at its own, or of all there are, and the round *)
(* doubles that.  Between the two barriers of a round some have added      *)
(* their addend and some have not; the addend of all was taken before.     *)
(*                                                                         *)
(* The output follows from the offsets: a bit of the words read back is    *)
(* set exactly if the header has it or an invocation has written it, and   *)
(* in the end all have written theirs.                                     *)
(***************************************************************************)
EXTENDS HuffmanEmit, DataInduction, TLAPS

GroupTypeOK(s) ==
  s \in [input : [Lanes -> Int], seg : {"store", "read", "add", "out"}, step : Nat \ {0},
         arrived : SUBSET Lanes, shared : [Lanes -> Int], addend : [Lanes -> Int]]

(* The sum of the n inputs that end at that of lane l.                     *)
Window(pre, l, n) == pre[l + 1] - (IF l + 1 >= n THEN pre[l + 1 - n] ELSE pre[0])

IsPrefixSum(pre, input) ==
  /\ pre \in [0 .. WgSize -> Int]
  /\ pre[0] = 0
  /\ \A l \in Lanes : pre[l + 1] = pre[l] + input[l]

Addend(s, pre, l) == IF l >= s.step THEN Window(pre, l - s.step, s.step) ELSE 0

Holds(s, pre, l) ==
  /\ s.seg = "store" /\ l \in s.arrived => s.shared[l] = s.input[l]
  /\ s.seg \in {"read", "out"} => s.shared[l] = Window(pre, l, s.step)
  /\ s.seg = "read" /\ l \in s.arrived => s.addend[l] = Addend(s, pre, l)
  /\ s.seg = "add" => s.addend[l] = Addend(s, pre, l)
  /\ s.seg = "add" /\ l \notin s.arrived => s.shared[l] = Window(pre, l, s.step)
  /\ s.seg = "add" /\ l \in s.arrived => s.shared[l] = Window(pre, l, s.step * 2)

GroupInv(s, pre) ==
  /\ GroupTypeOK(s)
  /\ IsPrefixSum(pre, s.input)
  /\ s.seg = "store" => s.step = 1
  /\ s.seg = "out" => s.step >= WgSize
  /\ \A l \in Lanes : Holds(s, pre, l)
-----------------------------------------------------------------------------
(* Where each write of a token begins, and where the last one ends.        *)
Pos(t) ==
  LET Sum[k \in 0 .. Len(t)] == IF k = 0 THEN 0 ELSE Sum[k - 1] + t[k].bits
  IN  Sum

LEMMA PosIs ==
  ASSUME NEW t \in Seq(Write)
  PROVE  /\ Pos(t) \in [0 .. Len(t) -> Nat] /\ Pos(t)[0] = 0
         /\ \A k \in 1 .. Len(t) : Pos(t)[k] = Pos(t)[k - 1] + t[k].bits
         /\ token_bits(t) = Pos(t)[Len(t)]
<1> DEFINE top == Len(t)
           F == CHOOSE f : f = [k \in 0 .. top |-> IF k = 0 THEN 0 ELSE f[k - 1] + t[k].bits]
           G == [k \in Nat |-> [v \in Nat |-> IF k \in 1 .. top THEN v + t[k].bits ELSE v]]
<1>1. top \in Nat /\ \A k \in 1 .. top : t[k] \in Write /\ t[k].bits \in Nat
  <2>1. \A k \in 1 .. top : t[k] \in Write
    OBVIOUS
  <2> QED BY <2>1 DEF Write
<1>2. Pos(t) = F /\ token_bits(t) = F[top]
  BY DEF Pos, token_bits
<1> HIDE DEF top
<1>3. G \in [Nat -> [Nat -> Nat]]
  BY <1>1
<1>4. PICK g \in [0 .. top -> Nat] : Iterates(g, 0, G, top)
  <2> HIDE DEF G
  <2> QED BY <1>1, <1>3, Recursion
<1>5. g[0] = 0 /\ \A k \in 1 .. top : g[k] = g[k - 1] + t[k].bits
  <2>1. \A k \in 1 .. top : k \in Nat /\ k - 1 \in 0 .. top
    BY <1>1
  <2>2. \A k \in 1 .. top : g[k - 1] \in Nat /\ g[k] = G[k][g[k - 1]]
    BY <1>4, <2>1 DEF Iterates
  <2> QED BY <1>4, <2>1, <2>2 DEF Iterates
<1>6. g = [k \in 0 .. top |-> IF k = 0 THEN 0 ELSE g[k - 1] + t[k].bits]
  <2>1. \A k \in 0 .. top : g[k] = IF k = 0 THEN 0 ELSE g[k - 1] + t[k].bits
    BY <1>1, <1>5
  <2>2. g = [k \in 0 .. top |-> g[k]]
    OBVIOUS
  <2> QED BY <2>1, <2>2
<1>7. F = [k \in 0 .. top |-> IF k = 0 THEN 0 ELSE F[k - 1] + t[k].bits]
  BY <1>6, Zenon
<1> HIDE DEF F, G
<1>8. F[0] = 0 /\ \A k \in 1 .. top : F[k] = F[k - 1] + t[k].bits
  <2>1. 0 \in 0 .. top /\ \A k \in 1 .. top : k \in 0 .. top /\ k # 0
    BY <1>1
  <2> QED BY <1>7, <2>1
<1> DEFINE S == {k \in Nat : k \in 0 .. top => F[k] \in Nat}
<1>9. Nat \subseteq S
  <2>1. 0 \in S
    BY <1>8
  <2>2. ASSUME NEW m \in Nat, m \in S PROVE m + 1 \in S
    <3>1. m + 1 \in 0 .. top => m \in 0 .. top /\ m + 1 \in 1 .. top /\ (m + 1) - 1 = m
      BY <1>1
    <3>2. m + 1 \in 0 .. top => F[m] \in Nat /\ t[m + 1].bits \in Nat /\ F[m + 1] = F[m] + t[m + 1].bits
      BY <1>1, <1>8, <2>2, <3>1
    <3> QED BY <3>2
  <2> HIDE DEF S
  <2> QED BY <2>1, <2>2, Induction
<1>10. F \in [0 .. top -> Nat]
  <2>1. \A k \in 0 .. top : F[k] \in Nat
    BY <1>9, <1>1
  <2> QED BY <1>7, <2>1
<1> QED BY <1>2, <1>8, <1>10 DEF top

(* The bits that the first m writes of t set when the first goes to off.   *)
Placed(t, off, m) ==
  {p \in Nat : \E n \in 1 .. m : \E j \in t[n].ones : p = off + Pos(t)[n - 1] + j}

LEMMA PlacedNext ==
  ASSUME NEW t \in Seq(Write), NEW off \in Nat
  PROVE  /\ Placed(t, off, 0) = {}
         /\ \A m \in 0 .. Len(t) - 1 :
              Placed(t, off, m + 1) = Placed(t, off, m) \cup {off + Pos(t)[m] + j : j \in t[m + 1].ones}
<1>1. /\ Pos(t) \in [0 .. Len(t) -> Nat]
      /\ \A n \in 1 .. Len(t) : t[n] \in Write
  BY PosIs
<1>2. \A n \in 1 .. Len(t) : t[n].ones \subseteq Nat
  BY <1>1 DEF Write
<1>3. Placed(t, off, 0) = {}
  BY DEF Placed
<1>4. ASSUME NEW m \in 0 .. Len(t) - 1
      PROVE  Placed(t, off, m + 1) = Placed(t, off, m) \cup {off + Pos(t)[m] + j : j \in t[m + 1].ones}
  <2>1. Len(t) \in Nat /\ m \in Nat /\ m + 1 \in 1 .. Len(t) /\ m \in 0 .. Len(t) /\ (m + 1) - 1 = m
    OBVIOUS
  <2>2. t[m + 1].ones \subseteq Nat /\ Pos(t)[m] \in Nat
    BY <1>1, <1>2, <2>1
  <2>3. ASSUME NEW p \in Placed(t, off, m + 1)
        PROVE  p \in Placed(t, off, m) \cup {off + Pos(t)[m] + j : j \in t[m + 1].ones}
    <3>1. PICK n \in 1 .. m + 1 : \E j \in t[n].ones : p = off + Pos(t)[n - 1] + j
      BY DEF Placed
    <3>2. p \in Nat
      BY DEF Placed
    <3>3. CASE n = m + 1
      BY <2>1, <3>1, <3>3
    <3>4. CASE n # m + 1
      <4>1. n \in 1 .. m
        BY <2>1, <3>4
      <4> QED BY <3>1, <3>2, <4>1 DEF Placed
    <3> QED BY <3>3, <3>4
  <2>4. ASSUME NEW p \in Placed(t, off, m) PROVE p \in Placed(t, off, m + 1)
    <3>1. p \in Nat /\ 1 .. m \subseteq 1 .. m + 1
      BY <2>1 DEF Placed
    <3> QED BY <3>1 DEF Placed
  <2>5. ASSUME NEW j \in t[m + 1].ones PROVE off + Pos(t)[m] + j \in Placed(t, off, m + 1)
    <3>1. off + Pos(t)[m] + j \in Nat /\ m + 1 \in 1 .. m + 1
      BY <2>1, <2>2
    <3>2. off + Pos(t)[m] + j = off + Pos(t)[(m + 1) - 1] + j
      BY <2>1
    <3> QED BY <3>1, <3>2 DEF Placed
  <2> QED BY <2>3, <2>4, <2>5
<1> QED BY <1>3, <1>4

(* One writer sets the bits that are placed from the start.                *)
LEMMA OneWriterIs ==
  ASSUME NEW t \in Seq(Write)
  PROVE  OneWriter(t) = [bits |-> token_bits(t), ones |-> Placed(t, 0, Len(t))]
<1> DEFINE top == Len(t)
           V == [bits : Nat, ones : SUBSET Nat]
           Then(v, w) == [bits |-> v.bits + w.bits, ones |-> v.ones \cup Shifted(w.ones, v.bits)]
           zero == [bits |-> 0, ones |-> {}]
           F == CHOOSE f : f = [k \in 0 .. top |-> IF k = 0 THEN zero ELSE Then(f[k - 1], t[k])]
           G == [k \in Nat |-> [v \in V |-> IF k \in 1 .. top THEN Then(v, t[k]) ELSE v]]
<1>1. top \in Nat /\ zero \in V /\ \A k \in 1 .. top : t[k] \in Write
  OBVIOUS
<1>2. OneWriter(t) = F[top]
  BY DEF OneWriter
<1> HIDE DEF top
<1>3. ASSUME NEW v \in V, NEW w \in Write PROVE Then(v, w) \in V
  <2>1. v.bits \in Nat /\ v.ones \in SUBSET Nat /\ w.bits \in Nat /\ w.ones \in SUBSET Nat
    BY DEF Write
  <2>2. Shifted(w.ones, v.bits) \in SUBSET Nat
    BY <2>1 DEF Shifted
  <2> QED BY <2>1, <2>2
<1> HIDE DEF zero, Then
<1>4. G \in [Nat -> [V -> V]]
  BY <1>1, <1>3
<1>5. PICK g \in [0 .. top -> V] : Iterates(g, zero, G, top)
  <2> HIDE DEF G, V
  <2> QED BY <1>1, <1>4, Recursion
<1>6. g[0] = zero /\ \A k \in 1 .. top : g[k] = Then(g[k - 1], t[k])
  <2> HIDE DEF V
  <2>1. \A k \in 1 .. top : k \in Nat /\ k - 1 \in 0 .. top
    BY <1>1
  <2>2. \A k \in 1 .. top : g[k - 1] \in V /\ g[k] = G[k][g[k - 1]]
    BY <1>5, <2>1 DEF Iterates
  <2> QED BY <1>5, <2>1, <2>2 DEF Iterates
<1>7. g = [k \in 0 .. top |-> IF k = 0 THEN zero ELSE Then(g[k - 1], t[k])]
  <2> HIDE DEF V
  <2>1. \A k \in 0 .. top : g[k] = IF k = 0 THEN zero ELSE Then(g[k - 1], t[k])
    BY <1>1, <1>6
  <2>2. g = [k \in 0 .. top |-> g[k]]
    OBVIOUS
  <2> QED BY <2>1, <2>2
<1>8. F = [k \in 0 .. top |-> IF k = 0 THEN zero ELSE Then(F[k - 1], t[k])]
  BY <1>7, Zenon
<1> HIDE DEF F, G, V
<1>9. F[0] = zero /\ \A k \in 1 .. top : F[k] = Then(F[k - 1], t[k])
  <2>1. 0 \in 0 .. top /\ \A k \in 1 .. top : k \in 0 .. top /\ k # 0
    BY <1>1
  <2> QED BY <1>8, <2>1
<1> DEFINE Right(k) == F[k] = [bits |-> Pos(t)[k], ones |-> Placed(t, 0, k)]
           S == {k \in Nat : k \in 0 .. top => Right(k)}
<1>10. Nat \subseteq S
  <2>1. 0 \in S
    BY <1>9, PlacedNext, PosIs DEF zero
  <2>2. ASSUME NEW m \in Nat, m \in S PROVE m + 1 \in S
    <3> SUFFICES ASSUME m + 1 \in 0 .. top PROVE Right(m + 1)
      OBVIOUS
    <3>1. /\ m \in 0 .. top /\ m + 1 \in 1 .. top /\ (m + 1) - 1 = m /\ m \in 0 .. Len(t) - 1
          /\ m + 1 \in 1 .. Len(t) /\ m \in 0 .. Len(t)
      BY <1>1 DEF top
    <3>2. Right(m) /\ F[m + 1] = Then(F[m], t[m + 1])
      BY <1>9, <2>2, <3>1
    <3>3. /\ Pos(t)[m + 1] = Pos(t)[m] + t[m + 1].bits /\ Pos(t)[m] \in Nat
          /\ Placed(t, 0, m + 1) = Placed(t, 0, m) \cup {0 + Pos(t)[m] + j : j \in t[m + 1].ones}
      BY <3>1, PosIs, PlacedNext, ZenonT(60)
    <3>4. {0 + Pos(t)[m] + j : j \in t[m + 1].ones} = Shifted(t[m + 1].ones, Pos(t)[m])
      BY <3>3 DEF Shifted
    <3>5. F[m].bits = Pos(t)[m] /\ F[m].ones = Placed(t, 0, m)
      BY <3>2
    <3>6. Then(F[m], t[m + 1]) = [bits |-> Pos(t)[m + 1], ones |-> Placed(t, 0, m + 1)]
      BY <3>3, <3>4, <3>5 DEF Then
    <3> QED BY <3>2, <3>6
  <2> HIDE DEF S
  <2> QED BY <2>1, <2>2, Induction
<1>11. Right(top)
  BY <1>1, <1>10
<1> QED BY <1>2, <1>11, PosIs DEF top

(* Writes that are done after others begin where those end.                *)
LEMMA PosAppends ==
  ASSUME NEW s \in Seq(Write), NEW t \in Seq(Write)
  PROVE  /\ s \o t \in Seq(Write) /\ Len(s \o t) = Len(s) + Len(t)
         /\ \A k \in 0 .. Len(s) : Pos(s \o t)[k] = Pos(s)[k]
         /\ \A k \in 0 .. Len(t) : Pos(s \o t)[Len(s) + k] = Pos(s)[Len(s)] + Pos(t)[k]
<1> DEFINE u == s \o t
           a == Len(s)
           b == Len(t)
           S == {k \in Nat : k \in 0 .. a => Pos(u)[k] = Pos(s)[k]}
           R == {k \in Nat : k \in 0 .. b => Pos(u)[a + k] = Pos(s)[a] + Pos(t)[k]}
<1>1. /\ u \in Seq(Write) /\ Len(u) = a + b /\ a \in Nat /\ b \in Nat
      /\ \A k \in 1 .. a : u[k] = s[k]
      /\ \A k \in 1 .. b : u[a + k] = t[k]
  OBVIOUS
<1>2. /\ Pos(s) \in [0 .. a -> Nat] /\ Pos(s)[0] = 0
      /\ \A k \in 1 .. a : Pos(s)[k] = Pos(s)[k - 1] + s[k].bits
  BY PosIs
<1>3. /\ Pos(t) \in [0 .. b -> Nat] /\ Pos(t)[0] = 0
      /\ \A k \in 1 .. b : Pos(t)[k] = Pos(t)[k - 1] + t[k].bits
  BY PosIs
<1>4. /\ Pos(u)[0] = 0
      /\ \A k \in 1 .. a + b : Pos(u)[k] = Pos(u)[k - 1] + u[k].bits
  <2> HIDE DEF u
  <2> QED BY <1>1, PosIs
<1>5. /\ \A k \in 1 .. a : s[k].bits \in Nat
      /\ \A k \in 1 .. b : t[k].bits \in Nat
  <2>1. /\ \A k \in 1 .. a : s[k] \in Write
        /\ \A k \in 1 .. b : t[k] \in Write
    OBVIOUS
  <2> QED BY <2>1 DEF Write
<1> HIDE DEF u, a, b
<1>6. Nat \subseteq S
  <2>1. 0 \in S
    BY <1>2, <1>4
  <2>2. ASSUME NEW m \in Nat, m \in S PROVE m + 1 \in S
    <3>1. m + 1 \in 0 .. a => /\ m \in 0 .. a /\ m + 1 \in 1 .. a /\ m + 1 \in 1 .. a + b
                              /\ (m + 1) - 1 = m
      BY <1>1
    <3>2. m + 1 \in 0 .. a => /\ Pos(u)[m + 1] = Pos(u)[m] + s[m + 1].bits
                              /\ Pos(s)[m + 1] = Pos(s)[m] + s[m + 1].bits /\ Pos(u)[m] = Pos(s)[m]
      BY <1>1, <1>2, <1>4, <2>2, <3>1
    <3> QED BY <3>2
  <2> HIDE DEF S
  <2> QED BY <2>1, <2>2, Induction
<1>7. \A k \in 0 .. a : Pos(u)[k] = Pos(s)[k]
  BY <1>1, <1>6
<1>8. Nat \subseteq R
  <2>1. 0 \in R
    <3>1. a + 0 = a /\ a \in 0 .. a
      BY <1>1
    <3>2. Pos(s)[a] \in Nat /\ Pos(u)[a] = Pos(s)[a]
      BY <1>2, <1>7, <3>1
    <3> QED BY <1>3, <3>1, <3>2
  <2>2. ASSUME NEW m \in Nat, m \in R PROVE m + 1 \in R
    <3> SUFFICES ASSUME m + 1 \in 0 .. b PROVE Pos(u)[a + (m + 1)] = Pos(s)[a] + Pos(t)[m + 1]
      OBVIOUS
    <3>1. /\ m \in 0 .. b /\ m + 1 \in 1 .. b /\ a + (m + 1) \in 1 .. a + b /\ a \in 0 .. a
          /\ (m + 1) - 1 = m /\ (a + (m + 1)) - 1 = a + m
      BY <1>1
    <3>2. /\ Pos(u)[a + (m + 1)] = Pos(u)[a + m] + t[m + 1].bits
          /\ Pos(t)[m + 1] = Pos(t)[m] + t[m + 1].bits
          /\ Pos(u)[a + m] = Pos(s)[a] + Pos(t)[m]
          /\ Pos(t)[m] \in Nat /\ Pos(s)[a] \in Nat /\ t[m + 1].bits \in Nat
      <4>1. Pos(u)[a + (m + 1)] = Pos(u)[a + m] + u[a + (m + 1)].bits /\ u[a + (m + 1)] = t[m + 1]
        BY <1>1, <1>4, <3>1
      <4>2. Pos(t)[m + 1] = Pos(t)[m] + t[m + 1].bits /\ Pos(t)[m] \in Nat
        BY <1>3, <3>1
      <4> QED BY <1>2, <1>5, <2>2, <3>1, <4>1, <4>2
    <3> QED BY <3>2
  <2> HIDE DEF R
  <2> QED BY <2>1, <2>2, Induction
<1>9. \A k \in 0 .. b : Pos(u)[a + k] = Pos(s)[a] + Pos(t)[k]
  BY <1>1, <1>8
<1> QED BY <1>1, <1>7, <1>9 DEF u, a, b

LEMMA WriterAppends ==
  ASSUME NEW s \in Seq(Write), NEW t \in Seq(Write)
  PROVE  /\ token_bits(s \o t) = token_bits(s) + token_bits(t)
         /\ Placed(s \o t, 0, Len(s \o t))
              = Placed(s, 0, Len(s)) \cup Placed(t, token_bits(s), Len(t))
<1> DEFINE u == s \o t
           a == Len(s)
           b == Len(t)
<1>1. /\ u \in Seq(Write) /\ Len(u) = a + b /\ a \in Nat /\ b \in Nat
      /\ \A k \in 1 .. a : u[k] = s[k]
      /\ \A k \in 1 .. b : u[a + k] = t[k]
  OBVIOUS
<1>2. /\ \A k \in 0 .. a : Pos(u)[k] = Pos(s)[k]
      /\ \A k \in 0 .. b : Pos(u)[a + k] = Pos(s)[a] + Pos(t)[k]
  BY PosAppends
<1>3. /\ token_bits(s) = Pos(s)[a] /\ token_bits(t) = Pos(t)[b]
      /\ Pos(s)[a] \in Nat /\ \A k \in 0 .. b : Pos(t)[k] \in Nat
  <2>1. a \in 0 .. a
    BY <1>1
  <2> QED BY <2>1, PosIs
<1>4. token_bits(u) = Pos(u)[a + b]
  <2> HIDE DEF u
  <2> QED BY <1>1, PosIs
<1>5. \A n \in 1 .. b : t[n].ones \subseteq Nat
  <2>1. \A n \in 1 .. b : t[n] \in Write
    OBVIOUS
  <2> QED BY <2>1 DEF Write
<1> HIDE DEF u, a, b
<1>6. token_bits(u) = token_bits(s) + token_bits(t)
  <2>1. b \in 0 .. b
    BY <1>1
  <2> QED BY <1>2, <1>3, <1>4, <2>1
<1>7. ASSUME NEW p \in Placed(u, 0, a + b)
      PROVE  p \in Placed(s, 0, a) \cup Placed(t, token_bits(s), b)
  <2>1. PICK n \in 1 .. a + b : \E j \in u[n].ones : p = 0 + Pos(u)[n - 1] + j
    BY <1>7 DEF Placed
  <2>2. p \in Nat
    BY <1>7 DEF Placed
  <2>3. CASE n <= a
    <3>1. n \in 1 .. a /\ n - 1 \in 0 .. a
      BY <1>1, <2>3
    <3> QED BY <1>1, <1>2, <2>1, <2>2, <3>1, ZenonT(60) DEF Placed
  <2>4. CASE n > a
    <3> DEFINE m == n - a
    <3>1. m \in 1 .. b /\ m - 1 \in 0 .. b /\ a + m = n /\ a + (m - 1) = n - 1
      BY <1>1, <2>4
    <3> HIDE DEF m
    <3>2. u[n] = t[m] /\ Pos(u)[n - 1] = Pos(s)[a] + Pos(t)[m - 1]
      BY <1>1, <1>2, <3>1
    <3>3. PICK j \in t[m].ones : p = 0 + Pos(u)[n - 1] + j
      BY <2>1, <3>2
    <3>4. p = token_bits(s) + Pos(t)[m - 1] + j
      BY <1>3, <1>5, <3>1, <3>2, <3>3
    <3> QED BY <2>2, <3>1, <3>4 DEF Placed
  <2> QED BY <1>1, <2>3, <2>4
<1>8. ASSUME NEW p \in Placed(s, 0, a) PROVE p \in Placed(u, 0, a + b)
  <2>1. PICK n \in 1 .. a : \E j \in s[n].ones : p = 0 + Pos(s)[n - 1] + j
    BY <1>8 DEF Placed
  <2>2. p \in Nat /\ n \in 1 .. a + b /\ n - 1 \in 0 .. a
    BY <1>1, <1>8 DEF Placed
  <2> QED BY <1>1, <1>2, <2>1, <2>2 DEF Placed
<1>9. ASSUME NEW p \in Placed(t, token_bits(s), b) PROVE p \in Placed(u, 0, a + b)
  <2>1. PICK m \in 1 .. b : \E j \in t[m].ones : p = token_bits(s) + Pos(t)[m - 1] + j
    BY <1>9 DEF Placed
  <2>2. PICK j \in t[m].ones : p = token_bits(s) + Pos(t)[m - 1] + j
    BY <2>1
  <2>3. p \in Nat /\ a + m \in 1 .. a + b /\ m - 1 \in 0 .. b /\ (a + m) - 1 = a + (m - 1)
    BY <1>1, <1>9 DEF Placed
  <2>4. u[a + m] = t[m] /\ Pos(u)[(a + m) - 1] = Pos(s)[a] + Pos(t)[m - 1]
    BY <1>1, <1>2, <2>3
  <2>5. p = 0 + Pos(u)[(a + m) - 1] + j
    BY <1>3, <1>5, <2>2, <2>3, <2>4
  <2> QED BY <2>2, <2>3, <2>4, <2>5 DEF Placed
<1>10. Placed(u, 0, a + b) = Placed(s, 0, a) \cup Placed(t, token_bits(s), b)
  BY <1>7, <1>8, <1>9
<1> QED BY <1>1, <1>6, <1>10 DEF u, a, b

(* Writes that have no bit above those they count stay below their end.    *)
LEMMA PlacedFits ==
  ASSUME NEW t \in Seq(Write), \A k \in 1 .. Len(t) : Fits(t[k])
  PROVE  Placed(t, 0, Len(t)) \subseteq 0 .. token_bits(t) - 1
<1> DEFINE S == {m \in Nat : m \in 0 .. Len(t) => Placed(t, 0, m) \subseteq 0 .. Pos(t)[m] - 1}
<1>1. /\ Pos(t) \in [0 .. Len(t) -> Nat] /\ token_bits(t) = Pos(t)[Len(t)]
      /\ \A k \in 1 .. Len(t) : Pos(t)[k] = Pos(t)[k - 1] + t[k].bits
      /\ Len(t) \in Nat
  BY PosIs
<1>2. \A k \in 1 .. Len(t) : t[k].bits \in Nat /\ t[k].ones \subseteq 0 .. t[k].bits - 1
  <2>1. \A k \in 1 .. Len(t) : t[k] \in Write
    OBVIOUS
  <2> QED BY <2>1 DEF Write, Fits
<1>3. Nat \subseteq S
  <2>1. 0 \in S
    BY PlacedNext
  <2>2. ASSUME NEW m \in Nat, m \in S PROVE m + 1 \in S
    <3> SUFFICES ASSUME m + 1 \in 0 .. Len(t), NEW p \in Placed(t, 0, m + 1)
                 PROVE  p \in 0 .. Pos(t)[m + 1] - 1
      OBVIOUS
    <3>1. m \in 0 .. Len(t) /\ m \in 0 .. Len(t) - 1 /\ m + 1 \in 1 .. Len(t) /\ (m + 1) - 1 = m
      BY <1>1
    <3>2. /\ Placed(t, 0, m) \subseteq 0 .. Pos(t)[m] - 1
          /\ Pos(t)[m] \in Nat /\ Pos(t)[m + 1] = Pos(t)[m] + t[m + 1].bits
          /\ t[m + 1].bits \in Nat /\ t[m + 1].ones \subseteq 0 .. t[m + 1].bits - 1
      BY <1>1, <1>2, <2>2, <3>1
    <3>3. p \in Placed(t, 0, m) \/ \E j \in t[m + 1].ones : p = 0 + Pos(t)[m] + j
      <4>1. Placed(t, 0, m + 1) = Placed(t, 0, m) \cup {0 + Pos(t)[m] + j : j \in t[m + 1].ones}
        BY <3>1, PlacedNext
      <4> QED BY <4>1
    <3>4. CASE p \in Placed(t, 0, m)
      BY <3>2, <3>4
    <3>5. ASSUME NEW j \in t[m + 1].ones, p = 0 + Pos(t)[m] + j PROVE p \in 0 .. Pos(t)[m + 1] - 1
      <4>1. j \in 0 .. t[m + 1].bits - 1
        BY <3>2
      <4> QED BY <3>2, <3>5, <4>1
    <3> QED BY <3>3, <3>4, <3>5
  <2> HIDE DEF S
  <2> QED BY <2>1, <2>2, Induction
<1> QED BY <1>1, <1>3

(* What is assumed of the blocks. *)
LEMMA BlockTypes ==
  ASSUME NEW b \in Blocks
  PROVE  /\ b.header \in Write /\ Fits(b.header) /\ b.eob \in Write /\ Fits(b.eob)
         /\ b.tokens \in Seq(Seq(Write)) /\ Size(b) \in Nat \ {0} /\ Groups(Size(b)) <= WgSize
         /\ \A k \in 1 .. Size(b) :
              /\ b.tokens[k] \in Seq(Write) /\ token_bits(b.tokens[k]) \in Nat
              /\ \A m \in 1 .. Len(b.tokens[k]) : Fits(b.tokens[k][m])
<1>1. /\ b.header \in Write /\ Fits(b.header) /\ b.eob \in Write /\ Fits(b.eob)
      /\ b.tokens \in Seq(Seq(Write)) /\ Size(b) # 0 /\ Groups(Size(b)) <= WgSize
      /\ \A k \in 1 .. Size(b) : \A m \in 1 .. Len(b.tokens[k]) : Fits(b.tokens[k][m])
  BY BlocksAssumption
<1>2. Size(b) \in Nat \ {0} /\ \A k \in 1 .. Size(b) : b.tokens[k] \in Seq(Write)
  BY <1>1 DEF Size
<1>3. \A t \in Seq(Write) : token_bits(t) \in Nat
  <2> SUFFICES ASSUME NEW t \in Seq(Write) PROVE token_bits(t) \in Nat
    OBVIOUS
  <2>1. Len(t) \in 0 .. Len(t)
    OBVIOUS
  <2> QED BY <2>1, PosIs
<1> QED BY <1>1, <1>2, <1>3
(* The writes of invocation k: those of a token, or the end of the block.  *)
Todo(b, k) == IF k < Size(b) THEN b.tokens[k + 1] ELSE <<b.eob>>

(* Where the host's sum puts a token of a block.                           *)
IsSumOf(S, b) ==
  /\ S \in [0 .. Size(b) -> Int] /\ S[0] = 0
  /\ \A k \in 1 .. Size(b) : S[k] = S[k - 1] + token_bits(b.tokens[k])

TodoPlaced(b, S, k) == Placed(Todo(b, k), b.header.bits + S[k], Len(Todo(b, k)))

(* What one writer has written after the header and k tokens.              *)
WrittenUpto(b, S, k, w) ==
  /\ w \in Seq(Write) /\ \A m \in 1 .. Len(w) : Fits(w[m])
  /\ token_bits(w) = b.header.bits + S[k]
  /\ Placed(w, 0, Len(w)) = b.header.ones \cup UNION {TodoPlaced(b, S, i) : i \in 0 .. k - 1}

LEMMA UptoStep ==
  ASSUME NEW b \in Blocks, NEW S, IsSumOf(S, b), NEW k \in 0 .. Size(b) - 1,
         NEW w, WrittenUpto(b, S, k, w)
  PROVE  WrittenUpto(b, S, k + 1, w \o b.tokens[k + 1])
<1> DEFINE t == b.tokens[k + 1]
           u == w \o t
<1>1. /\ k \in Nat /\ k + 1 \in 1 .. Size(b) /\ (k + 1) - 1 = k /\ k < Size(b) /\ k \in 0 .. Size(b)
      /\ Size(b) \in Nat
  BY BlockTypes
<1>2. /\ t \in Seq(Write) /\ \A m \in 1 .. Len(t) : Fits(t[m])
      /\ token_bits(t) \in Nat /\ b.header.bits \in Nat
  BY <1>1, BlockTypes DEF Write
<1>3. /\ w \in Seq(Write) /\ \A m \in 1 .. Len(w) : Fits(w[m])
      /\ token_bits(w) = b.header.bits + S[k]
      /\ Placed(w, 0, Len(w)) = b.header.ones \cup UNION {TodoPlaced(b, S, i) : i \in 0 .. k - 1}
  BY DEF WrittenUpto
<1>4. S[k] \in Int /\ S[k + 1] = S[k] + token_bits(t)
  BY <1>1 DEF IsSumOf
<1> HIDE DEF t
<1>5. u \in Seq(Write) /\ \A m \in 1 .. Len(u) : Fits(u[m])
  <2>1. u \in Seq(Write) /\ Len(u) = Len(w) + Len(t)
    BY <1>2, <1>3
  <2>2. ASSUME NEW m \in 1 .. Len(u) PROVE Fits(u[m])
    <3>1. CASE m <= Len(w)
      BY <1>2, <1>3, <2>1, <3>1
    <3>2. CASE m > Len(w)
      <4>1. m - Len(w) \in 1 .. Len(t) /\ u[m] = t[m - Len(w)]
        BY <1>2, <1>3, <2>1, <3>2
      <4> QED BY <1>2, <4>1
    <3> QED BY <1>3, <2>1, <3>1, <3>2
  <2> QED BY <2>1, <2>2
<1>6. token_bits(u) = b.header.bits + S[k + 1]
  <2>1. token_bits(u) = token_bits(w) + token_bits(t)
    BY <1>2, <1>3, WriterAppends
  <2> QED BY <1>2, <1>3, <1>4, <2>1
<1>7. Placed(u, 0, Len(u)) = b.header.ones \cup UNION {TodoPlaced(b, S, i) : i \in 0 .. (k + 1) - 1}
  <2>1. Placed(u, 0, Len(u)) = Placed(w, 0, Len(w)) \cup Placed(t, token_bits(w), Len(t))
    BY <1>2, <1>3, WriterAppends
  <2>2. Placed(t, token_bits(w), Len(t)) = TodoPlaced(b, S, k)
    BY <1>1, <1>3 DEF TodoPlaced, Todo, t
  <2>3. 0 .. (k + 1) - 1 = (0 .. k - 1) \cup {k}
    BY <1>1
  <2> HIDE DEF u
  <2> QED BY <1>3, <2>1, <2>2, <2>3
<1> QED BY <1>5, <1>6, <1>7 DEF WrittenUpto, t

LEMMA WritesAre ==
  ASSUME NEW b \in Blocks, NEW S, IsSumOf(S, b)
  PROVE  \E w : WrittenUpto(b, S, Size(b), w) /\ Writes(b) = Append(w, b.eob)
<1> DEFINE top == Size(b)
           V == Seq(Write)
           F == CHOOSE f : f = [k \in 0 .. top |-> IF k = 0 THEN <<b.header>> ELSE f[k - 1] \o b.tokens[k]]
           G == [k \in Nat |-> [v \in V |-> IF k \in 1 .. top THEN v \o b.tokens[k] ELSE v]]
<1>1. /\ top \in Nat /\ <<b.header>> \in V
      /\ \A k \in 1 .. top : b.tokens[k] \in V
  BY BlockTypes
<1>2. Writes(b) = Append(F[top], b.eob)
  BY DEF Writes, Size
<1> HIDE DEF top
<1>3. G \in [Nat -> [V -> V]]
  BY <1>1
<1>4. PICK g \in [0 .. top -> V] : Iterates(g, <<b.header>>, G, top)
  <2> HIDE DEF G, V
  <2> QED BY <1>1, <1>3, Recursion
<1>5. g[0] = <<b.header>> /\ \A k \in 1 .. top : g[k] = g[k - 1] \o b.tokens[k]
  <2> HIDE DEF V
  <2>1. \A k \in 1 .. top : k \in Nat /\ k - 1 \in 0 .. top
    BY <1>1
  <2>2. \A k \in 1 .. top : g[k - 1] \in V /\ g[k] = G[k][g[k - 1]]
    BY <1>4, <2>1 DEF Iterates
  <2> QED BY <1>4, <2>1, <2>2 DEF Iterates
<1>6. g = [k \in 0 .. top |-> IF k = 0 THEN <<b.header>> ELSE g[k - 1] \o b.tokens[k]]
  <2> HIDE DEF V
  <2>1. \A k \in 0 .. top : g[k] = IF k = 0 THEN <<b.header>> ELSE g[k - 1] \o b.tokens[k]
    <3>1. \A k \in 0 .. top : k # 0 => k \in 1 .. top
      BY <1>1
    <3> QED BY <1>5, <3>1
  <2>2. g = [k \in 0 .. top |-> g[k]]
    OBVIOUS
  <2> QED BY <2>1, <2>2
<1>7. F = [k \in 0 .. top |-> IF k = 0 THEN <<b.header>> ELSE F[k - 1] \o b.tokens[k]]
  BY <1>6, Zenon
<1> HIDE DEF F, G, V
<1>8. F[0] = <<b.header>> /\ \A k \in 1 .. top : F[k] = F[k - 1] \o b.tokens[k]
  <2>1. 0 \in 0 .. top /\ \A k \in 1 .. top : k \in 0 .. top /\ k # 0
    BY <1>1
  <2> QED BY <1>7, <2>1
<1> DEFINE R == {k \in Nat : k \in 0 .. top => WrittenUpto(b, S, k, F[k])}
<1>9. WrittenUpto(b, S, 0, <<b.header>>)
  <2> DEFINE h == <<b.header>>
  <2>1. /\ b.header \in Write /\ Fits(b.header) /\ b.header.bits \in Nat /\ b.header.ones \subseteq Nat
        /\ S[0] = 0
    BY BlockTypes DEF IsSumOf, Write
  <2>2. h \in Seq(Write) /\ Len(h) = 1 /\ h[1] = b.header /\ \A m \in 1 .. Len(h) : Fits(h[m])
    BY <2>1
  <2> HIDE DEF h
  <2>3. Pos(h)[0] = 0 /\ Pos(h)[1] = Pos(h)[1 - 1] + b.header.bits /\ token_bits(h) = Pos(h)[1]
    BY <2>2, PosIs
  <2>4. token_bits(h) = b.header.bits + S[0]
    BY <2>1, <2>3
  <2>5. Placed(h, 0, 1) = b.header.ones
    <3>1. Placed(h, 0, 0) = {} /\ 0 \in 0 .. Len(h) - 1
      BY <2>2, PlacedNext
    <3>2. Placed(h, 0, 0 + 1) = Placed(h, 0, 0) \cup {0 + Pos(h)[0] + j : j \in h[0 + 1].ones}
      BY <2>2, <3>1, PlacedNext
    <3>3. {0 + 0 + j : j \in b.header.ones} = b.header.ones
      BY <2>1
    <3>4. 0 + 1 = 1
      OBVIOUS
    <3> QED BY <2>2, <2>3, <3>1, <3>2, <3>3, <3>4
  <2>6. UNION {TodoPlaced(b, S, i) : i \in 0 .. 0 - 1} = {}
    OBVIOUS
  <2>7. WrittenUpto(b, S, 0, h)
    BY <2>2, <2>4, <2>5, <2>6 DEF WrittenUpto
  <2> QED BY <2>7 DEF h
<1>10. Nat \subseteq R
  <2>1. 0 \in R
    BY <1>8, <1>9
  <2>2. ASSUME NEW m \in Nat, m \in R PROVE m + 1 \in R
    <3> SUFFICES ASSUME m + 1 \in 0 .. top PROVE WrittenUpto(b, S, m + 1, F[m + 1])
      OBVIOUS
    <3>1. /\ m \in 0 .. top /\ m \in 0 .. Size(b) - 1 /\ m + 1 \in 1 .. top /\ (m + 1) - 1 = m
      BY <1>1 DEF top
    <3>2. WrittenUpto(b, S, m, F[m]) /\ F[m + 1] = F[m] \o b.tokens[m + 1]
      BY <1>8, <2>2, <3>1
    <3> QED BY <3>1, <3>2, UptoStep
  <2> HIDE DEF R
  <2> QED BY <2>1, <2>2, Induction
<1>11. WrittenUpto(b, S, top, F[top])
  BY <1>1, <1>10
<1> QED BY <1>2, <1>11 DEF top

(* The reference of the last property: the header, and the bits that every *)
(* invocation has to set, all below the number of bits counted.            *)
LEMMA SequentialIs ==
  ASSUME NEW b \in Blocks, NEW S, IsSumOf(S, b)
  PROVE  /\ Sequential(b).bits = b.header.bits + S[Size(b)] + b.eob.bits
         /\ Sequential(b).bits \in Nat
         /\ Sequential(b).ones = b.header.ones \cup UNION {TodoPlaced(b, S, k) : k \in 0 .. Size(b)}
         /\ Sequential(b).ones \subseteq 0 .. Sequential(b).bits - 1
<1>1. PICK w : WrittenUpto(b, S, Size(b), w) /\ Writes(b) = Append(w, b.eob)
  BY WritesAre
<1> DEFINE t == <<b.eob>>
           u == w \o t
           n == Size(b)
<1>2. /\ w \in Seq(Write) /\ \A m \in 1 .. Len(w) : Fits(w[m])
      /\ token_bits(w) = b.header.bits + S[n]
      /\ Placed(w, 0, Len(w)) = b.header.ones \cup UNION {TodoPlaced(b, S, i) : i \in 0 .. n - 1}
  BY <1>1 DEF WrittenUpto
<1>3. n \in Nat /\ b.eob \in Write /\ Fits(b.eob) /\ b.eob.bits \in Nat
  BY BlockTypes DEF Write
<1>4. /\ u = Writes(b) /\ u \in Seq(Write) /\ \A m \in 1 .. Len(u) : Fits(u[m])
      /\ t \in Seq(Write) /\ Len(t) = 1 /\ t[1] = b.eob
  BY <1>1, <1>2, <1>3
<1>5. token_bits(t) = b.eob.bits
  <2> HIDE DEF t
  <2>1. t \in Seq(Write) /\ Len(t) = 1 /\ t[1] = b.eob /\ 1 \in 1 .. Len(t)
    BY <1>4
  <2>2. token_bits(t) = Pos(t)[Len(t)] /\ Pos(t)[1] = Pos(t)[1 - 1] + t[1].bits /\ Pos(t)[0] = 0
    BY <2>1, PosIs
  <2> QED BY <1>3, <2>1, <2>2
<1>6. TodoPlaced(b, S, n) = Placed(t, token_bits(w), Len(t))
  BY <1>2, <1>3 DEF TodoPlaced, Todo
<1> HIDE DEF t, u, n
<1>7. /\ token_bits(u) = token_bits(w) + b.eob.bits
      /\ Placed(u, 0, Len(u)) = Placed(w, 0, Len(w)) \cup TodoPlaced(b, S, n)
  BY <1>2, <1>4, <1>5, <1>6, WriterAppends DEF u
<1>8. Sequential(b) = [bits |-> token_bits(u), ones |-> Placed(u, 0, Len(u))]
  BY <1>4, OneWriterIs DEF Sequential
<1>9. token_bits(u) \in Nat
  <2>1. Len(u) \in 0 .. Len(u)
    BY <1>4
  <2> QED BY <1>4, <2>1, PosIs
<1>10. Placed(u, 0, Len(u)) \subseteq 0 .. token_bits(u) - 1
  BY <1>4, PlacedFits
<1>11. 0 .. n = (0 .. n - 1) \cup {n}
  BY <1>3
<1>12. Placed(u, 0, Len(u)) = b.header.ones \cup UNION {TodoPlaced(b, S, k) : k \in 0 .. n}
  BY <1>2, <1>7, <1>11
<1> QED BY <1>2, <1>7, <1>8, <1>9, <1>10, <1>12 DEF n
-----------------------------------------------------------------------------
LEMMA WindowGrows ==
  ASSUME NEW pre \in [0 .. WgSize -> Int], NEW n \in Nat \ {0}, NEW l \in Lanes
  PROVE  Window(pre, l, n * 2) = Window(pre, l, n) + (IF l >= n THEN Window(pre, l - n, n) ELSE 0)
<1>1. WgSize \in Nat \ {0} /\ l \in 0 .. WgSize - 1
  BY WgSizeAssumption DEF Lanes
<1>2. CASE l + 1 >= n * 2
  BY <1>1, <1>2 DEF Window
<1>3. CASE l + 1 < n * 2 /\ l >= n
  BY <1>1, <1>3 DEF Window
<1>4. CASE l < n
  BY <1>1, <1>4 DEF Window
<1> QED BY <1>1, <1>2, <1>3, <1>4

LEMMA StartedInv ==
  ASSUME NEW input \in [Lanes -> Int], NEW pre, IsPrefixSum(pre, input)
  PROVE  GroupInv(Started(input), pre) /\ Started(input).seg # "out"
  BY DEF Started, GroupInv, GroupTypeOK, Holds

LEMMA StoreInv ==
  ASSUME NEW s, NEW pre, GroupInv(s, pre), NEW l \in Lanes, MayRun(s, l, "store")
  PROVE  GroupInv(Store(s, l), pre)
  BY DEF GroupInv, GroupTypeOK, Holds, MayRun, Store, Arrive

LEMMA ReadInv ==
  ASSUME NEW s, NEW pre, GroupInv(s, pre), NEW l \in Lanes, MayRun(s, l, "read")
  PROVE  GroupInv(ReadAddend(s, l), pre)
<1> DEFINE t == ReadAddend(s, l)
<1>1. WgSize \in Nat \ {0} /\ Lanes = 0 .. WgSize - 1
  BY WgSizeAssumption DEF Lanes
<1>2. GroupTypeOK(s) /\ IsPrefixSum(pre, s.input) /\ s.seg = "read" /\ l \notin s.arrived
      /\ \A k \in Lanes : Holds(s, pre, k)
  BY DEF GroupInv, MayRun
<1>3. /\ t.input = s.input /\ t.seg = "read" /\ t.step = s.step /\ t.shared = s.shared
      /\ t.arrived = s.arrived \cup {l}
      /\ t.addend = [s.addend EXCEPT ![l] = IF l >= s.step THEN s.shared[l - s.step] ELSE 0]
  BY <1>2 DEF ReadAddend, Arrive, GroupTypeOK
<1>4. l >= s.step => l - s.step \in Lanes /\ s.shared[l - s.step] = Window(pre, l - s.step, s.step)
  <2>1. s.step \in Nat \ {0} /\ \A k \in Lanes : s.shared[k] = Window(pre, k, s.step)
    BY <1>2 DEF Holds, GroupTypeOK
  <2>2. l >= s.step => l - s.step \in Lanes
    BY <1>1, <2>1
  <2> QED BY <2>1, <2>2
<1>5. GroupTypeOK(t)
  <2>1. PICK v \in Int : v = IF l >= s.step THEN s.shared[l - s.step] ELSE 0
    BY <1>1, <1>2, <1>4 DEF GroupTypeOK
  <2>2. [s.addend EXCEPT ![l] = v] \in [Lanes -> Int] /\ s.arrived \cup {l} \in SUBSET Lanes
    BY <1>2, <2>1 DEF GroupTypeOK
  <2>3. t = [s EXCEPT !.addend = [s.addend EXCEPT ![l] = v], !.arrived = s.arrived \cup {l}]
    BY <2>1 DEF ReadAddend, Arrive
  <2> HIDE DEF t
  <2> QED BY <1>2, <2>2, <2>3 DEF GroupTypeOK
<1>6. ASSUME NEW k \in Lanes PROVE Holds(t, pre, k)
  <2>1. Holds(s, pre, k) /\ s.addend \in [Lanes -> Int]
    BY <1>2 DEF GroupTypeOK
  <2>2. CASE k = l
    BY <1>2, <1>3, <1>4, <2>1, <2>2 DEF Holds, Addend
  <2>3. CASE k # l
    BY <1>2, <1>3, <2>1, <2>3 DEF Holds, Addend
  <2> QED BY <2>2, <2>3
<1> QED BY <1>2, <1>3, <1>5, <1>6 DEF GroupInv

LEMMA AddInv ==
  ASSUME NEW s, NEW pre, GroupInv(s, pre), NEW l \in Lanes, MayRun(s, l, "add")
  PROVE  GroupInv(AddAddend(s, l), pre)
<1> DEFINE t == AddAddend(s, l)
<1>1. WgSize \in Nat \ {0} /\ Lanes = 0 .. WgSize - 1
  BY WgSizeAssumption DEF Lanes
<1>2. GroupTypeOK(s) /\ IsPrefixSum(pre, s.input) /\ s.seg = "add" /\ l \notin s.arrived
      /\ \A k \in Lanes : Holds(s, pre, k)
  BY DEF GroupInv, MayRun
<1>3. /\ t.input = s.input /\ t.seg = "add" /\ t.step = s.step /\ t.addend = s.addend
      /\ t.arrived = s.arrived \cup {l}
      /\ t.shared = [s.shared EXCEPT ![l] = s.shared[l] + s.addend[l]]
  BY <1>2 DEF AddAddend, Arrive, GroupTypeOK
<1>4. s.shared[l] + s.addend[l] = Window(pre, l, s.step * 2)
  <2>1. s.step \in Nat \ {0} /\ pre \in [0 .. WgSize -> Int]
    BY <1>2 DEF GroupTypeOK, IsPrefixSum
  <2>2. s.shared[l] = Window(pre, l, s.step) /\ s.addend[l] = Addend(s, pre, l)
    BY <1>2 DEF Holds
  <2> QED BY <2>1, <2>2, WindowGrows DEF Addend
<1>5. GroupTypeOK(t)
  <2>1. PICK v \in Int : v = s.shared[l] + s.addend[l]
    BY <1>2 DEF GroupTypeOK
  <2>2. [s.shared EXCEPT ![l] = v] \in [Lanes -> Int] /\ s.arrived \cup {l} \in SUBSET Lanes
    BY <1>2, <2>1 DEF GroupTypeOK
  <2>3. t = [s EXCEPT !.shared = [s.shared EXCEPT ![l] = v], !.arrived = s.arrived \cup {l}]
    BY <2>1 DEF AddAddend, Arrive
  <2> HIDE DEF t
  <2> QED BY <1>2, <2>2, <2>3 DEF GroupTypeOK
<1>6. ASSUME NEW k \in Lanes PROVE Holds(t, pre, k)
  <2>1. Holds(s, pre, k) /\ s.shared \in [Lanes -> Int]
    BY <1>2 DEF GroupTypeOK
  <2>2. CASE k = l
    BY <1>2, <1>3, <1>4, <2>1, <2>2 DEF Holds, Addend
  <2>3. CASE k # l
    BY <1>2, <1>3, <2>1, <2>3 DEF Holds, Addend
  <2> QED BY <2>2, <2>3
<1> QED BY <1>2, <1>3, <1>5, <1>6 DEF GroupInv

LEMMA BarrierInv ==
  ASSUME NEW s, NEW pre, GroupInv(s, pre), AtBarrier(s)
  PROVE  GroupInv(PassBarrier(s), pre) /\ PassBarrier(s).arrived = {}
<1> DEFINE t == PassBarrier(s)
<1>1. WgSize \in Nat \ {0} /\ Lanes = 0 .. WgSize - 1
  BY WgSizeAssumption DEF Lanes
<1>2. GroupTypeOK(s) /\ IsPrefixSum(pre, s.input) /\ s.seg \in {"store", "read", "add"}
      /\ s.arrived = Lanes /\ (s.seg = "store" => s.step = 1)
      /\ \A k \in Lanes : Holds(s, pre, k)
  BY DEF GroupInv, AtBarrier
<1>3. /\ t.input = s.input /\ t.shared = s.shared /\ t.addend = s.addend /\ t.arrived = {}
      /\ t.seg = SegmentAfter(s) /\ t.step = StepAfter(s)
  BY <1>2 DEF PassBarrier, GroupTypeOK
<1>4. StepAfter(s) \in Nat \ {0}
  BY <1>2 DEF StepAfter, GroupTypeOK
<1>5. GroupTypeOK(t)
  BY <1>2, <1>4 DEF PassBarrier, GroupTypeOK, SegmentAfter
<1>6. ASSUME NEW k \in Lanes PROVE Holds(t, pre, k)
  <2>1. Holds(s, pre, k) /\ s.shared \in [Lanes -> Int] /\ s.input \in [Lanes -> Int] /\ s.step \in Nat \ {0}
    BY <1>2 DEF GroupTypeOK
  <2>2. CASE s.seg = "store"
    <3>0. s.shared[k] = s.input[k] /\ pre[k + 1] = pre[k] + s.input[k] /\ k \in 0 .. WgSize - 1
      BY <1>1, <1>2, <2>2 DEF Holds, IsPrefixSum
    <3>1. s.shared[k] = Window(pre, k, 1)
      <4>1. Window(pre, k, 1) = pre[k + 1] - pre[k]
        BY <1>1, <3>0 DEF Window
      <4>2. pre[k] \in Int /\ s.input[k] \in Int
        BY <1>1, <1>2, <2>1, <3>0 DEF IsPrefixSum
      <4> QED BY <3>0, <4>1, <4>2
    <3>2. t.seg \in {"out", "read"} /\ t.step = s.step /\ t.arrived = {}
      BY <1>2, <1>3, <2>2 DEF SegmentAfter, StepAfter
    <3>3. t.shared[k] = Window(pre, k, t.step)
      BY <1>2, <1>3, <2>2, <3>1, <3>2 DEF GroupTypeOK
    <3> QED BY <3>2, <3>3 DEF Holds
  <2>3. CASE s.seg = "read"
    BY <1>2, <1>3, <2>1, <2>3 DEF Holds, SegmentAfter, StepAfter, Addend
  <2>4. CASE s.seg = "add"
    BY <1>2, <1>3, <2>1, <2>4 DEF Holds, SegmentAfter, StepAfter
  <2> QED BY <1>2, <2>2, <2>3, <2>4
<1>7. (t.seg = "store" => t.step = 1) /\ (t.seg = "out" => t.step >= WgSize)
  BY <1>1, <1>2, <1>3, <1>4 DEF SegmentAfter
<1> QED BY <1>2, <1>3, <1>5, <1>6, <1>7 DEF GroupInv

LEMMA LeaveInv ==
  ASSUME NEW s, NEW pre, GroupInv(s, pre), NEW l \in Lanes, MayRun(s, l, "out")
  PROVE  GroupInv(Leave(s, l), pre) /\ Inclusive(s, l) = pre[l + 1] /\ Exclusive(s, l) = pre[l]
<1>1. WgSize \in Nat \ {0} /\ Lanes = 0 .. WgSize - 1
  BY WgSizeAssumption DEF Lanes
<1>2. GroupTypeOK(s) /\ IsPrefixSum(pre, s.input) /\ s.seg = "out" /\ s.step >= WgSize
      /\ \A k \in Lanes : Holds(s, pre, k)
  BY DEF GroupInv, MayRun
<1>3. GroupInv(Leave(s, l), pre)
  BY <1>2 DEF GroupInv, GroupTypeOK, Holds, Leave, Arrive
<1>4. s.shared[l] = pre[l + 1]
  <2>1. s.step \in Nat \ {0} /\ pre \in [0 .. WgSize -> Int] /\ pre[0] = 0
    BY <1>2 DEF GroupTypeOK, IsPrefixSum
  <2>2. s.shared[l] = Window(pre, l, s.step)
    BY <1>2 DEF Holds
  <2> QED BY <1>1, <1>2, <2>1, <2>2 DEF Window
<1>5. pre[l + 1] = pre[l] + s.input[l] /\ pre[l] \in Int /\ s.input[l] \in Int
  BY <1>1, <1>2 DEF IsPrefixSum, GroupTypeOK
<1> QED BY <1>3, <1>4, <1>5 DEF Inclusive, Exclusive
-----------------------------------------------------------------------------
(* The whole dispatch.  P(k) is the host's sum over the first k tokens, or *)
(* over all of them.                                                       *)
P(k) == sums[Lesser(k, N) + 1]

GroupPrefix(g) == [k \in 0 .. WgSize |-> P(Global(g, k)) - P(Global(g, 0))]
TotalPrefix == [k \in 0 .. WgSize |-> P(Global(k, 0))]

BlockOK ==
  /\ blocks \in Seq(Blocks)
  /\ pass \in {"idle", "count", "scan", "totals", "emit"}
  /\ pass # "idle" => blocks # <<>>

CountOK ==
  pass # "idle" =>
    /\ sums \in Seq(Int) /\ Len(sums) \in 1 .. N + 1 /\ sums[1] = 0
    /\ \A k \in 1 .. Len(sums) - 1 : sums[k + 1] = sums[k] + token_bits(Block.tokens[k])
    /\ pass # "count" => Len(sums) = N + 1

OffsetDone(g, l) ==
  /\ Global(g, l) < N =>
       /\ Global(g, l) \in DOMAIN per_token_offset
       /\ per_token_offset[Global(g, l)] = P(Global(g, l)) - P(Global(g, 0))
  /\ l = WgSize - 1 =>
       /\ g \in DOMAIN workgroup_totals
       /\ workgroup_totals[g] = P(Global(g, WgSize)) - P(Global(g, 0))

BaseDone(g) == g \in DOMAIN workgroup_bases /\ workgroup_bases[g] = P(Global(g, 0))

ScanOK ==
  pass = "scan" =>
    /\ DOMAIN groups = 0 .. Groups(N) - 1
    /\ \A g \in 0 .. Groups(N) - 1 :
         /\ GroupInv(groups[g], GroupPrefix(g))
         /\ groups[g].seg = "out" => \A l \in groups[g].arrived : OffsetDone(g, l)

TotalsOK ==
  pass = "totals" =>
    /\ \A g \in 0 .. Groups(N) - 1, l \in Lanes : OffsetDone(g, l)
    /\ DOMAIN groups = {0}
    /\ GroupInv(groups[0], TotalPrefix)
    /\ groups[0].seg = "out" => \A l \in groups[0].arrived : l < Groups(N) => BaseDone(l)

EmitOK ==
  pass = "emit" =>
    \A g \in 0 .. Groups(N) - 1 : BaseDone(g) /\ \A l \in Lanes : OffsetDone(g, l)

HInv == BlockOK /\ CountOK /\ ScanOK /\ TotalsOK /\ EmitOK
-----------------------------------------------------------------------------
(* Workgroups tile the tokens: none is wholly past the end, the last token *)
(* is in the last, and a token belongs to one.                             *)
LEMMA CeilingBounds ==
  ASSUME NEW n \in Nat \ {0}
  PROVE  /\ Groups(n) \in Nat \ {0}
         /\ Groups(n) * WgSize >= n
         /\ (Groups(n) - 1) * WgSize < n
<1>1. WgSize \in Nat \ {0}
  BY WgSizeAssumption
<1> DEFINE q == (n + WgSize - 1) \div WgSize
           m == (n + WgSize - 1) % WgSize
<1>2. n + WgSize - 1 = WgSize * q + m /\ m \in 0 .. WgSize - 1 /\ q \in Int
  BY <1>1
<1>3. Groups(n) = q
  BY DEF Groups, Ceiling
<1> HIDE DEF q, m
<1>4. q > 0
  <2>1. WgSize * q > 0
    BY <1>1, <1>2
  <2> QED BY <1>1, <1>2, <2>1
<1>5. (q - 1) * WgSize = WgSize * q - WgSize /\ q * WgSize = WgSize * q
  BY <1>1, <1>2
<1> QED BY <1>1, <1>2, <1>3, <1>4, <1>5

LEMMA GlobalFacts ==
  ASSUME NEW g \in Nat, NEW l \in 0 .. WgSize
  PROVE  /\ Global(g, l) \in Nat
         /\ Global(g, l) = Global(g, 0) + l
         /\ Global(g + 1, 0) = Global(g, WgSize)
<1>1. WgSize \in Nat \ {0} /\ g * WgSize \in Nat /\ (g + 1) * WgSize = g * WgSize + WgSize
  BY WgSizeAssumption
<1> QED BY <1>1 DEF Global

LEMMA GlobalInjective ==
  ASSUME NEW g \in Nat, NEW l \in Lanes, NEW h \in Nat, NEW k \in Lanes,
         Global(g, l) = Global(h, k)
  PROVE  g = h /\ l = k
<1>1. WgSize \in Nat \ {0} /\ l \in 0 .. WgSize - 1 /\ k \in 0 .. WgSize - 1
      /\ g * WgSize + l = h * WgSize + k
  BY WgSizeAssumption DEF Lanes, Global
<1>2. ASSUME NEW a \in Nat, NEW b \in Nat, a < b PROVE a * WgSize + WgSize <= b * WgSize
  <2>1. PICK d \in Nat : b = a + 1 + d
    <3>1. b - a - 1 \in Nat /\ b = a + 1 + (b - a - 1)
      BY <1>2
    <3> QED BY <3>1
  <2>2. b * WgSize = a * WgSize + WgSize + d * WgSize /\ d * WgSize >= 0
    BY <1>1, <2>1
  <2> QED BY <1>1, <2>2
<1>3. ~ g < h
  BY <1>1, <1>2
<1>4. ~ h < g
  BY <1>1, <1>2
<1> QED BY <1>1, <1>3, <1>4

(* What the assumptions on the blocks say of the one in work.              *)
LEMMA BlockFacts ==
  ASSUME BlockOK, pass # "idle"
  PROVE  /\ N \in Nat \ {0} /\ Groups(N) \in 1 .. WgSize
         /\ Groups(N) * WgSize >= N
         /\ Block.header.bits \in Nat
         /\ \A k \in 1 .. N : token_bits(Block.tokens[k]) \in Nat
<1>1. Block \in Blocks
  BY DEF BlockOK, Block
<1>2. /\ N \in Nat \ {0} /\ Groups(N) <= WgSize /\ Block.header.bits \in Nat
      /\ \A k \in 1 .. N : token_bits(Block.tokens[k]) \in Nat
  BY <1>1, BlockTypes DEF N, Write
<1> QED BY <1>2, CeilingBounds, WgSizeAssumption

(* One token further, the sum grows by that token's bits.                  *)
LEMMA SumGrows ==
  ASSUME BlockOK, CountOK, pass # "idle", Len(sums) = N + 1, NEW k \in Nat
  PROVE  /\ P(k) \in Int /\ P(0) = 0
         /\ P(k + 1) = P(k) + (IF k < N THEN token_bits(Block.tokens[k + 1]) ELSE 0)
<1>1. /\ N \in Nat \ {0} /\ sums \in Seq(Int) /\ sums[1] = 0
      /\ \A j \in 1 .. N : sums[j + 1] = sums[j] + token_bits(Block.tokens[j])
  BY BlockFacts DEF CountOK
<1>2. CASE k < N
  BY <1>1, <1>2 DEF P, Lesser
<1>3. CASE k >= N
  BY <1>1, <1>3 DEF P, Lesser
<1> QED BY <1>2, <1>3, <1>1

LEMMA GroupPrefixSums ==
  ASSUME BlockOK, CountOK, pass # "idle", Len(sums) = N + 1, NEW g \in Nat
  PROVE  IsPrefixSum(GroupPrefix(g), [l \in Lanes |-> Input(Global(g, l))])
<1>1. WgSize \in Nat \ {0} /\ Lanes = 0 .. WgSize - 1 /\ N \in Nat \ {0}
  BY WgSizeAssumption, BlockFacts DEF Lanes
<1>2. ASSUME NEW k \in 0 .. WgSize PROVE P(Global(g, k)) \in Int
  BY <1>2, GlobalFacts, SumGrows
<1>3. 0 \in 0 .. WgSize
  BY <1>1
<1>4. GroupPrefix(g) \in [0 .. WgSize -> Int] /\ GroupPrefix(g)[0] = 0
  BY <1>2, <1>3 DEF GroupPrefix
<1>5. ASSUME NEW l \in Lanes
      PROVE  GroupPrefix(g)[l + 1] = GroupPrefix(g)[l] + Input(Global(g, l))
  <2>1. l \in 0 .. WgSize /\ l + 1 \in 0 .. WgSize
    BY <1>1
  <2>2. Global(g, l) \in Nat /\ Global(g, l + 1) = Global(g, l) + 1
    <3>0. l \in Nat
      BY <1>1
    <3>1. Global(g, 0) \in Nat
      BY <1>3, GlobalFacts
    <3>2. Global(g, l) = Global(g, 0) + l /\ Global(g, l + 1) = Global(g, 0) + (l + 1)
      BY <2>1, GlobalFacts
    <3> QED BY <3>0, <3>1, <3>2
  <2>3. P(Global(g, l) + 1) = P(Global(g, l)) + Input(Global(g, l))
    <3>1. CASE Global(g, l) < N
      <4>1. Uploaded[Global(g, l)] = Block.tokens[Global(g, l) + 1]
        BY <1>1, <2>2, <3>1 DEF Uploaded
      <4> QED BY <2>2, <3>1, <4>1, SumGrows DEF Input
    <3>2. CASE ~ Global(g, l) < N
      BY <2>2, <3>2, SumGrows DEF Input
    <3> QED BY <3>1, <3>2
  <2>4. P(Global(g, l)) \in Int /\ P(Global(g, l + 1)) \in Int /\ P(Global(g, 0)) \in Int
    BY <1>2, <1>3, <2>1
  <2>5. /\ GroupPrefix(g)[l + 1] = P(Global(g, l + 1)) - P(Global(g, 0))
        /\ GroupPrefix(g)[l] = P(Global(g, l)) - P(Global(g, 0))
    BY <2>1 DEF GroupPrefix
  <2>6. Input(Global(g, l)) \in Int
    <3>1. CASE Global(g, l) < N
      <4>1. Uploaded[Global(g, l)] = Block.tokens[Global(g, l) + 1] /\ Global(g, l) + 1 \in 1 .. N
        BY <1>1, <2>2, <3>1 DEF Uploaded
      <4> QED BY <3>1, <4>1, BlockFacts DEF Input
    <3>2. CASE ~ Global(g, l) < N
      BY <3>2 DEF Input
    <3> QED BY <3>1, <3>2
  <2>7. P(Global(g, l + 1)) = P(Global(g, l)) + Input(Global(g, l))
    BY <2>2, <2>3
  <2> HIDE DEF P
  <2> QED BY <2>4, <2>5, <2>6, <2>7
<1> QED BY <1>4, <1>5 DEF IsPrefixSum

LEMMA TotalPrefixSums ==
  ASSUME BlockOK, CountOK, pass # "idle", Len(sums) = N + 1,
         \A g \in 0 .. Groups(N) - 1, l \in Lanes : OffsetDone(g, l)
  PROVE  IsPrefixSum(TotalPrefix, [l \in Lanes |-> IF l < Groups(N) THEN workgroup_totals[l] ELSE 0])
<1>1. /\ WgSize \in Nat \ {0} /\ Lanes = 0 .. WgSize - 1
      /\ N \in Nat \ {0} /\ Groups(N) \in 1 .. WgSize /\ Groups(N) * WgSize >= N
  BY WgSizeAssumption, BlockFacts DEF Lanes
<1>2. ASSUME NEW k \in Nat, NEW l \in 0 .. WgSize PROVE P(Global(k, l)) \in Int
  BY <1>2, GlobalFacts, SumGrows
<1>3. 0 \in 0 .. WgSize /\ WgSize \in 0 .. WgSize
  BY <1>1
<1>4. P(Global(0, 0)) = 0
  BY <1>1, SumGrows DEF Global
<1>5. TotalPrefix \in [0 .. WgSize -> Int] /\ TotalPrefix[0] = 0
  <2>1. \A k \in 0 .. WgSize : P(Global(k, 0)) \in Int
    BY <1>1, <1>2, <1>3
  <2> QED BY <1>3, <1>4, <2>1 DEF TotalPrefix
<1>6. ASSUME NEW l \in Lanes
      PROVE  TotalPrefix[l + 1] = TotalPrefix[l] + (IF l < Groups(N) THEN workgroup_totals[l] ELSE 0)
  <2>1. l \in Nat /\ l \in 0 .. WgSize /\ l + 1 \in 0 .. WgSize /\ WgSize - 1 \in Lanes
    BY <1>1
  <2>2. TotalPrefix[l + 1] = P(Global(l, WgSize)) /\ TotalPrefix[l] = P(Global(l, 0))
    BY <1>3, <2>1, GlobalFacts DEF TotalPrefix
  <2>3. P(Global(l, WgSize)) \in Int /\ P(Global(l, 0)) \in Int
    BY <1>2, <1>3, <2>1
  <2>4. CASE l < Groups(N)
    <3>1. workgroup_totals[l] = P(Global(l, WgSize)) - P(Global(l, 0))
      BY <1>1, <2>1, <2>4 DEF OffsetDone
    <3> QED BY <2>2, <2>3, <2>4, <3>1
  <2>5. CASE l >= Groups(N)
    <3>1. l * WgSize >= N /\ l * WgSize + WgSize >= N /\ l * WgSize \in Nat
      <4>1. PICK d \in Nat : l = Groups(N) + d
        <5>1. l - Groups(N) \in Nat /\ l = Groups(N) + (l - Groups(N))
          BY <1>1, <2>1, <2>5
        <5> QED BY <5>1
      <4>2. l * WgSize = Groups(N) * WgSize + d * WgSize /\ d * WgSize \in Nat
        BY <1>1, <4>1
      <4> QED BY <1>1, <4>2
    <3>2. P(Global(l, WgSize)) = P(Global(l, 0))
      BY <1>1, <3>1 DEF P, Global, Lesser
    <3> QED BY <1>1, <2>1, <2>2, <2>3, <2>5, <3>2
  <2> QED BY <1>1, <2>1, <2>4, <2>5
<1> QED BY <1>5, <1>6 DEF IsPrefixSum
-----------------------------------------------------------------------------
LEMMA HInvInit == Init => HInv
  BY DEF Init, HInv, BlockOK, CountOK, ScanOK, TotalsOK, EmitOK

LEMMA AcquireInv ==
  ASSUME HInv, Acquire
  PROVE  HInv'
<1>1. PICK b \in Blocks : blocks' = Append(blocks, b)
  BY DEF Acquire
<1>2. blocks \in Seq(Blocks) /\ pass' = "count" /\ sums' = <<0>>
  BY DEF Acquire, HInv, BlockOK
<1>3. BlockOK'
  BY <1>1, <1>2 DEF BlockOK
<1>4. 1 \in 1 .. N' + 1
  <2>1. Block' = b
    BY <1>1, <1>2 DEF Block
  <2>2. Size(b) \in Nat /\ N' = Size(b)
    BY <2>1, BlockTypes DEF N
  <2> QED BY <2>2
<1>5. CountOK'
  <2>1. sums' \in Seq(Int) /\ Len(sums') = 1 /\ sums'[1] = 0 /\ pass' = "count"
    BY <1>2
  <2> QED BY <1>4, <2>1 DEF CountOK
<1> QED BY <1>2, <1>3, <1>5 DEF HInv, ScanOK, TotalsOK, EmitOK

LEMMA CountInv ==
  ASSUME HInv, CountToken
  PROVE  HInv'
<1>1. /\ pass = "count" /\ pass' = "count" /\ blocks' = blocks /\ Len(sums) <= N
      /\ sums' = Append(sums, sums[Len(sums)] + token_bits(Block.tokens[Len(sums)]))
  BY DEF CountToken
<1>2. /\ sums \in Seq(Int) /\ Len(sums) \in 1 .. N + 1 /\ sums[1] = 0 /\ N \in Nat
      /\ \A k \in 1 .. Len(sums) - 1 : sums[k + 1] = sums[k] + token_bits(Block.tokens[k])
      /\ \A k \in 1 .. N : token_bits(Block.tokens[k]) \in Nat
  BY <1>1, BlockFacts DEF HInv, CountOK
<1>3. N' = N /\ Block' = Block /\ BlockOK'
  BY <1>1 DEF N, Block, HInv, BlockOK
<1>4. sums[Len(sums)] + token_bits(Block.tokens[Len(sums)]) \in Int
  BY <1>1, <1>2
<1>5. /\ sums' \in Seq(Int) /\ Len(sums') = Len(sums) + 1 /\ sums'[1] = 0
      /\ \A k \in 1 .. Len(sums) : sums'[k] = sums[k]
      /\ sums'[Len(sums) + 1] = sums[Len(sums)] + token_bits(Block.tokens[Len(sums)])
  BY <1>1, <1>2, <1>4
<1>6. ASSUME NEW k \in 1 .. Len(sums)
      PROVE  sums'[k + 1] = sums'[k] + token_bits(Block.tokens[k])
  <2>1. CASE k = Len(sums)
    BY <1>2, <1>5, <2>1
  <2>2. CASE k < Len(sums)
    <3>1. k \in 1 .. Len(sums) - 1 /\ k + 1 \in 1 .. Len(sums)
      BY <1>2, <2>2
    <3> QED BY <1>2, <1>5, <3>1
  <2> QED BY <1>2, <2>1, <2>2
<1>7. CountOK'
  <2>1. Len(sums') \in 1 .. N' + 1 /\ Len(sums') - 1 = Len(sums)
    BY <1>1, <1>2, <1>3, <1>5
  <2>2. \A k \in 1 .. Len(sums') - 1 : sums'[k + 1] = sums'[k] + token_bits(Block'.tokens[k])
    BY <1>3, <1>6, <2>1
  <2> QED BY <1>1, <1>5, <2>1, <2>2 DEF CountOK
<1> QED BY <1>1, <1>3, <1>7 DEF HInv, ScanOK, TotalsOK, EmitOK

LEMMA DispatchInv ==
  ASSUME HInv, Dispatch
  PROVE  HInv'
<1>1. /\ pass = "count" /\ pass' = "scan" /\ blocks' = blocks /\ sums' = sums /\ Len(sums) = N + 1
      /\ groups' = [g \in 0 .. Groups(N) - 1 |-> Started([l \in Lanes |-> Input(Global(g, l))])]
  BY DEF Dispatch
<1>2. BlockOK /\ CountOK /\ N \in Nat \ {0} /\ Groups(N) \in 1 .. WgSize
  BY <1>1, BlockFacts DEF HInv
<1>3. N' = N /\ Block' = Block /\ BlockOK' /\ CountOK'
  BY <1>1, <1>2 DEF N, Block, BlockOK, CountOK
<1>4. ASSUME NEW g \in 0 .. Groups(N) - 1
      PROVE  GroupInv(groups'[g], GroupPrefix(g)') /\ groups'[g].seg # "out"
  <2> DEFINE input == [l \in Lanes |-> Input(Global(g, l))]
  <2>1. GroupPrefix(g)' = GroupPrefix(g)
    BY <1>1, <1>3 DEF GroupPrefix, P
  <2>2. g \in Nat /\ groups'[g] = Started(input)
    BY <1>1, <1>2
  <2>3. IsPrefixSum(GroupPrefix(g), input)
    BY <1>1, <1>2, <2>2, GroupPrefixSums
  <2>4. input \in [Lanes -> Int]
    <3>1. ASSUME NEW l \in Lanes PROVE Input(Global(g, l)) \in Int
      <4>0. l \in 0 .. WgSize
        BY WgSizeAssumption DEF Lanes
      <4>1. Global(g, l) \in Nat
        BY <2>2, <4>0, GlobalFacts
      <4>2. CASE Global(g, l) < N
        <5>1. Uploaded[Global(g, l)] = Block.tokens[Global(g, l) + 1] /\ Global(g, l) + 1 \in 1 .. N
          BY <1>2, <4>1, <4>2 DEF Uploaded
        <5> QED BY <1>1, <1>2, <4>2, <5>1, BlockFacts DEF Input
      <4>3. CASE ~ Global(g, l) < N
        BY <4>3 DEF Input
      <4> QED BY <4>2, <4>3
    <3> QED BY <3>1
  <2> HIDE DEF input
  <2> QED BY <2>1, <2>2, <2>3, <2>4, StartedInv
<1>5. ScanOK'
  BY <1>1, <1>3, <1>4 DEF ScanOK
<1> QED BY <1>1, <1>3, <1>5 DEF HInv, TotalsOK, EmitOK

(* A segment of a scan that writes no buffer: stores, reads, adds and      *)
(* barriers.                                                               *)
LEMMA SegmentInv ==
  ASSUME HInv, NEW g \in DOMAIN groups, NEW s, InGroup(g, s), UNCHANGED set,
         \A pre : GroupInv(groups[g], pre) =>
                  GroupInv(s, pre) /\ (s.seg = "out" => s.arrived = {})
  PROVE  HInv'
<1>1. /\ groups' = [groups EXCEPT ![g] = s]
      /\ blocks' = blocks /\ pass' = pass /\ sums' = sums
      /\ per_token_offset' = per_token_offset /\ workgroup_totals' = workgroup_totals
      /\ workgroup_bases' = workgroup_bases
  BY DEF InGroup, set
<1>2. BlockOK /\ CountOK /\ ScanOK /\ TotalsOK /\ EmitOK
  BY DEF HInv
<1>3. /\ N' = N /\ Block' = Block /\ BlockOK' /\ CountOK' /\ EmitOK'
      /\ \A h : GroupPrefix(h)' = GroupPrefix(h) /\ BaseDone(h)' = BaseDone(h)
      /\ \A h, l : OffsetDone(h, l)' = OffsetDone(h, l)
      /\ TotalPrefix' = TotalPrefix
  BY <1>1, <1>2 DEF N, Block, BlockOK, CountOK, EmitOK, GroupPrefix, TotalPrefix, P, OffsetDone, BaseDone
<1>4. /\ DOMAIN groups' = DOMAIN groups /\ groups'[g] = s
      /\ \A h \in DOMAIN groups : h # g => groups'[h] = groups[h]
  BY <1>1
<1>5. ScanOK'
  BY <1>1, <1>2, <1>3, <1>4 DEF ScanOK
<1>6. TotalsOK'
  BY <1>1, <1>2, <1>3, <1>4 DEF TotalsOK
<1> QED BY <1>3, <1>5, <1>6 DEF HInv

LEMMA StoresInv ==
  ASSUME HInv, NEW g \in DOMAIN groups, NEW l \in Lanes, LaneStores(g, l)
  PROVE  HInv'
<1> DEFINE s == Store(groups[g], l)
<1>1. MayRun(groups[g], l, "store") /\ InGroup(g, s) /\ UNCHANGED set
  BY DEF LaneStores
<1>2. ASSUME NEW pre, GroupInv(groups[g], pre)
      PROVE  GroupInv(s, pre) /\ (s.seg = "out" => s.arrived = {})
  <2>1. GroupInv(s, pre)
    BY <1>1, <1>2, StoreInv
  <2>2. s.seg = "store"
    BY <1>1, <1>2 DEF Store, MayRun, GroupInv, GroupTypeOK
  <2> QED BY <2>1, <2>2
<1> HIDE DEF s
<1> QED BY <1>1, <1>2, SegmentInv

LEMMA ReadsInv ==
  ASSUME HInv, NEW g \in DOMAIN groups, NEW l \in Lanes, LaneReads(g, l)
  PROVE  HInv'
<1> DEFINE s == ReadAddend(groups[g], l)
<1>1. MayRun(groups[g], l, "read") /\ InGroup(g, s) /\ UNCHANGED set
  BY DEF LaneReads
<1>2. ASSUME NEW pre, GroupInv(groups[g], pre)
      PROVE  GroupInv(s, pre) /\ (s.seg = "out" => s.arrived = {})
  <2>1. GroupInv(s, pre)
    BY <1>1, <1>2, ReadInv
  <2>2. s.seg = "read"
    BY <1>1, <1>2 DEF ReadAddend, MayRun, GroupInv, GroupTypeOK
  <2> QED BY <2>1, <2>2
<1> HIDE DEF s
<1> QED BY <1>1, <1>2, SegmentInv

LEMMA AddsInv ==
  ASSUME HInv, NEW g \in DOMAIN groups, NEW l \in Lanes, LaneAdds(g, l)
  PROVE  HInv'
<1> DEFINE s == AddAddend(groups[g], l)
<1>1. MayRun(groups[g], l, "add") /\ InGroup(g, s) /\ UNCHANGED set
  BY DEF LaneAdds
<1>2. ASSUME NEW pre, GroupInv(groups[g], pre)
      PROVE  GroupInv(s, pre) /\ (s.seg = "out" => s.arrived = {})
  <2>1. GroupInv(s, pre)
    BY <1>1, <1>2, AddInv
  <2>2. s.seg = "add"
    BY <1>1, <1>2 DEF AddAddend, MayRun, GroupInv, GroupTypeOK
  <2> QED BY <2>1, <2>2
<1> HIDE DEF s
<1> QED BY <1>1, <1>2, SegmentInv

LEMMA BarriersInv ==
  ASSUME HInv, NEW g \in DOMAIN groups, BarrierOpens(g)
  PROVE  HInv'
<1> DEFINE s == PassBarrier(groups[g])
<1>1. AtBarrier(groups[g]) /\ InGroup(g, s) /\ UNCHANGED set
  BY DEF BarrierOpens
<1>2. ASSUME NEW pre, GroupInv(groups[g], pre)
      PROVE  GroupInv(s, pre) /\ (s.seg = "out" => s.arrived = {})
  BY <1>1, <1>2, BarrierInv
<1> HIDE DEF s
<1> QED BY <1>1, <1>2, SegmentInv

(* A written element of a buffer, and those it leaves alone.               *)
LEMMA PutFacts ==
  ASSUME NEW buffer, NEW i, NEW x
  PROVE  /\ i \in DOMAIN Put(buffer, i, x) /\ Put(buffer, i, x)[i] = x
         /\ \A k \in DOMAIN buffer : k \in DOMAIN Put(buffer, i, x)
                                     /\ (k # i => Put(buffer, i, x)[k] = buffer[k])
  BY DEF Put

LEMMA LeavesScanInv ==
  ASSUME HInv, NEW g \in DOMAIN groups, NEW l \in Lanes, LaneLeavesScan(g, l)
  PROVE  HInv'
<1> DEFINE s == Leave(groups[g], l)
           i == Global(g, l)
<1>1. /\ pass = "scan" /\ MayRun(groups[g], l, "out") /\ groups' = [groups EXCEPT ![g] = s]
      /\ blocks' = blocks /\ pass' = pass /\ sums' = sums
      /\ per_token_offset' = IF i < N THEN Put(per_token_offset, i, Exclusive(groups[g], l))
                             ELSE per_token_offset
      /\ workgroup_totals' = IF l = WgSize - 1
                             THEN Put(workgroup_totals, g, Inclusive(groups[g], l))
                             ELSE workgroup_totals
  BY DEF LaneLeavesScan, InGroup
<1>2. /\ BlockOK /\ CountOK /\ ScanOK /\ N \in Nat \ {0} /\ Groups(N) \in 1 .. WgSize
      /\ DOMAIN groups = 0 .. Groups(N) - 1 /\ WgSize \in Nat \ {0} /\ Lanes = 0 .. WgSize - 1
  BY <1>1, BlockFacts, WgSizeAssumption DEF HInv, ScanOK, Lanes
<1>3. /\ N' = N /\ Block' = Block /\ BlockOK' /\ CountOK'
      /\ \A h : GroupPrefix(h)' = GroupPrefix(h)
      /\ \A k : P(k)' = P(k)
  BY <1>1, <1>2 DEF N, Block, BlockOK, CountOK, GroupPrefix, P
<1>4. /\ GroupInv(groups[g], GroupPrefix(g))
      /\ groups[g].seg = "out" /\ l \notin groups[g].arrived
      /\ \A k \in groups[g].arrived : k \in Lanes /\ OffsetDone(g, k)
  BY <1>1, <1>2 DEF ScanOK, MayRun, GroupInv, GroupTypeOK
<1>5. GroupInv(s, GroupPrefix(g)) /\ s.seg = "out" /\ s.arrived = groups[g].arrived \cup {l}
  BY <1>1, <1>4, LeaveInv DEF Leave, Arrive, GroupInv, GroupTypeOK
<1>6. /\ Inclusive(groups[g], l) = P(Global(g, l + 1)) - P(Global(g, 0))
      /\ Exclusive(groups[g], l) = P(i) - P(Global(g, 0))
  <2>1. /\ Inclusive(groups[g], l) = GroupPrefix(g)[l + 1]
        /\ Exclusive(groups[g], l) = GroupPrefix(g)[l]
    BY <1>1, <1>4, LeaveInv
  <2>2. l \in 0 .. WgSize /\ l + 1 \in 0 .. WgSize
    BY <1>2
  <2> QED BY <2>1, <2>2 DEF GroupPrefix
<1>7. OffsetDone(g, l)'
  <2>1. i < N => /\ i \in DOMAIN per_token_offset'
                 /\ per_token_offset'[i] = P(i) - P(Global(g, 0))
    BY <1>1, <1>6, PutFacts
  <2>2. l = WgSize - 1 => /\ g \in DOMAIN workgroup_totals'
                          /\ workgroup_totals'[g] = P(Global(g, l + 1)) - P(Global(g, 0))
    BY <1>1, <1>6, PutFacts
  <2>3. l = WgSize - 1 => l + 1 = WgSize
    BY <1>2
  <2> QED BY <1>3, <2>1, <2>2, <2>3 DEF OffsetDone
<1>8. ASSUME NEW h \in 0 .. Groups(N) - 1, NEW k \in Lanes, OffsetDone(h, k), h # g \/ k # l
      PROVE  OffsetDone(h, k)'
  <2>1. h \in Nat /\ g \in Nat
    BY <1>2
  <2>2. Global(h, k) # i
    BY <1>8, <2>1, GlobalInjective
  <2>3. Global(h, k) < N =>
          /\ Global(h, k) \in DOMAIN per_token_offset'
          /\ per_token_offset'[Global(h, k)] = per_token_offset[Global(h, k)]
    BY <1>1, <1>8, <2>2, PutFacts DEF OffsetDone
  <2>4. k = WgSize - 1 => h # g \/ l # WgSize - 1
    BY <1>8
  <2>5. k = WgSize - 1 =>
          /\ h \in DOMAIN workgroup_totals'
          /\ workgroup_totals'[h] = workgroup_totals[h]
    BY <1>1, <1>8, <2>4, PutFacts DEF OffsetDone
  <2> QED BY <1>3, <1>8, <2>3, <2>5 DEF OffsetDone
<1>9. ScanOK'
  <2>1. /\ DOMAIN groups' = 0 .. Groups(N) - 1 /\ groups'[g] = s
        /\ \A h \in DOMAIN groups : h # g => groups'[h] = groups[h]
    BY <1>1, <1>2
  <2>2. ASSUME NEW h \in 0 .. Groups(N) - 1
        PROVE  /\ GroupInv(groups'[h], GroupPrefix(h))
               /\ groups'[h].seg = "out" => \A k \in groups'[h].arrived : OffsetDone(h, k)'
    <3>1. CASE h = g
      <4>1. ASSUME NEW k \in s.arrived PROVE OffsetDone(g, k)'
        <5>1. CASE k = l
          BY <1>7, <5>1
        <5>2. CASE k # l
          <6>1. k \in Lanes /\ OffsetDone(g, k)
            BY <1>4, <1>5, <5>2
          <6> QED BY <1>2, <1>8, <5>2, <6>1
        <5> QED BY <5>1, <5>2
      <4> QED BY <1>5, <2>1, <3>1, <4>1
    <3>2. CASE h # g
      <4>1. /\ groups'[h] = groups[h] /\ GroupInv(groups[h], GroupPrefix(h))
            /\ groups[h].seg = "out" => \A k \in groups[h].arrived : k \in Lanes /\ OffsetDone(h, k)
        BY <1>1, <1>2, <2>1, <3>2 DEF ScanOK, GroupInv, GroupTypeOK
      <4> QED BY <1>8, <3>2, <4>1
    <3> QED BY <3>1, <3>2
  <2> HIDE DEF s
  <2> QED BY <1>1, <1>3, <2>1, <2>2 DEF ScanOK
<1> QED BY <1>1, <1>3, <1>9 DEF HInv, TotalsOK, EmitOK

LEMMA StartTotalsInv ==
  ASSUME HInv, StartTotals
  PROVE  HInv'
<1> DEFINE input == [l \in Lanes |-> IF l < Groups(N) THEN workgroup_totals[l] ELSE 0]
<1>1. /\ pass = "scan" /\ pass' = "totals" /\ blocks' = blocks /\ sums' = sums
      /\ \A g \in DOMAIN groups : AllLeft(groups[g])
      /\ groups' = [g \in {0} |-> Started(input)]
      /\ per_token_offset' = per_token_offset /\ workgroup_totals' = workgroup_totals
  BY DEF StartTotals, set
<1>2. /\ BlockOK /\ CountOK /\ ScanOK /\ N \in Nat \ {0} /\ Groups(N) \in 1 .. WgSize
      /\ Len(sums) = N + 1 /\ WgSize \in Nat \ {0} /\ Lanes = 0 .. WgSize - 1
  BY <1>1, BlockFacts, WgSizeAssumption DEF HInv, CountOK, Lanes
<1>3. /\ N' = N /\ Block' = Block /\ BlockOK' /\ CountOK' /\ TotalPrefix' = TotalPrefix
      /\ \A h, l : OffsetDone(h, l)' = OffsetDone(h, l)
  BY <1>1, <1>2 DEF N, Block, BlockOK, CountOK, TotalPrefix, P, OffsetDone
<1>4. ASSUME NEW g \in 0 .. Groups(N) - 1, NEW l \in Lanes PROVE OffsetDone(g, l)
  BY <1>1, <1>2 DEF ScanOK, AllLeft
<1>5. IsPrefixSum(TotalPrefix, input)
  BY <1>1, <1>2, <1>4, TotalPrefixSums
<1>6. input \in [Lanes -> Int]
  <2>1. ASSUME NEW l \in Lanes, l < Groups(N) PROVE workgroup_totals[l] \in Int
    <3>1. l \in Nat /\ l \in 0 .. Groups(N) - 1 /\ WgSize - 1 \in Lanes
          /\ WgSize \in 0 .. WgSize /\ 0 \in 0 .. WgSize
      BY <1>2, <2>1
    <3>2. workgroup_totals[l] = P(Global(l, WgSize)) - P(Global(l, 0))
      BY <1>4, <3>1 DEF OffsetDone
    <3>3. Global(l, WgSize) \in Nat /\ Global(l, 0) \in Nat
      BY <3>1, GlobalFacts
    <3>4. P(Global(l, WgSize)) \in Int /\ P(Global(l, 0)) \in Int
      BY <1>1, <1>2, <3>3, SumGrows
    <3> QED BY <3>2, <3>4
  <2> QED BY <2>1
<1>7. GroupInv(groups'[0], TotalPrefix) /\ groups'[0].seg # "out" /\ DOMAIN groups' = {0}
  <2> HIDE DEF input
  <2> QED BY <1>1, <1>5, <1>6, StartedInv
<1>8. TotalsOK'
  BY <1>1, <1>3, <1>4, <1>7 DEF TotalsOK
<1> QED BY <1>1, <1>3, <1>8 DEF HInv, ScanOK, EmitOK

LEMMA LeavesTotalsInv ==
  ASSUME HInv, NEW l \in Lanes, LaneLeavesTotals(l)
  PROVE  HInv'
<1> DEFINE s == Leave(groups[0], l)
<1>1. /\ pass = "totals" /\ MayRun(groups[0], l, "out") /\ groups' = [groups EXCEPT ![0] = s]
      /\ blocks' = blocks /\ pass' = pass /\ sums' = sums
      /\ per_token_offset' = per_token_offset /\ workgroup_totals' = workgroup_totals
      /\ workgroup_bases' = IF l < Groups(N)
                            THEN Put(workgroup_bases, l, Exclusive(groups[0], l))
                            ELSE workgroup_bases
  BY DEF LaneLeavesTotals, InGroup
<1>2. /\ BlockOK /\ CountOK /\ TotalsOK /\ N \in Nat \ {0} /\ Groups(N) \in 1 .. WgSize
      /\ DOMAIN groups = {0} /\ WgSize \in Nat \ {0} /\ Lanes = 0 .. WgSize - 1
  BY <1>1, BlockFacts, WgSizeAssumption DEF HInv, TotalsOK, Lanes
<1>3. /\ N' = N /\ Block' = Block /\ BlockOK' /\ CountOK' /\ TotalPrefix' = TotalPrefix
      /\ \A h, k : OffsetDone(h, k)' = OffsetDone(h, k)
      /\ \A k : P(k)' = P(k)
  BY <1>1, <1>2 DEF N, Block, BlockOK, CountOK, TotalPrefix, P, OffsetDone
<1>4. /\ GroupInv(groups[0], TotalPrefix) /\ groups[0].seg = "out"
      /\ \A k \in groups[0].arrived : k \in Lanes /\ (k < Groups(N) => BaseDone(k))
  BY <1>1, <1>2 DEF TotalsOK, MayRun, GroupInv, GroupTypeOK
<1>5. GroupInv(s, TotalPrefix) /\ s.seg = "out" /\ s.arrived = groups[0].arrived \cup {l}
  BY <1>1, <1>4, LeaveInv DEF Leave, Arrive, GroupInv, GroupTypeOK
<1>6. Exclusive(groups[0], l) = P(Global(l, 0))
  <2>1. Exclusive(groups[0], l) = TotalPrefix[l] /\ l \in 0 .. WgSize
    BY <1>1, <1>2, <1>4, LeaveInv
  <2> QED BY <2>1 DEF TotalPrefix
<1>7. ASSUME NEW k \in s.arrived, k < Groups(N) PROVE BaseDone(k)'
  <2>1. CASE k = l
    <3>1. l \in DOMAIN workgroup_bases' /\ workgroup_bases'[l] = P(Global(l, 0))
      BY <1>1, <1>6, <1>7, <2>1, PutFacts
    <3> QED BY <1>3, <2>1, <3>1 DEF BaseDone
  <2>2. CASE k # l
    <3>1. BaseDone(k)
      BY <1>4, <1>5, <1>7, <2>2
    <3>2. k \in DOMAIN workgroup_bases' /\ workgroup_bases'[k] = workgroup_bases[k]
      BY <1>1, <2>2, <3>1, PutFacts DEF BaseDone
    <3> QED BY <1>3, <3>1, <3>2 DEF BaseDone
  <2> QED BY <2>1, <2>2
<1>8. groups'[0] = s /\ DOMAIN groups' = {0}
  BY <1>1, <1>2
<1>9. TotalsOK'
  <2> HIDE DEF s
  <2> QED BY <1>1, <1>2, <1>3, <1>5, <1>7, <1>8 DEF TotalsOK
<1> QED BY <1>1, <1>3, <1>9 DEF HInv, ScanOK, EmitOK

LEMMA StartEmitInv ==
  ASSUME HInv, StartEmit
  PROVE  HInv'
<1>1. /\ pass = "totals" /\ pass' = "emit" /\ blocks' = blocks /\ sums' = sums
      /\ AllLeft(groups[0]) /\ per_token_offset' = per_token_offset
      /\ workgroup_totals' = workgroup_totals /\ workgroup_bases' = workgroup_bases
  BY DEF StartEmit, set
<1>2. /\ BlockOK /\ CountOK /\ TotalsOK /\ N \in Nat \ {0} /\ Groups(N) \in 1 .. WgSize
      /\ WgSize \in Nat \ {0} /\ Lanes = 0 .. WgSize - 1
  BY <1>1, BlockFacts, WgSizeAssumption DEF HInv, Lanes
<1>3. /\ N' = N /\ Block' = Block /\ BlockOK' /\ CountOK'
      /\ \A h, k : OffsetDone(h, k)' = OffsetDone(h, k)
      /\ \A h : BaseDone(h)' = BaseDone(h)
  BY <1>1, <1>2 DEF N, Block, BlockOK, CountOK, P, OffsetDone, BaseDone
<1>4. ASSUME NEW g \in 0 .. Groups(N) - 1 PROVE BaseDone(g) /\ \A l \in Lanes : OffsetDone(g, l)
  BY <1>1, <1>2 DEF TotalsOK, AllLeft
<1>5. EmitOK'
  BY <1>1, <1>3, <1>4 DEF EmitOK
<1> QED BY <1>1, <1>3, <1>5 DEF HInv, ScanOK, TotalsOK

(* The third pass and the read-back write nothing that HInv speaks of.     *)
LEMMA EmitStepInv ==
  ASSUME HInv, pass = "emit", pass' \in {"emit", "idle"},
         UNCHANGED <<blocks, sums, per_token_offset, workgroup_totals, workgroup_bases>>
  PROVE  HInv'
<1>1. /\ N' = N /\ Block' = Block
      /\ \A h, k : OffsetDone(h, k)' = OffsetDone(h, k)
      /\ \A h : BaseDone(h)' = BaseDone(h)
  BY DEF N, Block, P, OffsetDone, BaseDone
<1> QED BY <1>1 DEF HInv, BlockOK, CountOK, ScanOK, TotalsOK, EmitOK

LEMMA HInvNext == HInv /\ [Next]_vars => HInv'
<1> SUFFICES ASSUME HInv, [Next]_vars PROVE HInv'
  OBVIOUS
<1>1. CASE Acquire
  BY <1>1, AcquireInv
<1>2. CASE CountToken
  BY <1>2, CountInv
<1>3. CASE Dispatch
  BY <1>3, DispatchInv
<1>4. ASSUME NEW g \in DOMAIN groups, NEW l \in Lanes,
             LaneStores(g, l) \/ LaneReads(g, l) \/ LaneAdds(g, l) \/ LaneLeavesScan(g, l)
      PROVE  HInv'
  BY <1>4, StoresInv, ReadsInv, AddsInv, LeavesScanInv
<1>5. ASSUME NEW g \in DOMAIN groups, BarrierOpens(g) PROVE HInv'
  BY <1>5, BarriersInv
<1>6. CASE StartTotals
  BY <1>6, StartTotalsInv
<1>7. ASSUME NEW l \in Lanes, LaneLeavesTotals(l) PROVE HInv'
  BY <1>7, LeavesTotalsInv
<1>8. CASE StartEmit
  BY <1>8, StartEmitInv
<1>9. ASSUME NEW i \in DOMAIN emits, EmitLow(i) \/ EmitHigh(i) PROVE HInv'
  BY <1>9, EmitStepInv DEF EmitLow, EmitHigh
<1>10. CASE ReadBack
  BY <1>10, EmitStepInv DEF ReadBack, set
<1>11. CASE UNCHANGED vars
  <2>1. UNCHANGED <<blocks, pass, sums, groups, tokens, per_token_offset, workgroup_totals,
                    workgroup_bases, output>>
    BY <1>11 DEF vars, set
  <2>2. /\ N' = N /\ Block' = Block /\ TotalPrefix' = TotalPrefix
        /\ \A h : GroupPrefix(h)' = GroupPrefix(h) /\ BaseDone(h)' = BaseDone(h)
        /\ \A h, k : OffsetDone(h, k)' = OffsetDone(h, k)
    BY <2>1 DEF N, Block, GroupPrefix, TotalPrefix, P, OffsetDone, BaseDone
  <2> QED BY <2>1, <2>2 DEF HInv, BlockOK, CountOK, ScanOK, TotalsOK, EmitOK
<1> QED BY <1>1, <1>2, <1>3, <1>4, <1>5, <1>6, <1>7, <1>8, <1>9, <1>10, <1>11 DEF Next, Finished

(* What the two sums of an offset leave, in the third pass.                *)
LEMMA Cancel ==
  ASSUME NEW a \in Int, NEW p \in Int, NEW q \in Int
  PROVE  a + p + (q - p) = a + q
OBVIOUS

LEMMA DoneExact ==
  ASSUME BlockOK, CountOK, pass \in {"totals", "emit"},
         \A g \in 0 .. Groups(N) - 1 : BaseDone(g) /\ \A l \in Lanes : OffsetDone(g, l)
  PROVE  /\ \A g \in 0 .. Groups(N) - 1, l \in Lanes :
              Global(g, l) < N => TokenOffset(g, l) = Block.header.bits + sums[Global(g, l) + 1]
         /\ EndOffset = Block.header.bits + sums[N + 1]
<1>1. /\ N \in Nat \ {0} /\ Groups(N) \in 1 .. WgSize
      /\ Groups(N) * WgSize >= N /\ Block.header.bits \in Nat /\ Len(sums) = N + 1
      /\ WgSize \in Nat \ {0} /\ Lanes = 0 .. WgSize - 1
  BY BlockFacts, WgSizeAssumption DEF CountOK, Lanes
<1>2. ASSUME NEW g \in 0 .. Groups(N) - 1
      PROVE  BaseDone(g) /\ \A l \in Lanes : OffsetDone(g, l)
  BY <1>2
<1>3. ASSUME NEW g \in Nat, NEW l \in 0 .. WgSize PROVE P(Global(g, l)) \in Int
  BY <1>1, <1>3, GlobalFacts, SumGrows
<1>4. ASSUME NEW g \in 0 .. Groups(N) - 1, NEW l \in Lanes, Global(g, l) < N
      PROVE  TokenOffset(g, l) = Block.header.bits + sums[Global(g, l) + 1]
  <2>1. g \in Nat /\ l \in 0 .. WgSize /\ 0 \in 0 .. WgSize
    BY <1>1
  <2>2. P(Global(g, l)) \in Int /\ P(Global(g, 0)) \in Int /\ Global(g, l) \in Nat
    BY <1>3, <2>1, GlobalFacts
  <2>3. P(Global(g, l)) = sums[Global(g, l) + 1]
    BY <1>1, <1>4, <2>2 DEF P, Lesser
  <2>4. /\ workgroup_bases[g] = P(Global(g, 0))
        /\ per_token_offset[Global(g, l)] = P(Global(g, l)) - P(Global(g, 0))
    BY <1>2, <1>4 DEF BaseDone, OffsetDone
  <2>5. TokenOffset(g, l) =
          Block.header.bits + P(Global(g, 0)) + (P(Global(g, l)) - P(Global(g, 0)))
    BY <2>4 DEF TokenOffset
  <2>6. Block.header.bits + P(Global(g, 0)) + (P(Global(g, l)) - P(Global(g, 0)))
          = Block.header.bits + P(Global(g, l))
    BY <1>1, <2>2, Cancel
  <2> QED BY <2>3, <2>5, <2>6
<1>5. EndOffset = Block.header.bits + sums[N + 1]
  <2>1. LastGroup \in 0 .. Groups(N) - 1 /\ LastGroup \in Nat /\ WgSize - 1 \in Lanes
        /\ 0 \in 0 .. WgSize /\ WgSize \in 0 .. WgSize
    BY <1>1 DEF LastGroup
  <2>2. /\ At(workgroup_bases, LastGroup) = P(Global(LastGroup, 0))
        /\ At(workgroup_totals, LastGroup) = P(Global(LastGroup, WgSize)) - P(Global(LastGroup, 0))
    BY <1>2, <2>1 DEF BaseDone, OffsetDone, At
  <2>3. P(Global(LastGroup, 0)) \in Int /\ P(Global(LastGroup, WgSize)) \in Int
    BY <1>3, <2>1
  <2>4. P(Global(LastGroup, WgSize)) = sums[N + 1]
    <3>1. Global(LastGroup, WgSize) = Groups(N) * WgSize
      BY <1>1 DEF Global, LastGroup
    <3>2. Groups(N) * WgSize \in Nat
      BY <1>1
    <3> QED BY <1>1, <3>1, <3>2 DEF P, Lesser
  <2> QED BY <1>1, <2>2, <2>3, <2>4 DEF EndOffset
<1> QED BY <1>4, <1>5

LEMMA HInvExact == HInv => OffsetsExact
  BY DoneExact DEF HInv, EmitOK, OffsetsExact

(* huffman_emit_v2.wgsl: for any size of workgroup, any blocks and any     *)
(* order of the invocations, the offsets of the third pass are the running *)
(* sums of the host.                                                       *)
THEOREM OffsetsAreExact == Spec => []OffsetsExact
<1>1. Init => HInv
  BY HInvInit
<1>2. HInv /\ [Next]_vars => HInv'
  BY HInvNext
<1>3. HInv => OffsetsExact
  BY HInvExact
<1> QED BY <1>1, <1>2, <1>3, PTL DEF Spec
-----------------------------------------------------------------------------
(* What the calls return.  An invocation has done the writes that are no   *)
(* longer in todo, and the lower part of the next one if high says so; the *)
(* words that are read back hold the header, what the invocations have     *)
(* written and nothing else.                                               *)
Task(i) == Todo(Block, Global(i[1], i[2]))
From(i) == Block.header.bits + sums[Global(i[1], i[2]) + 1]

Done(e, t) == Len(t) - Len(e.todo)

Tracks(e, t, o) ==
  /\ e \in [todo : Seq(Write), off : Nat, high : BOOLEAN]
  /\ Done(e, t) \in 0 .. Len(t)
  /\ \A m \in 1 .. Len(e.todo) : e.todo[m] = t[Done(e, t) + m]
  /\ e.off = o + Pos(t)[Done(e, t)]
  /\ e.high => e.todo # <<>> /\ Head(e.todo).bits > Low(e)

HasWritten(e, t, o) == Placed(t, o, Done(e, t)) \cup (IF e.high THEN LowWord(e) ELSE {})

Live(b) == LiveWords(b) * WordBits

ResultRight(k) ==
  /\ results[k].ones = Sequential(blocks[k]).ones
  /\ results[k].len = Ceiling(Sequential(blocks[k]).bits, ByteBits) * ByteBits

ResultsOK ==
  /\ results \in Seq([len : Nat, ones : SUBSET Nat])
  /\ Len(blocks) = Len(results) + (IF pass = "idle" THEN 0 ELSE 1)
  /\ \A k \in 1 .. Len(results) : ResultRight(k)

HeldOK ==
  pass \in {"scan", "totals"} =>
    /\ \A k \in 0 .. N - 1 : tokens[k] = Block.tokens[k + 1]
    /\ \A p \in 0 .. Live(Block) - 1 : p \in output <=> p \in Block.header.ones

EmitsOK ==
  pass = "emit" =>
    /\ DOMAIN emits = Invocations
    /\ \A i \in Invocations : Tracks(emits[i], Task(i), From(i))
    /\ \A p \in 0 .. Live(Block) - 1 :
         p \in output <=> \/ p \in Block.header.ones
                          \/ \E i \in Invocations : p \in HasWritten(emits[i], Task(i), From(i))

OInv == ResultsOK /\ output \subseteq Nat /\ HeldOK /\ EmitsOK
-----------------------------------------------------------------------------
(* The two words a write goes to: the bits from the boundary on.           *)
LEMMA WordArith ==
  ASSUME NEW off \in Nat, NEW j \in Nat
  PROVE  /\ off % WordBits \in 0 .. WordBits - 1
         /\ (off \div WordBits + 1) * WordBits + (j - (WordBits - (off % WordBits))) = off + j
<1> DEFINE q == off \div WordBits
           r == off % WordBits
<1>1. WordBits \in Nat \ {0} /\ q \in Int /\ r \in 0 .. WordBits - 1 /\ off = WordBits * q + r
  BY SizesAssumption
<1> HIDE DEF q, r
<1>2. (q + 1) * WordBits = WordBits * q + WordBits /\ WordBits * q \in Int
  BY <1>1
<1>3. (q + 1) * WordBits + (j - (WordBits - r)) = off + j
  BY <1>1, <1>2
<1> QED BY <1>1, <1>3 DEF q, r

LEMMA LowFacts ==
  ASSUME NEW t \in Seq(Write), NEW o \in Nat, \A k \in 1 .. Len(t) : Fits(t[k]),
         NEW e, Tracks(e, t, o), e.todo # <<>>
  PROVE  /\ Done(e, t) \in 0 .. Len(t) - 1 /\ Head(e.todo) = t[Done(e, t) + 1]
         /\ Head(e.todo) \in Write /\ Head(e.todo).bits \in Nat
         /\ Head(e.todo).ones \subseteq 0 .. Head(e.todo).bits - 1
         /\ e.off \in Nat /\ Low(e) \in Nat /\ Low(e) <= Head(e.todo).bits
         /\ Low(e) < Head(e.todo).bits => Low(e) = WordBits - (e.off % WordBits)
<1>1. e.todo \in Seq(Write) /\ e.off \in Nat /\ Done(e, t) \in 0 .. Len(t)
  BY DEF Tracks
<1>2. Len(e.todo) \in Nat \ {0} /\ Head(e.todo) = e.todo[1] /\ 1 \in 1 .. Len(e.todo)
  BY <1>1
<1>3. Done(e, t) \in 0 .. Len(t) - 1 /\ Done(e, t) + 1 \in 1 .. Len(t)
  BY <1>1, <1>2 DEF Done
<1>4. Head(e.todo) = t[Done(e, t) + 1]
  BY <1>2 DEF Tracks
<1>5. Head(e.todo) \in Write /\ Fits(Head(e.todo))
  BY <1>3, <1>4
<1>6. Head(e.todo).bits \in Nat /\ Head(e.todo).ones \subseteq 0 .. Head(e.todo).bits - 1
  BY <1>5 DEF Write, Fits
<1>7. e.off % WordBits \in 0 .. WordBits - 1 /\ WordBits \in Nat
  BY <1>1, WordArith, SizesAssumption
<1>8. /\ Low(e) \in Nat /\ Low(e) <= Head(e.todo).bits
      /\ Low(e) < Head(e.todo).bits => Low(e) = WordBits - (e.off % WordBits)
  BY <1>6, <1>7 DEF Low, Lesser
<1> QED BY <1>1, <1>3, <1>4, <1>5, <1>6, <1>8

LEMMA PastTracks ==
  ASSUME NEW t \in Seq(Write), NEW o \in Nat, \A k \in 1 .. Len(t) : Fits(t[k]),
         NEW e, Tracks(e, t, o), e.todo # <<>>
  PROVE  /\ Tracks(Past(e), t, o)
         /\ HasWritten(Past(e), t, o)
              = Placed(t, o, Done(e, t)) \cup {e.off + j : j \in Head(e.todo).ones}
<1> DEFINE d == Done(e, t)
           f == Past(e)
<1>1. /\ d \in 0 .. Len(t) - 1 /\ Head(e.todo) = t[d + 1] /\ Head(e.todo).bits \in Nat
      /\ e.off \in Nat
  BY LowFacts
<1>2. /\ e.todo \in Seq(Write) /\ e.off = o + Pos(t)[d]
      /\ \A m \in 1 .. Len(e.todo) : e.todo[m] = t[d + m]
  BY DEF Tracks
<1>3. f.todo = Tail(e.todo) /\ f.off = e.off + Head(e.todo).bits /\ f.high = FALSE
  BY DEF Past
<1>4. /\ f.todo \in Seq(Write) /\ Len(f.todo) = Len(e.todo) - 1 /\ Len(e.todo) \in Nat \ {0}
      /\ \A m \in 1 .. Len(f.todo) : f.todo[m] = e.todo[m + 1] /\ m + 1 \in 1 .. Len(e.todo)
  BY <1>2, <1>3
<1>5. f \in [todo : Seq(Write), off : Nat, high : BOOLEAN]
  BY <1>1, <1>3, <1>4 DEF Past
<1>6. Done(f, t) = d + 1 /\ d + 1 \in 1 .. Len(t) /\ d + 1 \in 0 .. Len(t) /\ (d + 1) - 1 = d /\ d \in 0 .. Len(t)
  <2>1. d = Len(t) - Len(e.todo) /\ Done(f, t) = Len(t) - Len(f.todo) /\ Len(t) \in Nat
    BY DEF Done
  <2> HIDE DEF d, f
  <2> QED BY <1>1, <1>4, <2>1
<1> HIDE DEF d, f
<1>7. f.off = o + Pos(t)[d + 1]
  <2>1. Pos(t)[d + 1] = Pos(t)[d] + t[d + 1].bits /\ Pos(t)[d] \in Nat
    BY <1>6, PosIs
  <2>2. f.off = e.off + t[d + 1].bits /\ t[d + 1].bits \in Nat
    BY <1>1, <1>3
  <2> QED BY <1>2, <2>1, <2>2
<1>8. ASSUME NEW m \in 1 .. Len(f.todo) PROVE f.todo[m] = t[Done(f, t) + m]
  <2>1. f.todo[m] = t[d + (m + 1)]
    BY <1>2, <1>4
  <2>2. d + (m + 1) = (d + 1) + m
    BY <1>1
  <2> QED BY <1>6, <2>1, <2>2
<1>9. Tracks(f, t, o)
  BY <1>3, <1>5, <1>6, <1>7, <1>8 DEF Tracks
<1>10. Placed(t, o, d + 1) = Placed(t, o, d) \cup {o + Pos(t)[d] + j : j \in t[d + 1].ones}
  BY <1>1, PlacedNext
<1>11. HasWritten(f, t, o) = Placed(t, o, d) \cup {e.off + j : j \in Head(e.todo).ones}
  BY <1>1, <1>2, <1>3, <1>6, <1>10 DEF HasWritten
<1> QED BY <1>9, <1>11 DEF d, f

(* An atomic OR adds its own bits to what the invocation has written.      *)
LEMMA LowStep ==
  ASSUME NEW t \in Seq(Write), NEW o \in Nat, \A k \in 1 .. Len(t) : Fits(t[k]),
         NEW e, Tracks(e, t, o), e.todo # <<>>, ~ e.high,
         NEW f, f = IF Head(e.todo).bits > Low(e) THEN [e EXCEPT !.high = TRUE] ELSE Past(e)
  PROVE  /\ Tracks(f, t, o) /\ LowWord(e) \subseteq Nat
         /\ HasWritten(f, t, o) = HasWritten(e, t, o) \cup LowWord(e)
<1>1. /\ Head(e.todo).bits \in Nat /\ Head(e.todo).ones \subseteq 0 .. Head(e.todo).bits - 1
      /\ e.off \in Nat /\ Low(e) \in Nat /\ Low(e) <= Head(e.todo).bits
  BY LowFacts
<1>2. LowWord(e) \subseteq Nat
  BY <1>1 DEF LowWord
<1>3. HasWritten(e, t, o) = Placed(t, o, Done(e, t))
  BY DEF HasWritten
<1>4. CASE Head(e.todo).bits > Low(e)
  <2>1. /\ e \in [todo : Seq(Write), off : Nat, high : BOOLEAN]
        /\ Done(e, t) \in 0 .. Len(t)
        /\ \A m \in 1 .. Len(e.todo) : e.todo[m] = t[Done(e, t) + m]
        /\ e.off = o + Pos(t)[Done(e, t)]
    BY DEF Tracks
  <2>2. f = [e EXCEPT !.high = TRUE]
    BY <1>4
  <2>3. /\ f \in [todo : Seq(Write), off : Nat, high : BOOLEAN]
        /\ f.todo = e.todo /\ f.off = e.off /\ f.high = TRUE
    BY <2>1, <2>2
  <2>4. Done(f, t) = Done(e, t) /\ Low(f) = Low(e) /\ LowWord(f) = LowWord(e)
    BY <2>3 DEF Done, Low, LowWord
  <2>5. Tracks(f, t, o)
    BY <1>4, <2>1, <2>3, <2>4 DEF Tracks
  <2>6. HasWritten(f, t, o) = Placed(t, o, Done(e, t)) \cup LowWord(e)
    BY <2>3, <2>4 DEF HasWritten
  <2> QED BY <1>2, <1>3, <2>5, <2>6
<1>5. CASE ~ Head(e.todo).bits > Low(e)
  <2>1. LowWord(e) = {e.off + j : j \in Head(e.todo).ones}
    <3>1. {k \in Head(e.todo).ones : k < Low(e)} = Head(e.todo).ones
      BY <1>1, <1>5
    <3> QED BY <3>1 DEF LowWord
  <2> QED BY <1>2, <1>3, <1>5, <2>1, PastTracks
<1> QED BY <1>4, <1>5

LEMMA HighStep ==
  ASSUME NEW t \in Seq(Write), NEW o \in Nat, \A k \in 1 .. Len(t) : Fits(t[k]),
         NEW e, Tracks(e, t, o), e.todo # <<>>, e.high
  PROVE  /\ Tracks(Past(e), t, o) /\ HighWord(e) \subseteq Nat
         /\ HasWritten(Past(e), t, o) = HasWritten(e, t, o) \cup HighWord(e)
<1> DEFINE ones == Head(e.todo).ones
<1>1. /\ ones \subseteq Nat /\ e.off \in Nat /\ Low(e) \in Nat
      /\ Low(e) < Head(e.todo).bits => Low(e) = WordBits - (e.off % WordBits)
      /\ Low(e) < Head(e.todo).bits
  <2>1. /\ ones \subseteq 0 .. Head(e.todo).bits - 1 /\ e.off \in Nat /\ Low(e) \in Nat
        /\ Low(e) < Head(e.todo).bits => Low(e) = WordBits - (e.off % WordBits)
        /\ Head(e.todo).bits \in Nat
    BY LowFacts
  <2>2. Low(e) < Head(e.todo).bits
    BY <2>1 DEF Tracks
  <2> QED BY <2>1, <2>2
<1>2. HasWritten(e, t, o) = Placed(t, o, Done(e, t)) \cup LowWord(e)
  BY DEF HasWritten
<1> HIDE DEF ones
<1>3. \A j \in ones : (e.off \div WordBits + 1) * WordBits + (j - Low(e)) = e.off + j
  BY <1>1, WordArith
<1>4. HighWord(e) = {e.off + j : j \in {k \in ones : k >= Low(e)}}
  BY <1>3 DEF HighWord, ones
<1>5. LowWord(e) = {e.off + j : j \in {k \in ones : k < Low(e)}}
  BY DEF LowWord, ones
<1>6. \A j \in ones : j < Low(e) \/ j >= Low(e)
  BY <1>1
<1>7. LowWord(e) \cup HighWord(e) = {e.off + j : j \in ones}
  BY <1>4, <1>5, <1>6
<1>8. HighWord(e) \subseteq Nat
  BY <1>1, <1>4
<1>9. /\ Tracks(Past(e), t, o)
      /\ HasWritten(Past(e), t, o) = Placed(t, o, Done(e, t)) \cup {e.off + j : j \in ones}
  BY PastTracks DEF ones
<1> QED BY <1>2, <1>7, <1>8, <1>9
-----------------------------------------------------------------------------
Starts == [k \in 0 .. N |-> sums[k + 1]]

(* The sums of the host once they are complete.                            *)
LEMMA StartsFacts ==
  ASSUME BlockOK, CountOK, pass \in {"scan", "totals", "emit"}
  PROVE  /\ Block \in Blocks /\ Size(Block) = N /\ N \in Nat \ {0} /\ Len(sums) = N + 1
         /\ IsSumOf(Starts, Block)
         /\ \A k \in 0 .. N : sums[k + 1] \in Nat
<1>1. /\ N \in Nat \ {0} /\ sums \in Seq(Int) /\ Len(sums) = N + 1 /\ sums[1] = 0
      /\ \A k \in 1 .. N : sums[k + 1] = sums[k] + token_bits(Block.tokens[k])
      /\ \A k \in 1 .. N : token_bits(Block.tokens[k]) \in Nat
  BY BlockFacts DEF CountOK
<1>2. Block \in Blocks /\ Size(Block) = N
  BY DEF BlockOK, Block, N
<1>3. IsSumOf(Starts, Block)
  <2>1. Starts \in [0 .. N -> Int] /\ Starts[0] = 0
    BY <1>1 DEF Starts
  <2>2. ASSUME NEW k \in 1 .. N PROVE Starts[k] = Starts[k - 1] + token_bits(Block.tokens[k])
    <3>1. k \in 0 .. N /\ k - 1 \in 0 .. N /\ (k - 1) + 1 = k
      BY <1>1
    <3>2. Starts[k] = sums[k + 1] /\ Starts[k - 1] = sums[k]
      BY <3>1 DEF Starts
    <3> QED BY <1>1, <3>2
  <2> QED BY <1>2, <2>1, <2>2 DEF IsSumOf
<1> DEFINE S == {k \in Nat : k \in 0 .. N => sums[k + 1] \in Nat}
<1>4. Nat \subseteq S
  <2>1. 0 \in S
    BY <1>1
  <2>2. ASSUME NEW m \in Nat, m \in S PROVE m + 1 \in S
    <3>1. m + 1 \in 0 .. N => m \in 0 .. N /\ m + 1 \in 1 .. N
      BY <1>1
    <3>2. m + 1 \in 0 .. N => /\ sums[(m + 1) + 1] = sums[m + 1] + token_bits(Block.tokens[m + 1])
                              /\ sums[m + 1] \in Nat /\ token_bits(Block.tokens[m + 1]) \in Nat
      BY <1>1, <2>2, <3>1
    <3> QED BY <3>2
  <2> HIDE DEF S
  <2> QED BY <2>1, <2>2, Induction
<1> QED BY <1>1, <1>2, <1>3, <1>4

(* Every task has an invocation, and every invocation a task.              *)
LEMMA EveryTask ==
  ASSUME N \in Nat \ {0}
  PROVE  /\ \A i \in Invocations : i[1] \in Nat /\ i[2] \in Lanes /\ Global(i[1], i[2]) \in 0 .. N
         /\ \A k \in 0 .. N : \E i \in Invocations : Global(i[1], i[2]) = k
<1>1. WgSize \in Nat \ {0} /\ Lanes = 0 .. WgSize - 1
  BY WgSizeAssumption DEF Lanes
<1> DEFINE last == Ceiling(N + 1, WgSize)
<1>2. last \in Nat \ {0} /\ last * WgSize >= N + 1
  <2>1. N + 1 \in Nat \ {0} /\ Groups(N + 1) = last
    BY DEF Groups
  <2> HIDE DEF last
  <2> QED BY <2>1, CeilingBounds
<1>3. Invocations = {i \in (0 .. last - 1) \X Lanes : Global(i[1], i[2]) <= N}
  BY DEF Invocations
<1> HIDE DEF last
<1>4. ASSUME NEW i \in Invocations
      PROVE  i[1] \in Nat /\ i[2] \in Lanes /\ Global(i[1], i[2]) \in 0 .. N
  <2>1. i[1] \in Nat /\ i[2] \in Lanes /\ i[2] \in 0 .. WgSize /\ Global(i[1], i[2]) <= N
    BY <1>1, <1>2, <1>3
  <2>2. Global(i[1], i[2]) \in Nat
    BY <2>1, GlobalFacts
  <2> QED BY <2>1, <2>2
<1>5. ASSUME NEW k \in 0 .. N PROVE \E i \in Invocations : Global(i[1], i[2]) = k
  <2> DEFINE g == k \div WgSize
             l == k % WgSize
  <2>1. g \in Int /\ l \in 0 .. WgSize - 1 /\ k = WgSize * g + l
    BY <1>1
  <2> HIDE DEF g, l
  <2>2. g * WgSize = WgSize * g
    BY <1>1, <2>1
  <2>3. g >= 0
    <3> SUFFICES ASSUME g <= -1 PROVE FALSE
      BY <2>1
    <3>1. WgSize * g <= -WgSize
      BY <1>1, <2>1
    <3> QED BY <1>1, <2>1, <3>1
  <2>4. g < last
    <3> SUFFICES ASSUME g >= last PROVE FALSE
      BY <1>2, <2>1
    <3>1. g * WgSize >= last * WgSize
      <4>1. PICK d \in Nat : g = last + d
        <5>1. g - last \in Nat /\ g = last + (g - last)
          BY <1>2, <2>1
        <5> QED BY <5>1
      <4>2. g * WgSize = last * WgSize + d * WgSize /\ d * WgSize \in Nat /\ last * WgSize \in Nat
        BY <1>1, <1>2, <4>1
      <4> QED BY <4>2
    <3>2. last * WgSize \in Int /\ g * WgSize \in Int
      BY <1>1, <1>2, <2>1
    <3> QED BY <1>2, <2>1, <2>2, <3>1, <3>2
  <2>5. Global(g, l) = k
    BY <2>1, <2>2 DEF Global
  <2>6. <<g, l>> \in (0 .. last - 1) \X Lanes
    BY <1>1, <1>2, <2>1, <2>3, <2>4
  <2>7. <<g, l>> \in Invocations
    BY <1>3, <2>5, <2>6
  <2> QED BY <2>5, <2>7
<1> QED BY <1>4, <1>5

LEMMA TaskFacts ==
  ASSUME BlockOK, CountOK, pass \in {"scan", "totals", "emit"}, NEW i \in Invocations
  PROVE  /\ Task(i) \in Seq(Write) /\ From(i) \in Nat
         /\ \A m \in 1 .. Len(Task(i)) : Fits(Task(i)[m])
         /\ Placed(Task(i), From(i), Len(Task(i))) = TodoPlaced(Block, Starts, Global(i[1], i[2]))
<1> DEFINE k == Global(i[1], i[2])
<1>1. /\ Block \in Blocks /\ Size(Block) = N /\ N \in Nat \ {0}
      /\ \A n \in 0 .. N : sums[n + 1] \in Nat
  BY StartsFacts
<1>2. k \in 0 .. N
  BY <1>1, EveryTask
<1>3. Block.header.bits \in Nat
  BY BlockFacts
<1>4. Starts[k] = sums[k + 1]
  BY <1>2 DEF Starts
<1>5. Task(i) = Todo(Block, k) /\ From(i) = Block.header.bits + sums[k + 1]
  BY DEF Task, From
<1> HIDE DEF k
<1>6. From(i) \in Nat
  <2>1. sums[k + 1] \in Nat
    BY <1>1, <1>2
  <2> QED BY <1>3, <1>5, <2>1
<1>7. /\ Todo(Block, k) \in Seq(Write)
      /\ \A m \in 1 .. Len(Todo(Block, k)) : Fits(Todo(Block, k)[m])
  <2>1. CASE k < N
    <3>1. k + 1 \in 1 .. Size(Block) /\ Todo(Block, k) = Block.tokens[k + 1]
      BY <1>1, <1>2, <2>1 DEF Todo
    <3> QED BY <1>1, <3>1, BlockTypes
  <2>2. CASE ~ k < N
    <3>1. Todo(Block, k) = <<Block.eob>> /\ Block.eob \in Write /\ Fits(Block.eob)
      BY <1>1, <2>2, BlockTypes DEF Todo
    <3> QED BY <3>1
  <2> QED BY <2>1, <2>2
<1>8. TodoPlaced(Block, Starts, k) = Placed(Todo(Block, k), Block.header.bits + Starts[k], Len(Todo(Block, k)))
  BY DEF TodoPlaced
<1> QED BY <1>4, <1>5, <1>6, <1>7, <1>8 DEF k

LEMMA LiveFacts ==
  ASSUME NEW b \in Blocks
  PROVE  /\ Live(b) \in Int
         /\ Ceiling(Sequential(b).bits, ByteBits) * ByteBits <= Live(b)
<1>1. WordBits \in Nat \ {0} /\ Size(b) \in Nat /\ b.header.bits \in Nat
  BY SizesAssumption, BlockTypes DEF Write
<1>2. Size(b) * WordBits \in Int /\ WordBits \div 2 \in Int
  BY <1>1
<1> DEFINE x == b.header.bits + Size(b) * WordBits + WordBits \div 2
<1>3. x \in Int
  BY <1>1, <1>2
<1> HIDE DEF x
<1>4. (x + WordBits - 1) \div WordBits \in Int
  BY <1>1, <1>3
<1>5. LiveWords(b) \in Int
  BY <1>4 DEF LiveWords, Ceiling, x
<1>6. Live(b) \in Int
  BY <1>1, <1>5 DEF Live
<1> QED BY <1>6, LiveAssumption DEF Live

(* Rounding up to bytes. *)
LEMMA CeilingCovers ==
  ASSUME NEW x \in Nat
  PROVE  Ceiling(x, ByteBits) * ByteBits \in Nat /\ x <= Ceiling(x, ByteBits) * ByteBits
<1> DEFINE q == (x + ByteBits - 1) \div ByteBits
           m == (x + ByteBits - 1) % ByteBits
<1>1. ByteBits \in Nat \ {0}
  BY SizesAssumption
<1>2. x + ByteBits - 1 = ByteBits * q + m /\ m \in 0 .. ByteBits - 1 /\ q \in Int
  BY <1>1
<1>3. Ceiling(x, ByteBits) = q
  BY DEF Ceiling
<1> HIDE DEF q, m
<1>4. q * ByteBits = ByteBits * q /\ ByteBits * q \in Int
  BY <1>1, <1>2
<1>5. ByteBits * q >= x
  BY <1>1, <1>2, <1>4
<1> QED BY <1>3, <1>4, <1>5
-----------------------------------------------------------------------------
LEMMA OInvInit == Init => OInv
  BY DEF Init, OInv, ResultsOK, HeldOK, EmitsOK

(* A step that writes nothing these parts speak of.                        *)
LEMMA OFrame ==
  ASSUME OInv, UNCHANGED <<blocks, pass, sums, tokens, output, emits, results>>
  PROVE  OInv'
<1>1. /\ N' = N /\ Block' = Block /\ Invocations' = Invocations
      /\ \A k : ResultRight(k)' = ResultRight(k)
      /\ \A i : Task(i)' = Task(i) /\ From(i)' = From(i)
  BY DEF N, Block, Invocations, ResultRight, Task, From
<1> QED BY <1>1 DEF OInv, ResultsOK, HeldOK, EmitsOK

LEMMA OAcquire ==
  ASSUME BlockOK, OInv, Acquire
  PROVE  OInv'
<1>1. PICK b \in Blocks : blocks' = Append(blocks, b)
  BY DEF Acquire
<1>2. /\ pass = "idle" /\ pass' = "count" /\ results' = results /\ output' = output
      /\ blocks \in Seq(Blocks)
  BY DEF Acquire, set, BlockOK
<1>3. /\ results \in Seq([len : Nat, ones : SUBSET Nat]) /\ Len(blocks) = Len(results)
      /\ \A k \in 1 .. Len(results) : ResultRight(k)
  BY <1>2 DEF OInv, ResultsOK
<1>4. Len(blocks') = Len(results) + 1 /\ \A k \in 1 .. Len(results) : blocks'[k] = blocks[k]
  BY <1>1, <1>2, <1>3
<1>5. \A k \in 1 .. Len(results) : ResultRight(k)'
  BY <1>2, <1>3, <1>4 DEF ResultRight
<1>6. ResultsOK'
  BY <1>2, <1>3, <1>4, <1>5 DEF ResultsOK
<1> QED BY <1>2, <1>6 DEF OInv, HeldOK, EmitsOK

(* The results of the blocks before stay as they are while one is in work. *)
LEMMA ResultsStay ==
  ASSUME ResultsOK, pass # "idle", pass' # "idle", UNCHANGED <<blocks, results>>
  PROVE  ResultsOK'
<1>1. \A k : ResultRight(k)' = ResultRight(k)
  BY DEF ResultRight
<1> QED BY <1>1 DEF ResultsOK

LEMMA OCount ==
  ASSUME OInv, CountToken
  PROVE  OInv'
  BY ResultsStay DEF OInv, CountToken, set, HeldOK, EmitsOK

LEMMA ODispatch ==
  ASSUME BlockOK, CountOK, OInv, Dispatch
  PROVE  OInv'
<1>1. /\ pass = "count" /\ pass' = "scan" /\ tokens' = Uploaded
      /\ output' = Cleared \cup Block.header.ones /\ blocks' = blocks /\ results' = results
  BY DEF Dispatch
<1>2. Block \in Blocks /\ N \in Nat /\ N' = N /\ Block' = Block
  BY <1>1, BlockFacts DEF BlockOK, Block, N
<1>3. ResultsOK'
  BY <1>1, ResultsStay DEF OInv
<1>4. Block.header.ones \subseteq Nat /\ output \subseteq Nat /\ Cleared \subseteq output
  BY <1>2, BlockTypes DEF Write, OInv, Cleared
<1>5. ASSUME NEW k \in 0 .. N - 1 PROVE tokens'[k] = Block.tokens[k + 1]
  BY <1>1, <1>2 DEF Uploaded
<1>6. ASSUME NEW p \in 0 .. Live(Block) - 1 PROVE p \notin Cleared
  <2>1. Live(Block) \in Int
    BY <1>2, LiveFacts
  <2>2. ~ p >= Live(Block)
    BY <2>1
  <2> QED BY <2>2 DEF Cleared, Live
<1>7. HeldOK'
  BY <1>1, <1>2, <1>5, <1>6 DEF HeldOK
<1> QED BY <1>1, <1>3, <1>4, <1>7 DEF OInv, EmitsOK

LEMMA OStartTotals ==
  ASSUME OInv, StartTotals
  PROVE  OInv'
<1>1. /\ pass = "scan" /\ pass' = "totals"
      /\ UNCHANGED <<blocks, sums, tokens, output, emits, results>>
  BY DEF StartTotals, set
<1>2. N' = N /\ Block' = Block
  BY <1>1 DEF N, Block
<1> QED BY <1>1, <1>2, ResultsStay DEF OInv, HeldOK, EmitsOK

LEMMA OStartEmit ==
  ASSUME HInv, OInv, StartEmit
  PROVE  OInv'
<1>1. /\ pass = "totals" /\ pass' = "emit" /\ AllLeft(groups[0])
      /\ emits' = [i \in Invocations |-> Begun(i[1], i[2])]
      /\ UNCHANGED <<blocks, sums, tokens, output, results>>
  BY DEF StartEmit, set
<1>2. /\ N' = N /\ Block' = Block /\ Invocations' = Invocations
      /\ \A i : Task(i)' = Task(i) /\ From(i)' = From(i)
  BY <1>1 DEF N, Block, Invocations, Task, From
<1>3. BlockOK /\ CountOK /\ TotalsOK /\ HeldOK /\ output \subseteq Nat
  BY DEF HInv, OInv
<1>4. /\ Size(Block) = N /\ N \in Nat \ {0} /\ Groups(N) \in 1 .. WgSize
      /\ Groups(N) * WgSize >= N /\ WgSize \in Nat \ {0} /\ Lanes = 0 .. WgSize - 1
  BY <1>1, <1>3, BlockFacts, WgSizeAssumption DEF Lanes, N
<1>5. /\ \A g \in 0 .. Groups(N) - 1, l \in Lanes :
           Global(g, l) < N => TokenOffset(g, l) = Block.header.bits + sums[Global(g, l) + 1]
      /\ EndOffset = Block.header.bits + sums[N + 1]
  <2>1. \A g \in 0 .. Groups(N) - 1 : BaseDone(g) /\ \A l \in Lanes : OffsetDone(g, l)
    BY <1>1, <1>3, <1>4 DEF TotalsOK, AllLeft
  <2> QED BY <1>1, <1>3, <2>1, DoneExact
<1>6. ASSUME NEW i \in Invocations
      PROVE  emits'[i] = [todo |-> Task(i), off |-> From(i), high |-> FALSE]
  <2> DEFINE k == Global(i[1], i[2])
  <2>1. k \in 0 .. N /\ i[1] \in Nat /\ i[2] \in Lanes
    BY <1>4, EveryTask
  <2>2. CASE k < N
    <3>1. i[1] \in 0 .. Groups(N) - 1
      <4>1. k = i[1] * WgSize + i[2] /\ i[1] * WgSize \in Nat /\ i[2] \in Nat
        BY <1>4, <2>1 DEF Global
      <4>2. i[1] * WgSize < Groups(N) * WgSize
        <5>1. i[1] * WgSize < N
          BY <1>4, <2>2, <4>1
        <5>2. Groups(N) * WgSize \in Nat
          BY <1>4
        <5> QED BY <1>4, <4>1, <5>1, <5>2
      <4>3. ~ i[1] >= Groups(N)
        <5> SUFFICES ASSUME i[1] >= Groups(N) PROVE FALSE
          OBVIOUS
        <5>1. PICK d \in Nat : i[1] = Groups(N) + d
          <6>1. i[1] - Groups(N) \in Nat /\ i[1] = Groups(N) + (i[1] - Groups(N))
            BY <1>4, <2>1
          <6> QED BY <6>1
        <5>2. i[1] * WgSize = Groups(N) * WgSize + d * WgSize /\ d * WgSize \in Nat
              /\ Groups(N) * WgSize \in Nat
          BY <1>4, <5>1
        <5> QED BY <4>2, <5>2
      <4> QED BY <1>4, <2>1, <4>3
    <3>2. TokenOffset(i[1], i[2]) = From(i)
      BY <1>5, <2>1, <2>2, <3>1 DEF From
    <3>3. tokens[k] = Task(i)
      BY <1>1, <1>3, <1>4, <2>1, <2>2 DEF HeldOK, Task, Todo
    <3> QED BY <1>1, <2>2, <3>2, <3>3 DEF Begun
  <2>3. CASE ~ k < N
    <3>1. k = N
      BY <1>4, <2>1, <2>3
    <3>2. EndOffset = From(i) /\ <<Block.eob>> = Task(i)
      BY <1>4, <1>5, <2>3, <3>1 DEF From, Task, Todo
    <3> QED BY <1>1, <2>3, <3>2 DEF Begun
  <2> QED BY <2>2, <2>3
<1>7. ASSUME NEW i \in Invocations
      PROVE  Tracks(emits'[i], Task(i), From(i)) /\ HasWritten(emits'[i], Task(i), From(i)) = {}
  <2> DEFINE e == emits'[i]
             t == Task(i)
  <2>1. t \in Seq(Write) /\ From(i) \in Nat
    BY <1>1, <1>3, TaskFacts
  <2>2. e = [todo |-> t, off |-> From(i), high |-> FALSE]
    BY <1>6
  <2> HIDE DEF e, t
  <2>3. /\ e \in [todo : Seq(Write), off : Nat, high : BOOLEAN]
        /\ e.todo = t /\ e.off = From(i) /\ e.high = FALSE
    BY <2>1, <2>2
  <2>4. Len(t) \in Nat /\ Done(e, t) = 0 /\ Pos(t)[0] = 0 /\ Placed(t, From(i), 0) = {}
    BY <2>1, <2>3, PosIs, PlacedNext DEF Done
  <2>5. Tracks(e, t, From(i))
    BY <2>1, <2>3, <2>4 DEF Tracks
  <2>6. HasWritten(e, t, From(i)) = {}
    BY <2>3, <2>4 DEF HasWritten
  <2> QED BY <2>5, <2>6 DEF e, t
<1>8. EmitsOK'
  <2>1. DOMAIN emits' = Invocations
    BY <1>1
  <2>2. \A p \in 0 .. Live(Block) - 1 : p \in output <=> p \in Block.header.ones
    BY <1>1, <1>3 DEF HeldOK
  <2> QED BY <1>1, <1>2, <1>7, <2>1, <2>2 DEF EmitsOK
<1> QED BY <1>1, <1>3, <1>8, ResultsStay DEF OInv, HeldOK

(* An invocation that has more written by x, and x in the output, leave    *)
(* the output the header and what the invocations have written.            *)
LEMMA EmitStep ==
  ASSUME OInv, pass = "emit", pass' = "emit", UNCHANGED <<blocks, sums, results>>,
         NEW i \in Invocations, NEW e, NEW x \in SUBSET Nat,
         Tracks(e, Task(i), From(i)),
         HasWritten(e, Task(i), From(i)) = HasWritten(emits[i], Task(i), From(i)) \cup x,
         emits' = [emits EXCEPT ![i] = e], output' = output \cup x
  PROVE  OInv'
<1>1. /\ N' = N /\ Block' = Block /\ Invocations' = Invocations
      /\ \A k : Task(k)' = Task(k) /\ From(k)' = From(k)
  BY DEF N, Block, Invocations, Task, From
<1>2. /\ DOMAIN emits = Invocations
      /\ \A k \in Invocations : Tracks(emits[k], Task(k), From(k))
      /\ \A p \in 0 .. Live(Block) - 1 :
           p \in output <=> \/ p \in Block.header.ones
                            \/ \E k \in Invocations : p \in HasWritten(emits[k], Task(k), From(k))
  BY DEF OInv, EmitsOK
<1>3. /\ DOMAIN emits' = Invocations /\ emits'[i] = e
      /\ \A k \in Invocations : k # i => emits'[k] = emits[k]
  BY <1>2
<1>4. ASSUME NEW k \in Invocations PROVE Tracks(emits'[k], Task(k), From(k))
  BY <1>2, <1>3
<1>5. ASSUME NEW p \in 0 .. Live(Block) - 1
      PROVE  p \in output' <=> \/ p \in Block.header.ones
                               \/ \E k \in Invocations : p \in HasWritten(emits'[k], Task(k), From(k))
  <2>1. \A k \in Invocations : p \in HasWritten(emits'[k], Task(k), From(k)) <=>
          (p \in HasWritten(emits[k], Task(k), From(k)) \/ (k = i /\ p \in x))
    BY <1>3
  <2> QED BY <1>2, <2>1
<1>6. EmitsOK'
  BY <1>1, <1>3, <1>4, <1>5 DEF EmitsOK
<1> QED BY <1>6, ResultsStay DEF OInv, HeldOK

LEMMA OEmit ==
  ASSUME BlockOK, CountOK, OInv, NEW i \in DOMAIN emits, EmitLow(i) \/ EmitHigh(i)
  PROVE  OInv'
<1>1. /\ pass = "emit" /\ pass' = "emit" /\ emits[i].todo # <<>>
      /\ UNCHANGED <<blocks, sums, results>>
  BY DEF EmitLow, EmitHigh
<1>2. i \in Invocations /\ Tracks(emits[i], Task(i), From(i))
  BY <1>1 DEF OInv, EmitsOK
<1>3. /\ Task(i) \in Seq(Write) /\ From(i) \in Nat
      /\ \A m \in 1 .. Len(Task(i)) : Fits(Task(i)[m])
  BY <1>1, <1>2, TaskFacts
<1>4. CASE EmitLow(i)
  <2> DEFINE e == IF Head(emits[i].todo).bits > Low(emits[i])
                  THEN [emits[i] EXCEPT !.high = TRUE] ELSE Past(emits[i])
  <2>1. ~ emits[i].high /\ output' = output \cup LowWord(emits[i]) /\ emits' = [emits EXCEPT ![i] = e]
    BY <1>4 DEF EmitLow
  <2>2. /\ Tracks(e, Task(i), From(i)) /\ LowWord(emits[i]) \subseteq Nat
        /\ HasWritten(e, Task(i), From(i)) = HasWritten(emits[i], Task(i), From(i)) \cup LowWord(emits[i])
    BY <1>1, <1>2, <1>3, <2>1, LowStep
  <2> HIDE DEF e
  <2> QED BY <1>1, <1>2, <2>1, <2>2, EmitStep
<1>5. CASE EmitHigh(i)
  <2> DEFINE e == Past(emits[i])
  <2>1. emits[i].high /\ output' = output \cup HighWord(emits[i]) /\ emits' = [emits EXCEPT ![i] = e]
    BY <1>5 DEF EmitHigh
  <2>2. /\ Tracks(e, Task(i), From(i)) /\ HighWord(emits[i]) \subseteq Nat
        /\ HasWritten(e, Task(i), From(i)) = HasWritten(emits[i], Task(i), From(i)) \cup HighWord(emits[i])
    BY <1>1, <1>2, <1>3, <2>1, HighStep
  <2> HIDE DEF e
  <2> QED BY <1>1, <1>2, <2>1, <2>2, EmitStep
<1> QED BY <1>4, <1>5

LEMMA OReadBack ==
  ASSUME BlockOK, CountOK, OInv, ReadBack
  PROVE  OInv'
<1> DEFINE bits == Ceiling(TotalBits, ByteBits) * ByteBits
           seq == Sequential(Block)
           result == [len |-> bits, ones |-> {p \in output : p < bits}]
<1>1. /\ pass = "emit" /\ pass' = "idle" /\ \A i \in DOMAIN emits : emits[i].todo = <<>>
      /\ results' = Append(results, result) /\ blocks' = blocks /\ output' = output
  BY DEF ReadBack, set
<1>2. /\ Block \in Blocks /\ Size(Block) = N /\ N \in Nat \ {0} /\ IsSumOf(Starts, Block)
      /\ Starts[N] = sums[N + 1]
  BY <1>1, StartsFacts DEF Starts
<1>3. /\ seq.bits = TotalBits /\ seq.bits \in Nat /\ seq.ones \subseteq 0 .. seq.bits - 1
      /\ seq.ones = Block.header.ones \cup UNION {TodoPlaced(Block, Starts, k) : k \in 0 .. N}
  BY <1>2, SequentialIs DEF TotalBits
<1>4. /\ bits \in Nat /\ bits <= Live(Block) /\ Live(Block) \in Int /\ seq.bits <= bits
  BY <1>2, <1>3, LiveFacts, CeilingCovers
<1>5. /\ DOMAIN emits = Invocations /\ output \subseteq Nat
      /\ \A i \in Invocations : Tracks(emits[i], Task(i), From(i))
      /\ \A p \in 0 .. Live(Block) - 1 :
           p \in output <=> \/ p \in Block.header.ones
                            \/ \E i \in Invocations : p \in HasWritten(emits[i], Task(i), From(i))
  BY <1>1 DEF OInv, EmitsOK
<1>6. ASSUME NEW i \in Invocations
      PROVE  HasWritten(emits[i], Task(i), From(i)) = TodoPlaced(Block, Starts, Global(i[1], i[2]))
  <2>1. emits[i].todo = <<>> /\ Tracks(emits[i], Task(i), From(i))
    BY <1>1, <1>5
  <2>2. Task(i) \in Seq(Write)
        /\ Placed(Task(i), From(i), Len(Task(i))) = TodoPlaced(Block, Starts, Global(i[1], i[2]))
    BY <1>1, TaskFacts
  <2>3. Done(emits[i], Task(i)) = Len(Task(i)) /\ ~ emits[i].high
    BY <2>1, <2>2 DEF Done, Tracks
  <2> QED BY <2>2, <2>3 DEF HasWritten
<1>7. \A i \in Invocations : Global(i[1], i[2]) \in 0 .. N
  BY <1>2, EveryTask
<1>8. \A k \in 0 .. N : \E i \in Invocations : Global(i[1], i[2]) = k
  BY <1>2, EveryTask
<1> HIDE DEF bits, seq
<1>9. ASSUME NEW p \in 0 .. Live(Block) - 1 PROVE p \in output <=> p \in seq.ones
  <2>1. (\E i \in Invocations : p \in HasWritten(emits[i], Task(i), From(i))) <=>
        (\E k \in 0 .. N : p \in TodoPlaced(Block, Starts, k))
    BY <1>6, <1>7, <1>8
  <2>2. p \in seq.ones <=> p \in Block.header.ones \/ \E k \in 0 .. N : p \in TodoPlaced(Block, Starts, k)
    BY <1>3
  <2> QED BY <1>5, <2>1, <2>2
<1>10. {p \in output : p < bits} = seq.ones
  <2>1. ASSUME NEW p \in output, p < bits PROVE p \in seq.ones
    <3>1. p \in 0 .. Live(Block) - 1
      BY <1>4, <1>5, <2>1
    <3> QED BY <1>9, <3>1
  <2>2. ASSUME NEW p \in seq.ones PROVE p \in output /\ p < bits
    <3>1. p \in 0 .. Live(Block) - 1 /\ p < bits
      BY <1>3, <1>4
    <3> QED BY <1>9, <3>1
  <2> QED BY <2>1, <2>2
<1>11. result = [len |-> bits, ones |-> seq.ones] /\ seq.ones \in SUBSET Nat
       /\ bits = Ceiling(seq.bits, ByteBits) * ByteBits
  <2>1. bits = Ceiling(seq.bits, ByteBits) * ByteBits
    BY <1>3 DEF bits
  <2>2. result = [len |-> bits, ones |-> seq.ones]
    BY <1>10
  <2>3. seq.ones \subseteq Nat
    BY <1>3
  <2> QED BY <2>1, <2>2, <2>3
<1>12. /\ results \in Seq([len : Nat, ones : SUBSET Nat]) /\ Len(blocks) = Len(results) + 1
       /\ \A k \in 1 .. Len(results) : ResultRight(k)
  BY <1>1 DEF OInv, ResultsOK
<1>13. result \in [len : Nat, ones : SUBSET Nat]
  BY <1>4, <1>11
<1> HIDE DEF result
<1>14. /\ results' \in Seq([len : Nat, ones : SUBSET Nat]) /\ Len(results') = Len(blocks)
       /\ results'[Len(blocks)] = result
       /\ \A k \in 1 .. Len(results) : results'[k] = results[k]
  BY <1>1, <1>12, <1>13
<1>15. ASSUME NEW k \in 1 .. Len(results') PROVE ResultRight(k)'
  <2>1. CASE k = Len(blocks)
    <3>1. results'[k] = result /\ Sequential(blocks'[k]) = seq
      BY <1>1, <1>14, <2>1 DEF seq, Block
    <3>2. /\ result.ones = seq.ones
          /\ result.len = Ceiling(seq.bits, ByteBits) * ByteBits
      BY <1>11
    <3> QED BY <3>1, <3>2 DEF ResultRight
  <2>2. CASE k # Len(blocks)
    <3>1. k \in 1 .. Len(results)
      BY <1>12, <1>14, <2>2
    <3> QED BY <1>1, <1>12, <1>14, <3>1 DEF ResultRight
  <2> QED BY <2>1, <2>2
<1>16. ResultsOK'
  BY <1>1, <1>14, <1>15 DEF ResultsOK
<1> QED BY <1>1, <1>5, <1>16 DEF OInv, HeldOK, EmitsOK

LEMMA OInvNext == HInv /\ OInv /\ [Next]_vars => OInv'
<1> SUFFICES ASSUME HInv, OInv, [Next]_vars PROVE OInv'
  OBVIOUS
<1>1. BlockOK /\ CountOK
  BY DEF HInv
<1>2. CASE Acquire
  BY <1>1, <1>2, OAcquire
<1>3. CASE CountToken
  BY <1>3, OCount
<1>4. CASE Dispatch
  BY <1>1, <1>4, ODispatch
<1>5. ASSUME NEW g \in DOMAIN groups, NEW l \in Lanes,
             LaneStores(g, l) \/ LaneReads(g, l) \/ LaneAdds(g, l) \/ LaneLeavesScan(g, l)
      PROVE  OInv'
  BY <1>5, OFrame DEF LaneStores, LaneReads, LaneAdds, LaneLeavesScan, InGroup, set
<1>6. ASSUME NEW g \in DOMAIN groups, BarrierOpens(g) PROVE OInv'
  BY <1>6, OFrame DEF BarrierOpens, InGroup, set
<1>7. CASE StartTotals
  BY <1>7, OStartTotals
<1>8. ASSUME NEW l \in Lanes, LaneLeavesTotals(l) PROVE OInv'
  BY <1>8, OFrame DEF LaneLeavesTotals, InGroup
<1>9. CASE StartEmit
  BY <1>9, OStartEmit
<1>10. ASSUME NEW i \in DOMAIN emits, EmitLow(i) \/ EmitHigh(i) PROVE OInv'
  BY <1>1, <1>10, OEmit
<1>11. CASE ReadBack
  BY <1>1, <1>11, OReadBack
<1>12. CASE UNCHANGED vars
  BY <1>12, OFrame DEF vars, set
<1> QED BY <1>2, <1>3, <1>4, <1>5, <1>6, <1>7, <1>8, <1>9, <1>10, <1>11, <1>12 DEF Next, Finished

LEMMA OInvSequential == OInv => OutputIsSequential
  BY DEF OInv, ResultsOK, ResultRight, OutputIsSequential

(* huffman_emit_v2.rs and .wgsl: for any size of workgroup, any blocks and *)
(* any order of the atomic ORs, every call returns the bits one writer     *)
(* would have written, and none of the block before.                       *)
THEOREM OutputIsOneWriters == Spec => []OutputIsSequential
<1>1. Init => HInv /\ OInv
  BY HInvInit, OInvInit
<1>2. HInv /\ OInv /\ [Next]_vars => (HInv /\ OInv)'
  BY HInvNext, OInvNext
<1>3. OInv => OutputIsSequential
  BY OInvSequential
<1> QED BY <1>1, <1>2, <1>3, PTL DEF Spec
=============================================================================
