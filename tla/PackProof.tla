----------------------------- MODULE PackProof -----------------------------
(***************************************************************************)
(* The call of pack, and the chunk function of the backend it picks unless *)
(* it is told otherwise.                                                   *)
(*                                                                         *)
(* Pack.  DiskIsPrefix and OkIsComplete speak of what is in the file; the  *)
(* invariant speaks of the log.  While the inputs are walked, the log, the *)
(* rest of the file being copied and what the items still to be walked     *)
(* will become are together the archive that was asked for (LogInv).  A    *)
(* visit moves units from the last part to the first: that is PackedIs,    *)
(* that an item is packed as its own units and then what is below it, and  *)
(* it holds because the levels of a tree suffice (LevelsSuffice).  In a    *)
(* zip archive the listings come in any order, and a part may be exchanged *)
(* for another with the same units (Exchange); that no unit is there twice *)
(* is because different items of a listing have different paths            *)
(* (Siblings).  The rest says what a broken or an unfinished stream holds. *)
(*                                                                         *)
(* The chunk function.  A worker that is about to take a permit has seen a *)
(* positive count, which is all PermitsConserved needs; the counter of     *)
(* chunks counts the workers past Count and the chunks that are finished.  *)
(***************************************************************************)
EXTENDS PackSession, HybridChunk, FiniteSetTheorems, SequenceTheorems, DataInduction, TLAPS

AnyUnit == [path : Seq(Node), part : Nat]
-----------------------------------------------------------------------------
(* The items of a listing.                                                 *)
LEMMA ItemsAre ==
  ASSUME NEW s \in Seq(Node), NEW path \in Seq(Node), NEW l \in 0 .. LinkLimit
  PROVE  /\ Items(s, path, l) \in Seq(Item) /\ Len(Items(s, path, l)) = Len(s)
         /\ DOMAIN Items(s, path, l) = 1 .. Len(s)
         /\ \A k \in 1 .. Len(s) : /\ Items(s, path, l)[k] = [path |-> Append(path, s[k]), node |-> s[k], links |-> l]
                                   /\ s[k] \in Node /\ Append(path, s[k]) \in Seq(Node)
<1> DEFINE t == Items(s, path, l)
<1>1. t = [k \in 1 .. Len(s) |-> [path |-> Append(path, s[k]), node |-> s[k], links |-> l]]
  BY DEF Items
<1>2. \A k \in 1 .. Len(s) : s[k] \in Node /\ Append(path, s[k]) \in Seq(Node)
  OBVIOUS
<1>3. \A k \in 1 .. Len(s) : t[k] \in Item
  BY <1>1, <1>2 DEF Item
<1> HIDE DEF t
<1>4. t \in Seq(Item) /\ Len(t) = Len(s) /\ DOMAIN t = 1 .. Len(s)
  BY <1>1, <1>3
<1> QED BY <1>1, <1>2, <1>4 DEF t

(* Counting levels.                                                        *)
LEMMA LevelsCount ==
  ASSUME NEW a \in Nat, NEW b \in Nat, NEW t \in Nat, NEW h \in 0 .. t, NEW g \in 0 .. t
  PROVE  /\ a * (t + 1) + h + 1 \in Nat \ {0}
         /\ a <= b => a * (t + 1) + h + 1 <= (b + 1) * (t + 1)
         /\ a < b => a * (t + 1) + h + 1 < b * (t + 1) + g + 1
<1> DEFINE m == t + 1
<1>1. m \in Nat /\ h < m /\ g < m
  OBVIOUS
<1>2. a * m \in Nat /\ b * m \in Nat /\ (b + 1) * m = b * m + m /\ (a + 1) * m = a * m + m
  OBVIOUS
<1>3. \A x, y \in Nat : x <= y => x * m <= y * m
  <2> SUFFICES ASSUME NEW x \in Nat, NEW y \in Nat, x <= y PROVE x * m <= y * m
    OBVIOUS
  <2>1. (y - x) * m \in Nat
    <3>1. y - x \in Nat
      OBVIOUS
    <3> QED BY <1>1, <3>1
  <2>2. y * m = x * m + (y - x) * m
    BY <1>1
  <2>3. x * m \in Nat /\ y * m \in Nat
    BY <1>1
  <2> QED BY <2>1, <2>2, <2>3
<1>4. a <= b => a * m <= b * m
  BY <1>3
<1>5. a < b => (a + 1) * m <= b * m
  <2>1. a < b => a + 1 <= b
    OBVIOUS
  <2> HIDE DEF m
  <2> QED BY <1>3, <2>1
<1>6. a * m + h + 1 \in Nat \ {0}
  <2> HIDE DEF m
  <2> QED BY <1>2
<1>7. a <= b => a * m + h + 1 <= (b + 1) * m
  <2> HIDE DEF m
  <2> QED BY <1>1, <1>2, <1>4
<1>8. a < b => a * m + h + 1 < b * m + g + 1
  <2> HIDE DEF m
  <2> QED BY <1>1, <1>2, <1>5
<1> QED BY <1>6, <1>7, <1>8

LEMMA LevelsAre ==
  ASSUME NEW item \in Item
  PROVE  Levels(item) \in 1 .. MostLevels
<1>1. /\ item.node \in Node /\ item.links \in 0 .. LinkLimit
      /\ LinkLimit \in Nat /\ TreeHeight \in Nat /\ Height[item.node] \in 0 .. TreeHeight
  BY TreeAssumption, CallAssumption DEF Item
<1>2. LinkLimit - item.links \in Nat /\ LinkLimit - item.links <= LinkLimit
  BY <1>1
<1> DEFINE a == LinkLimit - item.links
<1>3. /\ a * (TreeHeight + 1) + Height[item.node] + 1 \in Nat \ {0}
      /\ a * (TreeHeight + 1) + Height[item.node] + 1 <= (LinkLimit + 1) * (TreeHeight + 1)
  <2> HIDE DEF a
  <2> QED BY <1>1, <1>2, LevelsCount DEF a
<1>4. MostLevels \in Nat
  BY <1>1 DEF MostLevels
<1> HIDE DEF a
<1>5. Levels(item) = a * (TreeHeight + 1) + Height[item.node] + 1
  BY DEF Levels, a
<1>6. Levels(item) \in Nat \ {0} /\ Levels(item) <= MostLevels
  BY <1>3, <1>5 DEF MostLevels
<1> QED BY <1>4, <1>6

LEMMA FollowedIs ==
  ASSUME NEW item \in Item, item.links < LinkLimit, Kind(item.node) = "link"
  PROVE  /\ Followed(item) \in Item
         /\ Followed(item) = [path |-> item.path, node |-> Tree[item.node].target, links |-> item.links + 1]
         /\ Levels(Followed(item)) < Levels(item)
<1>1. /\ item.node \in Node /\ item.links \in 0 .. LinkLimit /\ item.path \in Seq(Node)
      /\ item = [path |-> item.path, node |-> item.node, links |-> item.links]
  BY DEF Item
<1>2. /\ Tree[item.node].target \in Node
      /\ LinkLimit \in Nat /\ TreeHeight \in Nat
      /\ Height[item.node] \in 0 .. TreeHeight
  BY <1>1, TreeAssumption, CallAssumption DEF Kind
<1>3. Height[Tree[item.node].target] \in 0 .. TreeHeight
  BY <1>2, TreeAssumption
<1>4. Followed(item) = [path |-> item.path, node |-> Tree[item.node].target, links |-> item.links + 1]
  <2> DEFINE f == [item EXCEPT !.node = Tree[item.node].target, !.links = @ + 1]
  <2>1. item.links + 1 \in 0 .. LinkLimit
    BY <1>1, <1>2
  <2>2. f.path = item.path /\ f.node = Tree[item.node].target /\ f.links = item.links + 1
    BY DEF Item
  <2>3. f \in Item
    BY <1>2, <2>1 DEF Item
  <2> HIDE DEF f
  <2>4. f = [path |-> f.path, node |-> f.node, links |-> f.links]
    BY <2>3 DEF Item
  <2>5. Followed(item) = f
    BY DEF Followed, f
  <2> QED BY <2>2, <2>4, <2>5
<1>5. Followed(item) \in Item
  BY <1>1, <1>2, <1>4 DEF Item
<1> DEFINE a == LinkLimit - (item.links + 1)
           b == LinkLimit - item.links
           h == Height[Tree[item.node].target]
           g == Height[item.node]
<1>6. a \in Nat /\ b \in Nat /\ a < b
  BY <1>1, <1>2
<1>7. Levels(Followed(item)) = a * (TreeHeight + 1) + h + 1 /\ Levels(item) = b * (TreeHeight + 1) + g + 1
  BY <1>4 DEF Levels
<1>8. h \in 0 .. TreeHeight /\ g \in 0 .. TreeHeight
  BY <1>2, <1>3
<1> HIDE DEF a, b, h, g
<1>9. a * (TreeHeight + 1) + h + 1 < b * (TreeHeight + 1) + g + 1
  BY <1>2, <1>6, <1>8, LevelsCount
<1> QED BY <1>4, <1>5, <1>7, <1>9

(* What is below an item has fewer levels.                                 *)
LEMMA BelowIs ==
  ASSUME NEW item \in Item, NEW zip \in BOOLEAN
  PROVE  /\ Below(item, zip) \in Seq(Item)
         /\ \A k \in DOMAIN Below(item, zip) : /\ Below(item, zip)[k] \in Item
                                               /\ Levels(Below(item, zip)[k]) < Levels(item)
<1> DEFINE b == Below(item, zip)
<1>1. item.node \in Node /\ item.links \in 0 .. LinkLimit /\ item.path \in Seq(Node)
  BY DEF Item
<1>2. CASE Kind(item.node) = "dir"
  <2>1. b = Items(Tree[item.node].children, item.path, item.links)
    BY <1>2 DEF Below
  <2> DEFINE c == Tree[item.node].children
  <2>2. c \in Seq(Node) /\ \A k \in DOMAIN c : Height[c[k]] < Height[item.node]
    BY <1>1, <1>2, TreeAssumption DEF Kind
  <2> HIDE DEF c
  <2>3. /\ Items(c, item.path, item.links) \in Seq(Item)
        /\ DOMAIN Items(c, item.path, item.links) = 1 .. Len(c)
        /\ \A k \in 1 .. Len(c) :
             /\ Items(c, item.path, item.links)[k] = [path |-> Append(item.path, c[k]), node |-> c[k], links |-> item.links]
             /\ c[k] \in Node
    BY <1>1, <2>2, ItemsAre, ZenonT(60)
  <2>4. ASSUME NEW k \in 1 .. Len(c) PROVE Levels(Items(c, item.path, item.links)[k]) < Levels(item)
    <3>1. /\ Height[c[k]] < Height[item.node]
          /\ Height[c[k]] \in Nat /\ Height[item.node] \in Nat
      BY <1>1, <2>2, <2>3, <2>4, TreeAssumption
    <3> DEFINE m == (LinkLimit - item.links) * (TreeHeight + 1)
    <3>2. m \in Int
      BY <1>1, TreeAssumption, CallAssumption
    <3>3. /\ Levels(item) = m + Height[item.node] + 1
          /\ Levels(Items(c, item.path, item.links)[k]) = m + Height[c[k]] + 1
      <4>1. /\ Items(c, item.path, item.links)[k].links = item.links
            /\ Items(c, item.path, item.links)[k].node = c[k]
        <5>1. Items(c, item.path, item.links)[k] = [path |-> Append(item.path, c[k]), node |-> c[k], links |-> item.links]
          BY <2>3
        <5> HIDE DEF c
        <5> QED BY <5>1
      <4> QED BY <4>1 DEF Levels
    <3> HIDE DEF m
    <3> QED BY <3>1, <3>2, <3>3
  <2>5. \A k \in 1 .. Len(c) : Items(c, item.path, item.links)[k] \in Item
    BY <2>3
  <2> QED BY <2>1, <2>3, <2>4, <2>5 DEF c
<1>3. CASE Kind(item.node) = "link" /\ zip /\ item.links < LinkLimit
  <2>1. b = <<Followed(item)>>
    BY <1>3 DEF Below
  <2>2. Followed(item) \in Item /\ Levels(Followed(item)) < Levels(item)
    BY <1>3, FollowedIs
  <2> QED BY <2>1, <2>2
<1>4. CASE Kind(item.node) # "dir" /\ ~ (Kind(item.node) = "link" /\ zip /\ item.links < LinkLimit)
  <2>1. b = <<>>
    BY <1>4 DEF Below
  <2> QED BY <2>1
<1> QED BY <1>2, <1>3, <1>4

LEMMA OwnUnitsAre ==
  ASSUME NEW item \in Item, NEW zip \in BOOLEAN
  PROVE  /\ OwnUnits(item, zip) \in Seq(AnyUnit)
         /\ IsInjective(OwnUnits(item, zip))
         /\ \A k \in DOMAIN OwnUnits(item, zip) : OwnUnits(item, zip)[k] = Unit(item.path, k - 1)
<1> DEFINE u == OwnUnits(item, zip)
<1>1. item.node \in Node /\ item.path \in Seq(Node) /\ Size(item.node) \in Nat
  BY TreeAssumption DEF Item, Size
<1>2. \A k \in Nat : Unit(item.path, k) \in AnyUnit
  BY <1>1 DEF Unit, AnyUnit
<1>3. CASE u = <<Unit(item.path, 0)>>
  <2>1. Unit(item.path, 0) \in AnyUnit
    BY <1>2
  <2> HIDE DEF u
  <2>2. u \in Seq(AnyUnit) /\ DOMAIN u = 1 .. 1 /\ u[1] = Unit(item.path, 1 - 1)
    BY <1>3, <2>1
  <2> QED BY <2>2 DEF IsInjective, u
<1>4. CASE u = <<>>
  BY <1>4 DEF IsInjective
<1>5. CASE u = [k \in 1 .. Size(item.node) + 1 |-> Unit(item.path, k - 1)]
  <2> HIDE DEF u
  <2>1. DOMAIN u = 1 .. Size(item.node) + 1
    BY <1>5
  <2>2. \A k \in 1 .. Size(item.node) + 1 : u[k] = Unit(item.path, k - 1) /\ k - 1 \in Nat
    BY <1>1, <1>5
  <2>3. \A k \in 1 .. Size(item.node) + 1 : u[k] \in AnyUnit
    BY <1>2, <2>2
  <2>4. u \in Seq(AnyUnit)
    BY <1>1, <1>5, <2>3
  <2>5. ASSUME NEW a \in DOMAIN u, NEW b \in DOMAIN u, u[a] = u[b] PROVE a = b
    <3>1. Unit(item.path, a - 1) = Unit(item.path, b - 1) /\ a \in Nat /\ b \in Nat
      BY <2>1, <2>2, <2>5
    <3> QED BY <3>1 DEF Unit
  <2> QED BY <2>1, <2>2, <2>4, <2>5 DEF IsInjective, u
<1> QED BY <1>3, <1>4, <1>5 DEF OwnUnits
-----------------------------------------------------------------------------
(* One more level.                                                         *)
Layer(g, zip) ==
  [item \in Item |-> OwnUnits(item, zip) \o
     FlattenSeq([k \in DOMAIN Below(item, zip) |-> g[Below(item, zip)[k]]])]

LEMMA LayerIs ==
  ASSUME NEW zip \in BOOLEAN, NEW g \in [Item -> Seq(AnyUnit)]
  PROVE  /\ Layer(g, zip) \in [Item -> Seq(AnyUnit)]
         /\ \A item \in Item : [k \in DOMAIN Below(item, zip) |-> g[Below(item, zip)[k]]] \in Seq(Seq(AnyUnit))
<1>1. ASSUME NEW item \in Item
      PROVE  /\ [k \in DOMAIN Below(item, zip) |-> g[Below(item, zip)[k]]] \in Seq(Seq(AnyUnit))
             /\ OwnUnits(item, zip) \o FlattenSeq([k \in DOMAIN Below(item, zip) |-> g[Below(item, zip)[k]]]) \in Seq(AnyUnit)
  <2> DEFINE b == Below(item, zip)
             f == [k \in DOMAIN b |-> g[b[k]]]
  <2>1. b \in Seq(Item) /\ \A k \in DOMAIN b : b[k] \in Item
    BY BelowIs
  <2> HIDE DEF b
  <2>2. f \in Seq(Seq(AnyUnit))
    <3>1. \A k \in 1 .. Len(b) : f[k] \in Seq(AnyUnit)
      BY <2>1
    <3>2. f = [k \in 1 .. Len(b) |-> g[b[k]]]
      BY <2>1
    <3> QED BY <2>1, <3>1, <3>2
  <2> HIDE DEF f
  <2>3. FlattenSeq(f) \in Seq(AnyUnit)
    <3>1. <<>> \in Seq(AnyUnit)
      OBVIOUS
    <3> QED BY <2>2, <3>1, FlattenAppend
  <2>4. OwnUnits(item, zip) \in Seq(AnyUnit)
    BY OwnUnitsAre
  <2>5. OwnUnits(item, zip) \o FlattenSeq(f) \in Seq(AnyUnit)
    BY <2>3, <2>4, ConcatProperties
  <2> QED BY <2>2, <2>5 DEF b, f
<1> QED BY <1>1 DEF Layer

LEMMA ArchivedIs ==
  ASSUME NEW zip \in BOOLEAN
  PROVE  /\ Archived(zip) \in [0 .. MostLevels -> [Item -> Seq(AnyUnit)]]
         /\ \A l \in 1 .. MostLevels : Archived(zip)[l] = Layer(Archived(zip)[l - 1], zip)
<1> DEFINE V == [Item -> Seq(AnyUnit)]
           top == MostLevels
           base == [item \in Item |-> <<>>]
           F == CHOOSE h : h = [l \in 0 .. top |->
                  [item \in Item |->
                    IF l = 0 THEN <<>>
                    ELSE OwnUnits(item, zip) \o
                         FlattenSeq([k \in DOMAIN Below(item, zip) |-> h[l - 1][Below(item, zip)[k]]])]]
           G == [l \in Nat |-> [g \in V |-> Layer(g, zip)]]
<1>1. top \in Nat
  <2>1. LinkLimit + 1 \in Nat /\ TreeHeight + 1 \in Nat
    BY TreeAssumption, CallAssumption
  <2> QED BY <2>1 DEF MostLevels
<1>2. Archived(zip) = F
  BY DEF Archived
<1> HIDE DEF top
<1>3. base \in V /\ G \in [Nat -> [V -> V]]
  BY LayerIs
<1>4. PICK g \in [0 .. top -> V] : Iterates(g, base, G, top)
  <2> HIDE DEF V, base, G
  <2> QED BY <1>1, <1>3, Recursion
<1>5. g[0] = base /\ \A l \in 1 .. top : g[l] = Layer(g[l - 1], zip) /\ g[l - 1] \in V
  <2>1. \A l \in 1 .. top : l \in Nat /\ l - 1 \in 0 .. top
    BY <1>1
  <2>2. \A l \in 1 .. top : g[l - 1] \in V /\ g[l] = G[l][g[l - 1]]
    <3> HIDE DEF V, base, G
    <3> QED BY <1>4, <2>1 DEF Iterates
  <2>3. g[0] = base
    BY <1>4 DEF Iterates
  <2> QED BY <2>1, <2>2, <2>3
<1>6. g = [l \in 0 .. top |->
            [item \in Item |->
              IF l = 0 THEN <<>>
              ELSE OwnUnits(item, zip) \o
                   FlattenSeq([k \in DOMAIN Below(item, zip) |-> g[l - 1][Below(item, zip)[k]]])]]
  <2>1. ASSUME NEW l \in 0 .. top
        PROVE  g[l] = [item \in Item |->
                        IF l = 0 THEN <<>>
                        ELSE OwnUnits(item, zip) \o
                             FlattenSeq([k \in DOMAIN Below(item, zip) |-> g[l - 1][Below(item, zip)[k]]])]
    <3>1. CASE l = 0
      BY <1>5, <3>1
    <3>2. CASE l # 0
      <4>1. l \in 1 .. top
        BY <1>1, <3>2
      <4>2. g[l] = Layer(g[l - 1], zip)
        BY <1>5, <4>1
      <4> QED BY <3>2, <4>2 DEF Layer
    <3> QED BY <3>1, <3>2
  <2>2. g = [l \in 0 .. top |-> g[l]]
    OBVIOUS
  <2> QED BY <2>1, <2>2
<1>7. F = [l \in 0 .. top |->
            [item \in Item |->
              IF l = 0 THEN <<>>
              ELSE OwnUnits(item, zip) \o
                   FlattenSeq([k \in DOMAIN Below(item, zip) |-> F[l - 1][Below(item, zip)[k]]])]]
  BY <1>6, Zenon
<1> HIDE DEF F
<1>8. F[0] = base
  <2>1. 0 \in 0 .. top
    BY <1>1
  <2>2. F[0] = [item \in Item |->
              IF 0 = 0 THEN <<>>
              ELSE OwnUnits(item, zip) \o
                   FlattenSeq([k \in DOMAIN Below(item, zip) |-> F[0 - 1][Below(item, zip)[k]]])]
    BY <1>7, <2>1
  <2> QED BY <2>2
<1>9. \A l \in 1 .. top : F[l] = Layer(F[l - 1], zip)
  <2> SUFFICES ASSUME NEW l \in 1 .. top PROVE F[l] = Layer(F[l - 1], zip)
    OBVIOUS
  <2>1. l \in 0 .. top /\ l # 0
    BY <1>1
  <2>2. F[l] = [item \in Item |->
              IF l = 0 THEN <<>>
              ELSE OwnUnits(item, zip) \o
                   FlattenSeq([k \in DOMAIN Below(item, zip) |-> F[l - 1][Below(item, zip)[k]]])]
    BY <1>7, <2>1
  <2> QED BY <2>1, <2>2 DEF Layer
<1> DEFINE Good == {l \in Nat : l \in 0 .. top => F[l] \in V}
<1>10. Nat \subseteq Good
  <2>1. 0 \in Good
    <3> HIDE DEF V, base
    <3> QED BY <1>3, <1>8
  <2>2. ASSUME NEW m \in Nat, m \in Good PROVE m + 1 \in Good
    <3> SUFFICES ASSUME m + 1 \in 0 .. top PROVE F[m + 1] \in V
      OBVIOUS
    <3>1. m \in 0 .. top /\ m + 1 \in 1 .. top /\ (m + 1) - 1 = m
      BY <1>1
    <3>2. F[m] \in V /\ F[m + 1] = Layer(F[m], zip)
      <4> HIDE DEF V
      <4> QED BY <1>9, <2>2, <3>1
    <3> QED BY <3>2, LayerIs
  <2> HIDE DEF Good
  <2> QED BY <2>1, <2>2, Induction
<1>11. F \in [0 .. top -> V]
  <2>1. \A l \in 0 .. top : F[l] \in V
    <3> HIDE DEF V
    <3> QED BY <1>1, <1>10
  <2>2. F = [l \in 0 .. top |-> F[l]]
    BY <1>7
  <2> HIDE DEF V
  <2> QED BY <2>1, <2>2
<1> QED BY <1>2, <1>9, <1>11 DEF top

(* Levels below the last change nothing.                                   *)
LEMMA LevelsSuffice ==
  ASSUME NEW zip \in BOOLEAN
  PROVE  \A item \in Item : \A l \in Levels(item) .. MostLevels : Archived(zip)[l][item] = Packed(item, zip)
<1> DEFINE A == Archived(zip)
           Good == {l \in Nat : \A j \in 0 .. l : \A item \in Item :
                               j <= MostLevels /\ Levels(item) <= j => A[j][item] = A[Levels(item)][item]}
<1>1. /\ A \in [0 .. MostLevels -> [Item -> Seq(AnyUnit)]]
      /\ \A l \in 1 .. MostLevels : A[l] = Layer(A[l - 1], zip)
  BY ArchivedIs
<1>2. \A item \in Item : Levels(item) \in 1 .. MostLevels
  BY LevelsAre
<1>3. MostLevels \in Nat
  <2>1. LinkLimit + 1 \in Nat /\ TreeHeight + 1 \in Nat
    BY TreeAssumption, CallAssumption
  <2> QED BY <2>1 DEF MostLevels
<1> HIDE DEF A
<1>4. 0 \in Good
  BY <1>2
<1>5. ASSUME NEW m \in Nat, m \in Good PROVE m + 1 \in Good
  <2> SUFFICES ASSUME NEW j \in 0 .. m + 1, NEW item \in Item, j <= MostLevels, Levels(item) <= j
               PROVE  A[j][item] = A[Levels(item)][item]
    OBVIOUS
  <2> DEFINE n == Levels(item)
             b == Below(item, zip)
  <2>1. n \in 1 .. MostLevels /\ j \in 1 .. MostLevels /\ n <= j /\ n - 1 \in 0 .. m /\ j - 1 \in 0 .. m
        /\ n - 1 <= MostLevels /\ j - 1 <= MostLevels /\ n - 1 <= j - 1
    BY <1>2, <1>3
  <2>2. b \in Seq(Item) /\ \A k \in DOMAIN b : b[k] \in Item /\ Levels(b[k]) < n
    BY BelowIs
  <2> HIDE DEF n, b
  <2>3. \A k \in DOMAIN b : A[j - 1][b[k]] = A[n - 1][b[k]]
    <3> SUFFICES ASSUME NEW k \in DOMAIN b PROVE A[j - 1][b[k]] = A[n - 1][b[k]]
      OBVIOUS
    <3>1. b[k] \in Item /\ Levels(b[k]) \in Nat /\ Levels(b[k]) <= n - 1 /\ Levels(b[k]) <= j - 1
      BY <1>2, <2>1, <2>2
    <3>2. A[j - 1][b[k]] = A[Levels(b[k])][b[k]] /\ A[n - 1][b[k]] = A[Levels(b[k])][b[k]]
      BY <1>5, <2>1, <3>1
    <3> QED BY <3>2
  <2>4. [k \in DOMAIN b |-> A[j - 1][b[k]]] = [k \in DOMAIN b |-> A[n - 1][b[k]]]
    BY <2>3
  <2>5. /\ A[j][item] = OwnUnits(item, zip) \o FlattenSeq([k \in DOMAIN b |-> A[j - 1][b[k]]])
        /\ A[n][item] = OwnUnits(item, zip) \o FlattenSeq([k \in DOMAIN b |-> A[n - 1][b[k]]])
    BY <1>1, <2>1 DEF Layer, b
  <2> QED BY <2>4, <2>5 DEF n
<1>6. Nat \subseteq Good
  <2> HIDE DEF Good
  <2> QED BY <1>4, <1>5, Induction
<1> SUFFICES ASSUME NEW item \in Item, NEW l \in Levels(item) .. MostLevels
             PROVE  A[l][item] = A[Levels(item)][item]
  BY DEF Packed, A
<1>7. l \in Nat /\ l \in 0 .. l /\ l <= MostLevels /\ Levels(item) <= l
  BY <1>2, <1>3
<1>8. l \in Good
  BY <1>6, <1>7
<1> QED BY <1>7, <1>8
-----------------------------------------------------------------------------
Parts(items, zip) == [k \in DOMAIN items |-> Packed(items[k], zip)]

LEMMA PackedType ==
  ASSUME NEW item \in Item, NEW zip \in BOOLEAN
  PROVE  Packed(item, zip) \in Seq(AnyUnit)
<1>1. Levels(item) \in 0 .. MostLevels
  <2>1. Levels(item) \in 1 .. MostLevels
    BY LevelsAre
  <2> QED BY <2>1
<1>2. Archived(zip)[Levels(item)] \in [Item -> Seq(AnyUnit)]
  BY <1>1, ArchivedIs
<1> QED BY <1>2 DEF Packed

LEMMA PartsAre ==
  ASSUME NEW items \in Seq(Item), NEW zip \in BOOLEAN
  PROVE  /\ Parts(items, zip) \in Seq(Seq(AnyUnit)) /\ Len(Parts(items, zip)) = Len(items)
         /\ DOMAIN Parts(items, zip) = 1 .. Len(items)
         /\ \A k \in 1 .. Len(items) : Parts(items, zip)[k] = Packed(items[k], zip) /\ items[k] \in Item
         /\ Archive(items, zip) = FlattenSeq(Parts(items, zip))
         /\ Archive(items, zip) \in Seq(AnyUnit)
<1> DEFINE p == Parts(items, zip)
<1>1. \A k \in 1 .. Len(items) : items[k] \in Item /\ Packed(items[k], zip) \in Seq(AnyUnit)
  BY PackedType
<1>2. p = [k \in 1 .. Len(items) |-> Packed(items[k], zip)]
  BY DEF Parts
<1>3. Archive(items, zip) = FlattenSeq(p)
  BY DEF Archive, Parts
<1> HIDE DEF p
<1>4. p \in Seq(Seq(AnyUnit)) /\ Len(p) = Len(items) /\ DOMAIN p = 1 .. Len(items)
  <2>1. \A k \in 1 .. Len(items) : p[k] \in Seq(AnyUnit)
    BY <1>1, <1>2
  <2> QED BY <1>2, <2>1
<1>5. FlattenSeq(p) \in Seq(AnyUnit)
  <2>1. <<>> \in Seq(AnyUnit)
    OBVIOUS
  <2> QED BY <1>4, <2>1, FlattenAppend
<1> QED BY <1>1, <1>2, <1>3, <1>4, <1>5 DEF p

LEMMA ArchiveConcat ==
  ASSUME NEW s \in Seq(Item), NEW t \in Seq(Item), NEW zip \in BOOLEAN
  PROVE  Archive(s \o t, zip) = Archive(s, zip) \o Archive(t, zip)
<1> DEFINE x == Parts(s, zip)
           y == Parts(t, zip)
           z == Parts(s \o t, zip)
           W == Seq(AnyUnit)
<1>1. /\ s \o t \in Seq(Item) /\ Len(s \o t) = Len(s) + Len(t)
      /\ \A j \in 1 .. Len(s) : (s \o t)[j] = s[j]
      /\ \A j \in 1 .. Len(t) : (s \o t)[Len(s) + j] = t[j]
  BY ConcatIs
<1>2. /\ x \in Seq(W) /\ Len(x) = Len(s) /\ \A k \in 1 .. Len(s) : x[k] = Packed(s[k], zip)
      /\ y \in Seq(W) /\ Len(y) = Len(t) /\ \A k \in 1 .. Len(t) : y[k] = Packed(t[k], zip)
      /\ Archive(s, zip) = FlattenSeq(x) /\ Archive(t, zip) = FlattenSeq(y)
  BY PartsAre
<1>3. /\ z \in Seq(W) /\ Len(z) = Len(s) + Len(t)
      /\ \A k \in 1 .. Len(s) + Len(t) : z[k] = Packed((s \o t)[k], zip)
      /\ Archive(s \o t, zip) = FlattenSeq(z)
  <2> DEFINE st == s \o t
  <2>1. st \in Seq(Item) /\ Len(st) = Len(s) + Len(t)
    BY <1>1
  <2> HIDE DEF st
  <2>2. /\ Parts(st, zip) \in Seq(W) /\ Len(Parts(st, zip)) = Len(st)
        /\ \A k \in 1 .. Len(st) : Parts(st, zip)[k] = Packed(st[k], zip)
        /\ Archive(st, zip) = FlattenSeq(Parts(st, zip))
    BY <2>1, PartsAre
  <2> QED BY <2>1, <2>2 DEF st
<1> HIDE DEF x, y, z, W
<1>4. /\ x \o y \in Seq(W) /\ Len(x \o y) = Len(x) + Len(y)
      /\ \A j \in 1 .. Len(x) : (x \o y)[j] = x[j]
      /\ \A j \in 1 .. Len(y) : (x \o y)[Len(x) + j] = y[j]
  <2>1. x \in Seq(W) /\ y \in Seq(W)
    BY <1>2
  <2> QED BY <2>1, ConcatIs
<1>5. ASSUME NEW k \in 1 .. Len(z) PROVE z[k] = (x \o y)[k]
  <2>1. CASE k \in 1 .. Len(s)
    BY <1>1, <1>2, <1>3, <1>4, <2>1
  <2>2. CASE k \notin 1 .. Len(s)
    <3>1. k - Len(s) \in 1 .. Len(t) /\ Len(s) + (k - Len(s)) = k /\ Len(x) = Len(s)
      BY <1>2, <1>3, <2>2
    <3>2. (s \o t)[k] = t[k - Len(s)] /\ (x \o y)[k] = y[k - Len(s)]
      BY <1>1, <1>2, <1>4, <3>1
    <3> QED BY <1>2, <1>3, <3>1, <3>2
  <2> QED BY <2>1, <2>2
<1>6. z = x \o y
  <2>1. Len(z) = Len(x \o y)
    BY <1>2, <1>3, <1>4
  <2> QED BY <1>3, <1>4, <1>5, <2>1, SeqEqual
<1>7. FlattenSeq(x \o y) = FlattenSeq(x) \o FlattenSeq(y)
  BY <1>2, FlattenConcat DEF W
<1> QED BY <1>2, <1>3, <1>6, <1>7

LEMMA ArchiveNone ==
  ASSUME NEW zip \in BOOLEAN
  PROVE  Archive(<<>>, zip) = <<>>
<1>1. [k \in DOMAIN <<>> |-> Packed(<<>>[k], zip)] = <<>>
  OBVIOUS
<1> QED BY <1>1 DEF Archive, FlattenSeq

LEMMA ArchiveOne ==
  ASSUME NEW item \in Item, NEW zip \in BOOLEAN
  PROVE  Archive(<<item>>, zip) = Packed(item, zip) /\ Archive(<<>>, zip) = <<>>
<1>1. Packed(item, zip) \in Seq(AnyUnit)
  BY PackedType
<1> DEFINE p == Packed(item, zip)
           V == AnyUnit
<1>2. Archive(<<item>>, zip) = FlattenSeq(<<p>>)
  <2>1. [k \in DOMAIN <<item>> |-> Packed(<<item>>[k], zip)] = <<p>>
    <3>1. \A k \in 1 .. 1 : <<item>>[k] = item
      OBVIOUS
    <3>2. DOMAIN <<item>> = 1 .. 1
      OBVIOUS
    <3>3. [k \in DOMAIN <<item>> |-> Packed(<<item>>[k], zip)] = [k \in 1 .. 1 |-> p]
      BY <3>1, <3>2
    <3> HIDE DEF p
    <3>4. [k \in 1 .. 1 |-> p] = <<p>>
      OBVIOUS
    <3> QED BY <3>3, <3>4
  <2> HIDE DEF p
  <2> QED BY <2>1 DEF Archive
<1> HIDE DEF p, V
<1>3. FlattenSeq(<<p>>) = p
  <2>1. <<>> \in Seq(Seq(V)) /\ p \in Seq(V) /\ <<>> \in Seq(V)
    BY <1>1 DEF p, V
  <2>2. FlattenSeq(Append(<<>>, p)) = FlattenSeq(<<>>) \o p
    BY <2>1, FlattenAppend
  <2>3. FlattenSeq(<<>>) = <<>>
    BY DEF FlattenSeq
  <2>4. Append(<<>>, p) = <<p>> /\ <<>> \o p = p
    BY <2>1, ConcatEmptySeq
  <2> QED BY <2>2, <2>3, <2>4
<1>4. Archive(<<>>, zip) = <<>>
  BY ArchiveNone
<1> QED BY <1>2, <1>3, <1>4 DEF p

(* An item is packed as its own units and then what is below it.           *)
LEMMA PackedIs ==
  ASSUME NEW item \in Item, NEW zip \in BOOLEAN
  PROVE  Packed(item, zip) = OwnUnits(item, zip) \o Archive(Below(item, zip), zip)
<1> DEFINE A == Archived(zip)
           n == Levels(item)
           b == Below(item, zip)
<1>1. n \in 1 .. MostLevels
  BY LevelsAre
<1>2. MostLevels \in Nat
  <2>1. LinkLimit + 1 \in Nat /\ TreeHeight + 1 \in Nat
    BY TreeAssumption, CallAssumption
  <2> QED BY <2>1 DEF MostLevels
<1>3. A[n] = Layer(A[n - 1], zip)
  BY <1>1, ArchivedIs
<1>4. A[n][item] = OwnUnits(item, zip) \o FlattenSeq([k \in DOMAIN b |-> A[n - 1][b[k]]])
  BY <1>3 DEF Layer
<1>5. \A k \in DOMAIN b : b[k] \in Item /\ Levels(b[k]) < n
  BY BelowIs
<1>6. \A k \in DOMAIN b : A[n - 1][b[k]] = Packed(b[k], zip)
  <2> SUFFICES ASSUME NEW k \in DOMAIN b PROVE A[n - 1][b[k]] = Packed(b[k], zip)
    OBVIOUS
  <2>1. b[k] \in Item /\ Levels(b[k]) < n
    BY <1>5
  <2> HIDE DEF n, b
  <2>2. Levels(b[k]) \in 1 .. MostLevels
    BY <2>1, LevelsAre
  <2>3. n - 1 \in Levels(b[k]) .. MostLevels
    BY <1>1, <1>2, <2>1, <2>2
  <2> QED BY <2>1, <2>3, LevelsSuffice
<1> HIDE DEF A, n, b
<1>7. [k \in DOMAIN b |-> A[n - 1][b[k]]] = [k \in DOMAIN b |-> Packed(b[k], zip)]
  BY <1>6
<1>8. FlattenSeq([k \in DOMAIN b |-> A[n - 1][b[k]]]) = Archive(b, zip)
  BY <1>7 DEF Archive
<1>9. Packed(item, zip) = A[n][item]
  BY DEF Packed, A, n
<1> QED BY <1>4, <1>8, <1>9 DEF b

LEMMA ArchiveHead ==
  ASSUME NEW items \in Seq(Item), items # <<>>, NEW zip \in BOOLEAN
  PROVE  /\ Head(items) \in Item /\ Tail(items) \in Seq(Item)
         /\ Archive(items, zip) = Packed(Head(items), zip) \o Archive(Tail(items), zip)
<1>1. Head(items) \in Item /\ Tail(items) \in Seq(Item) /\ <<Head(items)>> \in Seq(Item)
  OBVIOUS
<1>2. items = <<Head(items)>> \o Tail(items)
  OBVIOUS
<1> DEFINE h == Head(items)
           t == Tail(items)
<1> HIDE DEF h, t
<1>3. Archive(<<h>> \o t, zip) = Archive(<<h>>, zip) \o Archive(t, zip)
  BY <1>1, ArchiveConcat DEF h, t
<1>4. Archive(<<h>>, zip) = Packed(h, zip)
  BY <1>1, ArchiveOne DEF h
<1> QED BY <1>1, <1>2, <1>3, <1>4 DEF h, t
-----------------------------------------------------------------------------
(* A path in front of a path, and the units below an item.                 *)
Under(p, q) == Len(p) <= Len(q) /\ \A j \in 1 .. Len(p) : q[j] = p[j]

Neat(item, zip) == /\ IsInjective(Packed(item, zip))
                   /\ \A u \in Range(Packed(item, zip)) : u \in AnyUnit /\ Under(item.path, u.path)

LEMMA ArchiveRange ==
  ASSUME NEW items \in Seq(Item), NEW zip \in BOOLEAN
  PROVE  \A u : u \in Range(Archive(items, zip)) <=> \E k \in 1 .. Len(items) : u \in Range(Packed(items[k], zip))
<1> DEFINE p == Parts(items, zip)
<1>1. /\ p \in Seq(Seq(AnyUnit)) /\ DOMAIN p = 1 .. Len(items)
      /\ \A k \in 1 .. Len(items) : p[k] = Packed(items[k], zip)
      /\ Archive(items, zip) = FlattenSeq(p)
  BY PartsAre
<1> HIDE DEF p
<1>2. Range(FlattenSeq(p)) = UNION {Range(p[k]) : k \in DOMAIN p}
  BY <1>1, FlattenRange
<1> QED BY <1>1, <1>2

(* Entries of one directory, each with what is below it, share no unit.    *)
LEMMA Siblings ==
  ASSUME NEW s \in Seq(Node), IsInjective(s), NEW path \in Seq(Node), NEW l \in 0 .. LinkLimit,
         NEW zip \in BOOLEAN,
         \A k \in 1 .. Len(s) : Neat(Items(s, path, l)[k], zip)
  PROVE  /\ IsInjective(Archive(Items(s, path, l), zip))
         /\ \A u \in Range(Archive(Items(s, path, l), zip)) :
              u \in AnyUnit /\ Under(path, u.path) /\ Len(u.path) > Len(path)
<1> DEFINE t == Items(s, path, l)
           p == Parts(t, zip)
<1>1. /\ t \in Seq(Item) /\ Len(t) = Len(s)
      /\ \A k \in 1 .. Len(s) : t[k].path = Append(path, s[k]) /\ s[k] \in Node
  <2>1. /\ Items(s, path, l) \in Seq(Item) /\ Len(Items(s, path, l)) = Len(s)
        /\ \A k \in 1 .. Len(s) : /\ Items(s, path, l)[k] = [path |-> Append(path, s[k]), node |-> s[k], links |-> l]
                                  /\ s[k] \in Node
    BY ItemsAre
  <2> HIDE DEF t
  <2>2. \A k \in 1 .. Len(s) : t[k] = [path |-> Append(path, s[k]), node |-> s[k], links |-> l]
    BY <2>1 DEF t
  <2>3. ASSUME NEW k \in 1 .. Len(s) PROVE t[k].path = Append(path, s[k])
    <3> DEFINE q == Append(path, s[k])
    <3>1. t[k] = [path |-> q, node |-> s[k], links |-> l]
      BY <2>2
    <3> HIDE DEF q
    <3>2. t[k].path = q
      BY <3>1
    <3> QED BY <3>2 DEF q
  <2> QED BY <2>1, <2>3 DEF t
<1>2. \A k \in 1 .. Len(s) : /\ IsInjective(Packed(t[k], zip))
                             /\ \A u \in Range(Packed(t[k], zip)) : u \in AnyUnit /\ Under(t[k].path, u.path)
  BY DEF Neat
<1> HIDE DEF t
<1>3. \A k \in 1 .. Len(s) : \A u \in Range(Packed(t[k], zip)) :
         u \in AnyUnit /\ Under(path, u.path) /\ Len(u.path) > Len(path) /\ u.path[Len(path) + 1] = s[k]
  <2> SUFFICES ASSUME NEW k \in 1 .. Len(s), NEW u \in Range(Packed(t[k], zip))
               PROVE  u \in AnyUnit /\ Under(path, u.path) /\ Len(u.path) > Len(path) /\ u.path[Len(path) + 1] = s[k]
    OBVIOUS
  <2> DEFINE q == Append(path, s[k])
  <2>1. u \in AnyUnit /\ Under(q, u.path)
    BY <1>1, <1>2
  <2>2. Len(q) = Len(path) + 1 /\ q[Len(path) + 1] = s[k] /\ \A j \in 1 .. Len(path) : q[j] = path[j]
    BY <1>1
  <2>3. Len(u.path) \in Nat /\ Len(path) \in Nat
    BY <2>1 DEF AnyUnit
  <2> HIDE DEF q
  <2>4. Len(u.path) >= Len(path) + 1 /\ \A j \in 1 .. Len(path) + 1 : u.path[j] = q[j]
    BY <2>1, <2>2 DEF Under
  <2>5. Len(path) + 1 \in 1 .. Len(path) + 1 /\ \A j \in 1 .. Len(path) : j \in 1 .. Len(path) + 1
    BY <2>3
  <2> QED BY <2>1, <2>2, <2>3, <2>4, <2>5 DEF Under
<1>4. /\ p \in Seq(Seq(AnyUnit)) /\ DOMAIN p = 1 .. Len(s)
      /\ \A k \in 1 .. Len(s) : p[k] = Packed(t[k], zip)
      /\ Archive(t, zip) = FlattenSeq(p)
  BY <1>1, PartsAre
<1> HIDE DEF p
<1>5. Separate(p)
  <2>1. \A k \in DOMAIN p : IsInjective(p[k])
    BY <1>2, <1>4
  <2>2. ASSUME NEW j \in 1 .. Len(s), NEW k \in 1 .. Len(s), j # k PROVE Disjoint(p[j], p[k])
    <3>1. s[j] # s[k]
      BY <2>2 DEF IsInjective
    <3>2. \A u \in Range(p[j]), v \in Range(p[k]) : u.path[Len(path) + 1] = s[j] /\ v.path[Len(path) + 1] = s[k]
      BY <1>3, <1>4
    <3> QED BY <3>1, <3>2 DEF Disjoint
  <2> QED BY <1>4, <2>1, <2>2 DEF Separate
<1>6. IsInjective(Archive(t, zip))
  <2>1. IsInjective(FlattenSeq(p)) <=> Separate(p)
    BY <1>4, FlattenInjective
  <2> QED BY <1>4, <1>5, <2>1
<1>7. \A u \in Range(Archive(t, zip)) : u \in AnyUnit /\ Under(path, u.path) /\ Len(u.path) > Len(path)
  BY <1>1, <1>3, ArchiveRange
<1> QED BY <1>6, <1>7 DEF t

(* The units of an item are all different, and lie under its path.         *)
LEMMA ItemsAreNeat ==
  ASSUME NEW zip \in BOOLEAN
  PROVE  \A item \in Item : Neat(item, zip)
<1> DEFINE Good == {l \in Nat : \A item \in Item : Levels(item) <= l => Neat(item, zip)}
<1>1. 0 \in Good
  <2>1. \A item \in Item : ~ (Levels(item) <= 0)
    <3>1. \A item \in Item : Levels(item) \in 1 .. MostLevels
      BY LevelsAre
    <3> QED BY <3>1
  <2> QED BY <2>1
<1>2. ASSUME NEW m \in Nat, m \in Good PROVE m + 1 \in Good
  <2> SUFFICES ASSUME NEW item \in Item, Levels(item) <= m + 1 PROVE Neat(item, zip)
    OBVIOUS
  <2> DEFINE own == OwnUnits(item, zip)
             b == Below(item, zip)
             below == Archive(b, zip)
  <2>1. /\ item.node \in Node /\ item.links \in 0 .. LinkLimit /\ item.path \in Seq(Node)
        /\ Levels(item) \in Nat
    <3>1. Levels(item) \in 1 .. MostLevels
      BY LevelsAre
    <3> QED BY <3>1 DEF Item
  <2>2. Packed(item, zip) = own \o below
    BY PackedIs
  <2>3. own \in Seq(AnyUnit) /\ IsInjective(own) /\ \A k \in DOMAIN own : own[k] = Unit(item.path, k - 1)
    BY OwnUnitsAre
  <2>4. b \in Seq(Item) /\ \A k \in DOMAIN b : b[k] \in Item /\ Levels(b[k]) < Levels(item)
    BY BelowIs
  <2>5. below \in Seq(AnyUnit)
    BY <2>4, PartsAre
  <2>6. \A k \in DOMAIN b : Neat(b[k], zip)
    <3> SUFFICES ASSUME NEW k \in DOMAIN b PROVE Neat(b[k], zip)
      OBVIOUS
    <3>1. b[k] \in Item /\ Levels(b[k]) < Levels(item)
      BY <2>4
    <3> HIDE DEF b
    <3>2. Levels(b[k]) \in 1 .. MostLevels
      BY <3>1, LevelsAre
    <3>3. Levels(b[k]) <= m
      BY <2>1, <3>1, <3>2
    <3> QED BY <1>2, <3>1, <3>3
  <2>7. \A u \in Range(own) : u \in AnyUnit /\ u.path = item.path
    <3> HIDE DEF own
    <3>1. ASSUME NEW k \in DOMAIN own PROVE own[k] \in AnyUnit /\ own[k].path = item.path
      BY <2>3 DEF Unit
    <3> QED BY <3>1 DEF Range
  <2>8. Under(item.path, item.path)
    BY <2>1 DEF Under
  <2>9. /\ Range(own \o below) = Range(own) \cup Range(below)
        /\ IsInjective(own \o below) <=> (IsInjective(own) /\ IsInjective(below) /\ Disjoint(own, below))
    <3> HIDE DEF own, below
    <3> QED BY <2>3, <2>5, ConcatRange, ConcatInjective
  <2>10. CASE Kind(item.node) = "dir"
    <3> DEFINE c == Tree[item.node].children
    <3>1. b = Items(c, item.path, item.links)
      BY <2>10 DEF Below
    <3>2. c \in Seq(Node) /\ IsInjective(c)
      BY <2>1, TreeAssumption
    <3> HIDE DEF c
    <3>3. Len(Items(c, item.path, item.links)) = Len(c) /\ DOMAIN Items(c, item.path, item.links) = 1 .. Len(c)
      BY <2>1, <3>2, ItemsAre
    <3>4. \A k \in 1 .. Len(c) : Neat(Items(c, item.path, item.links)[k], zip)
      <4> HIDE DEF b
      <4> QED BY <2>6, <3>1, <3>3
    <3>5. /\ IsInjective(Archive(Items(c, item.path, item.links), zip))
          /\ \A u \in Range(Archive(Items(c, item.path, item.links), zip)) :
               u \in AnyUnit /\ Under(item.path, u.path) /\ Len(u.path) > Len(item.path)
      BY <2>1, <3>2, <3>4, Siblings
    <3> HIDE DEF b
    <3>6. /\ IsInjective(below)
          /\ \A u \in Range(below) : u \in AnyUnit /\ Under(item.path, u.path) /\ Len(u.path) > Len(item.path)
      BY <3>1, <3>5
    <3> HIDE DEF below, own
    <3>7. Disjoint(own, below)
      <4>1. Len(item.path) \in Nat
        BY <2>1
      <4> QED BY <2>7, <3>6, <4>1 DEF Disjoint
    <3>8. IsInjective(own \o below)
      BY <2>3, <2>9, <3>6, <3>7
    <3>9. \A u \in Range(own \o below) : u \in AnyUnit /\ Under(item.path, u.path)
      BY <2>7, <2>8, <2>9, <3>6
    <3> QED BY <2>2, <3>8, <3>9 DEF Neat
  <2>11. CASE Kind(item.node) = "link" /\ zip /\ item.links < LinkLimit
    <3>1. b = <<Followed(item)>> /\ own = <<>>
      BY <2>11 DEF Below, OwnUnits
    <3>2. /\ Followed(item) \in Item
          /\ Followed(item) = [path |-> item.path, node |-> Tree[item.node].target, links |-> item.links + 1]
      BY <2>11, FollowedIs
    <3>3. Followed(item).path = item.path
      BY <3>2
    <3> DEFINE f == Followed(item)
    <3>4. Neat(f, zip)
      <4>1. 1 \in DOMAIN b /\ b[1] = f
        BY <3>1
      <4> HIDE DEF b, f
      <4> QED BY <2>6, <4>1
    <3> HIDE DEF f, b, own
    <3>5. below = Packed(f, zip)
      BY <3>1, <3>2, ArchiveOne DEF f
    <3>6. own \o below = below
      BY <2>5, <3>1, ConcatEmptySeq
    <3>7. Packed(item, zip) = Packed(f, zip)
      BY <2>2, <3>5, <3>6
    <3>8. f.path = item.path
      BY <3>3 DEF f
    <3> QED BY <3>4, <3>7, <3>8 DEF Neat
  <2>12. CASE Kind(item.node) # "dir" /\ ~ (Kind(item.node) = "link" /\ zip /\ item.links < LinkLimit)
    <3>1. b = <<>>
      BY <2>12 DEF Below
    <3> HIDE DEF b, own
    <3>2. below = <<>>
      BY <3>1, ArchiveOne
    <3>3. Packed(item, zip) = own
      BY <2>2, <2>3, <3>2, ConcatEmptySeq
    <3> QED BY <2>3, <2>7, <2>8, <3>3 DEF Neat
  <2> QED BY <2>10, <2>11, <2>12
<1>3. Nat \subseteq Good
  <2> HIDE DEF Good
  <2> QED BY <1>1, <1>2, Induction
<1>4. \A item \in Item : Levels(item) \in Nat
  <2>1. \A item \in Item : Levels(item) \in 1 .. MostLevels
    BY LevelsAre
  <2> QED BY <2>1
<1>5. \A item \in Item : Levels(item) \in Good /\ Levels(item) <= Levels(item)
  BY <1>3, <1>4
<1> QED BY <1>5
-----------------------------------------------------------------------------
(* What a stream of units may be when all, or a beginning, of w is asked   *)
(* for: the listings of a zip archive may come in any order.               *)
Same(s, w, zip) == IF zip THEN IsInjective(s) /\ Range(s) = Range(w) ELSE s = w
Starts(s, w, zip) == IF zip THEN IsInjective(s) /\ Range(s) \subseteq Range(w) ELSE IsPrefix(s, w)

LEMMA SameStarts ==
  ASSUME NEW V, NEW s \in Seq(V), NEW t \in Seq(V), NEW w \in Seq(V), NEW zip \in BOOLEAN,
         Same(s \o t, w, zip)
  PROVE  Starts(s, w, zip)
<1>1. /\ s \o t \in Seq(V) /\ Len(s \o t) = Len(s) + Len(t)
      /\ \A j \in 1 .. Len(s) : (s \o t)[j] = s[j]
  BY ConcatIs
<1>2. CASE zip
  <2>1. IsInjective(s \o t) /\ Range(s \o t) = Range(w)
    BY <1>2 DEF Same
  <2>2. IsInjective(s \o t) <=> (IsInjective(s) /\ IsInjective(t) /\ Disjoint(s, t))
    BY ConcatInjective
  <2>3. Range(s \o t) = Range(s) \cup Range(t)
    BY ConcatRange
  <2> QED BY <1>2, <2>1, <2>2, <2>3 DEF Starts
<1>3. CASE ~ zip
  <2>1. s \o t = w
    BY <1>3 DEF Same
  <2>2. Len(s) <= Len(w) /\ \A j \in 1 .. Len(s) : w[j] = s[j]
    BY <1>1, <2>1
  <2>3. SubSeq(s, 1, Len(s)) = SubSeq(w, 1, Len(s))
    <3>1. SubSeq(s, 1, Len(s)) \in Seq(V) /\ SubSeq(w, 1, Len(s)) \in Seq(V)
      BY <2>2
    <3>2. Len(SubSeq(s, 1, Len(s))) = Len(s) /\ Len(SubSeq(w, 1, Len(s))) = Len(s)
      BY <2>2
    <3>3. \A j \in 1 .. Len(s) : SubSeq(s, 1, Len(s))[j] = s[j] /\ SubSeq(w, 1, Len(s))[j] = w[j]
      BY <2>2
    <3> QED BY <2>2, <3>1, <3>2, <3>3, SeqEqual
  <2> QED BY <1>3, <2>2, <2>3 DEF Starts, IsPrefix
<1> QED BY <1>2, <1>3

LEMMA SameAll ==
  ASSUME NEW V, NEW s \in Seq(V), NEW w \in Seq(V), NEW zip \in BOOLEAN, Same(s, w, zip)
  PROVE  Starts(s, w, zip)
<1>1. s \o <<>> = s /\ <<>> \in Seq(V)
  BY ConcatEmptySeq
<1>2. Same(s \o <<>>, w, zip)
  BY <1>1
<1> QED BY <1>1, <1>2, SameStarts

LEMMA StartsShorter ==
  ASSUME NEW V, NEW s \in Seq(V), NEW w \in Seq(V), NEW zip \in BOOLEAN, Starts(s, w, zip),
         NEW m \in 0 .. Len(s)
  PROVE  Starts(SubSeq(s, 1, m), w, zip)
<1> DEFINE r == SubSeq(s, 1, m)
<1>1. r \in Seq(V) /\ Len(r) = m /\ DOMAIN r = 1 .. m /\ \A j \in 1 .. m : r[j] = s[j]
  OBVIOUS
<1>2. DOMAIN s = 1 .. Len(s) /\ \A j \in 1 .. m : j \in 1 .. Len(s)
  OBVIOUS
<1> HIDE DEF r
<1>3. CASE zip
  <2>1. IsInjective(s) /\ Range(s) \subseteq Range(w)
    BY <1>3 DEF Starts
  <2>2. IsInjective(r)
    BY <1>1, <1>2, <2>1 DEF IsInjective
  <2>3. Range(r) \subseteq Range(s)
    BY <1>1, <1>2 DEF Range
  <2> QED BY <1>3, <2>1, <2>2, <2>3 DEF Starts, r
<1>4. CASE ~ zip
  <2>1. Len(s) <= Len(w) /\ SubSeq(s, 1, Len(s)) = SubSeq(w, 1, Len(s))
    BY <1>4 DEF Starts, IsPrefix
  <2>2. \A j \in 1 .. Len(s) : SubSeq(s, 1, Len(s))[j] = s[j] /\ SubSeq(w, 1, Len(s))[j] = w[j]
    BY <2>1
  <2>3. \A j \in 1 .. m : w[j] = r[j]
    BY <1>1, <1>2, <2>1, <2>2
  <2>4. m <= Len(w) /\ m \in Nat
    BY <2>1
  <2>5. SubSeq(r, 1, m) = SubSeq(w, 1, m)
    <3>1. SubSeq(r, 1, m) \in Seq(V) /\ SubSeq(w, 1, m) \in Seq(V)
      BY <1>1, <2>4
    <3>2. Len(SubSeq(r, 1, m)) = m /\ Len(SubSeq(w, 1, m)) = m
      BY <1>1, <2>4
    <3>3. \A j \in 1 .. m : SubSeq(r, 1, m)[j] = r[j] /\ SubSeq(w, 1, m)[j] = w[j]
      BY <1>1, <2>4
    <3> QED BY <2>3, <3>1, <3>2, <3>3, SeqEqual
  <2> QED BY <1>1, <1>4, <2>4, <2>5 DEF Starts, IsPrefix, r
<1> QED BY <1>3, <1>4

(* A part may be exchanged for one with the same units.                    *)
LEMMA Exchange ==
  ASSUME NEW V, NEW a \in Seq(V), NEW b \in Seq(V), NEW c \in Seq(V), NEW d \in Seq(V),
         NEW w \in Seq(V), NEW zip \in BOOLEAN,
         Same(a \o (b \o c), w, zip), Same(d, b, zip)
  PROVE  Same(a \o (d \o c), w, zip)
<1>1. CASE ~ zip
  BY <1>1 DEF Same
<1>2. CASE zip
  <2>1. b \o c \in Seq(V) /\ d \o c \in Seq(V)
    BY ConcatIs
  <2>2. /\ IsInjective(a \o (b \o c)) <=> (IsInjective(a) /\ IsInjective(b \o c) /\ Disjoint(a, b \o c))
        /\ IsInjective(a \o (d \o c)) <=> (IsInjective(a) /\ IsInjective(d \o c) /\ Disjoint(a, d \o c))
        /\ IsInjective(b \o c) <=> (IsInjective(b) /\ IsInjective(c) /\ Disjoint(b, c))
        /\ IsInjective(d \o c) <=> (IsInjective(d) /\ IsInjective(c) /\ Disjoint(d, c))
    BY <2>1, ConcatInjective
  <2>3. /\ Range(a \o (b \o c)) = Range(a) \cup Range(b \o c)
        /\ Range(a \o (d \o c)) = Range(a) \cup Range(d \o c)
        /\ Range(b \o c) = Range(b) \cup Range(c)
        /\ Range(d \o c) = Range(d) \cup Range(c)
    <3>1. Range(b \o c) = Range(b) \cup Range(c)
      BY ConcatRange
    <3>2. Range(d \o c) = Range(d) \cup Range(c)
      BY ConcatRange
    <3>0. \A x \in Seq(V) : Range(a \o x) = Range(a) \cup Range(x)
      BY ConcatRange
    <3>3. Range(a \o (b \o c)) = Range(a) \cup Range(b \o c)
      BY <2>1, <3>0
    <3>4. Range(a \o (d \o c)) = Range(a) \cup Range(d \o c)
      BY <2>1, <3>0
    <3> QED BY <3>1, <3>2, <3>3, <3>4
  <2>4. IsInjective(d) /\ Range(d) = Range(b)
    BY <1>2 DEF Same
  <2>5. IsInjective(a \o (b \o c)) /\ Range(a \o (b \o c)) = Range(w)
    BY <1>2 DEF Same
  <2>6. Range(d \o c) = Range(b \o c)
    BY <2>3, <2>4
  <2>7. (Disjoint(a, d \o c) <=> Disjoint(a, b \o c)) /\ (Disjoint(d, c) <=> Disjoint(b, c))
    BY <2>4, <2>6 DEF Disjoint
  <2>8. IsInjective(a \o (d \o c))
    BY <2>2, <2>4, <2>5, <2>7
  <2>9. Range(a \o (d \o c)) = Range(w)
    BY <2>3, <2>5, <2>6
  <2> QED BY <1>2, <2>8, <2>9 DEF Same
<1> QED BY <1>1, <1>2

(* A unit goes from the front of what is to come to the end of the log.    *)
LEMMA Shift ==
  ASSUME NEW a \in Seq(AnyUnit), NEW u \in AnyUnit, NEW b \in Seq(AnyUnit), NEW c \in Seq(AnyUnit), NEW p,
         p = <<u>> \o b
  PROVE  a \o (p \o c) = Append(a, u) \o (b \o c)
<1> DEFINE o == <<u>>
           m == b \o c
           W == AnyUnit
<1>1. a \in Seq(W) /\ b \in Seq(W) /\ c \in Seq(W) /\ o \in Seq(W) /\ u \in W
  OBVIOUS
<1>2. Append(a, u) = a \o o
  BY <1>1, AppendIsConcat
<1> HIDE DEF W, o
<1>3. m \in Seq(W)
  BY <1>1, ConcatIs
<1>4. (o \o b) \o c = o \o m
  BY <1>1, ConcatAssociative
<1> HIDE DEF m
<1>5. a \o (o \o m) = (a \o o) \o m
  BY <1>1, <1>3, ConcatAssociative, SMTT(40)
<1>6. p = o \o b
  BY DEF o
<1> QED BY <1>2, <1>4, <1>5, <1>6 DEF m

(* The pieces of a file from one on.                                       *)
FilePieces(path, node, part) == [k \in 1 .. Size(node) + 1 - part |-> Unit(path, part + k - 1)]

LEMMA PiecesAre ==
  ASSUME NEW path \in Seq(Node), NEW node \in Node, NEW part \in Nat, part <= Size(node) + 1
  PROVE  /\ FilePieces(path, node, part) \in Seq(AnyUnit)
         /\ Unit(path, part) \in AnyUnit
         /\ part = Size(node) + 1 => FilePieces(path, node, part) = <<>>
         /\ part <= Size(node) => /\ FilePieces(path, node, part + 1) \in Seq(AnyUnit)
                                  /\ FilePieces(path, node, part) = <<Unit(path, part)>> \o FilePieces(path, node, part + 1)
<1> DEFINE p(q) == FilePieces(path, node, q)
<1>1. Size(node) \in Nat
  BY TreeAssumption DEF Size
<1>2. \A q \in Nat : Unit(path, q) \in AnyUnit
  BY DEF Unit, AnyUnit
<1>3. ASSUME NEW q \in Nat, q <= Size(node) + 1
      PROVE  /\ p(q) \in Seq(AnyUnit) /\ Len(p(q)) = Size(node) + 1 - q
             /\ \A k \in 1 .. Size(node) + 1 - q : p(q)[k] = Unit(path, q + k - 1)
  <2> DEFINE n == Size(node) + 1 - q
  <2>1. n \in Nat /\ \A k \in 1 .. n : q + k - 1 \in Nat
    BY <1>1, <1>3
  <2>2. p(q) = [k \in 1 .. n |-> Unit(path, q + k - 1)]
    BY DEF FilePieces
  <2> HIDE DEF n, p
  <2>3. \A k \in 1 .. n : p(q)[k] = Unit(path, q + k - 1) /\ p(q)[k] \in AnyUnit
    BY <1>2, <2>1, <2>2
  <2>4. p(q) \in Seq(AnyUnit) /\ Len(p(q)) = n
    BY <2>1, <2>2, <2>3
  <2> QED BY <2>3, <2>4 DEF n, p
<1> HIDE DEF p
<1>4. ASSUME part = Size(node) + 1 PROVE p(part) = <<>>
  <2>1. p(part) \in Seq(AnyUnit) /\ Len(p(part)) = 0
    BY <1>1, <1>3, <1>4
  <2> QED BY <2>1
<1>5. ASSUME part <= Size(node)
      PROVE  p(part + 1) \in Seq(AnyUnit) /\ p(part) = <<Unit(path, part)>> \o p(part + 1)
  <2> DEFINE u == Unit(path, part)
             v == p(part + 1)
             n == Size(node) - part
  <2>1. n \in Nat /\ part + 1 \in Nat /\ part + 1 <= Size(node) + 1 /\ Size(node) + 1 - (part + 1) = n
        /\ Size(node) + 1 - part = n + 1
    BY <1>1, <1>5
  <2>2. v \in Seq(AnyUnit) /\ Len(v) = n /\ \A k \in 1 .. n : v[k] = Unit(path, (part + 1) + k - 1)
    BY <1>3, <2>1
  <2>3. p(part) \in Seq(AnyUnit) /\ Len(p(part)) = n + 1 /\ \A k \in 1 .. n + 1 : p(part)[k] = Unit(path, part + k - 1)
    BY <1>3, <2>1
  <2>4. <<u>> \in Seq(AnyUnit) /\ Len(<<u>>) = 1 /\ <<u>>[1] = u
    BY <1>2
  <2> HIDE DEF u, v
  <2>5. /\ <<u>> \o v \in Seq(AnyUnit) /\ Len(<<u>> \o v) = 1 + n
        /\ \A j \in 1 .. 1 : (<<u>> \o v)[j] = u
        /\ \A j \in 1 .. n : (<<u>> \o v)[1 + j] = v[j]
    BY <2>2, <2>4, ConcatIs
  <2>6. ASSUME NEW k \in 1 .. n + 1 PROVE p(part)[k] = (<<u>> \o v)[k]
    <3>1. CASE k = 1
      <4>1. 1 \in 1 .. 1 /\ part + 1 - 1 = part /\ 1 \in 1 .. n + 1
        BY <2>1
      <4> QED BY <2>3, <2>5, <3>1, <4>1 DEF u
    <3>2. CASE k # 1
      <4>1. k - 1 \in 1 .. n /\ 1 + (k - 1) = k /\ (part + 1) + (k - 1) - 1 = part + k - 1
        BY <2>1, <3>2
      <4>2. (<<u>> \o v)[k] = v[k - 1] /\ v[k - 1] = Unit(path, (part + 1) + (k - 1) - 1)
        BY <2>2, <2>5, <4>1
      <4> QED BY <2>3, <4>1, <4>2
    <3> QED BY <3>1, <3>2
  <2>7. Len(p(part)) = Len(<<u>> \o v)
    BY <2>1, <2>3, <2>5
  <2>8. p(part) = <<u>> \o v
    BY <2>3, <2>5, <2>6, <2>7, SeqEqual
  <2> QED BY <2>2, <2>8 DEF u, v
<1> QED BY <1>2, <1>3, <1>4, <1>5 DEF p

(* What comes of the items that are visited.                               *)
LEMMA DirIs ==
  ASSUME NEW item \in Item, NEW zip \in BOOLEAN, Kind(item.node) = "dir"
  PROVE  /\ Unit(item.path, 0) \in AnyUnit
         /\ Items(Tree[item.node].children, item.path, item.links) \in Seq(Item)
         /\ Packed(item, zip) = <<Unit(item.path, 0)>> \o
                                Archive(Items(Tree[item.node].children, item.path, item.links), zip)
<1>1. Below(item, zip) = Items(Tree[item.node].children, item.path, item.links)
  BY DEF Below
<1>2. OwnUnits(item, zip) = <<Unit(item.path, 0)>>
  BY DEF OwnUnits
<1>3. Unit(item.path, 0) \in AnyUnit
  BY DEF Item, Unit, AnyUnit
<1> QED BY <1>1, <1>2, <1>3, BelowIs, PackedIs

LEMMA LeafIs ==
  ASSUME NEW item \in Item, NEW zip \in BOOLEAN, Below(item, zip) = <<>>
  PROVE  Packed(item, zip) = OwnUnits(item, zip)
<1>1. Archive(Below(item, zip), zip) = <<>>
  BY ArchiveOne
<1>2. OwnUnits(item, zip) \in Seq(AnyUnit)
  BY OwnUnitsAre
<1> DEFINE own == OwnUnits(item, zip)
<1> HIDE DEF own
<1>3. own \o <<>> = own
  BY <1>2, ConcatEmptySeq DEF own
<1> QED BY <1>1, <1>3, PackedIs DEF own

LEMMA FileIs ==
  ASSUME NEW item \in Item, NEW zip \in BOOLEAN, Kind(item.node) = "file"
  PROVE  Packed(item, zip) = FilePieces(item.path, item.node, 0)
<1>1. Below(item, zip) = <<>>
  BY DEF Below
<1>2. OwnUnits(item, zip) = [k \in 1 .. Size(item.node) + 1 |-> Unit(item.path, k - 1)]
  BY DEF OwnUnits
<1>3. Size(item.node) \in Nat
  BY TreeAssumption DEF Item, Size
<1>4. [k \in 1 .. Size(item.node) + 1 |-> Unit(item.path, k - 1)] = FilePieces(item.path, item.node, 0)
  <2>1. Size(item.node) + 1 - 0 = Size(item.node) + 1
    BY <1>3
  <2>2. \A k \in 1 .. Size(item.node) + 1 : 0 + k - 1 = k - 1
    BY <1>3
  <2> QED BY <2>1, <2>2 DEF FilePieces
<1> QED BY <1>1, <1>2, <1>4, LeafIs

LEMMA LinkIs ==
  ASSUME NEW item \in Item, NEW zip \in BOOLEAN, Kind(item.node) = "link"
  PROVE  /\ ~ zip => Packed(item, zip) = <<Unit(item.path, 0)>> /\ Unit(item.path, 0) \in AnyUnit
         /\ zip /\ item.links < LinkLimit =>
              Followed(item) \in Item /\ Packed(item, zip) = Packed(Followed(item), zip)
<1>1. ASSUME ~ zip PROVE Packed(item, zip) = <<Unit(item.path, 0)>> /\ Unit(item.path, 0) \in AnyUnit
  <2>1. Below(item, zip) = <<>> /\ OwnUnits(item, zip) = <<Unit(item.path, 0)>>
    BY <1>1 DEF Below, OwnUnits
  <2>2. Unit(item.path, 0) \in AnyUnit
    BY DEF Item, Unit, AnyUnit
  <2> QED BY <2>1, <2>2, LeafIs
<1>2. ASSUME zip, item.links < LinkLimit
      PROVE  Followed(item) \in Item /\ Packed(item, zip) = Packed(Followed(item), zip)
  <2>1. Followed(item) \in Item
    BY <1>2, FollowedIs
  <2>2. Below(item, zip) = <<Followed(item)>> /\ OwnUnits(item, zip) = <<>>
    BY <1>2 DEF Below, OwnUnits
  <2>3. Packed(item, zip) = <<>> \o Archive(<<Followed(item)>>, zip)
    BY <2>2, PackedIs
  <2> DEFINE f == Followed(item)
  <2> HIDE DEF f
  <2>4. Archive(<<f>>, zip) = Packed(f, zip) /\ Packed(f, zip) \in Seq(AnyUnit)
    BY <2>1, ArchiveOne, PackedType DEF f
  <2>5. <<>> \o Packed(f, zip) = Packed(f, zip)
    BY <2>4, ConcatEmptySeq
  <2> QED BY <2>1, <2>3, <2>4, <2>5 DEF f
<1> QED BY <1>1, <1>2

LEMMA SocketIs ==
  ASSUME NEW item \in Item, NEW zip \in BOOLEAN, Kind(item.node) = "socket"
  PROVE  /\ zip => Packed(item, zip) = <<Unit(item.path, 0)>> /\ Unit(item.path, 0) \in AnyUnit
         /\ ~ zip => Packed(item, zip) = <<>>
<1>1. Below(item, zip) = <<>>
  BY DEF Below
<1>2. Packed(item, zip) = OwnUnits(item, zip)
  BY <1>1, LeafIs
<1>3. /\ zip => OwnUnits(item, zip) = <<Unit(item.path, 0)>>
      /\ ~ zip => OwnUnits(item, zip) = <<>>
  BY DEF OwnUnits
<1>4. Unit(item.path, 0) \in AnyUnit
  BY DEF Item, Unit, AnyUnit
<1> QED BY <1>2, <1>3, <1>4

(* A listing in another order.                                             *)
LEMMA ListingsSame ==
  ASSUME NEW item \in Item, NEW zip \in BOOLEAN, NEW s,
         IF zip THEN /\ s \in [DOMAIN Tree[item.node].children -> Range(Tree[item.node].children)]
                     /\ IsInjective(s) /\ Range(s) = Range(Tree[item.node].children)
                ELSE s = Tree[item.node].children
  PROVE  /\ Items(s, item.path, item.links) \in Seq(Item)
         /\ Same(Archive(Items(s, item.path, item.links), zip),
                 Archive(Items(Tree[item.node].children, item.path, item.links), zip), zip)
<1> DEFINE c == Tree[item.node].children
<1>1. /\ c \in Seq(Node) /\ IsInjective(c)
      /\ item.path \in Seq(Node) /\ item.links \in 0 .. LinkLimit
  BY TreeAssumption DEF Item
<1>2. CASE ~ zip
  <2>1. Items(c, item.path, item.links) \in Seq(Item)
    BY <1>1, ItemsAre
  <2> QED BY <1>2, <2>1 DEF Same
<1>3. CASE zip
  <2> DEFINE x == Items(s, item.path, item.links)
             y == Items(c, item.path, item.links)
  <2>1. s \in [1 .. Len(c) -> Node] /\ IsInjective(s) /\ Range(s) = Range(c)
    <3>1. s \in [DOMAIN c -> Range(c)] /\ IsInjective(s) /\ Range(s) = Range(c)
      BY <1>3
    <3> HIDE DEF c
    <3>2. DOMAIN c = 1 .. Len(c) /\ Range(c) \subseteq Node
      BY <1>1 DEF Range
    <3> QED BY <3>1, <3>2
  <2> HIDE DEF c
  <2>2. s \in Seq(Node) /\ Len(s) = Len(c)
    BY <1>1, <2>1
  <2>3. /\ x \in Seq(Item) /\ Len(x) = Len(s)
        /\ \A k \in 1 .. Len(s) : x[k] = [path |-> Append(item.path, s[k]), node |-> s[k], links |-> item.links]
    BY <1>1, <2>2, ItemsAre, ZenonT(60)
  <2>4. /\ y \in Seq(Item) /\ Len(y) = Len(c)
        /\ \A k \in 1 .. Len(c) : y[k] = [path |-> Append(item.path, c[k]), node |-> c[k], links |-> item.links]
    BY <1>1, ItemsAre
  <2>5. \A k \in 1 .. Len(s) : Neat(x[k], zip)
    <3>1. \A k \in 1 .. Len(s) : x[k] \in Item
      <4> HIDE DEF x
      <4> QED BY <2>3
    <3> QED BY <3>1, ItemsAreNeat
  <2>6. IsInjective(Archive(x, zip))
    BY <1>1, <2>1, <2>2, <2>5, Siblings
  <2> HIDE DEF x, y
  <2>7. /\ \A u : u \in Range(Archive(x, zip)) <=> \E k \in 1 .. Len(x) : u \in Range(Packed(x[k], zip))
        /\ \A u : u \in Range(Archive(y, zip)) <=> \E k \in 1 .. Len(y) : u \in Range(Packed(y[k], zip))
    BY <2>3, <2>4, ArchiveRange
  <2>8. /\ \A k \in 1 .. Len(s) : \E j \in 1 .. Len(c) : s[k] = c[j]
        /\ \A k \in 1 .. Len(c) : \E j \in 1 .. Len(s) : c[k] = s[j]
    <3>1. DOMAIN s = 1 .. Len(s) /\ DOMAIN c = 1 .. Len(c)
      BY <1>1, <2>2
    <3> QED BY <2>1, <3>1 DEF Range
  <2>9. /\ \A k \in 1 .. Len(s) : \E j \in 1 .. Len(c) : x[k] = y[j]
        /\ \A k \in 1 .. Len(c) : \E j \in 1 .. Len(s) : y[k] = x[j]
    <3>1. ASSUME NEW k \in 1 .. Len(s) PROVE \E j \in 1 .. Len(c) : x[k] = y[j]
      <4>1. PICK j \in 1 .. Len(c) : s[k] = c[j]
        BY <2>8
      <4>2. x[k] = y[j]
        BY <2>3, <2>4, <4>1
      <4> QED BY <4>2
    <3>2. ASSUME NEW k \in 1 .. Len(c) PROVE \E j \in 1 .. Len(s) : y[k] = x[j]
      <4>1. PICK j \in 1 .. Len(s) : c[k] = s[j]
        BY <2>8
      <4>2. y[k] = x[j]
        BY <2>3, <2>4, <4>1
      <4> QED BY <4>2
    <3> QED BY <3>1, <3>2
  <2>10. Range(Archive(x, zip)) = Range(Archive(y, zip))
    <3>1. Len(x) = Len(s) /\ Len(y) = Len(c)
      BY <2>3, <2>4
    <3>2. ASSUME NEW u PROVE u \in Range(Archive(x, zip)) <=> u \in Range(Archive(y, zip))
      <4>1. ASSUME u \in Range(Archive(x, zip)) PROVE u \in Range(Archive(y, zip))
        <5>1. PICK k \in 1 .. Len(s) : u \in Range(Packed(x[k], zip))
          BY <2>7, <3>1, <4>1
        <5>2. PICK j \in 1 .. Len(c) : x[k] = y[j]
          BY <2>9
        <5> QED BY <2>7, <3>1, <5>1, <5>2
      <4>2. ASSUME u \in Range(Archive(y, zip)) PROVE u \in Range(Archive(x, zip))
        <5>1. PICK k \in 1 .. Len(c) : u \in Range(Packed(y[k], zip))
          BY <2>7, <3>1, <4>2
        <5>2. PICK j \in 1 .. Len(s) : y[k] = x[j]
          BY <2>9
        <5> QED BY <2>7, <3>1, <5>1, <5>2
      <4> QED BY <4>1, <4>2
    <3> QED BY <3>2
  <2> QED BY <1>3, <2>3, <2>6, <2>10 DEF Same, x, y, c
<1> QED BY <1>2, <1>3
-----------------------------------------------------------------------------
(* The invariant.                                                          *)
Phase == {"start", "create", "pick", "walk", "finish", "flush", "abandon", "close", "report", "done"}
OpenFile == [path : Seq(Node), part : Nat, node : Node]

PackTypeOK ==
  /\ request \in Requests
  /\ phase \in Phase
  /\ todo \in Seq(Item)
  /\ file = <<>> \/ (file \in OpenFile /\ file.part <= Size(file.node) + 1)
  /\ log \in Seq(AnyUnit)
  /\ broken \in BOOLEAN
  /\ result \in {"none", "ok", "err"}
  /\ submitted \in Seq(S!Chunk) /\ emitted \in Seq(S!Chunk)

(* What is left of the file being copied.                                  *)
Remaining == IF file = <<>> THEN <<>> ELSE FilePieces(file.path, file.node, file.part)

(* While the inputs are walked, the log, the rest of the file and what the *)
(* items will become are the whole archive; afterwards, what was logged in *)
(* front of the end mark is all of it or its beginning.                    *)
LogInv ==
  /\ phase \in {"start", "create", "pick"} => log = <<>> /\ file = <<>>
  /\ phase = "pick" => todo = Items(request.inputs, <<>>, 0)
  /\ phase = "walk" => Same(log \o (Remaining \o Archive(todo, IsZip)), Wanted, IsZip)
  /\ phase = "finish" => Same(log, Wanted, IsZip)
  /\ phase = "abandon" => Starts(log, Wanted, IsZip)
  /\ phase \in {"flush", "close", "report", "done"} => Starts(Entries(log), Wanted, IsZip)
  /\ phase = "flush" \/ result = "ok" =>
       log # <<>> /\ Last(log) = EndMark /\ Same(Entries(log), Wanted, IsZip)

(* A file being copied is the last that was logged.                        *)
ContentInv ==
  /\ InOrder(log)
  /\ file # <<>> /\ phase = "walk" =>
       log # <<>> /\ file.part > 0 /\ log[Len(log)] = Unit(file.path, file.part - 1)

ResultInv ==
  /\ phase \in {"start", "create", "pick", "walk", "finish", "flush"} => result = "none"
  /\ phase = "abandon" => result = "err"

(* What is written was submitted, and what was submitted was logged.       *)
StreamInv ==
  /\ Len(emitted) <= Len(submitted)
  /\ \A k \in DOMAIN submitted : submitted[k].lo + submitted[k].len <= Len(log)
  /\ \A k \in DOMAIN emitted : emitted[k] = submitted[k]

ClosedInv ==
  /\ phase \in {"report", "done"} /\ result = "ok" => broken \/ S!Complete
  /\ phase \in {"close", "report", "done"} /\ result = "ok" /\ request.format = "tar" => S!Complete

PackInv == PackTypeOK /\ LogInv /\ ContentInv /\ ResultInv /\ StreamInv /\ ClosedInv
-----------------------------------------------------------------------------
(* What was asked for has no end mark in it, and no unit twice.            *)
LEMMA WantedIs ==
  ASSUME request \in Requests
  PROVE  /\ Wanted \in Seq(AnyUnit) /\ IsInjective(Wanted) /\ IsZip \in BOOLEAN
         /\ \A u \in Range(Wanted) : u # EndMark
         /\ Items(request.inputs, <<>>, 0) \in Seq(Item)
<1> DEFINE s == request.inputs
           e == <<>>
<1>1. s \in Seq(Node) /\ IsInjective(s) /\ LinkLimit \in Nat
  BY CallAssumption
<1>2. e \in Seq(Node) /\ 0 \in 0 .. LinkLimit /\ Len(e) = 0
  BY <1>1
<1>3. IsZip \in BOOLEAN
  BY DEF IsZip
<1> HIDE DEF s, e
<1>4. Items(s, e, 0) \in Seq(Item) /\ Len(Items(s, e, 0)) = Len(s)
  BY <1>1, <1>2, ItemsAre
<1>5. \A k \in 1 .. Len(s) : Neat(Items(s, e, 0)[k], IsZip)
  <2>1. \A k \in 1 .. Len(s) : Items(s, e, 0)[k] \in Item
    BY <1>4
  <2> QED BY <1>3, <2>1, ItemsAreNeat
<1>6. /\ IsInjective(Archive(Items(s, e, 0), IsZip))
      /\ \A u \in Range(Archive(Items(s, e, 0), IsZip)) : u \in AnyUnit /\ Len(u.path) > Len(e)
  BY <1>1, <1>2, <1>3, <1>5, Siblings
<1>7. Archive(Items(s, e, 0), IsZip) \in Seq(AnyUnit)
  BY <1>3, <1>4, PartsAre
<1>8. EndMark.path = e
  BY DEF EndMark, Unit, e
<1>9. \A u \in Range(Archive(Items(s, e, 0), IsZip)) : u # EndMark
  BY <1>2, <1>6, <1>8
<1>10. Wanted = Archive(Items(s, e, 0), IsZip)
  BY DEF Wanted, s, e
<1> QED BY <1>3, <1>4, <1>6, <1>7, <1>9, <1>10 DEF s, e

(* The units in front of the end mark.                                     *)
LEMMA EntriesAre ==
  ASSUME NEW x \in Seq(AnyUnit)
  PROVE  /\ Entries(Append(x, EndMark)) = x /\ Append(x, EndMark) \in Seq(AnyUnit)
         /\ Append(x, EndMark) # <<>> /\ Last(Append(x, EndMark)) = EndMark
         /\ (\A u \in Range(x) : u # EndMark) => Entries(x) = x
<1>1. EndMark \in AnyUnit
  BY DEF EndMark, Unit, AnyUnit
<1> DEFINE y == Append(x, EndMark)
           z == EndMark
<1> HIDE DEF z
<1>2. y \in Seq(AnyUnit) /\ Len(y) = Len(x) + 1 /\ y # <<>> /\ y[Len(y)] = z
      /\ \A j \in 1 .. Len(x) : y[j] = x[j]
  BY <1>1 DEF z
<1>3. SubSeq(y, 1, Len(y) - 1) = x
  <2> HIDE DEF y
  <2>1. Len(x) \in Nat /\ Len(y) - 1 = Len(x)
    BY <1>2
  <2>2. SubSeq(y, 1, Len(x)) \in Seq(AnyUnit) /\ Len(SubSeq(y, 1, Len(x))) = Len(x)
        /\ \A j \in 1 .. Len(x) : SubSeq(y, 1, Len(x))[j] = y[j]
    BY <1>2, <2>1
  <2> QED BY <1>2, <2>1, <2>2, SeqEqual
<1>4. Last(y) = EndMark
  BY <1>2 DEF Last, z
<1>5. Entries(y) = x
  <2> HIDE DEF y
  <2> QED BY <1>2, <1>3, <1>4 DEF Entries, Front
<1>6. ASSUME \A u \in Range(x) : u # EndMark PROVE Entries(x) = x
  <2>1. CASE x = <<>>
    BY <2>1 DEF Entries
  <2>2. CASE x # <<>>
    <3>1. Len(x) \in DOMAIN x
      BY <2>2
    <3>2. x[Len(x)] \in Range(x)
      BY <3>1 DEF Range
    <3>3. Last(x) # EndMark
      BY <1>6, <3>2 DEF Last
    <3> QED BY <3>3 DEF Entries
  <2> QED BY <2>1, <2>2
<1> QED BY <1>2, <1>4, <1>5, <1>6

LEMMA StartsClean ==
  ASSUME request \in Requests, NEW x \in Seq(AnyUnit), Starts(x, Wanted, IsZip)
  PROVE  \A u \in Range(x) : u # EndMark
<1>1. Wanted \in Seq(AnyUnit) /\ IsZip \in BOOLEAN /\ \A u \in Range(Wanted) : u # EndMark
  BY WantedIs
<1> DEFINE w == Wanted
<1> HIDE DEF w
<1>2. Range(x) \subseteq Range(w)
  <2>1. CASE IsZip
    BY <2>1 DEF Starts, w
  <2>2. CASE ~ IsZip
    <3>1. Len(x) <= Len(w) /\ SubSeq(x, 1, Len(x)) = SubSeq(w, 1, Len(x))
      BY <2>2 DEF Starts, IsPrefix, w
    <3>2. w \in Seq(AnyUnit)
      BY <1>1 DEF w
    <3>3. \A j \in 1 .. Len(x) : SubSeq(x, 1, Len(x))[j] = x[j] /\ SubSeq(w, 1, Len(x))[j] = w[j]
      BY <3>1, <3>2
    <3>4. \A j \in 1 .. Len(x) : x[j] = w[j] /\ j \in DOMAIN w
      BY <3>1, <3>2, <3>3
    <3> QED BY <3>4 DEF Range
  <2> QED BY <1>1, <2>1, <2>2
<1> QED BY <1>1, <1>2 DEF w

(* Units that are appended in order.                                       *)
LEMMA InOrderKept ==
  ASSUME NEW s \in Seq(AnyUnit), InOrder(s), NEW u \in AnyUnit,
         u.part > 0 => s # <<>> /\ s[Len(s)] = Unit(u.path, u.part - 1)
  PROVE  InOrder(Append(s, u))
<1> DEFINE t == Append(s, u)
<1>1. /\ DOMAIN t = 1 .. Len(s) + 1 /\ DOMAIN s = 1 .. Len(s) /\ Len(s) \in Nat
      /\ \A j \in 1 .. Len(s) : t[j] = s[j]
      /\ t[Len(s) + 1] = u
  OBVIOUS
<1> HIDE DEF t
<1>2. ASSUME NEW k \in 1 .. Len(s) + 1, t[k].part > 0
      PROVE  k > 1 /\ t[k - 1] = Unit(t[k].path, t[k].part - 1)
  <2>1. CASE k \in 1 .. Len(s)
    <3>1. s[k].part > 0 /\ k > 1 /\ s[k - 1] = Unit(s[k].path, s[k].part - 1)
      BY <1>1, <1>2, <2>1 DEF InOrder
    <3>2. k - 1 \in 1 .. Len(s)
      BY <2>1, <3>1
    <3> QED BY <1>1, <2>1, <3>1, <3>2
  <2>2. CASE k = Len(s) + 1
    <3>1. s # <<>> /\ s[Len(s)] = Unit(u.path, u.part - 1)
      BY <1>1, <1>2, <2>2
    <3>2. Len(s) \in 1 .. Len(s) /\ Len(s) + 1 - 1 = Len(s)
      BY <3>1, <1>1
    <3> QED BY <1>1, <2>2, <3>1, <3>2
  <2> QED BY <1>1, <2>1, <2>2
<1> QED BY <1>1, <1>2 DEF InOrder, t

LEMMA InOrderShorter ==
  ASSUME NEW s \in Seq(AnyUnit), InOrder(s), NEW m \in 0 .. Len(s)
  PROVE  InOrder(SubSeq(s, 1, m))
<1> DEFINE t == SubSeq(s, 1, m)
<1>1. DOMAIN t = 1 .. m /\ DOMAIN s = 1 .. Len(s) /\ \A j \in 1 .. m : t[j] = s[j] /\ j \in 1 .. Len(s)
  OBVIOUS
<1> HIDE DEF t
<1>2. ASSUME NEW k \in 1 .. m, t[k].part > 0
      PROVE  k > 1 /\ t[k - 1] = Unit(t[k].path, t[k].part - 1)
  <2>1. s[k].part > 0 /\ k > 1 /\ s[k - 1] = Unit(s[k].path, s[k].part - 1)
    BY <1>1, <1>2 DEF InOrder
  <2>2. k - 1 \in 1 .. m
    BY <2>1
  <2> QED BY <1>1, <2>1, <2>2
<1> QED BY <1>1, <1>2 DEF InOrder, t
-----------------------------------------------------------------------------
LEMMA PackInvInit == Init => PackInv
<1> SUFFICES ASSUME Init PROVE PackInv
  OBVIOUS
<1>1. /\ request \in Requests /\ phase = "start" /\ todo = <<>> /\ file = <<>> /\ log = <<>>
      /\ broken = FALSE /\ result = "none" /\ submitted = <<>> /\ emitted = <<>>
  BY DEF Init, S!Init
<1>2. PackTypeOK
  <2>1. todo \in Seq(Item) /\ log \in Seq(AnyUnit)
    BY <1>1
  <2>2. submitted \in Seq(S!Chunk) /\ emitted \in Seq(S!Chunk)
    <3> HIDE DEF S!Chunk
    <3> QED BY <1>1
  <2>3. phase \in Phase /\ broken \in BOOLEAN /\ result \in {"none", "ok", "err"}
    BY <1>1 DEF Phase
  <2> QED BY <1>1, <2>1, <2>2, <2>3 DEF PackTypeOK
<1>3. LogInv
  BY <1>1 DEF LogInv
<1>4. ContentInv
  BY <1>1 DEF ContentInv, InOrder
<1>5. ResultInv /\ StreamInv /\ ClosedInv
  BY <1>1 DEF ResultInv, StreamInv, ClosedInv
<1> QED BY <1>2, <1>3, <1>4, <1>5 DEF PackInv

(* What a step that adds nothing to the log leaves as it is.               *)
LEMMA Quiet ==
  ASSUME PackInv, UNCHANGED <<request, log, submitted, emitted>>
  PROVE  /\ request' \in Requests /\ log' \in Seq(AnyUnit)
         /\ submitted' \in Seq(S!Chunk) /\ emitted' \in Seq(S!Chunk)
         /\ Wanted' = Wanted /\ IsZip' = IsZip
         /\ InOrder(log') /\ StreamInv'
         /\ S!Complete' = S!Complete
         /\ Entries(log') = Entries(log) /\ Last(log') = Last(log)
<1>1. request' = request /\ log' = log /\ submitted' = submitted /\ emitted' = emitted
  OBVIOUS
<1>2. Wanted' = Wanted /\ IsZip' = IsZip
  BY <1>1 DEF Wanted, IsZip
<1>3. StreamInv'
  BY <1>1 DEF StreamInv, PackInv
<1>4. S!Complete' = S!Complete
  BY <1>1 DEF S!Complete, S!StreamEnd
<1> QED BY <1>1, <1>2, <1>3, <1>4 DEF PackInv, PackTypeOK, ContentInv

(* The log gets a unit.                                                    *)
LEMMA PutKeeps ==
  ASSUME PackInv, request' = request, NEW u \in AnyUnit, Put(u),
         u.part > 0 => log # <<>> /\ log[Len(log)] = Unit(u.path, u.part - 1)
  PROVE  /\ request' \in Requests /\ log' = Append(log, u) /\ log' \in Seq(AnyUnit)
         /\ submitted' = submitted /\ emitted' = emitted
         /\ submitted' \in Seq(S!Chunk) /\ emitted' \in Seq(S!Chunk)
         /\ Wanted' = Wanted /\ IsZip' = IsZip
         /\ InOrder(log') /\ StreamInv'
         /\ log' # <<>> /\ log'[Len(log')] = u
<1>1. log' = Append(log, u) /\ submitted' = submitted /\ emitted' = emitted
  BY DEF Put, S!Accept
<1>2. /\ log \in Seq(AnyUnit) /\ InOrder(log) /\ request \in Requests
      /\ submitted \in Seq(S!Chunk) /\ emitted \in Seq(S!Chunk)
  BY DEF PackInv, PackTypeOK, ContentInv
<1>3. /\ log' \in Seq(AnyUnit) /\ Len(log') = Len(log) + 1 /\ log' # <<>> /\ log'[Len(log')] = u
  BY <1>1, <1>2
<1>4. Wanted' = Wanted /\ IsZip' = IsZip
  BY DEF Wanted, IsZip
<1>5. InOrder(log')
  BY <1>1, <1>2, InOrderKept
<1>6. StreamInv'
  <2>1. \A k \in DOMAIN submitted : submitted[k] \in S!Chunk
    BY <1>2
  <2>2. \A k \in DOMAIN submitted : submitted[k].lo + submitted[k].len \in Int
    BY <2>1 DEF S!Chunk
  <2>3. Len(log) \in Nat
    BY <1>2
  <2> QED BY <1>1, <1>3, <2>2, <2>3 DEF StreamInv, PackInv
<1> QED BY <1>1, <1>2, <1>3, <1>4, <1>5, <1>6
-----------------------------------------------------------------------------
(* Before the walk.                                                        *)
LEMMA BeginSteps ==
  ASSUME PackInv, Refuse \/ Begin \/ Create \/ CreateFails \/ Pick
  PROVE  PackInv'
<1>1. /\ UNCHANGED <<request, log, submitted, emitted, file, broken>>
      /\ phase \in {"start", "create", "pick"}
      /\ file' = <<>> /\ log' = <<>> /\ result = "none" /\ request \in Requests
      /\ broken' \in BOOLEAN
  BY DEF Refuse, Begin, Create, CreateFails, Pick, stream, PackInv, PackTypeOK, LogInv, ResultInv
<1>2. /\ request' \in Requests /\ log' \in Seq(AnyUnit)
      /\ submitted' \in Seq(S!Chunk) /\ emitted' \in Seq(S!Chunk)
      /\ Wanted' = Wanted /\ IsZip' = IsZip
      /\ InOrder(log') /\ StreamInv'
  BY <1>1, Quiet
<1>3. Wanted \in Seq(AnyUnit) /\ IsZip \in BOOLEAN /\ Items(request.inputs, <<>>, 0) \in Seq(Item)
  BY <1>1, WantedIs
<1>4. Starts(Entries(<<>>), Wanted, IsZip)
  <2>1. Entries(<<>>) = <<>>
    BY DEF Entries
  <2> DEFINE w == Wanted
  <2> HIDE DEF w
  <2>2. <<>> \in Seq(AnyUnit)
    OBVIOUS
  <2>3. CASE IsZip
    BY <2>1, <2>3 DEF Starts, IsInjective, Range
  <2>4. CASE ~ IsZip
    <3>1. w \in Seq(AnyUnit)
      BY <1>3 DEF w
    <3>2. SubSeq(<<>>, 1, Len(<<>>)) = SubSeq(w, 1, Len(<<>>))
      <4>1. Len(<<>>) = 0
        OBVIOUS
      <4> QED BY <3>1, <4>1
    <3>3. IsPrefix(<<>>, w)
      BY <3>1, <3>2 DEF IsPrefix
    <3> QED BY <2>1, <2>4, <3>3 DEF Starts, w
  <2> QED BY <1>3, <2>3, <2>4
<1> DEFINE first == Items(request.inputs, <<>>, 0)
<1>5. /\ phase' \in {"create", "pick", "walk", "report", "done"}
      /\ result' = IF phase' \in {"report", "done"} THEN "err" ELSE "none"
      /\ todo' \in {todo, first}
      /\ phase' \in {"pick", "walk"} => todo' = first
  <2>1. CASE Refuse
    BY <1>1, <2>1 DEF Refuse, Fail
  <2>2. CASE Begin
    BY <1>1, <2>2 DEF Begin
  <2>3. CASE Create
    BY <1>1, <2>3 DEF Create
  <2>4. CASE CreateFails
    BY <1>1, <2>4 DEF CreateFails, Fail
  <2>5. CASE Pick
    <3>1. todo = first /\ phase = "pick" /\ todo' = todo
      BY <2>5 DEF Pick, PackInv, LogInv
    <3>2. \/ phase' = "walk" /\ result' = result
          \/ phase' = "report" /\ result' = "err"
      BY <2>5, Zenon DEF Pick, Fail
    <3> QED BY <1>1, <3>1, <3>2
  <2> QED BY <2>1, <2>2, <2>3, <2>4, <2>5
<1>6. PackTypeOK'
  <2>1. todo' \in Seq(Item)
    BY <1>3, <1>5 DEF PackInv, PackTypeOK
  <2>2. phase' \in Phase /\ result' \in {"none", "ok", "err"}
    BY <1>5 DEF Phase
  <2> QED BY <1>1, <1>2, <2>1, <2>2 DEF PackTypeOK
<1>7. LogInv'
  <2>1. phase' = "pick" => todo' = Items(request'.inputs, <<>>, 0)
    BY <1>1, <1>5
  <2>2. ASSUME phase' = "walk" PROVE Same(log' \o (Remaining' \o Archive(todo', IsZip')), Wanted', IsZip')
    <3>1. Remaining' = <<>> /\ todo' = first
      BY <1>1, <1>5, <2>2 DEF Remaining
    <3>2. Wanted = Archive(first, IsZip)
      BY DEF Wanted
    <3> DEFINE w == Archive(first, IsZip)
    <3>3. w \in Seq(AnyUnit) /\ IsInjective(w)
      BY <1>1, <3>2, WantedIs
    <3> HIDE DEF w
    <3>4. <<>> \o (<<>> \o w) = w
      BY <3>3, ConcatEmptySeq
    <3>5. Same(w, w, IsZip)
      BY <3>3 DEF Same
    <3> QED BY <1>1, <1>2, <3>1, <3>2, <3>4, <3>5 DEF w
  <2>3. Starts(Entries(log'), Wanted', IsZip')
    BY <1>1, <1>2, <1>4
  <2> QED BY <1>1, <1>5, <2>1, <2>2, <2>3 DEF LogInv
<1>8. ContentInv' /\ ResultInv' /\ ClosedInv'
  BY <1>1, <1>2, <1>5 DEF ContentInv, ResultInv, ClosedInv
<1> QED BY <1>2, <1>6, <1>7, <1>8 DEF PackInv

(* The state while the inputs are walked, and how it may go on.            *)
LEMMA WalkIs ==
  ASSUME PackInv, phase = "walk"
  PROVE  /\ request \in Requests /\ todo \in Seq(Item) /\ log \in Seq(AnyUnit)
         /\ Wanted \in Seq(AnyUnit) /\ IsZip \in BOOLEAN
         /\ Remaining \in Seq(AnyUnit) /\ Archive(todo, IsZip) \in Seq(AnyUnit)
         /\ result = "none" /\ broken \in BOOLEAN
         /\ Same(log \o (Remaining \o Archive(todo, IsZip)), Wanted, IsZip)
         /\ Starts(log, Wanted, IsZip)
<1>1. /\ request \in Requests /\ todo \in Seq(Item) /\ log \in Seq(AnyUnit)
      /\ result = "none" /\ broken \in BOOLEAN
      /\ Same(log \o (Remaining \o Archive(todo, IsZip)), Wanted, IsZip)
  BY DEF PackInv, PackTypeOK, LogInv, ResultInv
<1>2. Wanted \in Seq(AnyUnit) /\ IsZip \in BOOLEAN
  BY <1>1, WantedIs
<1>3. Archive(todo, IsZip) \in Seq(AnyUnit)
  BY <1>1, <1>2, PartsAre
<1>4. Remaining \in Seq(AnyUnit)
  <2>1. CASE file = <<>>
    BY <2>1 DEF Remaining
  <2>2. CASE file # <<>>
    <3>1. file \in OpenFile /\ file.part <= Size(file.node) + 1
      BY <2>2 DEF PackInv, PackTypeOK
    <3>2. file.path \in Seq(Node) /\ file.node \in Node /\ file.part \in Nat
      BY <3>1 DEF OpenFile
    <3>3. FilePieces(file.path, file.node, file.part) \in Seq(AnyUnit)
      BY <3>1, <3>2, PiecesAre
    <3> QED BY <2>2, <3>3 DEF Remaining
  <2> QED BY <2>1, <2>2
<1> DEFINE t == Remaining \o Archive(todo, IsZip)
           w == Wanted
<1>5. t \in Seq(AnyUnit)
  BY <1>3, <1>4, ConcatIs
<1>6. Starts(log, w, IsZip)
  <2>1. Same(log \o t, w, IsZip) /\ w \in Seq(AnyUnit)
    BY <1>1, <1>2
  <2> HIDE DEF t, w
  <2> QED BY <1>1, <1>2, <1>5, <2>1, SameStarts
<1> QED BY <1>1, <1>2, <1>3, <1>4, <1>6

(* A call that fails leaves a beginning.                                   *)
LEMMA FailKeeps ==
  ASSUME PackInv, phase \in {"walk", "finish"},
         UNCHANGED <<request, log, submitted, emitted, todo, file, broken>>,
         phase' = "abandon", result' = "err"
  PROVE  PackInv'
<1>1. /\ request' \in Requests /\ log' \in Seq(AnyUnit)
      /\ submitted' \in Seq(S!Chunk) /\ emitted' \in Seq(S!Chunk)
      /\ Wanted' = Wanted /\ IsZip' = IsZip
      /\ InOrder(log') /\ StreamInv'
  BY Quiet
<1>2. Starts(log, Wanted, IsZip)
  <2>1. CASE phase = "walk"
    BY <2>1, WalkIs
  <2>2. CASE phase = "finish"
    <3>1. Same(log, Wanted, IsZip) /\ log \in Seq(AnyUnit) /\ request \in Requests
      BY <2>2 DEF PackInv, PackTypeOK, LogInv
    <3>2. Wanted \in Seq(AnyUnit) /\ IsZip \in BOOLEAN
      BY <3>1, WantedIs
    <3> QED BY <3>1, <3>2, SameAll
  <2> QED BY <2>1, <2>2
<1>3. PackTypeOK'
  BY <1>1 DEF PackInv, PackTypeOK, Phase
<1>4. LogInv'
  BY <1>1, <1>2 DEF LogInv
<1>5. ContentInv' /\ ResultInv' /\ ClosedInv'
  BY <1>1 DEF ContentInv, ResultInv, ClosedInv
<1> QED BY <1>1, <1>3, <1>4, <1>5 DEF PackInv

LEMMA FailSteps ==
  ASSUME PackInv, WriteFails \/ VisitFails \/ CopyFails
  PROVE  PackInv'
<1>1. /\ phase \in {"walk", "finish"} /\ phase' = "abandon" /\ result' = "err"
      /\ UNCHANGED <<request, log, submitted, emitted, todo, file, broken>>
  BY DEF WriteFails, VisitFails, CopyFails, Walking, Fail, stream, S!Warn
<1> QED BY <1>1, FailKeeps

(* The walk goes on: what has been taken from todo and file is in the log. *)
LEMMA WalkKeeps ==
  ASSUME PackInv, phase = "walk", phase' = "walk", result' = result, broken' = broken,
         request' \in Requests, log' \in Seq(AnyUnit), Wanted' = Wanted, IsZip' = IsZip,
         submitted' \in Seq(S!Chunk), emitted' \in Seq(S!Chunk),
         InOrder(log'), StreamInv', todo' \in Seq(Item),
         file' = <<>> \/ (file' \in OpenFile /\ file'.part <= Size(file'.node) + 1),
         file' # <<>> => log' # <<>> /\ file'.part > 0 /\ log'[Len(log')] = Unit(file'.path, file'.part - 1),
         Same(log' \o (Remaining' \o Archive(todo', IsZip)), Wanted, IsZip)
  PROVE  PackInv'
<1>1. result = "none" /\ broken \in BOOLEAN
  BY DEF PackInv, PackTypeOK, ResultInv
<1>2. PackTypeOK'
  <2>1. phase' \in Phase /\ result' \in {"none", "ok", "err"} /\ broken' \in BOOLEAN
    BY <1>1 DEF Phase
  <2>2. /\ request' \in Requests /\ log' \in Seq(AnyUnit) /\ todo' \in Seq(Item)
        /\ submitted' \in Seq(S!Chunk) /\ emitted' \in Seq(S!Chunk)
    OBVIOUS
  <2>3. file' = <<>> \/ (file' \in OpenFile /\ file'.part <= Size(file'.node) + 1)
    OBVIOUS
  <2> QED BY <2>1, <2>2, <2>3, Zenon DEF PackTypeOK
<1>3. LogInv'
  BY <1>1 DEF LogInv
<1>4. ContentInv' /\ ResultInv' /\ ClosedInv'
  BY <1>1 DEF ContentInv, ResultInv, ClosedInv
<1> QED BY <1>2, <1>3, <1>4 DEF PackInv

(* A visited item goes, and the units that are logged with it are the      *)
(* first of what it becomes.                                               *)
LEMMA TopIs ==
  ASSUME PackInv, Walking
  PROVE  /\ phase = "walk" /\ Top \in Item /\ Tail(todo) \in Seq(Item)
         /\ todo = <<Top>> \o Tail(todo)
         /\ Packed(Top, IsZip) \in Seq(AnyUnit) /\ Archive(Tail(todo), IsZip) \in Seq(AnyUnit)
         /\ Same(log \o (Packed(Top, IsZip) \o Archive(Tail(todo), IsZip)), Wanted, IsZip)
<1>1. phase = "walk" /\ file = <<>> /\ todo # <<>>
  BY DEF Walking
<1>2. /\ todo \in Seq(Item) /\ IsZip \in BOOLEAN /\ Archive(todo, IsZip) \in Seq(AnyUnit)
      /\ Same(log \o (Remaining \o Archive(todo, IsZip)), Wanted, IsZip)
  BY <1>1, WalkIs
<1>3. Remaining = <<>>
  BY <1>1 DEF Remaining
<1> DEFINE a == Archive(todo, IsZip)
           t == Tail(todo)
<1>4. <<>> \o a = a
  <2>1. a \in Seq(AnyUnit)
    BY <1>2
  <2> HIDE DEF a
  <2> QED BY <2>1, ConcatEmptySeq
<1>5. Top \in Item /\ t \in Seq(Item) /\ todo = <<Top>> \o t
  <2>1. Top \in Item /\ t \in Seq(Item)
    BY <1>1, <1>2, HeadTailProperties DEF Top
  <2>2. todo = <<Top>> \o t
    BY <1>1, <1>2 DEF Top
  <2> QED BY <2>1, <2>2
<1>6. a = Packed(Top, IsZip) \o Archive(t, IsZip)
  BY <1>1, <1>2, ArchiveHead DEF Top
<1>7. Packed(Top, IsZip) \in Seq(AnyUnit) /\ Archive(t, IsZip) \in Seq(AnyUnit)
  BY <1>2, <1>5, PackedType, PartsAre
<1> HIDE DEF a
<1>8. Same(log \o a, Wanted, IsZip)
  BY <1>2, <1>3, <1>4 DEF a
<1> QED BY <1>1, <1>5, <1>6, <1>7, <1>8

(* A unit of what is to come is logged, and the walk fails.                *)
LEMMA AbandonKeeps ==
  ASSUME PackInv, phase = "walk", phase' = "abandon", result' = "err", broken' = broken, file' = file,
         request' \in Requests, log' \in Seq(AnyUnit), Wanted' = Wanted, IsZip' = IsZip,
         submitted' \in Seq(S!Chunk), emitted' \in Seq(S!Chunk),
         InOrder(log'), StreamInv', todo' = todo,
         Starts(log', Wanted, IsZip)
  PROVE  PackInv'
<1>1. PackTypeOK'
  <2>1. /\ todo \in Seq(Item) /\ broken \in BOOLEAN
        /\ file = <<>> \/ (file \in OpenFile /\ file.part <= Size(file.node) + 1)
    BY DEF PackInv, PackTypeOK
  <2>2. phase' \in Phase /\ result' \in {"none", "ok", "err"} /\ broken' \in BOOLEAN
    BY <2>1 DEF Phase
  <2>3. /\ request' \in Requests /\ log' \in Seq(AnyUnit) /\ todo' \in Seq(Item)
        /\ submitted' \in Seq(S!Chunk) /\ emitted' \in Seq(S!Chunk)
    BY <2>1
  <2>4. file' = <<>> \/ (file' \in OpenFile /\ file'.part <= Size(file'.node) + 1)
    BY <2>1
  <2> QED BY <2>2, <2>3, <2>4, Zenon DEF PackTypeOK
<1>2. LogInv'
  BY DEF LogInv
<1>3. ContentInv' /\ ResultInv' /\ ClosedInv'
  BY DEF ContentInv, ResultInv, ClosedInv
<1> QED BY <1>1, <1>2, <1>3 DEF PackInv

(* The header of an item is logged.                                        *)
LEMMA HeaderKeeps ==
  ASSUME PackInv, Walking, Put(Unit(Top.path, 0)), request' = request,
         NEW rest \in Seq(AnyUnit), Packed(Top, IsZip) = <<Unit(Top.path, 0)>> \o rest
  PROVE  /\ request' \in Requests /\ log' \in Seq(AnyUnit)
         /\ submitted' \in Seq(S!Chunk) /\ emitted' \in Seq(S!Chunk)
         /\ Wanted' = Wanted /\ IsZip' = IsZip
         /\ InOrder(log') /\ StreamInv'
         /\ log' # <<>> /\ log'[Len(log')] = Unit(Top.path, 0)
         /\ Same(log' \o (rest \o Archive(Tail(todo), IsZip)), Wanted, IsZip)
         /\ Starts(log', Wanted, IsZip)
<1> DEFINE u == Unit(Top.path, 0)
           r == Archive(Tail(todo), IsZip)
           w == Wanted
<1>1. /\ phase = "walk" /\ Top \in Item /\ r \in Seq(AnyUnit)
      /\ Same(log \o (Packed(Top, IsZip) \o r), w, IsZip)
  BY TopIs
<1>2. u \in AnyUnit /\ u.part = 0
  BY <1>1 DEF Item, Unit, AnyUnit
<1>3. log \in Seq(AnyUnit) /\ w \in Seq(AnyUnit) /\ IsZip \in BOOLEAN
  BY <1>1, WalkIs
<1> HIDE DEF u, r, w
<1>4. Put(u) /\ ~ (u.part > 0)
  BY <1>2 DEF u
<1>5. /\ request' \in Requests /\ log' \in Seq(AnyUnit) /\ log' = Append(log, u)
      /\ submitted' \in Seq(S!Chunk) /\ emitted' \in Seq(S!Chunk)
      /\ Wanted' = Wanted /\ IsZip' = IsZip
      /\ InOrder(log') /\ StreamInv'
      /\ log' # <<>> /\ log'[Len(log')] = u
  BY <1>2, <1>4, PutKeeps
<1>6. Packed(Top, IsZip) = <<u>> \o rest
  BY DEF u
<1>7. log \o (Packed(Top, IsZip) \o r) = Append(log, u) \o (rest \o r)
  BY <1>1, <1>2, <1>3, <1>6, Shift, SMTT(40)
<1>8. Same(log' \o (rest \o r), w, IsZip)
  BY <1>1, <1>5, <1>7
<1>9. Starts(log', w, IsZip)
  <2>1. rest \o r \in Seq(AnyUnit)
    BY <1>1, ConcatIs
  <2> QED BY <1>3, <1>5, <1>8, <2>1, SameStarts
<1> QED BY <1>5, <1>8, <1>9 DEF u, r, w

LEMMA VisitDirKeeps == PackInv /\ VisitDir => PackInv'
<1> SUFFICES ASSUME PackInv, VisitDir PROVE PackInv'
  OBVIOUS
<1>1. /\ Walking /\ Kind(Top.node) = "dir" /\ Put(Unit(Top.path, 0))
      /\ request' = request /\ file' = file /\ broken' = broken
  BY DEF VisitDir
<1>2. /\ phase = "walk" /\ file = <<>> /\ Top \in Item /\ Tail(todo) \in Seq(Item)
      /\ IsZip \in BOOLEAN /\ Archive(Tail(todo), IsZip) \in Seq(AnyUnit)
      /\ Wanted \in Seq(AnyUnit)
  BY <1>1, TopIs, WalkIs DEF Walking
<1> DEFINE below == Items(Tree[Top.node].children, Top.path, Top.links)
           rest == Archive(below, IsZip)
           r == Archive(Tail(todo), IsZip)
<1>3. below \in Seq(Item) /\ Packed(Top, IsZip) = <<Unit(Top.path, 0)>> \o rest
  BY <1>1, <1>2, DirIs
<1>4. rest \in Seq(AnyUnit)
  BY <1>2, <1>3, PartsAre
<1> HIDE DEF rest
<1>5. /\ request' \in Requests /\ log' \in Seq(AnyUnit)
      /\ submitted' \in Seq(S!Chunk) /\ emitted' \in Seq(S!Chunk)
      /\ Wanted' = Wanted /\ IsZip' = IsZip
      /\ InOrder(log') /\ StreamInv'
      /\ Same(log' \o (rest \o r), Wanted, IsZip)
      /\ Starts(log', Wanted, IsZip)
  BY <1>1, <1>3, <1>4, HeaderKeeps
<1>6. CASE Unreadable
  <2>1. phase' = "abandon" /\ result' = "err" /\ todo' = todo
    BY <1>6 DEF VisitDir, Fail
  <2> QED BY <1>1, <1>2, <1>5, <2>1, AbandonKeeps
<1>7. CASE ~ Unreadable
  <2>1. PICK s \in Listings(Top.node) : todo' = Items(s, Top.path, Top.links) \o Tail(todo)
    BY <1>7 DEF VisitDir
  <2>2. phase' = phase /\ result' = result
    BY <1>7 DEF VisitDir
  <2> DEFINE x == Items(s, Top.path, Top.links)
             d == Archive(x, IsZip)
  <2>3. x \in Seq(Item) /\ Same(d, Archive(below, IsZip), IsZip)
    <3>1. IF IsZip THEN /\ s \in [DOMAIN Tree[Top.node].children -> Range(Tree[Top.node].children)]
                        /\ IsInjective(s) /\ Range(s) = Range(Tree[Top.node].children)
                   ELSE s = Tree[Top.node].children
      <4>1. CASE IsZip
        BY <2>1, <4>1 DEF Listings
      <4>2. CASE ~ IsZip
        BY <2>1, <4>2 DEF Listings
      <4> QED BY <4>1, <4>2
    <3> QED BY <1>2, <3>1, ListingsSame
  <2>4. d \in Seq(AnyUnit)
    BY <1>2, <2>3, PartsAre
  <2>5. Archive(todo', IsZip) = d \o r
    BY <1>2, <2>1, <2>3, ArchiveConcat
  <2>6. todo' \in Seq(Item)
    BY <1>2, <2>1, <2>3, ConcatIs
  <2>7. Same(d, rest, IsZip)
    BY <2>3 DEF rest
  <2> HIDE DEF x, d, r
  <2>8. d \o r \in Seq(AnyUnit) /\ r \in Seq(AnyUnit)
    BY <1>2, <2>4, ConcatIs DEF r
  <2>9. Same(log' \o (d \o r), Wanted, IsZip)
    BY <1>2, <1>4, <1>5, <2>4, <2>7, <2>8, Exchange
  <2>10. file' = <<>> /\ Remaining' = <<>>
    BY <1>1, <1>2 DEF Remaining
  <2>11. <<>> \o (d \o r) = d \o r
    BY <2>8, ConcatEmptySeq
  <2>12. Same(log' \o (Remaining' \o Archive(todo', IsZip)), Wanted, IsZip)
    BY <2>5, <2>9, <2>10, <2>11
  <2> QED BY <1>1, <1>2, <1>5, <2>2, <2>6, <2>10, <2>12, WalkKeeps
<1> QED BY <1>6, <1>7

LEMMA VisitFileKeeps == PackInv /\ VisitFile => PackInv'
<1> SUFFICES ASSUME PackInv, VisitFile PROVE PackInv'
  OBVIOUS
<1>1. /\ Walking /\ Put(Unit(Top.path, 0))
      /\ Kind(Top.node) = "file" \/ (Kind(Top.node) = "socket" /\ IsZip)
      /\ request' = request /\ broken' = broken
  BY DEF VisitFile
<1>2. /\ phase = "walk" /\ Top \in Item /\ Tail(todo) \in Seq(Item)
      /\ IsZip \in BOOLEAN
  BY <1>1, TopIs, WalkIs
<1>3. Top.path \in Seq(Node) /\ Top.node \in Node
  BY <1>2 DEF Item
<1>4. Size(Top.node) \in Nat
  BY <1>3, TreeAssumption DEF Size
<1> DEFINE rest == IF Kind(Top.node) = "file" THEN FilePieces(Top.path, Top.node, 1) ELSE <<>>
           r == Archive(Tail(todo), IsZip)
<1>5. rest \in Seq(AnyUnit) /\ Packed(Top, IsZip) = <<Unit(Top.path, 0)>> \o rest
  <2>1. CASE Kind(Top.node) = "file"
    <3>1. 0 \in Nat /\ 0 <= Size(Top.node) + 1 /\ 0 <= Size(Top.node) /\ 0 + 1 = 1
      BY <1>4
    <3>2. /\ FilePieces(Top.path, Top.node, 0 + 1) \in Seq(AnyUnit)
        /\ FilePieces(Top.path, Top.node, 0) = <<Unit(Top.path, 0)>> \o FilePieces(Top.path, Top.node, 0 + 1)
      BY <1>3, <3>1, PiecesAre
    <3>3. Packed(Top, IsZip) = FilePieces(Top.path, Top.node, 0)
      BY <1>2, <2>1, FileIs
    <3> QED BY <2>1, <3>1, <3>2, <3>3
  <2>2. CASE Kind(Top.node) = "socket" /\ IsZip
    <3> DEFINE one == <<Unit(Top.path, 0)>>
    <3>1. Packed(Top, IsZip) = one /\ Unit(Top.path, 0) \in AnyUnit
      BY <1>2, <2>2, SocketIs
    <3>2. one \in Seq(AnyUnit)
      BY <3>1
    <3> HIDE DEF one
    <3>3. one \o <<>> = one
      BY <3>2, ConcatEmptySeq
    <3>4. rest = <<>> /\ <<>> \in Seq(AnyUnit)
      BY <2>2
    <3> QED BY <3>1, <3>3, <3>4 DEF one
  <2> QED BY <1>1, <2>1, <2>2
<1> HIDE DEF rest
<1>6. /\ request' \in Requests /\ log' \in Seq(AnyUnit)
      /\ submitted' \in Seq(S!Chunk) /\ emitted' \in Seq(S!Chunk)
      /\ Wanted' = Wanted /\ IsZip' = IsZip
      /\ InOrder(log') /\ StreamInv'
      /\ log' # <<>> /\ log'[Len(log')] = Unit(Top.path, 0)
      /\ Same(log' \o (rest \o r), Wanted, IsZip)
      /\ Starts(log', Wanted, IsZip)
  BY <1>1, <1>5, HeaderKeeps
<1>7. CASE Unreadable
  <2>1. phase' = "abandon" /\ result' = "err" /\ todo' = todo /\ file' = file
    BY <1>7 DEF VisitFile, Fail
  <2> QED BY <1>1, <1>2, <1>6, <2>1, AbandonKeeps
<1>8. CASE ~ Unreadable
  <2>1. /\ file' = [path |-> Top.path, part |-> 1, node |-> Top.node]
        /\ todo' = Tail(todo) /\ phase' = phase /\ result' = result
    BY <1>8 DEF VisitFile
  <2>2. file' \in OpenFile /\ file'.path = Top.path /\ file'.part = 1 /\ file'.node = Top.node
    BY <1>3, <2>1 DEF OpenFile
  <2>3. file' # <<>>
    <3>1. \A f \in OpenFile : f # <<>>
      BY DEF OpenFile
    <3> QED BY <2>2, <3>1
  <2>4. file'.part <= Size(file'.node) + 1 /\ file'.part > 0 /\ file'.part - 1 = 0
    BY <1>4, <2>2
  <2>5. Remaining' = rest
    <3>1. Kind(Top.node) = "file"
      BY <1>1, <1>8 DEF Unreadable
    <3> QED BY <2>2, <2>3, <3>1 DEF Remaining, rest
  <2>6. Same(log' \o (Remaining' \o Archive(todo', IsZip)), Wanted, IsZip)
    BY <1>6, <2>1, <2>5
  <2>7. log'[Len(log')] = Unit(file'.path, file'.part - 1)
    BY <1>6, <2>2, <2>4
  <2>8. todo' \in Seq(Item)
    BY <1>2, <2>1
  <2> QED BY <1>1, <1>2, <1>6, <2>1, <2>2, <2>4, <2>6, <2>7, <2>8, WalkKeeps
<1> QED BY <1>7, <1>8

LEMMA VisitLinkKeeps == PackInv /\ VisitLink => PackInv'
<1> SUFFICES ASSUME PackInv, VisitLink PROVE PackInv'
  OBVIOUS
<1>1. /\ Walking /\ Kind(Top.node) = "link" /\ phase' = phase /\ result' = result
      /\ request' = request /\ broken' = broken /\ file' = file
  BY DEF VisitLink
<1>2. /\ phase = "walk" /\ Top \in Item /\ Tail(todo) \in Seq(Item) /\ file = <<>>
      /\ IsZip \in BOOLEAN /\ Archive(Tail(todo), IsZip) \in Seq(AnyUnit)
      /\ Packed(Top, IsZip) \in Seq(AnyUnit)
      /\ Same(log \o (Packed(Top, IsZip) \o Archive(Tail(todo), IsZip)), Wanted, IsZip)
  BY <1>1, TopIs, WalkIs DEF Walking
<1> DEFINE r == Archive(Tail(todo), IsZip)
<1>3. file' = <<>> /\ Remaining' = <<>>
  BY <1>1, <1>2 DEF Remaining
<1>4. CASE ~ IsZip
  <2>1. Put(Unit(Top.path, 0)) /\ todo' = Tail(todo)
    BY <1>4 DEF VisitLink
  <2> DEFINE none == <<>>
             one == <<Unit(Top.path, 0)>>
  <2>2. none \in Seq(AnyUnit) /\ one \in Seq(AnyUnit) /\ Packed(Top, IsZip) = one
    BY <1>1, <1>2, <1>4, LinkIs
  <2> HIDE DEF one
  <2>3. one = one \o none
    BY <2>2, ConcatEmptySeq
  <2> HIDE DEF none
  <2>4. Packed(Top, IsZip) = <<Unit(Top.path, 0)>> \o none
    BY <2>2, <2>3 DEF one
  <2>5. /\ request' \in Requests /\ log' \in Seq(AnyUnit)
        /\ submitted' \in Seq(S!Chunk) /\ emitted' \in Seq(S!Chunk)
        /\ Wanted' = Wanted /\ IsZip' = IsZip
        /\ InOrder(log') /\ StreamInv'
        /\ Same(log' \o (none \o Archive(Tail(todo), IsZip)), Wanted, IsZip)
    BY <1>1, <2>1, <2>2, <2>4, HeaderKeeps
  <2>6. Same(log' \o (Remaining' \o Archive(todo', IsZip)), Wanted, IsZip)
    BY <1>3, <2>1, <2>5 DEF none
  <2>7. todo' \in Seq(Item)
    BY <1>2, <2>1
  <2> QED BY <1>1, <1>2, <1>3, <2>5, <2>6, <2>7, WalkKeeps
<1>5. CASE IsZip
  <2>1. /\ Top.links < LinkLimit /\ todo' = <<Followed(Top)>> \o Tail(todo)
        /\ UNCHANGED <<log, submitted, emitted>>
    BY <1>5 DEF VisitLink, stream
  <2>2. /\ request' \in Requests /\ log' \in Seq(AnyUnit) /\ log' = log
        /\ submitted' \in Seq(S!Chunk) /\ emitted' \in Seq(S!Chunk)
        /\ Wanted' = Wanted /\ IsZip' = IsZip
        /\ InOrder(log') /\ StreamInv'
    BY <1>1, <2>1, Quiet
  <2> DEFINE f == Followed(Top)
             one == <<f>>
  <2>3. f \in Item /\ Packed(Top, IsZip) = Packed(f, IsZip)
    BY <1>1, <1>2, <1>5, <2>1, LinkIs
  <2> HIDE DEF f
  <2>4. one \in Seq(Item)
    BY <2>3
  <2>5. Archive(one, IsZip) = Packed(f, IsZip)
    BY <1>2, <2>3, ArchiveOne
  <2>6. todo' = one \o Tail(todo)
    BY <2>1 DEF f
  <2> HIDE DEF one
  <2>7. Archive(todo', IsZip) = Packed(Top, IsZip) \o r
    BY <1>2, <2>3, <2>4, <2>5, <2>6, ArchiveConcat, ZenonT(60)
  <2>8. todo' \in Seq(Item)
    BY <1>2, <2>4, <2>6, ConcatIs
  <2> DEFINE t == Packed(Top, IsZip) \o r
  <2>9. t \in Seq(AnyUnit)
    BY <1>2, ConcatIs
  <2>10. <<>> \o t = t
    <3> HIDE DEF t
    <3> QED BY <2>9, ConcatEmptySeq
  <2>11. Same(log' \o (Remaining' \o Archive(todo', IsZip)), Wanted, IsZip)
    BY <1>2, <1>3, <2>2, <2>7, <2>10
  <2> QED BY <1>1, <1>2, <1>3, <2>2, <2>8, <2>11, WalkKeeps
<1> QED BY <1>4, <1>5

LEMMA VisitSocketKeeps == PackInv /\ VisitSocket => PackInv'
<1> SUFFICES ASSUME PackInv, VisitSocket PROVE PackInv'
  OBVIOUS
<1>1. /\ Walking /\ Kind(Top.node) = "socket" /\ ~ IsZip /\ phase' = phase /\ result' = result
      /\ UNCHANGED <<request, broken, file, log, submitted, emitted>> /\ todo' = Tail(todo)
  BY DEF VisitSocket, stream
<1>2. /\ phase = "walk" /\ Top \in Item /\ Tail(todo) \in Seq(Item) /\ file = <<>>
      /\ IsZip \in BOOLEAN /\ Archive(Tail(todo), IsZip) \in Seq(AnyUnit)
      /\ Same(log \o (Packed(Top, IsZip) \o Archive(Tail(todo), IsZip)), Wanted, IsZip)
  BY <1>1, TopIs, WalkIs DEF Walking
<1>3. file' = <<>> /\ Remaining' = <<>>
  BY <1>1, <1>2 DEF Remaining
<1>4. /\ request' \in Requests /\ log' \in Seq(AnyUnit) /\ log' = log
      /\ submitted' \in Seq(S!Chunk) /\ emitted' \in Seq(S!Chunk)
      /\ Wanted' = Wanted /\ IsZip' = IsZip
      /\ InOrder(log') /\ StreamInv'
  BY <1>1, Quiet
<1>5. Packed(Top, IsZip) = <<>>
  BY <1>1, <1>2, SocketIs
<1>6. Same(log' \o (Remaining' \o Archive(todo', IsZip)), Wanted, IsZip)
  BY <1>1, <1>2, <1>3, <1>5
<1> QED BY <1>1, <1>2, <1>3, <1>4, <1>6, WalkKeeps

LEMMA CopyKeeps == PackInv /\ Copy => PackInv'
<1> SUFFICES ASSUME PackInv, Copy PROVE PackInv'
  OBVIOUS
<1> DEFINE u == Unit(file.path, file.part)
           next == [file EXCEPT !.part = @ + 1]
           rest == FilePieces(file.path, file.node, file.part + 1)
           r == Archive(todo, IsZip)
           w == Wanted
<1>1. /\ phase = "walk" /\ file # <<>> /\ file.part <= Size(file.node)
      /\ Put(u) /\ file' = next
      /\ request' = request /\ phase' = phase /\ todo' = todo /\ broken' = broken /\ result' = result
  BY DEF Copy
<1>2. file \in OpenFile
  BY <1>1 DEF PackInv, PackTypeOK
<1>3. file.path \in Seq(Node) /\ file.node \in Node /\ file.part \in Nat
  BY <1>2 DEF OpenFile
<1>4. Size(file.node) \in Nat
  BY <1>3, TreeAssumption DEF Size
<1>5. next \in OpenFile /\ next.path = file.path /\ next.node = file.node /\ next.part = file.part + 1
  BY <1>2, <1>3 DEF OpenFile
<1>6. next # <<>>
  <2>1. \A f \in OpenFile : f # <<>>
    BY DEF OpenFile
  <2> QED BY <1>5, <2>1
<1> HIDE DEF next
<1>7. /\ Remaining = <<u>> \o rest /\ rest \in Seq(AnyUnit) /\ u \in AnyUnit
  <2>1. Remaining = FilePieces(file.path, file.node, file.part)
    BY <1>1 DEF Remaining
  <2>2. file.part <= Size(file.node) + 1
    BY <1>1, <1>3, <1>4
  <2> QED BY <1>1, <1>3, <2>1, <2>2, PiecesAre
<1>8. /\ log \in Seq(AnyUnit) /\ w \in Seq(AnyUnit) /\ IsZip \in BOOLEAN
      /\ r \in Seq(AnyUnit) /\ Same(log \o (Remaining \o r), w, IsZip) /\ todo \in Seq(Item)
  BY <1>1, WalkIs
<1>9. u.part = file.part /\ u.path = file.path
  BY DEF Unit
<1>10. /\ log # <<>> /\ file.part > 0 /\ log[Len(log)] = Unit(file.path, file.part - 1)
  BY <1>1 DEF PackInv, ContentInv
<1> HIDE DEF u
<1>11. /\ request' \in Requests /\ log' \in Seq(AnyUnit) /\ log' = Append(log, u)
       /\ submitted' \in Seq(S!Chunk) /\ emitted' \in Seq(S!Chunk)
       /\ Wanted' = Wanted /\ IsZip' = IsZip
       /\ InOrder(log') /\ StreamInv'
       /\ log' # <<>> /\ log'[Len(log')] = u
  BY <1>1, <1>7, <1>9, <1>10, PutKeeps
<1>12. Remaining' = rest
  BY <1>1, <1>5, <1>6 DEF Remaining
<1> HIDE DEF rest, r, w
<1>13. log \o (Remaining \o r) = Append(log, u) \o (rest \o r)
  <2>1. /\ log \in Seq(AnyUnit) /\ u \in AnyUnit /\ rest \in Seq(AnyUnit) /\ r \in Seq(AnyUnit)
        /\ Remaining = <<u>> \o rest
    BY <1>7, <1>8
  <2> DEFINE v == Remaining
  <2>2. v = <<u>> \o rest
    BY <2>1
  <2> HIDE DEF v
  <2>3. log \o (v \o r) = Append(log, u) \o (rest \o r)
    BY <2>1, <2>2, Shift
  <2> QED BY <2>3 DEF v
<1>14. Same(log' \o (rest \o r), w, IsZip)
  BY <1>7, <1>8, <1>11, <1>13
<1>15. Same(log' \o (Remaining' \o Archive(todo', IsZip)), Wanted, IsZip)
  BY <1>1, <1>12, <1>14 DEF r, w
<1>16. /\ file' \in OpenFile /\ file'.part <= Size(file'.node) + 1 /\ file'.part > 0
       /\ log'[Len(log')] = Unit(file'.path, file'.part - 1) /\ todo' \in Seq(Item)
  <2>1. file'.part = file.part + 1 /\ file'.node = file.node /\ file'.path = file.path
    BY <1>1, <1>5
  <2>2. file.part + 1 - 1 = file.part /\ file.part + 1 <= Size(file.node) + 1 /\ file.part + 1 > 0
    BY <1>1, <1>3, <1>4
  <2>3. file' \in OpenFile /\ todo' \in Seq(Item)
    BY <1>1, <1>5, <1>8
  <2>4. file'.part <= Size(file'.node) + 1 /\ file'.part > 0
    BY <2>1, <2>2
  <2>5. log'[Len(log')] = Unit(file'.path, file'.part - 1)
    <3> DEFINE q == file'.part
    <3>1. file'.path = file.path /\ q - 1 = file.part
      BY <1>3, <2>1
    <3> HIDE DEF q
    <3>2. Unit(file'.path, q - 1) = Unit(file.path, file.part)
      BY <3>1
    <3> QED BY <1>11, <3>2 DEF u, q
  <2> QED BY <2>3, <2>4, <2>5
<1> QED BY <1>1, <1>11, <1>15, <1>16, WalkKeeps

LEMMA CopyEndsKeeps == PackInv /\ CopyEnds => PackInv'
<1> SUFFICES ASSUME PackInv, CopyEnds PROVE PackInv'
  OBVIOUS
<1>1. /\ phase = "walk" /\ file # <<>> /\ file.part > Size(file.node) /\ file' = <<>>
      /\ UNCHANGED <<request, phase, todo, broken, result, log, submitted, emitted>>
  BY DEF CopyEnds, stream
<1>2. file \in OpenFile /\ file.part <= Size(file.node) + 1
  BY <1>1 DEF PackInv, PackTypeOK
<1>3. file.path \in Seq(Node) /\ file.node \in Node /\ file.part \in Nat
  BY <1>2 DEF OpenFile
<1>4. Size(file.node) \in Nat
  BY <1>3, TreeAssumption DEF Size
<1>5. Remaining = <<>>
  <2>1. file.part = Size(file.node) + 1
    BY <1>1, <1>2, <1>3, <1>4
  <2>2. FilePieces(file.path, file.node, file.part) = <<>>
    BY <1>2, <1>3, <2>1, PiecesAre
  <2> QED BY <1>1, <2>2 DEF Remaining
<1>6. Remaining' = <<>>
  BY <1>1 DEF Remaining
<1>7. /\ request' \in Requests /\ log' \in Seq(AnyUnit) /\ log' = log
      /\ submitted' \in Seq(S!Chunk) /\ emitted' \in Seq(S!Chunk)
      /\ Wanted' = Wanted /\ IsZip' = IsZip
      /\ InOrder(log') /\ StreamInv'
  BY <1>1, Quiet
<1>8. Same(log \o (Remaining \o Archive(todo, IsZip)), Wanted, IsZip) /\ todo \in Seq(Item)
  BY <1>1, WalkIs
<1>9. Same(log' \o (Remaining' \o Archive(todo', IsZip)), Wanted, IsZip)
  BY <1>1, <1>5, <1>6, <1>8
<1> QED BY <1>1, <1>7, <1>8, <1>9, WalkKeeps

LEMMA WalkEndsKeeps == PackInv /\ WalkEnds => PackInv'
<1> SUFFICES ASSUME PackInv, WalkEnds PROVE PackInv'
  OBVIOUS
<1>1. /\ phase = "walk" /\ file = <<>> /\ todo = <<>> /\ phase' = "finish"
      /\ UNCHANGED <<request, file, todo, broken, result, log, submitted, emitted>>
  BY DEF WalkEnds, stream
<1>2. /\ request' \in Requests /\ log' \in Seq(AnyUnit) /\ log' = log
      /\ submitted' \in Seq(S!Chunk) /\ emitted' \in Seq(S!Chunk)
      /\ Wanted' = Wanted /\ IsZip' = IsZip
      /\ InOrder(log') /\ StreamInv'
  BY <1>1, Quiet
<1>3. /\ Same(log \o (Remaining \o Archive(todo, IsZip)), Wanted, IsZip)
      /\ IsZip \in BOOLEAN /\ result = "none" /\ broken \in BOOLEAN
  BY <1>1, WalkIs
<1>4. Remaining = <<>> /\ Archive(todo, IsZip) = <<>>
  <2>1. Archive(<<>>, IsZip) = <<>>
    BY <1>3, ArchiveNone
  <2> QED BY <1>1, <2>1 DEF Remaining
<1>5. log \o (<<>> \o <<>>) = log
  <2>1. log \in Seq(AnyUnit)
    BY <1>2
  <2> QED BY <2>1
<1>6. Same(log', Wanted', IsZip')
  BY <1>2, <1>3, <1>4, <1>5
<1>7. PackTypeOK'
  <2>1. phase' \in Phase /\ todo' \in Seq(Item) /\ result' \in {"none", "ok", "err"}
    BY <1>1, <1>3 DEF Phase
  <2> QED BY <1>1, <1>2, <1>3, <2>1 DEF PackTypeOK
<1>8. LogInv'
  BY <1>1, <1>3, <1>6 DEF LogInv
<1>9. ContentInv' /\ ResultInv' /\ ClosedInv'
  BY <1>1, <1>2, <1>3 DEF ContentInv, ResultInv, ClosedInv
<1> QED BY <1>2, <1>7, <1>8, <1>9 DEF PackInv
-----------------------------------------------------------------------------
(* The end of the archive.                                                 *)
LEMMA EndMarkIs == EndMark \in AnyUnit /\ ~ (EndMark.part > 0)
BY DEF EndMark, Unit, AnyUnit

(* The walk is over: what was logged stays a beginning of what was asked.  *)
LEMMA EndKeeps ==
  ASSUME PackInv, todo' = todo, file' = file, broken' = broken, phase' \in {"flush", "close"},
         request' \in Requests, log' \in Seq(AnyUnit), Wanted' = Wanted, IsZip' = IsZip,
         submitted' \in Seq(S!Chunk), emitted' \in Seq(S!Chunk),
         InOrder(log'), StreamInv', result' \in {"none", "ok", "err"},
         phase' = "flush" => result' = "none",
         Starts(Entries(log'), Wanted, IsZip),
         phase' = "flush" \/ result' = "ok" =>
           log' # <<>> /\ Last(log') = EndMark /\ Same(Entries(log'), Wanted, IsZip),
         phase' = "close" /\ result' = "ok" /\ request'.format = "tar" => S!Complete'
  PROVE  PackInv'
<1>1. PackTypeOK'
  <2>1. /\ todo \in Seq(Item) /\ broken \in BOOLEAN
        /\ file = <<>> \/ (file \in OpenFile /\ file.part <= Size(file.node) + 1)
    BY DEF PackInv, PackTypeOK
  <2>2. phase' \in Phase /\ broken' \in BOOLEAN /\ todo' \in Seq(Item)
    BY <2>1 DEF Phase
  <2>3. /\ request' \in Requests /\ log' \in Seq(AnyUnit) /\ result' \in {"none", "ok", "err"}
        /\ submitted' \in Seq(S!Chunk) /\ emitted' \in Seq(S!Chunk)
    OBVIOUS
  <2>4. file' = <<>> \/ (file' \in OpenFile /\ file'.part <= Size(file'.node) + 1)
    BY <2>1
  <2> QED BY <2>2, <2>3, <2>4, Zenon DEF PackTypeOK
<1>2. LogInv'
  BY DEF LogInv
<1>3. ContentInv' /\ ResultInv' /\ ClosedInv'
  BY DEF ContentInv, ResultInv, ClosedInv
<1> QED BY <1>1, <1>2, <1>3 DEF PackInv

LEMMA FinishKeeps == PackInv /\ Finish => PackInv'
<1> SUFFICES ASSUME PackInv, Finish PROVE PackInv'
  OBVIOUS
<1>1. /\ phase = "finish" /\ Put(EndMark) /\ result = "none"
      /\ request' = request /\ todo' = todo /\ file' = file /\ broken' = broken
  BY DEF Finish, PackInv, ResultInv
<1>2. /\ Same(log, Wanted, IsZip) /\ log \in Seq(AnyUnit) /\ request \in Requests
  BY <1>1 DEF PackInv, PackTypeOK, LogInv
<1>3. Wanted \in Seq(AnyUnit) /\ IsZip \in BOOLEAN
  BY <1>2, WantedIs
<1>4. /\ request' \in Requests /\ log' = Append(log, EndMark) /\ log' \in Seq(AnyUnit)
      /\ submitted' \in Seq(S!Chunk) /\ emitted' \in Seq(S!Chunk)
      /\ Wanted' = Wanted /\ IsZip' = IsZip
      /\ InOrder(log') /\ StreamInv'
  BY <1>1, EndMarkIs, PutKeeps
<1>5. Entries(log') = log /\ log' # <<>> /\ Last(log') = EndMark
  BY <1>2, <1>4, EntriesAre
<1>6. Starts(log, Wanted, IsZip)
  BY <1>2, <1>3, SameAll
<1>7. \/ phase' = "close" /\ result' = "ok" /\ IsZip
      \/ phase' = "flush" /\ result' = "none"
  BY <1>1 DEF Finish
<1>8. IsZip => request'.format # "tar"
  BY <1>1 DEF IsZip
<1>9. /\ Starts(Entries(log'), Wanted, IsZip)
      /\ log' # <<>> /\ Last(log') = EndMark /\ Same(Entries(log'), Wanted, IsZip)
  BY <1>2, <1>5, <1>6
<1>10. /\ phase' \in {"flush", "close"} /\ result' \in {"none", "ok", "err"}
       /\ phase' = "flush" => result' = "none"
       /\ phase' = "close" /\ result' = "ok" /\ request'.format = "tar" => S!Complete'
  BY <1>7, <1>8
<1> QED BY <1>1, <1>4, <1>9, <1>10, EndKeeps

LEMMA FlushKeeps == PackInv /\ (Flush \/ FlushFails) => PackInv'
<1> SUFFICES ASSUME PackInv, Flush \/ FlushFails PROVE PackInv'
  OBVIOUS
<1>1. /\ phase = "flush" /\ phase' = "close"
      /\ UNCHANGED <<request, todo, file, broken, log, submitted, emitted>>
  BY DEF Flush, FlushFails, Fail, stream
<1>2. /\ request' \in Requests /\ log' \in Seq(AnyUnit) /\ log' = log
      /\ submitted' \in Seq(S!Chunk) /\ emitted' \in Seq(S!Chunk)
      /\ Wanted' = Wanted /\ IsZip' = IsZip
      /\ InOrder(log') /\ StreamInv' /\ S!Complete' = S!Complete
  BY <1>1, Quiet
<1>3. /\ Starts(Entries(log), Wanted, IsZip)
      /\ log # <<>> /\ Last(log) = EndMark /\ Same(Entries(log), Wanted, IsZip)
  BY <1>1 DEF PackInv, LogInv
<1>4. \/ result' = "ok" /\ Flushed
      \/ result' = "err"
  BY DEF Flush, FlushFails, Fail
<1>5. phase' = "close" /\ result' = "ok" /\ request'.format = "tar" => S!Complete'
  BY <1>1, <1>2, <1>4 DEF Flushed, Compressed
<1>6. result' \in {"none", "ok", "err"} /\ phase' \in {"flush", "close"} /\ phase' # "flush"
  BY <1>1, <1>4
<1> QED BY <1>1, <1>2, <1>3, <1>5, <1>6, EndKeeps

LEMMA AbandonStep == PackInv /\ Abandon => PackInv'
<1> SUFFICES ASSUME PackInv, Abandon PROVE PackInv'
  OBVIOUS
<1>1. /\ phase = "abandon" /\ phase' = "close"
      /\ UNCHANGED <<request, todo, file, broken, result>>
  BY DEF Abandon
<1>2. /\ Starts(log, Wanted, IsZip) /\ log \in Seq(AnyUnit) /\ request \in Requests /\ result = "err"
  BY <1>1 DEF PackInv, PackTypeOK, LogInv, ResultInv
<1>3. /\ request' \in Requests /\ log' \in Seq(AnyUnit)
      /\ submitted' \in Seq(S!Chunk) /\ emitted' \in Seq(S!Chunk)
      /\ Wanted' = Wanted /\ IsZip' = IsZip
      /\ InOrder(log') /\ StreamInv'
      /\ log' = Append(log, EndMark) \/ log' = log
  <2>1. CASE Put(EndMark)
    BY <1>1, <2>1, EndMarkIs, PutKeeps
  <2>2. CASE UNCHANGED <<log, stream>>
    BY <1>1, <2>2, Quiet DEF stream
  <2> QED BY <2>1, <2>2 DEF Abandon
<1>4. Entries(log') = log
  <2>1. Entries(Append(log, EndMark)) = log
    BY <1>2, EntriesAre
  <2>2. Entries(log) = log
    BY <1>2, EntriesAre, StartsClean
  <2> QED BY <1>3, <2>1, <2>2
<1>5. Starts(Entries(log'), Wanted, IsZip)
  BY <1>2, <1>4
<1>6. result' = "err" /\ phase' \in {"flush", "close"} /\ phase' # "flush"
  BY <1>1, <1>2
<1> QED BY <1>1, <1>3, <1>5, <1>6, EndKeeps

LEMMA CloseSteps == PackInv /\ (Close \/ Report) => PackInv'
<1> SUFFICES ASSUME PackInv, Close \/ Report PROVE PackInv'
  OBVIOUS
<1>1. /\ \/ phase = "close" /\ phase' = "report" /\ (broken \/ S!Complete)
         \/ phase = "report" /\ phase' = "done"
      /\ UNCHANGED <<request, todo, file, broken, result, log, submitted, emitted>>
  BY DEF Close, Report, stream, S!Close
<1>2. /\ request' \in Requests /\ log' \in Seq(AnyUnit) /\ log' = log
      /\ submitted' \in Seq(S!Chunk) /\ emitted' \in Seq(S!Chunk)
      /\ Wanted' = Wanted /\ IsZip' = IsZip
      /\ InOrder(log') /\ StreamInv' /\ S!Complete' = S!Complete
  BY <1>1, Quiet
<1>3. PackTypeOK'
  <2>1. /\ todo \in Seq(Item) /\ broken \in BOOLEAN /\ result \in {"none", "ok", "err"}
        /\ file = <<>> \/ (file \in OpenFile /\ file.part <= Size(file.node) + 1)
    BY DEF PackInv, PackTypeOK
  <2>2. /\ phase' \in Phase /\ broken' \in BOOLEAN /\ todo' \in Seq(Item) /\ result' \in {"none", "ok", "err"}
    BY <1>1, <2>1 DEF Phase
  <2>3. file' = <<>> \/ (file' \in OpenFile /\ file'.part <= Size(file'.node) + 1)
    BY <1>1, <2>1
  <2> QED BY <1>2, <2>2, <2>3, Zenon DEF PackTypeOK
<1>4. LogInv'
  <2>1. /\ phase' \in {"report", "done"} /\ Starts(Entries(log), Wanted, IsZip)
        /\ result = "ok" => log # <<>> /\ Last(log) = EndMark /\ Same(Entries(log), Wanted, IsZip)
    BY <1>1 DEF PackInv, LogInv
  <2> QED BY <1>1, <1>2, <2>1 DEF LogInv
<1>5. ClosedInv'
  BY <1>1, <1>2 DEF PackInv, ClosedInv
<1>6. ContentInv' /\ ResultInv'
  BY <1>1, <1>2 DEF ContentInv, ResultInv
<1> QED BY <1>2, <1>3, <1>4, <1>5, <1>6 DEF PackInv
-----------------------------------------------------------------------------
(* The steps of the stream on its own.                                     *)
LEMMA OwnKeeps ==
  ASSUME PackInv, Own, submitted' \in Seq(S!Chunk), emitted' \in Seq(S!Chunk),
         broken' \in BOOLEAN, StreamInv', ClosedInv'
  PROVE  PackInv'
<1>1. UNCHANGED <<request, phase, todo, file, log, result>>
  BY DEF Own
<1>2. Wanted' = Wanted /\ IsZip' = IsZip
  BY <1>1 DEF Wanted, IsZip
<1>3. Remaining' = Remaining
  BY <1>1 DEF Remaining
<1>4. PackTypeOK'
  BY <1>1 DEF PackInv, PackTypeOK
<1>5. LogInv'
  BY <1>1, <1>2, <1>3 DEF PackInv, LogInv
<1>6. ContentInv' /\ ResultInv'
  BY <1>1 DEF PackInv, ContentInv, ResultInv
<1> QED BY <1>4, <1>5, <1>6 DEF PackInv

(* Where a stream of chunks ends.                                          *)
LEMMA EndIs ==
  ASSUME NEW s \in Seq(S!Chunk)
  PROVE  /\ S!StreamEnd(s) \in Nat
         /\ s # <<>> => S!StreamEnd(s) = s[Len(s)].lo + s[Len(s)].len /\ Len(s) \in DOMAIN s
<1>1. ChunkSize \in Nat
  BY CallAssumption
<1>2. ASSUME s # <<>> PROVE Len(s) \in DOMAIN s /\ s[Len(s)] \in S!Chunk
  BY <1>2
<1>3. \A c \in S!Chunk : c.lo + c.len \in Nat
  BY <1>1 DEF S!Chunk
<1> QED BY <1>2, <1>3 DEF S!StreamEnd

LEMMA CutKeeps == PackInv /\ Cut => PackInv'
<1> SUFFICES ASSUME PackInv, Cut PROVE PackInv'
  OBVIOUS
<1> DEFINE end == S!StreamEnd(submitted)
           c == [lo |-> end, len |-> Len(log) - end]
<1>1. /\ Own /\ broken' = broken /\ emitted' = emitted
      /\ Len(log) - end \in 1 .. ChunkSize
      /\ submitted' = Append(submitted, c)
      /\ log' = log /\ phase' = phase /\ result' = result /\ request' = request
  BY DEF Cut, S!Submit, Own
<1>2. /\ submitted \in Seq(S!Chunk) /\ emitted \in Seq(S!Chunk) /\ broken \in BOOLEAN
      /\ Len(log) \in Nat /\ StreamInv
  BY DEF PackInv, PackTypeOK
<1>3. end \in Nat /\ ChunkSize \in Nat
  BY <1>2, EndIs, CallAssumption
<1>4. ~ S!Complete
  BY <1>1, <1>3 DEF S!Complete
<1>5. c \in S!Chunk /\ c.lo + c.len = Len(log)
  BY <1>1, <1>2, <1>3 DEF S!Chunk
<1> HIDE DEF c, end
<1>6. /\ submitted' \in Seq(S!Chunk) /\ Len(submitted') = Len(submitted) + 1
      /\ \A k \in DOMAIN submitted : submitted'[k] = submitted[k]
      /\ submitted'[Len(submitted) + 1] = c
      /\ DOMAIN submitted' = DOMAIN submitted \cup {Len(submitted) + 1}
      /\ DOMAIN emitted \subseteq DOMAIN submitted
  <2>1. DOMAIN emitted = 1 .. Len(emitted) /\ DOMAIN submitted = 1 .. Len(submitted)
    BY <1>2
  <2> QED BY <1>1, <1>2, <1>5, <2>1 DEF StreamInv
<1>7. StreamInv'
  <2>1. Len(emitted) <= Len(submitted')
    BY <1>2, <1>6 DEF StreamInv
  <2>2. \A k \in DOMAIN submitted' : submitted'[k].lo + submitted'[k].len <= Len(log)
    BY <1>2, <1>5, <1>6 DEF StreamInv
  <2>3. \A k \in DOMAIN emitted : emitted[k] = submitted'[k]
    BY <1>2, <1>6 DEF StreamInv
  <2> QED BY <1>1, <2>1, <2>2, <2>3 DEF StreamInv
<1>8. ClosedInv'
  BY <1>1, <1>4 DEF PackInv, ClosedInv
<1> QED BY <1>1, <1>2, <1>6, <1>7, <1>8, OwnKeeps

LEMMA EmitKeeps == PackInv /\ Emit => PackInv'
<1> SUFFICES ASSUME PackInv, Emit PROVE PackInv'
  OBVIOUS
<1> DEFINE n == Len(emitted) + 1
           c == submitted[n]
<1>1. /\ Own /\ broken' = broken /\ submitted' = submitted
      /\ Len(emitted) < Len(submitted) /\ emitted' = Append(emitted, c)
      /\ log' = log /\ phase' = phase /\ result' = result /\ request' = request
  BY DEF Emit, S!Emit, Own
<1>2. /\ submitted \in Seq(S!Chunk) /\ emitted \in Seq(S!Chunk) /\ broken \in BOOLEAN /\ StreamInv
  BY DEF PackInv, PackTypeOK
<1>3. ~ S!Complete
  BY <1>1, <1>2 DEF S!Complete
<1>4. n \in DOMAIN submitted /\ c \in S!Chunk /\ n <= Len(submitted)
  BY <1>1, <1>2
<1> HIDE DEF c
<1>5. /\ emitted' \in Seq(S!Chunk) /\ Len(emitted') = n
      /\ \A k \in DOMAIN emitted : emitted'[k] = emitted[k]
      /\ emitted'[n] = c
      /\ DOMAIN emitted' = DOMAIN emitted \cup {n}
  <2>1. DOMAIN emitted = 1 .. Len(emitted)
    BY <1>2
  <2> QED BY <1>1, <1>2, <1>4, <2>1
<1>6. StreamInv'
  <2>1. Len(emitted') <= Len(submitted)
    BY <1>4, <1>5
  <2>2. \A k \in DOMAIN emitted' : emitted'[k] = submitted[k]
    BY <1>2, <1>5 DEF StreamInv, c
  <2> QED BY <1>1, <1>2, <2>1, <2>2 DEF StreamInv
<1>7. ClosedInv'
  BY <1>1, <1>3 DEF PackInv, ClosedInv
<1> QED BY <1>1, <1>2, <1>5, <1>6, <1>7, OwnKeeps

LEMMA BreakKeeps == PackInv /\ Break => PackInv'
<1> SUFFICES ASSUME PackInv, Break PROVE PackInv'
  OBVIOUS
<1>1. /\ Own /\ broken' = TRUE /\ submitted' = submitted /\ emitted' = emitted
      /\ log' = log /\ phase' = phase /\ result' = result /\ request' = request
  BY DEF Break, stream, Own
<1>2. /\ submitted' \in Seq(S!Chunk) /\ emitted' \in Seq(S!Chunk) /\ StreamInv' /\ S!Complete' = S!Complete
  BY <1>1, Quiet
<1>3. ClosedInv'
  BY <1>1, <1>2 DEF PackInv, ClosedInv
<1> QED BY <1>1, <1>2, <1>3, OwnKeeps
-----------------------------------------------------------------------------
(* The invariant of a call of pack holds of every call: the log is always  *)
(* what has been taken from the walk, in order, and nothing else.          *)
THEOREM PackInvariant == Spec => []PackInv
<1>1. Init => PackInv
  BY PackInvInit
<1>2. PackInv /\ [Next]_vars => PackInv'
  <2> SUFFICES ASSUME PackInv, [Next]_vars PROVE PackInv'
    OBVIOUS
  <2>1. CASE Refuse \/ Begin \/ Create \/ CreateFails \/ Pick
    BY <2>1, BeginSteps
  <2>2. CASE WriteFails \/ VisitFails \/ CopyFails
    BY <2>2, FailSteps
  <2>3. CASE VisitDir \/ VisitFile \/ VisitLink \/ VisitSocket
    BY <2>3, VisitDirKeeps, VisitFileKeeps, VisitLinkKeeps, VisitSocketKeeps
  <2>4. CASE Copy \/ CopyEnds \/ WalkEnds
    BY <2>4, CopyKeeps, CopyEndsKeeps, WalkEndsKeeps
  <2>5. CASE Finish \/ Flush \/ FlushFails \/ Abandon \/ Close \/ Report
    BY <2>5, FinishKeeps, FlushKeeps, AbandonStep, CloseSteps
  <2>6. CASE Cut \/ Emit \/ Break
    BY <2>6, CutKeeps, EmitKeeps, BreakKeeps
  <2>7. CASE UNCHANGED vars
    <3>1. Own /\ UNCHANGED <<request, log, submitted, emitted, broken, phase, result>>
      BY <2>7 DEF vars, stream, Own
    <3>2. /\ submitted' \in Seq(S!Chunk) /\ emitted' \in Seq(S!Chunk) /\ StreamInv' /\ S!Complete' = S!Complete
      BY <3>1, Quiet
    <3>3. ClosedInv' /\ broken' \in BOOLEAN
      BY <3>1, <3>2 DEF PackInv, ClosedInv, PackTypeOK
    <3> QED BY <3>1, <3>2, <3>3, OwnKeeps
  <2> QED BY <2>1, <2>2, <2>3, <2>4, <2>5, <2>6, <2>7 DEF Next, Session, Stream
<1> QED BY <1>1, <1>2, PTL DEF Spec

(* What is in the file is a beginning of the log.                          *)
LEMMA OnDiskIs ==
  ASSUME PackInv
  PROVE  /\ S!StreamEnd(emitted) \in 0 .. Len(log)
         /\ log \in Seq(AnyUnit) /\ request \in Requests
<1>1. /\ submitted \in Seq(S!Chunk) /\ emitted \in Seq(S!Chunk) /\ StreamInv
      /\ log \in Seq(AnyUnit) /\ request \in Requests
  BY DEF PackInv, PackTypeOK
<1>2. S!StreamEnd(emitted) \in Nat
  BY <1>1, EndIs
<1>3. CASE emitted = <<>>
  BY <1>1, <1>3 DEF S!StreamEnd
<1>4. CASE emitted # <<>>
  <2>1. S!StreamEnd(emitted) = emitted[Len(emitted)].lo + emitted[Len(emitted)].len /\ Len(emitted) \in DOMAIN emitted
    BY <1>1, <1>4, EndIs
  <2>2. Len(emitted) \in DOMAIN submitted /\ emitted[Len(emitted)] = submitted[Len(emitted)]
    BY <1>1, <2>1 DEF StreamInv
  <2>3. S!StreamEnd(emitted) <= Len(log)
    BY <1>1, <2>1, <2>2 DEF StreamInv
  <2> QED BY <1>1, <1>2, <2>3
<1> QED BY <1>1, <1>3, <1>4

(* What was logged in front of the end mark is a beginning of what was     *)
(* asked for, in every phase.                                              *)
LEMMA EntriesStart ==
  ASSUME PackInv
  PROVE  Starts(Entries(log), Wanted, IsZip)
<1>1. /\ log \in Seq(AnyUnit) /\ request \in Requests /\ phase \in Phase
  BY DEF PackInv, PackTypeOK
<1>2. Wanted \in Seq(AnyUnit) /\ IsZip \in BOOLEAN
  BY <1>1, WantedIs
<1>3. ASSUME Starts(log, Wanted, IsZip) PROVE Starts(Entries(log), Wanted, IsZip)
  <2>1. Entries(log) = log
    BY <1>1, <1>3, EntriesAre, StartsClean
  <2> QED BY <1>3, <2>1
<1>4. CASE phase \in {"start", "create", "pick"}
  <2>1. log = <<>>
    BY <1>4 DEF PackInv, LogInv
  <2> DEFINE w == Wanted
  <2>2. w \in Seq(AnyUnit) /\ Len(log) = 0
    BY <1>1, <1>2, <2>1
  <2> HIDE DEF w
  <2>4. IsPrefix(log, w)
    <3>1. SubSeq(log, 1, Len(log)) = SubSeq(w, 1, Len(log))
      BY <1>1, <2>2
    <3> QED BY <2>2, <3>1 DEF IsPrefix
  <2>5. IsInjective(log) /\ Range(log) \subseteq Range(w)
    BY <2>1 DEF IsInjective, Range
  <2>6. Starts(log, w, IsZip)
    BY <1>2, <2>4, <2>5 DEF Starts
  <2> QED BY <1>3, <2>6 DEF w
<1>5. CASE phase = "walk"
  BY <1>3, <1>5, WalkIs
<1>6. CASE phase = "finish"
  <2>1. Same(log, Wanted, IsZip)
    BY <1>6 DEF PackInv, LogInv
  <2> QED BY <1>1, <1>2, <1>3, <2>1, SameAll
<1>7. CASE phase \in {"abandon", "flush", "close", "report", "done"}
  BY <1>3, <1>7 DEF PackInv, LogInv
<1> QED BY <1>1, <1>4, <1>5, <1>6, <1>7 DEF Phase

(* However a call of pack ends, what has reached the file is the beginning *)
(* of the archive that was asked for.                                      *)
THEOREM DiskHoldsPrefix == Spec => []DiskIsPrefix
<1>1. PackInv => DiskIsPrefix
  <2> SUFFICES ASSUME PackInv PROVE DiskIsPrefix
    OBVIOUS
  <2> DEFINE m == S!StreamEnd(emitted)
             d == SubSeq(log, 1, m)
             e == Entries(log)
  <2>1. m \in 0 .. Len(log) /\ log \in Seq(AnyUnit) /\ request \in Requests /\ InOrder(log)
    BY OnDiskIs DEF PackInv, ContentInv
  <2>2. Wanted \in Seq(AnyUnit) /\ IsZip \in BOOLEAN
    BY <2>1, WantedIs
  <2>3. Starts(e, Wanted, IsZip)
    BY EntriesStart
  <2>4. d \in Seq(AnyUnit) /\ Len(d) = m /\ \A j \in 1 .. m : d[j] = log[j]
    BY <2>1
  <2>5. InOrder(d)
    BY <2>1, InOrderShorter
  <2> HIDE DEF m, d
  <2>6. /\ e \in Seq(AnyUnit) /\ Len(e) <= Len(log) /\ \A j \in 1 .. Len(e) : e[j] = log[j]
        /\ e = log \/ Len(e) = Len(log) - 1
    <3>1. CASE e = log
      BY <2>1, <3>1
    <3>2. CASE e # log
      <4>1. log # <<>> /\ e = SubSeq(log, 1, Len(log) - 1)
        BY <3>2 DEF Entries, Front
      <4> DEFINE k == Len(log) - 1
      <4>2. k \in 0 .. Len(log) /\ k <= Len(log) /\ e = SubSeq(log, 1, k)
        BY <2>1, <4>1
      <4> HIDE DEF e, k
      <4>3. \A j \in 0 .. Len(log) : SubSeq(log, 1, j) \in Seq(AnyUnit) /\ Len(SubSeq(log, 1, j)) = j
        BY <2>1
      <4>4. \A j \in 0 .. Len(log) : \A i \in 1 .. j : SubSeq(log, 1, j)[i] = log[i]
        BY <2>1
      <4>5. e \in Seq(AnyUnit) /\ Len(e) = k /\ \A j \in 1 .. k : e[j] = log[j]
        BY <4>2, <4>3, <4>4
      <4> QED BY <4>2, <4>5 DEF k
    <3> QED BY <3>1, <3>2
  <2>7. InOrder(e)
    <3>1. e = SubSeq(log, 1, Len(e))
      <4> HIDE DEF e
      <4>1. SubSeq(log, 1, Len(e)) \in Seq(AnyUnit) /\ Len(SubSeq(log, 1, Len(e))) = Len(e)
            /\ \A j \in 1 .. Len(e) : SubSeq(log, 1, Len(e))[j] = log[j]
        BY <2>1, <2>6
      <4> QED BY <2>6, <4>1, SeqEqual
    <3>2. Len(e) \in 0 .. Len(log)
      <4> HIDE DEF e
      <4> QED BY <2>1, <2>6
    <3>3. \A k \in 0 .. Len(log) : InOrder(SubSeq(log, 1, k))
      BY <2>1, InOrderShorter
    <3> QED BY <3>1, <3>2, <3>3
  <2>8. Starts(Entries(d), Wanted, IsZip) /\ InOrder(Entries(d))
    <3>1. CASE m <= Len(e)
      <4> HIDE DEF e
      <4>1. m \in 0 .. Len(e)
        BY <2>1, <2>6, <3>1
      <4>2. d = SubSeq(e, 1, m)
        <5>1. SubSeq(e, 1, m) \in Seq(AnyUnit) /\ Len(SubSeq(e, 1, m)) = m
              /\ \A j \in 1 .. m : SubSeq(e, 1, m)[j] = e[j] /\ j \in 1 .. Len(e)
          BY <2>6, <4>1
        <5> QED BY <2>4, <2>6, <5>1, SeqEqual
      <4>3. Starts(d, Wanted, IsZip)
        BY <2>2, <2>3, <2>6, <4>1, <4>2, StartsShorter
      <4>4. Entries(d) = d
        BY <2>1, <2>4, <4>3, EntriesAre, StartsClean
      <4> QED BY <2>5, <4>3, <4>4
    <3>2. CASE ~ (m <= Len(e))
      <4>1. d = log
        <5> HIDE DEF e
        <5>1. m = Len(log)
          BY <2>1, <2>6, <3>2
        <5> QED BY <2>1, <2>4, <5>1, SeqEqual
      <4> QED BY <2>3, <2>7, <4>1
    <3> QED BY <3>1, <3>2
  <2>9. OnDisk = d
    BY DEF OnDisk, d, m
  <2> QED BY <2>2, <2>8, <2>9 DEF DiskIsPrefix, Starts
<1> QED BY <1>1, PackInvariant, PTL

(* pack returns Ok only over the whole archive with its end mark; the only *)
(* exception is a stream that broke where nobody asks, never a plain tar.  *)
THEOREM OkMeansComplete == Spec => []OkIsComplete
<1>1. PackInv => OkIsComplete
  <2> SUFFICES ASSUME PackInv, phase = "done", result = "ok"
               PROVE  Whole \/ (broken /\ request.format # "tar")
    BY DEF OkIsComplete
  <2>1. /\ log # <<>> /\ Last(log) = EndMark /\ Same(Entries(log), Wanted, IsZip)
        /\ log \in Seq(AnyUnit) /\ request \in Requests
    BY DEF PackInv, PackTypeOK, LogInv
  <2>2. IsZip \in BOOLEAN
    BY <2>1, WantedIs
  <2>3. ASSUME S!Complete PROVE Whole
    <3>1. OnDisk = SubSeq(log, 1, Len(log))
      BY <2>3 DEF OnDisk, S!Complete
    <3>2. SubSeq(log, 1, Len(log)) = log
      <4>1. Len(log) \in 0 .. Len(log) /\ Len(log) \in Nat
        BY <2>1
      <4>2. SubSeq(log, 1, Len(log)) \in Seq(AnyUnit) /\ Len(SubSeq(log, 1, Len(log))) = Len(log)
            /\ \A j \in 1 .. Len(log) : SubSeq(log, 1, Len(log))[j] = log[j]
        BY <2>1, <4>1
      <4> QED BY <2>1, <4>2, SeqEqual
    <3>3. OnDisk = log
      BY <3>1, <3>2
    <3> QED BY <2>1, <2>2, <3>3 DEF Whole, Last, Same
  <2>4. /\ broken \/ S!Complete
        /\ request.format = "tar" => S!Complete
    BY DEF PackInv, ClosedInv
  <2> QED BY <2>3, <2>4
<1> QED BY <1>1, PackInvariant, PTL
-----------------------------------------------------------------------------
(* The chunk function of the hybrid backend.                               *)
(* A worker that is about to take a permit has seen a positive count; the  *)
(* rest of TypeOK is not needed for the permits.                           *)
IInv ==
  /\ at \in [Workers -> Place]
  /\ cur \in [Workers -> Nat]
  /\ permits \in Nat
  /\ PermitsConserved

(* The workers that hold permits, when one of them moves. *)
LEMMA HoldersFinite == IsFiniteSet(Holders) /\ Cardinality(Holders) \in Nat
<1>1. IsFiniteSet(Workers) /\ Holders \subseteq Workers
  BY HybridAssumption DEF Holders
<1>2. QED
  BY <1>1, FS_Subset, FS_CardinalityType

(* Initially nobody holds a permit and all of them are in the counter. *)
LEMMA InitIInv == HybridInit => IInv
<1>1. SUFFICES ASSUME HybridInit PROVE IInv
  OBVIOUS
<1>2. Holders = {}
  BY <1>1 DEF HybridInit, Holders
<1>3. PermitsConserved
  BY <1>1, <1>2, FS_EmptySet, HybridAssumption DEF HybridInit, PermitsConserved
<1>4. QED
  BY <1>1, <1>3, HybridAssumption DEF HybridInit, IInv, Place

(* A step that neither enters nor leaves the GPU path, and leaves the      *)
(* counter alone, disturbs nothing.                                        *)
LEMMA QuietMove ==
  ASSUME IInv, NEW w \in Workers, NEW place \in Place \ {"gpu", "release"},
         at[w] \notin {"gpu", "release"},
         Goto(w, place), permits' = permits, cur' \in [Workers -> Nat]
  PROVE  IInv' /\ Holders' = Holders
<1>1. at' \in [Workers -> Place]
  BY DEF IInv, Goto
<1>2. Holders' = Holders
  BY DEF IInv, Goto, Holders
<1>3. QED
  BY <1>1, <1>2 DEF IInv, PermitsConserved

(* A successful exchange moves one permit from the counter to the worker. *)
LEMMA Acquires ==
  ASSUME IInv, NEW w \in Workers, ExchangeSucceeds(w)
  PROVE  IInv' /\ Permits!Acquire(w)
<1>1. /\ at[w] = "cas" /\ cur[w] # 0 /\ permits = cur[w]
      /\ permits' = permits - 1 /\ at' = [at EXCEPT ![w] = "gpu"] /\ cur' = cur
  BY DEF ExchangeSucceeds, UnchangedSince, Goto
<1>2. Holders' = Holders \cup {w} /\ w \notin Holders
  BY <1>1 DEF IInv, Holders
<1>3. Cardinality(Holders') = Cardinality(Holders) + 1
  BY <1>2, HoldersFinite, FS_AddElement
<1>4. permits \in Nat /\ permits # 0
  BY <1>1 DEF IInv
<1>5. permits' \in Nat /\ PermitsConserved'
  BY <1>1, <1>3, <1>4, HoldersFinite DEF IInv, PermitsConserved
<1>6. at' \in [Workers -> Place] /\ cur' \in [Workers -> Nat]
  BY <1>1 DEF IInv, Place
<1>7. Cardinality(Holders) < GpuWorkers
  BY <1>4, HoldersFinite DEF IInv, PermitsConserved
<1>8. Permits!Cardinality(Holders) = Cardinality(Holders)
  BY DEF Permits!Cardinality, Cardinality, Permits!IsFiniteSet, IsFiniteSet
<1>9. QED
  BY <1>2, <1>5, <1>6, <1>7, <1>8 DEF IInv, Permits!Acquire

(* The fetch_add gives it back. *)
LEMMA Releases ==
  ASSUME IInv, NEW w \in Workers, Release(w), UNCHANGED cur
  PROVE  IInv' /\ Permits!Release(w)
<1>1. at[w] = "release" /\ permits' = permits + 1 /\ at' = [at EXCEPT ![w] = "send"]
  BY DEF Release, Goto
<1>2. Holders' = Holders \ {w} /\ w \in Holders
  BY <1>1 DEF IInv, Holders
<1>3. Cardinality(Holders') = Cardinality(Holders) - 1
  BY <1>2, HoldersFinite, FS_RemoveElement
<1>4. permits' \in Nat /\ PermitsConserved'
  BY <1>1, <1>3, HoldersFinite DEF IInv, PermitsConserved
<1>5. at' \in [Workers -> Place] /\ cur' \in [Workers -> Nat]
  BY <1>1 DEF IInv, Place
<1>6. QED
  BY <1>2, <1>4, <1>5 DEF IInv, Permits!Release

(* Encoding a piece keeps the worker among the holders. *)
LEMMA Encodes ==
  ASSUME IInv, NEW w \in Workers, Encode(w)
  PROVE  IInv' /\ Holders' = Holders
<1>1. PICK place \in {"gpu", "release"} :
        at[w] = "gpu" /\ at' = [at EXCEPT ![w] = place] /\ permits' = permits /\ cur' = cur
  BY DEF Encode, Goto, gpuVars
<1>2. Holders' = Holders
  BY <1>1 DEF IInv, Holders
<1>3. QED
  BY <1>1, <1>2 DEF IInv, PermitsConserved, Place

(* Every step keeps the invariant, and is a step of the semaphore or       *)
(* leaves its holders alone.                                               *)
LEMMA StepIInv ==
  ASSUME IInv, [HybridNext]_hybridVars
  PROVE  IInv' /\ [Permits!Next]_Holders
<1>1. CASE UNCHANGED hybridVars
  BY <1>1 DEF hybridVars, gpuVars, IInv, PermitsConserved, Holders
<1>2. CASE Dispatch \/ Receive
  BY <1>2 DEF Dispatch, Receive, gpuVars, IInv, PermitsConserved, Holders
<1>3. ASSUME NEW w \in Workers, Step(w)
      PROVE  IInv' /\ [Permits!Next]_Holders
  <2>1. CASE Start(w)
    BY <2>1, QuietMove DEF Start, IInv, Place, gpuVars
  <2>2. CASE Count(w)
    <3>1. PICK place \in {"cpu", "cell"} : Goto(w, place)
      BY <2>2 DEF Count
    <3>2. QED
      BY <2>2, <3>1, QuietMove DEF Count, IInv, Place
  <2>3. CASE BeginInit(w)
    BY <2>3, QuietMove DEF BeginInit, IInv, Place
  <2>4. CASE EndInit(w)
    BY <2>4, QuietMove DEF EndInit, IInv, Place
  <2>5. CASE GetCell(w)
    <3>1. PICK place \in {"load", "cpu"} : Goto(w, place)
      BY <2>5 DEF GetCell
    <3>2. QED
      BY <2>5, <3>1, QuietMove DEF GetCell, IInv, Place, gpuVars
  <2>6. CASE Load(w)
    <3>1. cur' \in [Workers -> Nat]
      BY <2>6 DEF Load, IInv
    <3>2. QED
      BY <2>6, <3>1, QuietMove DEF Load, Place, gpuVars
  <2>7. CASE NoPermit(w)
    BY <2>7, QuietMove DEF NoPermit, IInv, Place, gpuVars
  <2>8. CASE ExchangeSucceeds(w)
    BY <2>8, Acquires DEF Permits!Next
  <2>9. CASE ExchangeFails(w)
    <3>1. at' = at /\ permits' = permits /\ cur' \in [Workers -> Nat]
      BY <2>9 DEF ExchangeFails, Actual, gpuVars, IInv
    <3>2. Holders' = Holders
      BY <3>1 DEF Holders
    <3>3. QED
      BY <3>1, <3>2 DEF IInv, PermitsConserved
  <2>10. CASE Encode(w)
    BY <2>10, Encodes
  <2>11. CASE Release(w)
    BY <2>11, Releases DEF Release, Permits!Next
  <2>12. CASE RunOnCpu(w)
    BY <2>12, QuietMove DEF RunOnCpu, IInv, Place, gpuVars
  <2>13. CASE Send(w)
    BY <2>13, QuietMove DEF Send, IInv, Place, gpuVars
  <2>14. QED
    BY <1>3, <2>1, <2>2, <2>3, <2>4, <2>5, <2>6, <2>7, <2>8, <2>9, <2>10,
       <2>11, <2>12, <2>13 DEF Step
<1>4. QED
  BY <1>1, <1>2, <1>3 DEF HybridNext

(* Permits are neither lost nor invented, however many workers race in     *)
(* try_acquire and however often the weak exchange fails.                  *)
THEOREM PermitsAlwaysConserved == HybridSpec => []PermitsConserved
<1>1. IInv /\ [HybridNext]_hybridVars => IInv'
  BY StepIInv
<1>2. IInv => PermitsConserved
  BY DEF IInv
<1>3. QED
  BY InitIInv, <1>1, <1>2, PTL DEF HybridSpec

(* The lock-free acquisition implements a counting semaphore. *)
THEOREM SemaphoreImplemented == HybridSpec => ImplementsPermits
<1>1. HybridInit => Permits!Init
  BY DEF HybridInit, Permits!Init, Holders
<1>2. IInv /\ [HybridNext]_hybridVars => IInv'
  BY StepIInv
<1>3. IInv /\ [HybridNext]_hybridVars => [Permits!Next]_Holders
  BY StepIInv
<1>4. QED
  BY InitIInv, <1>1, <1>2, <1>3, PTL DEF HybridSpec, ImplementsPermits, Permits!Spec
-----------------------------------------------------------------------------
(* The initialisation.  InitOnce is not inductive: that nobody is inside   *)
(* while the cell is empty, and one worker alone while it is busy, has to  *)
(* be said.                                                                *)
CellInv ==
  /\ at \in [Workers -> Place]
  /\ inits \in {0, 1} /\ (inits = 0 <=> cell = "empty")
  /\ cell \in {"empty", "busy", "some", "none"}
  /\ \A w \in Workers : at[w] = "init" => cell = "busy"
  /\ \A v, w \in Workers : at[v] = "init" /\ at[w] = "init" => v = w
  /\ \A w \in Workers : at[w] \in {"load", "cas", "gpu", "release"} => cell = "some"

(* A worker that goes on outside the initialisation.                       *)
LEMMA OutsideMove ==
  ASSUME CellInv, NEW w \in Workers, NEW place \in Place \ {"init"},
         at[w] # "init", at' = [at EXCEPT ![w] = place], UNCHANGED <<cell, inits>>,
         place \in {"load", "cas", "gpu", "release"} => cell = "some"
  PROVE  CellInv'
BY DEF CellInv

LEMMA StepCellInv ==
  ASSUME CellInv, [HybridNext]_hybridVars
  PROVE  CellInv'
<1>1. CASE UNCHANGED hybridVars
  BY <1>1 DEF hybridVars, gpuVars, CellInv
<1>2. CASE Dispatch \/ Receive
  BY <1>2 DEF Dispatch, Receive, gpuVars, CellInv
<1>3. ASSUME NEW w \in Workers, Step(w)
      PROVE  CellInv'
  <2>1. CASE Start(w)
    BY <2>1, OutsideMove DEF Start, Goto, Place, gpuVars
  <2>2. CASE Count(w)
    <3>1. PICK place \in {"cpu", "cell"} : at' = [at EXCEPT ![w] = place]
      BY <2>2 DEF Count, Goto
    <3>2. QED
      BY <2>2, <3>1, OutsideMove DEF Count, Place
  <2>3. CASE BeginInit(w)
    BY <2>3 DEF BeginInit, Uninitialised, Goto, CellInv, Place
  <2>4. CASE EndInit(w)
    BY <2>4 DEF EndInit, Goto, CellInv, Place
  <2>5. CASE GetCell(w)
    <3>1. PICK place \in {"load", "cpu"} :
            at' = [at EXCEPT ![w] = place] /\ (place = "load" => cell = "some")
      BY <2>5 DEF GetCell, Goto
    <3>2. QED
      BY <2>5, <3>1, OutsideMove DEF GetCell, Place, gpuVars
  <2>6. CASE Load(w)
    BY <2>6, OutsideMove DEF Load, Goto, Place, gpuVars, CellInv
  <2>7. CASE NoPermit(w)
    BY <2>7, OutsideMove DEF NoPermit, Goto, Place, gpuVars
  <2>8. CASE ExchangeSucceeds(w)
    BY <2>8, OutsideMove DEF ExchangeSucceeds, Goto, Place, CellInv
  <2>9. CASE ExchangeFails(w)
    BY <2>9 DEF ExchangeFails, gpuVars, CellInv
  <2>10. CASE Encode(w)
    <3>1. PICK place \in {"gpu", "release"} : at' = [at EXCEPT ![w] = place]
      BY <2>10 DEF Encode, Goto
    <3>2. QED
      BY <2>10, <3>1, OutsideMove DEF Encode, Place, gpuVars, CellInv
  <2>11. CASE Release(w)
    BY <2>11, OutsideMove DEF Release, Goto, Place
  <2>12. CASE RunOnCpu(w)
    BY <2>12, OutsideMove DEF RunOnCpu, Goto, Place, gpuVars
  <2>13. CASE Send(w)
    BY <2>13, OutsideMove DEF Send, Goto, Place, gpuVars
  <2>14. QED
    BY <1>3, <2>1, <2>2, <2>3, <2>4, <2>5, <2>6, <2>7, <2>8, <2>9, <2>10,
       <2>11, <2>12, <2>13 DEF Step
<1>4. QED
  BY <1>1, <1>2, <1>3 DEF HybridNext

(* However many workers reach the uninitialised GPU at once, one of them   *)
(* initialises it, and the others wait for the result.                     *)
THEOREM InitialisedOnce == HybridSpec => []InitOnce
<1>1. HybridInit => CellInv
  BY DEF HybridInit, CellInv, Place
<1>2. CellInv /\ [HybridNext]_hybridVars => CellInv'
  BY StepCellInv
<1>3. CellInv => InitOnce
  BY DEF CellInv, InitOnce
<1>4. QED
  BY <1>1, <1>2, <1>3, PTL DEF HybridSpec
-----------------------------------------------------------------------------
(* Types.  A worker that is not idle has a chunk that was handed out, and  *)
(* one on the GPU path has a piece left.  That permits stays within its    *)
(* bound is conservation.                                                  *)
TInv ==
  /\ TypeOK
  /\ \A w \in Workers : at[w] # "idle" => job[w] \in 1 .. sent
  /\ \A w \in Workers : at[w] = "gpu" => left[w] >= 1

LEMMA StepTInv ==
  ASSUME TInv, [HybridNext]_hybridVars, permits' \in 0 .. GpuWorkers
  PROVE  TInv'
<1>1. CASE UNCHANGED hybridVars
  BY <1>1 DEF hybridVars, writerVars, gpuVars, TInv, TypeOK
<1>2. CASE Dispatch
  BY <1>2, HybridAssumption DEF Dispatch, gpuVars, TInv, TypeOK
<1>3. CASE Receive
  BY <1>3 DEF Receive, gpuVars, TInv, TypeOK
<1>4. ASSUME NEW w \in Workers, Step(w)
      PROVE  TInv'
  <2>1. CASE Start(w)
    BY <2>1 DEF Start, Goto, Place, writerVars, gpuVars, TInv, TypeOK
  <2>2. CASE Count(w)
    <3>1. PICK place \in {"cpu", "cell"} : at' = [at EXCEPT ![w] = place]
      BY <2>2 DEF Count, Goto
    <3>2. QED
      BY <2>2, <3>1 DEF Count, Place, writerVars, TInv, TypeOK
  <2>3. CASE BeginInit(w)
    BY <2>3 DEF BeginInit, Goto, Place, writerVars, TInv, TypeOK
  <2>4. CASE EndInit(w)
    BY <2>4 DEF EndInit, Goto, Place, writerVars, TInv, TypeOK
  <2>5. CASE GetCell(w)
    <3>1. PICK place \in {"load", "cpu"} : at' = [at EXCEPT ![w] = place]
      BY <2>5 DEF GetCell, Goto
    <3>2. QED
      BY <2>5, <3>1 DEF GetCell, Place, writerVars, gpuVars, TInv, TypeOK
  <2>6. CASE Load(w)
    BY <2>6 DEF Load, Goto, Place, writerVars, gpuVars, TInv, TypeOK
  <2>7. CASE NoPermit(w)
    BY <2>7 DEF NoPermit, Goto, Place, writerVars, gpuVars, TInv, TypeOK
  <2>8. CASE ExchangeSucceeds(w)
    BY <2>8, HybridAssumption DEF ExchangeSucceeds, Goto, Place, writerVars, TInv, TypeOK
  <2>9. CASE ExchangeFails(w)
    BY <2>9 DEF ExchangeFails, Actual, writerVars, gpuVars, TInv, TypeOK
  <2>10. CASE Encode(w)
    <3>1. PICK rest \in {left[w] - 1, 0} :
            /\ left' = [left EXCEPT ![w] = rest]
            /\ at' = [at EXCEPT ![w] = IF rest = 0 THEN "release" ELSE "gpu"]
      BY <2>10 DEF Encode, Goto
    <3>2. left[w] \in 1 .. Pieces /\ rest \in 0 .. Pieces
      BY <2>10, HybridAssumption DEF Encode, TInv, TypeOK
    <3>3. QED
      BY <2>10, <3>1, <3>2 DEF Encode, Place, writerVars, gpuVars, TInv, TypeOK
  <2>11. CASE Release(w)
    BY <2>11 DEF Release, Goto, Place, writerVars, TInv, TypeOK
  <2>12. CASE RunOnCpu(w)
    BY <2>12 DEF RunOnCpu, Goto, Place, writerVars, gpuVars, TInv, TypeOK
  <2>13. CASE Send(w)
    BY <2>13 DEF Send, Goto, Place, writerVars, gpuVars, TInv, TypeOK
  <2>14. QED
    BY <1>4, <2>1, <2>2, <2>3, <2>4, <2>5, <2>6, <2>7, <2>8, <2>9, <2>10,
       <2>11, <2>12, <2>13 DEF Step
<1>5. QED
  BY <1>1, <1>2, <1>3, <1>4 DEF HybridNext

(* Every variable keeps its type; in particular the counter of permits     *)
(* does not wrap below zero, and only chunks that were handed out finish.  *)
THEOREM TypeCorrect == HybridSpec => []TypeOK
<1>1. HybridInit => TInv
  BY HybridAssumption DEF HybridInit, TInv, TypeOK, Place
<1>2. IInv /\ TInv /\ [HybridNext]_hybridVars => IInv' /\ TInv'
  <2>1. SUFFICES ASSUME IInv, TInv, [HybridNext]_hybridVars PROVE IInv' /\ TInv'
    OBVIOUS
  <2>2. IInv'
    BY <2>1, StepIInv
  <2>3. permits' \in 0 .. GpuWorkers
    <3>1. Cardinality(Holders') \in Nat
      <4>1. Holders' \subseteq Workers
        BY DEF Holders
      <4>2. QED
        BY <4>1, HybridAssumption, FS_Subset, FS_CardinalityType
    <3>2. QED
      BY <2>2, <3>1, HybridAssumption DEF IInv, PermitsConserved
  <2>4. QED
    BY <2>1, <2>2, <2>3, StepTInv
<1>3. TInv => TypeOK
  BY DEF TInv
<1>4. QED
  BY InitIInv, <1>1, <1>2, <1>3, PTL DEF HybridSpec
-----------------------------------------------------------------------------
(* The warm-up.  Every chunk that was handed out is in the queue, with a   *)
(* worker that has not counted it, or counted; so the counter is at most   *)
(* sent, and who is at the cell has counted past Warmup.                   *)
Uncounted == {w \in Workers : at[w] = "count"}

CountInv ==
  /\ chunk_counter + (Cardinality(queued) + Cardinality(Uncounted)) = sent
  /\ \A w \in Workers : at[w] \in {"cell", "init"} => chunk_counter > Warmup
  /\ inits > 0 => chunk_counter > Warmup

LEMMA CountedFinite ==
  ASSUME TypeOK
  PROVE  /\ IsFiniteSet(queued) /\ Cardinality(queued) \in Nat
         /\ IsFiniteSet(Uncounted) /\ Cardinality(Uncounted) \in Nat
<1>1. IsFiniteSet(1 .. sent) /\ queued \subseteq 1 .. sent /\ Uncounted \subseteq Workers
  BY FS_Interval DEF TypeOK, Uncounted
<1>2. IsFiniteSet(queued) /\ IsFiniteSet(Uncounted)
  BY <1>1, HybridAssumption, FS_Subset
<1> QED BY <1>2, FS_CardinalityType

(* A worker that goes on behind the counter, and not to the cell unless it *)
(* comes from there.                                                       *)
LEMMA CountedMove ==
  ASSUME TypeOK, CountInv, NEW w \in Workers, NEW place \in Place \ {"count"},
         at[w] # "count", at' = [at EXCEPT ![w] = place],
         UNCHANGED <<chunk_counter, queued, sent>>,
         place \in {"cell", "init"} => at[w] \in {"cell", "init"},
         inits' > 0 => inits > 0 \/ at[w] = "cell"
  PROVE  CountInv'
<1>1. Uncounted' = Uncounted
  BY DEF Uncounted, TypeOK
<1> QED BY <1>1 DEF CountInv, TypeOK

LEMMA StepCountInv ==
  ASSUME TypeOK, CountInv, [HybridNext]_hybridVars
  PROVE  CountInv'
<1> USE DEF writerVars, gpuVars
<1>1. ASSUME UNCHANGED <<chunk_counter, queued, sent, at, inits>> PROVE CountInv'
  BY <1>1 DEF CountInv, Uncounted
<1>2. CASE Dispatch
  <2>1. UNCHANGED <<chunk_counter, at, inits>> /\ Uncounted' = Uncounted
    BY <1>2 DEF Dispatch, Uncounted
  <2>2. Cardinality(queued') = Cardinality(queued) + 1
    <3>1. sent + 1 \notin queued
      BY DEF TypeOK
    <3> QED BY <1>2, <3>1, CountedFinite, FS_AddElement DEF Dispatch
  <2>3. sent' = sent + 1
    BY <1>2 DEF Dispatch
  <2> QED BY <2>1, <2>2, <2>3, CountedFinite DEF CountInv, TypeOK
<1>3. ASSUME NEW w \in Workers, Start(w) PROVE CountInv'
  <2>1. PICK c \in queued : queued' = queued \ {c}
    BY <1>3 DEF Start
  <2>2. at[w] = "idle" /\ at' = [at EXCEPT ![w] = "count"] /\ UNCHANGED <<chunk_counter, sent, inits>>
    BY <1>3 DEF Start, Goto
  <2>3. Cardinality(queued') = Cardinality(queued) - 1
    BY <2>1, CountedFinite, FS_RemoveElement
  <2>4. Uncounted' = Uncounted \cup {w} /\ w \notin Uncounted
    BY <2>2 DEF Uncounted, TypeOK
  <2>5. Cardinality(Uncounted') = Cardinality(Uncounted) + 1
    BY <2>4, CountedFinite, FS_AddElement
  <2>6. \A v \in Workers : at'[v] \in {"cell", "init"} => at[v] \in {"cell", "init"}
    BY <2>2 DEF TypeOK
  <2>7. chunk_counter' + (Cardinality(queued') + Cardinality(Uncounted')) = sent'
    BY <2>2, <2>3, <2>5, CountedFinite DEF CountInv, TypeOK
  <2> QED BY <2>2, <2>6, <2>7 DEF CountInv
<1>4. ASSUME NEW w \in Workers, Count(w) PROVE CountInv'
  <2>1. /\ at[w] = "count" /\ chunk_counter' = chunk_counter + 1 /\ UNCHANGED <<queued, sent, inits>>
        /\ at' = [at EXCEPT ![w] = IF GpuWorkers = 0 \/ Warm(chunk_counter) THEN "cpu" ELSE "cell"]
    BY <1>4 DEF Count, Goto
  <2>2. Uncounted' = Uncounted \ {w} /\ w \in Uncounted
    BY <2>1 DEF Uncounted, TypeOK
  <2>3. Cardinality(Uncounted') = Cardinality(Uncounted) - 1
    BY <2>2, CountedFinite, FS_RemoveElement
  <2>4. at'[w] = "cell" => chunk_counter >= Warmup
    BY <2>1, HybridAssumption DEF Warm, TypeOK
  <2>5. at'[w] # "init" /\ \A v \in Workers \ {w} : at'[v] = at[v]
    BY <2>1 DEF TypeOK
  <2>6. chunk_counter' + (Cardinality(queued') + Cardinality(Uncounted')) = sent'
    BY <2>1, <2>3, CountedFinite DEF CountInv, TypeOK
  <2> QED BY <2>1, <2>4, <2>5, <2>6, HybridAssumption DEF CountInv, TypeOK
<1>5. ASSUME NEW w \in Workers, Step(w) PROVE CountInv'
  <2>1. CASE BeginInit(w)
    BY <2>1, CountedMove DEF BeginInit, Goto, Place
  <2>2. CASE EndInit(w)
    BY <2>2, CountedMove DEF EndInit, Goto, Place
  <2>3. CASE GetCell(w)
    <3>1. PICK place \in {"load", "cpu"} : at' = [at EXCEPT ![w] = place]
      BY <2>3 DEF GetCell, Goto
    <3> QED BY <2>3, <3>1, CountedMove DEF GetCell, Place
  <2>4. CASE Load(w)
    BY <2>4, CountedMove DEF Load, Goto, Place
  <2>5. CASE NoPermit(w)
    BY <2>5, CountedMove DEF NoPermit, Goto, Place
  <2>6. CASE ExchangeSucceeds(w)
    BY <2>6, CountedMove DEF ExchangeSucceeds, Goto, Place
  <2>7. CASE ExchangeFails(w)
    BY <1>1, <2>7 DEF ExchangeFails
  <2>8. CASE Encode(w)
    <3>1. PICK place \in {"gpu", "release"} : at' = [at EXCEPT ![w] = place]
      BY <2>8 DEF Encode, Goto
    <3> QED BY <2>8, <3>1, CountedMove DEF Encode, Place
  <2>9. CASE Release(w)
    BY <2>9, CountedMove DEF Release, Goto, Place
  <2>10. CASE RunOnCpu(w)
    BY <2>10, CountedMove DEF RunOnCpu, Goto, Place
  <2>11. CASE Send(w)
    BY <2>11, CountedMove DEF Send, Goto, Place
  <2> QED
    BY <1>3, <1>4, <1>5, <2>1, <2>2, <2>3, <2>4, <2>5, <2>6, <2>7, <2>8, <2>9, <2>10, <2>11
    DEF Step
<1>6. CASE Receive \/ UNCHANGED hybridVars
  BY <1>1, <1>6 DEF Receive, hybridVars
<1> QED BY <1>2, <1>5, <1>6 DEF HybridNext

(* A stream of at most Warmup chunks never pays for the initialisation,    *)
(* whatever the order in which its chunks are started and counted.         *)
THEOREM WarmupIsFree == HybridSpec => []WarmupAvoidsInit
<1>1. HybridInit => CountInv
  <2> SUFFICES ASSUME HybridInit PROVE CountInv
    OBVIOUS
  <2>1. Uncounted = {} /\ queued = {}
    BY DEF HybridInit, Uncounted
  <2> QED BY <2>1, FS_EmptySet DEF HybridInit, CountInv
<1>2. TypeOK /\ CountInv /\ [HybridNext]_hybridVars => CountInv'
  BY StepCountInv
<1>3. TypeOK /\ CountInv => WarmupAvoidsInit
  <2> SUFFICES ASSUME TypeOK, CountInv, inits > 0 PROVE chunk_counter > Warmup /\ sent > Warmup
    BY DEF WarmupAvoidsInit
  <2>1. chunk_counter \in Nat /\ sent \in Nat /\ Warmup \in Nat
    BY HybridAssumption DEF TypeOK
  <2> QED BY <2>1, CountedFinite DEF CountInv
<1> QED BY TypeCorrect, <1>1, <1>2, <1>3, PTL DEF HybridSpec
=============================================================================
