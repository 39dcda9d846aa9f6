----------------------------- MODULE Lz77Proof -----------------------------
(***************************************************************************)
(* Whatever the hash tables hold, the walks over the tokens of the lookup  *)
(* pass lose nothing, and the walk in blocks is the serial one; and the    *)
(* tables hold what the build pass meant them to, so no repetition is      *)
(* missed.  For any chunk, segments, blocks, window and number of buckets. *)
(*                                                                         *)
(* A token of the lookup pass is a literal of its own byte or a repetition *)
(* that was compared byte by byte (TrueToken), which is all that Expand    *)
(* needs to give the input back (ExpandTrue).  That a slot holds the       *)
(* oldest or the newest position of its segment and bucket (TablesRight)   *)
(* only decides which repetitions are found (RepeatFound).  The walk in    *)
(* blocks follows, block by block, a path of the serial walk (IsPath).     *)
(*                                                                         *)
(* Induction over positions and lengths, and the recursive functions of    *)
(* the model, come from DataInduction.                                     *)
(***************************************************************************)
EXTENDS Lz77Walk, SequenceTheorems, DataInduction

LEMMA MaxIs ==
  ASSUME NEW S \in SUBSET Int, NEW x \in S, \A y \in S : y <= x
  PROVE  Max(S) = x
<1>1. x \in S /\ \A y \in S : x \geq y
  OBVIOUS
<1>2. Max(S) \in S /\ \A y \in S : Max(S) \geq y
  BY <1>1, Zenon DEF Max
<1>3. Max(S) \in Int /\ x \in Int
  BY <1>2
<1>4. Max(S) >= x /\ x >= Max(S)
  BY <1>1, <1>2, <1>3
<1> QED BY <1>3, <1>4

LEMMA MinIs ==
  ASSUME NEW S \in SUBSET Int, NEW x \in S, \A y \in S : x <= y
  PROVE  Min(S) = x
<1>1. x \in S /\ \A y \in S : x \leq y
  OBVIOUS
<1>2. Min(S) \in S /\ \A y \in S : Min(S) \leq y
  BY <1>1, Zenon DEF Min
<1>3. Min(S) \in Int /\ x \in Int
  BY <1>2
<1>4. Min(S) >= x /\ x >= Min(S)
  BY <1>1, <1>2, <1>3
<1> QED BY <1>3, <1>4

LEMMA Greatest ==
  ASSUME NEW S \in SUBSET Nat, NEW bound \in Nat, S # {}, \A y \in S : y <= bound
  PROVE  Max(S) \in S /\ \A y \in S : y <= Max(S)
<1> DEFINE T == {bound - y : y \in S}
<1>1. T \in SUBSET Nat /\ T # {}
  <2>1. \A y \in S : bound - y \in Nat
    OBVIOUS
  <2> QED BY <2>1
<1>2. PICK t \in T : \A u \in T : t <= u
  <2> HIDE DEF T
  <2> QED BY <1>1, Least
<1>3. PICK x \in S : t = bound - x
  OBVIOUS
<1>4. \A y \in S : y <= x
  <2>1. \A y \in S : bound - y \in T
    OBVIOUS
  <2> HIDE DEF T
  <2> QED BY <1>2, <1>3, <2>1
<1> HIDE DEF T
<1> QED BY <1>4, MaxIs

LEMMA Division ==
  ASSUME NEW a \in Int, NEW b \in Nat \ {0}
  PROVE  a \div b \in Int /\ b * (a \div b) <= a /\ a < b * ((a \div b) + 1)
OBVIOUS

LEMMA Quotient ==
  ASSUME NEW a \in Nat, NEW b \in Nat \ {0}, NEW c \in Nat, a < b * c
  PROVE  a \div b \in 0 .. c - 1
OBVIOUS

LEMMA Product ==
  ASSUME NEW a \in Int, NEW b \in Int, NEW k \in Nat, a < b
  PROVE  a * k + k <= b * k
OBVIOUS
-----------------------------------------------------------------------------
Chunk == UNION {[1 .. m -> Byte] : m \in 0 .. MaxLen}

LEMMA Sizes ==
  /\ SegSize \in Nat \ {0} /\ Buckets \in Nat \ {0} /\ Byte \subseteq Nat
  /\ MaxLen \in Nat \ {0} /\ Window \in Nat \ {0} /\ MaxMatch \in Nat /\ MaxMatch >= 3
  /\ LongMatch \in Nat /\ SegSize <= Window /\ BlockSize \in Nat \ {0} /\ Unset \in Nat \ {0}
BY HashAssumption, PowersAssumption, BlockAssumption DEF SegSize, Buckets, Byte, Unset

LEMMA ChunkTypes ==
  ASSUME input \in Chunk
  PROVE  /\ n \in 0 .. MaxLen /\ input \in [1 .. n -> Byte] /\ input \in Seq(Byte)
         /\ \A p \in 0 .. n - 1 : ReadByte(p) \in Nat
         /\ Hashed = 0 .. n - 3
<1>1. PICK m \in 0 .. MaxLen : input \in [1 .. m -> Byte]
  BY DEF Chunk
<1>2. m \in Nat /\ MaxLen \in Nat
  BY Sizes
<1>3. input \in Seq(Byte) /\ n = m
  BY <1>1, <1>2 DEF n
<1>4. n \in 0 .. MaxLen /\ input \in [1 .. n -> Byte] /\ Hashed = 0 .. n - 3
  BY <1>1, <1>3 DEF Hashed, n
<1>5. ASSUME NEW p \in 0 .. n - 1 PROVE ReadByte(p) \in Nat
  <2>1. p + 1 \in 1 .. n
    BY <1>2, <1>4
  <2> QED BY <1>4, <2>1, Sizes DEF ReadByte
<1> QED BY <1>3, <1>4, <1>5

LEMMA Segments ==
  ASSUME NEW m \in 0 .. MaxLen
  PROVE  /\ NumSegs(m) \in Nat /\ NumSegs(m) <= NumSegs(MaxLen)
         /\ \A p \in 0 .. m - 1 : p \div SegSize \in 0 .. NumSegs(m) - 1
<1>1. SegSize \in Nat \ {0} /\ m \in Nat /\ MaxLen \in Nat
  BY Sizes
<1> DEFINE q == (m + SegSize - 1) \div SegSize
           r == (MaxLen + SegSize - 1) \div SegSize
<1>2. /\ q \in Int /\ SegSize * q <= m + SegSize - 1 /\ m + SegSize - 1 < SegSize * (q + 1)
      /\ r \in Int /\ SegSize * r <= MaxLen + SegSize - 1 /\ MaxLen + SegSize - 1 < SegSize * (r + 1)
  BY <1>1, Division
<1>3. q = NumSegs(m) /\ r = NumSegs(MaxLen)
  BY DEF NumSegs
<1> HIDE DEF q, r
<1>4. q \in Nat
  <2>1. m + SegSize - 1 \in Nat
    BY <1>1
  <2> QED BY <1>1, <1>2, <2>1
<1>5. q <= r
  <2> SUFFICES ASSUME r < q PROVE FALSE
    BY <1>2
  <2>1. SegSize * (r + 1) <= SegSize * q
    BY <1>1, <1>2
  <2> QED BY <1>1, <1>2, <2>1
<1>6. ASSUME NEW p \in 0 .. m - 1 PROVE p \div SegSize \in 0 .. q - 1
  <2>1. p < SegSize * q
    <3>1. SegSize * (q + 1) = SegSize * q + SegSize
      BY <1>1, <1>2
    <3> QED BY <1>1, <1>2, <3>1
  <2>2. p \in Nat
    BY <1>1
  <2> QED BY <1>1, <1>4, <2>1, <2>2, Quotient
<1> QED BY <1>3, <1>4, <1>5, <1>6

LEMMA HashRange ==
  ASSUME input \in Chunk, NEW p \in Hashed
  PROVE  Hash3(p) \in 0 .. Buckets - 1
<1> DEFINE x == ReadByte(p) * 2^(2 * ByteBits) + ReadByte(p + 1) * 2^ByteBits + ReadByte(p + 2)
           W == 2^WordBits
           D == 2^(WordBits - HashBits)
<1>1. x \in Int
  <2>1. {ReadByte(p), ReadByte(p + 1), ReadByte(p + 2)} \subseteq Nat
    BY ChunkTypes
  <2>2. 2 * ByteBits \in Nat /\ ByteBits \in Nat
    BY HashAssumption
  <2>3. 2^(2 * ByteBits) \in Int /\ 2^ByteBits \in Int
    BY <2>2
  <2> QED BY <2>1, <2>3
<1>2. W \in Nat \ {0} /\ D \in Nat \ {0} /\ W = D * Buckets /\ Buckets \in Nat \ {0}
  BY PowersAssumption DEF Buckets
<1>3. Multiplier \in Nat
  BY HashAssumption
<1>4. Hash3(p) = ((x * Multiplier) % W) \div D
  BY DEF Hash3
<1> HIDE DEF x, W, D
<1>5. x * Multiplier \in Int
  BY <1>1, <1>3
<1>6. (x * Multiplier) % W \in 0 .. W - 1
  BY <1>2, <1>5
<1> QED BY <1>2, <1>4, <1>6, Quotient

(* Slots of the table: the layout for a chunk of m bytes gives each hash   *)
(* and segment one of its own, among those that are reset for it.          *)
LEMMA SlotApart ==
  ASSUME NEW N \in Nat, NEW h \in Nat, NEW k \in Nat, NEW s \in 0 .. N - 1, NEW t \in 0 .. N - 1,
         h * N + s = k * N + t
  PROVE  h = k /\ s = t
<1>3. ~ h < k
  <2> SUFFICES ASSUME h < k PROVE FALSE
    OBVIOUS
  <2>1. h * N + N <= k * N
    BY Product
  <2> QED BY <2>1
<1>4. ~ k < h
  <2> SUFFICES ASSUME k < h PROVE FALSE
    OBVIOUS
  <2>1. k * N + N <= h * N
    BY Product
  <2> QED BY <2>1
<1>5. h = k
  BY <1>3, <1>4
<1> QED BY <1>5

LEMMA SlotRange ==
  ASSUME NEW m \in 0 .. MaxLen, NEW h \in 0 .. Buckets - 1, NEW s \in 0 .. NumSegs(m) - 1
  PROVE  /\ h * NumSegs(m) + s \in 0 .. TableSize - 1
         /\ h * NumSegs(m) + s < Buckets * NumSegs(m)
<1> DEFINE N == NumSegs(m)
           M == NumSegs(MaxLen)
<1>1. N \in Nat /\ s \in 0 .. N - 1 /\ M \in Nat /\ N <= M /\ Buckets \in Nat
  <2>1. MaxLen \in 0 .. MaxLen
    BY Sizes
  <2> QED BY <2>1, Segments, Sizes
<1>2. TableSize = Buckets * M
  BY DEF TableSize
<1> HIDE DEF N, M
<1>3. h * N + N <= Buckets * N
  BY <1>1, Product
<1>4. Buckets * N <= Buckets * M
  BY <1>1
<1>5. h * N \in Nat
  BY <1>1
<1>6. h * N + s < Buckets * N /\ h * N + s \in Nat /\ Buckets * N \in Nat /\ Buckets * M \in Nat
  BY <1>1, <1>3, <1>5
<1>7. h * N + s \in 0 .. TableSize - 1
  BY <1>2, <1>4, <1>6
<1> QED BY <1>6, <1>7 DEF N
-----------------------------------------------------------------------------
InSlot(p, h, seg) == Hash3(p) = h /\ p \div SegSize = seg

(* An entry of the tables bounds the positions recorded so far for its     *)
(* hash and segment, and is one of them if there is any.                   *)
OldestRight(table, done, h, seg) ==
  /\ \A p \in done : InSlot(p, h, seg) => table[Slot(h, seg)] <= p + 1
  /\ table[Slot(h, seg)] = Unset \/ \E p \in done : InSlot(p, h, seg) /\ table[Slot(h, seg)] = p + 1

NewestRight(table, done, h, seg) ==
  /\ \A p \in done : InSlot(p, h, seg) => table[Slot(h, seg)] >= p + 1
  /\ table[Slot(h, seg)] = 0 \/ \E p \in done : InSlot(p, h, seg) /\ table[Slot(h, seg)] = p + 1

TablesRight ==
  \A h \in 0 .. Buckets - 1, seg \in 0 .. NumSegs(Len(input)) - 1 :
    /\ OldestRight(seg_oldest, Hashed \ building, h, seg)
    /\ NewestRight(seg_newest, Hashed \ building, h, seg)

Tables == [0 .. TableSize - 1 -> 0 .. Unset]

MatchInv ==
  /\ input \in Chunk /\ chunks \in Nat
  /\ seg_oldest \in Tables /\ seg_newest \in Tables
  /\ building \subseteq Hashed
  /\ phase \in {"upload", "build", "walk"}
  /\ phase = "upload" => tokens = <<>>
  /\ phase = "walk" => building = {} /\ tokens = [k \in 1 .. Len(input) |-> TokenAt(k - 1)]
  /\ phase \in {"build", "walk"} => TablesRight

LEMMA InitMatch == MatchInit => MatchInv
<1> SUFFICES ASSUME MatchInit PROVE MatchInv
  OBVIOUS
<1>1. input \in Chunk
  <2>1. <<>> \in [1 .. 0 -> Byte]
    OBVIOUS
  <2>2. 0 \in 0 .. MaxLen
    BY Sizes
  <2> QED BY <2>1, <2>2 DEF MatchInit, Chunk
<1>2. seg_oldest \in Tables /\ seg_newest \in Tables
  BY Sizes DEF MatchInit, Tables
<1> QED BY <1>1, <1>2 DEF MatchInit, MatchInv

LEMMA UploadMatch ==
  ASSUME MatchInv, NEW m \in 1 .. MaxLen, NEW bytes \in [1 .. m -> Byte], Upload(bytes)
  PROVE  MatchInv'
<1>1. bytes \in Chunk /\ Len(bytes) = m /\ m \in 0 .. MaxLen
  BY Sizes DEF Chunk
<1>2. input' = bytes /\ building' = 0 .. Len(bytes) - 3 /\ Hashed' = 0 .. Len(bytes) - 3
  BY DEF Upload, Hashed
<1>3. chunks' \in Nat
  BY DEF Upload, MatchInv
<1>4. ASSUME NEW table \in Tables, NEW value \in 0 .. Unset
      PROVE  /\ Reset(table, value, bytes) \in Tables
             /\ \A h \in 0 .. Buckets - 1, seg \in 0 .. NumSegs(m) - 1 :
                   Reset(table, value, bytes)[h * NumSegs(m) + seg] = value
  <2>1. Reset(table, value, bytes) \in Tables
    BY DEF Reset, Tables
  <2>2. ASSUME NEW h \in 0 .. Buckets - 1, NEW seg \in 0 .. NumSegs(m) - 1
        PROVE  Reset(table, value, bytes)[h * NumSegs(m) + seg] = value
    <3> DEFINE s == h * NumSegs(m) + seg
    <3>1. s \in 0 .. TableSize - 1 /\ s < Buckets * NumSegs(m)
      BY <1>1, SlotRange
    <3> HIDE DEF s
    <3>2. Reset(table, value, bytes)[s] = value
      BY <1>1, <3>1 DEF Reset, Tables
    <3> QED BY <3>2 DEF s
  <2> QED BY <2>1, <2>2
<1>5. 0 \in 0 .. Unset /\ Unset \in 0 .. Unset
  BY Sizes
<1>6. seg_oldest' \in Tables /\ seg_newest' \in Tables
  BY <1>4, <1>5 DEF Upload, MatchInv
<1>7. TablesRight'
  <2> SUFFICES ASSUME NEW h \in 0 .. Buckets - 1, NEW seg \in 0 .. NumSegs(m) - 1
               PROVE  /\ seg_oldest'[h * NumSegs(m) + seg] = Unset
                      /\ seg_newest'[h * NumSegs(m) + seg] = 0
    BY <1>1, <1>2 DEF TablesRight, OldestRight, NewestRight, Slot
  <2> QED BY <1>4, <1>5 DEF Upload, MatchInv
<1>8. phase' = "build" /\ tokens' = <<>>
  BY DEF Upload
<1> QED BY <1>1, <1>2, <1>3, <1>6, <1>7, <1>8 DEF MatchInv

LEMMA BuildMatch ==
  ASSUME MatchInv, NEW p \in building, Build(p)
  PROVE  MatchInv'
<1> DEFINE g == Hash3(p)
           own == p \div SegSize
           z == Slot(g, own)
<1>1. p \in Hashed /\ input \in Chunk /\ n \in 0 .. MaxLen /\ p \in 0 .. n - 1 /\ p + 1 \in 0 .. Unset
  <2>1. p \in Hashed /\ input \in Chunk
    BY DEF MatchInv
  <2>2. Hashed = 0 .. n - 3 /\ n \in 0 .. MaxLen
    BY <2>1, ChunkTypes
  <2> QED BY <2>1, <2>2, Sizes DEF Unset
<1>2. g \in 0 .. Buckets - 1 /\ own \in 0 .. NumSegs(n) - 1
  BY <1>1, HashRange, Segments
<1>3. z = g * NumSegs(n) + own /\ z \in 0 .. TableSize - 1
  <2> HIDE DEF g, own
  <2> QED BY <1>1, <1>2, SlotRange DEF Slot, n
<1>4. input' = input /\ Hashed' = Hashed /\ phase' = phase /\ tokens' = tokens /\ chunks' = chunks
      /\ phase = "build" /\ building' = building \ {p}
  BY DEF Build, Hashed
<1>5. seg_oldest' = [seg_oldest EXCEPT ![z] = Min({seg_oldest[z], p + 1})]
      /\ seg_newest' = [seg_newest EXCEPT ![z] = Max({seg_newest[z], p + 1})]
  BY DEF Build
<1>6. seg_oldest[z] \in 0 .. Unset /\ seg_newest[z] \in 0 .. Unset
  <2> HIDE DEF z
  <2> QED BY <1>3 DEF MatchInv, Tables
<1> HIDE DEF z
<1>7. ASSUME NEW a \in 0 .. Unset
      PROVE  Min({a, p + 1}) = (IF a <= p + 1 THEN a ELSE p + 1)
             /\ Max({a, p + 1}) = (IF a >= p + 1 THEN a ELSE p + 1)
  <2> HIDE DEF g, own
  <2>1. {a, p + 1} \in SUBSET Int /\ a \in {a, p + 1} /\ p + 1 \in {a, p + 1}
    BY <1>1
  <2>2. CASE a <= p + 1
    <3>1. \A y \in {a, p + 1} : a <= y /\ y <= p + 1
      BY <1>1, <2>2
    <3>2. Min({a, p + 1}) = a /\ Max({a, p + 1}) = p + 1
      BY <2>1, <3>1, MinIs, MaxIs
    <3> QED BY <1>1, <2>2, <3>2
  <2>3. CASE ~ (a <= p + 1)
    <3>1. \A y \in {a, p + 1} : p + 1 <= y /\ y <= a
      BY <1>1, <2>3
    <3>2. Min({a, p + 1}) = p + 1 /\ Max({a, p + 1}) = a
      BY <2>1, <3>1, MinIs, MaxIs
    <3> QED BY <1>1, <2>3, <3>2
  <2> QED BY <2>2, <2>3
<1>8. seg_oldest \in Tables /\ seg_newest \in Tables
  BY DEF MatchInv
<1>9. seg_oldest'[z] = (IF seg_oldest[z] <= p + 1 THEN seg_oldest[z] ELSE p + 1)
      /\ seg_newest'[z] = (IF seg_newest[z] >= p + 1 THEN seg_newest[z] ELSE p + 1)
      /\ \A s \in 0 .. TableSize - 1 :
           s # z => seg_oldest'[s] = seg_oldest[s] /\ seg_newest'[s] = seg_newest[s]
  BY <1>3, <1>5, <1>6, <1>7, <1>8 DEF Tables
<1>10. seg_oldest' \in Tables /\ seg_newest' \in Tables
  <2>1. Min({seg_oldest[z], p + 1}) \in 0 .. Unset /\ Max({seg_newest[z], p + 1}) \in 0 .. Unset
    BY <1>1, <1>6, <1>7
  <2> QED BY <1>3, <1>5, <1>8, <2>1 DEF Tables
<1>11. TablesRight'
  <2> SUFFICES ASSUME NEW h \in 0 .. Buckets - 1, NEW seg \in 0 .. NumSegs(n) - 1
               PROVE  /\ OldestRight(seg_oldest, Hashed \ building, h, seg)'
                      /\ NewestRight(seg_newest, Hashed \ building, h, seg)'
    BY <1>4 DEF TablesRight, n
  <2> DEFINE s == Slot(h, seg)
             done == Hashed \ building
  <2>1. s = h * NumSegs(n) + seg /\ s \in 0 .. TableSize - 1
    BY <1>1, SlotRange DEF Slot, n
  <2>2. Slot(h, seg)' = s /\ (Hashed \ building)' = done \cup {p}
    BY <1>1, <1>4 DEF Slot
  <2>3. \A q \in done \cup {p} : InSlot(q, h, seg)' <=> InSlot(q, h, seg)
    BY <1>4 DEF InSlot, Hash3, ReadByte
  <2>4. /\ OldestRight(seg_oldest, done, h, seg)
        /\ NewestRight(seg_newest, done, h, seg)
    BY <1>4 DEF MatchInv, TablesRight, n
  <2>5. seg_oldest[s] \in 0 .. Unset /\ seg_newest[s] \in 0 .. Unset
    <3> HIDE DEF s
    <3> QED BY <1>8, <2>1 DEF Tables
  <2>6. done \subseteq Nat /\ p \in Nat
    BY <1>1, ChunkTypes
  <2>7. CASE s = z
    <3>1. InSlot(p, h, seg)
      <4>1. h = g /\ seg = own
        <5> HIDE DEF g, own
        <5>1. NumSegs(n) \in Nat /\ g \in Nat /\ h \in Nat
          BY <1>1, <1>2, Segments, Sizes
        <5> QED BY <1>2, <1>3, <2>1, <2>7, <5>1, SlotApart
      <4> QED BY <4>1 DEF InSlot
    <3> HIDE DEF s, done, g, own
    <3>2. /\ \A q \in done : InSlot(q, h, seg) => seg_oldest[s] <= q + 1 /\ seg_newest[s] >= q + 1
          /\ seg_oldest[s] = Unset \/ \E q \in done : InSlot(q, h, seg) /\ seg_oldest[s] = q + 1
          /\ seg_newest[s] = 0 \/ \E q \in done : InSlot(q, h, seg) /\ seg_newest[s] = q + 1
      BY <2>4 DEF OldestRight, NewestRight, s
    <3>3. /\ \A q \in done \cup {p} : InSlot(q, h, seg) => seg_oldest'[s] <= q + 1 /\ seg_newest'[s] >= q + 1
          /\ \E q \in done \cup {p} : InSlot(q, h, seg) /\ seg_oldest'[s] = q + 1
          /\ \E q \in done \cup {p} : InSlot(q, h, seg) /\ seg_newest'[s] = q + 1
      <4>1. seg_oldest'[s] <= p + 1 /\ seg_newest'[s] >= p + 1
            /\ seg_oldest'[s] <= seg_oldest[s] /\ seg_newest'[s] >= seg_newest[s]
            /\ seg_oldest'[s] \in 0 .. Unset /\ seg_newest'[s] \in 0 .. Unset
        BY <1>1, <1>9, <2>5, <2>7
      <4>2. \A q \in done \cup {p} : InSlot(q, h, seg) => seg_oldest'[s] <= q + 1 /\ seg_newest'[s] >= q + 1
        BY <2>5, <2>6, <3>2, <4>1
      <4>3. seg_oldest'[s] = p + 1 \/ \E q \in done : InSlot(q, h, seg) /\ seg_oldest'[s] = q + 1
        BY <1>1, <1>9, <2>5, <2>7, <3>2
      <4>4. seg_newest'[s] = p + 1 \/ \E q \in done : InSlot(q, h, seg) /\ seg_newest'[s] = q + 1
        BY <1>1, <1>9, <2>5, <2>7, <3>2
      <4> QED BY <3>1, <4>2, <4>3, <4>4
    <3> QED BY <2>2, <2>3, <3>3 DEF OldestRight, NewestRight
  <2>8. CASE s # z
    <3>1. ~ InSlot(p, h, seg)
      BY <2>8 DEF InSlot, z
    <3>2. seg_oldest'[s] = seg_oldest[s] /\ seg_newest'[s] = seg_newest[s]
      BY <1>9, <2>1, <2>8
    <3> HIDE DEF s, done, g, own
    <3>3. /\ \A q \in done \cup {p} : InSlot(q, h, seg) => seg_oldest[s] <= q + 1 /\ seg_newest[s] >= q + 1
          /\ seg_oldest[s] = Unset \/ \E q \in done \cup {p} : InSlot(q, h, seg) /\ seg_oldest[s] = q + 1
          /\ seg_newest[s] = 0 \/ \E q \in done \cup {p} : InSlot(q, h, seg) /\ seg_newest[s] = q + 1
      BY <2>4, <3>1 DEF OldestRight, NewestRight, s
    <3> QED BY <2>2, <2>3, <3>2, <3>3 DEF OldestRight, NewestRight
  <2> QED BY <2>7, <2>8
<1> QED BY <1>4, <1>10, <1>11 DEF MatchInv

LEMMA SameTokens ==
  ASSUME UNCHANGED <<input, seg_oldest, seg_newest>>
  PROVE  \A k \in 1 .. Len(input) : TokenAt(k - 1)' = TokenAt(k - 1)
BY DEF TokenAt, BestMatch, InSegment, TryCandidate, Usable, Extent, SameAt, ReadByte,
   SkipOldest, Slot, Hash3, Hashed

LEMMA LookupMatch == MatchInv /\ Lookup => MatchInv'
<1> SUFFICES ASSUME MatchInv, Lookup PROVE MatchInv'
  OBVIOUS
<1>1. UNCHANGED <<input, seg_oldest, seg_newest, building, chunks>> /\ phase' = "walk" /\ phase = "build"
      /\ building = {} /\ tokens' = [k \in 1 .. Len(input) |-> TokenAt(k - 1)]
  BY DEF Lookup
<1>2. TablesRight' <=> TablesRight
  BY <1>1 DEF TablesRight, OldestRight, NewestRight, InSlot, Slot, Hash3, ReadByte, Hashed
<1>3. [k \in 1 .. Len(input) |-> TokenAt(k - 1)]' = [k \in 1 .. Len(input) |-> TokenAt(k - 1)]
  <2>1. \A k \in 1 .. Len(input) : TokenAt(k - 1)' = TokenAt(k - 1)
    BY <1>1, SameTokens
  <2> QED BY <1>1, <2>1
<1> QED BY <1>1, <1>2, <1>3 DEF MatchInv, Hashed

LEMMA IdleMatch ==
  ASSUME MatchInv, UNCHANGED <<input, seg_oldest, seg_newest, building, chunks>>,
         \/ UNCHANGED <<tokens, phase>>
         \/ phase' = "upload" /\ tokens' = <<>>
  PROVE  MatchInv'
<1>2. TablesRight' <=> TablesRight
  BY DEF TablesRight, OldestRight, NewestRight, InSlot, Slot, Hash3, ReadByte, Hashed
<1>3. [k \in 1 .. Len(input) |-> TokenAt(k - 1)]' = [k \in 1 .. Len(input) |-> TokenAt(k - 1)]
  <2>1. \A k \in 1 .. Len(input) : TokenAt(k - 1)' = TokenAt(k - 1)
    BY SameTokens
  <2> QED BY <2>1
<1> QED BY <1>2, <1>3 DEF MatchInv, Hashed

LEMMA NextMatch ==
  ASSUME MatchInv, [Next]_vars
  PROVE  MatchInv'
<1>1. CASE MatchFind
  BY <1>1, UploadMatch, BuildMatch, LookupMatch DEF MatchFind, MatchNext
<1>2. CASE UNCHANGED matchVars
  BY <1>2, IdleMatch DEF matchVars
<1>3. CASE WalkEnds
  BY <1>3, IdleMatch DEF WalkEnds
<1> QED BY <1>1, <1>2, <1>3 DEF Next, vars, StartSequential, LazyStep, SerialStep, StartBlocks,
       ChainBlock, Summarise, EmitToken

LEMMA MatchInvariant == Spec => []MatchInv
<1>1. Init => MatchInv
  BY InitMatch DEF Init
<1>2. MatchInv /\ [Next]_vars => MatchInv'
  BY NextMatch
<1> QED BY <1>1, <1>2, PTL DEF Spec

LEMMA ExactTables == MatchInv => TablesExact
<1> SUFFICES ASSUME MatchInv, phase = "build", building = {},
                    NEW h \in 0 .. Buckets - 1, NEW seg \in 0 .. NumSegs(Len(input)) - 1
             PROVE  LET here == {p + 1 : p \in {q \in Hashed : Hash3(q) = h /\ q \div SegSize = seg}}
                    IN  /\ seg_oldest[Slot(h, seg)] = IF here = {} THEN Unset ELSE Min(here)
                        /\ seg_newest[Slot(h, seg)] = IF here = {} THEN 0 ELSE Max(here)
  BY DEF TablesExact
<1> DEFINE found == {q \in Hashed : Hash3(q) = h /\ q \div SegSize = seg}
           here == {p + 1 : p \in found}
           old == seg_oldest[Slot(h, seg)]
           new == seg_newest[Slot(h, seg)]
<1>1. n \in Nat /\ Hashed = 0 .. n - 3 /\ n < Unset /\ Unset \in Nat
  BY ChunkTypes, Sizes DEF MatchInv, Unset
<1>2. /\ \A q \in found : old <= q + 1 /\ new >= q + 1
      /\ old = Unset \/ \E q \in found : old = q + 1
      /\ new = 0 \/ \E q \in found : new = q + 1
  BY DEF MatchInv, TablesRight, OldestRight, NewestRight, InSlot
<1>3. found \subseteq 0 .. n - 3
  BY <1>1
<1> HIDE DEF found, old, new
<1>4. CASE found = {}
  BY <1>2, <1>4 DEF old, new, found
<1>5. CASE found # {}
  <2>1. \A y : y \in here <=> \E q \in found : y = q + 1
    OBVIOUS
  <2> HIDE DEF here
  <2>2. here \in SUBSET Int /\ here # {} /\ \A y \in here : y \in 1 .. n
    <3>1. \A q \in found : q \in Nat /\ q + 1 \in 1 .. n
      BY <1>1, <1>3
    <3>2. \A y \in here : y \in 1 .. n
      BY <2>1, <3>1
    <3>3. here # {}
      BY <1>5, <2>1
    <3> QED BY <3>2, <3>3
  <2>3. old # Unset /\ new # 0
    <3>1. PICK q \in found : TRUE
      BY <1>5
    <3> QED BY <1>1, <1>2, <1>3, <3>1
  <2>4. old \in here /\ \A y \in here : old <= y
    BY <1>2, <2>1, <2>3
  <2>5. new \in here /\ \A y \in here : y <= new
    BY <1>2, <1>3, <2>1, <2>2, <2>3
  <2>6. old = Min(here) /\ new = Max(here)
    BY <2>2, <2>4, <2>5, MinIs, MaxIs
  <2> QED BY <2>2, <2>6 DEF here, found, old, new
<1> QED BY <1>4, <1>5

(* Whatever the order of the build invocations, and whatever chunk used    *)
(* the tables before, the lookup pass finds in them exactly the oldest and *)
(* the newest position of every hash and segment                           *)
(* (lz77_hash_build.wgsl:45-54, lz77_hash.rs:582-587).                     *)
THEOREM BuiltTablesExact == Spec => []TablesExact
BY MatchInvariant, ExactTables, PTL
-----------------------------------------------------------------------------
(* What the walks rely on: a token is its own byte, or a match of the      *)
(* bytes that really stand at its distance, all within the chunk.          *)
TrueToken(t, p) ==
  \/ t = [length |-> 0, distance |-> ReadByte(p)]
  \/ /\ t \in [length : 3 .. MaxMatch, distance : 1 .. Window]
     /\ t.distance <= p /\ p + t.length <= Len(input)
     /\ SameAt(p - t.distance, p, t.length)

TrueTokens(p) == {t \in [length : Nat, distance : Nat] : TrueToken(t, p)}

LEMMA ExtentIs ==
  ASSUME input \in Chunk, NEW p \in Hashed, NEW cand \in 0 .. p - 1, SameAt(cand, p, 3)
  PROVE  /\ Extent(cand, p) \in 3 .. MaxMatch
         /\ p + Extent(cand, p) <= Len(input) /\ SameAt(cand, p, Extent(cand, p))
<1> DEFINE S == {len \in 3 .. MaxMatch : p + len <= Len(input) /\ SameAt(cand, p, len)}
<1>1. MaxMatch \in Nat /\ MaxMatch >= 3 /\ n \in Nat /\ p \in 0 .. n - 3
  BY Sizes, ChunkTypes
<1>2. 3 \in S
  BY <1>1 DEF n
<1>3. S \in SUBSET Nat /\ S # {} /\ \A y \in S : y <= MaxMatch
  BY <1>1, <1>2
<1>4. Max(S) \in S
  <2> HIDE DEF S
  <2> QED BY <1>1, <1>3, Greatest
<1> QED BY <1>4 DEF Extent

LEMMA TryIsTrue ==
  ASSUME input \in Chunk, NEW p \in Hashed, NEW raw \in 0 .. Unset, NEW best \in TrueTokens(p)
  PROVE  /\ TryCandidate(raw, p, best) \in TrueTokens(p)
         /\ TryCandidate(raw, p, best).length >= best.length
         /\ Usable(raw, p) => TryCandidate(raw, p, best).length >= 3
<1>1. n \in Nat /\ p \in 0 .. n - 3 /\ Window \in Nat /\ MaxMatch \in Nat
      /\ best.length \in Nat /\ best.distance \in Nat
  BY Sizes, ChunkTypes DEF TrueTokens
<1>2. CASE ~ Usable(raw, p)
  BY <1>1, <1>2 DEF TryCandidate
<1>3. CASE Usable(raw, p)
  <2> DEFINE cand == raw - 1
             ext == Extent(cand, p)
             t == [length |-> ext, distance |-> p - cand]
  <2>1. cand \in 0 .. p - 1 /\ SameAt(cand, p, 3) /\ p - cand \in 1 .. Window
    BY <1>1, <1>3, Sizes DEF Usable
  <2>2. ext \in 3 .. MaxMatch /\ p + ext <= Len(input) /\ SameAt(cand, p, ext)
    <3> HIDE DEF cand
    <3> QED BY <2>1, ExtentIs
  <2>3. t \in TrueTokens(p)
    <3> HIDE DEF ext, cand
    <3>1. t \in [length : 3 .. MaxMatch, distance : 1 .. Window] /\ t.length = ext /\ t.distance = p - cand
      BY <2>1, <2>2
    <3>2. p - t.distance = cand /\ t.distance <= p
      BY <1>1, <2>1, <3>1
    <3> HIDE DEF t
    <3>3. t \in [length : Nat, distance : Nat]
      BY <1>1, <3>1
    <3> QED BY <2>2, <3>1, <3>2, <3>3 DEF TrueTokens, TrueToken
  <2>4. TryCandidate(raw, p, best) = IF ext > best.length THEN t ELSE best
    BY <1>3 DEF TryCandidate
  <2> HIDE DEF ext, cand
  <2> QED BY <1>1, <2>2, <2>3, <2>4
<1> QED BY <1>2, <1>3

LEMMA SegmentIsTrue ==
  ASSUME MatchInv, NEW p \in Hashed, NEW seg \in 0 .. p \div SegSize, NEW best \in TrueTokens(p)
  PROVE  /\ InSegment(seg, p, best) \in TrueTokens(p)
         /\ InSegment(seg, p, best).length >= best.length
         /\ \/ Usable(seg_newest[Slot(Hash3(p), seg)], p)
            \/ Usable(seg_oldest[Slot(Hash3(p), seg)], p)
            => InSegment(seg, p, best).length >= 3
<1> DEFINE s == Slot(Hash3(p), seg)
           newer == TryCandidate(seg_newest[s], p, best)
           older == TryCandidate(seg_oldest[s], p, newer)
<1>1. seg_newest[s] \in 0 .. Unset /\ seg_oldest[s] \in 0 .. Unset
  <2>1. n \in 0 .. MaxLen /\ p \in 0 .. n - 1 /\ Hash3(p) \in 0 .. Buckets - 1
    BY ChunkTypes, HashRange DEF MatchInv
  <2>2. p \div SegSize \in 0 .. NumSegs(n) - 1 /\ NumSegs(n) \in Nat
    BY <2>1, Segments
  <2>3. seg \in 0 .. NumSegs(n) - 1
    BY <2>2
  <2>4. s \in 0 .. TableSize - 1
    BY <2>1, <2>3, SlotRange DEF Slot, n
  <2> QED BY <2>4 DEF MatchInv, Tables
<1> HIDE DEF s
<1>2. newer \in TrueTokens(p) /\ newer.length >= best.length
      /\ (Usable(seg_newest[s], p) => newer.length >= 3)
  BY <1>1, TryIsTrue DEF MatchInv
<1> HIDE DEF newer
<1>3. older \in TrueTokens(p) /\ older.length >= newer.length
      /\ (Usable(seg_oldest[s], p) => older.length >= 3)
  BY <1>1, <1>2, TryIsTrue DEF MatchInv
<1> HIDE DEF older
<1>4. InSegment(seg, p, best) = IF newer.length >= LongMatch THEN newer ELSE older
  BY DEF InSegment, SkipOldest, newer, older, s
<1>5. LongMatch \in Nat \ {0}
  BY HashAssumption
<1>6. /\ newer.length \in Nat /\ older.length \in Nat /\ best.length \in Nat
      /\ newer.length = 0 \/ newer.length >= 3
  BY <1>2, <1>3, Sizes DEF TrueTokens, TrueToken
<1> QED BY <1>1, <1>2, <1>3, <1>4, <1>5, <1>6, Sizes DEF s

(* The lookup visits every segment from p's own back to the first.         *)
LEMMA BestIsTrue ==
  ASSUME MatchInv, NEW p \in Hashed
  PROVE  /\ BestMatch(p) \in TrueTokens(p)
         /\ \A seg \in 0 .. p \div SegSize :
              \/ Usable(seg_newest[Slot(Hash3(p), seg)], p)
              \/ Usable(seg_oldest[Slot(Hash3(p), seg)], p)
              => BestMatch(p).length >= 3
<1> DEFINE last == p \div SegSize
           none == [length |-> 0, distance |-> ReadByte(p)]
           V == TrueTokens(p)
           Seen(seg) == \/ Usable(seg_newest[Slot(Hash3(p), seg)], p)
                        \/ Usable(seg_oldest[Slot(Hash3(p), seg)], p)
           F == CHOOSE f : f = [seg \in 0 .. last |->
                                  InSegment(seg, p, IF seg = last THEN none ELSE f[seg + 1])]
<1>1. n \in Nat /\ p \in 0 .. n - 3 /\ p \in 0 .. n - 1
  BY ChunkTypes DEF MatchInv
<1>2. last \in Nat
  <2>1. n \in 0 .. MaxLen
    BY ChunkTypes DEF MatchInv
  <2>2. NumSegs(n) \in Nat /\ last \in 0 .. NumSegs(n) - 1
    BY <1>1, <2>1, Segments
  <2> QED BY <2>2
<1>3. none \in V
  <2>1. ReadByte(p) \in Nat
    BY <1>1, ChunkTypes DEF MatchInv
  <2> QED BY <2>1 DEF TrueTokens, TrueToken
<1>4. BestMatch(p) = F[0]
  BY DEF BestMatch
<1> HIDE DEF last, none, V, Seen
<1>5. \A seg \in 0 .. last, t \in V :
        /\ InSegment(seg, p, t) \in V
        /\ InSegment(seg, p, t).length >= t.length
        /\ Seen(seg) => InSegment(seg, p, t).length >= 3
  BY SegmentIsTrue DEF last, V, Seen
<1>6. \E f : f = [seg \in 0 .. last |-> InSegment(seg, p, IF seg = last THEN none ELSE f[seg + 1])]
  <2> DEFINE G == [k \in Nat |-> [t \in V |-> IF k <= last THEN InSegment(last - k, p, t) ELSE none]]
             base == InSegment(last, p, none)
  <2>1. base \in V
    BY <1>2, <1>3, <1>5
  <2>2. G \in [Nat -> [V -> V]]
    <3> SUFFICES ASSUME NEW k \in Nat, NEW t \in V
                 PROVE  (IF k <= last THEN InSegment(last - k, p, t) ELSE none) \in V
      OBVIOUS
    <3> QED BY <1>2, <1>3, <1>5
  <2>3. \A k \in 1 .. last, t \in V : G[k][t] = InSegment(last - k, p, t)
    BY <1>2
  <2> HIDE DEF G, base
  <2>4. PICK f \in [0 .. last -> V] : f[0] = base /\ \A k \in 1 .. last : f[k] = G[k][f[k - 1]]
    <3>1. \E f \in [0 .. last -> V] : Iterates(f, base, G, last)
      BY <1>2, <2>1, <2>2, Recursion
    <3> QED BY <3>1 DEF Iterates
  <2> DEFINE g == [seg \in 0 .. last |-> f[last - seg]]
  <2>5. ASSUME NEW seg \in 0 .. last
        PROVE  g[seg] = InSegment(seg, p, IF seg = last THEN none ELSE g[seg + 1])
    <3>1. CASE seg = last
      BY <1>2, <2>4, <3>1 DEF base
    <3>2. CASE seg # last
      <4>1. last - seg \in 1 .. last /\ (last - seg) - 1 \in 0 .. last /\ seg + 1 \in 0 .. last
            /\ last - (seg + 1) = (last - seg) - 1 /\ last - (last - seg) = seg
        BY <1>2, <3>2
      <4>2. g[seg] = f[last - seg] /\ g[seg + 1] = f[(last - seg) - 1]
        BY <4>1
      <4>3. f[last - seg] = InSegment(seg, p, f[(last - seg) - 1])
        BY <2>3, <2>4, <4>1
      <4> QED BY <3>2, <4>2, <4>3
    <3> QED BY <3>1, <3>2
  <2>6. g = [seg \in 0 .. last |-> g[seg]]
    OBVIOUS
  <2> HIDE DEF g
  <2>7. g = [seg \in 0 .. last |-> InSegment(seg, p, IF seg = last THEN none ELSE g[seg + 1])]
    BY <2>5, <2>6
  <2> QED BY <2>7
<1>7. F = [seg \in 0 .. last |-> InSegment(seg, p, IF seg = last THEN none ELSE F[seg + 1])]
  BY <1>6, Zenon
<1> HIDE DEF F
<1> DEFINE S == {k \in Nat : k <= last => /\ F[last - k] \in V
                                          /\ \A j \in 0 .. k : Seen(last - j) => F[last - k].length >= 3}
<1>8. 0 \in S
  <2>1. F[last] = InSegment(last, p, none)
    BY <1>2, <1>7
  <2>2. last \in 0 .. last /\ last - 0 = last
    BY <1>2
  <2> QED BY <1>3, <1>5, <2>1, <2>2
<1>9. ASSUME NEW k \in Nat, k \in S PROVE k + 1 \in S
  <2> SUFFICES ASSUME k + 1 <= last
               PROVE  /\ F[last - (k + 1)] \in V
                      /\ \A j \in 0 .. k + 1 : Seen(last - j) => F[last - (k + 1)].length >= 3
    OBVIOUS
  <2> DEFINE seg == last - (k + 1)
  <2>1. seg \in 0 .. last /\ seg # last /\ seg + 1 = last - k /\ k <= last
    BY <1>2
  <2>2. F[seg] = InSegment(seg, p, F[seg + 1])
    <3> HIDE DEF seg
    <3> QED BY <1>7, <2>1
  <2>3. F[last - k] \in V /\ \A j \in 0 .. k : Seen(last - j) => F[last - k].length >= 3
    BY <1>9, <2>1
  <2>4. F[seg] \in V /\ F[seg].length >= F[last - k].length /\ (Seen(seg) => F[seg].length >= 3)
    <3> HIDE DEF seg
    <3> QED BY <1>5, <2>1, <2>2, <2>3
  <2>5. ASSUME NEW j \in 0 .. k + 1, Seen(last - j) PROVE F[seg].length >= 3
    <3>1. CASE j = k + 1
      BY <2>4, <2>5, <3>1
    <3>2. CASE j # k + 1
      <4>1. j \in 0 .. k
        BY <3>2
      <4>2. F[last - k].length >= 3 /\ F[last - k].length \in Nat /\ F[seg].length \in Nat
        BY <2>3, <2>4, <2>5, <4>1 DEF V, TrueTokens
      <4> QED BY <2>4, <4>2
    <3> QED BY <3>1, <3>2
  <2> QED BY <2>4, <2>5
<1> HIDE DEF S
<1>10. last \in S
  BY <1>2, <1>8, <1>9, Induction
<1>11. F[0] \in V /\ \A j \in 0 .. last : Seen(last - j) => F[0].length >= 3
  BY <1>2, <1>10 DEF S
<1>12. ASSUME NEW seg \in 0 .. last, Seen(seg) PROVE F[0].length >= 3
  <2>1. last - seg \in 0 .. last /\ last - (last - seg) = seg
    BY <1>2
  <2> QED BY <1>11, <1>12, <2>1
<1> QED BY <1>4, <1>11, <1>12 DEF V, Seen, last

LEMMA TokenIsTrue ==
  ASSUME MatchInv, NEW p \in 0 .. n - 1
  PROVE  TokenAt(p) \in TrueTokens(p)
<1>1. ReadByte(p) \in Nat
  BY ChunkTypes DEF MatchInv
<1>2. CASE p \in Hashed
  BY <1>2, BestIsTrue DEF TokenAt
<1>3. CASE p \notin Hashed
  BY <1>1, <1>3 DEF TokenAt, TrueTokens, TrueToken
<1> QED BY <1>2, <1>3

LEMMA WalkedTokens ==
  ASSUME MatchInv, phase = "walk"
  PROVE  \A p \in 0 .. n - 1 : At(p) = TokenAt(p) /\ At(p) \in TrueTokens(p)
<1>1. n \in Nat
  BY ChunkTypes DEF MatchInv
<1> SUFFICES ASSUME NEW p \in 0 .. n - 1 PROVE At(p) = TokenAt(p)
  BY TokenIsTrue
<1>2. p + 1 \in 1 .. Len(input) /\ (p + 1) - 1 = p
  BY <1>1 DEF n
<1> QED BY <1>2 DEF MatchInv, At

(* The oldest entry of the segment of q is at or before q, hence before p, *)
(* and within the window; if it is not, the newest one is.                 *)
LEMMA RepeatFound ==
  ASSUME MatchInv, phase = "walk", NEW p \in Hashed, NEW q \in 0 .. p - 1,
         p - q <= Window, SameAt(q, p, 3),
         \A r \in Hashed : r \div SegSize = q \div SegSize /\ Hash3(r) = Hash3(p) => SameAt(r, p, 3)
  PROVE  tokens[p + 1].length >= 3
<1> DEFINE seg == q \div SegSize
           s == Slot(Hash3(p), seg)
           old == seg_oldest[s]
           new == seg_newest[s]
<1>1. n \in 0 .. MaxLen /\ Hashed = 0 .. n - 3 /\ p \in 0 .. n - 3 /\ q \in 0 .. n - 3
  BY ChunkTypes DEF MatchInv
<1>2. Hash3(q) = Hash3(p)
  <2>1. ReadByte(q) = ReadByte(p) /\ ReadByte(q + 1) = ReadByte(p + 1) /\ ReadByte(q + 2) = ReadByte(p + 2)
    <3>1. \A i \in 0 .. 2 : ReadByte(q + i) = ReadByte(p + i)
      <4>1. 0 .. 2 = 0 .. 3 - 1
        OBVIOUS
      <4> QED BY <4>1 DEF SameAt
    <3>2. q + 0 = q /\ p + 0 = p
      BY <1>1
    <3> QED BY <3>1, <3>2
  <2> QED BY <2>1 DEF Hash3
<1>3. Hash3(p) \in 0 .. Buckets - 1 /\ seg \in 0 .. NumSegs(n) - 1
  <2>1. q \in 0 .. n - 1
    BY <1>1
  <2> QED BY <1>1, <2>1, HashRange, Segments DEF MatchInv
<1>4. /\ OldestRight(seg_oldest, Hashed, Hash3(p), seg)
      /\ NewestRight(seg_newest, Hashed, Hash3(p), seg)
  <2>1. TablesRight /\ Hashed \ building = Hashed
    BY DEF MatchInv
  <2> HIDE DEF seg
  <2> QED BY <1>3, <2>1 DEF TablesRight, n
<1>5. InSlot(q, Hash3(p), seg)
  BY <1>2 DEF InSlot
<1> HIDE DEF seg
<1>6. old <= q + 1 /\ new >= q + 1
  BY <1>1, <1>4, <1>5 DEF OldestRight, NewestRight
<1>7. PICK a \in Hashed : InSlot(a, Hash3(p), seg) /\ old = a + 1
  <2>1. q + 1 < Unset /\ q \in Nat /\ Unset \in Nat
    BY <1>1, Sizes DEF Unset
  <2>2. old # Unset
    BY <1>6, <2>1
  <2> QED BY <1>4, <2>2 DEF OldestRight
<1>8. \A r \in Hashed : InSlot(r, Hash3(p), seg) => SameAt(r, p, 3)
  BY DEF InSlot, seg
<1>9. a \in 0 .. q /\ SameAt(a, p, 3)
  BY <1>1, <1>6, <1>7, <1>8
<1>10. seg \in 0 .. p \div SegSize
  <2>1. seg \in Nat /\ NumSegs(n) \in Nat
    BY <1>1, <1>3, Segments
  <2>2. seg <= p \div SegSize
    <3> DEFINE own == p \div SegSize
    <3>1. /\ seg \in Int /\ own \in Int /\ SegSize \in Nat \ {0}
          /\ SegSize * seg <= q /\ p < SegSize * (own + 1)
      BY <1>1, Sizes, Division DEF seg
    <3> HIDE DEF own
    <3> SUFFICES ASSUME own < seg PROVE FALSE
      BY <3>1 DEF own
    <3>2. SegSize * (own + 1) <= SegSize * seg
      BY <3>1
    <3>3. SegSize * seg \in Int /\ SegSize * (own + 1) \in Int
      BY <3>1
    <3>4. SegSize * (own + 1) <= q
      BY ONLY <1>1, <3>1, <3>2, <3>3
    <3> QED BY ONLY <1>1, <3>1, <3>3, <3>4
  <2>3. p \div SegSize \in Int
    BY <1>1, Sizes
  <2> QED BY <2>1, <2>2, <2>3
<1>11. tokens[p + 1] = BestMatch(p)
  <2>1. p \in 0 .. n - 1
    BY <1>1
  <2> QED BY <2>1, WalkedTokens DEF At, TokenAt
<1>12. CASE p - a <= Window
  <2>1. Usable(old, p)
    <3>0. a \in 0 .. MaxLen - 3 /\ old = a + 1 /\ MaxLen \in Nat
      BY <1>1, <1>7, Sizes
    <3>1. old - 1 = a /\ old # 0 /\ old # Unset
      BY <3>0 DEF Unset
    <3> QED BY <1>9, <1>12, <3>1, <1>1 DEF Usable
  <2> QED BY <1>10, <1>11, <2>1, BestIsTrue
<1>13. CASE p - a > Window
  <2>1. PICK b \in Hashed : InSlot(b, Hash3(p), seg) /\ new = b + 1
    BY <1>1, <1>4, <1>6 DEF NewestRight
  <2>2. SameAt(b, p, 3) /\ b >= q /\ b \in 0 .. n - 3
    BY <1>1, <1>6, <1>8, <2>1
  <2>3. b < p
    <3> DEFINE z == SegSize * seg
    <3>1. z \in Int /\ z <= a /\ b < z + SegSize /\ SegSize \in Nat /\ SegSize <= Window
      <4>1. SegSize * (a \div SegSize) <= a /\ b < SegSize * ((b \div SegSize) + 1)
            /\ SegSize \in Nat \ {0} /\ SegSize <= Window
        BY <1>1, <1>9, <2>2, Sizes, Division
      <4>2. a \div SegSize = seg /\ b \div SegSize = seg /\ seg \in Int
        BY <1>7, <1>10, <2>1 DEF InSlot
      <4>3. SegSize * (seg + 1) = SegSize * seg + SegSize
        BY <4>1, <4>2
      <4> QED BY <4>1, <4>2, <4>3
    <3> HIDE DEF z
    <3> QED BY <1>1, <1>9, <1>13, <2>2, <3>1, Sizes
  <2>4. Usable(new, p)
    <3>1. new - 1 = b /\ new # 0 /\ new # Unset /\ p - b <= Window
      <4>1. b \in 0 .. MaxLen - 3 /\ new = b + 1 /\ MaxLen \in Nat
        BY <1>1, <2>1, <2>2, Sizes
      <4>2. p - b <= Window
        <5>1. b \in Nat /\ p \in Nat /\ q \in Nat /\ Window \in Nat /\ b >= q /\ p - q <= Window
          BY <1>1, <2>2, Sizes
        <5> QED BY <5>1
      <4> QED BY <4>1, <4>2 DEF Unset
    <3> QED BY <2>2, <2>3, <3>1 DEF Usable
  <2> QED BY <1>10, <1>11, <2>4, BestIsTrue
<1> QED BY <1>1, <1>9, <1>12, <1>13, Sizes

(* A position whose three bytes occur before it within the window gets a   *)
(* match, unless a collision of hashes hid the occurrence                  *)
(* (lz77_hash_build.wgsl:7-10, lz77_hash_lookup.wgsl).                     *)
THEOREM RepeatsAreFound == Spec => []NoRepeatMissed
<1>1. MatchInv => NoRepeatMissed
  BY RepeatFound DEF NoRepeatMissed
<1> QED BY <1>1, MatchInvariant, PTL
-----------------------------------------------------------------------------
(* Expanding a true token after the input read so far gives the input read *)
(* a token further, also when the match overlaps what it produces.         *)
LEMMA Grow ==
  ASSUME input \in Chunk, NEW m \in 0 .. n - 1
  PROVE  /\ SubSeq(input, 1, m) \in Seq(Byte) /\ Len(SubSeq(input, 1, m)) = m
         /\ \A i \in 1 .. m : SubSeq(input, 1, m)[i] = input[i]
         /\ SubSeq(input, 1, m + 1) = Append(SubSeq(input, 1, m), input[m + 1])
<1>1. n \in Nat /\ n = Len(input) /\ input \in Seq(Byte)
  BY ChunkTypes DEF n
<1>2. SubSeq(input, 1, m + 1) = Append(SubSeq(input, 1, m), input[m + 1])
  <2>1. 1 \in 1 .. Len(input) + 1 /\ m \in 1 - 1 .. Len(input) - 1
    BY <1>1
  <2> QED BY <1>1, <2>1, SubSeqRecursiveSecond
<1> QED BY <1>1, <1>2

LEMMA ExpandTrue ==
  ASSUME input \in Chunk, NEW p \in 0 .. n - 1, NEW t \in TrueTokens(p)
  PROVE  Expand(SubSeq(input, 1, p), t) =
           SubSeq(input, 1, p + (IF IsLiteral(t) THEN 1 ELSE t.length))
<1> DEFINE bytes == SubSeq(input, 1, p)
           F == CHOOSE f : f = [k \in 0 .. t.length |->
                                  IF k = 0 THEN bytes ELSE CopyBack(f[k - 1], t.distance)]
<1>1. n \in Nat /\ p \in Nat /\ n = Len(input)
  BY ChunkTypes DEF n
<1>2. Expand(bytes, t) = IF IsLiteral(t) THEN Append(bytes, t.distance) ELSE F[t.length]
  BY DEF Expand
<1>3. CASE IsLiteral(t)
  <2>1. t.distance = input[p + 1]
    BY <1>3, Sizes DEF IsLiteral, TrueTokens, TrueToken, ReadByte
  <2> QED BY <1>2, <1>3, <2>1, Grow
<1>4. CASE ~ IsLiteral(t)
  <2> DEFINE d == t.distance
             len == t.length
  <2>1. /\ len \in Nat /\ len >= 3 /\ d \in Nat /\ d >= 1 /\ d <= p /\ p + len <= n
        /\ \A i \in 0 .. len - 1 : ReadByte(p - d + i) = ReadByte(p + i)
    BY <1>1, <1>4, Sizes DEF IsLiteral, TrueTokens, TrueToken, SameAt
  <2> HIDE DEF d, len
  <2>2. ASSUME NEW k \in 1 .. len
        PROVE  CopyBack(SubSeq(input, 1, p + (k - 1)), d) = SubSeq(input, 1, p + k)
    <3> DEFINE m == p + (k - 1)
               pre == SubSeq(input, 1, m)
    <3>1. m \in 0 .. n - 1 /\ m + 1 = p + k /\ m + 1 - d \in 1 .. m
      BY <1>1, <2>1
    <3>2. Len(pre) = m /\ pre[m + 1 - d] = input[m + 1 - d]
          /\ SubSeq(input, 1, m + 1) = Append(pre, input[m + 1])
      <4> HIDE DEF m
      <4> QED BY <3>1, Grow
    <3>3. input[m + 1 - d] = input[m + 1]
      <4>1. k - 1 \in 0 .. len - 1
        BY <2>1
      <4>2. ReadByte(p - d + (k - 1)) = ReadByte(p + (k - 1))
        BY <2>1, <4>1
      <4>3. (p - d + (k - 1)) + 1 = m + 1 - d /\ (p + (k - 1)) + 1 = m + 1
        BY <1>1, <2>1
      <4> HIDE DEF m
      <4> QED BY <4>2, <4>3 DEF ReadByte
    <3> HIDE DEF m, pre
    <3> QED BY <3>1, <3>2, <3>3 DEF CopyBack, m, pre
  <2> DEFINE g == [k \in 0 .. len |-> SubSeq(input, 1, p + k)]
  <2>3. ASSUME NEW k \in 0 .. len
        PROVE  g[k] = IF k = 0 THEN bytes ELSE CopyBack(g[k - 1], d)
    <3>1. CASE k = 0
      BY <1>1, <2>1, <3>1
    <3>2. CASE k # 0
      <4>1. k \in 1 .. len /\ k - 1 \in 0 .. len
        BY <2>1, <3>2
      <4> HIDE DEF bytes
      <4> QED BY <2>2, <3>2, <4>1
    <3> QED BY <3>1, <3>2
  <2>4. g = [k \in 0 .. len |-> g[k]]
    OBVIOUS
  <2> HIDE DEF g, bytes
  <2>5. g = [k \in 0 .. len |-> IF k = 0 THEN bytes ELSE CopyBack(g[k - 1], d)]
    BY <2>3, <2>4
  <2>6. \E f : f = [k \in 0 .. len |-> IF k = 0 THEN bytes ELSE CopyBack(f[k - 1], d)]
    BY <2>5
  <2>7. F = [k \in 0 .. len |-> IF k = 0 THEN bytes ELSE CopyBack(F[k - 1], d)]
    BY <2>6, Zenon DEF len, d
  <2> HIDE DEF F
  <2> DEFINE S == {k \in Nat : k <= len => F[k] = g[k]}
  <2>8. 0 \in S
    BY <2>1, <2>3, <2>7
  <2>9. ASSUME NEW k \in Nat, k \in S PROVE k + 1 \in S
    <3> SUFFICES ASSUME k + 1 <= len PROVE F[k + 1] = g[k + 1]
      OBVIOUS
    <3>1. F[k] = g[k] /\ k + 1 \in 0 .. len /\ k + 1 # 0 /\ (k + 1) - 1 = k
      BY <2>1, <2>9
    <3>2. F[k + 1] = CopyBack(F[k], d)
      BY <2>7, <3>1
    <3>3. g[k + 1] = CopyBack(g[k], d)
      BY <2>3, <3>1
    <3> QED BY <3>1, <3>2, <3>3
  <2> HIDE DEF S
  <2>10. len \in S
    BY <2>1, <2>8, <2>9, Induction
  <2>11. F[len] = SubSeq(input, 1, p + len)
    BY <2>1, <2>10 DEF S, g
  <2> QED BY <1>2, <1>4, <2>11 DEF bytes, len
<1> QED BY <1>3, <1>4

Tokens == [length : Nat, distance : Nat]

(* The decodings of the tokens emitted so far, one after the other. *)
Decodes(f, ts) ==
  /\ f \in [0 .. Len(ts) -> Seq(Byte)] /\ f[0] = <<>>
  /\ \A k \in 1 .. Len(ts) : f[k] = Expand(f[k - 1], ts[k])

LEMMA ReconstructIs ==
  ASSUME NEW ts \in Seq(Tokens), NEW f, Decodes(f, ts)
  PROVE  Reconstruct(ts) = f[Len(ts)]
<1> DEFINE top == Len(ts)
           F == CHOOSE h : h = [k \in 0 .. top |-> IF k = 0 THEN <<>> ELSE Expand(h[k - 1], ts[k])]
<1>1. top \in Nat
  OBVIOUS
<1>2. Reconstruct(ts) = F[top]
  BY DEF Reconstruct
<1> HIDE DEF top
<1>3. f = [k \in 0 .. top |-> f[k]] /\ f[0] = <<>> /\ \A k \in 1 .. top : f[k] = Expand(f[k - 1], ts[k])
  BY DEF Decodes, top
<1>4. \A k \in 0 .. top : f[k] = IF k = 0 THEN <<>> ELSE Expand(f[k - 1], ts[k])
  <2> SUFFICES ASSUME NEW k \in 0 .. top
               PROVE  f[k] = IF k = 0 THEN <<>> ELSE Expand(f[k - 1], ts[k])
    OBVIOUS
  <2>1. k = 0 \/ k \in 1 .. top
    BY <1>1
  <2> QED BY <1>3, <2>1
<1>5. f = [k \in 0 .. top |-> IF k = 0 THEN <<>> ELSE Expand(f[k - 1], ts[k])]
  BY <1>3, <1>4
<1>6. \E h : h = [k \in 0 .. top |-> IF k = 0 THEN <<>> ELSE Expand(h[k - 1], ts[k])]
  BY <1>5
<1>7. F = [k \in 0 .. top |-> IF k = 0 THEN <<>> ELSE Expand(F[k - 1], ts[k])]
  BY <1>6, Zenon
<1> HIDE DEF F
<1> DEFINE S == {k \in Nat : k <= top => F[k] = f[k]}
<1>8. 0 \in S
  BY <1>1, <1>3, <1>7
<1>9. ASSUME NEW k \in Nat, k \in S PROVE k + 1 \in S
  <2> SUFFICES ASSUME k + 1 <= top PROVE F[k + 1] = f[k + 1]
    OBVIOUS
  <2>1. F[k] = f[k] /\ k + 1 \in 0 .. top /\ k + 1 # 0 /\ (k + 1) - 1 = k
    BY <1>1, <1>9
  <2>2. F[k + 1] = Expand(F[k], ts[k + 1])
    BY <1>7, <2>1
  <2>3. f[k + 1] = Expand(f[k], ts[k + 1])
    BY <1>4, <2>1
  <2> QED BY <2>1, <2>2, <2>3
<1> HIDE DEF S
<1>10. top \in S
  BY <1>1, <1>8, <1>9, Induction
<1>11. F[top] = f[top]
  BY <1>1, <1>10 DEF S
<1> QED BY <1>2, <1>11 DEF top

(* What no walk has touched. *)
BlocksIdle ==
  /\ unsummarised = {} /\ exit_table = <<>> /\ count_table = <<>> /\ actual_entry = <<>>
  /\ token_offsets = <<>> /\ token_off = 0 /\ lane = <<>> /\ walked = <<>>

WalkerInv ==
  /\ walker \in {"none", "lazy", "serial", "block"}
  /\ walker # "none" => phase = "walk"
  /\ walker = "none" => cur = 0
  /\ walker \in {"none", "block"} => out = <<>>
  /\ walker # "block" => BlocksIdle

(* The tokens emitted decode to the input read. *)
SequentialInv ==
  walker \in {"lazy", "serial"} =>
    /\ cur \in 0 .. n /\ out \in Seq(Tokens)
    /\ \E f : Decodes(f, out) /\ f[Len(out)] = SubSeq(input, 1, cur)

LEMMA InitWalker == Init => WalkerInv /\ SequentialInv
BY DEF Init, MatchInit, WalkerInv, SequentialInv, BlocksIdle

LEMMA NextWalker ==
  ASSUME WalkerInv, [Next]_vars
  PROVE  WalkerInv'
<1>1. CASE MatchFind
  <2>1. phase # "walk"
    BY <1>1 DEF MatchFind, MatchNext, Upload, Build, Lookup
  <2> QED BY <1>1, <2>1 DEF MatchFind, WalkerInv, BlocksIdle, blockVars
<1>2. CASE \E w \in {"lazy", "serial"} : StartSequential(w)
  BY <1>2 DEF StartSequential, WalkerInv, BlocksIdle, blockVars, matchVars
<1>3. CASE LazyStep \/ SerialStep
  BY <1>3 DEF LazyStep, SerialStep, WalkerInv, BlocksIdle, blockVars, matchVars
<1>4. CASE StartBlocks
  BY <1>4 DEF StartBlocks, WalkerInv, matchVars
<1>5. CASE ChainBlock
  BY <1>5 DEF ChainBlock, Chaining, WalkerInv, matchVars
<1>6. CASE \E b \in unsummarised : Summarise(b)
  BY <1>6 DEF Summarise, WalkerInv, BlocksIdle, matchVars
<1>7. CASE \E b \in DOMAIN lane : EmitToken(b)
  BY <1>7 DEF EmitToken, Chained, WalkerInv, matchVars
<1>8. CASE WalkEnds
  BY <1>8 DEF WalkEnds, WalkerInv, BlocksIdle
<1>9. CASE UNCHANGED vars
  BY <1>9 DEF vars, WalkerInv, BlocksIdle, blockVars, matchVars
<1> QED BY <1>1, <1>2, <1>3, <1>4, <1>5, <1>6, <1>7, <1>8, <1>9 DEF Next

(* A round of a sequential walk emits a true token and moves past it. *)
LEMMA RoundIsLossless ==
  ASSUME MatchInv, SequentialInv, walker \in {"lazy", "serial"}, cur < n,
         NEW t \in TrueTokens(cur), out' = Append(out, t),
         cur' = cur + (IF IsLiteral(t) THEN 1 ELSE t.length), input' = input
  PROVE  SequentialInv'
<1>1. n \in Nat /\ cur \in 0 .. n - 1 /\ out \in Seq(Tokens) /\ n' = n
  BY ChunkTypes DEF MatchInv, SequentialInv, n
<1>2. t \in Tokens /\ cur' \in cur + 1 .. n
  <2>1. t \in Tokens
    BY DEF TrueTokens, Tokens
  <2>2. CASE IsLiteral(t)
    <3>1. cur' = cur + 1
      BY <2>2
    <3> QED BY <1>1, <2>1, <3>1
  <2>3. CASE ~ IsLiteral(t)
    BY <1>1, <2>1, <2>3, Sizes DEF TrueTokens, TrueToken, IsLiteral, n
  <2> QED BY <2>1, <2>2, <2>3
<1>3. PICK f : Decodes(f, out) /\ f[Len(out)] = SubSeq(input, 1, cur)
  BY DEF SequentialInv
<1> DEFINE top == Len(out)
           h == [k \in 0 .. top + 1 |-> IF k = top + 1 THEN SubSeq(input, 1, cur') ELSE f[k]]
<1>4. /\ top \in Nat /\ Len(out') = top + 1 /\ out' \in Seq(Tokens) /\ out'[top + 1] = t
      /\ \A k \in 1 .. top : out'[k] = out[k]
  BY <1>1, <1>2
<1>5. Expand(f[top], t) = SubSeq(input, 1, cur')
  BY <1>1, <1>3, ExpandTrue DEF MatchInv
<1>6. SubSeq(input, 1, cur') \in Seq(Byte)
  <2>1. cur' - 1 \in 0 .. n - 1 /\ (cur' - 1) + 1 = cur' /\ input \in Seq(Byte) /\ cur' <= Len(input)
    BY <1>1, <1>2, ChunkTypes DEF MatchInv, n
  <2> QED BY <1>1, <1>2, <2>1
<1>7. Decodes(h, out')
  <2> HIDE DEF top
  <2>1. h \in [0 .. top + 1 -> Seq(Byte)] /\ h[0] = <<>>
    BY <1>3, <1>4, <1>6 DEF Decodes, top
  <2>2. ASSUME NEW k \in 1 .. top + 1 PROVE h[k] = Expand(h[k - 1], out'[k])
    <3>1. CASE k = top + 1
      <4>1. h[k - 1] = f[top] /\ h[k] = SubSeq(input, 1, cur')
        <5>1. k - 1 = top /\ top \in 0 .. top + 1 /\ top + 1 \in 0 .. top + 1 /\ top # top + 1
          BY <1>4, <3>1
        <5> QED BY <3>1, <5>1
      <4> HIDE DEF h
      <4> QED BY <1>4, <1>5, <3>1, <4>1
    <3>2. CASE k # top + 1
      <4>1. k \in 1 .. top /\ k - 1 \in 0 .. top /\ k \in 0 .. top
        BY <1>4, <3>2
      <4>2. f[k] = Expand(f[k - 1], out[k])
        BY <1>3, <4>1 DEF Decodes, top
      <4> QED BY <1>4, <4>1, <4>2
    <3> QED BY <3>1, <3>2
  <2> HIDE DEF h
  <2> QED BY <1>4, <2>1, <2>2 DEF Decodes
<1>8. h[Len(out')] = SubSeq(input, 1, cur')
  BY <1>4
<1> HIDE DEF h
<1>9. PICK g : Decodes(g, out') /\ g[Len(out')] = SubSeq(input, 1, cur')
  BY <1>7, <1>8
<1>11. (Decodes(g, out) /\ g[Len(out)] = SubSeq(input, 1, cur))'
  BY <1>9 DEF Decodes
<1>10. (cur \in 0 .. n /\ out \in Seq(Tokens))'
  BY <1>1, <1>2, <1>4
<1> QED BY <1>10, <1>11 DEF SequentialInv

LEMMA NextSequential ==
  ASSUME MatchInv, WalkerInv, WalkerInv', SequentialInv, [Next]_vars
  PROVE  SequentialInv'
<1>1. CASE MatchFind
  <2>1. walker' \notin {"lazy", "serial"}
    BY <1>1 DEF MatchFind, MatchNext, Upload, Build, Lookup, WalkerInv
  <2> QED BY <2>1 DEF SequentialInv
<1>2. ASSUME NEW w \in {"lazy", "serial"}, StartSequential(w) PROVE SequentialInv'
  <2>1. input' = input /\ cur' = 0 /\ out' = <<>> /\ n' = n /\ n \in Nat
    BY <1>2, ChunkTypes DEF StartSequential, matchVars, WalkerInv, n, MatchInv
  <2> DEFINE f == [k \in 0 .. 0 |-> <<>>]
  <2>2. Decodes(f, <<>>) /\ f[Len(<<>>)] = <<>>
    <3>1. f \in [0 .. 0 -> Seq(Byte)] /\ f[0] = <<>>
      OBVIOUS
    <3> QED BY <3>1 DEF Decodes
  <2>3. SubSeq(input, 1, 0) = <<>>
    BY ChunkTypes DEF MatchInv
  <2> HIDE DEF f
  <2> QED BY <2>1, <2>2, <2>3 DEF SequentialInv, Decodes
<1>3. CASE LazyStep
  <2>1. n \in Nat /\ walker = "lazy" /\ cur < n /\ cur \in 0 .. n - 1 /\ phase = "walk" /\ input' = input
    BY <1>3, ChunkTypes DEF LazyStep, MatchInv, SequentialInv, WalkerInv, matchVars
  <2>2. CASE ~ IsLiteral(At(cur)) /\ LongerNext
    <3> DEFINE t == [length |-> 0, distance |-> ReadByte(cur)]
    <3>1. t \in TrueTokens(cur) /\ IsLiteral(t)
      BY <2>1, ChunkTypes DEF TrueTokens, TrueToken, MatchInv, IsLiteral
    <3>2. out' = Append(out, t) /\ cur' = cur + 1
      BY <1>3, <2>2 DEF LazyStep
    <3> HIDE DEF t
    <3> QED BY <2>1, <3>1, <3>2, RoundIsLossless
  <2>3. CASE ~ (~ IsLiteral(At(cur)) /\ LongerNext)
    <3>1. Take
      BY <1>3, <2>3 DEF LazyStep
    <3>2. At(cur) \in TrueTokens(cur)
      BY <2>1, WalkedTokens
    <3> QED BY <2>1, <3>1, <3>2, RoundIsLossless DEF Take, After
  <2> QED BY <2>2, <2>3
<1>4. CASE SerialStep
  <2>1. n \in Nat /\ walker = "serial" /\ cur < n /\ cur \in 0 .. n - 1 /\ phase = "walk" /\ input' = input
    BY <1>4, ChunkTypes DEF SerialStep, MatchInv, SequentialInv, WalkerInv, matchVars
  <2>2. At(cur) \in TrueTokens(cur) /\ Take
    BY <1>4, <2>1, WalkedTokens DEF SerialStep
  <2> QED BY <2>1, <2>2, RoundIsLossless DEF Take, After
<1>5. CASE walker' \notin {"lazy", "serial"}
  BY <1>5 DEF SequentialInv
<1>6. CASE UNCHANGED vars
  <2>1. input' = input /\ cur' = cur /\ out' = out /\ walker' = walker /\ n' = n
    BY <1>6 DEF vars, matchVars, n
  <2> QED BY <2>1 DEF SequentialInv, Decodes
<1>7. CASE StartBlocks \/ WalkEnds
  BY <1>7, <1>5 DEF StartBlocks, WalkEnds
<1>8. CASE \E b \in unsummarised : Summarise(b)
  BY <1>8, <1>5 DEF Summarise, WalkerInv, BlocksIdle
<1>9. CASE ChainBlock \/ \E b \in DOMAIN lane : EmitToken(b)
  BY <1>9, <1>5 DEF ChainBlock, Chaining, EmitToken, Chained
<1> QED BY <1>1, <1>2, <1>3, <1>4, <1>6, <1>7, <1>8, <1>9 DEF Next

LEMMA SequentialInvariant == Spec => [](MatchInv /\ WalkerInv /\ SequentialInv)
<1>1. Init => WalkerInv /\ SequentialInv
  BY InitWalker
<1>2. WalkerInv /\ [Next]_vars => WalkerInv'
  BY NextWalker
<1>3. MatchInv /\ WalkerInv /\ WalkerInv' /\ SequentialInv /\ [Next]_vars => SequentialInv'
  BY NextSequential
<1> QED BY <1>1, <1>2, <1>3, MatchInvariant, PTL DEF Spec

(* The tokens a sequential walk has emitted decode to the input it has     *)
(* read, whatever the hash table kept or lost (lz77.rs:260-304).           *)
THEOREM WalkIsLossless == Spec => []LosslessSoFar
<1>1. SequentialInv => LosslessSoFar
  <2> SUFFICES ASSUME SequentialInv, walker \in {"lazy", "serial"}
               PROVE  Reconstruct(out) = SubSeq(input, 1, cur)
    BY DEF LosslessSoFar
  <2> QED BY ReconstructIs DEF SequentialInv
<1> QED BY <1>1, SequentialInvariant, PTL
-----------------------------------------------------------------------------
(* The blocks of the block walk cover the chunk. *)
LEMMA BlockBounds ==
  ASSUME input \in Chunk, NEW b \in Nat
  PROVE  /\ BlockStart(b) \in Nat /\ BlockStart(b + 1) = BlockStart(b) + BlockSize
         /\ BlockEnd(b) = (IF BlockStart(b) + BlockSize <= n THEN BlockStart(b) + BlockSize ELSE n)
         /\ b \in Blocks <=> BlockStart(b) < n
<1> DEFINE x == b * BlockSize
           c == n + BlockSize - 1
           q == c \div BlockSize
<1>1. n \in Nat /\ BlockSize \in Nat \ {0}
  BY ChunkTypes, Sizes
<1>2. x \in Nat /\ (b + 1) * BlockSize = x + BlockSize
  BY <1>1
<1>3. c \in Nat /\ q \in Int /\ BlockSize * q <= c /\ c < BlockSize * (q + 1)
  BY <1>1, Division
<1>4. Blocks = 0 .. q - 1
  BY DEF Blocks
<1>5. c = n + BlockSize - 1
  OBVIOUS
<1> HIDE DEF c, q
<1>6. b < q => x < n
  <2> SUFFICES ASSUME b < q PROVE x < n
    OBVIOUS
  <2>1. b * BlockSize + BlockSize <= q * BlockSize
    BY <1>1, <1>3, Product
  <2>2. q * BlockSize = BlockSize * q /\ q * BlockSize \in Int
    BY <1>1, <1>3
  <2> HIDE DEF x
  <2> QED BY <1>1, <1>2, <1>3, <1>5, <2>1, <2>2 DEF x
<1>7. q <= b => x >= n
  <2> SUFFICES ASSUME q <= b PROVE x >= n
    OBVIOUS
  <2>1. q * BlockSize + BlockSize <= (b + 1) * BlockSize
    BY <1>1, <1>3, Product
  <2>2. BlockSize * (q + 1) = q * BlockSize + BlockSize /\ q * BlockSize \in Int
    BY <1>1, <1>3
  <2> HIDE DEF x
  <2> QED BY <1>1, <1>2, <1>3, <1>5, <2>1, <2>2
<1>8. x = BlockStart(b) /\ BlockStart(b + 1) = (b + 1) * BlockSize
  BY DEF BlockStart
<1> HIDE DEF x
<1>9. BlockEnd(b) = (IF x + BlockSize <= n THEN x + BlockSize ELSE n)
  <2>1. {x + BlockSize, n} \in SUBSET Int
    BY <1>1, <1>2
  <2>2. Min({x + BlockSize, n}) = (IF x + BlockSize <= n THEN x + BlockSize ELSE n)
    <3>1. CASE x + BlockSize <= n
      BY <1>1, <1>2, <2>1, <3>1, MinIs
    <3>2. CASE ~ (x + BlockSize <= n)
      <4>1. n \in {x + BlockSize, n} /\ \A y \in {x + BlockSize, n} : n <= y
        BY <1>1, <1>2, <3>2
      <4> QED BY <2>1, <3>2, <4>1, MinIs
    <3> QED BY <3>1, <3>2
  <2> QED BY <1>8, <2>2 DEF BlockEnd
<1> QED BY <1>1, <1>2, <1>3, <1>4, <1>6, <1>7, <1>8, <1>9

LEMMA BlockEndRange ==
  ASSUME input \in Chunk, NEW b \in Nat
  PROVE  BlockEnd(b) \in Nat /\ BlockEnd(b) <= n
<1>0. n \in 0 .. MaxLen
  BY ChunkTypes
<1>1. BlockStart(b) \in Nat /\ BlockSize \in Nat /\ n \in Nat
  BY <1>0, BlockBounds, Sizes
<1>2. BlockEnd(b) = (IF BlockStart(b) + BlockSize <= n THEN BlockStart(b) + BlockSize ELSE n)
  BY BlockBounds
<1> QED BY <1>1, <1>2

LEMMA AfterIs ==
  ASSUME MatchInv, phase = "walk", NEW p \in 0 .. n - 1
  PROVE  After(p) \in p + 1 .. n /\ At(p) \in Tokens
<1>1. At(p) \in TrueTokens(p) /\ n \in Nat /\ n = Len(input)
  BY WalkedTokens, ChunkTypes DEF MatchInv, n
<1>2. At(p) \in Tokens
  BY <1>1 DEF TrueTokens, Tokens
<1>3. CASE IsLiteral(At(p))
  BY <1>1, <1>2, <1>3 DEF After
<1>4. CASE ~ IsLiteral(At(p))
  <2>1. At(p).length \in Nat /\ At(p).length >= 1 /\ p + At(p).length <= n
    BY <1>1, <1>2, <1>4, Sizes DEF TrueTokens, TrueToken, IsLiteral
  <2>2. After(p) = p + At(p).length
    BY <1>4 DEF After
  <2> QED BY <1>1, <1>2, <2>1, <2>2
<1> QED BY <1>3, <1>4

(* The positions of the strict greedy walk, which stays at the end. *)
IsPath(path) ==
  /\ path \in [0 .. n -> 0 .. n] /\ path[0] = 0
  /\ \A k \in 1 .. n : path[k] = IF path[k - 1] >= n THEN n ELSE After(path[k - 1])

LEMMA PathExists ==
  ASSUME MatchInv, phase = "walk"
  PROVE  \E path : IsPath(path)
<1> DEFINE V == 0 .. n
           G == [k \in Nat |-> [p \in V |-> IF p >= n THEN n ELSE After(p)]]
<1>1. n \in Nat /\ 0 \in V
  BY ChunkTypes DEF MatchInv
<1>2. G \in [Nat -> [V -> V]]
  <2> SUFFICES ASSUME NEW p \in V PROVE (IF p >= n THEN n ELSE After(p)) \in V
    OBVIOUS
  <2>1. CASE p >= n
    BY <1>1, <2>1
  <2>2. CASE ~ (p >= n)
    <3>1. p \in 0 .. n - 1
      BY <1>1, <2>2
    <3>2. After(p) \in p + 1 .. n
      BY <3>1, AfterIs
    <3> QED BY <1>1, <2>2, <3>1, <3>2
  <2> QED BY <2>1, <2>2
<1>3. \A k \in Nat, p \in V : G[k][p] = IF p >= n THEN n ELSE After(p)
  OBVIOUS
<1> HIDE DEF G, V
<1>4. PICK path \in [0 .. n -> V] : Iterates(path, 0, G, n)
  BY <1>1, <1>2, Recursion
<1>5. \A k \in 1 .. n : path[k] = IF path[k - 1] >= n THEN n ELSE After(path[k - 1])
  <2> SUFFICES ASSUME NEW k \in 1 .. n
               PROVE  path[k] = IF path[k - 1] >= n THEN n ELSE After(path[k - 1])
    OBVIOUS
  <2>1. path[k - 1] \in V /\ k \in Nat
    BY <1>1
  <2> QED BY <1>3, <1>4, <2>1 DEF Iterates
<1> QED BY <1>4, <1>5 DEF IsPath, V, Iterates

LEMMA PathMoves ==
  ASSUME MatchInv, phase = "walk", NEW path, IsPath(path)
  PROVE  /\ path[n] = n /\ path[0] = 0
         /\ \A k \in 0 .. n : path[k] \in 0 .. n
         /\ \A k \in 0 .. n : path[k] < n => /\ k + 1 \in 0 .. n
                                             /\ path[k + 1] = After(path[k]) /\ path[k + 1] > path[k]
<1>1. n \in Nat /\ path \in [0 .. n -> 0 .. n]
  BY ChunkTypes DEF MatchInv, IsPath
<1>2. ASSUME NEW k \in 0 .. n - 1
      PROVE  path[k + 1] = n \/ (path[k] < n /\ path[k + 1] = After(path[k]) /\ path[k + 1] > path[k])
  <2>1. k + 1 \in 1 .. n /\ (k + 1) - 1 = k /\ path[k] \in 0 .. n
    BY <1>1
  <2>2. path[k + 1] = IF path[k] >= n THEN n ELSE After(path[k])
    BY <2>1 DEF IsPath
  <2>3. CASE path[k] >= n
    BY <2>2, <2>3
  <2>4. CASE ~ (path[k] >= n)
    <3>1. path[k] \in 0 .. n - 1
      BY <1>1, <2>1, <2>4
    <3>2. After(path[k]) \in path[k] + 1 .. n
      BY <3>1, AfterIs
    <3>3. path[k + 1] = After(path[k])
      BY <2>2, <2>4
    <3>4. path[k + 1] > path[k] /\ path[k] < n
      <4>1. \A a, c : a \in 0 .. n - 1 /\ c \in a + 1 .. n => c > a /\ a < n
        BY <1>1
      <4> QED BY <3>1, <3>2, <3>3, <4>1
    <3> QED BY <3>3, <3>4
  <2> QED BY <2>3, <2>4
<1> DEFINE S == {k \in Nat : k <= n => path[k] >= k}
<1>3. 0 \in S
  BY <1>1 DEF IsPath
<1>4. ASSUME NEW k \in Nat, k \in S PROVE k + 1 \in S
  <2> SUFFICES ASSUME k + 1 <= n PROVE path[k + 1] >= k + 1
    OBVIOUS
  <2>1. k \in 0 .. n - 1 /\ path[k] >= k /\ path[k] \in 0 .. n /\ path[k + 1] \in 0 .. n
    BY <1>1, <1>4
  <2>2. path[k + 1] = n \/ path[k + 1] > path[k]
    BY <1>2, <2>1
  <2>3. \A a, c : a \in 0 .. n /\ c \in 0 .. n /\ a >= k /\ (c = n \/ c > a) => c >= k + 1
    BY <1>1
  <2> QED BY <2>1, <2>2, <2>3
<1> HIDE DEF S
<1>5. n \in S
  BY <1>1, <1>3, <1>4, Induction
<1>6. path[n] >= n /\ path[n] \in 0 .. n
  BY <1>1, <1>5 DEF S
<1>7. path[n] = n
  BY <1>1, <1>6
<1>8. ASSUME NEW k \in 0 .. n, path[k] < n
      PROVE  k + 1 \in 0 .. n /\ path[k + 1] = After(path[k]) /\ path[k + 1] > path[k]
  <2>1. k # n
    BY <1>1, <1>7, <1>8
  <2>2. k \in 0 .. n - 1 /\ k + 1 \in 1 .. n /\ (k + 1) - 1 = k /\ path[k] \in 0 .. n - 1
    BY <1>1, <1>8, <2>1
  <2>3. path[k + 1] = After(path[k])
    BY <1>1, <1>8, <2>2 DEF IsPath
  <2>4. After(path[k]) \in path[k] + 1 .. n
    BY <2>2, AfterIs
  <2> QED BY <1>1, <2>2, <2>3, <2>4
<1> QED BY <1>1, <1>7, <1>8 DEF IsPath

(* The index at which the path leaves block b, seen from index j. *)
Leaves(path, b, j, i) ==
  /\ i \in j .. n /\ path[i] >= BlockEnd(b)
  /\ \A s \in j .. i - 1 : path[s] < BlockEnd(b)

(* A summary entered on the path tells where the path leaves the block. *)
LEMMA SummaryIs ==
  ASSUME MatchInv, phase = "walk", NEW path, IsPath(path), NEW b \in Blocks, NEW j \in 0 .. n,
         path[j] >= BlockStart(b), path[j] < BlockEnd(b)
  PROVE  \E i : /\ Leaves(path, b, j, i)
                /\ Summary(b, path[j] - BlockStart(b)) = [exit |-> path[i] - BlockStart(b), count |-> i - j]
<1> DEFINE bs == BlockStart(b)
           be == BlockEnd(b)
           F == CHOOSE f : f = [p \in bs .. n |-> IF p >= be THEN [exit |-> p - bs, count |-> 0]
                                                  ELSE [f[After(p)] EXCEPT !.count = @ + 1]]
<1>1. b \in Nat /\ n \in Nat /\ input \in Chunk
  BY ChunkTypes DEF MatchInv, Blocks
<1>2. bs \in Nat /\ bs < n /\ be \in Nat /\ be <= n /\ bs < be
  <2>1. BlockSize \in Nat \ {0}
    BY Sizes
  <2> QED BY <1>1, <2>1, BlockBounds
<1>3. path \in [0 .. n -> 0 .. n]
  BY DEF IsPath
<1>4. Summary(b, path[j] - bs) = F[path[j]]
  <2>1. path[j] \in Nat /\ path[j] < n /\ bs + (path[j] - bs) = path[j]
    <3> HIDE DEF F
    <3>1. path[j] \in Nat
      BY <1>1, <1>3
    <3> QED BY <1>1, <1>2, <3>1
  <2>2. Summary(b, path[j] - bs) = IF bs + (path[j] - bs) >= n THEN [exit |-> BlockSize, count |-> 0]
                                                               ELSE F[bs + (path[j] - bs)]
    BY DEF Summary
  <2> HIDE DEF F, bs, be
  <2> QED BY <1>1, <2>1, <2>2
<1> HIDE DEF bs, be
<1>5. \E f : f = [p \in bs .. n |-> IF p >= be THEN [exit |-> p - bs, count |-> 0]
                                    ELSE [f[After(p)] EXCEPT !.count = @ + 1]]
  <2> DEFINE V == [exit : Nat, count : Nat]
             Stop == be .. n
             B == [p \in bs .. n |-> [exit |-> p - bs, count |-> 0]]
             G == [p \in bs .. n |-> [v \in V |-> [v EXCEPT !.count = @ + 1]]]
             next == [p \in bs .. n |-> IF p < be THEN After(p) ELSE 0]
  <2>1. B \in [bs .. n -> V]
    BY <1>1, <1>2
  <2>2. G \in [bs .. n -> [V -> V]]
    OBVIOUS
  <2>3. ASSUME NEW p \in bs .. n, p < be PROVE After(p) \in p + 1 .. n
    <3>1. p \in 0 .. n - 1
      BY <1>1, <1>2, <2>3
    <3> QED BY <3>1, AfterIs
  <2>4. next \in [bs .. n -> Int]
    <3> SUFFICES ASSUME NEW p \in bs .. n PROVE (IF p < be THEN After(p) ELSE 0) \in Int
      OBVIOUS
    <3> QED BY <1>1, <1>2, <2>3
  <2>5. \A p \in (bs .. n) \ Stop : p < be /\ next[p] = After(p) /\ next[p] \in p + 1 .. n
    <3> SUFFICES ASSUME NEW p \in bs .. n, p \notin Stop
                 PROVE  p < be /\ next[p] = After(p) /\ next[p] \in p + 1 .. n
      OBVIOUS
    <3>1. p < be
      BY <1>1, <1>2
    <3>2. next[p] = After(p)
      BY <3>1
    <3> HIDE DEF next
    <3> QED BY <2>3, <3>1, <3>2
  <2>6. \A p \in bs .. n : B[p] = [exit |-> p - bs, count |-> 0]
    OBVIOUS
  <2>7. \A p \in bs .. n, v \in V : G[p][v] = [v EXCEPT !.count = @ + 1]
    OBVIOUS
  <2> HIDE DEF B, G, next, V
  <2>8. PICK f \in [bs .. n -> V] : Descends(f, bs, n, Stop, B, G, next)
    <3> HIDE DEF Stop
    <3>1. \A p \in (bs .. n) \ Stop : next[p] \in p + 1 .. n
      BY <2>5
    <3>2. bs <= n
      BY <1>1, <1>2
    <3> QED BY <1>1, <1>2, <2>1, <2>2, <2>4, <3>1, <3>2, Descent
  <2>9. ASSUME NEW p \in bs .. n
        PROVE  f[p] = IF p >= be THEN [exit |-> p - bs, count |-> 0]
                                 ELSE [f[After(p)] EXCEPT !.count = @ + 1]
    <3>1. f[p] = IF p \in Stop THEN B[p] ELSE G[p][f[next[p]]]
      BY <2>8 DEF Descends
    <3>2. CASE p >= be
      <4>1. p \in Stop
        BY <1>1, <1>2, <3>2
      <4> QED BY <2>6, <3>1, <3>2, <4>1
    <3>3. CASE ~ (p >= be)
      <4>1. p \notin Stop
        BY <1>1, <1>2, <3>3
      <4>2. next[p] = After(p) /\ After(p) \in bs .. n
        BY <1>1, <1>2, <2>5, <4>1
      <4>3. f[After(p)] \in V
        BY <4>2
      <4> QED BY <2>7, <3>1, <3>3, <4>1, <4>2, <4>3
    <3> QED BY <3>2, <3>3
  <2>10. f = [p \in bs .. n |-> f[p]]
    OBVIOUS
  <2>11. f = [p \in bs .. n |-> IF p >= be THEN [exit |-> p - bs, count |-> 0]
                                ELSE [f[After(p)] EXCEPT !.count = @ + 1]]
    BY <2>9, <2>10
  <2> QED BY <2>11
<1>6. F = [p \in bs .. n |-> IF p >= be THEN [exit |-> p - bs, count |-> 0]
                             ELSE [F[After(p)] EXCEPT !.count = @ + 1]]
  BY <1>5, Zenon
<1> HIDE DEF F
<1> DEFINE Right(x) == \E i : Leaves(path, b, x, i) /\ F[path[x]] = [exit |-> path[i] - bs, count |-> i - x]
           S == {m \in Nat : m <= n /\ path[n - m] >= bs => Right(n - m)}
<1>7. ASSUME NEW x \in 0 .. n, path[x] >= be PROVE Right(x)
  <2>1. Leaves(path, b, x, x)
    BY <1>1, <1>7 DEF Leaves, be
  <2>2. path[x] \in bs .. n /\ x - x = 0
    BY <1>1, <1>2, <1>3, <1>7
  <2>3. F[path[x]] = [exit |-> path[x] - bs, count |-> x - x]
    BY <1>6, <1>7, <2>2
  <2> QED BY <2>1, <2>3
<1>8. 0 \in S
  <2>1. path[n] >= be /\ n - 0 = n /\ n \in 0 .. n
    BY <1>1, <1>2, PathMoves
  <2>2. Right(n)
    BY <1>7, <2>1
  <2> HIDE DEF Right
  <2> QED BY <2>1, <2>2
<1>9. ASSUME NEW m \in Nat, m \in S PROVE m + 1 \in S
  <2> DEFINE x == n - (m + 1)
  <2> SUFFICES ASSUME m + 1 <= n, path[x] >= bs PROVE Right(x)
    <3> HIDE DEF Right
    <3> QED OBVIOUS
  <2>1. x \in 0 .. n /\ x + 1 = n - m /\ x + 1 \in 0 .. n
    BY <1>1
  <2> HIDE DEF x
  <2>2. path[x] \in 0 .. n /\ path[x + 1] \in 0 .. n
    BY <1>3, <2>1
  <2>3. CASE path[x] >= be
    BY <1>7, <2>1, <2>3
  <2>4. CASE ~ (path[x] >= be)
    <3>1. path[x] < n /\ path[x] < be /\ path[x] \in bs .. n
      BY <1>1, <1>2, <2>2, <2>4
    <3>2. path[x + 1] = After(path[x]) /\ path[x + 1] > path[x]
      BY <2>1, <3>1, PathMoves
    <3>3. Right(x + 1)
      <4>1. path[n - m] >= bs
        BY <1>1, <1>2, <2>1, <2>2, <3>1, <3>2
      <4>2. m <= n
        BY <1>1
      <4> HIDE DEF Right
      <4>3. Right(n - m)
        BY <1>9, <4>1, <4>2
      <4> QED BY <2>1, <4>3
    <3>4. PICK i : Leaves(path, b, x + 1, i)
                   /\ F[path[x + 1]] = [exit |-> path[i] - bs, count |-> i - (x + 1)]
      BY <3>3
    <3>5. i \in x .. n /\ (i - (x + 1)) + 1 = i - x
      BY <1>1, <2>1, <3>4 DEF Leaves
    <3>6. Leaves(path, b, x, i)
      <4>1. ASSUME NEW s \in x .. i - 1 PROVE path[s] < be
        <5>1. CASE s = x
          BY <3>1, <5>1
        <5>2. CASE s # x
          <6>1. s \in x + 1 .. i - 1
            BY <2>1, <3>5, <5>2
          <6> QED BY <3>4, <6>1 DEF Leaves, be
        <5> QED BY <5>1, <5>2
      <4> QED BY <3>4, <3>5, <4>1 DEF Leaves, be
    <3>7. F[path[x]] = [F[path[x + 1]] EXCEPT !.count = @ + 1]
      BY <1>6, <2>4, <3>1, <3>2
    <3>8. F[path[x]] = [exit |-> path[i] - bs, count |-> i - x]
      BY <3>4, <3>5, <3>7
    <3> QED BY <3>6, <3>8
  <2> QED BY <2>3, <2>4
<1>10. Right(j)
  <2> HIDE DEF Right
  <2>1. n - j \in Nat /\ n - (n - j) = j /\ n - j <= n
    BY <1>1
  <2>2. n - j \in S
    <3> HIDE DEF S
    <3> QED BY <1>8, <1>9, <2>1, Induction
  <2> QED BY <2>1, <2>2 DEF bs
<1> QED BY <1>4, <1>10 DEF bs
-----------------------------------------------------------------------------
(* The slot of the first token of a block that has been chained. *)
Offset(b) == IF b < Here THEN token_offsets[b + 1] ELSE token_off

Summaries ==
  /\ unsummarised \subseteq Blocks
  /\ DOMAIN exit_table = Blocks /\ DOMAIN count_table = Blocks
  /\ \A b \in Blocks \ unsummarised :
       /\ exit_table[b] = [e \in 0 .. BlockSize - 1 |-> Summary(b, e).exit]
       /\ count_table[b] = [e \in 0 .. BlockSize - 1 |-> Summary(b, e).count]

(* The slots of a block are the indices at which the path is in the block, *)
(* and its entry is where the path first is in it.                         *)
BlockRight(path, b) ==
  /\ Offset(b) <= Offset(b + 1) /\ path[Offset(b + 1)] >= BlockEnd(b)
  /\ \A s \in Offset(b) .. Offset(b + 1) - 1 : path[s] < BlockEnd(b)
  /\ actual_entry[b + 1] = 0 => Offset(b) = Offset(b + 1)
  /\ actual_entry[b + 1] # 0 => BlockStart(b) + actual_entry[b + 1] - 1 = path[Offset(b)]

ChainInv(path) ==
  /\ actual_entry \in Seq(Nat) /\ token_offsets \in Seq(0 .. n) /\ Len(token_offsets) = Here
  /\ token_off \in 0 .. n /\ cur = path[token_off]
  /\ cur >= n \/ cur >= BlockStart(Here)
  /\ Offset(0) = 0
  /\ \A b \in 0 .. Here - 1 : BlockRight(path, b)

LaneInv(path) ==
  /\ DOMAIN lane = {b \in 0 .. Here - 1 : actual_entry[b + 1] # 0}
  /\ \A b \in DOMAIN lane :
       /\ lane[b] \in [at : Nat, emitted : Nat]
       /\ Offset(b) + lane[b].emitted <= Offset(b + 1)
       /\ lane[b].at = path[Offset(b) + lane[b].emitted]

(* A slot holds nothing, or the token of the strict greedy walk; each lane *)
(* has filled its slots up to the last it emitted.                         *)
WalkedInv(path) ==
  /\ DOMAIN walked = 0 .. n - 1
  /\ \A s \in 0 .. n - 1 : walked[s] = Nil \/ walked[s] = At(path[s])
  /\ \A b \in DOMAIN lane : \A s \in Offset(b) .. Offset(b) + lane[b].emitted - 1 :
       walked[s] = At(path[s])

BlockInv ==
  walker = "block" =>
    Summaries /\ \E path : IsPath(path) /\ ChainInv(path) /\ LaneInv(path) /\ WalkedInv(path)

LEMMA SameGround ==
  ASSUME UNCHANGED <<input, tokens>>
  PROVE  /\ n' = n /\ Blocks' = Blocks
         /\ \A p : At(p)' = At(p) /\ After(p)' = After(p)
         /\ \A b : BlockStart(b)' = BlockStart(b) /\ BlockEnd(b)' = BlockEnd(b)
         /\ \A b, e : Summary(b, e)' = Summary(b, e)
         /\ \A path : IsPath(path)' <=> IsPath(path)
<1>1. n' = n /\ Blocks' = Blocks /\ \A p : At(p)' = At(p) /\ After(p)' = After(p)
  BY DEF n, Blocks, At, After
<1>2. \A b : BlockStart(b)' = BlockStart(b) /\ BlockEnd(b)' = BlockEnd(b)
  BY <1>1 DEF BlockStart, BlockEnd
<1>3. \A b, e : Summary(b, e)' = Summary(b, e)
  BY DEF Summary, BlockStart, BlockEnd, n, At, After
<1>4. \A path : IsPath(path)' <=> IsPath(path)
  BY <1>1 DEF IsPath
<1> QED BY <1>1, <1>2, <1>3, <1>4

LEMMA StartBlock ==
  ASSUME MatchInv, WalkerInv, StartBlocks
  PROVE  BlockInv'
<1>1. /\ UNCHANGED <<input, tokens>> /\ phase = "walk" /\ n \in Nat /\ cur = 0 /\ cur' = 0
      /\ actual_entry' = <<>> /\ token_offsets' = <<>> /\ token_off' = 0 /\ lane' = <<>>
  BY ChunkTypes DEF StartBlocks, MatchInv, WalkerInv, BlocksIdle, matchVars
<1>2. PICK path : IsPath(path)
  BY <1>1, PathExists
<1>3. n' = n /\ Blocks' = Blocks /\ IsPath(path)'
  BY <1>1, <1>2, SameGround
<1>4. Summaries'
  BY <1>3 DEF StartBlocks, Summaries
<1>5. Here' = 0 /\ Offset(0)' = 0
  BY <1>1 DEF Here, Offset
<1>6. ChainInv(path)'
  <2>1. 0 >= BlockStart(0)' /\ path[0] = 0
    BY <1>2, Sizes DEF BlockStart, IsPath
  <2> QED BY <1>1, <1>3, <1>5, <2>1 DEF ChainInv
<1>7. DOMAIN lane' = {}
  BY <1>1
<1>8. LaneInv(path)'
  BY <1>5, <1>7 DEF LaneInv
<1>9. WalkedInv(path)'
  <2>1. walked' = [s \in 0 .. n - 1 |-> Nil]
    BY DEF StartBlocks
  <2> QED BY <1>3, <1>7, <2>1 DEF WalkedInv
<1> QED BY <1>3, <1>4, <1>6, <1>8, <1>9 DEF BlockInv

LEMMA SummariseBlock ==
  ASSUME WalkerInv, BlockInv, NEW b \in unsummarised, Summarise(b)
  PROVE  BlockInv'
<1>1. /\ UNCHANGED <<input, tokens, cur, actual_entry, token_offsets, token_off, lane, walked>>
      /\ walker = "block" /\ unsummarised' = unsummarised \ {b}
  BY DEF Summarise, matchVars, WalkerInv, BlocksIdle
<1>2. PICK path : IsPath(path) /\ ChainInv(path) /\ LaneInv(path) /\ WalkedInv(path)
  BY <1>1 DEF BlockInv
<1>3. /\ n' = n /\ Blocks' = Blocks /\ IsPath(path)' /\ \A p : At(p)' = At(p)
      /\ \A c : BlockStart(c)' = BlockStart(c) /\ BlockEnd(c)' = BlockEnd(c)
      /\ \A c, e : Summary(c, e)' = Summary(c, e)
  BY <1>1, <1>2, SameGround
<1>4. Here' = Here /\ \A c : Offset(c)' = Offset(c)
  BY <1>1 DEF Here, Offset
<1>5. ChainInv(path)' /\ LaneInv(path)' /\ WalkedInv(path)'
  BY <1>1, <1>2, <1>3, <1>4 DEF ChainInv, LaneInv, WalkedInv, BlockRight, Nil
<1>6. Summaries'
  <2>1. Summaries /\ b \in Blocks
    BY <1>1 DEF BlockInv, Summaries
  <2>2. exit_table' = [exit_table EXCEPT ![b] = [e \in 0 .. BlockSize - 1 |-> Summary(b, e).exit]]
        /\ count_table' = [count_table EXCEPT ![b] = [e \in 0 .. BlockSize - 1 |-> Summary(b, e).count]]
    BY DEF Summarise
  <2>3. DOMAIN exit_table' = Blocks /\ DOMAIN count_table' = Blocks
    BY <2>1, <2>2 DEF Summaries
  <2>4. ASSUME NEW c \in Blocks, c \notin unsummarised'
        PROVE  /\ exit_table'[c] = [e \in 0 .. BlockSize - 1 |-> Summary(c, e).exit]
               /\ count_table'[c] = [e \in 0 .. BlockSize - 1 |-> Summary(c, e).count]
    <3>1. CASE c = b
      BY <2>1, <2>2, <3>1 DEF Summaries
    <3>2. CASE c # b
      BY <1>1, <2>1, <2>2, <2>4, <3>2 DEF Summaries
    <3> QED BY <3>1, <3>2
  <2>5. unsummarised' \subseteq Blocks
    BY <1>1, <2>1 DEF Summaries
  <2> QED BY <1>3, <2>3, <2>4, <2>5 DEF Summaries
<1> QED BY <1>3, <1>5, <1>6 DEF BlockInv

(* A round of chain_blocks: the walk either goes through the block, as its *)
(* summary says, or is already past it.                                    *)
LEMMA ChainStep ==
  ASSUME MatchInv, WalkerInv, BlockInv, ChainBlock, NEW path, IsPath(path), ChainInv(path)
  PROVE  \E i : /\ Leaves(path, Here, token_off, i) /\ token_off' = i /\ cur' = path[i]
                /\ \/ actual_entry' = Append(actual_entry, 0) /\ i = token_off
                   \/ \E e \in Nat \ {0} : /\ actual_entry' = Append(actual_entry, e)
                                           /\ BlockStart(Here) + e - 1 = path[token_off]
<1>1. /\ phase = "walk" /\ n \in Nat /\ input \in Chunk /\ Here \in Blocks /\ Here \in Nat
      /\ unsummarised = {} /\ walker = "block"
  BY ChunkTypes DEF ChainBlock, Chaining, MatchInv, WalkerInv, Blocks
<1> DEFINE bs == BlockStart(Here)
           be == BlockEnd(Here)
<1>2. /\ bs \in Nat /\ be = (IF bs + BlockSize <= n THEN bs + BlockSize ELSE n) /\ bs < n
      /\ BlockSize \in Nat \ {0}
  BY <1>1, BlockBounds, Sizes
<1>3. token_off \in 0 .. n /\ cur = path[token_off] /\ cur \in 0 .. n /\ (cur >= n \/ cur >= bs)
  BY DEF ChainInv, IsPath
<1> HIDE DEF bs, be
<1>4. Enters <=> cur < n /\ cur >= bs /\ cur < bs + BlockSize
  BY DEF Enters, bs
<1>5. CASE ~ Enters
  <2>1. actual_entry' = Append(actual_entry, 0) /\ token_off' = token_off /\ cur' = cur
    BY <1>5 DEF ChainBlock
  <2>2. cur >= be
    BY <1>1, <1>2, <1>3, <1>4, <1>5
  <2>3. Leaves(path, Here, token_off, token_off)
    BY <1>1, <1>3, <2>2 DEF Leaves, be
  <2> QED BY <1>3, <2>1, <2>3
<1>6. CASE Enters
  <2> DEFINE e == cur - bs
  <2>1. e \in 0 .. BlockSize - 1 /\ cur >= bs /\ cur < be /\ e + 1 \in Nat \ {0} /\ bs + (e + 1) - 1 = cur
    BY <1>1, <1>2, <1>3, <1>4, <1>6
  <2>2. /\ actual_entry' = Append(actual_entry, e + 1)
        /\ token_off' = token_off + count_table[Here][e]
        /\ cur' = bs + exit_table[Here][e]
    BY <1>6 DEF ChainBlock, Chain, bs
  <2> HIDE DEF e
  <2>3. exit_table[Here][e] = Summary(Here, e).exit /\ count_table[Here][e] = Summary(Here, e).count
    <3>1. Here \in Blocks \ unsummarised /\ Summaries
      BY <1>1 DEF BlockInv
    <3>2. /\ exit_table[Here] = [x \in 0 .. BlockSize - 1 |-> Summary(Here, x).exit]
          /\ count_table[Here] = [x \in 0 .. BlockSize - 1 |-> Summary(Here, x).count]
      BY <3>1 DEF Summaries
    <3> QED BY <2>1, <3>2
  <2>4. PICK i : /\ Leaves(path, Here, token_off, i)
                 /\ Summary(Here, path[token_off] - bs) = [exit |-> path[i] - bs, count |-> i - token_off]
    BY <1>1, <1>3, <2>1, SummaryIs DEF bs, be
  <2>5. Summary(Here, e) = [exit |-> path[i] - bs, count |-> i - token_off]
    BY <1>3, <2>4 DEF e
  <2>6. i \in token_off .. n /\ path[i] \in 0 .. n /\ i \in 0 .. n
    BY <1>1, <1>3, <2>4 DEF Leaves, IsPath
  <2>7. token_off' = i /\ cur' = path[i]
    <3>1. token_off' = token_off + (i - token_off) /\ cur' = bs + (path[i] - bs)
      BY <2>2, <2>3, <2>5
    <3> QED BY <1>1, <1>2, <1>3, <2>6, <3>1
  <2> QED BY <1>3, <2>1, <2>2, <2>4, <2>7 DEF bs
<1> QED BY <1>5, <1>6

LEMMA ChainKeeps ==
  ASSUME MatchInv, WalkerInv, BlockInv, ChainBlock, NEW path, IsPath(path), ChainInv(path)
  PROVE  /\ ChainInv(path)' /\ Here' = Here + 1 /\ Here \in Nat
         /\ \A b \in 0 .. Here : Offset(b)' = Offset(b)
<1>1. PICK i : /\ Leaves(path, Here, token_off, i) /\ token_off' = i /\ cur' = path[i]
               /\ \/ actual_entry' = Append(actual_entry, 0) /\ i = token_off
                  \/ \E e \in Nat \ {0} : /\ actual_entry' = Append(actual_entry, e)
                                          /\ BlockStart(Here) + e - 1 = path[token_off]
  BY ChainStep
<1>2. PICK x \in Nat : /\ actual_entry' = Append(actual_entry, x)
                       /\ x = 0 => i = token_off
                       /\ x # 0 => BlockStart(Here) + x - 1 = path[token_off]
  BY <1>1
<1>3. /\ UNCHANGED <<input, tokens>> /\ token_offsets' = Append(token_offsets, token_off)
      /\ n \in Nat /\ Here \in Nat /\ input \in Chunk
      /\ actual_entry \in Seq(Nat) /\ token_offsets \in Seq(0 .. n) /\ Len(token_offsets) = Here
      /\ token_off \in 0 .. n /\ i \in token_off .. n /\ i \in 0 .. n
  BY <1>1, ChunkTypes DEF ChainBlock, MatchInv, ChainInv, Leaves, Here, matchVars
<1>4. /\ n' = n /\ \A b : BlockStart(b)' = BlockStart(b) /\ BlockEnd(b)' = BlockEnd(b)
  BY <1>3, SameGround
<1>5. /\ Here' = Here + 1 /\ actual_entry' \in Seq(Nat) /\ token_offsets' \in Seq(0 .. n)
      /\ Len(token_offsets') = Here + 1 /\ actual_entry'[Here + 1] = x
      /\ \A b \in 0 .. Here - 1 : actual_entry'[b + 1] = actual_entry[b + 1]
  BY <1>2, <1>3 DEF Here
<1>6. \A b \in 0 .. Here : Offset(b)' = Offset(b)
  <2> SUFFICES ASSUME NEW b \in 0 .. Here PROVE token_offsets'[b + 1] = Offset(b)
    BY <1>3, <1>5 DEF Offset
  <2>1. CASE b = Here
    BY <1>3, <2>1 DEF Offset
  <2>2. CASE b # Here
    BY <1>3, <2>2 DEF Offset
  <2> QED BY <2>1, <2>2
<1>7. (\A b \in Nat : b = Here + 1 => Offset(b)' = i) /\ Offset(Here) = token_off
  BY <1>1, <1>3, <1>5 DEF Offset
<1>8. ASSUME NEW b \in 0 .. Here PROVE BlockRight(path, b)'
  <2>1. CASE b = Here
    <3>1. i >= token_off /\ path[i] >= BlockEnd(Here) /\ \A s \in token_off .. i - 1 : path[s] < BlockEnd(Here)
      BY <1>1, <1>3 DEF Leaves
    <3>2. Offset(b)' = token_off /\ Offset(b + 1)' = i /\ actual_entry'[b + 1] = x
      BY <1>3, <1>5, <1>6, <1>7, <2>1
    <3> QED BY <1>2, <1>4, <2>1, <3>1, <3>2 DEF BlockRight
  <2>2. CASE b # Here
    <3>1. b \in 0 .. Here - 1 /\ b + 1 \in 0 .. Here
      BY <1>3, <2>2
    <3>2. BlockRight(path, b)
      BY <3>1 DEF ChainInv
    <3> QED BY <1>4, <1>5, <1>6, <3>1, <3>2 DEF BlockRight
  <2> QED BY <2>1, <2>2
<1>9. cur' >= n \/ cur' >= BlockStart(Here + 1)
  <2>1. cur' \in 0 .. n /\ cur' >= BlockEnd(Here)
    BY <1>1, <1>3 DEF Leaves, IsPath
  <2> QED BY <1>3, <2>1, BlockBounds
<1>10. Offset(0)' = 0
  BY <1>3, <1>6 DEF ChainInv
<1>11. \A b \in 0 .. Here' - 1 : BlockRight(path, b)'
  BY <1>3, <1>5, <1>8
<1>12. ChainInv(path)'
  BY <1>1, <1>3, <1>4, <1>5, <1>9, <1>10, <1>11 DEF ChainInv
<1> QED BY <1>3, <1>5, <1>6, <1>12

LEMMA ChainLanes ==
  ASSUME MatchInv, WalkerInv, BlockInv, ChainBlock
  PROVE  BlockInv'
<1>1. /\ UNCHANGED <<input, tokens, unsummarised, exit_table, count_table, walked>>
      /\ walker = "block"
  BY DEF ChainBlock, Chaining, matchVars
<1>2. PICK path : IsPath(path) /\ ChainInv(path) /\ LaneInv(path) /\ WalkedInv(path)
  BY <1>1 DEF BlockInv
<1>3. ChainInv(path)' /\ Here' = Here + 1 /\ Here \in Nat
  BY <1>2, ChainKeeps
<1>4. /\ n' = n /\ Blocks' = Blocks /\ IsPath(path)' /\ \A p : At(p)' = At(p)
      /\ \A b : BlockStart(b)' = BlockStart(b)
      /\ \A b, e : Summary(b, e)' = Summary(b, e)
  BY <1>1, <1>2, SameGround
<1>5. lane' = [b \in {x \in 0 .. Here : actual_entry'[x + 1] # 0} |->
                 [at |-> BlockStart(b) + actual_entry'[b + 1] - 1, emitted |-> 0]]
  BY DEF ChainBlock
<1>6. DOMAIN lane' = {x \in 0 .. Here' - 1 : actual_entry'[x + 1] # 0}
  BY <1>3, <1>5
<1>7. ASSUME NEW b \in DOMAIN lane'
      PROVE  /\ lane'[b].emitted = 0 /\ lane'[b] \in [at : Nat, emitted : Nat]
             /\ (Offset(b) + lane[b].emitted <= Offset(b + 1))'
             /\ (lane[b].at = path[Offset(b) + lane[b].emitted])'
             /\ Offset(b)' \in Nat
  <2>1. b \in 0 .. Here' - 1 /\ b \in Nat /\ b < Here' /\ b <= Here /\ actual_entry'[b + 1] # 0
    BY <1>3, <1>6
  <2>2. BlockRight(path, b)'
    BY <1>3, <2>1 DEF ChainInv
  <2>3. lane'[b] = [at |-> BlockStart(b) + actual_entry'[b + 1] - 1, emitted |-> 0]
    BY <1>5, <2>1
  <2>4. BlockStart(b) + actual_entry'[b + 1] - 1 = path[Offset(b)'] /\ (Offset(b) <= Offset(b + 1))'
    BY <1>4, <2>1, <2>2 DEF BlockRight
  <2>5. Offset(b)' \in 0 .. n /\ n \in Nat
    <3>1. n \in Nat /\ Offset(b)' = token_offsets'[b + 1]
      BY <2>1, ChunkTypes DEF Offset, MatchInv
    <3>2. token_offsets' \in Seq(0 .. n) /\ b + 1 \in 1 .. Len(token_offsets')
      BY <1>3, <1>4, <2>1 DEF ChainInv
    <3> QED BY <3>1, <3>2
  <2>6. path[Offset(b)'] \in Nat
    BY <1>2, <2>5 DEF IsPath
  <2>7. Offset(b)' + 0 = Offset(b)'
    BY <2>5
  <2> QED BY <2>3, <2>4, <2>5, <2>6, <2>7
<1>8. LaneInv(path)'
  BY <1>6, <1>7 DEF LaneInv
<1>9. WalkedInv(path)'
  <2>1. \A b \in DOMAIN lane' : \A s \in Offset(b)' .. Offset(b)' + lane'[b].emitted - 1 : FALSE
    BY <1>7
  <2> QED BY <1>1, <1>2, <1>4, <2>1 DEF WalkedInv, Nil
<1>10. Summaries'
  BY <1>1, <1>4 DEF Summaries, BlockInv
<1> QED BY <1>3, <1>4, <1>8, <1>9, <1>10 DEF BlockInv

LEMMA OffsetRange ==
  ASSUME input \in Chunk, NEW path, ChainInv(path), NEW b \in 0 .. Here - 1
  PROVE  Offset(b) \in 0 .. n /\ Offset(b + 1) \in 0 .. n
<1>1. Here \in Nat
  BY DEF ChainInv, Here
<1>2. ASSUME NEW c \in 0 .. Here PROVE Offset(c) \in 0 .. n
  <2>1. CASE c < Here
    <3>1. c + 1 \in 1 .. Len(token_offsets) /\ token_offsets \in Seq(0 .. n)
      BY <1>1, <2>1 DEF ChainInv
    <3>2. token_offsets[c + 1] \in 0 .. n
      BY <3>1, ElementOfSeq
    <3> QED BY <2>1, <3>2 DEF Offset
  <2>2. CASE ~ (c < Here)
    BY <2>2 DEF Offset, ChainInv
  <2> QED BY <2>1, <2>2
<1> QED BY <1>1, <1>2

(* The token a lane emits is that of the path, in a slot of its block. *)
LEMMA EmitIs ==
  ASSUME MatchInv, WalkerInv, NEW path, IsPath(path), ChainInv(path), LaneInv(path),
         phase = "walk", NEW b \in DOMAIN lane, lane[b].at < BlockEnd(b)
  PROVE  /\ b \in 0 .. Here - 1 /\ SlotOf(b) = Offset(b) + lane[b].emitted
         /\ SlotOf(b) \in 0 .. n - 1 /\ SlotOf(b) + 1 <= Offset(b + 1)
         /\ Offset(b) \in Nat /\ lane[b] \in [at : Nat, emitted : Nat]
         /\ lane[b].at = path[SlotOf(b)] /\ After(lane[b].at) = path[SlotOf(b) + 1]
         /\ After(lane[b].at) \in Nat
<1>1. b \in 0 .. Here - 1 /\ b \in Nat /\ n \in Nat /\ Here \in Nat /\ input \in Chunk
  BY ChunkTypes DEF LaneInv, Here, ChainInv, MatchInv
<1>3. Offset(b) \in 0 .. n /\ Offset(b + 1) \in 0 .. n
  BY <1>1, OffsetRange
<1> DEFINE k == lane[b].emitted
           s == Offset(b) + k
<1>4. /\ lane[b] \in [at : Nat, emitted : Nat] /\ k \in Nat /\ s <= Offset(b + 1)
      /\ lane[b].at = path[s]
  BY DEF LaneInv
<1>5. SlotOf(b) = s
  BY <1>1 DEF SlotOf, Offset
<1>6. path[Offset(b + 1)] >= BlockEnd(b)
  BY <1>1 DEF ChainInv, BlockRight
<1>7. BlockEnd(b) \in Nat /\ BlockEnd(b) <= n
  BY <1>1, BlockEndRange
<1> HIDE DEF k
<1>8. s \in 0 .. n /\ path[s] \in 0 .. n /\ path[Offset(b + 1)] \in 0 .. n
  <2>1. s \in 0 .. n
    BY <1>1, <1>3, <1>4
  <2> HIDE DEF s
  <2> QED BY <1>1, <1>3, <2>1 DEF IsPath
<1> HIDE DEF s
<1>9. s # Offset(b + 1)
  <2> SUFFICES ASSUME s = Offset(b + 1) PROVE FALSE
    OBVIOUS
  <2> QED BY <1>4, <1>6, <1>7, <1>8
<1>10. path[s] < n /\ path[s] \in 0 .. n - 1
  BY <1>1, <1>4, <1>7, <1>8
<1>11. s + 1 \in 0 .. n /\ path[s + 1] = After(path[s]) /\ After(path[s]) \in path[s] + 1 .. n
  BY <1>8, <1>10, PathMoves, AfterIs
<1>12. s \in 0 .. n - 1 /\ s + 1 <= Offset(b + 1) /\ After(path[s]) \in Nat
  BY <1>1, <1>3, <1>4, <1>8, <1>9, <1>10, <1>11
<1> QED BY <1>1, <1>3, <1>4, <1>5, <1>11, <1>12 DEF s, k

LEMMA EmitKeeps ==
  ASSUME MatchInv, WalkerInv, BlockInv, NEW b \in DOMAIN lane, EmitToken(b)
  PROVE  BlockInv'
<1>1. /\ UNCHANGED <<input, tokens, unsummarised, exit_table, count_table, cur, actual_entry,
                     token_offsets, token_off>>
      /\ walker = "block" /\ phase = "walk" /\ lane[b].at < BlockEnd(b)
      /\ walked' = [walked EXCEPT ![SlotOf(b)] = At(lane[b].at)]
      /\ lane' = [lane EXCEPT ![b] = [at |-> After(lane[b].at), emitted |-> lane[b].emitted + 1]]
  BY DEF EmitToken, Chained, matchVars, WalkerInv
<1>2. PICK path : IsPath(path) /\ ChainInv(path) /\ LaneInv(path) /\ WalkedInv(path)
  BY <1>1 DEF BlockInv
<1>3. /\ n' = n /\ Blocks' = Blocks /\ IsPath(path)' /\ \A p : At(p)' = At(p)
      /\ \A c : BlockStart(c)' = BlockStart(c) /\ BlockEnd(c)' = BlockEnd(c)
      /\ \A c, e : Summary(c, e)' = Summary(c, e)
  BY <1>1, <1>2, SameGround
<1>4. Here' = Here /\ \A c : Offset(c)' = Offset(c)
  BY <1>1 DEF Here, Offset
<1>5. ChainInv(path)'
  BY <1>1, <1>2, <1>3, <1>4 DEF ChainInv, BlockRight
<1> DEFINE s == SlotOf(b)
           k == lane[b].emitted
<1>6. /\ s = Offset(b) + k /\ s \in 0 .. n - 1 /\ s + 1 <= Offset(b + 1)
      /\ Offset(b) \in Nat /\ k \in Nat /\ lane[b].at = path[s] /\ n \in Nat
      /\ After(lane[b].at) = path[s + 1] /\ After(lane[b].at) \in Nat
  <2>1. lane[b] \in [at : Nat, emitted : Nat] /\ n \in Nat
    BY <1>2, ChunkTypes DEF LaneInv, MatchInv
  <2> QED BY <1>1, <1>2, <2>1, EmitIs
<1> HIDE DEF s
<1>7. /\ DOMAIN lane' = DOMAIN lane
      /\ lane'[b] = [at |-> path[s + 1], emitted |-> k + 1]
      /\ \A c \in DOMAIN lane : c # b => lane'[c] = lane[c]
  BY <1>1, <1>6
<1>8. LaneInv(path)'
  <2>1. ASSUME NEW c \in DOMAIN lane
        PROVE  /\ lane'[c] \in [at : Nat, emitted : Nat]
               /\ Offset(c) + lane'[c].emitted <= Offset(c + 1)
               /\ lane'[c].at = path[Offset(c) + lane'[c].emitted]
    <3>1. CASE c = b
      <4>1. s + 1 = Offset(b) + (k + 1) /\ k + 1 \in Nat /\ path[s + 1] \in Nat
        BY <1>6
      <4>2. lane'[b].at = path[s + 1] /\ lane'[b].emitted = k + 1
            /\ lane'[b] \in [at : Nat, emitted : Nat]
        <5> HIDE DEF k
        <5> QED BY <1>7, <4>1
      <4> QED BY <1>6, <3>1, <4>1, <4>2
    <3>2. CASE c # b
      BY <1>2, <1>7, <3>2 DEF LaneInv
    <3> QED BY <3>1, <3>2
  <2> QED BY <1>1, <1>2, <1>4, <1>7, <2>1 DEF LaneInv
<1>9. WalkedInv(path)'
  <2>1. DOMAIN walked = 0 .. n - 1
    BY <1>2 DEF WalkedInv
  <2>2. /\ DOMAIN walked' = 0 .. n - 1 /\ walked'[s] = At(path[s])
        /\ \A r \in 0 .. n - 1 : r # s => walked'[r] = walked[r]
    BY <1>1, <1>6, <2>1 DEF s
  <2>3. \A r \in 0 .. n - 1 : walked'[r] = Nil \/ walked'[r] = At(path[r])
    BY <1>2, <2>2 DEF WalkedInv
  <2>4. ASSUME NEW c \in DOMAIN lane, NEW r \in Offset(c) .. Offset(c) + lane'[c].emitted - 1
        PROVE  walked'[r] = At(path[r])
    <3>1. CASE r = s
      BY <2>2, <3>1
    <3>2. CASE r # s
      <4>1. r \in Offset(c) .. Offset(c) + lane[c].emitted - 1
        <5>1. CASE c = b
          <6> HIDE DEF k
          <6>1. lane'[c].emitted = k + 1
            BY <1>7, <5>1
          <6>2. r \in Offset(b) .. Offset(b) + (k + 1) - 1 /\ r # Offset(b) + k
            BY <1>6, <3>2, <5>1, <6>1
          <6>3. r \in Offset(b) .. Offset(b) + k - 1
            BY <1>6, <6>2
          <6> QED BY <5>1, <6>3 DEF k
        <5>2. CASE c # b
          BY <1>7, <5>2
        <5> QED BY <5>1, <5>2
      <4>2. walked[r] = At(path[r])
        BY <1>2, <4>1 DEF WalkedInv
      <4>3. walked'[r] = walked[r]
        <5>1. CASE r \in 0 .. n - 1
          BY <2>2, <3>2, <5>1
        <5>2. CASE r \notin 0 .. n - 1
          <6>1. r \in 0 .. n - 1
            <7>1. c \in 0 .. Here - 1 /\ Offset(c) + lane[c].emitted <= Offset(c + 1)
                  /\ lane[c].emitted \in Nat
              BY <1>2 DEF LaneInv
            <7>2. Offset(c) \in 0 .. n /\ Offset(c + 1) \in 0 .. n
              BY <1>2, <7>1, OffsetRange DEF MatchInv
            <7> QED BY <1>6, <4>1, <7>1, <7>2
          <6> QED BY <5>2, <6>1
        <5> QED BY <5>1, <5>2
      <4> QED BY <4>2, <4>3
    <3> QED BY <3>1, <3>2
  <2> QED BY <1>3, <1>4, <1>7, <2>2, <2>3, <2>4 DEF WalkedInv, Nil
<1>10. Summaries'
  BY <1>1, <1>3 DEF Summaries, BlockInv
<1> QED BY <1>3, <1>5, <1>8, <1>9, <1>10 DEF BlockInv

LEMMA NextBlock ==
  ASSUME MatchInv, WalkerInv, WalkerInv', BlockInv, [Next]_vars
  PROVE  BlockInv'
<1>1. CASE walker' # "block"
  BY <1>1 DEF BlockInv
<1>2. CASE UNCHANGED vars
  <2> SUFFICES ASSUME walker = "block" PROVE BlockInv'
    BY <1>1, <1>2 DEF vars
  <2>1. /\ UNCHANGED <<input, tokens, cur, actual_entry, token_offsets, token_off, lane, walked,
                       unsummarised, exit_table, count_table>>
    BY <1>2 DEF vars, matchVars, blockVars
  <2>2. PICK path : IsPath(path) /\ ChainInv(path) /\ LaneInv(path) /\ WalkedInv(path)
    BY DEF BlockInv
  <2>3. /\ n' = n /\ Blocks' = Blocks /\ IsPath(path)' /\ \A p : At(p)' = At(p)
        /\ \A c : BlockStart(c)' = BlockStart(c) /\ BlockEnd(c)' = BlockEnd(c)
        /\ \A c, e : Summary(c, e)' = Summary(c, e)
    BY <2>1, <2>2, SameGround
  <2>4. Here' = Here /\ \A c : Offset(c)' = Offset(c)
    BY <2>1 DEF Here, Offset
  <2>5. ChainInv(path)' /\ LaneInv(path)' /\ WalkedInv(path)'
    BY <2>1, <2>2, <2>3, <2>4 DEF ChainInv, LaneInv, WalkedInv, BlockRight, Nil
  <2>6. Summaries'
    BY <2>1, <2>3 DEF Summaries, BlockInv
  <2> QED BY <2>3, <2>5, <2>6 DEF BlockInv
<1>3. CASE MatchFind
  BY <1>1, <1>3 DEF MatchFind, MatchNext, Upload, Build, Lookup, WalkerInv
<1>4. CASE StartBlocks
  BY <1>4, StartBlock
<1>5. CASE ChainBlock
  BY <1>5, ChainLanes
<1>6. CASE \E b \in unsummarised : Summarise(b)
  BY <1>6, SummariseBlock
<1>7. CASE \E b \in DOMAIN lane : EmitToken(b)
  BY <1>7, EmitKeeps
<1>8. CASE \/ \E w \in {"lazy", "serial"} : StartSequential(w)
           \/ LazyStep \/ SerialStep \/ WalkEnds
  BY <1>1, <1>8 DEF StartSequential, LazyStep, SerialStep, WalkEnds
<1> QED BY <1>2, <1>3, <1>4, <1>5, <1>6, <1>7, <1>8 DEF Next

LEMMA BlockInvariant == Spec => [](MatchInv /\ WalkerInv /\ BlockInv)
<1>1. Init => BlockInv
  BY DEF Init, BlockInv
<1>2. MatchInv /\ WalkerInv /\ WalkerInv' /\ BlockInv /\ [Next]_vars => BlockInv'
  BY NextBlock
<1> QED BY <1>1, <1>2, SequentialInvariant, PTL DEF Spec

(* A slot is written with the one token it may hold. *)
LEMMA SlotsKept ==
  ASSUME MatchInv, WalkerInv, BlockInv, [Next]_vars,
         NEW r \in DOMAIN walked \cap DOMAIN walked', walked[r] # Nil
  PROVE  walked'[r] = walked[r]
<1>1. CASE walked' = walked
  BY <1>1
<1>2. CASE walker # "block"
  <2>1. walked = <<>>
    BY <1>2 DEF WalkerInv, BlocksIdle
  <2> QED BY <2>1
<1>3. CASE WalkEnds
  BY <1>3 DEF WalkEnds
<1>4. ASSUME NEW b \in DOMAIN lane, EmitToken(b), walker = "block" PROVE walked'[r] = walked[r]
  <2>1. /\ phase = "walk" /\ lane[b].at < BlockEnd(b)
        /\ walked' = [walked EXCEPT ![SlotOf(b)] = At(lane[b].at)]
    BY <1>4 DEF EmitToken, WalkerInv
  <2>2. PICK path : IsPath(path) /\ ChainInv(path) /\ LaneInv(path) /\ WalkedInv(path)
    BY <1>4 DEF BlockInv
  <2>3. SlotOf(b) \in 0 .. n - 1 /\ lane[b].at = path[SlotOf(b)]
    BY <2>1, <2>2, EmitIs
  <2>4. CASE r = SlotOf(b)
    <3>1. walked[r] = At(path[r])
      BY <2>2, <2>3, <2>4 DEF WalkedInv
    <3> QED BY <2>1, <2>3, <2>4, <3>1
  <2>5. CASE r # SlotOf(b)
    BY <2>1, <2>5
  <2> QED BY <2>4, <2>5
<1>5. CASE StartBlocks
  BY <1>2, <1>5 DEF StartBlocks
<1> QED BY <1>1, <1>2, <1>3, <1>4, <1>5
    DEF Next, vars, MatchFind, StartSequential, LazyStep, SerialStep, ChainBlock, Summarise, blockVars

(* A slot of the block walk's output, once written, keeps its token: the   *)
(* blocks need no atomics, whatever the order of their threads             *)
(* (walk_block.wgsl:135-160).                                              *)
THEOREM SlotsAreKept == Spec => SlotsWrittenOnce
<1>1. MatchInv /\ WalkerInv /\ BlockInv /\ [Next]_vars =>
        [\A s \in DOMAIN walked \cap DOMAIN walked' :
           walked[s] # Nil => walked'[s] = walked[s]]_vars
  BY SlotsKept
<1> QED BY <1>1, BlockInvariant, PTL DEF Spec, SlotsWrittenOnce
-----------------------------------------------------------------------------
(* At the end of the block walk every slot up to token_off is written, and *)
(* the path is at the end of the input there, and not before.              *)
LEMMA AllEmitted ==
  ASSUME MatchInv, WalkerInv, BlocksWalked, NEW path,
         IsPath(path), ChainInv(path), LaneInv(path), WalkedInv(path), phase = "walk"
  PROVE  /\ token_off \in 0 .. n /\ path[token_off] = n
         /\ \A s \in 0 .. token_off - 1 : path[s] < n /\ walked[s] = At(path[s])
<1>1. /\ n \in Nat /\ input \in Chunk /\ Here \in Nat /\ Here \notin Blocks
      /\ token_off \in 0 .. n /\ path \in [0 .. n -> 0 .. n]
  BY ChunkTypes DEF MatchInv, ChainInv, IsPath, BlocksWalked, Chained, Here
<1>2. BlockStart(Here) \in Nat /\ BlockStart(Here) >= n
  BY <1>1, BlockBounds
<1>3. path[token_off] = n
  <2>1. path[token_off] \in 0 .. n /\ path[token_off] >= n
    BY <1>1, <1>2 DEF ChainInv
  <2> QED BY <1>1, <2>1
<1>4. ASSUME NEW b \in 0 .. Here - 1, NEW s \in Offset(b) .. Offset(b + 1) - 1
      PROVE  s \in Nat /\ path[s] < n /\ walked[s] = At(path[s])
  <2>1. Offset(b) \in 0 .. n /\ Offset(b + 1) \in 0 .. n /\ b \in Nat
    BY <1>1, OffsetRange
  <2>2. s \in 0 .. n /\ path[s] \in 0 .. n
    BY <1>1, <2>1
  <2>3. path[s] < BlockEnd(b) /\ BlockRight(path, b)
    BY DEF ChainInv, BlockRight
  <2>4. BlockEnd(b) \in Nat /\ BlockEnd(b) <= n
    BY <1>1, <2>1, BlockEndRange
  <2>5. b \in DOMAIN lane
    <3>1. actual_entry[b + 1] # 0
      BY <2>1, <2>3 DEF BlockRight
    <3> QED BY <3>1 DEF LaneInv
  <2>6. /\ lane[b].at >= BlockEnd(b) /\ lane[b].emitted \in Nat
        /\ Offset(b) + lane[b].emitted <= Offset(b + 1)
        /\ lane[b].at = path[Offset(b) + lane[b].emitted]
    BY <2>5 DEF BlocksWalked, LaneInv
  <2> DEFINE k == lane[b].emitted
  <2> HIDE DEF k
  <2>7. Offset(b) + k = Offset(b + 1)
    <3> SUFFICES ASSUME Offset(b) + k # Offset(b + 1) PROVE FALSE
      OBVIOUS
    <3>1. Offset(b) + k \in Offset(b) .. Offset(b + 1) - 1
      BY <2>1, <2>6 DEF k
    <3>2. path[Offset(b) + k] < BlockEnd(b) /\ path[Offset(b) + k] \in 0 .. n
      <4>1. Offset(b) + k \in 0 .. n
        <5>1. \A x, y, z : y \in 0 .. n /\ z \in 0 .. n /\ x \in y .. z - 1 => x \in 0 .. n
          BY <1>1
        <5> QED BY <2>1, <3>1, <5>1
      <4> QED BY <1>1, <2>3, <3>1, <4>1 DEF BlockRight
    <3> QED BY <2>4, <2>6, <3>2 DEF k
  <2>8. s \in Offset(b) .. Offset(b) + lane[b].emitted - 1
    BY <2>1, <2>6, <2>7 DEF k
  <2>9. walked[s] = At(path[s])
    BY <2>5, <2>8 DEF WalkedInv
  <2> QED BY <1>1, <2>2, <2>3, <2>4, <2>9
<1> DEFINE S == {b \in Nat : b <= Here => \A s \in 0 .. Offset(b) - 1 :
                                             path[s] < n /\ walked[s] = At(path[s])}
<1>5. 0 \in S
  <2>1. Offset(0) = 0
    BY DEF ChainInv
  <2> QED BY <2>1
<1>6. ASSUME NEW b \in Nat, b \in S PROVE b + 1 \in S
  <2> SUFFICES ASSUME b + 1 <= Here, NEW s \in 0 .. Offset(b + 1) - 1
               PROVE  path[s] < n /\ walked[s] = At(path[s])
    OBVIOUS
  <2>1. b \in 0 .. Here - 1
    BY <1>1
  <2>2. Offset(b) \in 0 .. n /\ Offset(b + 1) \in 0 .. n
    BY <1>1, <2>1, OffsetRange
  <2>3. CASE s < Offset(b)
    <3>1. s \in 0 .. Offset(b) - 1 /\ b <= Here
      BY <1>1, <2>1, <2>2, <2>3
    <3> QED BY <1>6, <3>1
  <2>4. CASE ~ (s < Offset(b))
    <3>1. s \in Offset(b) .. Offset(b + 1) - 1
      BY <2>2, <2>4
    <3> QED BY <1>4, <2>1, <3>1
  <2> QED BY <2>3, <2>4
<1> HIDE DEF S
<1>7. Here \in S
  BY <1>1, <1>5, <1>6, Induction
<1>8. Offset(Here) = token_off
  BY <1>1 DEF Offset
<1> QED BY <1>1, <1>3, <1>7, <1>8 DEF S

(* The tokens of the strict greedy walk, along its path. *)
LEMMA GreedyIs ==
  ASSUME MatchInv, phase = "walk", NEW path, IsPath(path), NEW top \in 0 .. n, path[top] = n,
         \A s \in 0 .. top - 1 : path[s] < n
  PROVE  StrictGreedy = [k \in 1 .. top |-> At(path[k - 1])]
<1> DEFINE F == CHOOSE f : f = [p \in 0 .. n |-> IF p >= n THEN <<>> ELSE <<At(p)>> \o f[After(p)]]
<1>1. n \in Nat /\ path \in [0 .. n -> 0 .. n] /\ path[0] = 0
  BY ChunkTypes DEF MatchInv, IsPath
<1>2. StrictGreedy = F[0]
  BY DEF StrictGreedy
<1>3. \E f : f = [p \in 0 .. n |-> IF p >= n THEN <<>> ELSE <<At(p)>> \o f[After(p)]]
  <2> DEFINE V == Seq(Tokens)
             Stop == {n}
             B == [p \in 0 .. n |-> <<>>]
             G == [p \in 0 .. n |-> [v \in V |-> IF p < n THEN <<At(p)>> \o v ELSE <<>>]]
             next == [p \in 0 .. n |-> IF p < n THEN After(p) ELSE 0]
  <2>1. B \in [0 .. n -> V]
    OBVIOUS
  <2>2. ASSUME NEW p \in 0 .. n, p < n PROVE After(p) \in p + 1 .. n /\ At(p) \in Tokens
    <3>1. p \in 0 .. n - 1
      BY <1>1, <2>2
    <3> QED BY <3>1, AfterIs
  <2>3. G \in [0 .. n -> [V -> V]]
    <3> SUFFICES ASSUME NEW p \in 0 .. n, NEW v \in V
                 PROVE  (IF p < n THEN <<At(p)>> \o v ELSE <<>>) \in V
      OBVIOUS
    <3>1. CASE p < n
      <4>1. <<At(p)>> \in Seq(Tokens)
        BY <2>2, <3>1
      <4>2. <<At(p)>> \o v \in Seq(Tokens)
        BY <4>1, ConcatProperties
      <4> QED BY <3>1, <4>2
    <3>2. CASE ~ (p < n)
      BY <3>2
    <3> QED BY <3>1, <3>2
  <2>4. next \in [0 .. n -> Int]
    <3> SUFFICES ASSUME NEW p \in 0 .. n PROVE (IF p < n THEN After(p) ELSE 0) \in Int
      OBVIOUS
    <3> QED BY <1>1, <2>2
  <2>5. \A p \in (0 .. n) \ Stop : p < n /\ next[p] = After(p) /\ next[p] \in p + 1 .. n
    <3> SUFFICES ASSUME NEW p \in 0 .. n, p \notin Stop
                 PROVE  p < n /\ next[p] = After(p) /\ next[p] \in p + 1 .. n
      OBVIOUS
    <3>1. p < n
      BY <1>1
    <3>2. next[p] = After(p)
      BY <3>1
    <3> HIDE DEF next
    <3> QED BY <2>2, <3>1, <3>2
  <2>6. \A p \in 0 .. n : B[p] = <<>>
    OBVIOUS
  <2>7. \A p \in 0 .. n, v \in V : p < n => G[p][v] = <<At(p)>> \o v
    OBVIOUS
  <2> HIDE DEF B, G, next, V
  <2>8. PICK f \in [0 .. n -> V] : Descends(f, 0, n, Stop, B, G, next)
    <3> HIDE DEF Stop
    <3>1. 0 \in Nat /\ 0 <= n /\ \A p \in (0 .. n) \ Stop : next[p] \in p + 1 .. n
      BY <1>1, <2>5
    <3> QED BY <1>1, <2>1, <2>3, <2>4, <3>1, Descent
  <2>9. ASSUME NEW p \in 0 .. n PROVE f[p] = IF p >= n THEN <<>> ELSE <<At(p)>> \o f[After(p)]
    <3>1. f[p] = IF p \in Stop THEN B[p] ELSE G[p][f[next[p]]]
      BY <2>8 DEF Descends
    <3>2. CASE p >= n
      <4>1. p \in Stop
        BY <1>1, <3>2
      <4> QED BY <2>6, <3>1, <3>2, <4>1
    <3>3. CASE ~ (p >= n)
      <4>1. p \notin Stop /\ p < n
        BY <1>1, <3>3
      <4>2. next[p] = After(p) /\ After(p) \in 0 .. n
        <5>1. \A x : x \in p + 1 .. n => x \in 0 .. n
          BY <1>1
        <5> QED BY <2>5, <4>1, <5>1
      <4>3. f[After(p)] \in V
        BY <4>2
      <4> QED BY <2>7, <3>1, <3>3, <4>1, <4>2, <4>3
    <3> QED BY <3>2, <3>3
  <2>10. f = [p \in 0 .. n |-> f[p]]
    OBVIOUS
  <2>11. f = [p \in 0 .. n |-> IF p >= n THEN <<>> ELSE <<At(p)>> \o f[After(p)]]
    BY <2>9, <2>10
  <2> QED BY <2>11
<1>4. F = [p \in 0 .. n |-> IF p >= n THEN <<>> ELSE <<At(p)>> \o F[After(p)]]
  BY <1>3, Zenon
<1> HIDE DEF F
<1> DEFINE Rest(j) == [k \in 1 .. top - j |-> At(path[j + k - 1])]
           S == {m \in Nat : m <= top => F[path[top - m]] = Rest(top - m)}
<1>5. top \in Nat /\ top <= n
  BY <1>1
<1>6. 0 \in S
  <2>1. n \in 0 .. n /\ n >= n
    BY <1>1
  <2>2. F[n] = <<>>
    BY <1>4, <2>1
  <2>3. top - 0 = top /\ 1 .. top - top = {}
    BY <1>5
  <2>4. Rest(top) = <<>>
    BY <2>3
  <2> HIDE DEF Rest
  <2> QED BY <2>2, <2>3, <2>4
<1>7. ASSUME NEW m \in Nat, m \in S PROVE m + 1 \in S
  <2> DEFINE j == top - (m + 1)
  <2> SUFFICES ASSUME m + 1 <= top PROVE F[path[j]] = Rest(j)
    <3> HIDE DEF Rest
    <3> QED OBVIOUS
  <2>1. j \in 0 .. top - 1 /\ j \in 0 .. n /\ j + 1 = top - m /\ j + 1 \in 0 .. n /\ m <= top /\ j \in Nat
    BY <1>1, <1>5
  <2>2. F[path[j + 1]] = Rest(j + 1)
    <3>1. F[path[top - m]] = Rest(top - m)
      <4> HIDE DEF Rest
      <4> QED BY <1>7, <2>1
    <3> HIDE DEF j, Rest
    <3> QED BY <2>1, <3>1
  <2> HIDE DEF j
  <2>3. path[j] < n /\ path[j] \in 0 .. n /\ path[j + 1] = After(path[j])
    BY <1>1, <2>1, PathMoves
  <2>4. F[path[j]] = <<At(path[j])>> \o Rest(j + 1)
    <3>1. ~ (path[j] >= n)
      BY <1>1, <2>3
    <3> HIDE DEF Rest
    <3> QED BY <1>4, <2>2, <2>3, <3>1
  <2>5. <<At(path[j])>> \o Rest(j + 1) = Rest(j)
    <3>1. Rest(j + 1) \in Seq({At(path[s]) : s \in 0 .. n})
      <4>1. top - (j + 1) \in Nat
        BY <1>5, <2>1
      <4>2. ASSUME NEW k \in 1 .. top - (j + 1) PROVE (j + 1) + k - 1 \in 0 .. n
        BY <1>1, <1>5, <2>1, <4>1
      <4> QED BY <4>1, <4>2
    <3>2. /\ Len(Rest(j + 1)) = top - (j + 1)
          /\ \A k \in 1 .. top - (j + 1) : Rest(j + 1)[k] = At(path[(j + 1) + k - 1])
      BY <1>5, <2>1, <3>1
    <3> DEFINE whole == <<At(path[j])>> \o Rest(j + 1)
    <3>3. \A k \in 1 .. top - j : whole[k] = At(path[j + k - 1])
      <4> SUFFICES ASSUME NEW k \in 1 .. top - j PROVE whole[k] = At(path[j + k - 1])
        OBVIOUS
      <4> HIDE DEF Rest
      <4>1. CASE k = 1
        BY <1>5, <2>1, <3>1, <3>2, <4>1
      <4>2. CASE k # 1
        <5>1. k - 1 \in 1 .. top - (j + 1) /\ (j + 1) + (k - 1) - 1 = j + k - 1
          BY <1>5, <2>1, <4>2
        <5>2. whole[k] = Rest(j + 1)[k - 1]
          BY <1>5, <2>1, <3>1, <3>2, <4>2
        <5> QED BY <3>2, <5>1, <5>2
      <4> QED BY <4>1, <4>2
    <3>4. Len(whole) = top - j /\ whole = [k \in 1 .. Len(whole) |-> whole[k]]
      <4> HIDE DEF Rest
      <4> QED BY <1>5, <2>1, <3>1, <3>2
    <3> HIDE DEF whole
    <3>5. whole = [k \in 1 .. top - j |-> At(path[j + k - 1])]
      BY <3>3, <3>4
    <3> QED BY <3>5 DEF whole
  <2> QED BY <2>4, <2>5
<1> HIDE DEF S
<1>8. F[path[0]] = Rest(0)
  <2>1. top \in S
    BY <1>5, <1>6, <1>7, Induction
  <2>2. F[path[top - top]] = Rest(top - top)
    <3> HIDE DEF Rest
    <3> QED BY <1>5, <2>1 DEF S
  <2>3. top - top = 0
    BY <1>5
  <2> HIDE DEF Rest
  <2> QED BY <2>2, <2>3
<1>9. Rest(0) = [k \in 1 .. top |-> At(path[k - 1])]
  <2>1. top - 0 = top /\ \A k \in 1 .. top : 0 + k - 1 = k - 1
    BY <1>5
  <2> QED BY <2>1
<1> QED BY <1>1, <1>2, <1>8, <1>9

(* The tokens of the block walk are those of the strict greedy walk of the *)
(* whole chunk (walk_block.wgsl:25-27, walk.rs:512-525).                   *)
THEOREM BlocksWalkStrictly == Spec => []BlockWalkIsStrict
<1>1. MatchInv /\ WalkerInv /\ BlockInv => BlockWalkIsStrict
  <2> SUFFICES ASSUME MatchInv, WalkerInv, BlockInv, BlocksWalked
               PROVE  [k \in 1 .. token_off |-> walked[k - 1]] = StrictGreedy
    BY DEF BlockWalkIsStrict
  <2>1. walker = "block" /\ phase = "walk"
    BY DEF BlocksWalked, Chained, WalkerInv
  <2>2. PICK path : IsPath(path) /\ ChainInv(path) /\ LaneInv(path) /\ WalkedInv(path)
    BY <2>1 DEF BlockInv
  <2>3. /\ token_off \in 0 .. n /\ path[token_off] = n
        /\ \A s \in 0 .. token_off - 1 : path[s] < n /\ walked[s] = At(path[s])
    BY <2>1, <2>2, AllEmitted
  <2>4. StrictGreedy = [k \in 1 .. token_off |-> At(path[k - 1])]
    BY <2>1, <2>2, <2>3, GreedyIs
  <2>5. \A k \in 1 .. token_off : walked[k - 1] = At(path[k - 1])
    <3>1. n \in Nat
      BY ChunkTypes DEF MatchInv
    <3> SUFFICES ASSUME NEW k \in 1 .. token_off PROVE k - 1 \in 0 .. token_off - 1
      BY <2>3
    <3> QED BY <2>3, <3>1
  <2> QED BY <2>4, <2>5
<1> QED BY <1>1, BlockInvariant, PTL
=============================================================================
