---------------------------- MODULE FormatProof ----------------------------
(***************************************************************************)
(* The DEFLATE block: the run-length coding of its code lengths, its codes,*)
(* its bits, and what a decoder makes of them.                             *)
(*                                                                         *)
(* Code lengths.  RleReadsBack alone is not inductive: that a push extends *)
(* what is decoded correctly needs that the rest of the run really holds   *)
(* cur, and that 16 repeats cur needs that cur is what was decoded last.   *)
(*                                                                         *)
(* Blocks.  BlockInv says of each phase what its tables are.  A tree over  *)
(* symbols has Kraft sum one (IsTree), and what is built from it or padded *)
(* to two codes is complete; over equal frequencies it is even and so no   *)
(* taller than it must be, which ends the halving.  The code of the code   *)
(* lengths is never the one with a single symbol, which nothing would pad: *)
(* complete literals of one length would be a power of two in number, and  *)
(* they are 257 to 286.  The writers agree because every piece they write  *)
(* fits its bits (BitPieces), so that masking and the order of the ORs do  *)
(* not matter, and because the three forms of the tables are one function; *)
(* and the lengths of what is written add up.                              *)
(*                                                                         *)
(* Decoding.  A write changes none of the bits before it, so every piece   *)
(* is found where it was put (At).  Codes given out in canonical order     *)
(* cut the numbers of fifteen bits into stretches, one per symbol and side *)
(* by side (Stretches); the decoder takes the next fifteen bits for such a *)
(* number, finds the one stretch it lies in, and gets the symbol and the   *)
(* length that were written (Table).  The tables of the header are those   *)
(* of the body because the entries of its code lengths stand, one after    *)
(* the other, for all of them (History).  ReadBackInv adds to BlockInv     *)
(* that every symbol written has been counted, so that it has a code.      *)
(***************************************************************************)
EXTENDS DeflateBlock, FiniteSetTheorems, SequenceTheorems, DataInduction, TLAPS

Inside == rlepc \in {"zeros", "value", "repeats"}

RleTypeOK ==
  /\ lens \in Seq(0 .. 15)
  /\ i \in 0 .. Len(lens)
  /\ run \in Nat
  /\ cur \in 0 .. 15
  /\ decoded \in Seq(0 .. 15)
  /\ rle \in Seq([code : 0 .. 18, extra_bits : Nat, extra_value : Int])
  /\ rlepc \in {"scan", "zeros", "value", "repeats", "done"}

(* decoded is what is covered, element by element.                         *)
Covered ==
  /\ Len(decoded) = i
  /\ \A k \in 1 .. i : decoded[k] = lens[k]

(* What is left of the run is inside lens and holds cur.                   *)
RunHolds ==
  Inside => /\ i + run <= Len(lens)
            /\ \A k \in i + 1 .. i + run : lens[k] = cur

AtRepeats ==
  /\ rlepc = "zeros" => cur = 0
  /\ rlepc = "value" => run >= 1
  /\ rlepc = "repeats" => i >= 1 /\ lens[i] = cur
  /\ rlepc = "done" => i = Len(lens)

RleInv == RleTypeOK /\ Covered /\ RunHolds /\ AtRepeats /\ EntriesFit
-----------------------------------------------------------------------------
(* One push of an entry that stands for n times cur, n of what is left of  *)
(* the run, keeps what is decoded equal to what is covered.                *)
LEMMA PushKeeps ==
  ASSUME RleInv, Inside,
         NEW e \in [code : 0 .. 18, extra_bits : Nat, extra_value : Int],
         NEW n \in 1 .. run, Push(e, n),
         Meaning(e, decoded) = Repeat(cur, n),
         EntryFits(e)
  PROVE  /\ i' = i + n /\ run' = run - n /\ lens' = lens /\ cur' = cur
         /\ i' \in 0 .. Len(lens) /\ run' \in Nat
         /\ rle' \in Seq([code : 0 .. 18, extra_bits : Nat, extra_value : Int])
         /\ decoded' \in Seq(0 .. 15)
         /\ Covered' /\ EntriesFit'
         /\ i' + run' <= Len(lens)
         /\ \A k \in i' + 1 .. i' + run' : lens[k] = cur
         /\ lens[i'] = cur
<1> DEFINE more == Repeat(cur, n)
<1>1. /\ i' = i + n /\ run' = run - n /\ lens' = lens /\ cur' = cur
      /\ rle' = Append(rle, e) /\ decoded' = decoded \o more
  BY DEF Push
<1>2. /\ lens \in Seq(0 .. 15) /\ i \in 0 .. Len(lens) /\ run \in Nat /\ cur \in 0 .. 15
      /\ decoded \in Seq(0 .. 15) /\ i + run <= Len(lens)
      /\ \A k \in i + 1 .. i + run : lens[k] = cur
  BY DEF RleInv, RleTypeOK, RunHolds
<1>3. /\ more \in Seq(0 .. 15) /\ Len(more) = n
      /\ \A k \in 1 .. n : more[k] = cur
  BY <1>2 DEF Repeat
<1>4. /\ i' \in 0 .. Len(lens) /\ run' \in Nat /\ i' + run' <= Len(lens)
      /\ \A k \in i' + 1 .. i' + run' : lens[k] = cur
      /\ lens[i'] = cur
  BY <1>1, <1>2
<1>5. rle' \in Seq([code : 0 .. 18, extra_bits : Nat, extra_value : Int])
  BY <1>1 DEF RleInv, RleTypeOK
<1>6. EntriesFit'
  <2>1. rle \in Seq([code : 0 .. 18, extra_bits : Nat, extra_value : Int]) /\ EntriesFit
    BY DEF RleInv, RleTypeOK
  <2>2. ASSUME NEW k \in DOMAIN rle' PROVE EntryFits(rle'[k])
    <3>1. CASE k \in DOMAIN rle
      BY <1>1, <2>1, <3>1 DEF EntriesFit
    <3>2. CASE k = Len(rle) + 1
      BY <1>1, <2>1, <3>2
    <3> QED BY <1>1, <2>1, <2>2, <3>1, <3>2
  <2> QED BY <2>2 DEF EntriesFit
<1>7. decoded' \in Seq(0 .. 15) /\ Len(decoded') = i + n
  <2>1. Len(decoded) = i
    BY DEF RleInv, Covered
  <2> HIDE DEF more
  <2>2. decoded \o more \in Seq(0 .. 15) /\ Len(decoded \o more) = Len(decoded) + Len(more)
    BY <1>2, <1>3, ConcatProperties
  <2> QED BY <1>1, <1>3, <2>1, <2>2
<1>8. ASSUME NEW k \in 1 .. i + n PROVE decoded'[k] = lens[k]
  <2>0. Len(decoded) = i /\ (\A j \in 1 .. i : decoded[j] = lens[j])
    BY DEF RleInv, Covered
  <2>1. CASE k <= i
    BY <1>1, <1>2, <1>3, <2>0, <2>1
  <2>2. CASE k > i
    <3>1. decoded'[k] = more[k - i]
      BY <1>1, <1>2, <1>3, <2>0, <2>2
    <3> QED BY <1>2, <1>3, <2>2, <3>1
  <2> QED BY <2>1, <2>2, <1>2
<1>9. Covered'
  BY <1>1, <1>7, <1>8 DEF Covered
<1> QED BY <1>1, <1>4, <1>5, <1>6, <1>7, <1>9

(* The outer loop finds a run that holds one value to its end.             *)
LEMMA ScanFinds ==
  ASSUME RleInv, ScanRun
  PROVE  RleInv'
<1>1. /\ lens \in Seq(0 .. 15) /\ i \in 0 .. Len(lens) /\ i < Len(lens)
      /\ cur' = lens[i + 1] /\ UNCHANGED <<lens, i, rle, decoded>>
      /\ rlepc' = IF lens[i + 1] = 0 THEN "zeros" ELSE "value"
  BY DEF RleInv, RleTypeOK, ScanRun
<1>2. PICK n \in 1 .. Len(lens) - i : IsRun(n) /\ run' = n
  BY DEF ScanRun
<1>3. RleTypeOK'
  <2>1. cur' \in 0 .. 15
    BY <1>1
  <2>2. run' \in Nat
    BY <1>1, <1>2
  <2>3. rlepc' \in {"scan", "zeros", "value", "repeats", "done"}
    BY <1>1
  <2> QED BY <1>1, <2>1, <2>2, <2>3 DEF RleInv, RleTypeOK
<1>4. Covered' /\ EntriesFit'
  BY <1>1 DEF RleInv, Covered, EntriesFit
<1>5. ASSUME NEW k \in i + 1 .. i + n PROVE lens[k] = cur'
  <2>1. k - i \in 1 .. n /\ i + (k - i) = k
    BY <1>1, <1>2
  <2>2. lens[i + (k - i)] = lens[i + 1]
    BY <1>2, <2>1 DEF IsRun
  <2> QED BY <1>1, <2>1, <2>2
<1>6. RunHolds'
  BY <1>1, <1>2, <1>5 DEF RunHolds
<1>7. AtRepeats'
  BY <1>1, <1>2 DEF AtRepeats
<1> QED BY <1>3, <1>4, <1>6, <1>7 DEF RleInv

(* Zeros: each of the three entries stands for that many zeros.            *)
LEMMA ZerosKeep ==
  ASSUME RleInv, PushZeros
  PROVE  RleInv'
<1> DEFINE Kept(e, n) == /\ e \in [code : 0 .. 18, extra_bits : Nat, extra_value : Int]
                         /\ n \in 1 .. run /\ Push(e, n)
                         /\ Meaning(e, decoded) = Repeat(cur, n)
                         /\ EntryFits(e)
<1>1. rlepc = "zeros" /\ run > 0 /\ run \in Nat /\ cur = 0 /\ rlepc' = "zeros" /\ Inside
  BY DEF PushZeros, RleInv, RleTypeOK, AtRepeats, Inside
<1>2. \E e, n : Kept(e, n)
  <2>1. CASE LongZeros(run)
    <3>1. PICK m \in 11 .. 138 : m = Lesser(run, 138) /\ m <= run
      BY <1>1, <2>1 DEF LongZeros, Lesser
    <3>2. Push(Entry(18, 7, m - 11), m)
      BY <1>1, <2>1, <3>1 DEF PushZeros, LongZeros
    <3>3. Meaning(Entry(18, 7, m - 11), decoded) = Repeat(0, m)
      BY <3>1 DEF Meaning, Entry
    <3>4. Entry(18, 7, m - 11) \in [code : 0 .. 18, extra_bits : Nat, extra_value : Int] /\ EntryFits(Entry(18, 7, m - 11))
      BY <3>1 DEF Entry, EntryFits
    <3>5. Kept(Entry(18, 7, m - 11), m)
      BY <1>1, <3>1, <3>2, <3>3, <3>4
    <3> QED BY <3>5
  <2>2. CASE ~ LongZeros(run) /\ run >= 3
    <3>1. PICK m \in 3 .. 10 : m = Lesser(run, 10) /\ m <= run
      BY <1>1, <2>2 DEF LongZeros, Lesser
    <3>2. Push(Entry(17, 3, m - 3), m)
      BY <1>1, <2>2, <3>1 DEF PushZeros, LongZeros
    <3>3. Meaning(Entry(17, 3, m - 3), decoded) = Repeat(0, m)
      BY <3>1 DEF Meaning, Entry
    <3>4. Entry(17, 3, m - 3) \in [code : 0 .. 18, extra_bits : Nat, extra_value : Int] /\ EntryFits(Entry(17, 3, m - 3))
      BY <3>1 DEF Entry, EntryFits
    <3>5. Kept(Entry(17, 3, m - 3), m)
      BY <1>1, <3>1, <3>2, <3>3, <3>4
    <3> QED BY <3>5
  <2>3. CASE run < 3
    <3>1. Push(Entry(0, 0, 0), 1)
      BY <1>1, <2>3 DEF PushZeros, LongZeros
    <3>2. Meaning(Entry(0, 0, 0), decoded) = Repeat(0, 1)
      BY DEF Meaning, Entry, Repeat
    <3> QED BY <1>1, <3>1, <3>2 DEF Entry, EntryFits
  <2> QED BY <1>1, <2>1, <2>2, <2>3 DEF LongZeros
<1>3. PICK e \in [code : 0 .. 18, extra_bits : Nat, extra_value : Int], n \in 1 .. run : Kept(e, n)
  BY <1>2
<1>4. /\ i' \in 0 .. Len(lens) /\ run' \in Nat /\ lens' = lens /\ cur' = cur
      /\ rle' \in Seq([code : 0 .. 18, extra_bits : Nat, extra_value : Int])
      /\ decoded' \in Seq(0 .. 15) /\ Covered' /\ EntriesFit'
      /\ i' + run' <= Len(lens)
      /\ \A k \in i' + 1 .. i' + run' : lens[k] = cur
  BY <1>1, <1>3, PushKeeps
<1> QED BY <1>1, <1>4 DEF RleInv, RleTypeOK, RunHolds, AtRepeats

(* A code length below 16 stands for itself.                               *)
LEMMA OneMeans ==
  ASSUME cur \in 0 .. 15
  PROVE  Meaning(Entry(cur, 0, 0), decoded) = Repeat(cur, 1)
<1>1. Entry(cur, 0, 0).code = cur
  BY DEF Entry
<1>2. Meaning(Entry(cur, 0, 0), decoded) = <<cur>>
  BY <1>1 DEF Meaning
<1>3. <<cur>> = [k \in 1 .. 1 |-> cur]
  OBVIOUS
<1> QED BY <1>2, <1>3 DEF Repeat

(* The value itself, once.                                                 *)
LEMMA ValueKeeps ==
  ASSUME RleInv, PushValue
  PROVE  RleInv'
<1>1. /\ rlepc = "value" /\ run >= 1 /\ run \in Nat /\ cur \in 0 .. 15 /\ Inside
      /\ rlepc' = "repeats" /\ Push(Entry(cur, 0, 0), 1)
  BY DEF PushValue, RleInv, RleTypeOK, AtRepeats, Inside
<1>2. Meaning(Entry(cur, 0, 0), decoded) = Repeat(cur, 1)
  BY <1>1, OneMeans
<1>3. Entry(cur, 0, 0) \in [code : 0 .. 18, extra_bits : Nat, extra_value : Int] /\ EntryFits(Entry(cur, 0, 0))
  BY <1>1 DEF Entry, EntryFits
<1>4. /\ i' = i + 1 /\ i' \in 0 .. Len(lens) /\ run' \in Nat /\ lens' = lens /\ cur' = cur
      /\ rle' \in Seq([code : 0 .. 18, extra_bits : Nat, extra_value : Int])
      /\ decoded' \in Seq(0 .. 15) /\ Covered' /\ EntriesFit'
      /\ i' + run' <= Len(lens)
      /\ \A k \in i' + 1 .. i' + run' : lens[k] = cur
      /\ lens[i'] = cur
  BY <1>1, <1>2, <1>3, PushKeeps
<1>5. i \in Nat
  BY DEF RleInv, RleTypeOK
<1>6. RleTypeOK'
  BY <1>1, <1>4 DEF RleInv, RleTypeOK
<1>7. RunHolds'
  BY <1>4 DEF RunHolds
<1>8. AtRepeats'
  BY <1>1, <1>4, <1>5 DEF AtRepeats
<1> QED BY <1>4, <1>6, <1>7, <1>8 DEF RleInv

(* Repeats of the value pushed last.                                       *)
LEMMA RepeatsKeep ==
  ASSUME RleInv, PushRepeats
  PROVE  RleInv'
<1> DEFINE Kept(e, n) == /\ e \in [code : 0 .. 18, extra_bits : Nat, extra_value : Int]
                         /\ n \in 1 .. run /\ Push(e, n)
                         /\ Meaning(e, decoded) = Repeat(cur, n)
                         /\ EntryFits(e)
<1>1. /\ rlepc = "repeats" /\ run > 0 /\ run \in Nat /\ cur \in 0 .. 15 /\ rlepc' = "repeats" /\ Inside
      /\ decoded[Len(decoded)] = cur /\ i \in 1 .. Len(lens)
  BY DEF PushRepeats, RleInv, RleTypeOK, AtRepeats, Inside, Covered
<1>2. \E e, n : Kept(e, n)
  <2>1. CASE run >= 3
    <3>1. PICK m \in 3 .. 6 : m = Lesser(run, 6) /\ m <= run
      BY <1>1, <2>1 DEF Lesser
    <3>2. Push(Entry(16, 2, m - 3), m)
      BY <1>1, <2>1, <3>1 DEF PushRepeats
    <3>3. Meaning(Entry(16, 2, m - 3), decoded) = Repeat(cur, m)
      BY <1>1, <3>1 DEF Meaning, Entry
    <3>4. Entry(16, 2, m - 3) \in [code : 0 .. 18, extra_bits : Nat, extra_value : Int] /\ EntryFits(Entry(16, 2, m - 3))
      BY <3>1 DEF Entry, EntryFits
    <3>5. Kept(Entry(16, 2, m - 3), m)
      BY <1>1, <3>1, <3>2, <3>3, <3>4
    <3> QED BY <3>5
  <2>2. CASE run < 3
    <3>1. Push(Entry(cur, 0, 0), 1)
      BY <1>1, <2>2 DEF PushRepeats
    <3>2. Meaning(Entry(cur, 0, 0), decoded) = Repeat(cur, 1)
      BY <1>1, OneMeans
    <3>3. Entry(cur, 0, 0) \in [code : 0 .. 18, extra_bits : Nat, extra_value : Int] /\ EntryFits(Entry(cur, 0, 0))
      BY <1>1 DEF Entry, EntryFits
    <3>4. Kept(Entry(cur, 0, 0), 1)
      BY <1>1, <3>1, <3>2, <3>3
    <3> QED BY <3>4
  <2> QED BY <1>1, <2>1, <2>2
<1>3. PICK e \in [code : 0 .. 18, extra_bits : Nat, extra_value : Int], n \in 1 .. run : Kept(e, n)
  BY <1>2
<1>4. /\ i' = i + n /\ i' \in 0 .. Len(lens) /\ run' \in Nat /\ lens' = lens /\ cur' = cur
      /\ rle' \in Seq([code : 0 .. 18, extra_bits : Nat, extra_value : Int])
      /\ decoded' \in Seq(0 .. 15) /\ Covered' /\ EntriesFit'
      /\ i' + run' <= Len(lens)
      /\ \A k \in i' + 1 .. i' + run' : lens[k] = cur
      /\ lens[i'] = cur
  BY <1>1, <1>3, PushKeeps
<1>5. RleTypeOK'
  BY <1>1, <1>4 DEF RleInv, RleTypeOK
<1>6. RunHolds'
  BY <1>4 DEF RunHolds
<1>7. AtRepeats'
  BY <1>1, <1>3, <1>4 DEF AtRepeats
<1> QED BY <1>4, <1>5, <1>6, <1>7 DEF RleInv
-----------------------------------------------------------------------------
LEMMA RleInvInit == RleInit /\ lens \in Seq(0 .. 15) => RleInv
  BY DEF RleInit, RleInv, RleTypeOK, Covered, RunHolds, AtRepeats, Inside, EntriesFit

LEMMA RleInvNext == RleInv /\ [RleNext]_rlevars => RleInv'
<1> SUFFICES ASSUME RleInv, [RleNext]_rlevars
             PROVE  RleInv'
  OBVIOUS
<1>1. CASE ScanRun
  BY <1>1, ScanFinds
<1>2. CASE ScanEnds
  BY <1>2 DEF ScanEnds, RleInv, RleTypeOK, Covered, RunHolds, AtRepeats, Inside, EntriesFit
<1>3. CASE PushZeros
  BY <1>3, ZerosKeep
<1>4. CASE PushValue
  BY <1>4, ValueKeeps
<1>5. CASE PushRepeats
  BY <1>5, RepeatsKeep
<1>6. CASE RunEnds
  BY <1>6 DEF RunEnds, RleInv, RleTypeOK, Covered, RunHolds, AtRepeats, Inside, EntriesFit
<1>7. CASE UNCHANGED rlevars
  BY <1>7 DEF rlevars, RleInv, RleTypeOK, Covered, RunHolds, AtRepeats, Inside, EntriesFit
<1> QED BY <1>1, <1>2, <1>3, <1>4, <1>5, <1>6, <1>7 DEF RleNext

LEMMA RleInvReads == RleInv => RleReadsBack
<1> SUFFICES ASSUME RleInv PROVE RleReadsBack
  OBVIOUS
<1>1. /\ lens \in Seq(0 .. 15) /\ i \in 0 .. Len(lens) /\ decoded \in Seq(0 .. 15)
      /\ Len(decoded) = i /\ \A k \in 1 .. i : decoded[k] = lens[k]
      /\ rlepc = "done" => i = Len(lens)
  BY DEF RleInv, RleTypeOK, Covered, AtRepeats
<1>2. decoded = SubSeq(lens, 1, i)
  BY <1>1
<1>3. ASSUME rlepc = "done" PROVE decoded = lens
  BY <1>1, <1>3, SeqEqual
<1> QED BY <1>2, <1>3 DEF RleReadsBack

(* The entries of a header decode to the code lengths they stand for, at   *)
(* every push and for every table (rle_encode_lengths).                    *)
THEOREM RleIsLossless == RleSpec => []RleReadsBack
  BY RleInvInit, RleInvNext, RleInvReads, PTL DEF RleSpec

(* No entry overflows the bits that are written for its extra value.       *)
THEOREM RleEntriesFit == RleSpec => []EntriesFit
<1>1. RleInv => EntriesFit
  BY DEF RleInv
<1> QED BY <1>1, RleInvInit, RleInvNext, PTL DEF RleSpec
-----------------------------------------------------------------------------
(* Nodes of the tree.                                                      *)
AnyLeaf == [sym : Nat, depth : Nat]
AnyNode == [weight : Nat, id : Nat, leaves : SUBSET AnyLeaf]

Distinct(heap) == \A a, b \in heap : a.id = b.id => a = b

LEMMA SmallestIs ==
  ASSUME NEW heap \in SUBSET AnyNode, heap # {}, Distinct(heap)
  PROVE  Smallest(heap) \in heap /\ \A b \in heap \ {Smallest(heap)} : Lighter(Smallest(heap), b)
<1> DEFINE W == {a.weight : a \in heap}
<1>1. \A a \in heap : a.weight \in Nat /\ a.id \in Nat
  BY DEF AnyNode
<1>2. W \in SUBSET Nat /\ W # {}
  BY <1>1
<1>3. PICK w \in W : \A y \in W : w <= y
  <2> HIDE DEF W
  <2> QED BY <1>2, Least
<1> DEFINE I == {a.id : a \in {x \in heap : x.weight = w}}
<1>4. I \in SUBSET Nat /\ I # {}
  BY <1>1
<1>5. PICK j \in I : \A y \in I : j <= y
  <2> HIDE DEF I
  <2> QED BY <1>4, Least
<1>6. PICK a \in heap : a.weight = w /\ a.id = j
  OBVIOUS
<1>7. ASSUME NEW b \in heap \ {a} PROVE Lighter(a, b)
  <2>1. w <= b.weight /\ b.weight \in Nat /\ w \in Nat /\ b.id \in Nat /\ j \in Nat
    BY <1>1, <1>2, <1>3, <1>4
  <2>2. CASE b.weight = w
    <3>1. b.id \in I
      BY <2>2
    <3>2. b.id # a.id
      BY <1>6, <1>7 DEF Distinct
    <3>3. j <= b.id /\ j # b.id
      BY <1>5, <1>6, <3>1, <3>2
    <3> QED BY <1>6, <2>1, <2>2, <3>3 DEF Lighter
  <2>3. CASE b.weight # w
    BY <1>6, <2>1, <2>3 DEF Lighter
  <2> QED BY <2>2, <2>3
<1> HIDE DEF W, I
<1> QED BY <1>6, <1>7 DEF Smallest

CountOf(L, k) == Cardinality({l \in L : l.depth = k})

(* The part of the strings of length d a set of leaves uses.               *)
Shares(L, d) == [k \in 0 .. d |-> CountOf(L, k) * Pow[d - k]]
Share(L, d) == Sums(Shares(L, d), d)[d]

Symbols(node) == {l.sym : l \in node.leaves}

(* A tree: a leaf on its own, or leaves that use every string.             *)
IsTree(node) ==
  /\ node \in AnyNode
  /\ IsFiniteSet(node.leaves) /\ node.leaves # {}
  /\ \A l, m \in node.leaves : l.sym = m.sym => l = m
  /\ \A l \in node.leaves : l.depth = 0 => node.leaves = {l}
  /\ \A d \in 0 .. 15 : (\A l \in node.leaves : l.depth <= d) => Share(node.leaves, d) = Pow[d]

LEMMA PowIn == ASSUME NEW d \in 0 .. 15, NEW k \in 0 .. d PROVE Pow[d - k] \in Nat
<1>1. d - k \in 0 .. 16
  OBVIOUS
<1> QED BY <1>1, Powers

LEMMA SharesAre ==
  ASSUME NEW L \in SUBSET AnyLeaf, IsFiniteSet(L), NEW d \in 0 .. 15
  PROVE  /\ \A k \in 0 .. d : CountOf(L, k) \in Nat
         /\ Shares(L, d) \in [0 .. d -> Nat]
         /\ \A k \in 0 .. d : Shares(L, d)[k] = CountOf(L, k) * Pow[d - k]
<1>1. ASSUME NEW k \in 0 .. d PROVE CountOf(L, k) \in Nat /\ CountOf(L, k) * Pow[d - k] \in Nat
  <2>1. IsFiniteSet({l \in L : l.depth = k})
    BY FS_Subset
  <2>2. CountOf(L, k) \in Nat
    BY <2>1, FS_CardinalityType DEF CountOf
  <2>3. Pow[d - k] \in Nat
    BY PowIn
  <2> QED BY <2>2, <2>3, ProductNat
<1> QED BY <1>1 DEF Shares

LEMMA LeafIsTree ==
  ASSUME NEW s \in Nat, NEW w \in Nat
  PROVE  IsTree(Leaf(s, w)) /\ Symbols(Leaf(s, w)) = {s}
<1> DEFINE l == [sym |-> s, depth |-> 0]
           node == Leaf(s, w)
<1>1. node.leaves = {l} /\ node \in AnyNode /\ l \in AnyLeaf
  BY DEF Leaf, AnyNode, AnyLeaf
<1>2. IsFiniteSet({l}) /\ Cardinality({l}) = 1
  BY FS_Singleton
<1>3. ASSUME NEW d \in 0 .. 15 PROVE Share({l}, d) = Pow[d]
  <2>1. {x \in {l} : x.depth = 0} = {l}
    OBVIOUS
  <2>2. CountOf({l}, 0) = 1
    BY <1>2, <2>1 DEF CountOf
  <2>3. ASSUME NEW k \in 1 .. d PROVE CountOf({l}, k) = 0
    <3>1. {x \in {l} : x.depth = k} = {}
      OBVIOUS
    <3> QED BY <3>1, FS_EmptySet DEF CountOf
  <2> HIDE DEF l
  <2>4. {l} \in SUBSET AnyLeaf
    BY <1>1
  <2>5. Shares({l}, d) \in [0 .. d -> Nat] /\ \A k \in 0 .. d : Shares({l}, d)[k] = CountOf({l}, k) * Pow[d - k]
    BY <1>2, <2>4, SharesAre
  <2>6. 0 \in 0 .. d /\ d - 0 = d /\ Pow[d] \in Nat
    BY Powers
  <2>7. Shares({l}, d)[0] = Pow[d]
    <3>1. Shares({l}, d)[0] = CountOf({l}, 0) * Pow[d - 0]
      BY <2>5, <2>6
    <3> QED BY <2>2, <2>6, <3>1
  <2>8. \A k \in 0 .. d : k # 0 => Shares({l}, d)[k] = 0
    <3> TAKE k \in 0 .. d
    <3>1. Pow[d - k] \in Nat
      BY PowIn
    <3>2. Shares({l}, d)[k] = CountOf({l}, k) * Pow[d - k]
      BY <2>5
    <3>3. k # 0 => CountOf({l}, k) = 0
      BY <2>3
    <3>4. k # 0 => Shares({l}, d)[k] = 0 * Pow[d - k]
      BY <3>2, <3>3
    <3> QED BY <3>1, <3>4
  <2> DEFINE t == Shares({l}, d)
  <2> HIDE DEF t
  <2>9. Sums(t, d)[d] = t[0]
    <3>1. t \in [0 .. d -> Nat] /\ \A k \in 0 .. d : k # 0 => t[k] = 0
      BY <2>5, <2>8 DEF t
    <3>2. d \in Nat
      OBVIOUS
    <3> QED BY <2>6, <3>1, <3>2, SumOfOne
  <2> QED BY <2>7, <2>9 DEF t, Share
<1> HIDE DEF l
<1> QED BY <1>1, <1>2, <1>3 DEF IsTree, Symbols, l

(* One level further down.                                                 *)
Deeper(L) == {[sym |-> l.sym, depth |-> l.depth + 1] : l \in L}

LEMMA DeeperIs ==
  ASSUME NEW L \in SUBSET AnyLeaf, IsFiniteSet(L)
  PROVE  Deeper(L) \in SUBSET AnyLeaf /\ IsFiniteSet(Deeper(L)) /\ Cardinality(Deeper(L)) = Cardinality(L)
<1> DEFINE f == [l \in L |-> [sym |-> l.sym, depth |-> l.depth + 1]]
<1>1. \A l \in L : l = [sym |-> l.sym, depth |-> l.depth] /\ l.sym \in Nat /\ l.depth \in Nat
  BY DEF AnyLeaf
<1>2. \A l \in L, m \in L : f[l] = f[m] => l = m
  <2> TAKE l \in L, m \in L
  <2> HAVE f[l] = f[m]
  <2>1. f[l].sym = l.sym /\ f[l].depth = l.depth + 1 /\ f[m].sym = m.sym /\ f[m].depth = m.depth + 1
    OBVIOUS
  <2>2. l.sym = m.sym /\ l.depth + 1 = m.depth + 1
    <3> HIDE DEF f
    <3> QED BY <2>1
  <2>3. l.depth = m.depth
    BY <1>1, <2>2
  <2> QED BY <1>1, <2>2, <2>3
<1>3. f \in [L -> Deeper(L)] /\ \A x \in Deeper(L) : \E l \in L : f[l] = x
  BY DEF Deeper
<1> HIDE DEF f
<1>4. f \in Bijection(L, Deeper(L))
  BY <1>2, <1>3 DEF Bijection, Injection, Surjection, IsInjective
<1>5. ExistsBijection(L, Deeper(L))
  BY <1>4 DEF ExistsBijection
<1>6. Deeper(L) \in SUBSET AnyLeaf
  BY <1>1 DEF Deeper, AnyLeaf
<1> QED BY <1>5, <1>6, FS_Bijection

LEMMA DeeperCounts ==
  ASSUME NEW L \in SUBSET AnyLeaf, IsFiniteSet(L), NEW k \in Nat
  PROVE  CountOf(Deeper(L), 0) = 0 /\ CountOf(Deeper(L), k + 1) = CountOf(L, k)
<1>1. \A l \in L : l.depth \in Nat
  BY DEF AnyLeaf
<1>2. {x \in Deeper(L) : x.depth = 0} = {}
  BY <1>1 DEF Deeper
<1> DEFINE M == {l \in L : l.depth = k}
<1>3. {x \in Deeper(L) : x.depth = k + 1} = Deeper(M)
  <2>1. ASSUME NEW x \in Deeper(L), x.depth = k + 1 PROVE x \in Deeper(M)
    <3>1. PICK l \in L : x = [sym |-> l.sym, depth |-> l.depth + 1]
      BY DEF Deeper
    <3>2. l.depth = k
      BY <1>1, <2>1, <3>1
    <3> QED BY <3>1, <3>2 DEF Deeper
  <2>2. ASSUME NEW x \in Deeper(M) PROVE x \in Deeper(L) /\ x.depth = k + 1
    BY DEF Deeper
  <2> HIDE DEF M
  <2> QED BY <2>1, <2>2
<1>4. M \in SUBSET AnyLeaf /\ IsFiniteSet(M)
  BY FS_Subset
<1> HIDE DEF M
<1>5. Cardinality(Deeper(M)) = Cardinality(M)
  BY <1>4, DeeperIs
<1>6. CountOf(L, k) = Cardinality(M)
  BY DEF CountOf, M
<1> QED BY <1>2, <1>3, <1>5, <1>6, FS_EmptySet DEF CountOf

(* Two sets of leaves one level down use half of what both use.            *)
LEMMA DeeperShares ==
  ASSUME NEW A \in SUBSET AnyLeaf, IsFiniteSet(A), NEW B \in SUBSET AnyLeaf, IsFiniteSet(B),
         A \cap B = {}, NEW d \in 0 .. 14
  PROVE  Share(Deeper(A \cup B), d + 1) = Share(A, d) + Share(B, d)
<1> DEFINE U == A \cup B
<1>1. U \in SUBSET AnyLeaf /\ IsFiniteSet(U)
  BY FS_Union
<1>2. ASSUME NEW k \in 0 .. d PROVE CountOf(U, k) = CountOf(A, k) + CountOf(B, k)
  <2> DEFINE X == {l \in A : l.depth = k}
             Y == {l \in B : l.depth = k}
  <2>1. IsFiniteSet(X) /\ IsFiniteSet(Y) /\ X \cap Y = {}
    BY FS_Subset
  <2>2. {l \in U : l.depth = k} = X \cup Y
    OBVIOUS
  <2> HIDE DEF X, Y
  <2>3. Cardinality(X \cup Y) = Cardinality(X) + Cardinality(Y) - Cardinality(X \cap Y)
    BY <2>1, FS_Union
  <2>4. Cardinality(X \cap Y) = 0 /\ Cardinality(X) \in Nat /\ Cardinality(Y) \in Nat
    BY <2>1, FS_EmptySet, FS_CardinalityType
  <2>5. Cardinality(X \cup Y) = Cardinality(X) + Cardinality(Y)
    BY <2>3, <2>4
  <2> QED BY <2>2, <2>5 DEF CountOf, X, Y
<1> HIDE DEF U
<1> DEFINE e == d + 1
           D == Deeper(U)
<1>3. e \in 0 .. 15 /\ d \in 0 .. 15 /\ d \in Nat /\ 0 .. e = 0 .. d + 1 /\ D \in SUBSET AnyLeaf /\ IsFiniteSet(D)
  BY <1>1, DeeperIs
<1> DEFINE t == Shares(D, e)
           u == Shares(U, d)
           v == Shares(A, d)
           w == Shares(B, d)
<1>4. /\ \A k \in 0 .. e : CountOf(D, k) \in Nat
      /\ t \in [0 .. e -> Nat] /\ \A k \in 0 .. e : t[k] = CountOf(D, k) * Pow[e - k]
  <2> HIDE DEF e, D
  <2> QED BY <1>3, SharesAre
<1>5. /\ \A k \in 0 .. d : CountOf(A, k) \in Nat /\ CountOf(B, k) \in Nat
      /\ u \in [0 .. d -> Nat] /\ v \in [0 .. d -> Nat] /\ w \in [0 .. d -> Nat]
      /\ \A k \in 0 .. d : /\ u[k] = CountOf(U, k) * Pow[d - k]
                           /\ v[k] = CountOf(A, k) * Pow[d - k]
                           /\ w[k] = CountOf(B, k) * Pow[d - k]
  BY <1>1, <1>3, SharesAre
<1>6. t[0] = 0
  <2>1. CountOf(D, 0) = 0
    BY <1>1, DeeperCounts
  <2>2. 0 \in 0 .. e /\ e - 0 = e /\ Pow[e] \in Nat
    BY <1>3, Powers
  <2>3. t[0] = CountOf(D, 0) * Pow[e - 0]
    BY <1>4, <2>2
  <2> QED BY <2>1, <2>2, <2>3
<1>7. ASSUME NEW k \in 0 .. d PROVE t[k + 1] = u[k] /\ u[k] = v[k] + w[k]
  <2>1. k + 1 \in 0 .. e /\ e - (k + 1) = d - k /\ k \in Nat
    OBVIOUS
  <2>2. CountOf(D, k + 1) = CountOf(U, k)
    BY <1>1, <2>1, DeeperCounts
  <2>3. t[k + 1] = CountOf(U, k) * Pow[d - k]
    <3>1. t[k + 1] = CountOf(D, k + 1) * Pow[e - (k + 1)]
      <4> HIDE DEF e, t
      <4> QED BY <1>4, <2>1
    <3> QED BY <2>1, <2>2, <3>1
  <2>4. Pow[d - k] \in Nat
    BY <1>3, PowIn
  <2> DEFINE x == CountOf(A, k)
             y == CountOf(B, k)
             p == Pow[d - k]
  <2>5. x \in Nat /\ y \in Nat /\ p \in Nat /\ CountOf(U, k) = x + y
    BY <1>2, <1>5, <2>4
  <2> HIDE DEF x, y, p
  <2>6. (x + y) * p = x * p + y * p
    BY <2>5, Distributes
  <2>7. u[k] = CountOf(U, k) * p /\ v[k] = x * p /\ w[k] = y * p
    <3> HIDE DEF u, v, w
    <3> QED BY <1>5 DEF x, y, p
  <2> HIDE DEF t, u, v, w
  <2>8. t[k + 1] = u[k]
    BY <2>3, <2>7 DEF p
  <2> QED BY <2>5, <2>6, <2>7, <2>8
<1> HIDE DEF t, u, v, w
<1>8. Sums(t, d + 1)[d + 1] = Sums(u, d)[d]
  <2>1. t \in [0 .. d + 1 -> Nat]
    BY <1>4
  <2> QED BY <1>3, <1>5, <1>6, <1>7, <2>1, SumsShift, ZenonT(60)
<1>9. Sums(u, d)[d] = Sums(v, d)[d] + Sums(w, d)[d]
  BY <1>3, <1>5, <1>7, SumsAdd, ZenonT(60)
<1> QED BY <1>8, <1>9 DEF Share, t, u, v, w, e, D, U

LEMMA JoinedIsTree ==
  ASSUME NEW a, NEW b, IsTree(a), IsTree(b), Symbols(a) \cap Symbols(b) = {}, NEW id \in Nat
  PROVE  IsTree(Joined(a, b, id)) /\ Symbols(Joined(a, b, id)) = Symbols(a) \cup Symbols(b)
<1> DEFINE A == a.leaves
           B == b.leaves
           U == A \cup B
           J == Joined(a, b, id)
<1>1. /\ A \in SUBSET AnyLeaf /\ B \in SUBSET AnyLeaf /\ IsFiniteSet(A) /\ IsFiniteSet(B) /\ A # {}
      /\ a.weight \in Nat /\ b.weight \in Nat
  BY DEF IsTree, AnyNode
<1>2. A \cap B = {}
  BY DEF Symbols
<1>3. U \in SUBSET AnyLeaf /\ IsFiniteSet(U) /\ U # {}
  BY <1>1, FS_Union
<1>4. J.leaves = Deeper(U) /\ J.weight = a.weight + b.weight /\ J.id = id
  BY DEF Joined, Deeper
<1>5. J \in AnyNode /\ IsFiniteSet(J.leaves)
  <2>1. Deeper(U) \in SUBSET AnyLeaf /\ IsFiniteSet(Deeper(U))
    BY <1>3, DeeperIs
  <2>2. J = [weight |-> a.weight + b.weight, id |-> id, leaves |-> Deeper(U)]
    BY DEF Joined, Deeper
  <2> HIDE DEF J, U
  <2> QED BY <1>1, <1>4, <2>1, <2>2 DEF AnyNode
<1>6. \A x \in Deeper(U) : \E l \in U : x = [sym |-> l.sym, depth |-> l.depth + 1] /\ x.sym = l.sym /\ x.depth = l.depth + 1
  BY DEF Deeper
<1>7. \A l \in U : [sym |-> l.sym, depth |-> l.depth + 1] \in Deeper(U) /\ l.depth \in Nat
  BY <1>3 DEF Deeper, AnyLeaf
<1>8. Deeper(U) # {}
  BY <1>3, <1>7
<1>9. \A l, m \in U : l.sym = m.sym => l = m
  BY DEF IsTree, Symbols
<1> HIDE DEF U, J
<1>10. \A x, y \in Deeper(U) : x.sym = y.sym => x = y
  BY <1>6, <1>9
<1>11. \A x \in Deeper(U) : x.depth # 0
  BY <1>6, <1>7
<1>12. ASSUME NEW d \in 0 .. 15, \A x \in Deeper(U) : x.depth <= d PROVE Share(Deeper(U), d) = Pow[d]
  <2>1. \A l \in U : l.depth + 1 <= d
    <3> TAKE l \in U
    <3> DEFINE x == [sym |-> l.sym, depth |-> l.depth + 1]
    <3>1. x \in Deeper(U) /\ x.depth = l.depth + 1
      BY <1>7
    <3> HIDE DEF x
    <3> QED BY <1>12, <3>1
  <2>2. d # 0
    <3>1. PICK l \in U : TRUE
      BY <1>3
    <3>2. l.depth \in Nat /\ l.depth + 1 <= d
      BY <1>7, <2>1
    <3> QED BY <3>2
  <2> DEFINE e == d - 1
  <2>3. e \in 0 .. 14 /\ e \in 0 .. 15 /\ e + 1 = d
    BY <2>2
  <2>4. \A l \in U : l.depth <= e
    <3> TAKE l \in U
    <3>1. l.depth \in Nat /\ l.depth + 1 <= d
      BY <1>7, <2>1
    <3> QED BY <3>1
  <2> HIDE DEF e
  <2>5. Share(A, e) = Pow[e] /\ Share(B, e) = Pow[e]
    BY <2>3, <2>4 DEF IsTree, U
  <2>6. Share(Deeper(U), e + 1) = Share(A, e) + Share(B, e)
    <3> HIDE DEF A, B
    <3> QED BY <1>1, <1>2, <2>3, DeeperShares DEF U
  <2>7. Pow[e + 1] = 2 * Pow[e] /\ Pow[e] \in Nat
    BY <2>3, Powers
  <2> QED BY <2>3, <2>5, <2>6, <2>7
<1>13. IsTree(J)
  BY <1>4, <1>5, <1>8, <1>10, <1>11, <1>12 DEF IsTree
<1>14. Symbols(J) = Symbols(a) \cup Symbols(b)
  <2>1. ASSUME NEW s \in Symbols(J) PROVE s \in Symbols(a) \cup Symbols(b)
    BY <1>4, <1>6 DEF Symbols, U
  <2>2. ASSUME NEW s \in Symbols(a) \cup Symbols(b) PROVE s \in Symbols(J)
    <3>1. PICK l \in U : s = l.sym
      BY DEF Symbols, U
    <3> DEFINE x == [sym |-> l.sym, depth |-> l.depth + 1]
    <3>2. x \in J.leaves /\ x.sym = s
      BY <1>4, <1>7, <3>1
    <3> HIDE DEF x
    <3> QED BY <3>2 DEF Symbols
  <2> QED BY <2>1, <2>2
<1> QED BY <1>13, <1>14 DEF J
-----------------------------------------------------------------------------
(* The heap after k rounds: trees over the used symbols.                   *)
HeapOK(heap, used, n, k) ==
  /\ \A a \in heap : IsTree(a) /\ a.id <= n + k
  /\ IsFiniteSet(heap) /\ Cardinality(heap) + k = Cardinality(used)
  /\ Distinct(heap)
  /\ \A a, b \in heap : a # b => Symbols(a) \cap Symbols(b) = {}
  /\ UNION {Symbols(a) : a \in heap} = used

(* a and b are taken from the heap, and joined.                            *)
Popped(heap, a, b, id) ==
  /\ a # b
  /\ \A c \in heap \ {a} : Lighter(a, c)
  /\ \A c \in heap \ {a, b} : Lighter(b, c)
  /\ Merge(heap, id) = (heap \ {a, b}) \cup {Joined(a, b, id)}

LEMMA TwoSmallest ==
  ASSUME NEW used, NEW n \in Nat, NEW k \in Nat, NEW heap, HeapOK(heap, used, n, k),
         Cardinality(used) \in Nat, k + 1 < Cardinality(used)
  PROVE  \E a, b \in heap : Popped(heap, a, b, n + k + 1)
<1>1. heap \in SUBSET AnyNode /\ IsFiniteSet(heap) /\ Distinct(heap) /\ Cardinality(heap) \in Nat
  BY FS_CardinalityType DEF HeapOK, IsTree
<1>2. Cardinality(heap) > 1
  BY <1>1 DEF HeapOK
<1>3. heap # {}
  BY <1>2, FS_EmptySet
<1> DEFINE a == Smallest(heap)
<1>4. a \in heap /\ \A c \in heap \ {a} : Lighter(a, c)
  BY <1>1, <1>3, SmallestIs
<1> DEFINE rest == heap \ {a}
           b == Smallest(rest)
<1>5. rest \in SUBSET AnyNode /\ Distinct(rest)
  BY <1>1 DEF Distinct
<1>6. rest # {}
  <2>1. rest = {} => heap = {a}
    BY <1>4
  <2>2. Cardinality({a}) = 1
    BY FS_Singleton
  <2> QED BY <1>2, <2>1, <2>2
<1>7. b \in rest /\ \A c \in rest \ {b} : Lighter(b, c)
  <2> HIDE DEF rest
  <2> QED BY <1>5, <1>6, SmallestIs
<1>8. heap \ {a, b} = rest \ {b}
  OBVIOUS
<1>9. Merge(heap, n + k + 1) = (heap \ {a, b}) \cup {Joined(a, b, n + k + 1)}
  BY DEF Merge
<1> HIDE DEF a, b
<1> QED BY <1>4, <1>7, <1>8, <1>9 DEF a, b, Popped

LEMMA MergeKeeps ==
  ASSUME NEW used, NEW n \in Nat, NEW k \in Nat, NEW heap, HeapOK(heap, used, n, k),
         Cardinality(used) \in Nat, k + 1 < Cardinality(used)
  PROVE  HeapOK(Merge(heap, n + k + 1), used, n, k + 1)
<1> DEFINE id == n + k + 1
<1>1. PICK a, b \in heap : Popped(heap, a, b, n + k + 1)
  <2> HIDE DEF id
  <2> QED BY TwoSmallest
<1>0. a # b /\ Merge(heap, id) = (heap \ {a, b}) \cup {Joined(a, b, id)}
  BY <1>1 DEF Popped
<1> DEFINE J == Joined(a, b, id)
           rest == heap \ {a, b}
<1>2. IsTree(J) /\ Symbols(J) = Symbols(a) \cup Symbols(b)
  BY <1>0, JoinedIsTree DEF HeapOK
<1>3. J.id = id
  BY DEF Joined
<1>4. \A c \in heap : c.id \in Nat /\ c.id <= n + k
  BY DEF HeapOK, IsTree, AnyNode
<1>5. id \in Nat /\ n + (k + 1) = id
  OBVIOUS
<1> HIDE DEF J, id
<1>6. \A c \in rest : c.id # J.id /\ c # J
  BY <1>3, <1>4, <1>5 DEF id
<1>7. IsFiniteSet(rest) /\ Cardinality(rest) + 2 = Cardinality(heap) /\ Cardinality(rest) \in Nat
  <2>1. IsFiniteSet(heap)
    BY DEF HeapOK
  <2>2. IsFiniteSet(heap \ {a}) /\ Cardinality(heap \ {a}) = Cardinality(heap) - 1
    BY <2>1, FS_RemoveElement
  <2>3. IsFiniteSet((heap \ {a}) \ {b}) /\ Cardinality((heap \ {a}) \ {b}) = Cardinality(heap \ {a}) - 1
    BY <1>0, <2>2, FS_RemoveElement
  <2>4. rest = (heap \ {a}) \ {b} /\ Cardinality(heap) \in Nat
    BY <2>1, FS_CardinalityType
  <2>5. Cardinality(rest) \in Nat
    BY <2>3, <2>4, FS_CardinalityType
  <2> QED BY <2>2, <2>3, <2>4, <2>5
<1> DEFINE new == rest \cup {J}
<1>8. IsFiniteSet(new) /\ Cardinality(new) + (k + 1) = Cardinality(used)
  <2>1. J \notin rest
    BY <1>6
  <2>2. IsFiniteSet(new) /\ Cardinality(new) = Cardinality(rest) + 1
    BY <1>7, <2>1, FS_AddElement
  <2>3. Cardinality(heap) + k = Cardinality(used)
    BY DEF HeapOK
  <2> QED BY <1>7, <2>2, <2>3
<1>9. \A c \in new : IsTree(c) /\ c.id <= n + (k + 1)
  BY <1>2, <1>3, <1>4, <1>5 DEF HeapOK
<1>10. Distinct(new)
  BY <1>6 DEF HeapOK, Distinct
<1>11. \A c \in rest : Symbols(c) \cap Symbols(J) = {}
  BY <1>2 DEF HeapOK
<1>12. \A c, e \in new : c # e => Symbols(c) \cap Symbols(e) = {}
  BY <1>11 DEF HeapOK
<1>13. UNION {Symbols(c) : c \in new} = used
  <2>1. UNION {Symbols(c) : c \in heap} = used
    BY DEF HeapOK
  <2>2. ASSUME NEW s \in used PROVE \E c \in new : s \in Symbols(c)
    <3>1. PICK c \in heap : s \in Symbols(c)
      BY <2>1
    <3>2. CASE c \in {a, b}
      BY <1>2, <3>1, <3>2
    <3>3. CASE c \notin {a, b}
      BY <3>1, <3>3
    <3> QED BY <3>2, <3>3
  <2>3. ASSUME NEW c \in new, NEW s \in Symbols(c) PROVE s \in used
    <3>1. CASE c = J
      BY <1>2, <2>1, <2>3, <3>1
    <3>2. CASE c # J
      BY <2>1, <2>3, <3>2
    <3> QED BY <3>1, <3>2
  <2> HIDE DEF new
  <2> QED BY <2>2, <2>3
<1>14. Merge(heap, n + k + 1) = new
  BY <1>0 DEF id, J
<1> HIDE DEF new
<1> QED BY <1>8, <1>9, <1>10, <1>12, <1>13, <1>14 DEF HeapOK

LEMMA LeavesOK ==
  ASSUME NEW n \in Nat, NEW freq \in [0 .. n -> Nat]
  PROVE  HeapOK({Leaf(s, freq[s]) : s \in UsedSymbols(freq)}, UsedSymbols(freq), n, 0)
<1> DEFINE used == UsedSymbols(freq)
           f == [s \in used |-> Leaf(s, freq[s])]
           heap == {Leaf(s, freq[s]) : s \in used}
<1>1. used \in SUBSET (0 .. n) /\ IsFiniteSet(used)
  <2>1. IsFiniteSet(0 .. n) /\ used \in SUBSET (0 .. n)
    BY FS_Interval DEF UsedSymbols
  <2> QED BY <2>1, FS_Subset
<1> HIDE DEF used
<1>2. \A s \in used : /\ s \in Nat /\ s <= n /\ freq[s] \in Nat /\ Leaf(s, freq[s]).id = s
  BY <1>1 DEF Leaf
<1>3. \A s \in used : IsTree(Leaf(s, freq[s])) /\ Symbols(Leaf(s, freq[s])) = {s}
  BY <1>2, LeafIsTree
<1>4. \A s, t \in used : f[s] = f[t] => s = t
  BY <1>2
<1>5. f \in [used -> heap] /\ \A a \in heap : \E s \in used : f[s] = a
  OBVIOUS
<1>6. IsFiniteSet(heap) /\ Cardinality(heap) = Cardinality(used)
  <2> HIDE DEF f, heap
  <2>1. f \in Bijection(used, heap)
    BY <1>4, <1>5 DEF Bijection, Injection, Surjection, IsInjective
  <2>2. ExistsBijection(used, heap)
    BY <2>1 DEF ExistsBijection
  <2> QED BY <1>1, <2>2, FS_Bijection
<1>7. Cardinality(used) \in Nat
  BY <1>1, FS_CardinalityType
<1>8. \A a \in heap : \E s \in used : a = Leaf(s, freq[s]) /\ a.id = s /\ IsTree(a) /\ Symbols(a) = {s} /\ s <= n + 0
  <2> TAKE a \in heap
  <2>1. PICK s \in used : a = Leaf(s, freq[s])
    OBVIOUS
  <2> QED BY <1>2, <1>3, <2>1
<1>9. \A s \in used : \E a \in heap : Symbols(a) = {s}
  BY <1>3
<1> HIDE DEF heap, f
<1>10. Distinct(heap)
  BY <1>8 DEF Distinct
<1>11. \A a, b \in heap : a # b => Symbols(a) \cap Symbols(b) = {}
  BY <1>8
<1>12. UNION {Symbols(a) : a \in heap} = used
  BY <1>8, <1>9
<1>13. \A a \in heap : IsTree(a) /\ a.id <= n + 0
  BY <1>8
<1> QED BY <1>6, <1>7, <1>10, <1>11, <1>12, <1>13 DEF HeapOK, heap, used

(* StandardHuffman is taken apart: the heaps, and what is made of the last *)
Heaps(freq) ==
  LET used == UsedSymbols(freq)
      n == LargestOf(DOMAIN freq)
      Heap[k \in 0 .. Cardinality(used) - 1] ==
        IF k = 0 THEN {Leaf(s, freq[s]) : s \in used} ELSE Merge(Heap[k - 1], n + k)
  IN  Heap

LEMMA LargestIs == ASSUME NEW n \in Nat PROVE LargestOf(0 .. n) = n
<1>1. n \in 0 .. n /\ \A y \in 0 .. n : y <= n
  OBVIOUS
<1>2. \A x \in 0 .. n : (\A y \in 0 .. n : y <= x) => x = n
  OBVIOUS
<1> QED BY <1>1, <1>2 DEF LargestOf

LEMMA HeapsAre ==
  ASSUME NEW n \in Nat, NEW freq \in [0 .. n -> Nat], UsedSymbols(freq) # {}
  PROVE  /\ Cardinality(UsedSymbols(freq)) \in Nat \ {0}
         /\ Heaps(freq)[0] = {Leaf(s, freq[s]) : s \in UsedSymbols(freq)}
         /\ \A k \in 1 .. Cardinality(UsedSymbols(freq)) - 1 : Heaps(freq)[k] = Merge(Heaps(freq)[k - 1], n + k)
         /\ \A k \in 0 .. Cardinality(UsedSymbols(freq)) - 1 : HeapOK(Heaps(freq)[k], UsedSymbols(freq), n, k)
<1> DEFINE used == UsedSymbols(freq)
           top == Cardinality(used) - 1
           start == {Leaf(s, freq[s]) : s \in used}
           V == SUBSET AnyNode
           F == CHOOSE f : f = [k \in 0 .. top |-> IF k = 0 THEN start ELSE Merge(f[k - 1], n + k)]
           Step(h, k) == IF Merge(h, n + k) \in V THEN Merge(h, n + k) ELSE {}
           G == [k \in Nat |-> [h \in V |-> Step(h, k)]]
<1>1. IsFiniteSet(used) /\ Cardinality(used) \in Nat /\ Cardinality(used) # 0
  <2>1. IsFiniteSet(0 .. n) /\ used \in SUBSET (0 .. n)
    BY FS_Interval DEF UsedSymbols
  <2>2. IsFiniteSet(used)
    BY <2>1, FS_Subset
  <2> HIDE DEF used
  <2>3. used # {}
    BY DEF used
  <2> QED BY <2>2, <2>3, FS_CardinalityType, FS_EmptySet
<1>2. Heaps(freq) = F
  <2>1. DOMAIN freq = 0 .. n /\ LargestOf(0 .. n) = n
    BY LargestIs
  <2> QED BY <2>1 DEF Heaps
<1>3. HeapOK(start, used, n, 0)
  BY LeavesOK
<1>4. \A h, k : HeapOK(h, used, n, k) => h \in V
  BY DEF HeapOK, IsTree
<1>5. top \in Nat
  BY <1>1
<1>6. G \in [Nat -> [V -> V]]
  OBVIOUS
<1>7. start \in V
  <2> HIDE DEF V, start, used
  <2> QED BY <1>3, <1>4
<1> HIDE DEF used, start, V, top
<1>8. PICK g \in [0 .. top -> V] : Iterates(g, start, G, top)
  <2> HIDE DEF G
  <2> QED BY <1>5, <1>6, <1>7, Recursion
<1>9. g[0] = start /\ \A k \in 1 .. top : g[k - 1] \in V /\ g[k] = Step(g[k - 1], k)
  <2>1. g[0] = start /\ \A k \in 1 .. top : g[k] = G[k][g[k - 1]]
    <3> HIDE DEF G
    <3> QED BY <1>8 DEF Iterates
  <2>2. ASSUME NEW k \in 1 .. top PROVE g[k - 1] \in V /\ g[k] = Step(g[k - 1], k)
    <3>1. k \in Nat /\ k - 1 \in 0 .. top
      BY <1>5
    <3>2. g[k - 1] \in V /\ g[k] = G[k][g[k - 1]]
      BY <2>1, <3>1
    <3> HIDE DEF Step
    <3> QED BY <3>1, <3>2
  <2> QED BY <2>1, <2>2
<1> HIDE DEF G, Step
<1>10. \A k \in 0 .. top : HeapOK(g[k], used, n, k)
  <2> DEFINE T == {m \in Nat : m <= top => HeapOK(g[m], used, n, m)}
  <2>1. 0 \in T
    BY <1>3, <1>9
  <2>2. ASSUME NEW m \in Nat, m \in T PROVE m + 1 \in T
    <3>1. CASE m + 1 <= top
      <4>1. HeapOK(g[m], used, n, m) /\ m + 1 \in 1 .. top /\ (m + 1) - 1 = m
        BY <1>5, <2>2, <3>1
      <4>2. m + 1 < Cardinality(used) /\ n + (m + 1) = n + m + 1
        BY <1>1, <3>1 DEF top
      <4>3. HeapOK(Merge(g[m], n + m + 1), used, n, m + 1)
        BY <1>1, <4>1, <4>2, MergeKeeps
      <4>4. g[m + 1] = Merge(g[m], n + (m + 1))
        <5>1. Merge(g[m], n + (m + 1)) \in V
          BY <1>4, <4>2, <4>3
        <5> QED BY <1>9, <4>1, <5>1 DEF Step
      <4>5. HeapOK(g[m + 1], used, n, m + 1)
        BY <4>2, <4>3, <4>4
      <4> QED BY <4>5
    <3> QED BY <3>1
  <2> HIDE DEF T
  <2>3. Nat \subseteq T
    BY <2>1, <2>2, Induction
  <2> QED BY <1>5, <2>3 DEF T
<1>11. \A k \in 1 .. top : g[k] = Merge(g[k - 1], n + k)
  <2> TAKE k \in 1 .. top
  <2>1. k - 1 \in 0 .. top /\ k - 1 \in Nat /\ (k - 1) + 1 = k /\ n + k = n + (k - 1) + 1
    BY <1>5
  <2> DEFINE m == k - 1
  <2>2. m + 1 < Cardinality(used)
    BY <1>1, <1>5 DEF top
  <2>3. HeapOK(g[m], used, n, m) /\ m \in Nat /\ n + k = n + m + 1
    BY <1>10, <2>1
  <2> HIDE DEF m
  <2>4. HeapOK(Merge(g[m], n + m + 1), used, n, m + 1)
    BY <1>1, <2>2, <2>3, MergeKeeps
  <2>5. Merge(g[m], n + k) \in V
    BY <1>4, <2>3, <2>4
  <2> QED BY <1>9, <2>5 DEF m, Step
<1>12. g = [k \in 0 .. top |-> IF k = 0 THEN start ELSE Merge(g[k - 1], n + k)]
  <2>1. \A k \in 0 .. top : g[k] = IF k = 0 THEN start ELSE Merge(g[k - 1], n + k)
    BY <1>5, <1>9, <1>11
  <2>2. g = [k \in 0 .. top |-> g[k]]
    OBVIOUS
  <2> QED BY <2>1, <2>2
<1>13. F = [k \in 0 .. top |-> IF k = 0 THEN start ELSE Merge(F[k - 1], n + k)]
  BY <1>12, Zenon
<1> HIDE DEF F
<1>14. \A k \in 0 .. top : F[k] = g[k]
  <2> DEFINE T == {m \in Nat : m <= top => F[m] = g[m]}
  <2>1. 0 \in T
    BY <1>5, <1>9, <1>13
  <2>2. ASSUME NEW m \in Nat, m \in T PROVE m + 1 \in T
    <3>1. CASE m + 1 <= top
      <4>1. F[m] = g[m] /\ m + 1 \in 1 .. top /\ (m + 1) - 1 = m /\ m + 1 \in 0 .. top /\ m + 1 # 0
        BY <1>5, <2>2, <3>1
      <4>2. F[m + 1] = Merge(F[m], n + (m + 1)) /\ g[m + 1] = Merge(g[m], n + (m + 1))
        BY <1>11, <1>13, <4>1
      <4> QED BY <4>1, <4>2
    <3> QED BY <3>1
  <2> HIDE DEF T
  <2>3. Nat \subseteq T
    BY <2>1, <2>2, Induction
  <2> QED BY <1>5, <2>3 DEF T
<1>15. \A k \in 1 .. top : F[k] = Merge(F[k - 1], n + k)
  <2> TAKE k \in 1 .. top
  <2>1. k \in 0 .. top /\ k - 1 \in 0 .. top
    BY <1>5
  <2> QED BY <1>11, <1>14, <2>1
<1>16. F[0] = start /\ \A k \in 0 .. top : HeapOK(F[k], used, n, k)
  BY <1>5, <1>9, <1>10, <1>14
<1> QED BY <1>1, <1>2, <1>15, <1>16 DEF used, top, start
-----------------------------------------------------------------------------
(* The lengths.                                                            *)
LEMMA TallestIs ==
  ASSUME NEW n \in Nat, NEW f \in [0 .. n -> Nat]
  PROVE  /\ Tallest(f) \in Nat /\ \A s \in 0 .. n : f[s] <= Tallest(f)
         /\ \E s \in 0 .. n : f[s] = Tallest(f)
<1> DEFINE T == {m \in Nat : m <= n => \E s \in 0 .. m : \A t \in 0 .. m : f[t] <= f[s]}
<1>1. 0 \in T
  <2>1. 0 .. 0 = {0}
    OBVIOUS
  <2> QED BY <2>1
<1>2. ASSUME NEW m \in Nat, m \in T PROVE m + 1 \in T
  <2>1. CASE m + 1 <= n
    <3>1. PICK s \in 0 .. m : \A t \in 0 .. m : f[t] <= f[s]
      BY <1>2, <2>1
    <3>2. \A t \in 0 .. m + 1 : t \in 0 .. m \/ t = m + 1
      OBVIOUS
    <3>3. f[m + 1] \in Nat /\ f[s] \in Nat /\ \A t \in 0 .. m : f[t] \in Nat
      BY <2>1
    <3>4. CASE f[m + 1] <= f[s]
      <4>1. \A t \in 0 .. m + 1 : f[t] <= f[s]
        BY <3>1, <3>2, <3>4
      <4>2. s \in 0 .. m + 1
        OBVIOUS
      <4> QED BY <4>1, <4>2
    <3>5. CASE ~ (f[m + 1] <= f[s])
      <4>1. \A t \in 0 .. m + 1 : f[t] <= f[m + 1]
        BY <3>1, <3>2, <3>3, <3>5
      <4>2. m + 1 \in 0 .. m + 1
        OBVIOUS
      <4> QED BY <4>1, <4>2
    <3> QED BY <3>4, <3>5
  <2> QED BY <2>1
<1> HIDE DEF T
<1>3. Nat \subseteq T
  BY <1>1, <1>2, Induction
<1>4. PICK s \in 0 .. n : \A t \in 0 .. n : f[t] <= f[s]
  <2>1. n \in T /\ n <= n
    BY <1>3
  <2> QED BY <2>1 DEF T
<1> DEFINE S == {f[t] : t \in DOMAIN f}
<1>5. f[s] \in S /\ \A y \in S : y <= f[s]
  BY <1>4
<1>6. \A x \in S : (\A y \in S : y <= x) => x = f[s]
  <2>1. \A x \in S : x \in Nat
    OBVIOUS
  <2> HIDE DEF S
  <2> QED BY <1>5, <2>1
<1>7. Tallest(f) = f[s]
  <2>1. Tallest(f) = LargestOf(S)
    BY DEF Tallest
  <2> HIDE DEF S
  <2> QED BY <1>5, <1>6, <2>1 DEF LargestOf
<1> QED BY <1>4, <1>7

(* The lengths are the depths of the leaves under the root.                *)
BuiltFrom(root, freq, lengths, n) ==
  /\ IsTree(root) /\ Symbols(root) = UsedSymbols(freq)
  /\ lengths \in [0 .. n -> Nat]
  /\ \A l \in root.leaves : l.sym \in 0 .. n /\ lengths[l.sym] = l.depth /\ l.depth > 0
  /\ \A s \in 0 .. n : s \notin UsedSymbols(freq) => lengths[s] = 0

LEMMA HuffmanIs ==
  ASSUME NEW n \in Nat, NEW freq \in [0 .. n -> Nat], Cardinality(UsedSymbols(freq)) > 1,
         NEW lens_, lens_ = StandardHuffman(freq)
  PROVE  \E root \in Heaps(freq)[Cardinality(UsedSymbols(freq)) - 1] : BuiltFrom(root, freq, lens_, n)
<1> DEFINE used == UsedSymbols(freq)
           top == Cardinality(used) - 1
           heap == Heaps(freq)[top]
           root == CHOOSE node \in heap : TRUE
           Depth(s) == (CHOOSE l \in root.leaves : l.sym = s).depth
<1>1. StandardHuffman(freq) = [s \in DOMAIN freq |-> IF s \notin used THEN 0 ELSE LargestOf({Depth(s), 1})]
  BY DEF StandardHuffman, Heaps
<1>2. used # {}
  <2> HIDE DEF used
  <2> SUFFICES ASSUME used = {} PROVE FALSE
    OBVIOUS
  <2> QED BY FS_EmptySet DEF used
<1>3. Cardinality(used) \in Nat /\ top \in Nat /\ HeapOK(heap, used, n, top)
  <2>1. Cardinality(used) \in Nat \ {0} /\ \A k \in 0 .. Cardinality(used) - 1 : HeapOK(Heaps(freq)[k], used, n, k)
    BY <1>2, HeapsAre
  <2> HIDE DEF used
  <2>2. top \in 0 .. Cardinality(used) - 1 /\ top \in Nat
    BY <2>1
  <2> QED BY <2>1, <2>2
<1> HIDE DEF used, top, heap
<1>4. Cardinality(heap) = 1 /\ IsFiniteSet(heap)
  <2>1. IsFiniteSet(heap) /\ Cardinality(heap) + top = Cardinality(used) /\ Cardinality(heap) \in Nat
    BY <1>3, FS_CardinalityType DEF HeapOK
  <2> QED BY <1>3, <2>1 DEF top
<1>5. heap = {root} /\ root \in heap
  BY <1>4, FS_Singleton
<1> HIDE DEF root
<1>6. IsTree(root) /\ Symbols(root) = used
  BY <1>3, <1>5 DEF HeapOK
<1>7. \A l \in root.leaves : l.depth \in Nat /\ l.depth # 0
  <2> TAKE l \in root.leaves
  <2>1. l.depth \in Nat
    BY <1>6 DEF IsTree, AnyNode, AnyLeaf
  <2>2. ASSUME l.depth = 0 PROVE FALSE
    <3>1. root.leaves = {l}
      BY <1>6, <2>2 DEF IsTree
    <3>2. used = {l.sym}
      BY <1>6, <3>1 DEF Symbols
    <3>3. Cardinality(used) = 1
      BY <3>2, FS_Singleton
    <3>4. Cardinality(used) > 1
      BY DEF used
    <3> QED BY <3>3, <3>4
  <2> QED BY <2>1, <2>2
<1>8. \A l \in root.leaves : Depth(l.sym) = l.depth
  <2> TAKE l \in root.leaves
  <2>1. \A m \in root.leaves : m.sym = l.sym => m = l
    BY <1>6 DEF IsTree
  <2>2. (CHOOSE m \in root.leaves : m.sym = l.sym) = l
    BY <2>1
  <2> QED BY <2>2
<1> HIDE DEF Depth
<1>9. used \in SUBSET (0 .. n)
  BY DEF UsedSymbols, used
<1>10. \A l \in root.leaves : l.sym \in used
  BY <1>6 DEF Symbols
<1>11. ASSUME NEW l \in root.leaves PROVE lens_[l.sym] = l.depth
  <2>1. lens_[l.sym] = LargestOf({Depth(l.sym), 1})
    BY <1>1, <1>9, <1>10
  <2> DEFINE x == l.depth
  <2>2. x \in Nat /\ x >= 1
    BY <1>7
  <2> HIDE DEF x
  <2>3. LargestOf({x, 1}) = x
    <3>1. x \in {x, 1} /\ \A y \in {x, 1} : y <= x
      BY <2>2
    <3>2. \A z \in {x, 1} : (\A y \in {x, 1} : y <= z) => z = x
      BY <2>2
    <3> QED BY <3>1, <3>2 DEF LargestOf
  <2> QED BY <1>8, <2>1, <2>3 DEF x
<1>12. \A s \in 0 .. n : s \notin used => lens_[s] = 0
  BY <1>1
<1>13. \A s \in used : \E l \in root.leaves : s = l.sym
  BY <1>6 DEF Symbols
<1>14. lens_ \in [0 .. n -> Nat]
  <2>1. DOMAIN freq = 0 .. n
    OBVIOUS
  <2>2. ASSUME NEW s \in 0 .. n PROVE lens_[s] \in Nat
    <3>1. CASE s \in used
      <4>1. PICK l \in root.leaves : s = l.sym
        BY <1>13, <3>1
      <4> QED BY <1>7, <1>11, <4>1
    <3> QED BY <1>12, <3>1
  <2>3. lens_ = [s \in 0 .. n |-> lens_[s]]
    BY <1>1, <2>1
  <2> QED BY <2>2, <2>3
<1>15. ASSUME NEW l \in root.leaves PROVE l.sym \in 0 .. n /\ lens_[l.sym] = l.depth /\ l.depth > 0
  <2>1. l.depth \in Nat /\ l.depth # 0
    BY <1>7
  <2>2. l.depth > 0
    BY <2>1
  <2> QED BY <1>9, <1>10, <1>11, <2>2
<1> QED BY <1>5, <1>6, <1>12, <1>14, <1>15 DEF BuiltFrom, used, heap, top
-----------------------------------------------------------------------------
(* Complete codes.                                                         *)
LEMMA SlackIs ==
  ASSUME NEW lengths, NEW cap \in 1 .. 15, NEW t \in [0 .. cap -> Nat], t[0] = 0,
         \A b \in 1 .. cap : t[b] = Count(lengths, b) * Pow[cap - b]
  PROVE  Slack(lengths, cap) = Pow[cap] - Sums(t, cap)[cap]
<1> DEFINE Part(b) == Count(lengths, b) * 2 ^ (cap - b)
           F == CHOOSE f : f = [b \in 0 .. cap |-> IF b = 0 THEN 0 ELSE f[b - 1] + Part(b)]
           g == Sums(t, cap)
<1>1. Slack(lengths, cap) = 2 ^ cap - F[cap]
  BY DEF Slack
<1>2. 2 ^ cap = Pow[cap]
  <2>1. cap \in 0 .. 16
    OBVIOUS
  <2> QED BY <2>1, PowIs
<1>3. ASSUME NEW b \in 1 .. cap PROVE Part(b) = t[b]
  <2>1. cap - b \in 0 .. 16
    OBVIOUS
  <2>2. 2 ^ (cap - b) = Pow[cap - b]
    BY <2>1, PowIs, Zenon
  <2> QED BY <2>2, Zenon
<1> HIDE DEF Part
<1>4. cap \in Nat /\ g \in [0 .. cap -> Nat] /\ g[0] = t[0] /\ \A k \in 1 .. cap : g[k] = g[k - 1] + t[k]
  <2>1. cap \in Nat
    OBVIOUS
  <2> QED BY <2>1, SumsAre
<1> HIDE DEF g
<1>5. g = [b \in 0 .. cap |-> IF b = 0 THEN 0 ELSE g[b - 1] + Part(b)]
  <2>1. \A b \in 0 .. cap : b = 0 \/ b \in 1 .. cap
    BY <1>4
  <2>2. \A b \in 0 .. cap : g[b] = IF b = 0 THEN 0 ELSE g[b - 1] + Part(b)
    BY <1>3, <1>4, <2>1
  <2>3. g = [b \in 0 .. cap |-> g[b]]
    BY <1>4
  <2> QED BY <2>2, <2>3
<1>6. F = [b \in 0 .. cap |-> IF b = 0 THEN 0 ELSE F[b - 1] + Part(b)]
  BY <1>5, Zenon
<1> HIDE DEF F
<1> DEFINE T == {m \in Nat : m <= cap => F[m] = g[m]}
<1>7. 0 \in T
  BY <1>4, <1>6
<1>8. ASSUME NEW m \in Nat, m \in T PROVE m + 1 \in T
  <2>1. CASE m + 1 <= cap
    <3>1. F[m] = g[m] /\ m + 1 \in 1 .. cap /\ (m + 1) - 1 = m /\ m + 1 \in 0 .. cap /\ m + 1 # 0
      BY <1>4, <1>8, <2>1
    <3>2. F[m + 1] = F[m] + Part(m + 1) /\ g[m + 1] = g[m] + Part(m + 1)
      BY <1>5, <1>6, <3>1
    <3> QED BY <3>1, <3>2
  <2> QED BY <2>1
<1> HIDE DEF T
<1>9. F[cap] = g[cap]
  <2>1. cap \in T
    BY <1>4, <1>7, <1>8, Induction
  <2> QED BY <1>4, <2>1 DEF T
<1> QED BY <1>1, <1>2, <1>9 DEF g

(* A tree that is no taller than cap is a complete code.                   *)
LEMMA TreeComplete ==
  ASSUME NEW n \in Nat, NEW freq \in [0 .. n -> Nat], Cardinality(UsedSymbols(freq)) > 1,
         NEW cap \in 1 .. 15, NEW lengths, lengths = StandardHuffman(freq), Tallest(lengths) <= cap
  PROVE  Slack(lengths, cap) = 0
<1>0. PICK root \in Heaps(freq)[Cardinality(UsedSymbols(freq)) - 1] : BuiltFrom(root, freq, lengths, n)
  BY HuffmanIs
<1>1. /\ IsTree(root) /\ Symbols(root) = UsedSymbols(freq)
      /\ lengths \in [0 .. n -> Nat]
      /\ \A l \in root.leaves : l.sym \in 0 .. n /\ lengths[l.sym] = l.depth /\ l.depth > 0
      /\ \A s \in 0 .. n : s \notin UsedSymbols(freq) => lengths[s] = 0
  BY <1>0 DEF BuiltFrom
<1> DEFINE L == root.leaves
<1>2. /\ L \in SUBSET AnyLeaf /\ IsFiniteSet(L) /\ \A l, m \in L : l.sym = m.sym => l = m
      /\ \A l \in L : l.depth \in Nat
  BY <1>1 DEF IsTree, AnyNode, AnyLeaf
<1>3. Share(L, cap) = Pow[cap]
  <2>1. \A l \in L : l.depth <= cap
    <3> TAKE l \in L
    <3>1. l.depth <= Tallest(lengths) /\ Tallest(lengths) \in Nat
      BY <1>1, TallestIs
    <3> QED BY <1>2, <3>1
  <2>2. cap \in 0 .. 15
    OBVIOUS
  <2> QED BY <1>1, <2>1, <2>2 DEF IsTree
<1>4. \A s \in UsedSymbols(freq) : \E l \in L : l.sym = s
  BY <1>1 DEF Symbols
<1>5. ASSUME NEW b \in 1 .. cap PROVE Count(lengths, b) = CountOf(L, b)
  <2> DEFINE X == {l \in L : l.depth = b}
             Y == {s \in DOMAIN lengths : lengths[s] = b}
             f == [l \in X |-> l.sym]
  <2>1. f \in [X -> Y]
    BY <1>1
  <2>2. \A l, m \in X : f[l] = f[m] => l = m
    BY <1>2
  <2>3. ASSUME NEW s \in Y PROVE \E l \in X : f[l] = s
    <3>1. s \in 0 .. n /\ lengths[s] # 0
      BY <1>1
    <3>2. PICK l \in L : l.sym = s
      BY <1>1, <1>4, <3>1
    <3>3. l \in X
      BY <1>1, <3>2
    <3> QED BY <3>2, <3>3
  <2>4. IsFiniteSet(X)
    BY <1>2, FS_Subset
  <2>5. CountOf(L, b) = Cardinality(X) /\ Count(lengths, b) = Cardinality(Y)
    BY DEF CountOf, Count
  <2> HIDE DEF X, Y, f
  <2>6. f \in Bijection(X, Y)
    BY <2>1, <2>2, <2>3 DEF Bijection, Injection, Surjection, IsInjective
  <2>7. ExistsBijection(X, Y)
    BY <2>6 DEF ExistsBijection
  <2> QED BY <2>4, <2>5, <2>7, FS_Bijection
<1>6. CountOf(L, 0) = 0
  <2>1. {l \in L : l.depth = 0} = {}
    BY <1>1, <1>2
  <2> QED BY <2>1, FS_EmptySet DEF CountOf
<1> DEFINE t == Shares(L, cap)
<1>7. /\ t \in [0 .. cap -> Nat]
      /\ \A k \in 0 .. cap : t[k] = CountOf(L, k) * Pow[cap - k]
  <2>1. cap \in 0 .. 15
    OBVIOUS
  <2> HIDE DEF L
  <2> QED BY <1>2, <2>1, SharesAre
<1> HIDE DEF t
<1>8. t[0] = 0
  <2>1. 0 \in 0 .. cap /\ cap - 0 = cap /\ Pow[cap] \in Nat
    <3>1. cap \in 0 .. 16 /\ 0 \in 0 .. cap /\ cap - 0 = cap
      OBVIOUS
    <3> QED BY <3>1, PowNat
  <2>2. t[0] = CountOf(L, 0) * Pow[cap]
    BY <1>7, <2>1
  <2>3. t[0] = 0 * Pow[cap]
    BY <1>6, <2>2
  <2> QED BY <2>1, <2>3
<1>9. \A b \in 1 .. cap : t[b] = Count(lengths, b) * Pow[cap - b]
  <2> TAKE b \in 1 .. cap
  <2>1. b \in 0 .. cap
    OBVIOUS
  <2>2. t[b] = CountOf(L, b) * Pow[cap - b]
    BY <1>7, <2>1
  <2> QED BY <1>5, <2>2
<1>10. Slack(lengths, cap) = Pow[cap] - Sums(t, cap)[cap]
  <2> HIDE DEF L
  <2>1. t \in [0 .. cap -> Nat]
    BY <1>7
  <2> QED BY <1>8, <1>9, <2>1, SlackIs, Zenon
<1>11. Pow[cap] \in Nat
  <2>1. cap \in 0 .. 16
    OBVIOUS
  <2> QED BY <2>1, PowNat
<1> QED BY <1>3, <1>10, <1>11 DEF Share, t

(* Two codes of one bit are a complete code.                               *)
LEMMA TwoOnesComplete ==
  ASSUME NEW D, NEW lengths \in [D -> Nat], NEW cap \in 1 .. 15, NEW x \in D, NEW y \in D, x # y,
         lengths[x] = 1, lengths[y] = 1, \A s \in D : s \notin {x, y} => lengths[s] = 0
  PROVE  Slack(lengths, cap) = 0
<1>1. Count(lengths, 1) = 2
  <2>1. {s \in DOMAIN lengths : lengths[s] = 1} = {x, y}
    OBVIOUS
  <2>2. Cardinality({x, y}) = 2
    <3>1. IsFiniteSet({x}) /\ Cardinality({x}) = 1 /\ y \notin {x} /\ {x} \cup {y} = {x, y}
      BY FS_Singleton
    <3>2. Cardinality({x} \cup {y}) = Cardinality({x}) + 1
      BY <3>1, FS_AddElement
    <3> QED BY <3>1, <3>2
  <2> QED BY <2>1, <2>2 DEF Count
<1>2. ASSUME NEW b \in 2 .. cap PROVE Count(lengths, b) = 0
  <2>1. {s \in DOMAIN lengths : lengths[s] = b} = {}
    OBVIOUS
  <2> QED BY <2>1, FS_EmptySet DEF Count
<1> DEFINE e == cap - 1
           p == Pow[e]
           t == [k \in 0 .. cap |-> IF k = 1 THEN 2 * p ELSE 0]
<1>3. e \in 0 .. 15 /\ e + 1 = cap /\ p \in Nat /\ Pow[cap] = 2 * p
  <2>1. e \in 0 .. 15 /\ e + 1 = cap
    OBVIOUS
  <2> HIDE DEF e
  <2> QED BY <2>1, Powers
<1> HIDE DEF p
<1>4. t \in [0 .. cap -> Nat] /\ t[0] = 0 /\ t[1] = 2 * p /\ 1 \in 0 .. cap /\ \A k \in 0 .. cap : k # 1 => t[k] = 0
  BY <1>3
<1>5. ASSUME NEW b \in 1 .. cap PROVE t[b] = Count(lengths, b) * Pow[cap - b]
  <2>1. CASE b = 1
    BY <1>1, <1>4, <2>1 DEF p
  <2>2. CASE b # 1
    <3>1. b \in 2 .. cap /\ b \in 0 .. cap /\ cap - b \in 0 .. 16
      BY <2>2
    <3>2. t[b] = 0
      BY <1>4, <2>2, <3>1
    <3>3. Count(lengths, b) = 0
      BY <1>2, <3>1
    <3>4. Pow[cap - b] \in Nat
      <4>1. Pow \in [0 .. 16 -> Nat \ {0}]
        BY Powers
      <4> HIDE DEF Pow
      <4> QED BY <3>1, <4>1
    <3>5. Count(lengths, b) * Pow[cap - b] = 0
      BY <3>3, <3>4
    <3> QED BY <3>2, <3>5
  <2> QED BY <2>1, <2>2
<1> HIDE DEF t
<1>6. Slack(lengths, cap) = Pow[cap] - Sums(t, cap)[cap]
  <2>1. t \in [0 .. cap -> Nat] /\ t[0] = 0
    BY <1>4
  <2>2. \A b \in 1 .. cap : t[b] = Count(lengths, b) * Pow[cap - b]
    BY <1>5
  <2> HIDE DEF e
  <2> QED BY <2>1, <2>2, SlackIs, Zenon
<1>7. Sums(t, cap)[cap] = t[1]
  <2>1. cap \in Nat
    OBVIOUS
  <2> QED BY <1>4, <2>1, SumOfOne
<1> QED BY <1>3, <1>4, <1>6, <1>7
-----------------------------------------------------------------------------
(* The tree over equal frequencies.                                        *)
UpTo(node, d) == \A l \in node.leaves : l.depth <= d

(* The node is a full tree of one of two heights, or the one between them. *)
Level(node, j, x) ==
  \/ node.weight = Pow[j] /\ UpTo(node, j)
  \/ node.weight = Pow[j + 1] /\ UpTo(node, j + 1)
  \/ node = x /\ Pow[j] < node.weight /\ node.weight < Pow[j + 1] /\ UpTo(node, j + 1)

Even(heap) == \E j \in 0 .. 9 : \E x \in AnyNode : \A a \in heap : Level(a, j, x)

Weighted(heap) == \A a \in heap : a.weight = Cardinality(a.leaves)

LEMMA LeavesAreUsed ==
  ASSUME NEW used, NEW n \in Nat, NEW k \in Nat, NEW heap, HeapOK(heap, used, n, k),
         IsFiniteSet(used), NEW a \in heap
  PROVE  Cardinality(a.leaves) <= Cardinality(used) /\ Cardinality(a.leaves) \in Nat \ {0}
<1> DEFINE f == [l \in a.leaves |-> l.sym]
<1>1. IsTree(a) /\ Symbols(a) \subseteq used
  BY DEF HeapOK
<1>2. IsFiniteSet(a.leaves) /\ a.leaves # {}
  BY <1>1 DEF IsTree
<1>3. f \in [a.leaves -> Symbols(a)] /\ \A s \in Symbols(a) : \E l \in a.leaves : f[l] = s
  BY DEF Symbols
<1>4. \A l, m \in a.leaves : f[l] = f[m] => l = m
  BY <1>1 DEF IsTree
<1> HIDE DEF f
<1>5. f \in Bijection(a.leaves, Symbols(a))
  BY <1>3, <1>4 DEF Bijection, Injection, Surjection, IsInjective
<1>6. ExistsBijection(a.leaves, Symbols(a))
  BY <1>5 DEF ExistsBijection
<1>7. Cardinality(a.leaves) = Cardinality(Symbols(a))
  BY <1>2, <1>6, FS_Bijection
<1>8. Cardinality(Symbols(a)) <= Cardinality(used)
  BY <1>1, FS_Subset
<1>9. Cardinality(a.leaves) \in Nat /\ Cardinality(a.leaves) # 0
  BY <1>2, FS_CardinalityType, FS_EmptySet
<1> QED BY <1>7, <1>8, <1>9

LEMMA JoinedWeighs ==
  ASSUME NEW a, NEW b, IsTree(a), IsTree(b), Symbols(a) \cap Symbols(b) = {}, NEW id \in Nat,
         a.weight = Cardinality(a.leaves), b.weight = Cardinality(b.leaves)
  PROVE  Joined(a, b, id).weight = Cardinality(Joined(a, b, id).leaves)
<1> DEFINE A == a.leaves
           B == b.leaves
<1>1. /\ A \in SUBSET AnyLeaf /\ B \in SUBSET AnyLeaf /\ IsFiniteSet(A) /\ IsFiniteSet(B)
  BY DEF IsTree, AnyNode
<1>2. A \cap B = {}
  BY DEF Symbols
<1>3. Joined(a, b, id).leaves = Deeper(A \cup B) /\ Joined(a, b, id).weight = a.weight + b.weight
  BY DEF Joined, Deeper
<1> HIDE DEF A, B
<1>4. IsFiniteSet(A \cup B) /\ Cardinality(A \cup B) = Cardinality(A) + Cardinality(B) - Cardinality(A \cap B)
  BY <1>1, FS_Union
<1>5. Cardinality(A \cap B) = 0 /\ Cardinality(A) \in Nat /\ Cardinality(B) \in Nat
  BY <1>1, <1>2, FS_EmptySet, FS_CardinalityType
<1>6. Cardinality(A \cup B) = Cardinality(A) + Cardinality(B)
  BY <1>4, <1>5
<1>7. A \cup B \in SUBSET AnyLeaf
  BY <1>1
<1>8. Cardinality(Deeper(A \cup B)) = Cardinality(A \cup B)
  BY <1>4, <1>7, DeeperIs
<1> QED BY <1>3, <1>6, <1>8 DEF A, B

LEMMA EvenMerge ==
  ASSUME NEW used, NEW n \in Nat, NEW k \in Nat, NEW heap, HeapOK(heap, used, n, k),
         IsFiniteSet(used), Cardinality(used) \in 1 .. 512, k + 1 < Cardinality(used),
         Weighted(heap), Even(heap)
  PROVE  Weighted(Merge(heap, n + k + 1)) /\ Even(Merge(heap, n + k + 1))
<1> DEFINE id == n + k + 1
<1>0. Cardinality(used) \in Nat
  OBVIOUS
<1>1. PICK a \in heap, b \in heap : Popped(heap, a, b, id)
  <2>1. \E a, b \in heap : Popped(heap, a, b, n + k + 1)
    <3> HIDE DEF id
    <3> QED BY <1>0, TwoSmallest
  <2> QED BY <2>1
<1>2. a # b /\ Merge(heap, id) = (heap \ {a, b}) \cup {Joined(a, b, id)}
  BY <1>1 DEF Popped
<1> DEFINE J == Joined(a, b, id)
           new == (heap \ {a, b}) \cup {J}
<1>3. id \in Nat
  OBVIOUS
<1> HIDE DEF id
<1>4. IsTree(a) /\ IsTree(b) /\ Symbols(a) \cap Symbols(b) = {} /\ a.weight = Cardinality(a.leaves) /\ b.weight = Cardinality(b.leaves)
  BY <1>2 DEF HeapOK, Weighted
<1>5. J.weight = Cardinality(J.leaves) /\ J.weight = a.weight + b.weight /\ IsTree(J)
  <2>1. J.weight = a.weight + b.weight
    BY DEF Joined
  <2> QED BY <1>3, <1>4, <2>1, JoinedWeighs, JoinedIsTree, ZenonT(60)
<1>6. ASSUME NEW c \in heap PROVE IsTree(c) /\ c.weight \in Nat /\ c.weight > 0 /\ c.weight <= Cardinality(used)
  <2>1. IsTree(c) /\ c.weight = Cardinality(c.leaves)
    BY DEF Weighted, HeapOK
  <2>2. Cardinality(c.leaves) <= Cardinality(used) /\ Cardinality(c.leaves) \in Nat \ {0}
    BY LeavesAreUsed
  <2> DEFINE m == Cardinality(c.leaves)
  <2> HIDE DEF m
  <2>3. m <= Cardinality(used) /\ m \in Nat \ {0} /\ c.weight = m
    BY <2>1, <2>2 DEF m
  <2> QED BY <2>1, <2>3
<1>7. J.weight <= Cardinality(used) /\ J.weight \in Nat
  <2>1. HeapOK(new, used, n, k + 1)
    <3>1. HeapOK(Merge(heap, n + k + 1), used, n, k + 1)
      BY <1>0, MergeKeeps
    <3> QED BY <1>2, <3>1 DEF id
  <2>2. J \in new /\ k + 1 \in Nat
    OBVIOUS
  <2> HIDE DEF new, J
  <2>3. Cardinality(J.leaves) <= Cardinality(used) /\ Cardinality(J.leaves) \in Nat \ {0}
    BY <2>1, <2>2, LeavesAreUsed
  <2> QED BY <1>5, <2>3
<1>8. Weighted(new)
  BY <1>5 DEF Weighted
<1>9. PICK j \in 0 .. 9, x \in AnyNode : \A c \in heap : Level(c, j, x)
  BY DEF Even
<1>10. ASSUME NEW d \in Nat, UpTo(a, d), UpTo(b, d) PROVE UpTo(J, d + 1)
  <2>1. J.leaves = Deeper(a.leaves \cup b.leaves)
    BY DEF Joined, Deeper
  <2>2. ASSUME NEW l \in Deeper(a.leaves \cup b.leaves) PROVE l.depth <= d + 1
    <3>1. PICK m \in a.leaves \cup b.leaves : l = [sym |-> m.sym, depth |-> m.depth + 1]
      BY DEF Deeper
    <3>2. m.depth <= d /\ m.depth \in Nat
      BY <1>4, <1>10 DEF UpTo, IsTree, AnyNode, AnyLeaf
    <3>3. l.depth = m.depth + 1
      BY <3>1
    <3> QED BY <3>2, <3>3
  <2> QED BY <2>1, <2>2 DEF UpTo
<1> HIDE DEF J
<1> DEFINE p == Pow[j]
           q == Pow[j + 1]
           r == Pow[j + 2]
<1>11. p \in Nat /\ q = 2 * p /\ r = 2 * q /\ p > 0 /\ (j + 1) + 1 = j + 2
  <2>1. j \in 0 .. 15 /\ j + 1 \in 0 .. 15 /\ (j + 1) + 1 = j + 2 /\ j \in 0 .. 16
    OBVIOUS
  <2> QED BY <2>1, Powers, PowNat
<1>12. \A c \in heap : Level(c, j, x)
  BY <1>9
<1>13. ASSUME NEW c \in heap PROVE c.weight >= p /\ c.weight <= q /\ UpTo(c, j + 1) /\ (c.weight > p /\ c # x => c.weight = q)
  <2>1. Level(c, j, x)
    BY <1>12
  <2>2. UpTo(c, j) => UpTo(c, j + 1)
    <3>1. \A l \in c.leaves : l.depth \in Nat
      BY <1>6 DEF IsTree, AnyNode, AnyLeaf
    <3> QED BY <3>1 DEF UpTo
  <2> HIDE DEF p, q
  <2>3. c.weight \in Nat
    BY <1>6
  <2> QED BY <1>11, <2>1, <2>2, <2>3 DEF Level, p, q
<1>14. a.weight <= b.weight /\ \A c \in heap \ {a, b} : b.weight <= c.weight
  <2>1. \A c \in heap \ {a} : a.weight <= c.weight
    <3> TAKE c \in heap \ {a}
    <3>1. Lighter(a, c) /\ a.weight \in Nat /\ c.weight \in Nat
      BY <1>1, <1>6 DEF Popped
    <3> QED BY <3>1 DEF Lighter
  <2>2. \A c \in heap \ {a, b} : b.weight <= c.weight
    <3> TAKE c \in heap \ {a, b}
    <3>1. Lighter(b, c) /\ b.weight \in Nat /\ c.weight \in Nat
      BY <1>1, <1>6 DEF Popped
    <3> QED BY <3>1 DEF Lighter
  <2> QED BY <1>2, <2>1, <2>2
<1>15. CASE b.weight = p
  <2>1. a.weight = p
    <3>1. a.weight >= p /\ a.weight \in Nat /\ b.weight \in Nat
      BY <1>6, <1>13
    <3> QED BY <1>11, <1>14, <1>15, <3>1
  <2>2. UpTo(a, j) /\ UpTo(b, j)
    <3>1. Level(a, j, x) /\ Level(b, j, x)
      BY <1>12
    <3>2. q # p /\ ~ (p < p)
      BY <1>11
    <3> QED BY <1>15, <2>1, <3>1, <3>2 DEF Level, p, q
  <2>3. J.weight = q /\ UpTo(J, j + 1)
    <3>1. J.weight = p + p
      BY <1>5, <1>15, <2>1
    <3> QED BY <1>10, <1>11, <2>2, <3>1
  <2>4. Level(J, j, x)
    BY <2>3 DEF Level, q
  <2>5. \A c \in new : Level(c, j, x)
    BY <1>12, <2>4
  <2>6. Even(new)
    <3> HIDE DEF new
    <3> QED BY <2>5 DEF Even
  <2>7. Merge(heap, n + k + 1) = new
    BY <1>2 DEF id, J
  <2> HIDE DEF new
  <2> QED BY <1>8, <2>6, <2>7
<1>16. CASE b.weight # p
  <2>1. b.weight > p /\ a.weight >= p /\ a.weight <= q /\ b.weight <= q /\ a.weight \in Nat /\ b.weight \in Nat
    <3>1. a.weight >= p /\ a.weight <= q /\ b.weight >= p /\ b.weight <= q /\ a.weight \in Nat /\ b.weight \in Nat
      BY <1>6, <1>13
    <3> QED BY <1>11, <1>16, <3>1
  <2>2. \A c \in heap \ {a, b} : c.weight = q
    <3> TAKE c \in heap \ {a, b}
    <3>1. c.weight \in Nat /\ b.weight <= c.weight
      BY <1>6, <1>14
    <3>2. c.weight > p
      BY <1>11, <2>1, <3>1
    <3>3. CASE c # x
      BY <1>13, <3>2, <3>3
    <3>4. CASE c = x
      <4>1. b.weight = q
        BY <1>13, <2>1, <3>4
      <4>2. c.weight <= q
        BY <1>13
      <4> QED BY <1>11, <3>1, <4>1, <4>2
    <3> QED BY <3>3, <3>4
  <2>3. J.weight > q /\ J.weight <= r /\ (J.weight = r \/ J.weight < r)
    BY <1>5, <1>11, <2>1
  <2>4. j + 1 \in 0 .. 9
    <3>1. q < 512
      BY <1>7, <1>11, <2>3
    <3>2. ASSUME j = 9 PROVE FALSE
      <4>1. q = Pow[10] /\ Pow[10] = 2 * Pow[9] /\ Pow[9] = 512
        <5>1. 9 \in 0 .. 15 /\ 9 + 1 = 10
          OBVIOUS
        <5> QED BY <3>2, <5>1, Powers
      <4> QED BY <3>1, <4>1
    <3> QED BY <3>2
  <2>5. UpTo(J, j + 2)
    <3>1. UpTo(a, j + 1) /\ UpTo(b, j + 1) /\ j + 1 \in Nat
      BY <1>13
    <3>2. UpTo(J, (j + 1) + 1)
      BY <1>10, <3>1
    <3> QED BY <1>11, <3>2
  <2>6. ASSUME NEW c \in new PROVE Level(c, j + 1, J)
    <3>1. CASE c = J
      <4>1. CASE J.weight = r
        BY <1>11, <2>5, <3>1, <4>1 DEF Level, r
      <4>2. CASE J.weight < r
        BY <1>11, <2>3, <2>5, <3>1, <4>2 DEF Level, r, q
      <4> QED BY <2>3, <4>1, <4>2
    <3>2. CASE c # J
      <4>1. c \in heap \ {a, b}
        BY <3>2
      <4>2. c.weight = q /\ UpTo(c, j + 1)
        BY <1>13, <2>2, <4>1
      <4> QED BY <4>2 DEF Level, q
    <3> QED BY <3>1, <3>2
  <2>7. J \in AnyNode
    BY <1>5 DEF IsTree
  <2> DEFINE i_ == j + 1
  <2>8. i_ \in 0 .. 9 /\ \A c \in new : Level(c, i_, J)
    BY <2>4, <2>6
  <2>9. Even(new)
    <3> HIDE DEF new, i_
    <3> QED BY <2>7, <2>8 DEF Even
  <2>10. Merge(heap, n + k + 1) = new
    BY <1>2 DEF id, J
  <2> HIDE DEF new
  <2> QED BY <1>8, <2>9, <2>10
<1> QED BY <1>15, <1>16

LEMMA EvenTree ==
  ASSUME NEW n \in Nat, NEW freq \in [0 .. n -> Nat], \A s \in 0 .. n : freq[s] <= 1,
         NEW used, used = UsedSymbols(freq), NEW c \in Nat, Cardinality(used) = c, c > 1, c <= 512,
         NEW cap \in 1 .. 15, c <= Pow[cap]
  PROVE  Tallest(StandardHuffman(freq)) <= cap
<1> DEFINE top == c - 1
           H == Heaps(freq)
           T == {m \in Nat : m <= top => Weighted(H[m]) /\ Even(H[m])}
<1>1. used # {} /\ IsFiniteSet(used) /\ used \in SUBSET (0 .. n)
  <2>1. IsFiniteSet(0 .. n) /\ used \in SUBSET (0 .. n)
    <3>1. used \in SUBSET (0 .. n)
      BY DEF UsedSymbols
    <3> QED BY <3>1, FS_Interval
  <2>2. used # {}
    <3> SUFFICES ASSUME used = {} PROVE FALSE
      OBVIOUS
    <3>1. Cardinality({}) = 0
      BY FS_EmptySet
    <3>2. Cardinality(used) # 0
      OBVIOUS
    <3> QED BY <3>1, <3>2, Zenon
  <2> QED BY <2>1, <2>2, FS_Subset
<1>2. top \in Nat /\ c \in 1 .. 512 /\ c > 1 /\ c \in Nat
  OBVIOUS
<1>3. /\ H[0] = {Leaf(s, freq[s]) : s \in used}
      /\ \A k \in 1 .. top : H[k] = Merge(H[k - 1], n + k)
      /\ \A k \in 0 .. top : HeapOK(H[k], used, n, k)
  BY <1>1, HeapsAre
<1> HIDE DEF top, H
<1>4. 0 \in T
  <2>1. ASSUME NEW a \in H[0] PROVE a.weight = Cardinality(a.leaves) /\ Level(a, 0, a) /\ \A x : Level(a, 0, x)
    <3>1. PICK s \in used : a = Leaf(s, freq[s])
      BY <1>3
    <3>2. freq[s] = 1
      <4>1. freq[s] > 0 /\ freq[s] \in Nat /\ freq[s] <= 1
        BY <1>1 DEF UsedSymbols
      <4> QED BY <4>1
    <3>3. a.weight = 1 /\ a.leaves = {[sym |-> s, depth |-> 0]}
      BY <3>1, <3>2 DEF Leaf
    <3>4. Cardinality(a.leaves) = 1
      BY <3>3, FS_Singleton
    <3>5. UpTo(a, 0)
      BY <3>3 DEF UpTo
    <3> QED BY <3>3, <3>4, <3>5, Powers DEF Level
  <2> DEFINE z == Leaf(0, 0)
  <2>2. z \in AnyNode
    BY LeafIsTree DEF IsTree
  <2> HIDE DEF z
  <2>3. 0 \in 0 .. 9
    OBVIOUS
  <2> QED BY <2>1, <2>2, <2>3 DEF Weighted, Even
<1>5. ASSUME NEW m \in Nat, m \in T PROVE m + 1 \in T
  <2>1. CASE m + 1 <= top
    <3>1. Weighted(H[m]) /\ Even(H[m]) /\ m \in 0 .. top /\ m + 1 \in 1 .. top /\ (m + 1) - 1 = m /\ n + (m + 1) = n + m + 1
      BY <1>2, <1>5, <2>1
    <3>2. HeapOK(H[m], used, n, m) /\ H[m + 1] = Merge(H[m], n + m + 1)
      BY <1>3, <3>1
    <3>3. m + 1 < c
      BY <1>2, <2>1 DEF top
    <3>4. Weighted(Merge(H[m], n + m + 1)) /\ Even(Merge(H[m], n + m + 1))
      BY <1>1, <1>2, <3>1, <3>2, <3>3, EvenMerge
    <3> QED BY <3>2, <3>4
  <2> QED BY <2>1
<1> HIDE DEF T
<1>6. Weighted(H[top]) /\ Even(H[top]) /\ HeapOK(H[top], used, n, top)
  <2>1. top \in T
    BY <1>2, <1>4, <1>5, Induction
  <2>2. top \in 0 .. top /\ top <= top
    BY <1>2
  <2> QED BY <1>3, <2>1, <2>2 DEF T
<1> DEFINE lengths == StandardHuffman(freq)
<1>7. PICK root \in H[top] :
           /\ IsTree(root) /\ Symbols(root) = used
           /\ lengths \in [0 .. n -> Nat]
           /\ \A l \in root.leaves : l.sym \in 0 .. n /\ lengths[l.sym] = l.depth /\ l.depth > 0
           /\ \A s \in 0 .. n : s \notin used => lengths[s] = 0
  <2> HIDE DEF lengths
  <2>1. lengths = StandardHuffman(freq) /\ Cardinality(UsedSymbols(freq)) > 1 /\ Cardinality(UsedSymbols(freq)) = c
    BY <1>2 DEF lengths
  <2>2. H[top] = Heaps(freq)[Cardinality(UsedSymbols(freq)) - 1]
    BY DEF H, top
  <2>3. \E root \in Heaps(freq)[Cardinality(UsedSymbols(freq)) - 1] : BuiltFrom(root, freq, lengths, n)
    BY <2>1, HuffmanIs
  <2> QED BY <2>2, <2>3 DEF BuiltFrom
<1> HIDE DEF lengths
<1>8. root.weight <= Pow[cap] /\ root.weight \in Nat
  <2>1. Cardinality(root.leaves) <= Cardinality(used) /\ Cardinality(root.leaves) \in Nat \ {0}
    BY <1>1, <1>2, <1>6, LeavesAreUsed
  <2>2. root.weight = Cardinality(root.leaves)
    BY <1>6 DEF Weighted
  <2>3. Pow[cap] \in Nat
    <3>1. cap \in 0 .. 16
      OBVIOUS
    <3> QED BY <3>1, PowNat
  <2> DEFINE m == Cardinality(root.leaves)
  <2> HIDE DEF m
  <2>4. m \in Nat /\ m <= c /\ root.weight = m
    BY <2>1, <2>2 DEF m
  <2> QED BY <1>2, <2>3, <2>4
<1>9. PICK j \in 0 .. 9, x \in AnyNode : Level(root, j, x)
  BY <1>6, <1>7 DEF Even
<1>10. \A i_ \in 0 .. 15 : Pow[i_] <= Pow[cap] => i_ <= cap
  <2> TAKE i_ \in 0 .. 15
  <2>1. CASE cap < i_
    <3>1. cap \in 0 .. 15 /\ cap \in 0 .. 16
      OBVIOUS
    <3>2. 2 * Pow[cap] <= Pow[i_] /\ Pow[cap] \in Nat /\ Pow[cap] > 0 /\ Pow[i_] \in Nat
      <4>1. i_ \in 0 .. 16
        OBVIOUS
      <4> QED BY <2>1, <3>1, <4>1, PowersGrow, PowNat
    <3> QED BY <3>2
  <2>2. i_ \in Int /\ cap \in Int /\ (i_ <= cap \/ cap < i_)
    OBVIOUS
  <2> QED BY <2>1, <2>2
<1>11. UpTo(root, cap)
  <2>1. \A l \in root.leaves : l.depth \in Nat
    BY <1>7 DEF IsTree, AnyNode, AnyLeaf
  <2> SUFFICES \E d \in 0 .. cap : UpTo(root, d)
    <3> PICK d \in 0 .. cap : UpTo(root, d)
      OBVIOUS
    <3> SUFFICES ASSUME NEW l \in root.leaves PROVE l.depth <= cap
      BY DEF UpTo
    <3>1. l.depth <= d /\ l.depth \in Nat
      BY <2>1 DEF UpTo
    <3>2. cap \in Nat /\ d \in Nat /\ d <= cap
      OBVIOUS
    <3>3. \A a, b, e \in Nat : a <= b /\ b <= e => a <= e
      OBVIOUS
    <3> QED BY <3>1, <3>2, <3>3, Zenon
  <2>2. j \in 0 .. 15 /\ j + 1 \in 0 .. 15 /\ j \in 0 .. 16 /\ cap \in 0 .. 15 /\ cap \in 0 .. 16
    OBVIOUS
  <2>3. CASE root.weight = Pow[j] /\ UpTo(root, j)
    <3>1. j <= cap
      BY <1>8, <1>10, <2>2, <2>3
    <3>2. j \in 0 .. cap
      BY <3>1
    <3> QED BY <2>3, <3>2
  <2>4. CASE root.weight = Pow[j + 1] /\ UpTo(root, j + 1)
    <3> DEFINE e == j + 1
    <3>2. e \in 0 .. 15 /\ Pow[e] <= Pow[cap]
      BY <1>8, <2>2, <2>4
    <3> HIDE DEF e
    <3>3. e <= cap
      BY <1>10, <3>2
    <3>1. e \in 0 .. cap /\ UpTo(root, e)
      BY <2>4, <3>2, <3>3 DEF e
    <3> QED BY <3>1
  <2>5. CASE Pow[j] < root.weight /\ UpTo(root, j + 1)
    <3>1. Pow[j] < Pow[cap] /\ Pow[j] \in Nat /\ Pow[cap] \in Nat
      <4>1. Pow[j] \in Nat /\ Pow[cap] \in Nat
        BY <2>2, PowNat
      <4> QED BY <1>8, <2>5, <4>1
    <3>2. j <= cap /\ j # cap
      <4>1. Pow[j] <= Pow[cap] /\ Pow[j] # Pow[cap]
        <5>1. \A a, b \in Nat : a < b => a <= b /\ a # b
          OBVIOUS
        <5> QED BY <3>1, <5>1, Zenon
      <4>2. j <= cap
        BY <1>10, <2>2, <4>1
      <4> QED BY <4>1, <4>2
    <3>3. j + 1 \in 0 .. cap
      BY <3>2
    <3> QED BY <2>5, <3>3
  <2> QED BY <1>9, <2>3, <2>4, <2>5 DEF Level
<1>12. \A s \in 0 .. n : lengths[s] <= cap
  <2> TAKE s \in 0 .. n
  <2>1. CASE s \in used
    <3>1. PICK l \in root.leaves : l.sym = s
      BY <1>7, <2>1 DEF Symbols
    <3> QED BY <1>7, <1>11, <3>1 DEF UpTo
  <2>2. CASE s \notin used
    <3>1. lengths[s] = 0
      BY <1>7, <2>2
    <3> QED BY <3>1
  <2> QED BY <2>1, <2>2
<1>13. \E s \in 0 .. n : lengths[s] = Tallest(lengths)
  BY <1>7, TallestIs
<1> QED BY <1>12, <1>13 DEF lengths

LEMMA RequiredIs ==
  ASSUME NEW c \in 1 .. 512
  PROVE  /\ RequiredBits(c) \in 0 .. c /\ 2 ^ RequiredBits(c) >= c
         /\ \A k \in 0 .. RequiredBits(c) - 1 : 2 ^ k < c
<1>1. \E b \in 0 .. c : 2 ^ b >= c /\ \A k \in 0 .. b - 1 : 2 ^ k < c
  <2> DEFINE B == {b \in 0 .. 9 : Pow[b] >= c}
  <2>1. B \in SUBSET Nat /\ B # {}
    <3>1. 9 \in 0 .. 9 /\ Pow[9] >= c
      BY Powers
    <3> QED BY <3>1
  <2>2. PICK b \in B : \A y \in B : b <= y
    <3> HIDE DEF B
    <3> QED BY <2>1, Least
  <2>3. b \in 0 .. 9 /\ Pow[b] >= c
    BY <2>2
  <2>4. ASSUME NEW k \in 0 .. b - 1 PROVE Pow[k] < c /\ 2 ^ k < c
    <3>1. k \in 0 .. 9 /\ k \in 0 .. 16 /\ ~ (b <= k)
      BY <2>3
    <3>2. ~ (Pow[k] >= c) /\ Pow[k] \in Nat
      <4>1. k \notin B
        BY <2>2, <3>1
      <4> QED BY <3>1, <4>1, PowNat
    <3>3. Pow[k] < c
      BY <3>2
    <3>4. 2 ^ k = Pow[k]
      BY <3>1, PowIs, Zenon
    <3> QED BY <3>3, <3>4, Zenon
  <2>5. b <= c
    <3>1. CASE b = 0
      BY <3>1
    <3>2. CASE b # 0
      <4> DEFINE e == b - 1
      <4>1. e \in 0 .. b - 1 /\ e \in 0 .. 8 /\ b = e + 1
        BY <2>3, <3>2
      <4> HIDE DEF e
      <4>2. Pow[e] < c
        BY <2>4, <4>1
      <4>3. e < Pow[e] \/ e <= Pow[e]
        <5> DEFINE T == {m \in Nat : m <= 9 => m <= Pow[m]}
        <5>1. 0 \in T
          BY Powers
        <5>2. ASSUME NEW m \in Nat, m \in T PROVE m + 1 \in T
          <6>1. CASE m + 1 <= 9
            <7>1. m \in 0 .. 15 /\ m \in 0 .. 16 /\ m <= Pow[m]
              BY <5>2, <6>1
            <7>2. Pow[m + 1] = 2 * Pow[m] /\ Pow[m] > 0 /\ Pow[m] \in Nat
              BY <7>1, Powers, PowNat
            <7> QED BY <7>1, <7>2
          <6> QED BY <6>1
        <5> HIDE DEF T
        <5>3. e \in T
          BY <4>1, <5>1, <5>2, Induction
        <5> QED BY <4>1, <5>3 DEF T
      <4>4. Pow[e] \in Nat
        <5>1. e \in 0 .. 16
          BY <4>1
        <5> QED BY <5>1, PowNat
      <4> QED BY <4>1, <4>2, <4>3, <4>4
    <3> QED BY <3>1, <3>2
  <2>6. 2 ^ b >= c
    <3>1. b \in 0 .. 16
      BY <2>3
    <3>2. 2 ^ b = Pow[b]
      BY <3>1, PowIs, Zenon
    <3> QED BY <2>3, <3>2, Zenon
  <2>7. b \in 0 .. c
    BY <2>3, <2>5
  <2> HIDE DEF B
  <2> QED BY <2>4, <2>6, <2>7, Zenon
<1> QED BY <1>1, Zenon DEF RequiredBits

(* An alphabet that is not too large for codes of cap bits.                *)
LEMMA RequiredFits ==
  ASSUME NEW c \in 1 .. 512, NEW cap \in 1 .. 15, ~ (RequiredBits(c) > cap)
  PROVE  c <= Pow[cap]
<1> DEFINE r == RequiredBits(c)
<1>2. r \in 0 .. c /\ 2 ^ r >= c
  BY RequiredIs, Zenon
<1> HIDE DEF r
<1>3. r <= cap /\ r \in 0 .. 15 /\ r \in 0 .. 16
  BY <1>2 DEF r
<1>4. 2 ^ r = Pow[r]
  BY <1>3, PowIs, Zenon
<1>5. Pow[r] >= c
  BY <1>2, <1>4, Zenon
<1>6. Pow[r] <= Pow[cap]
  <2>1. CASE r = cap
    <3>1. Pow[r] \in Nat
      BY <1>3, PowNat
    <3> QED BY <2>1, <3>1
  <2>2. CASE r < cap
    <3>1. cap \in 0 .. 15 /\ cap \in 0 .. 16
      OBVIOUS
    <3>2. 2 * Pow[r] <= Pow[cap] /\ Pow[r] \in Nat /\ Pow[cap] \in Nat
      BY <1>3, <2>2, <3>1, PowersGrow, PowNat
    <3> QED BY <3>2
  <2> QED BY <1>3, <2>1, <2>2
<1>7. Pow[r] \in Nat /\ Pow[cap] \in Nat
  <2>1. cap \in 0 .. 16
    OBVIOUS
  <2> QED BY <1>3, <2>1, PowNat
<1> QED BY <1>5, <1>6, <1>7

LEMMA RequiredSmall == ASSUME NEW c \in 1 .. 32 PROVE RequiredBits(c) <= 5
<1> DEFINE r == RequiredBits(c)
<1>1. c \in 1 .. 512
  OBVIOUS
<1>2. r \in 0 .. c /\ \A k \in 0 .. r - 1 : 2 ^ k < c
  BY <1>1, RequiredIs, Zenon
<1> HIDE DEF r
<1>3. ASSUME r > 5 PROVE FALSE
  <2>1. 5 \in 0 .. r - 1
    BY <1>2, <1>3
  <2>2. 2 ^ 5 < c
    BY <1>2, <2>1, Zenon
  <2>3. 2 ^ 5 = 32
    OBVIOUS
  <2>4. 32 < c
    BY <2>2, <2>3
  <2> QED BY <2>4
<1> QED BY <1>2, <1>3 DEF r
-----------------------------------------------------------------------------
(* Tables of frequencies and of lengths.                                   *)
LEMMA LitFrequenciesAre ==
  ASSUME tokens \in Seq(DeflateTokens), NEW enc
  PROVE  LitFrequencies(enc) \in [0 .. 285 -> Nat] /\ LitFrequencies(enc)[256] > 0
<1> DEFINE n == Len(tokens)
           syms == [k \in 1 .. n |-> LitSymbol(enc, tokens[k])]
           P(s) == {k \in DOMAIN syms : syms[k] = s}
           one(s) == IF s = 256 THEN 1 ELSE 0
<1>1. LitFrequencies(enc) = [s \in 0 .. 285 |-> Cardinality(P(s)) + one(s)]
  BY DEF LitFrequencies
<1>2. n \in Nat
  OBVIOUS
<1>3. \A s : P(s) \subseteq 1 .. n
  OBVIOUS
<1> HIDE DEF P, n
<1>4. \A s : Cardinality(P(s)) \in Nat
  BY <1>2, <1>3, CountsNat
<1>5. \A s : Cardinality(P(s)) + one(s) \in Nat
  BY <1>4
<1>6. Cardinality(P(256)) + one(256) > 0 /\ 256 \in 0 .. 285
  BY <1>4
<1> HIDE DEF one
<1> QED BY <1>1, <1>5, <1>6, ZenonT(60)

LEMMA DistFrequenciesAre ==
  ASSUME tokens \in Seq(DeflateTokens), NEW enc
  PROVE  DistFrequencies(enc) \in [0 .. 29 -> Nat]
<1> DEFINE n == Len(tokens)
           P(s) == {k \in DOMAIN tokens : ~ is_literal(tokens[k]) /\ DistanceOf(enc, tokens[k]).sym = s}
<1>1. DistFrequencies(enc) = [s \in 0 .. 29 |-> Cardinality(P(s))]
  BY DEF DistFrequencies
<1>2. n \in Nat
  OBVIOUS
<1>3. \A s : P(s) \subseteq 1 .. n
  OBVIOUS
<1> HIDE DEF P, n
<1>4. \A s : Cardinality(P(s)) \in Nat
  BY <1>2, <1>3, CountsNat
<1> QED BY <1>1, <1>4

LEMMA MetaFrequenciesAre ==
  ASSUME NEW V, NEW entries \in Seq(V)
  PROVE  /\ MetaFrequencies(entries) \in [0 .. 18 -> Nat]
         /\ \A k \in DOMAIN entries : entries[k].code \in 0 .. 18 => MetaFrequencies(entries)[entries[k].code] > 0
<1> DEFINE n == Len(entries)
           P(s) == {k \in DOMAIN entries : entries[k].code = s}
<1>1. MetaFrequencies(entries) = [s \in 0 .. 18 |-> Cardinality(P(s))]
  BY DEF MetaFrequencies
<1>2. n \in Nat
  OBVIOUS
<1>3. \A s : P(s) \subseteq 1 .. n
  OBVIOUS
<1>4. \A k \in DOMAIN entries : P(entries[k].code) # {}
  OBVIOUS
<1> HIDE DEF P, n
<1>5. \A s : Cardinality(P(s)) \in Nat /\ (P(s) # {} => Cardinality(P(s)) > 0)
  BY <1>2, <1>3, CountsNat
<1> QED BY <1>1, <1>4, <1>5

LEMMA UsedIs ==
  ASSUME NEW n \in Nat, NEW f \in [0 .. n -> Nat]
  PROVE  /\ UsedSymbols(f) \in SUBSET (0 .. n) /\ IsFiniteSet(UsedSymbols(f))
         /\ Cardinality(UsedSymbols(f)) \in Nat /\ Cardinality(UsedSymbols(f)) <= n + 1
         /\ \A s \in 0 .. n : s \in UsedSymbols(f) <=> f[s] # 0
<1>1. IsFiniteSet(0 .. n) /\ Cardinality(0 .. n) = n + 1
  <2>1. 0 \in Int /\ n \in Int
    OBVIOUS
  <2>2. IsFiniteSet(0 .. n) /\ Cardinality(0 .. n) = IF 0 > n THEN 0 ELSE n - 0 + 1
    BY <2>1, FS_Interval
  <2>3. ~ (0 > n) /\ n - 0 + 1 = n + 1
    OBVIOUS
  <2> QED BY <2>2, <2>3
<1>2. UsedSymbols(f) \in SUBSET (0 .. n)
  BY DEF UsedSymbols
<1>3. IsFiniteSet(UsedSymbols(f)) /\ Cardinality(UsedSymbols(f)) <= Cardinality(0 .. n)
  BY <1>1, <1>2, FS_Subset
<1>4. \A s \in 0 .. n : s \in UsedSymbols(f) <=> f[s] # 0
  BY DEF UsedSymbols
<1> QED BY <1>1, <1>2, <1>3, <1>4, FS_CardinalityType

LEMMA HalvedIs ==
  ASSUME NEW n \in Nat, NEW f \in [0 .. n -> Nat]
  PROVE  /\ Halved(f) \in [0 .. n -> Nat] /\ UsedSymbols(Halved(f)) = UsedSymbols(f)
         /\ Halved(f) = f => \A s \in 0 .. n : f[s] <= 1
<1>1. Halved(f) = [s \in 0 .. n |-> IF f[s] > 1 THEN f[s] \div 2 ELSE f[s]]
  BY DEF Halved
<1>2. \A x \in Nat : x > 1 => x \div 2 \in Nat /\ x \div 2 > 0 /\ x \div 2 < x
  OBVIOUS
<1>3. \A s \in 0 .. n : /\ Halved(f)[s] \in Nat /\ (Halved(f)[s] > 0 <=> f[s] > 0)
                        /\ Halved(f)[s] = f[s] => f[s] <= 1
  <2> TAKE s \in 0 .. n
  <2> DEFINE x == f[s]
             y == Halved(f)[s]
  <2>1. x \in Nat /\ y = IF x > 1 THEN x \div 2 ELSE x
    BY <1>1
  <2> HIDE DEF x, y
  <2> QED BY <1>2, <2>1 DEF x, y
<1>4. Halved(f) \in [0 .. n -> Nat]
  BY <1>1, <1>3
<1>5. UsedSymbols(Halved(f)) = UsedSymbols(f)
  <2>1. DOMAIN Halved(f) = 0 .. n /\ DOMAIN f = 0 .. n
    BY <1>4
  <2> QED BY <1>3, <2>1 DEF UsedSymbols
<1> QED BY <1>3, <1>4, <1>5

(* Halving ends with a tree that fits, for any alphabet of the block.      *)
LEMMA HalvingFits ==
  ASSUME NEW n \in Nat, n <= 511, NEW f \in [0 .. n -> Nat], NEW cap \in 1 .. 15,
         ~ Degenerate(f), ~ TooMany(f, cap), Halved(f) = f
  PROVE  Tallest(StandardHuffman(f)) <= cap
<1> DEFINE used == UsedSymbols(f)
           c == Cardinality(used)
<1>1. c \in Nat /\ c <= n + 1
  BY UsedIs
<1>2. ~ (c <= 1) /\ ~ (RequiredBits(c) > cap)
  BY DEF Degenerate, TooMany
<1>3. used = UsedSymbols(f) /\ Cardinality(used) = c
  OBVIOUS
<1> HIDE DEF used, c
<1>4. c > 1 /\ c <= 512 /\ c \in 1 .. 512
  BY <1>1, <1>2
<1>5. c <= Pow[cap]
  BY <1>2, <1>4, RequiredFits
<1>6. \A s \in 0 .. n : f[s] <= 1
  BY HalvedIs
<1> QED BY <1>1, <1>3, <1>4, <1>5, <1>6, EvenTree, ZenonT(60)

(* A table made of a tree.                                                 *)
LEMMA TreeTable ==
  ASSUME NEW n \in Nat, NEW f \in [0 .. n -> Nat], ~ Degenerate(f), NEW cap \in 1 .. 15,
         NEW t, t = StandardHuffman(f), Tallest(t) <= cap
  PROVE  t \in [0 .. n -> 0 .. cap] /\ UsedSymbols(t) = UsedSymbols(f) /\ Slack(t, cap) = 0
<1> DEFINE c == Cardinality(UsedSymbols(f))
<1>1. c \in Nat /\ ~ (c <= 1)
  BY UsedIs DEF Degenerate
<1> HIDE DEF c
<1>2. c > 1
  BY <1>1
<1>3. Cardinality(UsedSymbols(f)) > 1
  BY <1>2 DEF c
<1>4. Slack(t, cap) = 0
  BY <1>3, TreeComplete
<1>5. PICK root \in Heaps(f)[Cardinality(UsedSymbols(f)) - 1] : BuiltFrom(root, f, t, n)
  BY <1>3, HuffmanIs
<1>6. t \in [0 .. n -> Nat]
  BY <1>5 DEF BuiltFrom
<1>7. Tallest(t) \in Nat /\ \A s \in 0 .. n : t[s] <= Tallest(t)
  BY <1>6, TallestIs
<1>8. \A s \in 0 .. n : t[s] \in 0 .. cap
  BY <1>6, <1>7
<1>9. ASSUME NEW s \in 0 .. n PROVE s \in UsedSymbols(t) <=> s \in UsedSymbols(f)
  <2>1. CASE s \in UsedSymbols(f)
    <3>1. PICK l \in root.leaves : l.sym = s
      BY <1>5, <2>1 DEF BuiltFrom, Symbols
    <3>2. t[s] > 0
      BY <1>5, <3>1 DEF BuiltFrom
    <3> QED BY <1>6, <2>1, <3>2 DEF UsedSymbols
  <2>2. CASE s \notin UsedSymbols(f)
    <3>1. t[s] = 0
      BY <1>5, <2>2 DEF BuiltFrom
    <3> QED BY <1>6, <2>2, <3>1 DEF UsedSymbols
  <2> QED BY <2>1, <2>2
<1>10. UsedSymbols(t) = UsedSymbols(f)
  <2>1. UsedSymbols(t) \in SUBSET (0 .. n) /\ UsedSymbols(f) \in SUBSET (0 .. n)
    BY <1>6, UsedIs
  <2> QED BY <1>9, <2>1
<1> QED BY <1>4, <1>6, <1>8, <1>10
-----------------------------------------------------------------------------
(* What is built, and what the padding makes of it.                        *)
LitBuilt(t) ==
  /\ t \in [0 .. 285 -> 0 .. LitCap] /\ t[256] > 0
  /\ \/ Slack(t, LitCap) = 0 /\ Cardinality(UsedSymbols(t)) > 1
     \/ \A s \in 0 .. 285 : t[s] = IF s = 256 THEN 1 ELSE 0

DistBuilt(t) ==
  /\ t \in [0 .. 29 -> 0 .. LitCap]
  /\ \/ Slack(t, LitCap) = 0 /\ Cardinality(UsedSymbols(t)) > 1
     \/ (\A s \in 0 .. 29 : t[s] \in {0, 1}) /\ Cardinality(UsedSymbols(t)) <= 1

LitPadded(t) == t \in [0 .. 285 -> 0 .. LitCap] /\ t[256] > 0 /\ Slack(t, LitCap) = 0
DistPadded(t) == t \in [0 .. 29 -> 0 .. LitCap] /\ Slack(t, LitCap) = 0

LEMMA TreeFits ==
  ASSUME NEW n \in Nat, NEW f \in [0 .. n -> Nat], ~ Degenerate(f),
         NEW t, t = StandardHuffman(f), Tallest(t) <= LitCap
  PROVE  t \in [0 .. n -> 0 .. LitCap] /\ UsedSymbols(t) = UsedSymbols(f) /\ Slack(t, LitCap) = 0
<1>1. LitCap \in 1 .. 15
  BY DeflateAssumption
<1> QED BY <1>1, TreeTable, Zenon

LEMMA TwoOnesFit ==
  ASSUME NEW D, NEW t \in [D -> Nat], NEW x \in D, NEW y \in D, x # y,
         t[x] = 1, t[y] = 1, \A s \in D : s \notin {x, y} => t[s] = 0
  PROVE  Slack(t, LitCap) = 0
<1>1. PICK cap \in 1 .. 15 : cap = LitCap
  BY DeflateAssumption
<1>2. Slack(t, cap) = 0
  BY TwoOnesComplete
<1> QED BY <1>1, <1>2

LEMMA AcceptsLit ==
  ASSUME NEW f \in [0 .. 285 -> Nat], f[256] > 0,
         NEW t, \/ Degenerate(f) /\ t = DegenerateLengths(f)
                \/ ~ Degenerate(f) /\ t = StandardHuffman(f) /\ Tallest(t) <= LitCap
  PROVE  LitBuilt(t)
<1>0. 285 \in Nat /\ LitCap \in 1 .. 15
  BY DeflateAssumption
<1>1. 256 \in UsedSymbols(f)
  BY DEF UsedSymbols
<1> DEFINE U == UsedSymbols(f)
           c == Cardinality(U)
<1>2. c \in Nat /\ IsFiniteSet(U) /\ U \subseteq 0 .. 285 /\ \A s \in 0 .. 285 : s \in U <=> f[s] # 0
  BY <1>0, UsedIs, ZenonT(60)
<1>3. CASE Degenerate(f) /\ t = DegenerateLengths(f)
  <2>1. c <= 1
    BY <1>3 DEF Degenerate
  <2>2. U = {256}
    <3>1. ASSUME NEW s \in U, s # 256 PROVE FALSE
      <4>1. {s, 256} \subseteq U
        BY <1>1
      <4>2. Cardinality({s, 256}) <= c
        BY <1>2, <4>1, FS_Subset
      <4>3. Cardinality({s, 256}) = 2
        <5>1. IsFiniteSet({s}) /\ Cardinality({s}) = 1 /\ 256 \notin {s} /\ {s} \cup {256} = {s, 256}
          BY <3>1, FS_Singleton, ZenonT(60)
        <5>2. Cardinality({s} \cup {256}) = Cardinality({s}) + 1
          BY <5>1, FS_AddElement
        <5>3. Cardinality({s, 256}) = 1 + 1
          BY <5>1, <5>2, Zenon
        <5> QED BY <5>3
      <4> HIDE DEF c
      <4> QED BY <1>2, <2>1, <4>2, <4>3
    <3> HIDE DEF U
    <3> QED BY <1>1, <3>1 DEF U
  <2>3. t = [s \in 0 .. 285 |-> IF f[s] > 0 THEN 1 ELSE 0]
    BY <1>3 DEF DegenerateLengths
  <2>4. \A s \in 0 .. 285 : t[s] = IF s = 256 THEN 1 ELSE 0
    <3> TAKE s \in 0 .. 285
    <3>1. s \in U <=> s = 256
      BY <2>2
    <3>2. f[s] \in Nat
      OBVIOUS
    <3>3. t[s] = IF f[s] > 0 THEN 1 ELSE 0
      BY <2>3
    <3>4. s = 256 <=> f[s] # 0
      BY <1>2, <3>1
    <3> HIDE DEF U
    <3> QED BY <3>2, <3>3, <3>4
  <2>5. t \in [0 .. 285 -> 0 .. LitCap]
    <3>1. 0 \in 0 .. LitCap /\ 1 \in 0 .. LitCap
      BY <1>0
    <3> QED BY <2>3, <3>1
  <2>6. t[256] > 0
    BY <2>4
  <2> QED BY <2>4, <2>5, <2>6 DEF LitBuilt
<1>4. CASE ~ Degenerate(f) /\ t = StandardHuffman(f) /\ Tallest(t) <= LitCap
  <2>1. t \in [0 .. 285 -> 0 .. LitCap] /\ UsedSymbols(t) = U /\ Slack(t, LitCap) = 0
    <3> DEFINE top == 285
    <3>1. top \in Nat /\ f \in [0 .. top -> Nat]
      BY <1>0
    <3> HIDE DEF top
    <3>2. t \in [0 .. top -> 0 .. LitCap] /\ UsedSymbols(t) = UsedSymbols(f) /\ Slack(t, LitCap) = 0
      BY <1>4, <3>1, TreeFits, ZenonT(60)
    <3> QED BY <3>2 DEF top
  <2>2. ~ (c <= 1)
    BY <1>4 DEF Degenerate
  <2>3. t[256] > 0
    BY <1>1, <2>1 DEF UsedSymbols
  <2>4. c > 1
    <3> HIDE DEF c
    <3> QED BY <1>2, <2>2
  <2> QED BY <2>1, <2>3, <2>4 DEF LitBuilt
<1> QED BY <1>3, <1>4

LEMMA AcceptsDist ==
  ASSUME NEW f \in [0 .. 29 -> Nat],
         NEW t, \/ Degenerate(f) /\ t = DegenerateLengths(f)
                \/ ~ Degenerate(f) /\ t = StandardHuffman(f) /\ Tallest(t) <= LitCap
  PROVE  DistBuilt(t)
<1>0. 29 \in Nat /\ LitCap \in 1 .. 15
  BY DeflateAssumption
<1> DEFINE U == UsedSymbols(f)
           c == Cardinality(U)
<1>2. c \in Nat
  BY <1>0, UsedIs
<1>3. CASE Degenerate(f) /\ t = DegenerateLengths(f)
  <2>1. c <= 1
    BY <1>3 DEF Degenerate
  <2>3. t = [s \in 0 .. 29 |-> IF f[s] > 0 THEN 1 ELSE 0]
    BY <1>3 DEF DegenerateLengths
  <2>4. UsedSymbols(t) = U
    BY <2>3 DEF UsedSymbols
  <2>5. t \in [0 .. 29 -> 0 .. LitCap] /\ \A s \in 0 .. 29 : t[s] \in {0, 1}
    BY <1>0, <2>3
  <2> QED BY <2>1, <2>4, <2>5 DEF DistBuilt
<1>4. CASE ~ Degenerate(f) /\ t = StandardHuffman(f) /\ Tallest(t) <= LitCap
  <2>1. t \in [0 .. 29 -> 0 .. LitCap] /\ UsedSymbols(t) = U /\ Slack(t, LitCap) = 0
    <3> DEFINE top == 29
    <3>1. top \in Nat /\ f \in [0 .. top -> Nat]
      BY <1>0
    <3> HIDE DEF top
    <3>2. t \in [0 .. top -> 0 .. LitCap] /\ UsedSymbols(t) = UsedSymbols(f) /\ Slack(t, LitCap) = 0
      BY <1>4, <3>1, TreeFits
    <3> QED BY <3>2 DEF top
  <2>2. ~ (c <= 1)
    BY <1>4 DEF Degenerate
  <2>4. c > 1
    <3> HIDE DEF c
    <3> QED BY <1>2, <2>2
  <2> QED BY <2>1, <2>4 DEF DistBuilt
<1> QED BY <1>3, <1>4

LEMMA PadsLit == ASSUME NEW t, LitBuilt(t) PROVE LitPadded(PadLiterals(t))
<1>0. LitCap \in 1 .. 15
  BY DeflateAssumption
<1>1. t \in [0 .. 285 -> 0 .. LitCap] /\ t[256] > 0
  BY DEF LitBuilt
<1> DEFINE c == Cardinality(UsedSymbols(t))
           u == [t EXCEPT ![0] = 1, ![256] = 1]
<1>2. c \in Nat
  <2>1. t \in [0 .. 285 -> Nat] /\ 285 \in Nat
    BY <1>0, <1>1
  <2> QED BY <2>1, UsedIs
<1>3. PadLiterals(t) = IF c < 2 THEN u ELSE t
  BY DEF PadLiterals
<1> HIDE DEF c
<1>4. CASE c < 2
  <2>1. \A s \in 0 .. 285 : t[s] = IF s = 256 THEN 1 ELSE 0
    BY <1>2, <1>4 DEF LitBuilt, c
  <2>2. u \in [0 .. 285 -> Nat] /\ u[0] = 1 /\ u[256] = 1 /\ 0 \in 0 .. 285 /\ 256 \in 0 .. 285 /\ 0 # 256
    BY <1>0, <1>1
  <2>3. \A s \in 0 .. 285 : s \notin {0, 256} => u[s] = 0
    BY <1>1, <2>1
  <2>4. u \in [0 .. 285 -> 0 .. LitCap]
    BY <1>0, <1>1, SMTT(30)
  <2> HIDE DEF u
  <2>5. Slack(u, LitCap) = 0
    <3> DEFINE D == 0 .. 285
               e == 256
    <3>1. u \in [D -> Nat] /\ 0 \in D /\ e \in D /\ 0 # e /\ u[0] = 1 /\ u[e] = 1
      BY <2>2
    <3>2. \A s \in D : s \notin {0, e} => u[s] = 0
      BY <2>3
    <3> HIDE DEF D, e
    <3> QED BY <3>1, <3>2, TwoOnesFit
  <2> QED BY <1>3, <1>4, <2>2, <2>4, <2>5 DEF LitPadded
<1>5. CASE ~ (c < 2)
  <2>1. t[0] # (IF 0 = 256 THEN 1 ELSE 0) \/ Slack(t, LitCap) = 0
    <3>1. ASSUME \A s \in 0 .. 285 : t[s] = IF s = 256 THEN 1 ELSE 0 PROVE FALSE
      <4>1. UsedSymbols(t) = {256}
        BY <1>1, <3>1 DEF UsedSymbols
      <4>2. c = 1
        BY <4>1, FS_Singleton DEF c
      <4> QED BY <1>5, <4>2
    <3> QED BY <3>1 DEF LitBuilt
  <2>2. Slack(t, LitCap) = 0
    <3>1. ASSUME \A s \in 0 .. 285 : t[s] = IF s = 256 THEN 1 ELSE 0 PROVE FALSE
      <4>1. UsedSymbols(t) = {256}
        BY <1>1, <3>1 DEF UsedSymbols
      <4>2. c = 1
        BY <4>1, FS_Singleton DEF c
      <4> QED BY <1>5, <4>2
    <3> QED BY <3>1 DEF LitBuilt
  <2> QED BY <1>1, <1>3, <1>5, <2>2 DEF LitPadded
<1> QED BY <1>4, <1>5

LEMMA PadsDist == ASSUME NEW t, DistBuilt(t) PROVE DistPadded(PadDistances(t))
<1>0. LitCap \in 1 .. 15
  BY DeflateAssumption
<1>1. t \in [0 .. 29 -> 0 .. LitCap]
  BY DEF DistBuilt
<1> DEFINE U == UsedSymbols(t)
           c == Cardinality(U)
           only == CHOOSE s \in U : TRUE
           other == 1 - Lesser(only, 1)
<1>2. t \in [0 .. 29 -> Nat] /\ 29 \in Nat
  BY <1>0, <1>1
<1>3. c \in Nat /\ IsFiniteSet(U) /\ U \subseteq 0 .. 29 /\ \A s \in 0 .. 29 : s \in U <=> t[s] # 0
  BY <1>2, UsedIs
<1>4. PadDistances(t) = CASE c = 0 -> [t EXCEPT ![0] = 1, ![1] = 1]
                          [] c = 1 -> [t EXCEPT ![only] = 1, ![other] = 1]
                          [] OTHER -> t
  BY DEF PadDistances
<1>5. CASE c = 0
  <2> DEFINE u == [t EXCEPT ![0] = 1, ![1] = 1]
  <2>1. U = {}
    BY <1>3, <1>5, FS_EmptySet
  <2>2. u \in [0 .. 29 -> Nat] /\ u[0] = 1 /\ u[1] = 1 /\ 0 \in 0 .. 29 /\ 1 \in 0 .. 29 /\ 0 # 1
    BY <1>0, <1>1
  <2>3. \A s \in 0 .. 29 : s \notin {0, 1} => u[s] = 0
    <3>1. \A s \in 0 .. 29 : t[s] = 0
      <4> HIDE DEF U
      <4> QED BY <1>3, <2>1
    <3> QED BY <1>1, <3>1
  <2>4. u \in [0 .. 29 -> 0 .. LitCap]
    BY <1>0, <1>1
  <2>5. PadDistances(t) = u
    <3> HIDE DEF u, c
    <3> QED BY <1>4, <1>5 DEF u
  <2> HIDE DEF u
  <2>6. Slack(u, LitCap) = 0
    BY <2>2, <2>3, TwoOnesFit
  <2> QED BY <2>4, <2>5, <2>6 DEF DistPadded
<1>6. CASE c = 1
  <2> DEFINE u == [t EXCEPT ![only] = 1, ![other] = 1]
  <2>1. U = {only} /\ only \in 0 .. 29
    <3>1. \E x : U = {x}
      BY <1>3, <1>6, FS_Singleton
    <3>2. only \in U
      BY <3>1
    <3> HIDE DEF U, only
    <3> QED BY <1>3, <3>1, <3>2
  <2> HIDE DEF only
  <2>2. other \in 0 .. 29 /\ other # only
    BY <2>1 DEF Lesser
  <2> HIDE DEF other
  <2>3. u \in [0 .. 29 -> Nat] /\ u[only] = 1 /\ u[other] = 1
    BY <1>0, <1>1, <2>1, <2>2
  <2>4. \A s \in 0 .. 29 : s \notin {only, other} => u[s] = 0
    <3>1. \A s \in 0 .. 29 : s # only => t[s] = 0
      <4>1. \A s \in 0 .. 29 : s # only => s \notin U
        BY <2>1
      <4> HIDE DEF U
      <4> QED BY <1>3, <4>1
    <3> QED BY <1>1, <3>1
  <2>5. u \in [0 .. 29 -> 0 .. LitCap]
    <3>1. 1 \in 0 .. LitCap
      BY <1>0
    <3> QED BY <1>1, <2>1, <2>2, <3>1
  <2>6. PadDistances(t) = u
    <3> HIDE DEF u, c
    <3>1. c # 0
      BY <1>6
    <3> QED BY <1>4, <1>6, <3>1 DEF u
  <2> HIDE DEF u
  <2>7. Slack(u, LitCap) = 0
    BY <2>1, <2>2, <2>3, <2>4, TwoOnesFit
  <2> QED BY <2>5, <2>6, <2>7 DEF DistPadded
<1>7. CASE c # 0 /\ c # 1
  <2>1. PadDistances(t) = t
    <3> HIDE DEF c
    <3> QED BY <1>4, <1>7
  <2>2. ~ (c <= 1)
    <3> HIDE DEF c
    <3> QED BY <1>3, <1>7
  <2>3. Slack(t, LitCap) = 0
    BY <2>2 DEF DistBuilt
  <2> QED BY <1>1, <2>1, <2>3 DEF DistPadded
<1> QED BY <1>5, <1>6, <1>7
-----------------------------------------------------------------------------
(* The header.                                                             *)
LEMMA LargestIn ==
  ASSUME NEW b \in Nat, NEW S \in SUBSET (0 .. b), S # {}
  PROVE  LargestOf(S) \in S /\ \A y \in S : y <= LargestOf(S)
<1> DEFINE R == {b - x : x \in S}
<1>0. \A x \in S : x \in 0 .. b /\ x \in Int
  <2>1. \A x \in S : x \in 0 .. b
    OBVIOUS
  <2>2. \A x \in 0 .. b : x \in Int
    OBVIOUS
  <2> QED BY <2>1, <2>2
<1>1. R \in SUBSET Nat /\ R # {}
  <2>1. \A x \in S : b - x \in Nat
    BY <1>0
  <2> QED BY <2>1
<1>2. PICK r \in R : \A y \in R : r <= y
  <2> HIDE DEF R
  <2> QED BY <1>1, Least
<1>3. PICK x \in S : r = b - x
  BY <1>2
<1>4. ASSUME NEW y \in S PROVE y <= x
  <2>1. r <= b - y
    BY <1>2
  <2> HIDE DEF R
  <2>2. x \in Int /\ y \in Int
    BY <1>0, Zenon
  <2> QED BY <1>3, <2>1, <2>2
<1> HIDE DEF R
<1> QED BY <1>4 DEF LargestOf

LEMMA TrimIs ==
  ASSUME NEW n \in Nat, NEW t \in [0 .. n -> Nat], NEW m \in 1 .. n + 1
  PROVE  trim_to_min(t, m) \in m .. n + 1 /\ \A s \in 0 .. n : s >= trim_to_min(t, m) => t[s] = 0
<1> DEFINE S == {m} \cup {s + 1 : s \in UsedSymbols(t)}
           b == n + 1
<1>1. UsedSymbols(t) \in SUBSET (0 .. n) /\ \A s \in 0 .. n : s \in UsedSymbols(t) <=> t[s] # 0
  BY UsedIs
<1>2. b \in Nat /\ S \in SUBSET (0 .. b) /\ S # {} /\ m \in S
  BY <1>1
<1>3. trim_to_min(t, m) = LargestOf(S)
  BY DEF trim_to_min
<1>4. \A s \in UsedSymbols(t) : s + 1 \in S
  OBVIOUS
<1> DEFINE z == LargestOf(S)
<1> HIDE DEF S
<1>5. z \in S /\ \A y \in S : y <= z
  BY <1>2, LargestIn
<1> HIDE DEF z
<1>6. z \in m .. n + 1
  <2>1. z \in 0 .. b /\ m <= z
    BY <1>2, <1>5
  <2> QED BY <2>1
<1>7. ASSUME NEW s \in 0 .. n, s >= z PROVE t[s] = 0
  <2>1. CASE s \in UsedSymbols(t)
    <3>1. s + 1 <= z
      BY <1>4, <1>5, <2>1
    <3> QED BY <1>6, <1>7, <3>1
  <2> QED BY <1>1, <2>1
<1> QED BY <1>3, <1>6, <1>7 DEF z

HeaderLens(lit, dist) == [k \in 1 .. NLit(lit) |-> lit[k - 1]] \o [k \in 1 .. NDist(dist) |-> dist[k - 1]]

LEMMA HeaderIs ==
  ASSUME NEW lit, LitPadded(lit), NEW dist, DistPadded(dist)
  PROVE  /\ NLit(lit) \in 257 .. 286 /\ NDist(dist) \in 1 .. 30
         /\ \A s \in 0 .. 285 : s >= NLit(lit) => lit[s] = 0
         /\ \A s \in 0 .. 29 : s >= NDist(dist) => dist[s] = 0
         /\ HeaderLens(lit, dist) \in Seq(0 .. 15)
         /\ Len(HeaderLens(lit, dist)) = NLit(lit) + NDist(dist)
         /\ \A s \in 0 .. NLit(lit) - 1 : HeaderLens(lit, dist)[s + 1] = lit[s]
<1>0. LitCap \in 1 .. 15
  BY DeflateAssumption
<1>1. lit \in [0 .. 285 -> Nat] /\ dist \in [0 .. 29 -> Nat] /\ (\A s \in 0 .. 285 : lit[s] \in 0 .. 15)
      /\ \A s \in 0 .. 29 : dist[s] \in 0 .. 15
  <2>1. 0 .. LitCap \subseteq 0 .. 15 /\ 0 .. LitCap \subseteq Nat
    BY <1>0
  <2>2. lit \in [0 .. 285 -> 0 .. LitCap] /\ dist \in [0 .. 29 -> 0 .. LitCap]
    BY DEF LitPadded, DistPadded
  <2> DEFINE W == 0 .. LitCap
  <2> HIDE DEF W
  <2>3. W \subseteq 0 .. 15 /\ W \subseteq Nat /\ lit \in [0 .. 285 -> W] /\ dist \in [0 .. 29 -> W]
    BY <2>1, <2>2 DEF W
  <2> QED BY <2>3
<1> DEFINE a == NLit(lit)
           b == NDist(dist)
<1>2. a \in 257 .. 286 /\ \A s \in 0 .. 285 : s >= a => lit[s] = 0
  <2> DEFINE top == 285
             m == 257
  <2>1. top \in Nat /\ m \in 1 .. top + 1 /\ lit \in [0 .. top -> Nat]
    BY <1>1
  <2>2. a = trim_to_min(lit, m)
    BY DEF NLit
  <2> HIDE DEF a, top, m
  <2>3. a \in m .. top + 1 /\ \A s \in 0 .. top : s >= a => lit[s] = 0
    BY <2>1, <2>2, TrimIs
  <2> QED BY <2>3 DEF top, m
<1>3. b \in 1 .. 30 /\ \A s \in 0 .. 29 : s >= b => dist[s] = 0
  <2> DEFINE top == 29
             m == 1
  <2>1. top \in Nat /\ m \in 1 .. top + 1 /\ dist \in [0 .. top -> Nat]
    BY <1>1
  <2>2. b = trim_to_min(dist, m)
    BY DEF NDist
  <2> HIDE DEF b, top, m
  <2>3. b \in m .. top + 1 /\ \A s \in 0 .. top : s >= b => dist[s] = 0
    BY <2>1, <2>2, TrimIs
  <2> QED BY <2>3 DEF top, m
<1> HIDE DEF a, b
<1> DEFINE x == [k \in 1 .. a |-> lit[k - 1]]
           y == [k \in 1 .. b |-> dist[k - 1]]
           V == 0 .. 15
<1>4. x \in Seq(V) /\ Len(x) = a /\ \A s \in 0 .. a - 1 : s + 1 \in 1 .. a /\ x[s + 1] = lit[s]
  <2>1. \A k \in 1 .. a : k - 1 \in 0 .. 285 /\ lit[k - 1] \in V
    <3>1. \A k \in 1 .. a : k - 1 \in 0 .. 285
      BY <1>2
    <3>2. \A s \in 0 .. 285 : lit[s] \in V
      BY <1>1
    <3> QED BY <3>1, <3>2, Zenon
  <2>2. a \in Nat
    BY <1>2
  <2>3. \A s \in 0 .. a - 1 : s + 1 \in 1 .. a /\ (s + 1) - 1 = s
    BY <2>2
  <2> HIDE DEF V
  <2>4. x \in Seq(V) /\ Len(x) = a
    BY <2>1, <2>2
  <2> QED BY <2>3, <2>4
<1>5. y \in Seq(V) /\ Len(y) = b
  <2>1. \A k \in 1 .. b : k - 1 \in 0 .. 29 /\ dist[k - 1] \in V
    <3>1. \A k \in 1 .. b : k - 1 \in 0 .. 29
      BY <1>3
    <3>2. \A s \in 0 .. 29 : dist[s] \in V
      BY <1>1
    <3> QED BY <3>1, <3>2, Zenon
  <2>2. b \in Nat
    BY <1>3
  <2> HIDE DEF V
  <2> QED BY <2>1, <2>2
<1>6. HeaderLens(lit, dist) = x \o y
  BY DEF HeaderLens, a, b
<1> HIDE DEF x, y, V
<1>7. x \o y \in Seq(V) /\ Len(x \o y) = a + b /\ \A j \in 1 .. a : (x \o y)[j] = x[j]
  BY <1>4, <1>5, ConcatIs, ZenonT(60)
<1>8. \A s \in 0 .. a - 1 : (x \o y)[s + 1] = lit[s]
  BY <1>4, <1>7
<1> QED BY <1>2, <1>3, <1>6, <1>7, <1>8 DEF V, a, b
-----------------------------------------------------------------------------
(* Entries of one code stand for one value.                                *)
OneCode ==
  \A c \in 0 .. 18 :
    rle # <<>> /\ (\A k \in DOMAIN rle : rle[k].code = c) =>
      /\ c # 16
      /\ \A k \in DOMAIN decoded : decoded[k] = IF c < 16 THEN c ELSE 0

Begun == (rle = <<>> => decoded = <<>>) /\ (rlepc = "repeats" => rle # <<>>)

AnyEntry == [code : 0 .. 18, extra_bits : Nat, extra_value : Int]

LEMMA PushUniform ==
  ASSUME RleInv, OneCode, Begun, NEW e \in AnyEntry, NEW n, Push(e, n), EntryFits(e),
         e.code = 16 => rle # <<>>
  PROVE  OneCode' /\ rle' # <<>>
<1>1. rle \in Seq(AnyEntry) /\ decoded \in Seq(0 .. 15) /\ e.code \in 0 .. 18 /\ e.extra_value \in Int
  BY DEF RleInv, RleTypeOK, AnyEntry
<1>2. rle' = Append(rle, e) /\ decoded' = decoded \o Meaning(e, decoded)
  BY DEF Push
<1>3. rle' # <<>> /\ Len(rle') = Len(rle) + 1 /\ rle'[Len(rle) + 1] = e /\ \A k \in DOMAIN rle : k \in DOMAIN rle' /\ rle'[k] = rle[k]
  BY <1>1, <1>2
<1>4. SUFFICES ASSUME NEW c \in 0 .. 18, \A k \in DOMAIN rle' : rle'[k].code = c
               PROVE  c # 16 /\ \A k \in DOMAIN decoded' : decoded'[k] = IF c < 16 THEN c ELSE 0
  BY <1>3 DEF OneCode
<1>5. e.code = c /\ \A k \in DOMAIN rle : rle[k].code = c
  <2>1. Len(rle) + 1 \in DOMAIN rle'
    BY <1>1, <1>2
  <2> QED BY <1>3, <1>4, <2>1
<1>6. c # 16
  BY <1>5 DEF OneCode
<1> DEFINE v == IF c < 16 THEN c ELSE 0
           new == Meaning(e, decoded)
<1>7. \A k \in DOMAIN decoded : decoded[k] = v
  <2>1. CASE rle = <<>>
    BY <2>1 DEF Begun
  <2>2. CASE rle # <<>>
    BY <1>5, <2>2 DEF OneCode
  <2> QED BY <2>1, <2>2
<1>8. new \in Seq(0 .. 15) /\ \A k \in DOMAIN new : new[k] = v
  <2>1. CASE c < 16
    <3>1. new = <<c>>
      BY <1>5, <2>1 DEF Meaning
    <3> HIDE DEF new
    <3> QED BY <2>1, <3>1
  <2>2. CASE c = 17
    <3>1. new = Repeat(0, e.extra_value + 3)
      BY <1>5, <2>2 DEF Meaning
    <3>2. e.extra_value \in 0 .. 7
      BY <1>5, <2>2 DEF EntryFits
    <3> DEFINE m == e.extra_value + 3
    <3>3. m \in Nat
      <4>1. \A x \in 0 .. 7 : x + 3 \in Nat
        OBVIOUS
      <4> QED BY <3>2, <4>1
    <3> HIDE DEF m
    <3>4. Repeat(0, m) \in Seq(0 .. 15) /\ \A k \in DOMAIN Repeat(0, m) : Repeat(0, m)[k] = 0
      BY <3>3 DEF Repeat
    <3> HIDE DEF new
    <3> QED BY <2>2, <3>1, <3>4 DEF m
  <2>3. CASE c = 18
    <3>1. new = Repeat(0, e.extra_value + 11)
      BY <1>5, <2>3 DEF Meaning
    <3>2. e.extra_value \in 0 .. 127
      BY <1>5, <2>3 DEF EntryFits
    <3> DEFINE m == e.extra_value + 11
    <3>3. m \in Nat
      <4>1. \A x \in 0 .. 127 : x + 11 \in Nat
        OBVIOUS
      <4> QED BY <3>2, <4>1
    <3> HIDE DEF m
    <3>4. Repeat(0, m) \in Seq(0 .. 15) /\ \A k \in DOMAIN Repeat(0, m) : Repeat(0, m)[k] = 0
      BY <3>3 DEF Repeat
    <3> HIDE DEF new
    <3> QED BY <2>3, <3>1, <3>4 DEF m
  <2> QED BY <1>6, <2>1, <2>2, <2>3
<1> HIDE DEF new, v
<1>9. /\ Len(decoded \o new) = Len(decoded) + Len(new) /\ decoded \o new \in Seq(0 .. 15)
      /\ \A j \in 1 .. Len(decoded) : (decoded \o new)[j] = decoded[j]
      /\ \A j \in 1 .. Len(new) : (decoded \o new)[Len(decoded) + j] = new[j]
  <2> DEFINE V == 0 .. 15
  <2>1. decoded \in Seq(V) /\ new \in Seq(V)
    BY <1>1, <1>8
  <2> HIDE DEF V
  <2> QED BY <2>1, ConcatIs DEF V
<1>10. ASSUME NEW k \in DOMAIN (decoded \o new) PROVE (decoded \o new)[k] = v
  <2>1. Len(decoded) \in Nat /\ Len(new) \in Nat /\ k \in 1 .. Len(decoded) + Len(new)
    BY <1>1, <1>8, <1>9
  <2>2. CASE k <= Len(decoded)
    <3>1. k \in 1 .. Len(decoded) /\ k \in DOMAIN decoded
      BY <1>1, <2>1, <2>2
    <3> QED BY <1>7, <1>9, <3>1
  <2>3. CASE ~ (k <= Len(decoded))
    <3> DEFINE j == k - Len(decoded)
    <3>1. j \in 1 .. Len(new) /\ Len(decoded) + j = k
      BY <2>1, <2>3
    <3> HIDE DEF j
    <3> QED BY <1>8, <1>9, <3>1
  <2> QED BY <2>2, <2>3
<1> QED BY <1>2, <1>6, <1>10 DEF v, new

(* What a push adds to the entries: it covers something, it can be written *)
(* and it repeats only what is there.                                      *)
Pushed(x, n) == n > 0 /\ Push(x, n) /\ EntryFits(x) /\ (x.code = 16 => rlepc = "repeats")

LEMMA PushesFit ==
  ASSUME RleInv, PushZeros \/ PushValue \/ PushRepeats
  PROVE  \E x \in AnyEntry, n \in Nat : Pushed(x, n)
<1>1. run \in Nat /\ cur \in 0 .. 15
  BY DEF RleInv, RleTypeOK
<1>2. /\ Entry(cur, 0, 0) \in AnyEntry /\ EntryFits(Entry(cur, 0, 0)) /\ Entry(cur, 0, 0).code # 16
      /\ Entry(0, 0, 0) \in AnyEntry /\ EntryFits(Entry(0, 0, 0)) /\ Entry(0, 0, 0).code # 16
  BY <1>1 DEF Entry, EntryFits, AnyEntry
<1>3. CASE PushZeros
  <2>1. run > 0
    BY <1>3 DEF PushZeros
  <2>2. CASE LongZeros(run)
    <3>1. PICK m \in 11 .. 138 : m = Lesser(run, 138)
      BY <1>1, <2>2 DEF LongZeros, Lesser
    <3>2. Push(Entry(18, 7, m - 11), m)
      BY <1>1, <1>3, <2>2, <3>1 DEF PushZeros, LongZeros
    <3>3. Entry(18, 7, m - 11) \in AnyEntry /\ EntryFits(Entry(18, 7, m - 11)) /\ Entry(18, 7, m - 11).code # 16
      BY <3>1 DEF Entry, EntryFits, AnyEntry
    <3>4. m \in Nat /\ m > 0
      BY <3>1
    <3> QED BY <3>2, <3>3, <3>4 DEF Pushed
  <2>3. CASE ~ LongZeros(run) /\ run >= 3
    <3>1. PICK m \in 3 .. 10 : m = Lesser(run, 10)
      BY <1>1, <2>3 DEF LongZeros, Lesser
    <3>2. Push(Entry(17, 3, m - 3), m)
      BY <1>1, <1>3, <2>3, <3>1 DEF PushZeros, LongZeros
    <3>3. Entry(17, 3, m - 3) \in AnyEntry /\ EntryFits(Entry(17, 3, m - 3)) /\ Entry(17, 3, m - 3).code # 16
      BY <3>1 DEF Entry, EntryFits, AnyEntry
    <3>4. m \in Nat /\ m > 0
      BY <3>1
    <3> QED BY <3>2, <3>3, <3>4 DEF Pushed
  <2>4. CASE run < 3
    <3>1. Push(Entry(0, 0, 0), 1)
      BY <1>1, <1>3, <2>4 DEF PushZeros, LongZeros
    <3> QED BY <1>2, <3>1 DEF Pushed
  <2> QED BY <1>1, <2>2, <2>3, <2>4
<1>4. CASE PushValue
  <2>1. Push(Entry(cur, 0, 0), 1)
    BY <1>4 DEF PushValue
  <2> QED BY <1>2, <2>1 DEF Pushed
<1>5. CASE PushRepeats
  <2>1. rlepc = "repeats" /\ run > 0
    BY <1>5 DEF PushRepeats
  <2>2. CASE run >= 3
    <3>1. PICK m \in 3 .. 6 : m = Lesser(run, 6)
      BY <1>1, <2>2 DEF Lesser
    <3>2. Push(Entry(16, 2, m - 3), m)
      BY <1>1, <1>5, <2>2, <3>1 DEF PushRepeats
    <3>3. Entry(16, 2, m - 3) \in AnyEntry /\ EntryFits(Entry(16, 2, m - 3))
      BY <3>1 DEF Entry, EntryFits, AnyEntry
    <3>4. m \in Nat /\ m > 0
      BY <3>1
    <3> QED BY <2>1, <3>2, <3>3, <3>4 DEF Pushed
  <2>3. CASE run < 3
    <3>1. Push(Entry(cur, 0, 0), 1)
      BY <1>1, <1>5, <2>3 DEF PushRepeats
    <3> QED BY <1>2, <3>1 DEF Pushed
  <2> QED BY <1>1, <2>2, <2>3
<1> QED BY <1>3, <1>4, <1>5

LEMMA UniformNext ==
  ASSUME RleInv, OneCode, Begun, RleNext
  PROVE  OneCode' /\ Begun'
<1>1. CASE PushZeros \/ PushValue \/ PushRepeats
  <2>1. PICK e \in AnyEntry, n \in Nat : Pushed(e, n)
    BY <1>1, PushesFit
  <2>2. Push(e, n) /\ EntryFits(e) /\ (e.code = 16 => rle # <<>>)
    BY <2>1 DEF Pushed, Begun
  <2>3. OneCode' /\ rle' # <<>>
    BY <2>2, PushUniform
  <2> QED BY <2>3 DEF Begun
<1>2. CASE ScanRun \/ ScanEnds \/ RunEnds
  BY <1>2 DEF ScanRun, ScanEnds, RunEnds, OneCode, Begun
<1> QED BY <1>1, <1>2 DEF RleNext
-----------------------------------------------------------------------------
LEMMA OneLengthIncomplete ==
  ASSUME NEW n \in Nat, NEW lit \in [0 .. n -> Nat], NEW a \in 257 .. 286, a <= n + 1,
         NEW cap \in 1 .. 15, NEW v \in 1 .. cap, \A s \in 0 .. n : lit[s] = IF s < a THEN v ELSE 0
  PROVE  Slack(lit, cap) # 0
<1> DEFINE r == cap - v
<1>1. r \in Nat /\ r \in 0 .. 16 /\ v \in Nat /\ v + r = cap /\ v + r <= 15 /\ v \in 0 .. 15 /\ v \in 0 .. 16 /\ cap \in 0 .. 16
      /\ v \in 0 .. cap /\ v # 0 /\ cap \in Nat
  OBVIOUS
<1> HIDE DEF r
<1>2. Count(lit, v) = a
  <2>1. {s \in DOMAIN lit : lit[s] = v} = 0 .. a - 1
    <3>1. ASSUME NEW s \in DOMAIN lit PROVE lit[s] = v <=> s \in 0 .. a - 1
      <4>1. s \in 0 .. n /\ lit[s] = IF s < a THEN v ELSE 0
        OBVIOUS
      <4> QED BY <1>1, <4>1
    <3>2. 0 .. a - 1 \subseteq DOMAIN lit
      OBVIOUS
    <3> QED BY <3>1, <3>2
  <2>2. Cardinality(0 .. a - 1) = a
    <3>1. 0 \in Int /\ a - 1 \in Int /\ ~ (0 > a - 1) /\ (a - 1) - 0 + 1 = a
      OBVIOUS
    <3>2. Cardinality(0 .. a - 1) = IF 0 > a - 1 THEN 0 ELSE (a - 1) - 0 + 1
      BY <3>1, FS_Interval
    <3> QED BY <3>1, <3>2
  <2> QED BY <2>1, <2>2 DEF Count
<1>3. ASSUME NEW b \in 1 .. cap, b # v PROVE Count(lit, b) = 0
  <2>1. {s \in DOMAIN lit : lit[s] = b} = {}
    BY <1>3
  <2> QED BY <2>1, FS_EmptySet DEF Count
<1> DEFINE p == Pow[r]
           q == a * p
           t == [k \in 0 .. cap |-> IF k = v THEN q ELSE 0]
<1>4. p \in Nat /\ p > 0 /\ Pow[v] \in Nat /\ Pow[cap] \in Nat
  BY <1>1, PowNat
<1>5. q \in Nat
  BY <1>4, ProductNat
<1>6. t \in [0 .. cap -> Nat] /\ t[0] = 0 /\ t[v] = q /\ \A k \in 0 .. cap : k # v => t[k] = 0
  <2> HIDE DEF q
  <2> QED BY <1>1, <1>5
<1>7. ASSUME NEW b \in 1 .. cap PROVE t[b] = Count(lit, b) * Pow[cap - b]
  <2>1. CASE b = v
    BY <1>2, <1>6, <2>1 DEF r
  <2>2. CASE b # v
    <3>1. b \in 0 .. cap /\ cap - b \in 0 .. 16
      OBVIOUS
    <3>2. t[b] = 0
      BY <1>6, <2>2, <3>1
    <3>3. Count(lit, b) = 0
      BY <1>3, <2>2
    <3>4. Pow[cap - b] \in Nat
      BY <3>1, PowNat
    <3>5. Count(lit, b) * Pow[cap - b] = 0
      BY <3>3, <3>4
    <3> QED BY <3>2, <3>5
  <2> QED BY <2>1, <2>2
<1> HIDE DEF t, q
<1>8. Slack(lit, cap) = Pow[cap] - Sums(t, cap)[cap]
  <2>1. \A b \in 1 .. cap : t[b] = Count(lit, b) * Pow[cap - b]
    BY <1>7
  <2>2. t \in [0 .. cap -> Nat] /\ t[0] = 0
    BY <1>6
  <2> QED BY <2>1, <2>2, SlackIs, Zenon
<1>9. Sums(t, cap)[cap] = q
  BY <1>1, <1>6, SumOfOne
<1>10. ASSUME Slack(lit, cap) = 0 PROVE FALSE
  <2>1. Pow[cap] = q
    BY <1>4, <1>5, <1>8, <1>9, <1>10
  <2>2. Pow[cap] = Pow[v] * p
    BY <1>1, PowersMultiply
  <2> DEFINE x == Pow[v]
  <2>3. x \in Nat /\ a \in Nat /\ p \in Nat /\ p > 0 /\ x * p = a * p
    BY <1>4, <2>1, <2>2 DEF q
  <2> HIDE DEF x, p
  <2>4. x = a
    BY <2>3, CancelFactor
  <2> QED BY <1>1, <2>4, NoPower DEF x
<1> QED BY <1>10

(* The code of the lengths has at least two symbols: it is never the one   *)
(* with a single code, which nothing would pad.                            *)
LEMMA ManyCodes ==
  ASSUME RleInv, OneCode, Begun, rlepc = "done",
         NEW lit, LitPadded(lit), NEW dist, DistPadded(dist), lens = HeaderLens(lit, dist)
  PROVE  MetaFrequencies(rle) \in [0 .. 18 -> Nat] /\ ~ Degenerate(MetaFrequencies(rle))
<1> DEFINE M == MetaFrequencies(rle)
           U == UsedSymbols(M)
           a == NLit(lit)
<1>1. rle \in Seq(AnyEntry) /\ decoded = lens
  BY RleInvReads DEF RleInv, RleTypeOK, AnyEntry, RleReadsBack
<1>2. /\ a \in 257 .. 286 /\ Len(lens) = a + NDist(dist) /\ NDist(dist) \in 1 .. 30
      /\ \A s \in 0 .. 285 : s >= a => lit[s] = 0
      /\ \A s \in 0 .. a - 1 : lens[s + 1] = lit[s]
      /\ lens \in Seq(0 .. 15)
  BY HeaderIs
<1> DEFINE b == NDist(dist)
<1> HIDE DEF a, b
<1>20. a \in Nat /\ b \in Nat /\ a > 256 /\ a <= 286 /\ Len(lens) = a + b
  <2>1. Len(lens) = a + b /\ a \in 257 .. 286 /\ b \in 1 .. 30
    BY <1>2 DEF b
  <2>2. \A x \in 257 .. 286 : x \in Nat /\ x > 256 /\ x <= 286
    OBVIOUS
  <2>3. \A x \in 1 .. 30 : x \in Nat
    OBVIOUS
  <2> QED BY <2>1, <2>2, <2>3
<1>3. rle # <<>>
  <2>1. Len(lens) # 0
    BY <1>20
  <2>2. lens # <<>>
    BY <2>1
  <2> QED BY <1>1, <2>2 DEF Begun
<1>4. \A k \in DOMAIN rle : rle[k].code \in 0 .. 18
  <2>1. \A e \in AnyEntry : e.code \in 0 .. 18
    BY DEF AnyEntry
  <2> QED BY <1>1, <2>1
<1>5. M \in [0 .. 18 -> Nat] /\ \A k \in DOMAIN rle : M[rle[k].code] > 0
  BY <1>1, <1>4, MetaFrequenciesAre
<1> HIDE DEF M
<1>6. U \subseteq 0 .. 18 /\ IsFiniteSet(U) /\ Cardinality(U) \in Nat /\ \A k \in DOMAIN rle : rle[k].code \in U
  <2>1. 18 \in Nat
    OBVIOUS
  <2>2. U \in SUBSET (0 .. 18) /\ IsFiniteSet(U) /\ Cardinality(U) \in Nat
    BY <1>5, <2>1, UsedIs
  <2>3. \A k \in DOMAIN rle : rle[k].code \in U
    BY <1>4, <1>5 DEF UsedSymbols
  <2> QED BY <2>2, <2>3
<1> HIDE DEF U
<1>7. ASSUME Cardinality(U) <= 1 PROVE FALSE
  <2> DEFINE c == rle[1].code
  <2>1. c \in 0 .. 18 /\ c \in U
    <3>1. 1 \in DOMAIN rle
      BY <1>1, <1>3
    <3> QED BY <1>4, <1>6, <3>1
  <2> HIDE DEF c
  <2>2. ASSUME NEW k \in DOMAIN rle PROVE rle[k].code = c
    <3> DEFINE d == rle[k].code
    <3>1. d \in U
      BY <1>6
    <3> HIDE DEF d
    <3>2. ASSUME d # c PROVE FALSE
      <4>1. Cardinality({d, c}) <= Cardinality(U)
        BY <1>6, <2>1, <3>1, FS_Subset
      <4>2. Cardinality({d, c}) = 2
        <5>1. IsFiniteSet({d}) /\ Cardinality({d}) = 1 /\ c \notin {d} /\ {d} \cup {c} = {d, c}
          BY <3>2, FS_Singleton
        <5>2. Cardinality({d} \cup {c}) = Cardinality({d}) + 1
          BY <5>1, FS_AddElement
        <5> QED BY <5>1, <5>2
      <4> QED BY <1>6, <1>7, <4>1, <4>2
    <3> QED BY <3>2 DEF d
  <2> DEFINE v == IF c < 16 THEN c ELSE 0
  <2>3. \A k \in DOMAIN lens : lens[k] = v
    BY <1>1, <1>3, <2>1, <2>2 DEF OneCode
  <2>4. \A s \in 0 .. a - 1 : lit[s] = v
    <3> TAKE s \in 0 .. a - 1
    <3>1. s + 1 \in DOMAIN lens
      <4>1. s + 1 \in 1 .. a + b
        BY <1>20
      <4> QED BY <1>2, <1>20, <4>1
    <3> HIDE DEF v
    <3> QED BY <1>2, <2>3, <3>1
  <2>5. LitCap \in 1 .. 15
    BY DeflateAssumption
  <2>6. lit \in [0 .. 285 -> 0 .. LitCap] /\ lit[256] > 0 /\ Slack(lit, LitCap) = 0
    BY DEF LitPadded
  <2>7. v \in 1 .. LitCap
    <3>1. 256 \in 0 .. a - 1 /\ 256 \in 0 .. 285
      BY <1>2
    <3>2. lit[256] = v /\ lit[256] \in 0 .. LitCap
      BY <2>4, <2>6, <3>1
    <3> HIDE DEF v
    <3> QED BY <2>5, <2>6, <3>2
  <2> HIDE DEF v
  <2>8. \A s \in 0 .. 285 : lit[s] = IF s < a THEN v ELSE 0
    <3> TAKE s \in 0 .. 285
    <3>1. CASE s < a
      <4>1. s \in 0 .. a - 1
        BY <1>2, <3>1
      <4> QED BY <2>4, <3>1, <4>1
    <3>2. CASE ~ (s < a)
      <4>1. s >= a
        BY <1>2, <3>2
      <4> QED BY <1>2, <3>2, <4>1
    <3> QED BY <3>1, <3>2
  <2>9. PICK cap \in 1 .. 15 : cap = LitCap
    BY <2>5
  <2>10. lit \in [0 .. 285 -> Nat]
    <3> DEFINE W == 0 .. LitCap
    <3>1. W \subseteq Nat
      BY <2>5
    <3>2. lit \in [0 .. 285 -> W]
      BY <2>6
    <3> HIDE DEF W
    <3> QED BY <3>1, <3>2
  <2>11. v \in 1 .. cap /\ a \in 257 .. 286
    BY <1>2, <2>7, <2>9
  <2>12. Slack(lit, cap) # 0
    <3> DEFINE n == 285
    <3>1. n \in Nat /\ lit \in [0 .. n -> Nat] /\ \A s \in 0 .. n : lit[s] = IF s < a THEN v ELSE 0
      BY <2>8, <2>10
    <3>2. a <= n + 1
      BY <1>20
    <3> HIDE DEF n
    <3> QED BY <2>11, <3>1, <3>2, OneLengthIncomplete
  <2> QED BY <2>6, <2>9, <2>12
<1> QED BY <1>5, <1>7 DEF Degenerate, M, U
-----------------------------------------------------------------------------
(* The invariant of a block.                                               *)
BlockTypeOK ==
  /\ tokens \in Seq(DeflateTokens) /\ encoder \in Encoders
  /\ phase \in {"begin", "litlen", "dist", "header", "rle", "meta", "fixed", "emit", "done"}
  /\ built = [litlen |-> built.litlen, dist |-> built.dist, meta |-> built.meta]

Counted ==
  /\ phase = "litlen" => work \in [0 .. 285 -> Nat] /\ work[256] > 0
  /\ phase = "dist" => work \in [0 .. 29 -> Nat]
  /\ phase = "meta" => work \in [0 .. 18 -> Nat] /\ ~ Degenerate(work)

HasCodes ==
  /\ phase \in {"dist", "header"} => LitBuilt(built.litlen)
  /\ phase = "header" => DistBuilt(built.dist)
  /\ phase \in {"rle", "meta"} => LitPadded(built.litlen) /\ DistPadded(built.dist)

RunLengths ==
  /\ phase \in {"begin", "litlen", "dist", "header"} => RleInit
  /\ phase = "rle" => RleInv /\ OneCode /\ Begun /\ lens = HeaderLens(built.litlen, built.dist)
  /\ phase = "meta" => rle \in Seq(AnyEntry) /\ EntriesFit

(* What the header and the body are written from.                          *)
Ready ==
  /\ LitPadded(built.litlen) /\ DistPadded(built.dist)
  /\ built.meta \in [0 .. 18 -> 0 .. MetaCap] /\ Slack(built.meta, MetaCap) = 0
  /\ rle \in Seq(AnyEntry) /\ EntriesFit

Emitted ==
  /\ phase = "emit" => Ready
  /\ phase = "fixed" => encoder # "gpu"
  /\ phase = "done" /\ encoder = "gpu" /\ tokens # <<>> => Ready /\ out = DynamicBits("gpu")

BlockInv == BlockTypeOK /\ Counted /\ HasCodes /\ RunLengths /\ Emitted

LEMMA BlockInvInit == BlockInit => BlockInv
<1> SUFFICES ASSUME BlockInit PROVE BlockInv
  OBVIOUS
<1>1. /\ tokens \in Streams /\ encoder \in Encoders /\ phase = "begin"
      /\ built = [litlen |-> <<>>, dist |-> <<>>, meta |-> <<>>] /\ RleInit
  BY DEF BlockInit
<1>2. tokens \in Seq(DeflateTokens)
  BY <1>1, StreamsAssumption
<1>3. built.litlen = <<>> /\ built.dist = <<>> /\ built.meta = <<>>
  BY <1>1
<1>4. BlockTypeOK
  BY <1>1, <1>2, <1>3 DEF BlockTypeOK
<1>5. Counted /\ HasCodes /\ RunLengths /\ Emitted
  BY <1>1 DEF Counted, HasCodes, RunLengths, Emitted
<1> QED BY <1>4, <1>5 DEF BlockInv

LEMMA BeginStep == BlockInv /\ (CountFrequencies \/ EncodeFixed \/ EmitEmpty) => BlockInv'
<1> SUFFICES ASSUME BlockInv, CountFrequencies \/ EncodeFixed \/ EmitEmpty PROVE BlockInv'
  OBVIOUS
<1>1. /\ tokens \in Seq(DeflateTokens) /\ encoder \in Encoders
      /\ built = [litlen |-> built.litlen, dist |-> built.dist, meta |-> built.meta]
  BY DEF BlockInv, BlockTypeOK
<1>2. phase = "begin" /\ UNCHANGED <<tokens, encoder, built, rlevars>>
  BY DEF CountFrequencies, EncodeFixed, EmitEmpty
<1>3. RleInit
  BY <1>2 DEF BlockInv, RunLengths
<1>4. RleInit'
  BY <1>2, <1>3 DEF RleInit, rlevars
<1>5. CASE CountFrequencies
  <2>1. phase' = "litlen" /\ work' = LitFrequencies(encoder)
    BY <1>5 DEF CountFrequencies
  <2>2. LitFrequencies(encoder) \in [0 .. 285 -> Nat] /\ LitFrequencies(encoder)[256] > 0
    BY <1>1, LitFrequenciesAre
  <2>3. BlockTypeOK'
    BY <1>1, <1>2, <2>1 DEF BlockTypeOK
  <2>4. Counted' /\ HasCodes' /\ RunLengths' /\ Emitted'
    BY <1>4, <2>1, <2>2 DEF Counted, HasCodes, RunLengths, Emitted
  <2> QED BY <2>3, <2>4 DEF BlockInv
<1>6. CASE EncodeFixed
  <2>1. phase' = "fixed" /\ encoder # "gpu"
    BY <1>6 DEF EncodeFixed
  <2>3. BlockTypeOK'
    BY <1>1, <1>2, <2>1 DEF BlockTypeOK
  <2>4. Counted' /\ HasCodes' /\ RunLengths' /\ Emitted'
    BY <1>2, <2>1 DEF Counted, HasCodes, RunLengths, Emitted
  <2> QED BY <2>3, <2>4 DEF BlockInv
<1>7. CASE EmitEmpty
  <2>1. phase' = "done" /\ tokens = <<>>
    BY <1>7 DEF EmitEmpty
  <2>3. BlockTypeOK'
    BY <1>1, <1>2, <2>1 DEF BlockTypeOK
  <2>4. Counted' /\ HasCodes' /\ RunLengths' /\ Emitted'
    BY <1>2, <2>1 DEF Counted, HasCodes, RunLengths, Emitted
  <2> QED BY <2>3, <2>4 DEF BlockInv
<1> QED BY <1>5, <1>6, <1>7

LEMMA AcceptStep == BlockInv /\ (AcceptDegenerate \/ AcceptTree) => BlockInv'
<1> SUFFICES ASSUME BlockInv, AcceptDegenerate \/ AcceptTree PROVE BlockInv'
  OBVIOUS
<1>1. /\ tokens \in Seq(DeflateTokens) /\ encoder \in Encoders
      /\ built = [litlen |-> built.litlen, dist |-> built.dist, meta |-> built.meta]
  BY DEF BlockInv, BlockTypeOK
<1>2. PICK t : /\ Accept(t)
               /\ \/ Degenerate(work) /\ t = DegenerateLengths(work)
                  \/ ~ Degenerate(work) /\ t = StandardHuffman(work) /\ Tallest(t) <= Cap
  BY DEF AcceptDegenerate, AcceptTree
<1>3. /\ built' = [built EXCEPT ![phase] = t] /\ phase' = PhaseAfter
      /\ UNCHANGED <<tokens, encoder, out, rlevars>>
  BY <1>2 DEF Accept
<1>4. phase \in {"litlen", "dist", "meta"}
  BY DEF AcceptDegenerate, AcceptTree, Building
<1>5. CASE phase = "litlen"
  <2>1. phase' = "dist" /\ work' = DistFrequencies(encoder) /\ Cap = LitCap
    BY <1>2, <1>3, <1>5 DEF PhaseAfter, Cap, Accept
  <2>2. DistFrequencies(encoder) \in [0 .. 29 -> Nat]
    BY <1>1, DistFrequenciesAre
  <2>3. work \in [0 .. 285 -> Nat] /\ work[256] > 0 /\ RleInit
    BY <1>5 DEF BlockInv, Counted, RunLengths
  <2>4. LitBuilt(t)
    BY <1>2, <2>1, <2>3, AcceptsLit
  <2>5. built' = [litlen |-> t, dist |-> built.dist, meta |-> built.meta]
    BY <1>1, <1>3, <1>5
  <2>6. built'.litlen = t
    BY <2>5
  <2>7. RleInit'
    BY <1>3, <2>3 DEF RleInit, rlevars
  <2>8. BlockTypeOK'
    BY <1>1, <1>3, <2>1, <2>5 DEF BlockTypeOK
  <2>9. Counted' /\ HasCodes' /\ RunLengths' /\ Emitted'
    BY <2>1, <2>2, <2>4, <2>6, <2>7 DEF Counted, HasCodes, RunLengths, Emitted
  <2> QED BY <2>8, <2>9 DEF BlockInv
<1>6. CASE phase = "dist"
  <2>1. phase' = "header" /\ Cap = LitCap
    BY <1>3, <1>6 DEF PhaseAfter, Cap
  <2>3. work \in [0 .. 29 -> Nat] /\ RleInit /\ LitBuilt(built.litlen)
    BY <1>6 DEF BlockInv, Counted, RunLengths, HasCodes
  <2>4. DistBuilt(t)
    BY <1>2, <2>1, <2>3, AcceptsDist
  <2>5. built' = [litlen |-> built.litlen, dist |-> t, meta |-> built.meta]
    BY <1>1, <1>3, <1>6
  <2>6. built'.litlen = built.litlen /\ built'.dist = t
    BY <2>5
  <2>7. RleInit'
    BY <1>3, <2>3 DEF RleInit, rlevars
  <2>8. BlockTypeOK'
    BY <1>1, <1>3, <2>1, <2>5 DEF BlockTypeOK
  <2>9. Counted' /\ HasCodes' /\ RunLengths' /\ Emitted'
    BY <2>1, <2>3, <2>4, <2>6, <2>7 DEF Counted, HasCodes, RunLengths, Emitted
  <2> QED BY <2>8, <2>9 DEF BlockInv
<1>7. CASE phase = "meta"
  <2>1. phase' = "emit" /\ Cap = MetaCap
    BY <1>3, <1>7 DEF PhaseAfter, Cap
  <2>2. /\ work \in [0 .. 18 -> Nat] /\ ~ Degenerate(work) /\ LitPadded(built.litlen) /\ DistPadded(built.dist)
        /\ rle \in Seq(AnyEntry) /\ EntriesFit
    BY <1>7 DEF BlockInv, Counted, RunLengths, HasCodes
  <2>3. t = StandardHuffman(work) /\ Tallest(t) <= MetaCap
    BY <1>2, <2>1, <2>2
  <2>4. t \in [0 .. 18 -> 0 .. MetaCap] /\ Slack(t, MetaCap) = 0
    <3> DEFINE n == 18
    <3>1. n \in Nat /\ work \in [0 .. n -> Nat] /\ MetaCap \in 1 .. 15
      BY <2>2, DeflateAssumption
    <3> HIDE DEF n
    <3>2. t \in [0 .. n -> 0 .. MetaCap] /\ Slack(t, MetaCap) = 0
      BY <2>2, <2>3, <3>1, TreeTable, Zenon
    <3> QED BY <3>2 DEF n
  <2>5. built' = [litlen |-> built.litlen, dist |-> built.dist, meta |-> t]
    BY <1>1, <1>3, <1>7
  <2>6. built'.litlen = built.litlen /\ built'.dist = built.dist /\ built'.meta = t
    BY <2>5
  <2>7. rle' \in Seq(AnyEntry) /\ EntriesFit'
    BY <1>3, <2>2 DEF rlevars, EntriesFit
  <2>8. BlockTypeOK'
    BY <1>1, <1>3, <2>1, <2>5 DEF BlockTypeOK
  <2>9. Ready'
    BY <2>2, <2>4, <2>6, <2>7 DEF Ready
  <2>10. Counted' /\ HasCodes' /\ RunLengths' /\ Emitted'
    BY <2>1, <2>9 DEF Counted, HasCodes, RunLengths, Emitted
  <2> QED BY <2>8, <2>10 DEF BlockInv
<1> QED BY <1>4, <1>5, <1>6, <1>7

LEMMA HalveStep == BlockInv /\ HalveFrequencies => BlockInv'
<1> SUFFICES ASSUME BlockInv, HalveFrequencies PROVE BlockInv'
  OBVIOUS
<1>1. /\ phase \in {"litlen", "dist", "meta"} /\ work' = Halved(work)
      /\ UNCHANGED <<tokens, encoder, phase, built, out, rlevars>>
  BY DEF HalveFrequencies, Building
<1>2. BlockTypeOK' /\ HasCodes'
  BY <1>1 DEF BlockInv, BlockTypeOK, HasCodes
<1>3. RunLengths'
  BY <1>1 DEF BlockInv, RunLengths, RleInit, rlevars, EntriesFit
<1>4. Emitted'
  BY <1>1 DEF Emitted
<1>5. Counted'
  <2>1. CASE phase = "litlen"
    <3>1. work \in [0 .. 285 -> Nat] /\ work[256] > 0
      BY <2>1 DEF BlockInv, Counted
    <3> DEFINE n == 285
               e == 256
    <3>2. n \in Nat /\ work \in [0 .. n -> Nat] /\ e \in UsedSymbols(work) /\ e \in 0 .. n
      BY <3>1 DEF UsedSymbols
    <3> HIDE DEF n, e
    <3>3. Halved(work) \in [0 .. n -> Nat] /\ e \in UsedSymbols(Halved(work))
      BY <3>2, HalvedIs
    <3>4. Halved(work)[e] > 0
      BY <3>3 DEF UsedSymbols
    <3> QED BY <1>1, <2>1, <3>3, <3>4 DEF Counted, n, e
  <2>2. CASE phase = "dist"
    <3> DEFINE n == 29
    <3>1. n \in Nat /\ work \in [0 .. n -> Nat]
      BY <2>2 DEF BlockInv, Counted
    <3> HIDE DEF n
    <3>2. Halved(work) \in [0 .. n -> Nat]
      BY <3>1, HalvedIs
    <3> QED BY <1>1, <2>2, <3>2 DEF Counted, n
  <2>3. CASE phase = "meta"
    <3> DEFINE n == 18
    <3>1. n \in Nat /\ work \in [0 .. n -> Nat] /\ ~ Degenerate(work)
      BY <2>3 DEF BlockInv, Counted
    <3> HIDE DEF n
    <3>2. Halved(work) \in [0 .. n -> Nat] /\ UsedSymbols(Halved(work)) = UsedSymbols(work)
      BY <3>1, HalvedIs
    <3>3. ~ Degenerate(Halved(work))
      BY <3>1, <3>2 DEF Degenerate
    <3> QED BY <1>1, <2>3, <3>2, <3>3 DEF Counted, n
  <2> QED BY <1>1, <2>1, <2>2, <2>3
<1> QED BY <1>2, <1>3, <1>4, <1>5 DEF BlockInv

(* The alphabet of the lengths has 19 symbols: seven bits are enough.      *)
LEMMA FewMeta ==
  ASSUME NEW f \in [0 .. 18 -> Nat], ~ Degenerate(f)
  PROVE  ~ TooMany(f, MetaCap)
<1> DEFINE c == Cardinality(UsedSymbols(f))
           r == RequiredBits(c)
           n == 18
<1>1. n \in Nat /\ f \in [0 .. n -> Nat] /\ n + 1 <= 32
  OBVIOUS
<1>2. c \in Nat /\ c <= n + 1
  <2> HIDE DEF n
  <2> QED BY <1>1, UsedIs
<1>3. ~ (c <= 1)
  BY DEF Degenerate
<1> HIDE DEF n
<1>4. c \in 1 .. 32 /\ c \in 1 .. 512
  <2> HIDE DEF c
  <2>1. n \in Nat /\ n + 1 <= 32 /\ c \in Nat /\ c <= n + 1 /\ ~ (c <= 1)
    BY <1>1, <1>2, <1>3
  <2> QED BY <2>1
<1> HIDE DEF c
<1>5. r <= 5 /\ r \in 0 .. c
  <2>1. r <= 5
    BY <1>4, RequiredSmall, Zenon
  <2>2. r \in 0 .. c
    BY <1>4, RequiredIs, ZenonT(60)
  <2> QED BY <2>1, <2>2
<1>6. r \in Nat
  BY <1>4, <1>5
<1> HIDE DEF r
<1>7. ~ (r > MetaCap)
  <2>1. MetaCap \in 5 .. 7
    BY DeflateAssumption
  <2> QED BY <1>5, <1>6, <2>1
<1> QED BY <1>7 DEF TooMany, c, r

LEMMA FallBackStep == BlockInv /\ FallBack => BlockInv'
<1> SUFFICES ASSUME BlockInv, FallBack PROVE BlockInv'
  OBVIOUS
<1>1. /\ tokens \in Seq(DeflateTokens) /\ encoder \in Encoders
      /\ built = [litlen |-> built.litlen, dist |-> built.dist, meta |-> built.meta]
  BY DEF BlockInv, BlockTypeOK
<1>2. /\ phase \in {"litlen", "dist", "meta"} /\ TooMany(work, Cap)
      /\ UNCHANGED <<tokens, built, out, rlevars>>
      /\ \/ encoder' = "fast" /\ phase' = "begin"
         \/ encoder # "gpu" /\ phase' = "fixed" /\ encoder' = encoder
  BY DEF FallBack, Building
<1>3. phase # "meta"
  <2> SUFFICES ASSUME phase = "meta" PROVE FALSE
    OBVIOUS
  <2>1. work \in [0 .. 18 -> Nat] /\ ~ Degenerate(work)
    BY DEF BlockInv, Counted
  <2>2. Cap = MetaCap
    BY DEF Cap
  <2> QED BY <1>2, <2>1, <2>2, FewMeta
<1>4. RleInit
  BY <1>2, <1>3 DEF BlockInv, RunLengths
<1>5. RleInit'
  BY <1>2, <1>4 DEF RleInit, rlevars
<1>6. BlockTypeOK'
  BY <1>1, <1>2 DEF BlockTypeOK, Encoders
<1>7. Counted' /\ HasCodes' /\ RunLengths' /\ Emitted'
  BY <1>2, <1>5 DEF Counted, HasCodes, RunLengths, Emitted
<1> QED BY <1>6, <1>7 DEF BlockInv

LEMMA StartHeaderStep == BlockInv /\ StartHeader => BlockInv'
<1> SUFFICES ASSUME BlockInv, StartHeader PROVE BlockInv'
  OBVIOUS
<1> DEFINE lit == PadLiterals(built.litlen)
           dist == PadDistances(built.dist)
<1>1. /\ tokens \in Seq(DeflateTokens) /\ encoder \in Encoders
      /\ built = [litlen |-> built.litlen, dist |-> built.dist, meta |-> built.meta]
  BY DEF BlockInv, BlockTypeOK
<1>2. /\ phase = "header" /\ phase' = "rle" /\ lens' = HeaderLens(lit, dist)
      /\ built' = [built EXCEPT !.litlen = lit, !.dist = dist]
      /\ UNCHANGED <<tokens, encoder, work, out, i, run, cur, rle, decoded, rlepc>>
  BY DEF StartHeader, HeaderLens
<1>3. LitBuilt(built.litlen) /\ DistBuilt(built.dist) /\ RleInit
  BY <1>2 DEF BlockInv, HasCodes, RunLengths
<1>4. LitPadded(lit) /\ DistPadded(dist)
  BY <1>3, PadsLit, PadsDist
<1> HIDE DEF lit, dist
<1>5. HeaderLens(lit, dist) \in Seq(0 .. 15)
  BY <1>4, HeaderIs
<1>6. built' = [litlen |-> lit, dist |-> dist, meta |-> built.meta]
  BY <1>1, <1>2
<1>7. built'.litlen = lit /\ built'.dist = dist
  BY <1>6
<1>8. i' = 0 /\ run' = 0 /\ cur' = 0 /\ rle' = <<>> /\ decoded' = <<>> /\ rlepc' = "scan"
  BY <1>2, <1>3 DEF RleInit
<1>9. lens' \in Seq(0 .. 15)
  BY <1>2, <1>5
<1>10. RleInv'
  BY <1>8, <1>9 DEF RleInv, RleTypeOK, Covered, RunHolds, AtRepeats, Inside, EntriesFit
<1>11. OneCode' /\ Begun'
  BY <1>8 DEF OneCode, Begun
<1>12. BlockTypeOK'
  BY <1>1, <1>2, <1>6 DEF BlockTypeOK
<1>13. Counted' /\ HasCodes' /\ RunLengths' /\ Emitted'
  BY <1>2, <1>4, <1>7, <1>10, <1>11 DEF Counted, HasCodes, RunLengths, Emitted
<1> QED BY <1>12, <1>13 DEF BlockInv

LEMMA EncodeLengthsStep == BlockInv /\ EncodeLengths => BlockInv'
<1> SUFFICES ASSUME BlockInv, EncodeLengths PROVE BlockInv'
  OBVIOUS
<1>1. phase = "rle" /\ RleNext /\ UNCHANGED <<tokens, encoder, phase, work, built, out>>
  BY DEF EncodeLengths
<1>2. RleInv /\ OneCode /\ Begun /\ lens = HeaderLens(built.litlen, built.dist)
  BY <1>1 DEF BlockInv, RunLengths
<1>3. RleInv' /\ OneCode' /\ Begun'
  BY <1>1, <1>2, RleInvNext, UniformNext
<1>4. lens' = lens
  BY <1>1 DEF RleNext, ScanRun, ScanEnds, PushZeros, PushValue, PushRepeats, RunEnds, Push
<1>5. lens' = HeaderLens(built.litlen, built.dist)'
  BY <1>1, <1>2, <1>4 DEF HeaderLens, NLit, NDist
<1>6. BlockTypeOK' /\ HasCodes'
  BY <1>1 DEF BlockInv, BlockTypeOK, HasCodes
<1>7. Counted' /\ RunLengths' /\ Emitted'
  BY <1>1, <1>3, <1>5 DEF Counted, RunLengths, Emitted
<1> QED BY <1>6, <1>7 DEF BlockInv

LEMMA StartMetaStep == BlockInv /\ StartMeta => BlockInv'
<1> SUFFICES ASSUME BlockInv, StartMeta PROVE BlockInv'
  OBVIOUS
<1>1. /\ phase = "rle" /\ rlepc = "done" /\ phase' = "meta" /\ work' = MetaFrequencies(rle)
      /\ UNCHANGED <<tokens, encoder, built, out, rlevars>>
  BY DEF StartMeta
<1>2. /\ RleInv /\ OneCode /\ Begun /\ lens = HeaderLens(built.litlen, built.dist)
      /\ LitPadded(built.litlen) /\ DistPadded(built.dist)
  BY <1>1 DEF BlockInv, RunLengths, HasCodes
<1>3. MetaFrequencies(rle) \in [0 .. 18 -> Nat] /\ ~ Degenerate(MetaFrequencies(rle))
  BY <1>1, <1>2, ManyCodes
<1>4. rle \in Seq(AnyEntry) /\ EntriesFit
  BY <1>2 DEF RleInv, RleTypeOK, AnyEntry
<1>5. rle' \in Seq(AnyEntry) /\ EntriesFit'
  BY <1>1, <1>4 DEF rlevars, EntriesFit
<1>6. BlockTypeOK'
  BY <1>1 DEF BlockInv, BlockTypeOK
<1>7. Counted' /\ HasCodes' /\ RunLengths' /\ Emitted'
  BY <1>1, <1>2, <1>3, <1>5 DEF Counted, HasCodes, RunLengths, Emitted
<1> QED BY <1>6, <1>7 DEF BlockInv

LEMMA EmitStep == BlockInv /\ (EmitDynamic \/ EmitFixed) => BlockInv'
<1> SUFFICES ASSUME BlockInv, EmitDynamic \/ EmitFixed PROVE BlockInv'
  OBVIOUS
<1>1. phase' = "done" /\ UNCHANGED <<tokens, encoder, work, built, rlevars>>
  BY DEF EmitDynamic, EmitFixed
<1>2. BlockTypeOK'
  BY <1>1 DEF BlockInv, BlockTypeOK
<1>3. Counted' /\ HasCodes' /\ RunLengths'
  BY <1>1 DEF Counted, HasCodes, RunLengths
<1>4. Emitted'
  <2>1. CASE encoder = "gpu"
    <3>1. phase = "emit" /\ out' = DynamicBits("gpu")
      BY <2>1 DEF EmitDynamic, EmitFixed, BlockInv, Emitted
    <3>2. Ready
      BY <3>1 DEF BlockInv, Emitted
    <3>3. Ready'
      BY <1>1, <3>2 DEF Ready, rlevars, EntriesFit
    <3>4. DynamicBits("gpu")' = DynamicBits("gpu")
      BY <1>1 DEF rlevars, DynamicBits, HeaderPieces, Body
    <3> QED BY <1>1, <3>1, <3>3, <3>4 DEF Emitted
  <2>2. CASE encoder # "gpu"
    BY <1>1, <2>2 DEF Emitted
  <2> QED BY <2>1, <2>2
<1> QED BY <1>2, <1>3, <1>4 DEF BlockInv

LEMMA BlockInvNext == BlockInv /\ [BlockNext]_blockvars => BlockInv'
<1> SUFFICES ASSUME BlockInv, [BlockNext]_blockvars PROVE BlockInv'
  OBVIOUS
<1>1. CASE UNCHANGED blockvars
  <2>1. UNCHANGED <<tokens, encoder, phase, work, built, out, rlevars>>
    BY <1>1 DEF blockvars
  <2>2. BlockTypeOK' /\ Counted' /\ HasCodes'
    BY <2>1 DEF BlockInv, BlockTypeOK, Counted, HasCodes
  <2>3. RunLengths'
    <3>1. HeaderLens(built.litlen, built.dist)' = HeaderLens(built.litlen, built.dist)
      BY <2>1 DEF HeaderLens, NLit, NDist
    <3>2. RleInv => RleInv'
      BY <2>1, RleInvNext DEF rlevars
    <3> QED BY <2>1, <3>1, <3>2 DEF BlockInv, RunLengths, RleInit, rlevars, OneCode, Begun, EntriesFit
  <2>4. Emitted'
    <3>1. DynamicBits("gpu")' = DynamicBits("gpu")
      BY <2>1 DEF rlevars, DynamicBits, HeaderPieces, Body
    <3>2. Ready => Ready'
      BY <2>1 DEF Ready, rlevars, EntriesFit
    <3> QED BY <2>1, <3>1, <3>2 DEF BlockInv, Emitted
  <2> QED BY <2>2, <2>3, <2>4 DEF BlockInv
<1>2. CASE Finished
  BY <1>1, <1>2 DEF Finished
<1> QED BY <1>1, <1>2, BeginStep, AcceptStep, HalveStep, FallBackStep, StartHeaderStep, EncodeLengthsStep,
           StartMetaStep, EmitStep DEF BlockNext

LEMMA BlockInvHolds == BlockSpec => []BlockInv
BY BlockInvInit, BlockInvNext, PTL DEF BlockSpec

LEMMA CompleteOnEmit == BlockInv => CodesComplete
BY DEF BlockInv, Emitted, Ready, CodesComplete, LitPadded, DistPadded

LEMMA HalvingFitsHere == BlockInv => HalvingEnds
<1> SUFFICES ASSUME BlockInv, Building, ~ Degenerate(work), ~ TooMany(work, Cap), Halved(work) = work
             PROVE  Tallest(StandardHuffman(work)) <= Cap
  BY DEF HalvingEnds
<1>1. \E n \in 0 .. 511 : work \in [0 .. n -> Nat]
  <2>1. CASE phase = "litlen"
    <3>1. work \in [0 .. 285 -> Nat]
      BY <2>1 DEF BlockInv, Counted
    <3>2. 285 \in 0 .. 511
      OBVIOUS
    <3> QED BY <3>1, <3>2
  <2>2. CASE phase = "dist"
    <3>1. work \in [0 .. 29 -> Nat]
      BY <2>2 DEF BlockInv, Counted
    <3>2. 29 \in 0 .. 511
      OBVIOUS
    <3> QED BY <3>1, <3>2
  <2>3. CASE phase = "meta"
    <3>1. work \in [0 .. 18 -> Nat]
      BY <2>3 DEF BlockInv, Counted
    <3>2. 18 \in 0 .. 511
      OBVIOUS
    <3> QED BY <3>1, <3>2
  <2> QED BY <2>1, <2>2, <2>3 DEF Building
<1>2. PICK n \in 0 .. 511 : work \in [0 .. n -> Nat]
  BY <1>1
<1>3. n \in Nat /\ n <= 511
  OBVIOUS
<1>4. Cap \in 1 .. 15
  BY DeflateAssumption DEF Cap
<1> QED BY <1>2, <1>3, <1>4, HalvingFits, ZenonT(60)

(* The codes of literals, distances and lengths that a header announces    *)
(* use every bit string, whatever the tokens: the padding of the first two *)
(* is enough and the third needs none.                                     *)
THEOREM CodesAreComplete == BlockSpec => []CodesComplete
BY BlockInvHolds, CompleteOnEmit, PTL

(* The loop of try_build_code_lengths ends for every alphabet that is not  *)
(* too large: when halving changes nothing, the tree fits.                 *)
THEOREM HalvingAlwaysEnds == BlockSpec => []HalvingEnds
BY BlockInvHolds, HalvingFitsHere, PTL
-----------------------------------------------------------------------------
(* What the packed tables of the GPU give: symbols of the alphabets.       *)
Bytes == 0 .. 255
MatchLengths == 3 .. 258
MatchDistances == 1 .. 32768

AnyRow(rows, syms) == \A k \in DOMAIN rows : rows[k].base \in Nat /\ rows[k].extra \in 0 .. 13 /\ rows[k].sym \in syms

LEMMA LenRowsAre == Len(LenRows) = 29 /\ DOMAIN LenRows = 1 .. 29 /\ LenRows[1].base = 3 /\ AnyRow(LenRows, 257 .. 285)
<1>1. Len(LenRows) = 29 /\ DOMAIN LenRows = 1 .. 29
  BY DEF LenRows
<1>2. LenRows[1].base = 3
  BY DEF LenRows, Row
<1>3. ASSUME NEW k \in 1 .. 29 PROVE LenRows[k].base \in Nat /\ LenRows[k].extra \in 0 .. 13 /\ LenRows[k].sym \in 257 .. 285
  BY SMT DEF LenRows, Row
<1> QED BY <1>1, <1>2, <1>3, SMTT(30) DEF AnyRow

LEMMA DistRowsAre == Len(DistRows) = 30 /\ DOMAIN DistRows = 1 .. 30 /\ DistRows[1].base = 1 /\ AnyRow(DistRows, 0 .. 29)
<1>1. Len(DistRows) = 30 /\ DOMAIN DistRows = 1 .. 30
  BY DEF DistRows
<1>2. DistRows[1].base = 1
  BY DEF DistRows, Row
<1>3. ASSUME NEW k \in 1 .. 30 PROVE DistRows[k].base \in Nat /\ DistRows[k].extra \in 0 .. 13 /\ DistRows[k].sym \in 0 .. 29
  BY SMT DEF DistRows, Row
<1> QED BY <1>1, <1>2, <1>3 DEF AnyRow

RowFits(row) == row.extra \in 0 .. 13 /\ row.base \in Nat

LEMMA UnpackedIs ==
  ASSUME NEW s \in Bytes, NEW row, RowFits(row), NEW bias \in Nat, NEW x
  PROVE  Unpacked(Packed(s, row), bias, x) = [sym |-> s + bias, extra |-> row.extra, value |-> x - row.base]
<1> DEFINE e == row.extra
           b == row.base
           p == s + e * 256 + b * 65536
<1>1. e \in 0 .. 13 /\ b \in Nat /\ s \in 0 .. 255
  BY DEF RowFits, Bytes
<1>2. Packed(s, row) = s + e * 2^8 + b * 2^16 /\ 2^8 = 256 /\ 2^16 = 65536
  BY DEF Packed
<1>3. Packed(s, row) = p
  BY <1>2
<1> HIDE DEF e, b
<1>4. p % 256 = s /\ (p \div 256) % 256 = e
  <2> DEFINE m == e + b * 256
  <2>2. m \in Nat /\ p = s + m * 256 /\ e \in 0 .. 255 /\ s \in 0 .. 255
    BY <1>1
  <2> HIDE DEF p
  <2>3. m % 256 = e
    BY <1>1, <2>2
  <2> HIDE DEF m
  <2>4. p % 256 = s /\ p \div 256 = m
    BY <2>2, DivMod, ZenonT(60)
  <2> QED BY <2>3, <2>4
<1>5. p \div 65536 = b
  <2> DEFINE r == s + e * 256
  <2>1. r \in Nat /\ r < 65536
    BY <1>1
  <2>2. p = r + b * 65536
    BY <1>1
  <2> HIDE DEF p, r
  <2> QED BY <1>1, <2>1, <2>2
<1> HIDE DEF p
<1>6. Unpacked(p, bias, x) = [sym |-> (p % 256) + bias, extra |-> (p \div 256) % 256, value |-> x - (p \div 65536)]
  <2>1. Unpacked(p, bias, x) = [sym |-> (p % 2^8) + bias, extra |-> (p \div 2^8) % 2^8, value |-> x - (p \div 2^16)]
    BY DEF Unpacked
  <2>2. 2^8 = 256 /\ 2^16 = 65536
    BY <1>2
  <2> DEFINE g == 2^8
             j == 2^16
  <2>3. Unpacked(p, bias, x) = [sym |-> (p % g) + bias, extra |-> (p \div g) % g, value |-> x - (p \div j)]
    BY <2>1
  <2>4. g = 256 /\ j = 65536
    BY <2>2
  <2> HIDE DEF g, j
  <2> QED BY <2>3, <2>4
<1>7. Unpacked(Packed(s, row), bias, x) = Unpacked(p, bias, x)
  BY <1>3
<1> QED BY <1>4, <1>5, <1>6, <1>7 DEF e, b
-----------------------------------------------------------------------------
(* A piece is at most 15 bits wide and its value fits them.                *)
BitPieces == {p \in [value : Nat, bits : 0 .. 15] : p.value < Pow[p.bits]}

Bits == [ones : SUBSET Nat, len : Nat]

LEMMA PutIs ==
  ASSUME NEW b \in Bits, NEW p \in BitPieces, NEW m
  PROVE  Put(b, p, m) \in Bits /\ Put(b, p, m).len = b.len + p.bits
<1> DEFINE v == IF m THEN p.value % 2 ^ p.bits ELSE p.value
           X == {b.len + k : k \in BitsOf(v)}
<1>1. Put(b, p, m) = [ones |-> b.ones \cup X, len |-> b.len + p.bits]
  BY DEF Put
<1> HIDE DEF v
<1>2. BitsOf(v) \subseteq 0 .. 23
  BY DEF BitsOf
<1>3. b.len \in Nat /\ p.bits \in 0 .. 15 /\ b.ones \in SUBSET Nat
  BY DEF Bits, BitPieces
<1>4. X \subseteq Nat
  BY <1>2, <1>3
<1> HIDE DEF X
<1>5. b.len + p.bits \in Nat
  BY <1>3
<1>6. b.ones \cup X \in SUBSET Nat
  BY <1>3, <1>4
<1> QED BY <1>1, <1>5, <1>6 DEF Bits

LEMMA WrittenIs ==
  ASSUME NEW s \in Seq(BitPieces), NEW m
  PROVE  \E f \in [0 .. Len(s) -> Bits] :
           /\ f[0] = NoBits /\ Written(s, m) = f[Len(s)]
           /\ \A k \in 1 .. Len(s) : f[k] = Put(f[k - 1], s[k], m)
<1> DEFINE n == Len(s)
           F == CHOOSE f : f = [k \in 0 .. n |-> IF k = 0 THEN NoBits ELSE Put(f[k - 1], s[k], m)]
           G == [k \in Nat |-> [v \in Bits |-> IF k \in 1 .. n THEN Put(v, s[k], m) ELSE v]]
<1>1. Written(s, m) = F[n]
  BY DEF Written
<1>2. n \in Nat /\ NoBits \in Bits /\ \A k \in 1 .. n : s[k] \in BitPieces
  BY DEF NoBits, Bits
<1> HIDE DEF n
<1>3. G \in [Nat -> [Bits -> Bits]]
  BY <1>2, PutIs
<1>4. PICK g \in [0 .. n -> Bits] : Iterates(g, NoBits, G, n)
  <2> HIDE DEF G
  <2> QED BY <1>2, <1>3, Recursion
<1>5. \A k \in 1 .. n : g[k] = Put(g[k - 1], s[k], m)
  <2> TAKE k \in 1 .. n
  <2>1. k \in Nat /\ k - 1 \in 0 .. n
    BY <1>2
  <2>2. g[k - 1] \in Bits /\ g[k] = G[k][g[k - 1]]
    BY <1>4, <2>1 DEF Iterates
  <2> QED BY <2>1, <2>2
<1>6. g = [k \in 0 .. n |-> IF k = 0 THEN NoBits ELSE Put(g[k - 1], s[k], m)]
  <2>1. g[0] = NoBits
    BY <1>4 DEF Iterates
  <2>2. \A k \in 0 .. n : g[k] = IF k = 0 THEN NoBits ELSE Put(g[k - 1], s[k], m)
    BY <1>2, <1>5, <2>1
  <2>3. g = [k \in 0 .. n |-> g[k]]
    OBVIOUS
  <2> HIDE DEF G
  <2> QED BY <2>2, <2>3
<1>7. F = [k \in 0 .. n |-> IF k = 0 THEN NoBits ELSE Put(F[k - 1], s[k], m)]
  BY <1>6, Zenon
<1> HIDE DEF F, G
<1>8. F[0] = NoBits /\ \A k \in 1 .. n : F[k] = Put(F[k - 1], s[k], m)
  <2>1. 0 \in 0 .. n /\ \A k \in 1 .. n : k \in 0 .. n /\ k # 0
    BY <1>2
  <2>2. \A k \in 0 .. n : F[k] = IF k = 0 THEN NoBits ELSE Put(F[k - 1], s[k], m)
    BY <1>7, Zenon
  <2> QED BY <2>1, <2>2
<1> DEFINE T == {x \in Nat : x <= n => F[x] \in Bits}
<1>9. 0 \in T
  BY <1>2, <1>8
<1>10. ASSUME NEW x \in Nat, x \in T PROVE x + 1 \in T
  <2>1. ASSUME x + 1 <= n PROVE F[x + 1] \in Bits
    <3>1. x + 1 \in 1 .. n /\ (x + 1) - 1 = x /\ F[x] \in Bits
      BY <1>2, <1>10, <2>1
    <3> QED BY <1>2, <1>8, <3>1, PutIs, SMTT(30)
  <2> QED BY <2>1
<1>11. \A k \in 0 .. n : F[k] \in Bits
  <2> HIDE DEF T
  <2>1. \A k \in 0 .. n : k \in T
    BY <1>2, <1>9, <1>10, Induction
  <2> QED BY <1>2, <2>1 DEF T
<1>12. F \in [0 .. n -> Bits]
  <2>1. F = [k \in 0 .. n |-> F[k]]
    BY <1>7, Zenon
  <2> QED BY <1>11, <2>1
<1> QED BY <1>1, <1>8, <1>12 DEF n

LEMMA WrittenAppend ==
  ASSUME NEW s \in Seq(BitPieces), NEW p \in BitPieces, NEW m
  PROVE  Written(s, m) \in Bits /\ Written(Append(s, p), m) = Put(Written(s, m), p, m)
<1> DEFINE u == Append(s, p)
           n == Len(s)
<1>1. u \in Seq(BitPieces) /\ n \in Nat /\ Len(u) = n + 1 /\ u[n + 1] = p /\ \A k \in 1 .. n : u[k] = s[k]
  OBVIOUS
<1>2. PICK f \in [0 .. n -> Bits] :
        /\ f[0] = NoBits /\ Written(s, m) = f[n]
        /\ \A k \in 1 .. n : f[k] = Put(f[k - 1], s[k], m)
  BY WrittenIs
<1> HIDE DEF u
<1>3. PICK g \in [0 .. Len(u) -> Bits] :
        /\ g[0] = NoBits /\ Written(u, m) = g[Len(u)]
        /\ \A k \in 1 .. Len(u) : g[k] = Put(g[k - 1], u[k], m)
  BY <1>1, WrittenIs
<1> HIDE DEF n
<1> DEFINE T == {x \in Nat : x <= n => g[x] = f[x]}
<1>4. 0 \in T
  BY <1>2, <1>3
<1>5. ASSUME NEW x \in Nat, x \in T PROVE x + 1 \in T
  <2>1. ASSUME x + 1 <= n PROVE g[x + 1] = f[x + 1]
    <3>1. x + 1 \in 1 .. n /\ (x + 1) - 1 = x /\ g[x] = f[x] /\ x + 1 \in 1 .. Len(u)
      BY <1>1, <1>5, <2>1
    <3>2. g[x + 1] = Put(g[x], u[x + 1], m) /\ f[x + 1] = Put(f[x], s[x + 1], m)
      BY <1>2, <1>3, <3>1
    <3> QED BY <1>1, <3>1, <3>2
  <2> QED BY <2>1
<1> HIDE DEF T
<1>6. n \in T
  BY <1>1, <1>4, <1>5, Induction
<1>7. g[n] = f[n]
  BY <1>1, <1>6 DEF T
<1>8. n + 1 \in 1 .. Len(u) /\ (n + 1) - 1 = n /\ n \in 0 .. n
  BY <1>1
<1>9. g[n + 1] = Put(g[n], u[n + 1], m)
  BY <1>3, <1>8
<1> QED BY <1>1, <1>2, <1>3, <1>7, <1>8, <1>9 DEF u

LEMMA WrittenEmpty == ASSUME NEW m PROVE Written(<<>>, m) = NoBits
<1>1. <<>> \in Seq(BitPieces) /\ Len(<<>>) = 0
  OBVIOUS
<1> QED BY <1>1, WrittenIs

(* The length of what is written is additive.                              *)
LEMMA WrittenConcat ==
  ASSUME NEW a \in Seq(BitPieces), NEW b \in Seq(BitPieces), NEW m
  PROVE  Written(a \o b, m).len = Written(a, m).len + Written(b, m).len
<1> DEFINE W(s) == Written(s, m).len
           T == {x \in Nat : \A u \in Seq(BitPieces) : Len(u) = x => W(a \o u) = W(a) + W(u)}
<1>1. \A u \in Seq(BitPieces), p \in BitPieces : W(u) \in Nat /\ W(Append(u, p)) = W(u) + p.bits /\ p.bits \in Nat
  <2> TAKE u \in Seq(BitPieces), p \in BitPieces
  <2>1. Written(u, m) \in Bits /\ Written(Append(u, p), m) = Put(Written(u, m), p, m)
    BY WrittenAppend
  <2>2. W(u) \in Nat /\ p.bits \in Nat
    BY <2>1 DEF Bits, BitPieces
  <2> QED BY <2>1, <2>2, PutIs
<1>2. W(<<>>) = 0
  BY WrittenEmpty DEF NoBits
<1>3. W(a) \in Nat
  <2>1. [value |-> 0, bits |-> 0] \in BitPieces
    BY Powers DEF BitPieces
  <2> QED BY <1>1, <2>1
<1> HIDE DEF W
<1>4. 0 \in T
  <2> SUFFICES ASSUME NEW u \in Seq(BitPieces), Len(u) = 0 PROVE W(a \o u) = W(a) + W(u)
    OBVIOUS
  <2>1. u = <<>> /\ a \o u = a
    OBVIOUS
  <2> QED BY <1>2, <1>3, <2>1
<1>5. ASSUME NEW x \in Nat, x \in T PROVE x + 1 \in T
  <2> SUFFICES ASSUME NEW u \in Seq(BitPieces), Len(u) = x + 1 PROVE W(a \o u) = W(a) + W(u)
    OBVIOUS
  <2>1. PICK r \in Seq(BitPieces), p \in BitPieces : u = Append(r, p) /\ Len(r) = x
    BY FrontAndLast
  <2>2. W(a \o r) = W(a) + W(r)
    BY <1>5, <2>1
  <2>3. a \o u = Append(a \o r, p) /\ a \o r \in Seq(BitPieces)
    BY <2>1
  <2>4. W(a \o u) = W(a \o r) + p.bits /\ W(u) = W(r) + p.bits /\ W(r) \in Nat /\ p.bits \in Nat
    BY <1>1, <2>1, <2>3
  <2> QED BY <1>3, <2>2, <2>4
<1> HIDE DEF T
<1>6. Len(b) \in T
  BY <1>4, <1>5, Induction
<1> QED BY <1>6 DEF T, W
-----------------------------------------------------------------------------
(* Each row starts where the one before it ends, and is no longer than its *)
(* extra bits can tell apart.                                              *)
Ascending(rows, n, limit) ==
  /\ Len(rows) = n /\ DOMAIN rows = 1 .. n
  /\ \A k \in 1 .. n : /\ RowFits(rows[k])
                       /\ rows[k].base < RowEnd(rows, k, limit)
                       /\ RowEnd(rows, k, limit) <= rows[k].base + Pow[rows[k].extra]

LEMMA RowOf ==
  ASSUME NEW n \in Nat, n >= 1, NEW rows, NEW limit \in Nat, Ascending(rows, n, limit),
         NEW x \in Nat, rows[1].base <= x, x < limit
  PROVE  \E k \in 1 .. n :
           /\ RowAtOrBelow(rows, x) = rows[k]
           /\ \A w \in 1 .. n : rows[w].base <= x /\ x < RowEnd(rows, w, limit) <=> w = k
           /\ x - rows[k].base \in Nat /\ x - rows[k].base < Pow[rows[k].extra]
<1> DEFINE S == {k \in 1 .. Len(rows) : rows[k].base <= x}
           b(k) == rows[k].base
           e(k) == RowEnd(rows, k, limit)
           k == LargestOf(S)
<1>1. Len(rows) = n /\ \A w \in 1 .. n : b(w) \in Nat /\ b(w) < e(w) /\ e(w) <= b(w) + Pow[rows[w].extra] /\ rows[w].extra \in 0 .. 13
  BY DEF Ascending, RowFits
<1>2. \A w \in 1 .. n : e(w) = IF w < n THEN b(w + 1) ELSE limit
  BY <1>1 DEF RowEnd
<1>3. S \in SUBSET (0 .. n) /\ S # {} /\ S \subseteq 1 .. n /\ \A w \in 1 .. n : w \in S <=> b(w) <= x
  BY <1>1
<1>4. RowAtOrBelow(rows, x) = rows[k]
  BY DEF RowAtOrBelow
<1> HIDE DEF S
<1>5. k \in S /\ \A w \in S : w <= k
  BY <1>3, LargestIn
<1> HIDE DEF k, e, b
<1>6. k \in 1 .. n /\ b(k) <= x
  BY <1>3, <1>5
<1>7. x < e(k)
  <2>1. CASE k < n
    <3>1. k + 1 \in 1 .. n /\ e(k) = b(k + 1) /\ b(k + 1) \in Nat
      BY <1>1, <1>2, <1>6, <2>1
    <3>2. ~ (b(k + 1) <= x)
      BY <1>3, <1>5, <1>6, <3>1
    <3> QED BY <3>1, <3>2
  <2>2. CASE ~ (k < n)
    BY <1>2, <1>6, <2>2
  <2> QED BY <2>1, <2>2
<1>8. ASSUME NEW w \in 1 .. n, w < k PROVE b(w + 1) <= b(k)
  <2> DEFINE T == {d \in Nat : w + 1 + d <= k => b(w + 1) <= b(w + 1 + d)}
  <2>1. 0 \in T
    <3>1. w + 1 \in 1 .. n /\ w + 1 + 0 = w + 1
      BY <1>6, <1>8
    <3>2. b(w + 1) \in Nat
      BY <1>1, <3>1
    <3> QED BY <3>1, <3>2
  <2>2. ASSUME NEW d \in Nat, d \in T PROVE d + 1 \in T
    <3>1. ASSUME w + 1 + (d + 1) <= k PROVE b(w + 1) <= b(w + 1 + (d + 1))
      <4> DEFINE y == w + 1 + d
      <4>1. y \in 1 .. n /\ y < n /\ y + 1 = w + 1 + (d + 1) /\ y <= k /\ w + 1 \in 1 .. n /\ y + 1 \in 1 .. n
        BY <1>6, <3>1
      <4>2. b(w + 1) <= b(y)
        BY <2>2, <4>1
      <4> HIDE DEF y
      <4>3. b(y) < b(y + 1) /\ b(y) \in Nat /\ b(y + 1) \in Nat /\ b(w + 1) \in Nat
        BY <1>1, <1>2, <4>1
      <4>4. b(w + 1) <= b(y + 1)
        BY <4>2, <4>3
      <4> QED BY <4>1, <4>4
    <3> QED BY <3>1
  <2> HIDE DEF T
  <2>3. k - (w + 1) \in T
    <3>1. k - (w + 1) \in Nat
      BY <1>6, <1>8
    <3> QED BY <2>1, <2>2, <3>1, Induction
  <2>4. w + 1 + (k - (w + 1)) = k
    BY <1>6
  <2> QED BY <1>6, <2>3, <2>4 DEF T
<1>9. ASSUME NEW w \in 1 .. n, b(w) <= x, x < e(w) PROVE w = k
  <2>1. w <= k
    BY <1>3, <1>5, <1>9
  <2>2. ASSUME w < k PROVE FALSE
    <3>1. e(w) = b(w + 1) /\ w + 1 \in 1 .. n
      BY <1>2, <1>6, <2>2
    <3>2. b(w + 1) <= b(k) /\ b(w + 1) \in Nat /\ b(k) \in Nat
      BY <1>1, <1>6, <1>8, <2>2, <3>1
    <3> QED BY <1>6, <1>9, <3>1, <3>2
  <2> QED BY <1>6, <2>1, <2>2
<1>10. x - b(k) \in Nat /\ x - b(k) < Pow[rows[k].extra]
  <2>1. b(k) \in Nat /\ e(k) <= b(k) + Pow[rows[k].extra] /\ rows[k].extra \in 0 .. 13
    BY <1>1, <1>6
  <2>2. Pow[rows[k].extra] \in Nat
    BY <2>1, PowNat
  <2>3. e(k) \in Nat
    BY <1>1, <1>2, <1>6
  <2> QED BY <1>6, <1>7, <2>1, <2>2, <2>3
<1>11. \A w \in 1 .. n : rows[w].base <= x /\ x < RowEnd(rows, w, limit) <=> w = k
  BY <1>6, <1>7, <1>9 DEF b, e
<1> QED BY <1>4, <1>6, <1>10, <1>11 DEF b

LEMMA LenRowsAscend == Ascending(LenRows, 29, 259)
<1>1. ASSUME NEW k \in 1 .. 28
      PROVE  LenRows[k].base < LenRows[k + 1].base /\ LenRows[k + 1].base <= LenRows[k].base + Pow[LenRows[k].extra]
  BY SmallPowers, SMTT(60) DEF LenRows, Row
<1>2. LenRows[29].base = 258 /\ LenRows[29].extra = 0
  BY DEF LenRows, Row
<1>3. ASSUME NEW k \in 1 .. 29
      PROVE  LenRows[k].base < RowEnd(LenRows, k, 259) /\ RowEnd(LenRows, k, 259) <= LenRows[k].base + Pow[LenRows[k].extra]
  <2>1. CASE k < 29
    <3>1. RowEnd(LenRows, k, 259) = LenRows[k + 1].base
      BY <2>1, LenRowsAre DEF RowEnd
    <3> QED BY <1>1, <2>1, <3>1
  <2>2. CASE ~ (k < 29)
    <3>1. k = 29 /\ RowEnd(LenRows, k, 259) = 259
      BY <2>2, LenRowsAre DEF RowEnd
    <3> QED BY <1>2, <3>1, SmallPowers
  <2> QED BY <2>1, <2>2
<1>4. Len(LenRows) = 29 /\ DOMAIN LenRows = 1 .. 29 /\ \A k \in 1 .. 29 : RowFits(LenRows[k])
  BY LenRowsAre DEF AnyRow, RowFits
<1> QED BY <1>3, <1>4, SMTT(30) DEF Ascending

LEMMA DistRowsAscend == Ascending(DistRows, 30, 32769)
<1>1. ASSUME NEW k \in 1 .. 29
      PROVE  DistRows[k].base < DistRows[k + 1].base /\ DistRows[k + 1].base <= DistRows[k].base + Pow[DistRows[k].extra]
  BY SmallPowers, SMTT(60) DEF DistRows, Row
<1>2. DistRows[30].base = 24577 /\ DistRows[30].extra = 13
  BY DEF DistRows, Row
<1>3. ASSUME NEW k \in 1 .. 30
      PROVE  DistRows[k].base < RowEnd(DistRows, k, 32769) /\ RowEnd(DistRows, k, 32769) <= DistRows[k].base + Pow[DistRows[k].extra]
  <2>1. CASE k < 30
    <3>1. RowEnd(DistRows, k, 32769) = DistRows[k + 1].base
      BY <2>1, DistRowsAre DEF RowEnd
    <3> QED BY <1>1, <2>1, <3>1, SMTT(30)
  <2>2. CASE ~ (k < 30)
    <3>1. k = 30 /\ RowEnd(DistRows, k, 32769) = 32769
      BY <2>2, DistRowsAre DEF RowEnd
    <3> QED BY <1>2, <3>1, SmallPowers
  <2> QED BY <2>1, <2>2
<1>4. Len(DistRows) = 30 /\ DOMAIN DistRows = 1 .. 30 /\ \A k \in 1 .. 30 : RowFits(DistRows[k])
  BY DistRowsAre DEF AnyRow, RowFits
<1> QED BY <1>3, <1>4, SMTT(30) DEF Ascending
-----------------------------------------------------------------------------
(* What a token is coded with: a symbol of the alphabet, and a value that  *)
(* fits its extra bits.                                                    *)
CodeFits(c, syms) == c.sym \in syms /\ c.extra \in 0 .. 13 /\ c.value \in Nat /\ c.value < Pow[c.extra]

LEMMA LengthsAgree ==
  ASSUME NEW x \in MatchLengths
  PROVE  /\ FastLength(x) = length_code(x) /\ host_length_code(x) = length_code(x)
         /\ CodeFits(length_code(x), 257 .. 285)
<1> DEFINE n == 29
           limit == 259
<1>1. n \in Nat /\ n >= 1 /\ limit \in Nat /\ Ascending(LenRows, n, limit)
  BY LenRowsAscend
<1>2. x \in Nat /\ LenRows[1].base <= x /\ x < limit
  BY LenRowsAre DEF MatchLengths
<1>3. x \in 0 .. 258 /\ ~ (x < 3)
  BY DEF MatchLengths
<1> HIDE DEF n, limit
<1>4. PICK k \in 1 .. n :
        /\ RowAtOrBelow(LenRows, x) = LenRows[k]
        /\ \A w \in 1 .. n : LenRows[w].base <= x /\ x < RowEnd(LenRows, w, limit) <=> w = k
        /\ x - LenRows[k].base \in Nat /\ x - LenRows[k].base < Pow[LenRows[k].extra]
  BY <1>1, <1>2, RowOf
<1> DEFINE row == LenRows[k]
<1>5. RowFits(row) /\ row.sym \in 257 .. 285
  BY <1>4, LenRowsAre DEF n, RowFits, AnyRow
<1>6. length_code(x) = Coded(row, x)
  BY <1>4 DEF length_code
<1>7. FastLength(x) = Coded(row, x)
  <2> DEFINE Writers(y) == {w \in 1 .. Len(LenRows) : LenRows[w].base <= y /\ y < RowEnd(LenRows, w, 259)}
  <2>1. Writers(x) = {k}
    BY <1>4, LenRowsAre DEF n, limit
  <2>2. len_lut = [y \in 0 .. 258 |-> LastWriter(LenRows, Writers(y))]
    BY DEF len_lut
  <2> HIDE DEF Writers
  <2>3. len_lut[x] = LastWriter(LenRows, {k})
    BY <1>3, <2>1, <2>2
  <2>4. LargestOf({k}) = k
    BY DEF LargestOf
  <2>5. LastWriter(LenRows, {k}) = row
    BY <2>4 DEF LastWriter
  <2> QED BY <2>3, <2>5 DEF FastLength
<1> HIDE DEF row
<1>8. host_length_code(x) = Coded(row, x)
  <2> DEFINE s == row.sym - 257
             bias == 257
  <2>1. s \in Bytes /\ s + bias = row.sym /\ bias \in Nat
    BY <1>5 DEF Bytes
  <2>2. build_len_lut[x] = Packed(s, row)
    BY <1>3, <1>4 DEF build_len_lut, row
  <2>3. host_length_code(x) = Unpacked(Packed(s, row), bias, x)
    BY <2>2 DEF host_length_code
  <2>4. RowFits(row)
    BY <1>5
  <2> HIDE DEF s, bias
  <2>5. Unpacked(Packed(s, row), bias, x) = [sym |-> s + bias, extra |-> row.extra, value |-> x - row.base]
    BY <2>1, <2>4, UnpackedIs, Zenon
  <2> QED BY <2>1, <2>3, <2>5 DEF Coded
<1>9. CodeFits(Coded(row, x), 257 .. 285)
  BY <1>4, <1>5 DEF Coded, CodeFits, RowFits, row
<1> QED BY <1>6, <1>7, <1>8, <1>9

(* Above 256 every row starts after a multiple of 128.                     *)
LEMMA HighRows ==
  /\ DistRows[17].base = 257
  /\ \A k \in 17 .. 30 : DistRows[k].base % 128 = 1
<1>1. DistRows[17].base = 257
  BY DEF DistRows, Row
<1>2. \A k \in 17 .. 30 : DistRows[k].base % 128 = 1
  BY SMTT(60) DEF DistRows, Row
<1> QED BY <1>1, <1>2

LEMMA HighIndexIs ==
  ASSUME NEW a \in Nat, a % 128 = 1, NEW x \in Nat, x >= 1
  PROVE  /\ HighIndex(a) <= HighIndex(x) <=> a <= x
         /\ HighIndex(x) <= HighIndex(a - 1) <=> x < a
<1> DEFINE q == (a - 1) \div 128
           h == (x - 1) \div 128
<1>1. a = 128 * q + 1 /\ q \in Nat
  OBVIOUS
<1>2. h \in Nat /\ 128 * h <= x - 1 /\ x - 1 < 128 * h + 128
  OBVIOUS
<1>3. (a - 1 - 1) \div 128 = q - 1
  <2> HIDE DEF q
  <2> QED BY <1>1
<1>4. HighIndex(a) = q /\ HighIndex(x) = h /\ HighIndex(a - 1) = q - 1
  BY <1>3 DEF HighIndex
<1> HIDE DEF q, h
<1> QED BY <1>1, <1>2, <1>4

LEMMA DistancesAgree ==
  ASSUME NEW x \in MatchDistances
  PROVE  /\ FastDistance(x) = distance_code(x) /\ host_distance_code(x) = distance_code(x)
         /\ CodeFits(distance_code(x), 0 .. 29)
<1> DEFINE n == 30
           limit == 32769
<1>1. n \in Nat /\ n >= 1 /\ limit \in Nat /\ Ascending(DistRows, n, limit)
  BY DistRowsAscend
<1>2. x \in Nat /\ DistRows[1].base <= x /\ x < limit /\ x >= 1
  <2>1. DistRows[1].base = 1
    BY DistRowsAre, Zenon
  <2>2. x \in Nat /\ 1 <= x /\ x < limit
    BY DEF MatchDistances
  <2> QED BY <2>1, <2>2
<1>30. limit % 128 = 1
  OBVIOUS
<1> HIDE DEF n, limit
<1>4. PICK k \in 1 .. n :
        /\ RowAtOrBelow(DistRows, x) = DistRows[k]
        /\ \A w \in 1 .. n : DistRows[w].base <= x /\ x < RowEnd(DistRows, w, limit) <=> w = k
        /\ x - DistRows[k].base \in Nat /\ x - DistRows[k].base < Pow[DistRows[k].extra]
  BY <1>1, <1>2, RowOf
<1> DEFINE row == DistRows[k]
<1>5. RowFits(row) /\ row.sym \in 0 .. 29 /\ k \in 1 .. 30
  BY <1>4, DistRowsAre DEF n, RowFits, AnyRow
<1>6. distance_code(x) = Coded(row, x)
  BY <1>4 DEF distance_code
<1>7. LargestOf({k}) = k
  BY DEF LargestOf
<1>8. row.base <= x /\ x < RowEnd(DistRows, k, limit)
  BY <1>4
<1>9. \A w \in 1 .. 30 : DistRows[w].base \in Nat
  BY DistRowsAre DEF AnyRow
<1>10. \A w \in 1 .. 30 : RowEnd(DistRows, w, limit) = IF w < 30 THEN DistRows[w + 1].base ELSE limit
  BY DistRowsAre DEF RowEnd
<1>11. ASSUME NEW p, p = IF x <= 256 THEN build_dist_lut_lo[x] ELSE build_dist_lut_hi[HighIndex(x)], p = Packed(row.sym, row)
       PROVE  host_distance_code(x) = Coded(row, x)
  <2> DEFINE s == row.sym
  <2>1. s \in Bytes /\ s + 0 = s /\ 0 \in Nat
    BY <1>5 DEF Bytes
  <2>2. host_distance_code(x) = Unpacked(Packed(s, row), 0, x)
    BY <1>11 DEF host_distance_code
  <2>3. RowFits(row)
    BY <1>5
  <2> HIDE DEF s, row
  <2>4. Unpacked(Packed(s, row), 0, x) = [sym |-> s + 0, extra |-> row.extra, value |-> x - row.base]
    BY <2>1, <2>3, UnpackedIs, Zenon
  <2> QED BY <2>1, <2>2, <2>4 DEF Coded, s
<1>12. CASE x <= 256
  <2>1. x \in 0 .. 256 /\ ~ (x < 1)
    BY <1>2, <1>12
  <2>2. k <= 16
    <3>1. ASSUME k > 16 PROVE FALSE
      <4>1. 17 \in 1 .. 30 /\ 16 \in 1 .. 30 /\ 16 < 30
        OBVIOUS
      <4>2. \A w \in 1 .. 30 : w >= 17 => DistRows[w].base > 256
        <5> SUFFICES ASSUME NEW w \in 1 .. 30, w >= 17 PROVE DistRows[w].base > 256
          OBVIOUS
        <5> QED BY SMTT(60) DEF DistRows, Row
      <4>3. row.base > 256 /\ row.base \in Nat
        BY <1>5, <1>9, <3>1, <4>2
      <4> HIDE DEF row
      <4> QED BY <1>2, <1>8, <1>12, <4>3
    <3> QED BY <1>5, <3>1
  <2>3. build_dist_lut_lo[x] = Packed(row.sym, row)
    BY <1>4, <2>1 DEF build_dist_lut_lo
  <2>4. host_distance_code(x) = Coded(row, x)
    BY <1>11, <1>12, <2>3
  <2> DEFINE rows == SubSeq(DistRows, 1, 16)
             Writers(y) == {w \in 1 .. 16 : rows[w].base <= y /\ y < RowEnd(rows, w, 257)}
  <2>5. Len(rows) = 16 /\ \A w \in 1 .. 16 : rows[w] = DistRows[w]
    BY SMTT(60) DEF DistRows
  <2> HIDE DEF rows
  <2>6. \A w \in 1 .. 16 : RowEnd(rows, w, 257) = RowEnd(DistRows, w, limit)
    <3> TAKE w \in 1 .. 16
    <3>1. w \in 1 .. 30 /\ w < 30 /\ RowEnd(DistRows, w, limit) = DistRows[w + 1].base
      BY <1>10
    <3>2. CASE w < 16
      <4>1. w + 1 \in 1 .. 16 /\ RowEnd(rows, w, 257) = rows[w + 1].base
        BY <2>5, <3>2 DEF RowEnd
      <4> QED BY <2>5, <3>1, <4>1
    <3>3. CASE ~ (w < 16)
      <4>1. w = 16 /\ w + 1 = 17 /\ RowEnd(rows, w, 257) = 257
        BY <2>5, <3>3 DEF RowEnd
      <4> QED BY <3>1, <4>1, HighRows
    <3> QED BY <3>2, <3>3
  <2>7. Writers(x) = {k}
    BY <1>4, <1>5, <2>2, <2>5, <2>6 DEF n
  <2>8. dist_lut_lo = [y \in 0 .. 256 |-> LastWriter(rows, Writers(y))]
    BY DEF dist_lut_lo, rows
  <2> HIDE DEF Writers
  <2>9. dist_lut_lo[x] = LastWriter(rows, {k})
    BY <2>1, <2>7, <2>8
  <2>10. LastWriter(rows, {k}) = row
    BY <1>5, <1>7, <2>2, <2>5 DEF LastWriter
  <2>11. FastDistance(x) = Coded(row, x)
    BY <1>12, <2>9, <2>10 DEF FastDistance, dist_entry
  <2> QED BY <1>4, <1>5, <1>6, <2>4, <2>11 DEF Coded, CodeFits, RowFits
<1>13. CASE ~ (x <= 256)
  <2> DEFINE h == HighIndex(x)
             Over(w) == /\ HighIndex(DistRows[w].base) <= h
                        /\ h <= HighIndex(RowEnd(DistRows, w, 32769) - 1)
  <2>1. h \in 0 .. 255
    BY <1>13 DEF HighIndex, MatchDistances
  <2>2. k >= 17
    <3>1. ASSUME k <= 16 PROVE FALSE
      <4>1. RowEnd(DistRows, k, limit) = DistRows[k + 1].base
        BY <1>5, <1>10, <3>1
      <4>2. \A w \in 1 .. 30 : w <= 17 => DistRows[w].base <= 257
        <5> SUFFICES ASSUME NEW w \in 1 .. 30, w <= 17 PROVE DistRows[w].base <= 257
          OBVIOUS
        <5> QED BY SMTT(60) DEF DistRows, Row
      <4>3. k + 1 \in 1 .. 30 /\ k + 1 <= 17
        BY <1>5, <3>1
      <4> QED BY <1>2, <1>8, <1>9, <1>13, <4>1, <4>2, <4>3
    <3> QED BY <1>5, <3>1
  <2>3. \A w \in 17 .. 30 : Over(w) <=> w = k
    <3> TAKE w \in 17 .. 30
    <3>1. w \in 1 .. 30 /\ w \in 1 .. n
      BY DEF n
    <3> DEFINE a == DistRows[w].base
               e == RowEnd(DistRows, w, limit)
    <3>2. a \in Nat /\ a % 128 = 1
      BY <1>9, <3>1, HighRows
    <3>3. e \in Nat /\ e % 128 = 1
      BY <1>1, <1>9, <1>10, <1>30, <3>1, HighRows
    <3> HIDE DEF a, e
    <3>4. (HighIndex(a) <= h <=> a <= x) /\ (h <= HighIndex(e - 1) <=> x < e)
      BY <1>2, <3>2, <3>3, HighIndexIs
    <3>5. a <= x /\ x < e <=> w = k
      BY <1>4, <3>1 DEF a, e
    <3> QED BY <3>4, <3>5 DEF a, e, limit
  <2> HIDE DEF h
  <2>4. \A w \in 17 .. 30 : w = k <=> Over(w)
    BY <2>3
  <2>5. {w \in 17 .. 30 : Over(w)} = {k}
    <3> HIDE DEF Over
    <3> QED BY <1>5, <2>2, <2>3
  <2>6. build_dist_lut_hi[h] = Packed(row.sym, row)
    <3> DEFINE Writers(y) == {w \in 17 .. 30 : /\ HighIndex(DistRows[w].base) <= y
                                               /\ y <= HighIndex(RowEnd(DistRows, w, 32769) - 1)}
    <3>1. Writers(h) = {k}
      BY <2>5
    <3>2. build_dist_lut_hi = [y \in 0 .. 255 |->
                                 IF Writers(y) = {} THEN 0
                                 ELSE Packed(DistRows[LargestOf(Writers(y))].sym, DistRows[LargestOf(Writers(y))])]
      BY DEF build_dist_lut_hi
    <3> HIDE DEF Writers
    <3> QED BY <1>7, <2>1, <3>1, <3>2
  <2>7. host_distance_code(x) = Coded(row, x)
    BY <1>11, <1>13, <2>6 DEF h
  <2> DEFINE rows == SubSeq(DistRows, 17, 30)
             Writers(y) == {w \in 1 .. 14 : /\ HighIndex(rows[w].base) <= y
                                            /\ y <= HighIndex(RowEnd(rows, w, 32769) - 1)}
  <2>8. Len(rows) = 14 /\ \A w \in 1 .. 14 : rows[w] = DistRows[w + 16]
    BY SMTT(60) DEF DistRows
  <2> HIDE DEF rows
  <2>9. \A w \in 1 .. 14 : RowEnd(rows, w, 32769) = RowEnd(DistRows, w + 16, 32769)
    BY <2>8, DistRowsAre DEF RowEnd
  <2>10. Writers(h) = {k - 16}
    <3>1. ASSUME NEW w \in 1 .. 14 PROVE w \in Writers(h) <=> Over(w + 16)
      BY <2>8, <2>9
    <3>2. \A w \in 1 .. 14 : Over(w + 16) <=> w = k - 16
      <4> HIDE DEF Over
      <4> TAKE w \in 1 .. 14
      <4>1. w + 16 \in 17 .. 30
        OBVIOUS
      <4>2. Over(w + 16) <=> w + 16 = k
        BY <2>3, <4>1
      <4> QED BY <1>5, <4>2
    <3>3. Writers(h) \subseteq 1 .. 14 /\ k - 16 \in 1 .. 14
      BY <1>5, <2>2
    <3> HIDE DEF Writers, Over
    <3> QED BY <3>1, <3>2, <3>3
  <2>11. dist_lut_hi = [y \in 0 .. 255 |-> LastWriter(rows, Writers(y))]
    BY DEF dist_lut_hi, rows
  <2> HIDE DEF Writers
  <2>12. dist_lut_hi[h] = LastWriter(rows, {k - 16})
    BY <2>1, <2>10, <2>11
  <2>13. LargestOf({k - 16}) = k - 16
    BY DEF LargestOf
  <2>14. rows[k - 16] = row
    <3>1. k - 16 \in 1 .. 14 /\ (k - 16) + 16 = k
      BY <1>5, <2>2
    <3> QED BY <2>8, <3>1
  <2>15. LastWriter(rows, {k - 16}) = row
    BY <2>13, <2>14 DEF LastWriter
  <2>16. FastDistance(x) = Coded(row, x)
    BY <1>13, <2>12, <2>15 DEF FastDistance, dist_entry, h
  <2> QED BY <1>4, <1>5, <1>6, <2>7, <2>16 DEF Coded, CodeFits, RowFits
<1> QED BY <1>12, <1>13
-----------------------------------------------------------------------------
LEMMA ValueIs ==
  ASSUME NEW bits \in 0 .. 15, NEW ones, ones \subseteq 0 .. bits - 1
  PROVE  /\ ValueOf(ones) \in Nat /\ ValueOf(ones) < Pow[bits]
         /\ \A j \in 0 .. bits - 1 : BitAt(ValueOf(ones), j) = IF j \in ones THEN 1 ELSE 0
<1> DEFINE n == 24
           F == CHOOSE f : f = [k \in 0 .. n |-> IF k = 0 THEN 0 ELSE f[k - 1] + (IF k - 1 \in ones THEN 2 ^ (k - 1) ELSE 0)]
           t == [k \in 1 .. n |-> IF k - 1 \in ones THEN 2 ^ (k - 1) ELSE 0]
           least(k) == IF k <= bits THEN k ELSE bits
<1>1. ValueOf(ones) = F[n]
  BY DEF ValueOf
<1>2. n \in Nat /\ bits <= n /\ bits \in Nat /\ bits <= 15
  OBVIOUS
<1> HIDE DEF n
<1>3. ASSUME NEW k \in 1 .. n
      PROVE  t[k] = IF k - 1 \in ones THEN Pow[k - 1] ELSE 0
  <2>1. t[k] = IF k - 1 \in ones THEN 2 ^ (k - 1) ELSE 0
    BY <1>2
  <2>2. CASE k - 1 \in ones
    <3>1. k - 1 \in 0 .. 16
      BY <1>2, <2>2
    <3> QED BY <2>1, <2>2, <3>1, PowIs
  <2> QED BY <2>1, <2>2
<1>4. \A k \in 1 .. n : t[k] \in Nat
  <2> TAKE k \in 1 .. n
  <2>1. CASE k - 1 \in ones
    <3>1. k - 1 \in 0 .. 16
      BY <1>2, <2>1
    <3> HIDE DEF t
    <3> QED BY <1>3, <2>1, <3>1, PowNat
  <2>2. CASE k - 1 \notin ones
    <3> HIDE DEF t
    <3> QED BY <1>3, <2>2
  <2> QED BY <2>1, <2>2
<1>5. PICK g : g = [k \in 0 .. n |-> IF k = 0 THEN 0 ELSE g[k - 1] + t[k]]
  <2> DEFINE g == Summed(t, n)
  <2> HIDE DEF t
  <2>1. /\ g \in [0 .. n -> Nat] /\ g[0] = 0
        /\ \A k \in 1 .. n : g[k] = g[k - 1] + t[k]
    BY <1>2, <1>4, SummedIs
  <2> HIDE DEF g
  <2>2. \A k \in 0 .. n : g[k] = IF k = 0 THEN 0 ELSE g[k - 1] + t[k]
    BY <1>2, <2>1
  <2>3. g = [k \in 0 .. n |-> g[k]]
    BY <2>1
  <2>4. g = [k \in 0 .. n |-> IF k = 0 THEN 0 ELSE g[k - 1] + t[k]]
    BY <2>2, <2>3
  <2> QED BY <2>4
<1>6. g = [k \in 0 .. n |-> IF k = 0 THEN 0 ELSE g[k - 1] + (IF k - 1 \in ones THEN 2 ^ (k - 1) ELSE 0)]
  <2>1. \A k \in 0 .. n : k # 0 => t[k] = IF k - 1 \in ones THEN 2 ^ (k - 1) ELSE 0
    BY <1>2
  <2> HIDE DEF t
  <2> QED BY <1>5, <2>1
<1>7. F = [k \in 0 .. n |-> IF k = 0 THEN 0 ELSE F[k - 1] + (IF k - 1 \in ones THEN 2 ^ (k - 1) ELSE 0)]
  BY <1>6, Zenon
<1> HIDE DEF F
<1>8. F[0] = 0 /\ \A k \in 1 .. n : F[k] = F[k - 1] + t[k]
  <2>1. F[0] = 0
    <3>1. 0 \in 0 .. n
      BY <1>2
    <3> QED BY <1>7, <3>1, Zenon
  <2>2. \A k \in 1 .. n : F[k] = F[k - 1] + (IF k - 1 \in ones THEN 2 ^ (k - 1) ELSE 0)
    <3>1. \A k \in 1 .. n : k \in 0 .. n /\ k # 0
      BY <1>2
    <3> QED BY <1>7, <3>1, Zenon
  <2>3. \A k \in 1 .. n : t[k] = IF k - 1 \in ones THEN 2 ^ (k - 1) ELSE 0
    OBVIOUS
  <2> QED BY <2>1, <2>2, <2>3, Zenon
<1> HIDE DEF t
<1> DEFINE Right(k) == /\ F[k] \in Nat /\ F[k] < Pow[least(k)]
                       /\ \A j \in 0 .. bits - 1 : j < k => BitAt(F[k], j) = IF j \in ones THEN 1 ELSE 0
           T == {k \in Nat : k <= n => Right(k)}
<1>9. 0 \in T
  BY <1>2, <1>8, Powers
<1>10. ASSUME NEW k \in Nat, k \in T PROVE k + 1 \in T
  <2> SUFFICES ASSUME k + 1 <= n PROVE Right(k + 1)
    OBVIOUS
  <2>1. k + 1 \in 1 .. n /\ (k + 1) - 1 = k /\ F[k] \in Nat /\ F[k] < Pow[least(k)] /\ Right(k)
    BY <1>2, <1>10
  <2>2. F[k + 1] = F[k] + t[k + 1] /\ t[k + 1] = IF k \in ones THEN Pow[k] ELSE 0
    BY <1>3, <1>8, <2>1
  <2>3. CASE k + 1 <= bits
    <3>1. least(k) = k /\ least(k + 1) = k + 1 /\ k \in 0 .. 15 /\ k \in 0 .. 16 /\ k \in 0 .. 14
      BY <1>2, <2>3
    <3>2. Pow[k + 1] = 2 * Pow[k] /\ Pow[k] \in Nat /\ Pow[k] > 0
      BY <3>1, Powers, PowNat
    <3> HIDE DEF least
    <3>3. F[k + 1] \in Nat /\ F[k + 1] < Pow[least(k + 1)]
      BY <2>1, <2>2, <3>1, <3>2
    <3>4. F[k] < Pow[k]
      BY <2>1, <3>1
    <3>5. /\ BitAt(F[k] + Pow[k], k) = 1 /\ BitAt(F[k], k) = 0
          /\ \A j \in 0 .. k - 1 : BitAt(F[k] + Pow[k], j) = BitAt(F[k], j)
      BY <2>1, <3>1, <3>4, AddHigh
    <3>6. ASSUME NEW j \in 0 .. bits - 1, j < k + 1
          PROVE  BitAt(F[k + 1], j) = IF j \in ones THEN 1 ELSE 0
      <4>1. F[k + 1] = IF k \in ones THEN F[k] + Pow[k] ELSE F[k]
        BY <2>1, <2>2, <3>2
      <4>2. CASE j = k
        BY <3>5, <4>1, <4>2
      <4>3. CASE j # k
        <5>1. j \in 0 .. k - 1 /\ j < k
          BY <3>6, <4>3
        <5>2. BitAt(F[k], j) = IF j \in ones THEN 1 ELSE 0
          BY <2>1, <5>1
        <5> QED BY <3>5, <4>1, <5>1, <5>2
      <4> QED BY <4>2, <4>3
    <3> QED BY <3>3, <3>6
  <2>4. CASE ~ (k + 1 <= bits)
    <3>1. least(k) = bits /\ least(k + 1) = bits /\ k \notin ones
      BY <1>2, <2>4
    <3> HIDE DEF least
    <3>2. F[k + 1] = F[k]
      BY <2>1, <2>2, <3>1
    <3>3. \A j \in 0 .. bits - 1 : j < k
      BY <1>2, <2>4
    <3> QED BY <2>1, <3>1, <3>2, <3>3
  <2> QED BY <2>3, <2>4
<1> HIDE DEF Right
<1>11. n \in T
  <2> HIDE DEF T
  <2> QED BY <1>2, <1>9, <1>10, Induction
<1>12. least(n) = bits /\ \A j \in 0 .. bits - 1 : j < n
  BY <1>2
<1> QED BY <1>1, <1>2, <1>11, <1>12 DEF Right

LEMMA ValueBelow ==
  ASSUME NEW bits \in 0 .. 15, NEW ones, ones \subseteq 0 .. bits - 1
  PROVE  ValueOf(ones) \in Nat /\ ValueOf(ones) < Pow[bits]
BY ValueIs

LEMMA HuffmanFits ==
  ASSUME NEW table, NEW codes, NEW s, table[s] \in 0 .. 15
  PROVE  Huffman(table, codes, s) \in BitPieces /\ Huffman(table, codes, s).bits = table[s]
<1> DEFINE b == table[s]
           ones == {b - 1 - k : k \in {j \in BitsOf(codes[s]) : j < b}}
<1>1. ReverseBits(codes[s], b) = ValueOf(ones)
  BY DEF ReverseBits
<1>2. ones \subseteq 0 .. b - 1
  <2>1. BitsOf(codes[s]) \subseteq 0 .. 23
    BY DEF BitsOf
  <2> QED BY <2>1
<1>3. b \in 0 .. 15
  OBVIOUS
<1> HIDE DEF b, ones
<1>4. ValueOf(ones) \in Nat /\ ValueOf(ones) < Pow[b]
  BY <1>2, <1>3, ValueBelow
<1>5. Huffman(table, codes, s) = [value |-> ValueOf(ones), bits |-> b]
  BY <1>1 DEF Huffman, Piece, b
<1> QED BY <1>3, <1>4, <1>5 DEF BitPieces, b

LEMMA PieceFits ==
  ASSUME NEW value \in Nat, NEW bits \in 0 .. 15, value < Pow[bits]
  PROVE  Piece(value, bits) \in BitPieces /\ Piece(value, bits).bits = bits
BY DEF Piece, BitPieces

LEMMA ExtraFits ==
  ASSUME NEW c, NEW syms, CodeFits(c, syms), NEW m
  PROVE  Extra(c) \in Seq(BitPieces) /\ Written(Extra(c), m).len = c.extra
<1>1. c.extra \in 0 .. 13 /\ c.value \in Nat /\ c.value < Pow[c.extra]
  BY DEF CodeFits
<1>2. CASE c.extra > 0
  <2>1. Extra(c) = <<Piece(c.value, c.extra)>>
    BY <1>2 DEF Extra
  <2> DEFINE p == Piece(c.value, c.extra)
  <2>2. p \in BitPieces /\ p.bits = c.extra
    <3>1. c.extra \in 0 .. 15
      BY <1>1
    <3> QED BY <1>1, <3>1, PieceFits
  <2> HIDE DEF p
  <2>3. Written(<<p>>, m).len = p.bits
    <3>1. <<>> \in Seq(BitPieces) /\ Append(<<>>, p) = <<p>>
      OBVIOUS
    <3>2. Written(<<p>>, m) = Put(NoBits, p, m) /\ NoBits \in Bits
      BY <2>2, <3>1, WrittenAppend, WrittenEmpty
    <3>3. Put(NoBits, p, m).len = NoBits.len + p.bits
      BY <2>2, <3>2, PutIs
    <3> QED BY <2>2, <1>1, <3>2, <3>3 DEF NoBits
  <2> QED BY <2>1, <2>2, <2>3 DEF p
<1>3. CASE ~ (c.extra > 0)
  <2>1. Extra(c) = <<>> /\ c.extra = 0
    BY <1>1, <1>3 DEF Extra
  <2> QED BY <2>1, WrittenEmpty DEF NoBits
<1> QED BY <1>2, <1>3

LEMMA WrittenOne ==
  ASSUME NEW p \in BitPieces, NEW m
  PROVE  <<p>> \in Seq(BitPieces) /\ Written(<<p>>, m).len = p.bits
<1>1. <<>> \in Seq(BitPieces) /\ Append(<<>>, p) = <<p>> /\ p.bits \in Nat
  BY DEF BitPieces
<1>2. Written(<<p>>, m) = Put(NoBits, p, m) /\ NoBits \in Bits
  BY <1>1, WrittenAppend, WrittenEmpty
<1>3. Put(NoBits, p, m).len = NoBits.len + p.bits
  BY <1>2, PutIs
<1> QED BY <1>1, <1>2, <1>3 DEF NoBits
-----------------------------------------------------------------------------
LEMMA ConcatenatedIs ==
  ASSUME NEW V, NEW s \in Seq(Seq(V))
  PROVE  \E f \in [0 .. Len(s) -> Seq(V)] :
           /\ f[0] = <<>> /\ Concatenated(s) = f[Len(s)]
           /\ \A k \in 1 .. Len(s) : f[k] = f[k - 1] \o s[k]
<1> DEFINE n == Len(s)
           W == Seq(V)
           F == CHOOSE f : f = [k \in 0 .. n |-> IF k = 0 THEN <<>> ELSE f[k - 1] \o s[k]]
           G == [k \in Nat |-> [v \in W |-> IF k \in 1 .. n THEN v \o s[k] ELSE v]]
<1>1. Concatenated(s) = F[n]
  BY DEF Concatenated
<1>2. n \in Nat /\ <<>> \in W /\ \A k \in 1 .. n : s[k] \in W
  OBVIOUS
<1>3. \A v \in W, k \in 1 .. n : v \o s[k] \in W
  BY <1>2, ConcatIs
<1> HIDE DEF n, W
<1>4. G \in [Nat -> [W -> W]]
  BY <1>2, <1>3
<1>5. PICK g \in [0 .. n -> W] : Iterates(g, <<>>, G, n)
  <2> HIDE DEF G
  <2> QED BY <1>2, <1>4, Recursion
<1>6. \A k \in 1 .. n : g[k] = g[k - 1] \o s[k]
  <2> TAKE k \in 1 .. n
  <2>1. k \in Nat /\ k - 1 \in 0 .. n
    BY <1>2
  <2>2. g[k - 1] \in W /\ g[k] = G[k][g[k - 1]]
    BY <1>5, <2>1 DEF Iterates
  <2> QED BY <2>1, <2>2
<1>7. g = [k \in 0 .. n |-> IF k = 0 THEN <<>> ELSE g[k - 1] \o s[k]]
  <2>1. g[0] = <<>>
    BY <1>5 DEF Iterates
  <2>2. \A k \in 0 .. n : g[k] = IF k = 0 THEN <<>> ELSE g[k - 1] \o s[k]
    <3> TAKE k \in 0 .. n
    <3>1. n \in Nat
      BY <1>2
    <3>2. CASE k # 0
      <4>1. k \in 1 .. n
        BY <3>1, <3>2
      <4> QED BY <1>6, <3>2, <4>1
    <3> QED BY <2>1, <3>2
  <2>3. g = [k \in 0 .. n |-> g[k]]
    OBVIOUS
  <2> HIDE DEF G
  <2> QED BY <2>2, <2>3
<1>8. F = [k \in 0 .. n |-> IF k = 0 THEN <<>> ELSE F[k - 1] \o s[k]]
  BY <1>7, Zenon
<1> HIDE DEF F, G
<1>9. F[0] = <<>> /\ \A k \in 1 .. n : F[k] = F[k - 1] \o s[k]
  <2>1. 0 \in 0 .. n /\ \A k \in 1 .. n : k \in 0 .. n /\ k # 0
    BY <1>2
  <2>2. \A k \in 0 .. n : F[k] = IF k = 0 THEN <<>> ELSE F[k - 1] \o s[k]
    BY <1>8, Zenon
  <2> QED BY <2>1, <2>2
<1> DEFINE T == {x \in Nat : x <= n => F[x] \in W}
<1>10. 0 \in T
  BY <1>2, <1>9
<1>11. ASSUME NEW x \in Nat, x \in T PROVE x + 1 \in T
  <2>1. ASSUME x + 1 <= n PROVE F[x + 1] \in W
    <3>0. n \in Nat
      BY <1>2
    <3>1. x + 1 \in 1 .. n /\ (x + 1) - 1 = x /\ x <= n
      BY <2>1, <3>0
    <3>3. F[x] \in W
      BY <1>11, <3>1
    <3>2. F[x + 1] = F[x] \o s[x + 1]
      BY <1>9, <3>1
    <3> QED BY <1>3, <3>1, <3>2, <3>3
  <2> QED BY <2>1
<1>12. \A k \in 0 .. n : F[k] \in W
  <2> HIDE DEF T
  <2>1. Nat \subseteq T
    BY <1>10, <1>11, Induction
  <2>2. \A k \in 0 .. n : k \in Nat /\ k <= n
    BY <1>2
  <2> QED BY <2>1, <2>2 DEF T
<1>13. F \in [0 .. n -> W]
  <2>1. F = [k \in 0 .. n |-> F[k]]
    BY <1>8, Zenon
  <2> QED BY <1>12, <2>1
<1> QED BY <1>1, <1>9, <1>13 DEF n, W

LEMMA ConcatenatedAppend ==
  ASSUME NEW V, NEW s \in Seq(Seq(V)), NEW x \in Seq(V)
  PROVE  Concatenated(s) \in Seq(V) /\ Concatenated(Append(s, x)) = Concatenated(s) \o x
<1> DEFINE W == Seq(V)
           u == Append(s, x)
           n == Len(s)
<1>1. u \in Seq(W) /\ n \in Nat /\ Len(u) = n + 1 /\ u[n + 1] = x /\ \A k \in 1 .. n : u[k] = s[k]
  OBVIOUS
<1>2. PICK f \in [0 .. n -> W] :
        /\ f[0] = <<>> /\ Concatenated(s) = f[n]
        /\ \A k \in 1 .. n : f[k] = f[k - 1] \o s[k]
  BY ConcatenatedIs
<1> HIDE DEF u
<1>3. PICK g \in [0 .. Len(u) -> W] :
        /\ g[0] = <<>> /\ Concatenated(u) = g[Len(u)]
        /\ \A k \in 1 .. Len(u) : g[k] = g[k - 1] \o u[k]
  BY <1>1, ConcatenatedIs
<1> HIDE DEF n, W
<1> DEFINE T == {y \in Nat : y <= n => g[y] = f[y]}
<1>4. 0 \in T
  BY <1>2, <1>3
<1>5. ASSUME NEW y \in Nat, y \in T PROVE y + 1 \in T
  <2>1. ASSUME y + 1 <= n PROVE g[y + 1] = f[y + 1]
    <3>1. y + 1 \in 1 .. n /\ (y + 1) - 1 = y /\ g[y] = f[y] /\ y + 1 \in 1 .. Len(u)
      BY <1>1, <1>5, <2>1
    <3>2. g[y + 1] = g[y] \o u[y + 1] /\ f[y + 1] = f[y] \o s[y + 1]
      BY <1>2, <1>3, <3>1
    <3> QED BY <1>1, <3>1, <3>2
  <2> QED BY <2>1
<1> HIDE DEF T
<1>6. n \in T
  BY <1>1, <1>4, <1>5, Induction
<1>7. g[n] = f[n]
  BY <1>1, <1>6 DEF T
<1>8. n + 1 \in 1 .. Len(u) /\ (n + 1) - 1 = n /\ n \in 0 .. n
  BY <1>1
<1>9. g[n + 1] = g[n] \o u[n + 1]
  BY <1>3, <1>8
<1>10. Concatenated(s) \in W
  BY <1>2, <1>8
<1> QED BY <1>1, <1>2, <1>3, <1>7, <1>8, <1>9, <1>10 DEF u, W

LEMMA ConcatenatedIn == ASSUME NEW V, NEW s \in Seq(Seq(V)) PROVE Concatenated(s) \in Seq(V)
<1>1. <<>> \in Seq(V)
  OBVIOUS
<1> QED BY <1>1, ConcatenatedAppend

LEMMA ConcatenatedEmpty == Concatenated(<<>>) = <<>>
<1> DEFINE V == {}
<1>1. <<>> \in Seq(Seq(V)) /\ Len(<<>>) = 0
  OBVIOUS
<1> HIDE DEF V
<1> QED BY <1>1, ConcatenatedIs, ZenonT(60)
-----------------------------------------------------------------------------
(* The writes of a token fit, and are as long as their writes.              *)
LEMMA TokensAre == DeflateTokens = [length : {0}, distance : Bytes] \cup [length : MatchLengths, distance : MatchDistances]
BY DEF DeflateTokens, Bytes, MatchLengths, MatchDistances

LEMMA FieldsOf ==
  ASSUME NEW A, NEW B, NEW t \in [length : A, distance : B]
  PROVE  t = [length |-> t.length, distance |-> t.distance] /\ t.length \in A /\ t.distance \in B
OBVIOUS

LEMMA TokenForm ==
  ASSUME NEW t \in DeflateTokens
  PROVE  /\ t = [length |-> t.length, distance |-> t.distance]
         /\ (t.length = 0 /\ t.distance \in Bytes) \/ (t.length \in MatchLengths /\ t.distance \in MatchDistances)
<1>1. t \in [length : {0}, distance : Bytes] \/ t \in [length : MatchLengths, distance : MatchDistances]
  BY TokensAre, Zenon
<1>2. t = [length |-> t.length, distance |-> t.distance]
  BY <1>1, FieldsOf, Zenon
<1>3. (t.length = 0 /\ t.distance \in Bytes) \/ (t.length \in MatchLengths /\ t.distance \in MatchDistances)
  <2>1. CASE t \in [length : {0}, distance : Bytes]
    <3>1. t.length \in {0} /\ t.distance \in Bytes
      BY <2>1, FieldsOf, Zenon
    <3> QED BY <3>1
  <2>2. CASE t \in [length : MatchLengths, distance : MatchDistances]
    BY <2>2, FieldsOf, Zenon
  <2> QED BY <1>1, <2>1, <2>2, Zenon
<1> QED BY <1>2, <1>3, Zenon

LEMMA TokenIs ==
  ASSUME NEW t \in DeflateTokens
  PROVE  /\ is_literal(t) => t.distance \in Bytes
         /\ ~ is_literal(t) => t.length \in MatchLengths /\ t.distance \in MatchDistances
<1>1. 0 \notin MatchLengths
  BY DEF MatchLengths
<1> QED BY <1>1, TokenForm, Zenon DEF is_literal

LEMMA CodesOfToken ==
  ASSUME NEW t \in DeflateTokens, ~ is_literal(t), NEW enc \in Encoders
  PROVE  /\ LengthOf(enc, t) = length_code(t.length) /\ DistanceOf(enc, t) = distance_code(t.distance)
         /\ CodeFits(LengthOf(enc, t), 257 .. 285) /\ CodeFits(DistanceOf(enc, t), 0 .. 29)
<1> DEFINE x == t.length
           y == t.distance
<1>1. x \in MatchLengths /\ y \in MatchDistances
  BY TokenIs
<1>2. FastLength(x) = length_code(x) /\ host_length_code(x) = length_code(x) /\ CodeFits(length_code(x), 257 .. 285)
  BY <1>1, LengthsAgree
<1>3. FastDistance(y) = distance_code(y) /\ host_distance_code(y) = distance_code(y) /\ CodeFits(distance_code(y), 0 .. 29)
  BY <1>1, DistancesAgree
<1>4. LengthOf(enc, t) = length_code(x)
  BY <1>2 DEF LengthOf, Encoders
<1>5. DistanceOf(enc, t) = distance_code(y)
  BY <1>3 DEF DistanceOf, Encoders
<1> QED BY <1>2, <1>3, <1>4, <1>5
-----------------------------------------------------------------------------
(* Code lengths that fit a piece.                                          *)
TablesFit(lit, dist) ==
  /\ \A s \in 0 .. 285 : lit[s] \in 0 .. 15
  /\ \A s \in 0 .. 29 : dist[s] \in 0 .. 15

LEMMA EndFits ==
  ASSUME NEW lit, NEW dist, TablesFit(lit, dist)
  PROVE  lit[256] \in 0 .. 15 /\ lit[256] \in Nat
<1> DEFINE b == 285
           c == 15
           w == 256
           y == lit[w]
<1>1. \A s \in 0 .. b : lit[s] \in 0 .. c
  BY DEF TablesFit
<1>2. w \in 0 .. b
  OBVIOUS
<1>3. c \in Nat
  OBVIOUS
<1> HIDE DEF b, c, w
<1>4. y \in 0 .. c
  BY <1>1, <1>2
<1> HIDE DEF y
<1>5. y \in Nat
  BY <1>3, <1>4
<1> QED BY <1>4, <1>5 DEF c, w, y

(* The bits of a token.                                                    *)
TokenLength(t, lit, dist) ==
  IF is_literal(t) THEN lit[t.distance]
  ELSE lit[length_code(t.length).sym] + length_code(t.length).extra
       + dist[distance_code(t.distance).sym] + distance_code(t.distance).extra

LEMMA TokenPiecesFit ==
  ASSUME NEW t \in DeflateTokens, NEW enc \in Encoders, NEW m,
         NEW lit, NEW litCodes, NEW dist, NEW distCodes, TablesFit(lit, dist)
  PROVE  /\ TokenPieces(enc, t, lit, litCodes, dist, distCodes) \in Seq(BitPieces)
         /\ TokenPieces(enc, t, lit, litCodes, dist, distCodes) = TokenPieces("slow", t, lit, litCodes, dist, distCodes)
         /\ Written(TokenPieces(enc, t, lit, litCodes, dist, distCodes), m).len = TokenLength(t, lit, dist)
         /\ TokenLength(t, lit, dist) \in Nat
<1> DEFINE P == TokenPieces(enc, t, lit, litCodes, dist, distCodes)
<1>1. "slow" \in Encoders
  BY DEF Encoders
<1>2. CASE is_literal(t)
  <2> DEFINE p == Huffman(lit, litCodes, t.distance)
  <2>1. lit[t.distance] \in 0 .. 15
    <3>1. t.distance \in Bytes
      BY <1>2, TokenIs
    <3>2. Bytes \subseteq 0 .. 285
      BY DEF Bytes
    <3> QED BY <3>1, <3>2 DEF TablesFit
  <2>2. p \in BitPieces /\ p.bits = lit[t.distance]
    BY <2>1, HuffmanFits
  <2>3. P = <<p>> /\ TokenPieces("slow", t, lit, litCodes, dist, distCodes) = <<p>>
    BY <1>2 DEF TokenPieces
  <2> HIDE DEF p
  <2>4. <<p>> \in Seq(BitPieces) /\ Written(<<p>>, m).len = p.bits
    BY <2>2, WrittenOne
  <2>5. lit[t.distance] \in Nat
    BY <2>1
  <2> QED BY <1>2, <2>2, <2>3, <2>4, <2>5 DEF TokenLength
<1>3. CASE ~ is_literal(t)
  <2> DEFINE l == length_code(t.length)
             d == distance_code(t.distance)
             p == Huffman(lit, litCodes, l.sym)
             q == Huffman(dist, distCodes, d.sym)
  <2>1. LengthOf(enc, t) = l /\ DistanceOf(enc, t) = d /\ LengthOf("slow", t) = l /\ DistanceOf("slow", t) = d
        /\ CodeFits(l, 257 .. 285) /\ CodeFits(d, 0 .. 29)
    BY <1>1, <1>3, CodesOfToken
  <2>2. P = <<p>> \o Extra(l) \o <<q>> \o Extra(d) /\ TokenPieces("slow", t, lit, litCodes, dist, distCodes) = P
    BY <1>3, <2>1 DEF TokenPieces
  <2> HIDE DEF l, d
  <2>3. lit[l.sym] \in 0 .. 15 /\ dist[d.sym] \in 0 .. 15 /\ l.extra \in Nat /\ d.extra \in Nat
    <3>1. l.sym \in 257 .. 285 /\ d.sym \in 0 .. 29 /\ l.extra \in 0 .. 13 /\ d.extra \in 0 .. 13
      BY <2>1 DEF CodeFits
    <3>2. l.sym \in 0 .. 285
      BY <3>1
    <3> QED BY <3>1, <3>2 DEF TablesFit
  <2>4. p \in BitPieces /\ p.bits = lit[l.sym] /\ q \in BitPieces /\ q.bits = dist[d.sym]
    BY <2>3, HuffmanFits
  <2> HIDE DEF p, q
  <2>5. /\ <<p>> \in Seq(BitPieces) /\ Written(<<p>>, m).len = p.bits
        /\ <<q>> \in Seq(BitPieces) /\ Written(<<q>>, m).len = q.bits
    BY <2>4, WrittenOne
  <2>6. /\ Extra(l) \in Seq(BitPieces) /\ Written(Extra(l), m).len = l.extra
        /\ Extra(d) \in Seq(BitPieces) /\ Written(Extra(d), m).len = d.extra
    BY <2>1, ExtraFits
  <2> DEFINE a == <<p>> \o Extra(l)
             b == a \o <<q>>
  <2>7. a \in Seq(BitPieces) /\ Written(a, m).len = p.bits + l.extra
    <3>1. a \in Seq(BitPieces)
      BY <2>5, <2>6, ConcatIs
    <3>2. Written(a, m).len = Written(<<p>>, m).len + Written(Extra(l), m).len
      BY <2>5, <2>6, WrittenConcat
    <3> QED BY <2>5, <2>6, <3>1, <3>2
  <2> HIDE DEF a
  <2>8. b \in Seq(BitPieces) /\ Written(b, m).len = p.bits + l.extra + q.bits
    <3>1. b \in Seq(BitPieces)
      BY <2>5, <2>7, ConcatIs
    <3>2. Written(b, m).len = Written(a, m).len + Written(<<q>>, m).len
      BY <2>5, <2>7, WrittenConcat
    <3> QED BY <2>5, <2>7, <3>1, <3>2
  <2> HIDE DEF b
  <2>9. b \o Extra(d) \in Seq(BitPieces) /\ Written(b \o Extra(d), m).len = p.bits + l.extra + q.bits + d.extra
    <3>1. b \o Extra(d) \in Seq(BitPieces)
      BY <2>6, <2>8, ConcatIs
    <3>2. Written(b \o Extra(d), m).len = Written(b, m).len + Written(Extra(d), m).len
      BY <2>6, <2>8, WrittenConcat
    <3> QED BY <2>6, <2>8, <3>1, <3>2
  <2>10. P = b \o Extra(d)
    BY <2>2 DEF a, b
  <2>11. lit[l.sym] + l.extra + dist[d.sym] + d.extra \in Nat
    BY <2>3
  <2> HIDE DEF P
  <2> QED BY <1>3, <2>2, <2>4, <2>9, <2>10, <2>11 DEF l, d, P, TokenLength
<1> QED BY <1>2, <1>3

(* What is written for writes in a row.                                     *)
LEMMA ConcatenatedLength ==
  ASSUME NEW s \in Seq(Seq(BitPieces)), NEW m, NEW bits, \A k \in 1 .. Len(s) : bits[k] \in Nat /\ Written(s[k], m).len = bits[k]
  PROVE  Written(Concatenated(s), m).len = Summed(bits, Len(s))[Len(s)]
<1> DEFINE n == Len(s)
           W == Seq(BitPieces)
           S == Summed(bits, n)
           L(x) == Written(Concatenated(SubSeq(s, 1, x)), m).len
           T == {x \in Nat : x <= n => L(x) = S[x]}
<1>1. n \in Nat /\ s \in Seq(W) /\ \A k \in 1 .. n : s[k] \in W
  OBVIOUS
<1>2. S[0] = 0 /\ \A k \in 1 .. n : S[k] = S[k - 1] + bits[k]
  BY <1>1, SummedIs
<1> HIDE DEF S
<1>3. 0 \in T
  <2>1. SubSeq(s, 1, 0) = <<>>
    BY <1>1
  <2>2. L(0) = 0
    <3>1. L(0) = Written(<<>>, m).len
      BY <2>1, ConcatenatedEmpty
    <3>2. Written(<<>>, m).len = 0
      BY WrittenEmpty DEF NoBits
    <3> QED BY <3>1, <3>2
  <2> HIDE DEF L
  <2> QED BY <1>2, <2>2
<1>4. ASSUME NEW x \in Nat, x \in T PROVE x + 1 \in T
  <2> SUFFICES ASSUME x + 1 <= n PROVE L(x + 1) = S[x + 1]
    OBVIOUS
  <2>1. x <= n /\ x + 1 \in 1 .. n /\ (x + 1) - 1 = x
    BY <1>1
  <2>2. L(x) = S[x]
    BY <1>4, <2>1
  <2> DEFINE u == SubSeq(s, 1, x)
  <2>3. u \in Seq(W) /\ SubSeq(s, 1, x + 1) = Append(u, s[x + 1])
    <3> HIDE DEF W
    <3>1. u \in Seq(W) /\ Len(u) = x
      BY <1>1, <2>1
    <3>2. SubSeq(s, 1, x + 1) \in Seq(W) /\ Len(SubSeq(s, 1, x + 1)) = x + 1
      BY <1>1, <2>1
    <3> DEFINE v == SubSeq(s, 1, x + 1)
               w == Append(u, s[x + 1])
    <3>3. w \in Seq(W) /\ Len(w) = x + 1 /\ s[x + 1] \in W
      BY <1>1, <2>1, <3>1
    <3>4. \A k \in 1 .. x + 1 : v[k] = w[k]
      BY <1>1, <2>1, <3>1
    <3> HIDE DEF v, w
    <3>5. v = w
      BY <3>2, <3>3, <3>4, SeqEqual DEF v
    <3> QED BY <3>1, <3>5 DEF v, w
  <2> HIDE DEF u
  <2>4. Concatenated(u) \in W /\ Concatenated(Append(u, s[x + 1])) = Concatenated(u) \o s[x + 1] /\ s[x + 1] \in W
    BY <1>1, <2>1, <2>3, ConcatenatedAppend
  <2>5. Written(Concatenated(u) \o s[x + 1], m).len = Written(Concatenated(u), m).len + Written(s[x + 1], m).len
    BY <2>4, WrittenConcat
  <2>6. L(x + 1) = L(x) + bits[x + 1]
    BY <1>1, <2>1, <2>3, <2>4, <2>5 DEF u
  <2> HIDE DEF L
  <2> QED BY <1>2, <2>1, <2>2, <2>6
<1> HIDE DEF T
<1>5. n \in T
  BY <1>1, <1>3, <1>4, Induction
<1>6. SubSeq(s, 1, n) = s
  <2> HIDE DEF W
  <2>1. SubSeq(s, 1, n) \in Seq(W) /\ Len(SubSeq(s, 1, n)) = n /\ \A k \in 1 .. n : SubSeq(s, 1, n)[k] = s[k]
    BY <1>1
  <2> QED BY <1>1, <2>1, SeqEqual DEF n
<1>7. L(n) = S[n]
  BY <1>1, <1>5 DEF T
<1> QED BY <1>6, <1>7 DEF S
-----------------------------------------------------------------------------
(* The writes of a body are the same from every encoder.                   *)
BodyParts(enc, lit, litCodes, dist, distCodes, writes, end) ==
  /\ Body(enc, lit, litCodes, dist, distCodes) = Concatenated(writes) \o <<end>>
  /\ Body("slow", lit, litCodes, dist, distCodes) = Concatenated(writes) \o <<end>>
  /\ end.bits = lit[256]
  /\ Len(writes) = Len(tokens)
  /\ \A k \in 1 .. Len(tokens) : writes[k] = TokenPieces(enc, tokens[k], lit, litCodes, dist, distCodes)

LEMMA BodyIs ==
  ASSUME tokens \in Seq(DeflateTokens), NEW enc \in Encoders,
         NEW lit, NEW litCodes, NEW dist, NEW distCodes, TablesFit(lit, dist)
  PROVE  \E writes \in Seq(Seq(BitPieces)), end \in BitPieces :
           BodyParts(enc, lit, litCodes, dist, distCodes, writes, end)
<1> DEFINE n == Len(tokens)
           P(e, k) == TokenPieces(e, tokens[k], lit, litCodes, dist, distCodes)
           writes == [k \in 1 .. n |-> P(enc, k)]
           end == Huffman(lit, litCodes, 256)
<1>1. n \in Nat /\ \A k \in 1 .. n : tokens[k] \in DeflateTokens
  OBVIOUS
<1>2. ASSUME NEW k \in 1 .. n PROVE P(enc, k) \in Seq(BitPieces) /\ P(enc, k) = P("slow", k)
  <2>1. tokens[k] \in DeflateTokens
    BY <1>1
  <2> QED BY <2>1, TokenPiecesFit
<1>3. Body(enc, lit, litCodes, dist, distCodes) = Concatenated(writes) \o <<end>>
  BY DEF Body
<1>4. Body("slow", lit, litCodes, dist, distCodes) = Concatenated([k \in 1 .. n |-> P("slow", k)]) \o <<end>>
  BY DEF Body
<1> HIDE DEF P, end, n
<1>5. [k \in 1 .. n |-> P("slow", k)] = writes
  BY <1>2
<1>6. writes \in Seq(Seq(BitPieces)) /\ Len(writes) = n /\ \A k \in 1 .. n : writes[k] = P(enc, k)
  BY <1>1, <1>2
<1>7. end \in BitPieces /\ end.bits = lit[256]
  <2>1. lit[256] \in 0 .. 15
    BY EndFits
  <2> QED BY <2>1, HuffmanFits DEF end
<1> HIDE DEF writes
<1>8. /\ Body(enc, lit, litCodes, dist, distCodes) = Concatenated(writes) \o <<end>>
      /\ Body("slow", lit, litCodes, dist, distCodes) = Concatenated(writes) \o <<end>>
  BY <1>3, <1>4, <1>5
<1>9. BodyParts(enc, lit, litCodes, dist, distCodes, writes, end)
  BY <1>6, <1>7, <1>8 DEF n, P, BodyParts
<1> QED BY <1>6, <1>7, <1>9

LEMMA BodyFits ==
  ASSUME tokens \in Seq(DeflateTokens), NEW enc \in Encoders,
         NEW lit, NEW litCodes, NEW dist, NEW distCodes, TablesFit(lit, dist)
  PROVE  /\ Body(enc, lit, litCodes, dist, distCodes) \in Seq(BitPieces)
         /\ Body(enc, lit, litCodes, dist, distCodes) # <<>>
         /\ Body(enc, lit, litCodes, dist, distCodes) = Body("slow", lit, litCodes, dist, distCodes)
<1>0. PICK writes \in Seq(Seq(BitPieces)), end \in BitPieces :
        BodyParts(enc, lit, litCodes, dist, distCodes, writes, end)
  BY BodyIs
<1>1. /\ Body(enc, lit, litCodes, dist, distCodes) = Concatenated(writes) \o <<end>>
      /\ Body("slow", lit, litCodes, dist, distCodes) = Concatenated(writes) \o <<end>>
  BY <1>0 DEF BodyParts
<1>2. Concatenated(writes) \in Seq(BitPieces) /\ <<end>> \in Seq(BitPieces) /\ Len(<<end>>) = 1
  BY ConcatenatedIn
<1> DEFINE b == Concatenated(writes) \o <<end>>
<1>3. b \in Seq(BitPieces) /\ Len(b) = Len(Concatenated(writes)) + 1
  BY <1>2, ConcatIs
<1>4. Len(b) # 0
  BY <1>2, <1>3
<1>5. b # <<>>
  BY <1>3, <1>4
<1> QED BY <1>1, <1>3, <1>5

LEMMA MetaOrder == \A k \in 1 .. 19 : META_ORDER[k] \in 0 .. 18
<1> SUFFICES ASSUME NEW k \in 1 .. 19 PROVE META_ORDER[k] \in 0 .. 18
  OBVIOUS
<1> QED BY SMT DEF META_ORDER

LEMMA CountOfMeta == ASSUME NEW meta PROVE HclenCount(meta) \in 4 .. 19
<1> DEFINE S == {4} \cup {k \in 1 .. 19 : meta[META_ORDER[k]] > 0}
<1>1. S \in SUBSET (0 .. 19) /\ S # {} /\ 4 \in S /\ 19 \in Nat
  OBVIOUS
<1>2. HclenCount(meta) = LargestOf(S)
  BY DEF HclenCount
<1> HIDE DEF S
<1>3. LargestOf(S) \in S /\ 4 <= LargestOf(S)
  BY <1>1, LargestIn
<1>4. \A x \in 0 .. 19 : 4 <= x => x \in 4 .. 19
  OBVIOUS
<1> QED BY <1>1, <1>2, <1>3, <1>4

LEMMA EntryPieceFits ==
  ASSUME NEW e \in AnyEntry, EntryFits(e), NEW meta, \A s \in 0 .. 18 : meta[s] \in 0 .. 15, NEW codes
  PROVE  <<Huffman(meta, codes, e.code)>>
         \o (IF e.extra_bits > 0 THEN <<Piece(e.extra_value, e.extra_bits)>> ELSE <<>>) \in Seq(BitPieces)
<1>1. e.code \in 0 .. 18 /\ e.extra_bits \in Nat /\ e.extra_value \in Int
  BY DEF AnyEntry
<1>2. Huffman(meta, codes, e.code) \in BitPieces
  BY <1>1, HuffmanFits
<1>3. ASSUME e.extra_bits > 0 PROVE Piece(e.extra_value, e.extra_bits) \in BitPieces
  <2>1. e.extra_bits \in 0 .. 15 /\ e.extra_value \in Nat /\ e.extra_value < Pow[e.extra_bits]
    BY <1>1, <1>3, SmallPowers DEF EntryFits
  <2> QED BY <2>1, PieceFits
<1> DEFINE a == <<Huffman(meta, codes, e.code)>>
           b == IF e.extra_bits > 0 THEN <<Piece(e.extra_value, e.extra_bits)>> ELSE <<>>
<1>4. a \in Seq(BitPieces) /\ b \in Seq(BitPieces)
  BY <1>2, <1>3
<1> HIDE DEF a, b
<1>5. a \o b \in Seq(BitPieces)
  BY <1>4, ConcatIs
<1> QED BY <1>5 DEF a, b

LEMMA HeaderFits == ASSUME Ready PROVE HeaderPieces \in Seq(BitPieces) /\ HeaderPieces # <<>>
<1> DEFINE meta == built.meta
           codes == CanonicalCodes(meta)
           n == HclenCount(meta)
           E(k) == <<Huffman(meta, codes, rle[k].code)>>
                   \o (IF rle[k].extra_bits > 0 THEN <<Piece(rle[k].extra_value, rle[k].extra_bits)>> ELSE <<>>)
           a == <<Piece(5, 3), Piece(NLit(built.litlen) - 257, 5), Piece(NDist(built.dist) - 1, 5), Piece(n - 4, 4)>>
           b == [k \in 1 .. n |-> Piece(meta[META_ORDER[k]], 3)]
           c == [k \in 1 .. Len(rle) |-> E(k)]
<1>1. HeaderPieces = a \o b \o Concatenated(c)
  BY DEF HeaderPieces
<1>2. meta \in [0 .. 18 -> 0 .. MetaCap] /\ MetaCap \in 5 .. 7 /\ rle \in Seq(AnyEntry) /\ EntriesFit
      /\ LitPadded(built.litlen) /\ DistPadded(built.dist)
  BY DeflateAssumption DEF Ready
<1>3. \A s \in 0 .. 18 : meta[s] \in 0 .. 7 /\ meta[s] \in 0 .. 15
  <2> DEFINE W == 0 .. MetaCap
  <2>1. W \subseteq 0 .. 7 /\ W \subseteq 0 .. 15
    <3>1. MetaCap \in 5 .. 7
      BY <1>2
    <3> QED BY <3>1
  <2>2. meta \in [0 .. 18 -> W]
    BY <1>2
  <2> HIDE DEF W
  <2> QED BY <2>1, <2>2
<1>4. n \in 4 .. 19
  BY CountOfMeta
<1>5. a \in Seq(BitPieces) /\ Len(a) = 4
  <2> DEFINE x == NLit(built.litlen)
             y == NDist(built.dist)
  <2>1. x \in 257 .. 286 /\ y \in 1 .. 30
    BY <1>2, HeaderIs
  <2> HIDE DEF x, y, n
  <2>2. x - 257 \in Nat /\ x - 257 < 32 /\ y - 1 \in Nat /\ y - 1 < 32 /\ n - 4 \in Nat /\ n - 4 < 16
    BY <1>4, <2>1
  <2>3. Piece(5, 3) \in BitPieces
    BY SmallPowers, PieceFits
  <2>4. Piece(x - 257, 5) \in BitPieces /\ Piece(y - 1, 5) \in BitPieces
    <3>1. 5 \in 0 .. 15 /\ Pow[5] = 32
      BY SmallPowers
    <3> QED BY <2>2, <3>1, PieceFits
  <2>5. Piece(n - 4, 4) \in BitPieces
    <3>1. 4 \in 0 .. 15 /\ Pow[4] = 16
      BY SmallPowers
    <3> QED BY <2>2, <3>1, PieceFits
  <2> HIDE DEF a
  <2>6. a = <<Piece(5, 3), Piece(x - 257, 5), Piece(y - 1, 5), Piece(n - 4, 4)>>
    BY DEF a, x, y
  <2> QED BY <2>3, <2>4, <2>5, <2>6
<1>6. b \in Seq(BitPieces)
  <2>1. ASSUME NEW k \in 1 .. n PROVE Piece(meta[META_ORDER[k]], 3) \in BitPieces
    <3>1. k \in 1 .. 19
      BY <1>4
    <3>2. meta[META_ORDER[k]] \in 0 .. 7
      BY <1>3, <3>1, MetaOrder
    <3> DEFINE v == meta[META_ORDER[k]]
    <3>3. v \in Nat /\ v < 8 /\ Pow[3] = 8 /\ 3 \in 0 .. 15
      BY <3>2, SmallPowers
    <3> HIDE DEF v
    <3>4. Piece(v, 3) \in BitPieces
      BY <3>3, PieceFits
    <3> QED BY <3>4 DEF v
  <2> HIDE DEF n
  <2>2. n \in Nat
    BY <1>4
  <2> DEFINE f(k) == Piece(meta[META_ORDER[k]], 3)
  <2> HIDE DEF f
  <2>3. b = [k \in 1 .. n |-> f(k)] /\ \A k \in 1 .. n : f(k) \in BitPieces
    BY <2>1 DEF f
  <2> HIDE DEF b
  <2> QED BY <2>2, <2>3
<1>7. c \in Seq(Seq(BitPieces))
  <2>1. ASSUME NEW k \in 1 .. Len(rle) PROVE E(k) \in Seq(BitPieces)
    <3>1. rle[k] \in AnyEntry /\ EntryFits(rle[k])
      <4>1. rle \in Seq(AnyEntry) /\ EntriesFit
        BY <1>2
      <4> QED BY <4>1 DEF EntriesFit
    <3> QED BY <1>3, <3>1, EntryPieceFits
  <2> HIDE DEF E
  <2> QED BY <1>2, <2>1
<1> HIDE DEF a, b, c
<1>8. Concatenated(c) \in Seq(BitPieces)
  BY <1>7, ConcatenatedIn
<1> DEFINE ab == a \o b
<1>9. ab \in Seq(BitPieces) /\ Len(ab) = 4 + Len(b)
  <2>1. a \o b \in Seq(BitPieces) /\ Len(a \o b) = Len(a) + Len(b)
    BY <1>5, <1>6, ConcatIs
  <2> QED BY <1>5, <2>1
<1> HIDE DEF ab
<1> DEFINE h == ab \o Concatenated(c)
<1>10. h \in Seq(BitPieces) /\ Len(h) = Len(ab) + Len(Concatenated(c))
  BY <1>8, <1>9, ConcatIs
<1>11. HeaderPieces = h
  BY <1>1 DEF ab
<1> HIDE DEF h
<1>12. Len(h) # 0
  BY <1>6, <1>8, <1>9, <1>10
<1>13. h # <<>>
  BY <1>10, <1>12
<1> QED BY <1>10, <1>11, <1>13

LEMMA ReadyTables ==
  ASSUME Ready
  PROVE  TablesFit(built.litlen, built.dist)
<1> DEFINE W == 0 .. LitCap
<1>1. LitCap \in 1 .. 15
  BY DeflateAssumption
<1>2. W \subseteq 0 .. 15
  BY <1>1
<1>3. built.litlen \in [0 .. 285 -> W] /\ built.dist \in [0 .. 29 -> W]
  BY DEF Ready, LitPadded, DistPadded
<1> HIDE DEF W
<1> QED BY <1>2, <1>3 DEF TablesFit

LEMMA TokenWritten ==
  ASSUME NEW t \in DeflateTokens, NEW lit, NEW lc, NEW dist, NEW dc, TablesFit(lit, dist)
  PROVE  /\ Written(TokenPieces("gpu", t, lit, lc, dist, dc), TRUE).len = TokenLength(t, lit, dist)
         /\ TokenLength(t, lit, dist) \in Nat
<1>1. "gpu" \in Encoders
  BY DEF Encoders
<1>2. \A m : Written(TokenPieces("gpu", t, lit, lc, dist, dc), m).len = TokenLength(t, lit, dist)
  BY <1>1, TokenPiecesFit
<1>3. TokenLength(t, lit, dist) \in Nat
  BY <1>1, TokenPiecesFit, Zenon
<1> QED BY <1>2, <1>3

(* The sum over the tokens that the host makes.                            *)
LEMMA AnnouncedIs ==
  ASSUME BlockInv, phase = "done", encoder = "gpu", tokens # <<>>
  PROVE  out.len = TotalBits
<1> DEFINE lit == built.litlen
           dist == built.dist
           lc == CanonicalCodes(lit)
           dc == CanonicalCodes(dist)
           H == HeaderPieces
           B == Body("gpu", lit, lc, dist, dc)
           n == Len(tokens)
           bits == [k \in 1 .. n |->
                     IF is_literal(tokens[k]) THEN built.litlen[tokens[k].distance]
                     ELSE LET l == host_length_code(tokens[k].length)
                              d == host_distance_code(tokens[k].distance)
                          IN  built.litlen[l.sym] + l.extra + built.dist[d.sym] + d.extra]
<1>1. tokens \in Seq(DeflateTokens) /\ Ready /\ out = DynamicBits("gpu")
  BY DEF BlockInv, BlockTypeOK, Emitted
<1>2. out = Written(H \o B, TRUE)
  BY <1>1 DEF DynamicBits, Masked
<1>3. BodyBits = Summed(bits, n)[n]
  BY DEF BodyBits, Summed
<1>4. TablesFit(lit, dist)
  BY <1>1, ReadyTables
<1>5. "gpu" \in Encoders
  BY DEF Encoders
<1>6. H \in Seq(BitPieces)
  BY <1>1, HeaderFits
<1>7. TotalBits = Written(H, TRUE).len + BodyBits + lit[256]
  BY DEF TotalBits
<1> HIDE DEF H, lc, dc
<1>80. PICK writes \in Seq(Seq(BitPieces)), end \in BitPieces : BodyParts("gpu", lit, lc, dist, dc, writes, end)
  <2> HIDE DEF lit, dist
  <2> QED BY <1>1, <1>4, <1>5, BodyIs
<1>8. /\ B = Concatenated(writes) \o <<end>>
      /\ end.bits = lit[256]
      /\ Len(writes) = n
      /\ \A k \in 1 .. n : writes[k] = TokenPieces("gpu", tokens[k], lit, lc, dist, dc)
  BY <1>80 DEF BodyParts
<1>9. ASSUME NEW k \in 1 .. n PROVE bits[k] \in Nat /\ Written(writes[k], TRUE).len = bits[k]
  <2> DEFINE t == tokens[k]
             l == length_code(t.length)
             d == distance_code(t.distance)
             w == Written(TokenPieces("gpu", t, lit, lc, dist, dc), TRUE).len
  <2>1. t \in DeflateTokens
    BY <1>1
  <2>20. w = TokenLength(t, lit, dist) /\ w \in Nat
    <3> HIDE DEF lit, dist, t, bits, B, n, l, d
    <3>1. Written(TokenPieces("gpu", t, lit, lc, dist, dc), TRUE).len = TokenLength(t, lit, dist) /\ TokenLength(t, lit, dist) \in Nat
      BY <1>4, <2>1, TokenWritten
    <3> QED BY <3>1
  <2>2. /\ w = IF is_literal(t) THEN lit[t.distance] ELSE lit[l.sym] + l.extra + dist[d.sym] + d.extra
        /\ w \in Nat
    <3> HIDE DEF w, lit, dist, t
    <3> QED BY <2>20 DEF TokenLength
  <2>3. ~ is_literal(t) => host_length_code(t.length) = l /\ host_distance_code(t.distance) = d
    <3> HIDE DEF t
    <3>1. ~ is_literal(t) => t.length \in MatchLengths /\ t.distance \in MatchDistances
      BY <2>1, TokenIs
    <3> QED BY <3>1, LengthsAgree, DistancesAgree
  <2>4. bits[k] = IF is_literal(t) THEN lit[t.distance]
                  ELSE LET x == host_length_code(t.length)
                           y == host_distance_code(t.distance)
                       IN  lit[x.sym] + x.extra + dist[y.sym] + y.extra
    OBVIOUS
  <2>5. Written(writes[k], TRUE).len = w
    BY <1>8
  <2> HIDE DEF bits, w, l, d, t, lit, dist
  <2>6. bits[k] = w
    BY <2>2, <2>3, <2>4
  <2> QED BY <2>2, <2>5, <2>6
<1> HIDE DEF bits
<1>10. Written(Concatenated(writes), TRUE).len = Summed(bits, n)[n]
  <2>1. \A k \in 1 .. Len(writes) : bits[k] \in Nat /\ Written(writes[k], TRUE).len = bits[k]
    BY <1>8, <1>9
  <2>2. Written(Concatenated(writes), TRUE).len = Summed(bits, Len(writes))[Len(writes)]
    BY <2>1, ConcatenatedLength
  <2> QED BY <1>8, <2>2
<1>11. Concatenated(writes) \in Seq(BitPieces) /\ <<end>> \in Seq(BitPieces) /\ Written(<<end>>, TRUE).len = end.bits
  BY ConcatenatedIn, WrittenOne
<1>12. Written(B, TRUE).len = BodyBits + lit[256]
  <2>1. Written(Concatenated(writes) \o <<end>>, TRUE).len = Written(Concatenated(writes), TRUE).len + Written(<<end>>, TRUE).len
    BY <1>11, WrittenConcat
  <2> QED BY <1>3, <1>8, <1>10, <1>11, <2>1
<1>13. B \in Seq(BitPieces)
  BY <1>8, <1>11, ConcatIs
<1>14. Written(H \o B, TRUE).len = Written(H, TRUE).len + Written(B, TRUE).len
  BY <1>6, <1>13, WrittenConcat
<1>15. Written(H, TRUE).len \in Nat /\ BodyBits \in Nat /\ lit[256] \in Nat
  <2>1. Written(H, TRUE) \in Bits
    <3>1. PICK p \in BitPieces : TRUE
      BY <1>8
    <3> QED BY <1>6, <3>1, WrittenAppend
  <2>2. n \in Nat
    BY <1>1
  <2>3. Summed(bits, n)[n] \in Nat
    <3> HIDE DEF n
    <3>1. \A k \in 1 .. n : bits[k] \in Nat
      BY <1>9
    <3>2. Summed(bits, n) \in [0 .. n -> Nat]
      BY <2>2, <3>1, SummedIs
    <3> QED BY <2>2, <3>2
  <2>5. lit[256] \in Nat
    <3> HIDE DEF lit, dist, bits, n, B
    <3> QED BY <1>4, EndFits
  <2>6. Written(H, TRUE).len \in Nat
    BY <2>1 DEF Bits
  <2> QED BY <1>3, <2>3, <2>5, <2>6
<1>16. out.len = Written(H, TRUE).len + (BodyBits + lit[256])
  BY <1>2, <1>12, <1>14
<1> DEFINE x == Written(H, TRUE).len
           y == lit[256]
           z == BodyBits
<1>17. x \in Nat /\ y \in Nat /\ z \in Nat /\ out.len = x + (z + y) /\ TotalBits = x + z + y
  BY <1>7, <1>15, <1>16
<1> HIDE DEF x, y, z
<1> QED BY <1>17

LEMMA AnnouncedHere == BlockInv => AnnouncedBitsExact
BY AnnouncedIs DEF AnnouncedBitsExact

(* The host of the GPU path announces exactly the bits it has encoded.     *)
THEOREM AnnouncedBitsAreExact == BlockSpec => []AnnouncedBitsExact
BY BlockInvHolds, AnnouncedHere, PTL
-----------------------------------------------------------------------------
(* Masking changes nothing of a piece that fits its bits.                  *)
LEMMA PutPlain ==
  ASSUME NEW b, NEW p \in BitPieces, NEW m
  PROVE  Put(b, p, m) = [ones |-> b.ones \cup {b.len + k : k \in BitsOf(p.value)}, len |-> b.len + p.bits]
<1>1. p.bits \in 0 .. 15 /\ p.value \in Nat /\ p.value < Pow[p.bits]
  BY DEF BitPieces
<1>2. p.value % 2 ^ p.bits = p.value
  <2> DEFINE v == p.value
             w == 2 ^ p.bits
  <2>1. p.bits \in 0 .. 16
    BY <1>1
  <2>2. w = Pow[p.bits] /\ v \in Nat /\ v < w /\ w \in Nat
    BY <1>1, <2>1, PowIs, PowNat
  <2> HIDE DEF v, w
  <2>3. v % w = v
    BY <2>2
  <2> QED BY <2>3 DEF v, w
<1>3. (IF m THEN p.value % 2 ^ p.bits ELSE p.value) = p.value
  BY <1>2
<1> QED BY <1>3 DEF Put

(* The unmasked writer of encode_block_fast is as good as the others.      *)
LEMMA WrittenPlain ==
  ASSUME NEW s \in Seq(BitPieces), NEW m, NEW o
  PROVE  Written(s, m) = Written(s, o)
<1> DEFINE n == Len(s)
<1>1. n \in Nat /\ \A k \in 1 .. n : s[k] \in BitPieces
  OBVIOUS
<1>2. PICK f \in [0 .. n -> Bits] :
        /\ f[0] = NoBits /\ Written(s, m) = f[n]
        /\ \A k \in 1 .. n : f[k] = Put(f[k - 1], s[k], m)
  BY WrittenIs
<1>3. PICK g \in [0 .. n -> Bits] :
        /\ g[0] = NoBits /\ Written(s, o) = g[n]
        /\ \A k \in 1 .. n : g[k] = Put(g[k - 1], s[k], o)
  BY WrittenIs
<1> HIDE DEF n
<1> DEFINE T == {x \in Nat : x <= n => f[x] = g[x]}
<1>4. 0 \in T
  BY <1>2, <1>3
<1>5. ASSUME NEW x \in Nat, x \in T PROVE x + 1 \in T
  <2>1. ASSUME x + 1 <= n PROVE f[x + 1] = g[x + 1]
    <3>1. x + 1 \in 1 .. n /\ (x + 1) - 1 = x /\ f[x] = g[x]
      BY <1>1, <1>5, <2>1
    <3>2. f[x + 1] = Put(f[x], s[x + 1], m) /\ g[x + 1] = Put(g[x], s[x + 1], o)
      BY <1>2, <1>3, <3>1
    <3>3. Put(f[x], s[x + 1], m) = Put(f[x], s[x + 1], o)
      BY <1>1, <3>1, PutPlain
    <3> QED BY <3>1, <3>2, <3>3
  <2> QED BY <2>1
<1> HIDE DEF T
<1>6. n \in T
  BY <1>1, <1>4, <1>5, Induction
<1> QED BY <1>1, <1>2, <1>3, <1>6 DEF T
-----------------------------------------------------------------------------
(* The atoms of the shader are the pieces at the offsets the writers reach.*)
LEMMA OffsetsAre ==
  ASSUME NEW s \in Seq(BitPieces)
  PROVE  \E f \in [0 .. Len(s) -> Nat] :
           /\ f[0] = 0 /\ \A k \in 1 .. Len(s) : f[k] = f[k - 1] + s[k].bits
           /\ Atoms(s) = [k \in 1 .. Len(s) |-> [bit_offset |-> f[k - 1], value |-> s[k].value, n_bits |-> s[k].bits]]
<1> DEFINE n == Len(s)
           t == [k \in 1 .. n |-> s[k].bits]
           F == CHOOSE f : f = [k \in 0 .. n |-> IF k = 0 THEN 0 ELSE f[k - 1] + s[k].bits]
           g == Summed(t, n)
<1>1. n \in Nat /\ \A k \in 1 .. n : t[k] \in Nat /\ t[k] = s[k].bits
  BY SMTT(30) DEF BitPieces
<1>2. Atoms(s) = [k \in 1 .. n |-> [bit_offset |-> F[k - 1], value |-> s[k].value, n_bits |-> s[k].bits]]
  BY DEF Atoms
<1> HIDE DEF n, t
<1>3. /\ g \in [0 .. n -> Nat] /\ g[0] = 0
      /\ \A k \in 1 .. n : g[k] = g[k - 1] + t[k]
  BY <1>1, SummedIs
<1> HIDE DEF g
<1>4. g = [k \in 0 .. n |-> IF k = 0 THEN 0 ELSE g[k - 1] + s[k].bits]
  <2>1. \A k \in 0 .. n : g[k] = IF k = 0 THEN 0 ELSE g[k - 1] + s[k].bits
    BY <1>1, <1>3
  <2>2. g = [k \in 0 .. n |-> g[k]]
    BY <1>3
  <2> QED BY <2>1, <2>2
<1>5. F = [k \in 0 .. n |-> IF k = 0 THEN 0 ELSE F[k - 1] + s[k].bits]
  BY <1>4, Zenon
<1> HIDE DEF F
<1>6. F[0] = 0 /\ \A k \in 1 .. n : F[k] = F[k - 1] + s[k].bits
  <2>1. 0 \in 0 .. n /\ \A k \in 1 .. n : k \in 0 .. n /\ k # 0
    BY <1>1
  <2>2. \A k \in 0 .. n : F[k] = IF k = 0 THEN 0 ELSE F[k - 1] + s[k].bits
    BY <1>5, Zenon
  <2> QED BY <2>1, <2>2
<1> DEFINE T == {x \in Nat : x <= n => F[x] = g[x]}
<1>7. 0 \in T
  BY <1>3, <1>6
<1>8. ASSUME NEW x \in Nat, x \in T PROVE x + 1 \in T
  <2>1. ASSUME x + 1 <= n PROVE F[x + 1] = g[x + 1]
    <3>1. x + 1 \in 1 .. n /\ (x + 1) - 1 = x /\ F[x] = g[x]
      BY <1>1, <1>8, <2>1
    <3> QED BY <1>1, <1>3, <1>6, <3>1
  <2> QED BY <2>1
<1> HIDE DEF T
<1>9. \A k \in 0 .. n : F[k] = g[k]
  <2>1. \A k \in 0 .. n : k \in T
    BY <1>1, <1>7, <1>8, Induction
  <2> QED BY <1>1, <2>1 DEF T
<1>10. F \in [0 .. n -> Nat]
  <2>1. F = [k \in 0 .. n |-> F[k]]
    BY <1>5, Zenon
  <2>2. \A k \in 0 .. n : F[k] \in Nat
    BY <1>3, <1>9
  <2> QED BY <2>1, <2>2
<1> QED BY <1>2, <1>6, <1>10 DEF n

(* Atoms placed in any order make the bits that are written one by one.    *)
LEMMA PlacedIs ==
  ASSUME NEW s \in Seq(BitPieces), s # <<>>, NEW m
  PROVE  Placed(Atoms(s)) = Written(s, m)
<1> DEFINE n == Len(s)
<1>1. n \in Nat /\ n > 0 /\ n \in 1 .. n /\ n \in 0 .. n /\ \A k \in 1 .. n : s[k] \in BitPieces
  OBVIOUS
<1>2. PICK f \in [0 .. n -> Nat] :
        /\ f[0] = 0 /\ \A k \in 1 .. n : f[k] = f[k - 1] + s[k].bits
        /\ Atoms(s) = [k \in 1 .. n |-> [bit_offset |-> f[k - 1], value |-> s[k].value, n_bits |-> s[k].bits]]
  BY OffsetsAre
<1>3. PICK w \in [0 .. n -> Bits] :
        /\ w[0] = NoBits /\ Written(s, m) = w[n]
        /\ \A k \in 1 .. n : w[k] = Put(w[k - 1], s[k], m)
  BY WrittenIs
<1> HIDE DEF n
<1> DEFINE Ones(k) == {f[k - 1] + j : j \in BitsOf(s[k].value)}
           Upto(x) == UNION {Ones(k) : k \in 1 .. x}
           T == {x \in Nat : x <= n => w[x].len = f[x] /\ w[x].ones = Upto(x)}
<1>4. 0 \in T
  <2>1. 1 .. 0 = {}
    OBVIOUS
  <2>2. Upto(0) = {}
    BY <2>1
  <2>3. w[0].len = 0 /\ w[0].ones = {}
    BY <1>3 DEF NoBits
  <2> QED BY <1>2, <2>2, <2>3
<1>5. ASSUME NEW x \in Nat, x \in T PROVE x + 1 \in T
  <2>1. ASSUME x + 1 <= n PROVE w[x + 1].len = f[x + 1] /\ w[x + 1].ones = Upto(x + 1)
    <3>1. x + 1 \in 1 .. n /\ (x + 1) - 1 = x /\ w[x].len = f[x] /\ w[x].ones = Upto(x)
      <4> HIDE DEF Upto
      <4>1. x <= n
        BY <1>1, <2>1
      <4> QED BY <1>1, <1>5, <2>1, <4>1
    <3> HIDE DEF T
    <3>2. s[x + 1] \in BitPieces
      BY <1>1, <3>1
    <3>3. w[x + 1] = [ones |-> w[x].ones \cup {w[x].len + k : k \in BitsOf(s[x + 1].value)},
                      len |-> w[x].len + s[x + 1].bits]
      <4> HIDE DEF Upto
      <4>1. w[x + 1] = Put(w[x], s[x + 1], m)
        BY <1>3, <3>1
      <4> QED BY <3>2, <4>1, PutPlain
    <3>4. w[x + 1].len = f[x + 1]
      BY <1>2, <3>1, <3>3
    <3>5. w[x + 1].ones = Upto(x) \cup Ones(x + 1)
      BY <3>1, <3>3
    <3>6. 1 .. x + 1 = 1 .. x \cup {x + 1}
      OBVIOUS
    <3> HIDE DEF Ones
    <3>7. Upto(x + 1) = Upto(x) \cup Ones(x + 1)
      BY <3>6
    <3> QED BY <3>4, <3>5, <3>7
  <2> QED BY <2>1
<1> HIDE DEF T
<1>6. n \in T
  BY <1>1, <1>4, <1>5, Induction
<1>7. w[n].len = f[n] /\ w[n].ones = Upto(n)
  <2> HIDE DEF Upto
  <2>1. n <= n
    BY <1>1
  <2> QED BY <1>6, <2>1 DEF T
<1> DEFINE a == Atoms(s)
<1>8. /\ DOMAIN a = 1 .. n /\ Len(a) = n
      /\ \A k \in 1 .. n : a[k].bit_offset = f[k - 1] /\ a[k].value = s[k].value /\ a[k].n_bits = s[k].bits
  BY <1>1, <1>2
<1> HIDE DEF a
<1>9. Placed(a) = [ones |-> Upto(n), len |-> f[n]]
  <2>1. Placed(a) = [ones |-> UNION {{a[k].bit_offset + j : j \in BitsOf(a[k].value)} : k \in DOMAIN a},
                     len |-> a[n].bit_offset + a[n].n_bits]
    BY <1>8 DEF Placed
  <2>2. a[n].bit_offset + a[n].n_bits = f[n]
    BY <1>1, <1>2, <1>8
  <2>3. \A k \in 1 .. n : {a[k].bit_offset + j : j \in BitsOf(a[k].value)} = Ones(k)
    BY <1>8
  <2>4. {{a[k].bit_offset + j : j \in BitsOf(a[k].value)} : k \in DOMAIN a} = {Ones(k) : k \in 1 .. n}
    <3> DEFINE A(k) == {a[k].bit_offset + j : j \in BitsOf(a[k].value)}
    <3>1. \A k \in 1 .. n : A(k) = Ones(k)
      BY <2>3
    <3> HIDE DEF Ones, A
    <3>2. {A(k) : k \in 1 .. n} = {Ones(k) : k \in 1 .. n}
      BY <3>1
    <3>3. {A(k) : k \in DOMAIN a} = {Ones(k) : k \in 1 .. n}
      BY <1>8, <3>2
    <3> QED BY <3>3 DEF A
  <2> QED BY <2>1, <2>2, <2>4
<1>10. w[n] = [ones |-> w[n].ones, len |-> w[n].len]
  BY <1>1, <1>3 DEF Bits
<1> QED BY <1>3, <1>7, <1>9, <1>10 DEF a
-----------------------------------------------------------------------------
(* The dynamic block of every encoder is that of encode_block.             *)
LEMMA DynamicAgree ==
  ASSUME tokens \in Seq(DeflateTokens), NEW enc \in Encoders, Ready
  PROVE  DynamicBits(enc) = DynamicBits("slow")
<1> DEFINE lit == built.litlen
           dist == built.dist
           lc == CanonicalCodes(lit)
           dc == CanonicalCodes(dist)
           B == Body(enc, lit, lc, dist, dc)
           C == Body("slow", lit, lc, dist, dc)
           H == HeaderPieces
<1>1. DynamicBits(enc) = Written(H \o B, Masked(enc)) /\ DynamicBits("slow") = Written(H \o C, Masked("slow"))
  BY DEF DynamicBits
<1>2. TablesFit(lit, dist)
  BY ReadyTables
<1> HIDE DEF lc, dc, lit, dist
<1>3. B \in Seq(BitPieces) /\ B = C
  BY <1>2, BodyFits
<1>4. H \in Seq(BitPieces)
  BY HeaderFits
<1> HIDE DEF B, C, H
<1>5. H \o B \in Seq(BitPieces)
  BY <1>3, <1>4, ConcatIs
<1>6. Written(H \o B, Masked(enc)) = Written(H \o B, Masked("slow"))
  BY <1>5, WrittenPlain
<1> QED BY <1>1, <1>3, <1>6

FixedBits(enc) ==
  IF enc = "atoms" THEN Placed(Atoms(FixedPieces(enc))) ELSE Written(FixedPieces(enc), Masked(enc))

LEMMA FixedTables ==
  ASSUME NEW lit, lit = [s \in 0 .. 287 |-> fixed_litlen_code(s).bits],
         NEW dist, dist = [s \in 0 .. 29 |-> fixed_dist_code(s).bits]
  PROVE  TablesFit(lit, dist)
<1>1. ASSUME NEW s \in 0 .. 285 PROVE lit[s] \in 0 .. 15
  <2>1. lit[s] = fixed_litlen_code(s).bits
    OBVIOUS
  <2>2. s \in 0 .. 143 \/ s \in 144 .. 255 \/ s \in 256 .. 279 \/ s \in 280 .. 287
    OBVIOUS
  <2>3. fixed_litlen_code(s).bits \in {7, 8, 9}
    BY <2>2, SMT DEF fixed_litlen_code
  <2> QED BY <2>1, <2>3
<1>2. ASSUME NEW s \in 0 .. 29 PROVE dist[s] \in 0 .. 15
  BY DEF fixed_dist_code
<1> QED BY <1>1, <1>2 DEF TablesFit

(* The fixed block of every encoder, the atoms' included, is that of       *)
(* encode_fixed_block.                                                     *)
LEMMA FixedAgree ==
  ASSUME tokens \in Seq(DeflateTokens), NEW enc \in Encoders
  PROVE  FixedBits(enc) = Written(FixedPieces("slow"), TRUE)
<1> DEFINE lit == [s \in 0 .. 287 |-> fixed_litlen_code(s).bits]
           lc == [s \in 0 .. 287 |-> fixed_litlen_code(s).code]
           dist == [s \in 0 .. 29 |-> fixed_dist_code(s).bits]
           dc == [s \in 0 .. 29 |-> fixed_dist_code(s).code]
           B == Body(enc, lit, lc, dist, dc)
           C == Body("slow", lit, lc, dist, dc)
           h == <<Piece(3, 3)>>
<1>1. FixedPieces(enc) = h \o B /\ FixedPieces("slow") = h \o C
  BY DEF FixedPieces
<1>2. TablesFit(lit, dist)
  BY FixedTables
<1> HIDE DEF lc, dc, lit, dist
<1>3. B \in Seq(BitPieces) /\ B = C
  BY <1>2, BodyFits
<1>4. h \in Seq(BitPieces) /\ Len(h) = 1
  <2>1. Piece(3, 3) \in BitPieces
    <3>1. Pow[3] = 8
      BY DEF Pow
    <3> QED BY <3>1, PieceFits
  <2> QED BY <2>1
<1> HIDE DEF B, C, h
<1> DEFINE s == h \o B
<1>5. s \in Seq(BitPieces) /\ s # <<>>
  <2>1. s \in Seq(BitPieces) /\ Len(s) = 1 + Len(B) /\ Len(B) \in Nat
    <3>1. h \in Seq(BitPieces) /\ B \in Seq(BitPieces)
      BY <1>3, <1>4
    <3>2. Len(h \o B) = Len(h) + Len(B) /\ h \o B \in Seq(BitPieces)
      BY <3>1, ConcatIs
    <3> QED BY <1>4, <3>1, <3>2
  <2>2. Len(s) # 0
    BY <2>1
  <2> HIDE DEF s
  <2> QED BY <2>1, <2>2
<1>6. FixedPieces(enc) = s /\ FixedPieces("slow") = s
  BY <1>1, <1>3
<1> HIDE DEF s
<1>7. Placed(Atoms(s)) = Written(s, TRUE)
  BY <1>5, PlacedIs
<1>8. Written(s, Masked(enc)) = Written(s, TRUE)
  BY <1>5, WrittenPlain
<1> QED BY <1>6, <1>7, <1>8 DEF FixedBits

(* Only a dynamic block builds a code for the lengths.                     *)
PathTaken ==
  /\ phase \notin {"emit", "done"} => built.meta = <<>>
  /\ phase = "done" /\ ~ (encoder = "gpu" /\ tokens = <<>>) =>
       IF built.meta # <<>> THEN Ready /\ out = DynamicBits(encoder) ELSE out = FixedBits(encoder)

LEMMA PathNext == BlockInv /\ PathTaken /\ [BlockNext]_blockvars => PathTaken'
<1> SUFFICES ASSUME BlockInv, PathTaken, [BlockNext]_blockvars PROVE PathTaken'
  OBVIOUS
<1>1. built = [litlen |-> built.litlen, dist |-> built.dist, meta |-> built.meta]
  BY DEF BlockInv, BlockTypeOK
<1>2. CASE UNCHANGED blockvars
  <2>1. UNCHANGED <<tokens, encoder, phase, work, built, out, rlevars>>
    BY <1>2 DEF blockvars
  <2>2. DynamicBits(encoder)' = DynamicBits(encoder) /\ FixedBits(encoder)' = FixedBits(encoder)
    BY <2>1 DEF rlevars, DynamicBits, FixedBits, FixedPieces, HeaderPieces, Body
  <2>3. Ready => Ready'
    BY <2>1 DEF Ready, rlevars, EntriesFit
  <2> QED BY <2>1, <2>2, <2>3 DEF PathTaken
<1>3. CASE CountFrequencies \/ EncodeFixed \/ FallBack \/ HalveFrequencies \/ EncodeLengths \/ StartMeta
  <2>1. phase \notin {"emit", "done"} /\ phase' \notin {"emit", "done"} /\ built' = built
    BY <1>3 DEF CountFrequencies, EncodeFixed, FallBack, HalveFrequencies, EncodeLengths, StartMeta, Building
  <2> QED BY <2>1 DEF PathTaken
<1>4. CASE EmitEmpty
  <2>1. phase' = "done" /\ encoder' = "gpu" /\ tokens' = <<>>
    BY <1>4 DEF EmitEmpty
  <2> QED BY <2>1 DEF PathTaken
<1>5. CASE AcceptDegenerate \/ AcceptTree
  <2>1. PICK lengths : Accept(lengths)
    BY <1>5 DEF AcceptDegenerate, AcceptTree
  <2>2. phase \in {"litlen", "dist", "meta"}
    BY <1>5 DEF AcceptDegenerate, AcceptTree, Building
  <2>3. built' = [built EXCEPT ![phase] = lengths] /\ phase' = PhaseAfter
    BY <2>1 DEF Accept
  <2>4. CASE phase = "meta"
    <3>1. phase' = "emit"
      BY <2>3, <2>4 DEF PhaseAfter
    <3> QED BY <3>1 DEF PathTaken
  <2>5. CASE phase # "meta"
    <3>1. phase' \in {"dist", "header"}
      BY <2>2, <2>3, <2>5 DEF PhaseAfter
    <3>2. built'.meta = built.meta
      BY <1>1, <2>2, <2>3, <2>5
    <3>3. built.meta = <<>>
      BY <2>2 DEF PathTaken
    <3> QED BY <3>1, <3>2, <3>3 DEF PathTaken
  <2> QED BY <2>4, <2>5
<1>6. CASE StartHeader
  <2>1. PICK lit, dist : built' = [built EXCEPT !.litlen = lit, !.dist = dist]
    BY <1>6 DEF StartHeader
  <2>2. phase = "header" /\ phase' = "rle"
    BY <1>6 DEF StartHeader
  <2>3. built'.meta = built.meta
    BY <1>1, <2>1
  <2> QED BY <2>2, <2>3 DEF PathTaken
<1>7. CASE EmitDynamic
  <2>1. phase = "emit" /\ phase' = "done" /\ out' = DynamicBits(encoder) /\ UNCHANGED <<tokens, encoder, built, rlevars>>
    BY <1>7 DEF EmitDynamic
  <2>2. Ready
    BY <2>1 DEF BlockInv, Emitted
  <2>3. Ready'
    BY <2>1, <2>2 DEF Ready, rlevars, EntriesFit
  <2>4. DynamicBits(encoder)' = DynamicBits(encoder)
    BY <2>1 DEF rlevars, DynamicBits, HeaderPieces, Body
  <2>5. built'.meta # <<>>
    <3>1. built.meta \in [0 .. 18 -> 0 .. MetaCap]
      BY <2>2 DEF Ready
    <3>2. 0 \in DOMAIN built.meta /\ 0 \notin DOMAIN <<>>
      BY <3>1
    <3>3. built.meta # <<>>
      BY <3>2
    <3> QED BY <2>1, <3>3
  <2> QED BY <2>1, <2>3, <2>4, <2>5 DEF PathTaken
<1>8. CASE EmitFixed
  <2>1. phase = "fixed" /\ phase' = "done" /\ out' = FixedBits(encoder) /\ UNCHANGED <<tokens, encoder, built, rlevars>>
    BY <1>8 DEF EmitFixed, FixedBits
  <2>2. FixedBits(encoder)' = FixedBits(encoder)
    BY <2>1 DEF FixedBits, FixedPieces, Body
  <2>3. built'.meta = <<>>
    BY <2>1 DEF PathTaken
  <2> QED BY <2>1, <2>2, <2>3 DEF PathTaken
<1> QED BY <1>2, <1>3, <1>4, <1>5, <1>6, <1>7, <1>8 DEF BlockNext, Finished

LEMMA PathInit == BlockInit => PathTaken
BY DEF BlockInit, PathTaken

LEMMA AgreeHere == BlockInv /\ PathTaken => EncodersAgree
<1> SUFFICES ASSUME BlockInv, PathTaken, phase = "done", ~ (encoder = "gpu" /\ tokens = <<>>)
             PROVE  out = IF built.meta # <<>> THEN DynamicBits("slow") ELSE Written(FixedPieces("slow"), TRUE)
  BY DEF EncodersAgree
<1>1. tokens \in Seq(DeflateTokens) /\ encoder \in Encoders
  BY DEF BlockInv, BlockTypeOK
<1>2. CASE built.meta # <<>>
  <2>1. Ready /\ out = DynamicBits(encoder)
    BY <1>2 DEF PathTaken
  <2> QED BY <1>1, <1>2, <2>1, DynamicAgree
<1>3. CASE built.meta = <<>>
  <2>1. out = FixedBits(encoder)
    BY <1>3 DEF PathTaken
  <2> QED BY <1>1, <1>3, <2>1, FixedAgree
<1> QED BY <1>2, <1>3

(* The same tokens give the same bits from every encoder, on the dynamic   *)
(* path and on the fixed one.                                              *)
THEOREM EncodersAreInterchangeable == BlockSpec => []EncodersAgree
<1>1. BlockInit => PathTaken
  BY PathInit
<1>2. BlockInv /\ PathTaken /\ [BlockNext]_blockvars => PathTaken'
  BY PathNext
<1>3. BlockInv /\ PathTaken => EncodersAgree
  BY AgreeHere
<1> QED BY <1>1, <1>2, <1>3, BlockInvHolds, PTL DEF BlockSpec
-----------------------------------------------------------------------------
LEMMA BitsAre ==
  ASSUME NEW v \in Nat, NEW k \in 0 .. 15
  PROVE  BitAt(v, k) \in {0, 1} /\ (k \in BitsOf(v) <=> BitAt(v, k) = 1)
<1>1. k \in 0 .. 16 /\ k \in 0 .. 23
  OBVIOUS
<1>2. 2 ^ k = Pow[k] /\ Pow[k] \in Nat /\ Pow[k] > 0
  BY <1>1, PowIs, PowNat
<1>3. k \in BitsOf(v) <=> (v \div Pow[k]) % 2 = 1
  BY <1>1, <1>2 DEF BitsOf
<1> DEFINE p == Pow[k]
           x == v \div p
<1>4. x \in Int
  <2> HIDE DEF p
  <2> QED BY <1>2 DEF p
<1> HIDE DEF x
<1>5. x % 2 \in {0, 1}
  BY <1>4
<1> QED BY <1>3, <1>5 DEF x, BitAt

(* A number of n bits stands at a position.                                *)
Holds(b, at, v, n) == \A j \in 0 .. n - 1 : at + j \in b.ones <=> BitAt(v, j) = 1

(* What the decoder reads there is the number.                             *)
LEMMA ReadIs ==
  ASSUME NEW b, NEW at \in Nat, NEW n \in 0 .. 15, NEW v \in Nat, v < Pow[n], Holds(b, at, v, n)
  PROVE  Read(b, at, n) = v
<1> DEFINE t == [k \in 1 .. n |-> Bit(b, at + k - 1) * 2 ^ (k - 1)]
           F == CHOOSE f : f = [k \in 0 .. n |-> IF k = 0 THEN 0 ELSE f[k - 1] + Bit(b, at + k - 1) * 2 ^ (k - 1)]
           g == Summed(t, n)
<1>1. Read(b, at, n) = F[n]
  BY DEF Read
<1>2. n \in Nat /\ n <= 15
  OBVIOUS
<1>3. ASSUME NEW k \in 1 .. n
      PROVE  /\ k - 1 \in 0 .. 14 /\ k - 1 \in 0 .. n - 1
             /\ t[k] = BitAt(v, k - 1) * Pow[k - 1] /\ t[k] \in Nat
  <2>1. k - 1 \in 0 .. 14 /\ k - 1 \in 0 .. n - 1 /\ k - 1 \in 0 .. 15 /\ k - 1 \in 0 .. 16 /\ at + k - 1 = at + (k - 1)
    BY <1>2
  <2>2. Bit(b, at + k - 1) = IF at + (k - 1) \in b.ones THEN 1 ELSE 0
    BY <2>1 DEF Bit
  <2>3. BitAt(v, k - 1) \in {0, 1} /\ (at + (k - 1) \in b.ones <=> BitAt(v, k - 1) = 1)
    BY <2>1, BitsAre DEF Holds
  <2>4. Bit(b, at + k - 1) = BitAt(v, k - 1)
    BY <2>2, <2>3
  <2>5. 2 ^ (k - 1) = Pow[k - 1] /\ Pow[k - 1] \in Nat
    BY <2>1, PowIs, PowNat
  <2>6. t[k] = Bit(b, at + k - 1) * 2 ^ (k - 1)
    OBVIOUS
  <2> DEFINE x == BitAt(v, k - 1)
             y == Pow[k - 1]
  <2>7. t[k] = x * y
    BY <2>4, <2>5, <2>6
  <2> HIDE DEF x, y, t
  <2>8. x * y \in Nat
    BY <2>3, <2>5 DEF x, y
  <2> QED BY <2>1, <2>7, <2>8 DEF x, y
<1>4. \A k \in 1 .. n : t[k] = Bit(b, at + k - 1) * 2 ^ (k - 1)
  OBVIOUS
<1> HIDE DEF t
<1>5. /\ g \in [0 .. n -> Nat] /\ g[0] = 0
      /\ \A k \in 1 .. n : g[k] = g[k - 1] + t[k]
  BY <1>2, <1>3, SummedIs
<1> HIDE DEF g
<1>6. g = [k \in 0 .. n |-> IF k = 0 THEN 0 ELSE g[k - 1] + Bit(b, at + k - 1) * 2 ^ (k - 1)]
  <2>1. \A k \in 0 .. n : k # 0 => k \in 1 .. n
    BY <1>2
  <2>2. \A k \in 0 .. n : g[k] = IF k = 0 THEN 0 ELSE g[k - 1] + Bit(b, at + k - 1) * 2 ^ (k - 1)
    BY <1>4, <1>5, <2>1, Zenon
  <2>3. g = [k \in 0 .. n |-> g[k]]
    BY <1>5
  <2> QED BY <2>2, <2>3
<1>7. F = [k \in 0 .. n |-> IF k = 0 THEN 0 ELSE F[k - 1] + Bit(b, at + k - 1) * 2 ^ (k - 1)]
  BY <1>6, Zenon
<1> HIDE DEF F
<1>8. F[0] = 0 /\ \A k \in 1 .. n : F[k] = F[k - 1] + t[k]
  <2>1. 0 \in 0 .. n /\ \A k \in 1 .. n : k \in 0 .. n /\ k # 0
    BY <1>2
  <2>2. F[0] = 0
    BY <1>7, <2>1, Zenon
  <2>3. \A k \in 1 .. n : F[k] = F[k - 1] + Bit(b, at + k - 1) * 2 ^ (k - 1)
    BY <1>7, <2>1, Zenon
  <2> QED BY <1>4, <2>2, <2>3, Zenon
<1> DEFINE T == {k \in Nat : k <= n => F[k] = v % Pow[k]}
<1>9. 0 \in T
  <2>1. Pow[0] = 1
    BY Powers
  <2>2. v % 1 = 0
    OBVIOUS
  <2> QED BY <1>8, <2>1, <2>2
<1>10. ASSUME NEW k \in Nat, k \in T PROVE k + 1 \in T
  <2> SUFFICES ASSUME k + 1 <= n PROVE F[k + 1] = v % Pow[k + 1]
    OBVIOUS
  <2>1. k + 1 \in 1 .. n /\ (k + 1) - 1 = k /\ F[k] = v % Pow[k]
    BY <1>2, <1>10
  <2>2. F[k + 1] = F[k] + t[k + 1] /\ t[k + 1] = BitAt(v, k) * Pow[k] /\ k \in 0 .. 14
    BY <1>3, <1>8, <2>1
  <2>3. v % Pow[k + 1] = (v % Pow[k]) + BitAt(v, k) * Pow[k]
    BY <2>2, LowBits
  <2> QED BY <2>1, <2>2, <2>3
<1> HIDE DEF T
<1>11. n \in T
  BY <1>2, <1>9, <1>10, Induction
<1>12. F[n] = v % Pow[n]
  BY <1>2, <1>11 DEF T
<1>13. v % Pow[n] = v
  <2> DEFINE p == Pow[n]
  <2>1. n \in 0 .. 16
    OBVIOUS
  <2>2. p \in Nat /\ p > 0 /\ v < p
    BY <2>1, PowNat
  <2> HIDE DEF p
  <2>3. v % p = v
    BY <2>2
  <2> QED BY <2>3 DEF p
<1> QED BY <1>1, <1>12, <1>13
-----------------------------------------------------------------------------
(* A value has no bits beyond those it fits.                               *)
LEMMA BitsBelow ==
  ASSUME NEW n \in 0 .. 15, NEW v \in Nat, v < Pow[n]
  PROVE  \A k \in BitsOf(v) : k \in 0 .. n - 1 /\ k \in 0 .. 15
<1>1. Pow[n] <= 32768 /\ Pow[n] \in Nat
  <2>1. n \in 0 .. 16
    OBVIOUS
  <2>2. n < 15 => 2 * Pow[n] <= Pow[15]
    BY PowersGrow
  <2>3. Pow[15] = 32768
    BY PowersTo15 DEF SixteenPowers
  <2> QED BY <2>1, <2>2, <2>3, PowNat
<1>2. SUFFICES ASSUME NEW k \in BitsOf(v), k >= n PROVE FALSE
  <2>1. \A k \in BitsOf(v) : k \in 0 .. 23
    BY DEF BitsOf
  <2> QED BY <1>2, <2>1
<1>3. k \in 0 .. 23 /\ (v \div 2 ^ k) % 2 = 1
  BY DEF BitsOf
<1>4. 2 ^ k \in Nat /\ v < 2 ^ k
  <2>1. CASE k <= 15
    <3>1. k \in 0 .. 16 /\ k \in 0 .. 15
      BY <1>3, <2>1
    <3>2. 2 ^ k = Pow[k] /\ Pow[k] \in Nat
      BY <3>1, PowIs, PowNat
    <3>3. n = k \/ 2 * Pow[n] <= Pow[k]
      BY <1>2, <3>1, PowersGrow
    <3> QED BY <1>1, <3>2, <3>3
  <2>2. CASE k > 15
    <3>1. k \in {16, 17, 18, 19, 20, 21, 22, 23}
      BY <1>3, <2>2
    <3>4. 2 ^ k \in Nat /\ 2 ^ k >= 65536
      <4>1. CASE k = 16
        BY <4>1
      <4>2. CASE k = 17
        BY <4>2
      <4>3. CASE k = 18
        BY <4>3
      <4>4. CASE k = 19
        BY <4>4
      <4>5. CASE k = 20
        BY <4>5
      <4>6. CASE k = 21
        BY <4>6
      <4>7. CASE k = 22
        BY <4>7
      <4>8. CASE k = 23
        BY <4>8
      <4> QED BY <3>1, <4>1, <4>2, <4>3, <4>4, <4>5, <4>6, <4>7, <4>8
    <3> QED BY <1>1, <3>4
  <2> QED BY <1>3, <2>1, <2>2
<1> DEFINE q == 2 ^ k
<1> HIDE DEF q
<1>5. q \in Nat /\ v < q
  BY <1>4 DEF q
<1>6. v \div q = 0
  <2> DEFINE x == v \div q
             r == v % q
  <2>1. v = x * q + r /\ r \in 0 .. q - 1 /\ x \in Nat
    BY <1>5
  <2> HIDE DEF x, r
  <2>2. x >= 1 => x * q >= q
    BY <1>5, <2>1
  <2>3. x * q \in Int
    BY <1>5, <2>1
  <2>4. x = 0
    BY <1>5, <2>1, <2>2, <2>3
  <2> QED BY <2>4 DEF x
<1>7. q \in Nat /\ (v \div q) % 2 = 1
  BY <1>3, <1>5, Zenon DEF q
<1>8. 0 % 2 = 0
  OBVIOUS
<1>9. (v \div q) % 2 = 0
  BY <1>6, <1>8, Zenon
<1> QED BY <1>7, <1>9

(* Where the pieces of a bit string stand, from one position to another.   *)
At(b, at, s, next) ==
  \E f \in [0 .. Len(s) -> Nat] :
    /\ f[0] = at /\ f[Len(s)] = next
    /\ \A k \in 1 .. Len(s) : /\ f[k] = f[k - 1] + s[k].bits
                              /\ Holds(b, f[k - 1], s[k].value, s[k].bits)

LEMMA HoldsBits ==
  ASSUME NEW p \in BitPieces, NEW b, NEW at \in Nat
  PROVE  Holds(b, at, p.value, p.bits) <=> \A j \in 0 .. p.bits - 1 : at + j \in b.ones <=> j \in BitsOf(p.value)
<1>1. p.value \in Nat /\ p.bits \in 0 .. 15
  BY DEF BitPieces
<1>2. \A j \in 0 .. p.bits - 1 : j \in 0 .. 15 /\ (j \in BitsOf(p.value) <=> BitAt(p.value, j) = 1)
  BY <1>1, BitsAre
<1> QED BY <1>2 DEF Holds

LEMMA PutHolds ==
  ASSUME NEW b \in Bits, b.ones \subseteq 0 .. b.len - 1, NEW p \in BitPieces, NEW m, NEW c, c = Put(b, p, m)
  PROVE  /\ c \in Bits /\ c.len = b.len + p.bits /\ c.ones \subseteq 0 .. c.len - 1
         /\ \A x \in 0 .. b.len - 1 : x \in c.ones <=> x \in b.ones
         /\ Holds(c, b.len, p.value, p.bits)
<1>1. b.len \in Nat /\ p.bits \in 0 .. 15 /\ p.value \in Nat /\ p.value < Pow[p.bits]
  BY DEF Bits, BitPieces
<1>2. c = [ones |-> b.ones \cup {b.len + k : k \in BitsOf(p.value)}, len |-> b.len + p.bits]
  BY PutPlain
<1>3. c \in Bits /\ c.len = b.len + p.bits
  BY PutIs
<1>4. \A k \in BitsOf(p.value) : k \in 0 .. p.bits - 1
  BY <1>1, BitsBelow
<1>5. \A x : x \in c.ones <=> x \in b.ones \/ \E k \in BitsOf(p.value) : x = b.len + k
  BY <1>2
<1>6. c.ones \subseteq 0 .. c.len - 1
  <2> SUFFICES ASSUME NEW x \in c.ones PROVE x \in 0 .. c.len - 1
    OBVIOUS
  <2>1. CASE x \in b.ones
    BY <1>1, <1>3, <2>1
  <2>2. CASE \E k \in BitsOf(p.value) : x = b.len + k
    BY <1>1, <1>3, <1>4, <2>2
  <2> QED BY <1>5, <2>1, <2>2
<1>7. ASSUME NEW x \in 0 .. b.len - 1 PROVE x \in c.ones <=> x \in b.ones
  <2>1. \A k \in BitsOf(p.value) : x # b.len + k
    BY <1>1, <1>4
  <2> QED BY <1>5, <2>1
<1>8. ASSUME NEW j \in 0 .. p.bits - 1 PROVE b.len + j \in c.ones <=> j \in BitsOf(p.value)
  <2>1. b.len + j \notin b.ones
    BY <1>1
  <2>2. \A k \in BitsOf(p.value) : b.len + j = b.len + k <=> j = k
    BY <1>1, <1>4
  <2> QED BY <1>5, <2>1, <2>2
<1> QED BY <1>1, <1>3, <1>6, <1>7, <1>8, HoldsBits

(* What is written stands where it was written.                            *)
LEMMA WrittenAt ==
  ASSUME NEW s \in Seq(BitPieces), NEW m, NEW w, w = Written(s, m)
  PROVE  w.len \in Nat /\ At(w, 0, s, w.len)
<1>1. PICK f \in [0 .. Len(s) -> Bits] :
         /\ f[0] = NoBits /\ Written(s, m) = f[Len(s)]
         /\ \A k \in 1 .. Len(s) : f[k] = Put(f[k - 1], s[k], m)
  BY WrittenIs
<1>2. Len(s) \in Nat /\ \A k \in 1 .. Len(s) : s[k] \in BitPieces
  OBVIOUS
<1>3. \A k \in 0 .. Len(s) : f[k] \in Bits /\ f[k].len \in Nat
  BY <1>1 DEF Bits
<1> DEFINE Stands(K, k) == Holds(f[K], f[k - 1].len, s[k].value, s[k].bits) /\ f[k].len <= f[K].len
                           /\ f[k].len = f[k - 1].len + s[k].bits
           T == {K \in Nat : K <= Len(s) => /\ f[K].ones \subseteq 0 .. f[K].len - 1
                                            /\ \A k \in 1 .. K : Stands(K, k)}
<1>4. 0 \in T
  BY <1>1 DEF NoBits
<1>5. ASSUME NEW K \in Nat, K \in T PROVE K + 1 \in T
  <2> SUFFICES ASSUME K + 1 <= Len(s)
               PROVE  /\ f[K + 1].ones \subseteq 0 .. f[K + 1].len - 1
                      /\ \A k \in 1 .. K + 1 : Stands(K + 1, k)
    OBVIOUS
  <2>1. /\ K + 1 \in 1 .. Len(s) /\ K \in 0 .. Len(s) /\ K + 1 \in 0 .. Len(s) /\ (K + 1) - 1 = K
        /\ \A k \in 1 .. K : k \in 1 .. Len(s) /\ k - 1 \in 0 .. Len(s) /\ k \in 0 .. Len(s)
    BY <1>2
  <2>2. f[K].ones \subseteq 0 .. f[K].len - 1 /\ \A k \in 1 .. K : Stands(K, k)
    BY <1>2, <1>5
  <2>3. f[K + 1] = Put(f[K], s[K + 1], m) /\ s[K + 1] \in BitPieces /\ f[K] \in Bits
    BY <1>1, <1>2, <1>3, <2>1
  <2>4. /\ f[K + 1].len = f[K].len + s[K + 1].bits /\ f[K + 1].ones \subseteq 0 .. f[K + 1].len - 1
        /\ \A x \in 0 .. f[K].len - 1 : x \in f[K + 1].ones <=> x \in f[K].ones
        /\ Holds(f[K + 1], f[K].len, s[K + 1].value, s[K + 1].bits)
    BY <2>2, <2>3, PutHolds
  <2>5. s[K + 1].bits \in Nat /\ f[K].len \in Nat /\ f[K + 1].len \in Nat
    BY <1>3, <2>1, <2>3 DEF BitPieces
  <2>6. ASSUME NEW k \in 1 .. K PROVE Stands(K + 1, k)
    <3>1. Stands(K, k) /\ f[k].len \in Nat /\ f[k - 1].len \in Nat /\ s[k].bits \in Nat
      <4>1. s[k] \in BitPieces /\ k \in 0 .. Len(s) /\ k - 1 \in 0 .. Len(s)
        BY <1>2, <2>1
      <4>2. Stands(K, k)
        BY <2>2
      <4> HIDE DEF Stands
      <4> QED BY <1>3, <4>1, <4>2, SMTT(30) DEF BitPieces
    <3>2. ASSUME NEW j \in 0 .. s[k].bits - 1
          PROVE  f[k - 1].len + j \in f[K + 1].ones <=> f[k - 1].len + j \in f[K].ones
      <4> DEFINE u == f[k - 1].len
                 n == s[k].bits
                 e == f[K].len
      <4>1. u \in Nat /\ n \in Nat /\ e \in Nat /\ u + n <= e /\ j \in 0 .. n - 1
        BY <2>5, <3>1
      <4>2. u + j \in 0 .. e - 1
        <5> HIDE DEF u, n, e
        <5> QED BY <4>1
      <4> QED BY <2>4, <4>2
    <3>3. Holds(f[K + 1], f[k - 1].len, s[k].value, s[k].bits)
      BY <3>1, <3>2 DEF Holds
    <3> QED BY <2>4, <2>5, <3>1, <3>3
  <2>7. Stands(K + 1, K + 1)
    BY <2>1, <2>4, <2>5
  <2>8. \A k \in 1 .. K + 1 : k \in 1 .. K \/ k = K + 1
    OBVIOUS
  <2> HIDE DEF Stands
  <2> QED BY <2>4, <2>6, <2>7, <2>8
<1>6. Len(s) \in T
  <2> HIDE DEF T
  <2> QED BY <1>2, <1>4, <1>5, Induction
<1>7. \A k \in 1 .. Len(s) : Stands(Len(s), k)
  BY <1>2, <1>6
<1> DEFINE g == [k \in 0 .. Len(s) |-> f[k].len]
<1>8. g \in [0 .. Len(s) -> Nat]
  BY <1>3
<1>9. 0 \in 0 .. Len(s) /\ Len(s) \in 0 .. Len(s)
      /\ \A k \in 1 .. Len(s) : k \in 0 .. Len(s) /\ k - 1 \in 0 .. Len(s)
  BY <1>2
<1>10. g[0] = 0 /\ g[Len(s)] = w.len /\ w = f[Len(s)] /\ w.len \in Nat
  BY <1>1, <1>3, <1>9 DEF NoBits
<1>11. ASSUME NEW k \in 1 .. Len(s)
       PROVE  g[k] = g[k - 1] + s[k].bits /\ Holds(w, g[k - 1], s[k].value, s[k].bits)
  BY <1>7, <1>9, <1>10
<1> HIDE DEF g
<1> QED BY <1>8, <1>10, <1>11 DEF At

LEMMA AtSplit ==
  ASSUME NEW x \in Seq(BitPieces), NEW y \in Seq(BitPieces), NEW b, NEW at, NEW next, At(b, at, x \o y, next)
  PROVE  \E mid \in Nat : At(b, at, x, mid) /\ At(b, mid, y, next)
<1> DEFINE z == x \o y
<1>1. /\ Len(z) = Len(x) + Len(y) /\ Len(x) \in Nat /\ Len(y) \in Nat
      /\ \A j \in 1 .. Len(x) : z[j] = x[j]
      /\ \A j \in 1 .. Len(y) : z[Len(x) + j] = y[j]
  BY ConcatIs
<1> HIDE DEF z
<1>2. PICK f \in [0 .. Len(z) -> Nat] :
         /\ f[0] = at /\ f[Len(z)] = next
         /\ \A k \in 1 .. Len(z) : /\ f[k] = f[k - 1] + z[k].bits
                                   /\ Holds(b, f[k - 1], z[k].value, z[k].bits)
  BY DEF At, z
<1> DEFINE g == [k \in 0 .. Len(x) |-> f[k]]
           h == [k \in 0 .. Len(y) |-> f[Len(x) + k]]
<1>3. g \in [0 .. Len(x) -> Nat] /\ h \in [0 .. Len(y) -> Nat] /\ f[Len(x)] \in Nat
  <2>1. \A k \in 0 .. Len(x) : k \in 0 .. Len(z)
    BY <1>1
  <2>2. \A k \in 0 .. Len(y) : Len(x) + k \in 0 .. Len(z)
    BY <1>1
  <2>3. Len(x) \in 0 .. Len(x)
    BY <1>1
  <2> QED BY <1>2, <2>1, <2>2, <2>3
<1>4. g[0] = at /\ g[Len(x)] = f[Len(x)] /\ h[0] = f[Len(x)] /\ h[Len(y)] = next
  BY <1>1, <1>2
<1>5. ASSUME NEW k \in 1 .. Len(x)
      PROVE  g[k] = g[k - 1] + x[k].bits /\ Holds(b, g[k - 1], x[k].value, x[k].bits)
  <2>1. k \in 1 .. Len(z) /\ k \in 0 .. Len(x) /\ k - 1 \in 0 .. Len(x) /\ z[k] = x[k]
    BY <1>1
  <2> QED BY <1>2, <2>1
<1>6. ASSUME NEW k \in 1 .. Len(y)
      PROVE  h[k] = h[k - 1] + y[k].bits /\ Holds(b, h[k - 1], y[k].value, y[k].bits)
  <2>1. /\ Len(x) + k \in 1 .. Len(z) /\ k \in 0 .. Len(y) /\ k - 1 \in 0 .. Len(y) /\ z[Len(x) + k] = y[k]
        /\ (Len(x) + k) - 1 = Len(x) + (k - 1)
    BY <1>1
  <2>2. f[Len(x) + k] = f[Len(x) + (k - 1)] + y[k].bits /\ Holds(b, f[Len(x) + (k - 1)], y[k].value, y[k].bits)
    BY <1>2, <2>1
  <2>3. h[k] = f[Len(x) + k] /\ h[k - 1] = f[Len(x) + (k - 1)]
    BY <2>1
  <2> QED BY <2>2, <2>3
<1> HIDE DEF g, h
<1>7. At(b, at, x, f[Len(x)]) /\ At(b, f[Len(x)], y, next)
  BY <1>3, <1>4, <1>5, <1>6 DEF At
<1> QED BY <1>3, <1>7

LEMMA AtOne ==
  ASSUME NEW p \in BitPieces, NEW b, NEW at, NEW next, At(b, at, <<p>>, next)
  PROVE  at \in Nat /\ Holds(b, at, p.value, p.bits) /\ next = at + p.bits
<1>1. Len(<<p>>) = 1 /\ <<p>>[1] = p
  OBVIOUS
<1>2. PICK f \in [0 .. 1 -> Nat] : f[0] = at /\ f[1] = next /\ \A k \in 1 .. 1 : /\ f[k] = f[k - 1] + <<p>>[k].bits
                                                        /\ Holds(b, f[k - 1], <<p>>[k].value, <<p>>[k].bits)
  BY <1>1 DEF At
<1>3. 1 \in 1 .. 1 /\ 1 - 1 = 0 /\ 0 \in 0 .. 1
  OBVIOUS
<1> QED BY <1>1, <1>2, <1>3

LEMMA AtNone == ASSUME NEW b, NEW at, NEW next, At(b, at, <<>>, next) PROVE at \in Nat /\ next = at
BY DEF At
-----------------------------------------------------------------------------
AtEach(b, at, writes, next) ==
  \E g \in [0 .. Len(writes) -> Nat] :
    /\ g[0] = at /\ g[Len(writes)] = next
    /\ \A k \in 1 .. Len(writes) : At(b, g[k - 1], writes[k], g[k])

LEMMA AtConcatenated ==
  ASSUME NEW s \in Seq(Seq(BitPieces)), NEW b, NEW at, NEW next, At(b, at, Concatenated(s), next)
  PROVE  AtEach(b, at, s, next)
<1> DEFINE W == Seq(BitPieces)
           T == {m \in Nat : \A u \in Seq(W) : \A n \in Nat :
                               Len(u) = m /\ At(b, at, Concatenated(u), n) => AtEach(b, at, u, n)}
<1>1. 0 \in T
  <2> SUFFICES ASSUME NEW u \in Seq(W), NEW n \in Nat, Len(u) = 0, At(b, at, Concatenated(u), n)
               PROVE  AtEach(b, at, u, n)
    OBVIOUS
  <2>1. u = <<>>
    OBVIOUS
  <2>2. at \in Nat /\ n = at
    BY <2>1, ConcatenatedEmpty, AtNone
  <2> DEFINE g == [k \in 0 .. 0 |-> at]
  <2>3. g \in [0 .. 0 -> Nat] /\ g[0] = at /\ \A k \in 1 .. 0 : FALSE
    BY <2>2
  <2> HIDE DEF g
  <2> QED BY <2>2, <2>3 DEF AtEach
<1>2. ASSUME NEW m \in Nat, m \in T PROVE m + 1 \in T
  <2> SUFFICES ASSUME NEW u \in Seq(W), NEW n \in Nat, Len(u) = m + 1, At(b, at, Concatenated(u), n)
               PROVE  AtEach(b, at, u, n)
    OBVIOUS
  <2>1. PICK r \in Seq(W), x \in W : u = Append(r, x) /\ Len(r) = m
    BY FrontAndLast
  <2>2. Concatenated(r) \in W /\ Concatenated(u) = Concatenated(r) \o x
    BY <2>1, ConcatenatedAppend
  <2>3. PICK mid \in Nat : At(b, at, Concatenated(r), mid) /\ At(b, mid, x, n)
    BY <2>2, AtSplit
  <2>4. AtEach(b, at, r, mid)
    BY <1>2, <2>1, <2>3
  <2>5. PICK g \in [0 .. m -> Nat] : g[0] = at /\ g[m] = mid /\ \A k \in 1 .. m : At(b, g[k - 1], r[k], g[k])
    BY <2>1, <2>4 DEF AtEach
  <2> DEFINE h == [k \in 0 .. m + 1 |-> IF k = m + 1 THEN n ELSE g[k]]
  <2>6. h \in [0 .. m + 1 -> Nat] /\ h[0] = at /\ h[m + 1] = n
    BY <2>5
  <2>7. ASSUME NEW k \in 1 .. m + 1 PROVE At(b, h[k - 1], u[k], h[k])
    <3>1. CASE k = m + 1
      <4>1. h[k - 1] = mid /\ h[k] = n /\ u[k] = x
        BY <2>1, <2>5, <3>1
      <4> QED BY <2>3, <4>1
    <3>2. CASE k # m + 1
      <4>1. k \in 1 .. m /\ h[k - 1] = g[k - 1] /\ h[k] = g[k] /\ u[k] = r[k]
        BY <2>1, <3>2
      <4> QED BY <2>5, <4>1
    <3> QED BY <3>1, <3>2
  <2> HIDE DEF h
  <2> QED BY <2>6, <2>7 DEF AtEach
<1> HIDE DEF T
<1>3. Len(s) \in T
  BY <1>1, <1>2, Induction
<1>4. next \in Nat
  <2>1. Len(Concatenated(s)) \in Nat
    BY ConcatenatedIn
  <2> QED BY <2>1 DEF At
<1> QED BY <1>3, <1>4 DEF T
-----------------------------------------------------------------------------
LEMMA Reversed ==
  ASSUME NEW n \in 0 .. 15, NEW c \in Nat, c < Pow[n], NEW r, r = ReverseBits(c, n)
  PROVE  /\ r \in Nat /\ r < Pow[n]
         /\ \A j \in 0 .. n - 1 : BitAt(r, j) = BitAt(c, n - 1 - j)
<1> DEFINE ones == {n - 1 - k : k \in {j \in BitsOf(c) : j < n}}
<1>1. r = ValueOf(ones)
  BY DEF ReverseBits
<1>2. \A k \in BitsOf(c) : k \in 0 .. n - 1
  BY BitsBelow
<1>3. ones \subseteq 0 .. n - 1
  BY <1>2
<1>4. r \in Nat /\ r < Pow[n] /\ \A j \in 0 .. n - 1 : BitAt(r, j) = IF j \in ones THEN 1 ELSE 0
  <2> HIDE DEF ones
  <2>1. /\ ValueOf(ones) \in Nat /\ ValueOf(ones) < Pow[n]
        /\ \A j \in 0 .. n - 1 : BitAt(ValueOf(ones), j) = IF j \in ones THEN 1 ELSE 0
    BY <1>3, ValueIs
  <2> QED BY <1>1, <2>1, Zenon
<1>5. ASSUME NEW j \in 0 .. n - 1 PROVE BitAt(r, j) = BitAt(c, n - 1 - j)
  <2>1. n - 1 - j \in 0 .. 15 /\ n - 1 - j < n
    OBVIOUS
  <2>2. j \in ones <=> n - 1 - j \in BitsOf(c)
    BY <1>2, <2>1
  <2>3. BitAt(c, n - 1 - j) \in {0, 1} /\ (n - 1 - j \in BitsOf(c) <=> BitAt(c, n - 1 - j) = 1)
    BY <2>1, BitsAre
  <2> HIDE DEF ones
  <2> QED BY <1>4, <2>2, <2>3
<1> QED BY <1>4, <1>5
-----------------------------------------------------------------------------
(* A decoding table: the codes own disjoint stretches.                     *)
Owns(e, x) == e.start <= x /\ x < e.start + 2 ^ (15 - e.len)
StretchOf(lengths, codes, s) == [sym |-> s, len |-> lengths[s], start |-> codes[s] * Pow[15 - lengths[s]]]

Table(code, lengths, codes, D) ==
  /\ \A s \in D : lengths[s] > 0 => /\ lengths[s] \in 1 .. 15 /\ codes[s] \in Nat /\ codes[s] < Pow[lengths[s]]
                                    /\ StretchOf(lengths, codes, s) \in code.entries
  /\ \A x, y \in code.entries : \A n \in Nat : Owns(x, n) /\ Owns(y, n) => x = y

(* What the decoder looks ahead at is in the stretch of the code that      *)
(* stands there.                                                           *)
Ahead(b, at) ==
  LET Sum[k \in 0 .. 15] == IF k = 0 THEN 0 ELSE Sum[k - 1] * 2 + Bit(b, at + k - 1)
  IN  Sum[15]

LEMMA AheadIs ==
  ASSUME NEW b, NEW at \in Nat, NEW n \in 1 .. 15, NEW c \in Nat, c < Pow[n],
         Holds(b, at, ReverseBits(c, n), n)
  PROVE  Ahead(b, at) \in Nat /\ c * Pow[15 - n] <= Ahead(b, at) /\ Ahead(b, at) < c * Pow[15 - n] + Pow[15 - n]
<1> DEFINE top == 15
           r == ReverseBits(c, n)
           F == CHOOSE f : f = [k \in 0 .. top |-> IF k = 0 THEN 0 ELSE f[k - 1] * 2 + Bit(b, at + k - 1)]
           G == [k \in Nat |-> [v \in Nat |-> v * 2 + Bit(b, at + k - 1)]]
<1>1. Ahead(b, at) = F[top]
  BY DEF Ahead
<1>2. top \in Nat /\ top = 15
  OBVIOUS
<1> HIDE DEF top
<1>3. \A k : Bit(b, k) \in {0, 1}
  BY DEF Bit
<1>4. G \in [Nat -> [Nat -> Nat]]
  BY <1>3
<1>5. PICK g \in [0 .. top -> Nat] : g[0] = 0 /\ \A k \in 1 .. top : g[k] = G[k][g[k - 1]]
  <2>1. \E g \in [0 .. top -> Nat] : Iterates(g, 0, G, top)
    <3> HIDE DEF G
    <3> QED BY <1>2, <1>4, Recursion
  <2> QED BY <2>1 DEF Iterates
<1>6. \A k \in 1 .. top : k \in 0 .. top /\ k # 0 /\ k - 1 \in 0 .. top /\ k \in Nat
  BY <1>2
<1>7. \A k \in 1 .. top : g[k] = g[k - 1] * 2 + Bit(b, at + k - 1) /\ g[k - 1] \in Nat
  <2> TAKE k \in 1 .. top
  <2>1. g[k - 1] \in Nat /\ k \in Nat
    BY <1>5, <1>6
  <2> QED BY <1>5, <2>1
<1>8. g = [k \in 0 .. top |-> IF k = 0 THEN 0 ELSE g[k - 1] * 2 + Bit(b, at + k - 1)]
  <2>1. \A k \in 0 .. top : k # 0 => k \in 1 .. top
    BY <1>2
  <2>2. \A k \in 0 .. top : g[k] = IF k = 0 THEN 0 ELSE g[k - 1] * 2 + Bit(b, at + k - 1)
    BY <1>5, <1>7, <2>1, Zenon
  <2>3. g = [k \in 0 .. top |-> g[k]]
    BY <1>5
  <2> QED BY <2>2, <2>3
<1>9. F = [k \in 0 .. top |-> IF k = 0 THEN 0 ELSE F[k - 1] * 2 + Bit(b, at + k - 1)]
  BY <1>8, Zenon
<1> HIDE DEF F, G
<1>10. F[0] = 0 /\ \A k \in 1 .. top : F[k] = F[k - 1] * 2 + Bit(b, at + k - 1)
  <2>1. 0 \in 0 .. top
    BY <1>2
  <2> QED BY <1>6, <1>9, <2>1, Zenon
<1>11. n \in 0 .. 15 /\ r \in Nat /\ \A j \in 0 .. n - 1 : BitAt(r, j) = BitAt(c, n - 1 - j)
  <2>1. n \in 0 .. 15
    OBVIOUS
  <2> QED BY <2>1, Reversed
<1>12. \A j \in 0 .. n - 1 : Bit(b, at + j) = BitAt(c, n - 1 - j)
  <2> TAKE j \in 0 .. n - 1
  <2>1. j \in 0 .. 15 /\ BitAt(r, j) = BitAt(c, n - 1 - j)
    BY <1>11
  <2>2. BitAt(r, j) \in {0, 1} /\ (at + j \in b.ones <=> BitAt(r, j) = 1)
    BY <1>11, <2>1, BitsAre DEF Holds
  <2> HIDE DEF r
  <2> QED BY <2>1, <2>2 DEF Bit
<1> HIDE DEF r
<1> DEFINE T == {k \in Nat : k <= n => F[k] = c \div Pow[n - k]}
<1>13. 0 \in T
  <2> DEFINE p == Pow[n]
  <2>1. p \in Nat /\ c < p /\ p > 0
    <3>1. n \in 0 .. 16
      OBVIOUS
    <3> QED BY <3>1, PowNat
  <2> HIDE DEF p
  <2>2. c \div p = 0
    <3>1. c = 0 * p + c /\ c \in 0 .. p - 1
      BY <2>1
    <3> QED BY <2>1, <3>1
  <2>3. n - 0 = n
    OBVIOUS
  <2> QED BY <1>10, <2>2, <2>3 DEF p
<1>14. ASSUME NEW k \in Nat, k \in T PROVE k + 1 \in T
  <2> SUFFICES ASSUME k + 1 <= n PROVE F[k + 1] = c \div Pow[n - (k + 1)]
    OBVIOUS
  <2> DEFINE q == n - (k + 1)
  <2>1. q \in 0 .. 14 /\ q + 1 = n - k /\ k + 1 \in 1 .. top /\ (k + 1) - 1 = k /\ k \in 0 .. n - 1 /\ n - 1 - k = q
        /\ at + (k + 1) - 1 = at + k
    BY <1>2
  <2>2. F[k] = c \div Pow[q + 1]
    BY <1>14, <2>1
  <2>3. F[k + 1] = F[k] * 2 + BitAt(c, q)
    BY <1>10, <1>12, <2>1
  <2>4. c \div Pow[q] = 2 * (c \div Pow[q + 1]) + BitAt(c, q)
    BY <2>1, LowBits
  <2>5. c \div Pow[q + 1] \in Int
    <3> DEFINE p == Pow[q + 1]
    <3> HIDE DEF q
    <3>1. q + 1 \in 0 .. 16
      BY <2>1
    <3>2. p \in Nat /\ p > 0
      BY <3>1, PowNat
    <3> HIDE DEF p
    <3>3. c \div p \in Int
      BY <3>2
    <3> QED BY <3>3 DEF p
  <2> HIDE DEF q
  <2>6. F[k + 1] = c \div Pow[q]
    BY <2>2, <2>3, <2>4, <2>5
  <2> QED BY <2>6 DEF q
<1>15. F[n] = c
  <2> HIDE DEF T
  <2>0. n \in Nat
    OBVIOUS
  <2>1. n \in T
    BY <1>13, <1>14, <2>0, Induction
  <2>2. F[n] = c \div Pow[n - n] /\ n - n = 0
    BY <2>1 DEF T
  <2>3. Pow[0] = 1 /\ c \div 1 = c
    BY Powers
  <2> QED BY <2>2, <2>3
<1> DEFINE U == {k \in Nat : n + k <= 15 =>
                   F[n + k] \in Nat /\ c * Pow[k] <= F[n + k] /\ F[n + k] < c * Pow[k] + Pow[k]}
<1>16. 0 \in U
  <2>1. Pow[0] = 1 /\ n + 0 = n
    BY Powers
  <2> QED BY <1>15, <2>1
<1>17. ASSUME NEW k \in Nat, k \in U PROVE k + 1 \in U
  <2> SUFFICES ASSUME n + (k + 1) <= 15
               PROVE  /\ F[n + (k + 1)] \in Nat
                      /\ c * Pow[k + 1] <= F[n + (k + 1)] /\ F[n + (k + 1)] < c * Pow[k + 1] + Pow[k + 1]
    OBVIOUS
  <2> DEFINE p == Pow[k]
             x == c * p
             v == F[n + k]
             w == F[n + (k + 1)]
  <2>1. n + (k + 1) \in 1 .. top /\ (n + (k + 1)) - 1 = n + k /\ k \in 0 .. 15 /\ k \in 0 .. 16
    BY <1>2
  <2>2. v \in Nat /\ x <= v /\ v < x + p
    BY <1>17
  <2>3. \E d \in {0, 1} : w = v * 2 + d
    BY <1>3, <1>10, <2>1
  <2>4. Pow[k + 1] = 2 * p /\ p \in Nat
    <3>1. Pow[k + 1] = 2 * Pow[k]
      BY <2>1, PowDoubles, Zenon
    <3>2. Pow[k] \in Nat
      BY <2>1, PowNat
    <3> QED BY <3>1, <3>2
  <2>5. c * Pow[k + 1] = 2 * x /\ x \in Nat
    BY <2>4
  <2> HIDE DEF x, v, w, p
  <2>6. w \in Nat /\ 2 * x <= w /\ w < 2 * x + 2 * p
    BY <2>2, <2>3, <2>4, <2>5
  <2> QED BY <2>4, <2>5, <2>6 DEF w
<1>18. 15 - n \in U
  <2> HIDE DEF U
  <2>1. 15 - n \in Nat
    OBVIOUS
  <2> QED BY <1>16, <1>17, <2>1, Induction
<1>19. n + (15 - n) = top
  BY <1>2
<1> QED BY <1>1, <1>2, <1>18, <1>19

LEMMA SymbolReads ==
  ASSUME NEW code, NEW lengths, NEW codes, NEW D, Table(code, lengths, codes, D),
         NEW s \in D, lengths[s] > 0, NEW b, NEW at \in Nat,
         Holds(b, at, ReverseBits(codes[s], lengths[s]), lengths[s])
  PROVE  Symbol(b, at, code) = [sym |-> s, next |-> at + lengths[s]]
<1> DEFINE e == StretchOf(lengths, codes, s)
           n == lengths[s]
           c == codes[s]
           P(x) == x \in code.entries /\ x.start <= Ahead(b, at) /\ Ahead(b, at) < x.start + 2 ^ (15 - x.len)
<1>1. n \in 1 .. 15 /\ c \in Nat /\ c < Pow[n] /\ e \in code.entries
  BY DEF Table
<1>2. Ahead(b, at) \in Nat /\ c * Pow[15 - n] <= Ahead(b, at) /\ Ahead(b, at) < c * Pow[15 - n] + Pow[15 - n]
  BY <1>1, AheadIs
<1>3. e.sym = s /\ e.len = n /\ e.start = c * Pow[15 - n]
  BY DEF StretchOf
<1>4. 2 ^ (15 - n) = Pow[15 - n]
  <2>1. 15 - n \in 0 .. 16
    BY <1>1
  <2> QED BY <2>1, PowIs
<1> HIDE DEF e, n, c
<1>5. P(e)
  BY <1>1, <1>2, <1>3, <1>4
<1>6. \A x : P(x) => x = e
  BY <1>1, <1>2, <1>5 DEF Table, Owns
<1>7. (CHOOSE x : P(x)) = e
  <2> HIDE DEF P
  <2> QED BY <1>5, <1>6
<1>8. (CHOOSE x \in code.entries : x.start <= Ahead(b, at) /\ Ahead(b, at) < x.start + 2 ^ (15 - x.len)) = e
  BY <1>7
<1>9. Symbol(b, at, code) = [sym |-> e.sym, next |-> at + e.len]
  BY <1>8 DEF Symbol, Ahead
<1> QED BY <1>3, <1>9 DEF n
-----------------------------------------------------------------------------
(* Where the stretches of the codes of each length end.                    *)
Stretches(S, lengths) ==
  /\ S \in [0 .. 15 -> Nat] /\ S[0] = 0
  /\ \A k \in 1 .. 15 : S[k] = S[k - 1] + Count(lengths, k) * Pow[15 - k]

Smaller(lengths, s) == Cardinality({t \in DOMAIN lengths : t < s /\ lengths[t] = lengths[s]})
StartOf(S, lengths, s) == S[lengths[s] - 1] + Smaller(lengths, s) * Pow[15 - lengths[s]]
Entries(S, lengths) ==
  {[sym |-> s, len |-> lengths[s], start |-> StartOf(S, lengths, s)] : s \in UsedSymbols(lengths)}

LEMMA StretchesGrow ==
  ASSUME NEW S, NEW lengths, Stretches(S, lengths), \A k \in 1 .. 15 : Count(lengths, k) \in Nat
  PROVE  \A a, c \in 0 .. 15 : a <= c => S[a] <= S[c]
<1> DEFINE T == {m \in Nat : m <= 15 => \A a \in 0 .. m : S[a] <= S[m]}
<1>1. \A k \in 0 .. 15 : S[k] \in Nat
  BY DEF Stretches
<1>2. 0 \in T
  BY <1>1
<1>3. ASSUME NEW m \in Nat, m \in T PROVE m + 1 \in T
  <2> SUFFICES ASSUME m + 1 <= 15, NEW a \in 0 .. m + 1 PROVE S[a] <= S[m + 1]
    OBVIOUS
  <2>1. m + 1 \in 1 .. 15 /\ (m + 1) - 1 = m /\ 15 - (m + 1) \in 0 .. 16 /\ m \in 0 .. 15 /\ m + 1 \in 0 .. 15 /\ a \in 0 .. 15
    OBVIOUS
  <2>2. S[m + 1] = S[m] + Count(lengths, m + 1) * Pow[15 - (m + 1)]
    BY <2>1 DEF Stretches
  <2>3. Count(lengths, m + 1) * Pow[15 - (m + 1)] \in Nat
    BY <2>1, PowNat, ProductNat
  <2> DEFINE x == Count(lengths, m + 1) * Pow[15 - (m + 1)]
  <2> HIDE DEF x
  <2>4. S[m + 1] = S[m] + x /\ x \in Nat /\ S[m] \in Nat /\ S[a] \in Nat /\ S[m + 1] \in Nat
    BY <1>1, <2>1, <2>2, <2>3 DEF x
  <2>5. CASE a = m + 1
    BY <2>4, <2>5
  <2>6. CASE a # m + 1
    <3>1. a \in 0 .. m /\ m <= 15
      BY <2>6
    <3>2. S[a] <= S[m]
      BY <1>3, <3>1
    <3> QED BY <2>4, <3>2
  <2> QED BY <2>5, <2>6
<1> HIDE DEF T
<1>4. \A m \in Nat : m \in T
  BY <1>2, <1>3, Induction
<1> QED BY <1>4 DEF T

LEMMA CountsOf ==
  ASSUME NEW n \in Nat, NEW lengths \in [0 .. n -> 0 .. 15]
  PROVE  /\ \A k \in 1 .. 15 : Count(lengths, k) \in Nat
         /\ \A s \in 0 .. n : Smaller(lengths, s) \in Nat /\ Smaller(lengths, s) + 1 <= Count(lengths, lengths[s])
         /\ \A s, t \in 0 .. n : s < t /\ lengths[s] = lengths[t] => Smaller(lengths, s) + 1 <= Smaller(lengths, t)
<1>1. DOMAIN lengths = 0 .. n /\ IsFiniteSet(0 .. n)
  <2>1. IsFiniteSet(0 .. n)
    BY FS_Interval
  <2> QED BY <2>1
<1>2. ASSUME NEW A, A \subseteq 0 .. n
      PROVE  IsFiniteSet(A) /\ Cardinality(A) \in Nat
  BY <1>1, <1>2, FS_Subset, FS_CardinalityType
<1>3. \A k : Count(lengths, k) \in Nat
  BY <1>1, <1>2 DEF Count
<1> DEFINE below(s) == {t \in 0 .. n : t < s /\ lengths[t] = lengths[s]}
<1>4. \A s : Smaller(lengths, s) = Cardinality(below(s)) /\ below(s) \subseteq 0 .. n
  BY <1>1 DEF Smaller
<1>5. ASSUME NEW s \in 0 .. n, NEW A, A \subseteq 0 .. n, below(s) \subseteq A, s \in A
      PROVE  Smaller(lengths, s) \in Nat /\ Smaller(lengths, s) + 1 <= Cardinality(A)
  <2>1. IsFiniteSet(below(s)) /\ Cardinality(below(s)) \in Nat /\ IsFiniteSet(A) /\ Cardinality(A) \in Nat
    BY <1>2, <1>4, <1>5
  <2>2. s \notin below(s)
    OBVIOUS
  <2>3. Cardinality(below(s) \cup {s}) = Cardinality(below(s)) + 1
    <3> HIDE DEF below
    <3> QED BY <2>1, <2>2, FS_AddElement
  <2>4. below(s) \cup {s} \subseteq A
    BY <1>5
  <2>5. Cardinality(below(s) \cup {s}) <= Cardinality(A)
    <3> DEFINE z == below(s) \cup {s}
    <3> HIDE DEF z
    <3>1. z \subseteq A
      BY <2>4 DEF z
    <3>2. Cardinality(z) <= Cardinality(A)
      BY <2>1, <3>1, FS_Subset
    <3> QED BY <3>2 DEF z
  <2> QED BY <1>4, <2>1, <2>3, <2>5
<1>6. ASSUME NEW s \in 0 .. n
      PROVE  Smaller(lengths, s) \in Nat /\ Smaller(lengths, s) + 1 <= Count(lengths, lengths[s])
  <2> DEFINE A == {t \in 0 .. n : lengths[t] = lengths[s]}
  <2>1. A \subseteq 0 .. n /\ below(s) \subseteq A /\ s \in A
    OBVIOUS
  <2>2. Count(lengths, lengths[s]) = Cardinality(A)
    BY <1>1 DEF Count
  <2> HIDE DEF A, below
  <2> QED BY <1>5, <2>1, <2>2
<1>7. ASSUME NEW s \in 0 .. n, NEW t \in 0 .. n, s < t, lengths[s] = lengths[t]
      PROVE  Smaller(lengths, s) + 1 <= Smaller(lengths, t)
  <2>1. below(t) \subseteq 0 .. n /\ below(s) \subseteq below(t) /\ s \in below(t)
    BY <1>7
  <2>2. Smaller(lengths, t) = Cardinality(below(t))
    BY <1>4
  <2> HIDE DEF below
  <2> QED BY <1>5, <2>1, <2>2
<1> QED BY <1>3, <1>6, <1>7

(* Codes that start where the stretches do.                                *)
Aligned(S, lengths, codes) ==
  \A s \in UsedSymbols(lengths) : codes[s] \in Nat /\ codes[s] * Pow[15 - lengths[s]] = StartOf(S, lengths, s)

LEMMA StretchIs ==
  ASSUME NEW n \in Nat, NEW lengths \in [0 .. n -> 0 .. 15], NEW S, Stretches(S, lengths),
         NEW s \in UsedSymbols(lengths)
  PROVE  /\ s \in 0 .. n /\ lengths[s] \in 1 .. 15 /\ Pow[15 - lengths[s]] \in Nat /\ Pow[15 - lengths[s]] > 0
         /\ 2 ^ (15 - lengths[s]) = Pow[15 - lengths[s]]
         /\ StartOf(S, lengths, s) \in Nat /\ S[lengths[s] - 1] <= StartOf(S, lengths, s)
         /\ StartOf(S, lengths, s) + Pow[15 - lengths[s]] <= S[lengths[s]]
<1> DEFINE k == lengths[s]
           p == Pow[15 - k]
           m == Smaller(lengths, s)
           c == Count(lengths, k)
<1>1. s \in 0 .. n /\ k \in 1 .. 15
  BY DEF UsedSymbols
<1>2. k - 1 \in 0 .. 15 /\ 15 - k \in 0 .. 16
  BY <1>1
<1>3. p \in Nat /\ p > 0 /\ 2 ^ (15 - k) = p
  BY <1>2, PowNat, PowIs
<1>4. m \in Nat /\ m + 1 <= c /\ c \in Nat
  BY <1>1, CountsOf
<1>5. S[k] = S[k - 1] + c * p /\ S[k - 1] \in Nat
  BY <1>1, <1>2 DEF Stretches
<1>6. StartOf(S, lengths, s) = S[k - 1] + m * p
  BY DEF StartOf
<1> HIDE DEF k, p, m, c
<1> DEFINE d == c - (m + 1)
<1>7. d \in Nat /\ c = (d + m) + 1
  BY <1>4
<1> HIDE DEF d
<1>8. c * p = d * p + m * p + p
  BY <1>3, <1>4, <1>7
<1>9. d * p \in Nat /\ m * p \in Nat
  BY <1>3, <1>4, <1>7, ProductNat
<1> DEFINE x == d * p
           y == m * p
           z == c * p
<1> HIDE DEF x, y, z
<1>10. z = x + y + p /\ x \in Nat /\ y \in Nat
  BY <1>8, <1>9 DEF x, y, z
<1>11. S[k] = S[k - 1] + z /\ StartOf(S, lengths, s) = S[k - 1] + y
  BY <1>5, <1>6 DEF y, z
<1>12. StartOf(S, lengths, s) \in Nat /\ S[k - 1] <= StartOf(S, lengths, s) /\ StartOf(S, lengths, s) + p <= S[k]
  BY <1>3, <1>5, <1>10, <1>11
<1> QED BY <1>1, <1>3, <1>12 DEF k, p

LEMMA StretchTable ==
  ASSUME NEW n \in Nat, NEW lengths \in [0 .. n -> 0 .. 15], NEW S, Stretches(S, lengths), S[15] = Pow[15],
         NEW codes, Aligned(S, lengths, codes), NEW code, code.entries = Entries(S, lengths)
  PROVE  Table(code, lengths, codes, 0 .. n)
<1>1. \A a, c \in 0 .. 15 : a <= c => S[a] <= S[c]
  BY CountsOf, StretchesGrow
<1>2. \A k \in 0 .. 15 : S[k] \in Nat
  BY DEF Stretches
<1>3. ASSUME NEW s \in 0 .. n, lengths[s] > 0
      PROVE  /\ lengths[s] \in 1 .. 15 /\ codes[s] \in Nat /\ codes[s] < Pow[lengths[s]]
             /\ StretchOf(lengths, codes, s) \in code.entries
  <2> DEFINE k == lengths[s]
             p == Pow[15 - k]
             q == Pow[k]
             c == codes[s]
  <2>1. s \in UsedSymbols(lengths)
    BY <1>3 DEF UsedSymbols
  <2>2. k \in 1 .. 15 /\ p \in Nat /\ p > 0 /\ StartOf(S, lengths, s) + p <= S[k]
    BY <2>1, StretchIs
  <2>3. c \in Nat /\ c * p = StartOf(S, lengths, s)
    BY <2>1 DEF Aligned
  <2>4. S[k] <= Pow[15] /\ S[k] \in Nat
    <3> HIDE DEF k, p
    <3>1. k \in 0 .. 15 /\ 15 \in 0 .. 15 /\ k <= 15
      BY <2>2
    <3>2. S[k] <= S[15] /\ S[k] \in Nat
      BY <1>1, <1>2, <3>1, Zenon
    <3> QED BY <3>2
  <2>5. Pow[15] = q * p /\ q \in Nat
    <3>1. k \in Nat /\ 15 - k \in Nat /\ k + (15 - k) <= 15 /\ k + (15 - k) = 15 /\ k \in 0 .. 16
      BY <2>2
    <3>2. Pow[k + (15 - k)] = Pow[k] * Pow[15 - k]
      BY <3>1, PowersMultiply
    <3> QED BY <3>1, <3>2, PowNat
  <2> HIDE DEF k, p, q, c
  <2>6. c * p + p <= q * p
    <3> DEFINE x == c * p
               y == q * p
    <3>1. x + p <= S[k] /\ S[k] <= y /\ x \in Nat /\ y \in Nat
      BY <2>2, <2>3, <2>4, <2>5, ProductNat
    <3> HIDE DEF x, y
    <3>2. x + p <= y
      BY <2>2, <2>4, <3>1
    <3> QED BY <3>2 DEF x, y
  <2>7. c < q
    <3> SUFFICES ASSUME c >= q PROVE FALSE
      BY <2>3, <2>5
    <3> DEFINE d == c - q
    <3>1. d \in Nat /\ c = q + d
      BY <2>3, <2>5
    <3> HIDE DEF d
    <3>2. c * p = q * p + d * p /\ d * p \in Nat /\ q * p \in Nat
      BY <2>2, <2>5, <3>1, Distributes, ProductNat
    <3> QED BY <2>2, <2>6, <3>2
  <2>8. StretchOf(lengths, codes, s) = [sym |-> s, len |-> lengths[s], start |-> StartOf(S, lengths, s)]
    BY <2>3 DEF StretchOf, k, p, c
  <2>9. StretchOf(lengths, codes, s) \in code.entries
    BY <2>1, <2>8 DEF Entries
  <2> QED BY <2>2, <2>3, <2>7, <2>9 DEF k, c, q
<1>4. ASSUME NEW s \in UsedSymbols(lengths), NEW t \in UsedSymbols(lengths), s # t,
             lengths[s] < lengths[t] \/ (lengths[s] = lengths[t] /\ s < t)
      PROVE  StartOf(S, lengths, s) + Pow[15 - lengths[s]] <= StartOf(S, lengths, t)
  <2> DEFINE k == lengths[s]
             j == lengths[t]
             p == Pow[15 - k]
  <2>1. /\ s \in 0 .. n /\ k \in 1 .. 15 /\ p \in Nat /\ StartOf(S, lengths, s) \in Nat
        /\ StartOf(S, lengths, s) + p <= S[k]
    BY StretchIs
  <2>2. t \in 0 .. n /\ j \in 1 .. 15 /\ StartOf(S, lengths, t) \in Nat /\ S[j - 1] <= StartOf(S, lengths, t)
    BY StretchIs
  <2>3. CASE k < j
    <3>1. k \in 0 .. 15 /\ j - 1 \in 0 .. 15 /\ k <= j - 1
      <4>1. k \in 1 .. 15 /\ j \in 1 .. 15 /\ k < j
        BY <2>1, <2>2, <2>3
      <4> HIDE DEF k, j, p
      <4> QED BY <4>1
    <3>2. S[k] <= S[j - 1] /\ S[k] \in Nat /\ S[j - 1] \in Nat
      BY <1>1, <1>2, <3>1
    <3> QED BY <2>1, <2>2, <3>2
  <2>4. CASE ~ (k < j)
    <3>1. k = j /\ s < t
      BY <1>4, <2>1, <2>2, <2>4
    <3> DEFINE a == Smaller(lengths, s)
               c == Smaller(lengths, t)
    <3>2. a \in Nat /\ c \in Nat /\ a + 1 <= c
      BY <2>1, <2>2, <3>1, CountsOf
    <3>3. StartOf(S, lengths, s) = S[k - 1] + a * p /\ StartOf(S, lengths, t) = S[k - 1] + c * p
      BY <3>1 DEF StartOf
    <3>4. S[k - 1] \in Nat
      <4>1. k \in 1 .. 15
        BY <2>1
      <4> HIDE DEF k, j, p
      <4>2. k - 1 \in 0 .. 15
        BY <4>1
      <4> QED BY <1>2, <4>2
    <3> HIDE DEF a, c, p
    <3> DEFINE d == c - (a + 1)
    <3>5. d \in Nat /\ c = (d + a) + 1
      BY <3>2
    <3> HIDE DEF d
    <3>6. c * p = d * p + a * p + p /\ d * p \in Nat /\ a * p \in Nat
      BY <2>1, <3>2, <3>5, ProductNat
    <3> QED BY <2>1, <3>3, <3>4, <3>6 DEF p
  <2> QED BY <2>3, <2>4
<1>5. ASSUME NEW x \in code.entries, NEW y \in code.entries, NEW m \in Nat, Owns(x, m), Owns(y, m)
      PROVE  x = y
  <2>1. PICK s \in UsedSymbols(lengths) : x = [sym |-> s, len |-> lengths[s], start |-> StartOf(S, lengths, s)]
    BY DEF Entries
  <2>2. PICK t \in UsedSymbols(lengths) : y = [sym |-> t, len |-> lengths[t], start |-> StartOf(S, lengths, t)]
    BY DEF Entries
  <2>3. StartOf(S, lengths, s) <= m /\ m < StartOf(S, lengths, s) + Pow[15 - lengths[s]]
        /\ StartOf(S, lengths, s) \in Nat /\ Pow[15 - lengths[s]] \in Nat /\ s \in 0 .. n /\ lengths[s] \in 1 .. 15
    BY <1>5, <2>1, StretchIs DEF Owns
  <2>4. StartOf(S, lengths, t) <= m /\ m < StartOf(S, lengths, t) + Pow[15 - lengths[t]]
        /\ StartOf(S, lengths, t) \in Nat /\ Pow[15 - lengths[t]] \in Nat /\ t \in 0 .. n /\ lengths[t] \in 1 .. 15
    BY <1>5, <2>2, StretchIs DEF Owns
  <2>5. ~ (StartOf(S, lengths, s) + Pow[15 - lengths[s]] <= StartOf(S, lengths, t))
    BY <2>3, <2>4
  <2>6. ~ (StartOf(S, lengths, t) + Pow[15 - lengths[t]] <= StartOf(S, lengths, s))
    BY <2>3, <2>4
  <2>7. s = t \/ lengths[s] < lengths[t] \/ (lengths[s] = lengths[t] /\ s < t)
        \/ lengths[t] < lengths[s] \/ (lengths[t] = lengths[s] /\ t < s)
    <3>1. \A a, c, u, v \in Nat : u = v \/ a < c \/ (a = c /\ u < v) \/ c < a \/ (c = a /\ v < u)
      OBVIOUS
    <3>2. s \in Nat /\ t \in Nat /\ lengths[s] \in Nat /\ lengths[t] \in Nat
      <4>1. s \in 0 .. n /\ t \in 0 .. n
        BY <2>3, <2>4, Zenon
      <4> QED BY <4>1
    <3> QED BY <3>1, <3>2, Zenon
  <2>8. s = t
    BY <1>4, <2>5, <2>6, <2>7
  <2> QED BY <2>1, <2>2, <2>8
<1> QED BY <1>3, <1>5 DEF Table
-----------------------------------------------------------------------------
(* The table of the decoder, from code lengths without the zeros at the    *)
(* end.                                                                    *)
CodeOf(code, S, lengths) ==
  Stretches(S, lengths) /\ code.entries = Entries(S, lengths) /\ code.complete = (S[15] = Pow[15])

LEMMA CodeIs ==
  ASSUME NEW n \in Nat, NEW lengths \in [0 .. n -> 0 .. 15], NEW m \in 1 .. n + 1,
         \A s \in 0 .. n : s >= m => lengths[s] = 0, NEW part, part = [s \in 0 .. m - 1 |-> lengths[s]]
  PROVE  \E S : CodeOf(Code(part), S, lengths)
<1> DEFINE top == 15
           t == [k \in 1 .. top |-> Count15(part, k) * 2 ^ (15 - k)]
           F == CHOOSE f : f = [k \in 0 .. top |-> IF k = 0 THEN 0 ELSE f[k - 1] + Count15(part, k) * 2 ^ (15 - k)]
           g == Summed(t, top)
           peers(s) == {r \in DOMAIN part : r < s /\ part[r] = part[s]}
           places == {[sym |-> s, len |-> part[s],
                       start |-> F[part[s] - 1] + Cardinality(peers(s)) * 2 ^ (15 - part[s])]
                        : s \in {r \in DOMAIN part : part[r] > 0}}
           full == F[15] = 2 ^ 15
<1>0. Code(part) = [entries |-> places, complete |-> full]
  BY DEF Code
<1>1. Code(part).entries = places /\ Code(part).complete = full
  <2> HIDE DEF places, full
  <2> QED BY <1>0
<1>2. top \in Nat /\ top = 15
  OBVIOUS
<1> HIDE DEF top
<1>3. DOMAIN part = 0 .. m - 1 /\ DOMAIN lengths = 0 .. n /\ 0 .. m - 1 \subseteq 0 .. n
      /\ \A s \in 0 .. m - 1 : part[s] = lengths[s]
  OBVIOUS
<1>4. \A s \in 0 .. n : lengths[s] > 0 => s \in 0 .. m - 1
  <2> TAKE s \in 0 .. n
  <2>1. s >= m \/ s \in 0 .. m - 1
    OBVIOUS
  <2> QED BY <2>1
<1>5. ASSUME NEW k \in 1 .. top
      PROVE  Count15(part, k) = Count(lengths, k) /\ 2 ^ (15 - k) = Pow[15 - k] /\ Count15(part, k) * 2 ^ (15 - k) \in Nat
  <2>1. k \in 1 .. 15 /\ 15 - k \in 0 .. 16
    BY <1>2
  <2>2. {s \in DOMAIN part : part[s] = k} = {s \in DOMAIN lengths : lengths[s] = k}
    <3>1. \A s \in 0 .. n : lengths[s] = k => s \in 0 .. m - 1
      BY <1>4, <2>1
    <3> QED BY <1>3, <3>1
  <2>3. Count15(part, k) = Count(lengths, k)
    BY <2>2 DEF Count15, Count
  <2>4. 2 ^ (15 - k) = Pow[15 - k] /\ Pow[15 - k] \in Nat
    BY <2>1, PowIs, PowNat
  <2>5. Count(lengths, k) \in Nat
    BY <2>1, CountsOf
  <2> QED BY <2>3, <2>4, <2>5, ProductNat
<1> DEFINE e(k) == Count15(part, k) * 2 ^ (15 - k)
<1>6. \A k \in 1 .. top : t[k] = e(k) /\ e(k) \in Nat
  BY <1>5
<1>7. F = CHOOSE f : f = [k \in 0 .. top |-> IF k = 0 THEN 0 ELSE f[k - 1] + e(k)]
  OBVIOUS
<1>e. \A k \in 1 .. top : e(k) = Count(lengths, k) * Pow[15 - k]
  BY <1>5
<1> HIDE DEF e, t, F
<1>8. /\ g \in [0 .. top -> Nat] /\ g[0] = 0
      /\ \A k \in 1 .. top : g[k] = g[k - 1] + t[k]
  BY <1>2, <1>6, SummedIs
<1> HIDE DEF g
<1>9. g = [k \in 0 .. top |-> IF k = 0 THEN 0 ELSE g[k - 1] + e(k)]
  <2>1. \A k \in 0 .. top : k # 0 => k \in 1 .. top
    BY <1>2
  <2>2. \A k \in 0 .. top : g[k] = IF k = 0 THEN 0 ELSE g[k - 1] + e(k)
    BY <1>6, <1>8, <2>1, Zenon
  <2>3. g = [k \in 0 .. top |-> g[k]]
    BY <1>8
  <2> QED BY <2>2, <2>3
<1>10. F = [k \in 0 .. top |-> IF k = 0 THEN 0 ELSE F[k - 1] + e(k)]
  BY <1>7, <1>9, Zenon
<1>11. F[0] = 0 /\ \A k \in 1 .. top : F[k] = F[k - 1] + e(k)
  <2>1. 0 \in 0 .. top /\ \A k \in 1 .. top : k \in 0 .. top /\ k # 0
    BY <1>2
  <2> QED BY <1>10, <2>1, Zenon
<1>12. \A k \in 0 .. top : F[k] \in Nat
  <2> DEFINE T == {k \in Nat : k <= top => F[k] \in Nat}
  <2>1. 0 \in T
    BY <1>11
  <2>2. ASSUME NEW k \in Nat, k \in T PROVE k + 1 \in T
    <3> SUFFICES ASSUME k + 1 <= top PROVE F[k + 1] \in Nat
      OBVIOUS
    <3>1. k + 1 \in 1 .. top /\ (k + 1) - 1 = k /\ F[k] \in Nat
      BY <1>2, <2>2
    <3>2. F[k + 1] = F[k] + e(k + 1) /\ e(k + 1) \in Nat
      BY <1>6, <1>11, <3>1
    <3> QED BY <3>1, <3>2
  <2> HIDE DEF T
  <2>3. \A k \in Nat : k \in T
    BY <2>1, <2>2, Induction
  <2> QED BY <1>2, <2>3 DEF T
<1>13. Stretches(F, lengths)
  <2>1. F \in [0 .. 15 -> Nat]
    BY <1>2, <1>10, <1>12
  <2>2. \A k \in 1 .. 15 : F[k] = F[k - 1] + Count(lengths, k) * Pow[15 - k]
    BY <1>2, <1>11, <1>e
  <2> QED BY <1>11, <2>1, <2>2 DEF Stretches
<1>14. {r \in DOMAIN part : part[r] > 0} = UsedSymbols(lengths)
  BY <1>3, <1>4 DEF UsedSymbols
<1>15. ASSUME NEW s \in UsedSymbols(lengths)
       PROVE  /\ part[s] = lengths[s]
              /\ F[part[s] - 1] + Cardinality(peers(s)) * 2 ^ (15 - part[s]) = StartOf(F, lengths, s)
  <2>1. s \in 0 .. n /\ s \in 0 .. m - 1 /\ part[s] = lengths[s] /\ lengths[s] \in 1 .. 15 /\ lengths[s] > 0
    BY <1>3, <1>4 DEF UsedSymbols
  <2>2. peers(s) = {r \in DOMAIN lengths : r < s /\ lengths[r] = lengths[s]}
    <3>1. \A r \in 0 .. n : lengths[r] = lengths[s] => r \in 0 .. m - 1
      BY <1>4, <2>1
    <3> QED BY <1>3, <2>1, <3>1
  <2>3. 15 - lengths[s] \in 0 .. 16
    BY <2>1
  <2>4. 2 ^ (15 - lengths[s]) = Pow[15 - lengths[s]]
    BY <2>3, PowIs
  <2> HIDE DEF peers
  <2>5. Cardinality(peers(s)) = Smaller(lengths, s)
    BY <2>2 DEF Smaller
  <2> QED BY <2>1, <2>4, <2>5, Zenon DEF StartOf
<1>16. Code(part).entries = Entries(F, lengths)
  <2>1. Code(part).entries = {[sym |-> s, len |-> part[s],
                                  start |-> F[part[s] - 1] + Cardinality(peers(s)) * 2 ^ (15 - part[s])]
                                   : s \in UsedSymbols(lengths)}
    <3> HIDE DEF peers
    <3> QED BY <1>1, <1>14
  <2> HIDE DEF peers
  <2> DEFINE a(s) == [sym |-> s, len |-> part[s], start |-> F[part[s] - 1] + Cardinality(peers(s)) * 2 ^ (15 - part[s])]
             c(s) == [sym |-> s, len |-> lengths[s], start |-> StartOf(F, lengths, s)]
  <2>2. \A s \in UsedSymbols(lengths) : a(s) = c(s)
    BY <1>15, Zenon
  <2>3. Code(part).entries = {a(s) : s \in UsedSymbols(lengths)} /\ Entries(F, lengths) = {c(s) : s \in UsedSymbols(lengths)}
    BY <2>1 DEF Entries
  <2> HIDE DEF a, c
  <2> QED BY <2>2, <2>3
<1>17. Code(part).complete = (F[15] = Pow[15])
  <2>1. 2 ^ 15 = Pow[15]
    <3>1. 15 \in 0 .. 16
      OBVIOUS
    <3> QED BY <3>1, PowIs
  <2> HIDE DEF peers
  <2>2. Code(part).complete = (F[15] = 2 ^ 15)
    BY <1>1
  <2> QED BY <2>1, <2>2, Zenon
<1> QED BY <1>13, <1>16, <1>17 DEF CodeOf

(* The codes of huffman.rs start where the stretches do.                   *)
LEMMA CanonicalAligned ==
  ASSUME NEW n \in Nat, NEW lengths \in [0 .. n -> 0 .. 15], NEW S, Stretches(S, lengths)
  PROVE  Aligned(S, lengths, CanonicalCodes(lengths))
<1> DEFINE top == Tallest(lengths)
           F == CHOOSE f : f = [k \in 0 .. top |-> IF k <= 1 THEN 0 ELSE (f[k - 1] + Count(lengths, k - 1)) * 2]
           G == [k \in Nat |-> [v \in Nat |-> IF k \in 2 .. 15 THEN (v + Count(lengths, k - 1)) * 2 ELSE 0]]
<1>1. CanonicalCodes(lengths) =
        [s \in DOMAIN lengths |->
           IF lengths[s] = 0 THEN 0
           ELSE F[lengths[s]] + Cardinality({t \in DOMAIN lengths : t < s /\ lengths[t] = lengths[s]})]
  BY DEF CanonicalCodes
<1>2. top \in Nat /\ top <= 15 /\ \A s \in 0 .. n : lengths[s] <= top
  <2>1. lengths \in [0 .. n -> Nat] /\ \A s \in 0 .. n : lengths[s] \in 0 .. 15
    OBVIOUS
  <2>2. /\ Tallest(lengths) \in Nat /\ \A s \in 0 .. n : lengths[s] <= Tallest(lengths)
        /\ \E s \in 0 .. n : lengths[s] = Tallest(lengths)
    BY <2>1, TallestIs
  <2>3. PICK s \in 0 .. n : lengths[s] = Tallest(lengths)
    BY <2>2, Zenon
  <2>4. lengths[s] \in 0 .. 15
    BY <2>1
  <2>5. Tallest(lengths) <= 15
    BY <2>3, <2>4
  <2> QED BY <2>2, <2>5
<1> HIDE DEF top
<1>3. \A k \in 1 .. 15 : Count(lengths, k) \in Nat
  BY CountsOf
<1>4. G \in [Nat -> [Nat -> Nat]]
  <2>1. ASSUME NEW k \in Nat, NEW v \in Nat
        PROVE  (IF k \in 2 .. 15 THEN (v + Count(lengths, k - 1)) * 2 ELSE 0) \in Nat
    <3>1. CASE k \in 2 .. 15
      <4>1. k - 1 \in 1 .. 15
        BY <3>1
      <4>2. Count(lengths, k - 1) \in Nat
        BY <1>3, <4>1
      <4> QED BY <3>1, <4>2
    <3>2. CASE k \notin 2 .. 15
      BY <3>2
    <3> QED BY <3>1, <3>2
  <2> QED BY <2>1
<1>5. PICK g \in [0 .. top -> Nat] : g[0] = 0 /\ \A k \in 1 .. top : g[k] = G[k][g[k - 1]]
  <2>1. \E g \in [0 .. top -> Nat] : Iterates(g, 0, G, top)
    <3> HIDE DEF G
    <3> QED BY <1>2, <1>4, Recursion
  <2> QED BY <2>1 DEF Iterates
<1>6. \A k \in 0 .. top : g[k] = IF k <= 1 THEN 0 ELSE (g[k - 1] + Count(lengths, k - 1)) * 2
  <2> TAKE k \in 0 .. top
  <2>1. CASE k = 0
    BY <1>5, <2>1
  <2>2. CASE k = 1
    <3>1. 1 \in 1 .. top /\ 1 - 1 = 0 /\ 0 \in Nat /\ 1 \in Nat
      BY <2>2
    <3>2. g[1] = G[1][0]
      BY <1>5, <3>1
    <3> QED BY <2>2, <3>2
  <2>3. CASE k > 1
    <3>1. k \in 1 .. top /\ k \in 2 .. 15 /\ k - 1 \in 0 .. top /\ k \in Nat
      BY <1>2, <2>3
    <3>2. g[k - 1] \in Nat /\ g[k] = G[k][g[k - 1]]
      BY <1>5, <3>1
    <3> QED BY <2>3, <3>1, <3>2
  <2> QED BY <1>2, <2>1, <2>2, <2>3
<1>7. g = [k \in 0 .. top |-> IF k <= 1 THEN 0 ELSE (g[k - 1] + Count(lengths, k - 1)) * 2]
  <2>1. g = [k \in 0 .. top |-> g[k]]
    BY <1>5
  <2> QED BY <1>6, <2>1
<1>8. F = [k \in 0 .. top |-> IF k <= 1 THEN 0 ELSE (F[k - 1] + Count(lengths, k - 1)) * 2]
  BY <1>7, Zenon
<1> HIDE DEF F, G
<1> DEFINE T == {k \in Nat : k + 1 <= top => F[k + 1] \in Nat /\ F[k + 1] * Pow[15 - (k + 1)] = S[k]}
<1>9. 0 \in T
  <2> SUFFICES ASSUME 1 <= top PROVE F[1] \in Nat /\ F[1] * Pow[15 - 1] = S[0]
    OBVIOUS
  <2>1. 1 \in 0 .. top /\ 15 - 1 \in 0 .. 16
    BY <1>2
  <2>2. F[1] = 0
    BY <1>8, <2>1
  <2>3. Pow[15 - 1] \in Nat
    BY <2>1, PowNat
  <2> DEFINE p == Pow[15 - 1]
  <2> HIDE DEF p
  <2>4. 0 * p = 0 /\ 0 \in Nat
    BY <2>3 DEF p
  <2>5. S[0] = 0
    BY DEF Stretches
  <2> QED BY <2>2, <2>4, <2>5, Zenon DEF p
<1>10. ASSUME NEW k \in Nat, k \in T PROVE k + 1 \in T
  <2> DEFINE j == k + 1
  <2> SUFFICES ASSUME j + 1 <= top PROVE F[j + 1] \in Nat /\ F[j + 1] * Pow[15 - (j + 1)] = S[j]
    OBVIOUS
  <2> DEFINE p == Pow[15 - (j + 1)]
             c == Count(lengths, j)
  <2>1. j + 1 \in 0 .. top /\ ~ (j + 1 <= 1) /\ (j + 1) - 1 = j /\ j \in 1 .. 15 /\ j - 1 = k /\ j <= top
        /\ 15 - (j + 1) \in 0 .. 15 /\ 15 - (j + 1) \in 0 .. 16 /\ (15 - (j + 1)) + 1 = 15 - j
    BY <1>2
  <2>2. F[j + 1] = (F[j] + c) * 2
    <3>1. F[j + 1] = (F[(j + 1) - 1] + Count(lengths, (j + 1) - 1)) * 2
      BY <1>8, <2>1, Zenon
    <3> QED BY <2>1, <3>1
  <2>3. F[j] \in Nat /\ F[j] * Pow[15 - j] = S[k]
    BY <1>10, <2>1
  <2>4. Pow[15 - j] = 2 * p /\ p \in Nat /\ c \in Nat
    <3>1. Pow[(15 - (j + 1)) + 1] = 2 * Pow[15 - (j + 1)]
      BY <2>1, PowDoubles, Zenon
    <3>2. Pow[15 - (j + 1)] \in Nat /\ c \in Nat
      BY <1>3, <2>1, PowNat
    <3> QED BY <2>1, <3>1, <3>2
  <2>5. S[j] = S[k] + c * (2 * p)
    <3>1. S[j] = S[j - 1] + Count(lengths, j) * Pow[15 - j]
      BY <2>1 DEF Stretches
    <3> QED BY <2>1, <2>4, <3>1
  <2> HIDE DEF j, p, c
  <2>6. F[j] * (2 * p) = S[k]
    BY <2>3, <2>4
  <2> DEFINE v == F[j]
             u == S[k]
  <2>7. v \in Nat /\ v * (2 * p) = u
    BY <2>3, <2>6
  <2> HIDE DEF v, u
  <2>8. ((v + c) * 2) * p = u + c * (2 * p) /\ (v + c) * 2 \in Nat
    BY <2>4, <2>7
  <2> QED BY <2>2, <2>5, <2>8 DEF p, v, u
<1> HIDE DEF T
<1>11. \A k \in Nat : k \in T
  BY <1>9, <1>10, Induction
<1>12. ASSUME NEW s \in UsedSymbols(lengths)
       PROVE  /\ CanonicalCodes(lengths)[s] \in Nat
              /\ CanonicalCodes(lengths)[s] * Pow[15 - lengths[s]] = StartOf(S, lengths, s)
  <2> DEFINE k == lengths[s]
             p == Pow[15 - k]
             m == Smaller(lengths, s)
             v == F[k]
             u == S[k - 1]
  <2>1. s \in 0 .. n /\ s \in DOMAIN lengths /\ k \in 1 .. 15 /\ p \in Nat
    <3>1. s \in 0 .. n /\ lengths[s] \in 1 .. 15 /\ Pow[15 - lengths[s]] \in Nat
      BY StretchIs
    <3> QED BY <3>1
  <2>2. m \in Nat
    BY <2>1, CountsOf
  <2>3. CanonicalCodes(lengths)[s] = v + m
    <3>1. lengths[s] # 0
      BY <2>1
    <3> QED BY <1>1, <2>1, <3>1 DEF Smaller
  <2>4. v \in Nat /\ v * p = u
    <3>1. k \in 1 .. 15 /\ k <= top
      BY <1>2, <2>1
    <3> HIDE DEF k
    <3>2. k - 1 \in Nat /\ (k - 1) + 1 = k
      BY <3>1
    <3>3. k - 1 \in T
      BY <1>11, <3>2
    <3> QED BY <3>1, <3>2, <3>3 DEF T
  <2>5. StartOf(S, lengths, s) = u + m * p
    BY DEF StartOf
  <2> HIDE DEF k, p, m, v, u
  <2>6. (v + m) * p = u + m * p /\ v + m \in Nat
    BY <2>1, <2>2, <2>4, Distributes
  <2> QED BY <2>3, <2>5, <2>6 DEF p, k
<1> QED BY <1>12 DEF Aligned

(* A code without slack fills all of the stretch.                          *)
LEMMA SlackFills ==
  ASSUME NEW n \in Nat, NEW cap \in 1 .. 15, NEW lengths \in [0 .. n -> 0 .. cap], Slack(lengths, cap) = 0,
         NEW S, Stretches(S, lengths)
  PROVE  S[15] = Pow[15]
<1> DEFINE t == [b \in 0 .. cap |-> IF b = 0 THEN 0 ELSE Count(lengths, b) * Pow[cap - b]]
           g == Sums(t, cap)
           q == Pow[15 - cap]
<1>1. cap \in Nat /\ 15 - cap \in 0 .. 16 /\ 15 - cap \in Nat /\ cap <= 15
  OBVIOUS
<1>2. q \in Nat /\ \A k \in 0 .. 15 : S[k] \in Nat
  BY <1>1, PowNat DEF Stretches
<1>3. lengths \in [0 .. n -> 0 .. 15] /\ \A k \in 1 .. 15 : Count(lengths, k) \in Nat
  <2>1. 0 .. cap \subseteq 0 .. 15
    BY <1>1
  <2>2. lengths \in [0 .. n -> 0 .. 15]
    BY <2>1
  <2> QED BY <2>2, CountsOf
<1>4. ASSUME NEW b \in 1 .. cap
      PROVE  /\ t[b] = Count(lengths, b) * Pow[cap - b] /\ t[b] \in Nat
             /\ Count(lengths, b) * Pow[15 - b] = t[b] * q
  <2>1. b \in 1 .. 15 /\ cap - b \in 0 .. 16 /\ cap - b \in Nat /\ b \in 0 .. cap /\ b # 0
        /\ (cap - b) + (15 - cap) = 15 - b /\ (cap - b) + (15 - cap) <= 15
    BY <1>1
  <2>2. t[b] = Count(lengths, b) * Pow[cap - b]
    BY <2>1
  <2> DEFINE c == Count(lengths, b)
             p == Pow[cap - b]
  <2>3. c \in Nat /\ p \in Nat
    BY <1>3, <2>1, PowNat
  <2>4. Pow[15 - b] = p * q
    <3>1. Pow[(cap - b) + (15 - cap)] = Pow[cap - b] * Pow[15 - cap]
      BY <1>1, <2>1, PowersMultiply
    <3> QED BY <2>1, <3>1
  <2> HIDE DEF c, p, q, t
  <2>5. c * p \in Nat /\ c * (p * q) = (c * p) * q
    BY <1>2, <2>3, ProductNat
  <2> QED BY <2>2, <2>4, <2>5 DEF c, p
<1>5. t[0] = 0 /\ t \in [0 .. cap -> Nat]
  <2>1. t[0] = 0
    OBVIOUS
  <2>2. \A b \in 0 .. cap : b = 0 \/ b \in 1 .. cap
    BY <1>1
  <2>3. \A b \in 0 .. cap : t[b] \in Nat
    BY <1>4, <2>1, <2>2
  <2> QED BY <2>1, <2>3
<1> HIDE DEF t
<1>6. Slack(lengths, cap) = Pow[cap] - g[cap]
  BY <1>4, <1>5, SlackIs
<1>7. g \in [0 .. cap -> Nat] /\ g[0] = 0 /\ \A k \in 1 .. cap : g[k] = g[k - 1] + t[k]
  BY <1>1, <1>5, SumsAre
<1> HIDE DEF g, q
<1>8. g[cap] = Pow[cap]
  <2>1. cap \in 0 .. 16 /\ cap \in 0 .. cap
    BY <1>1
  <2>2. Pow[cap] \in Nat /\ g[cap] \in Nat
    BY <1>7, <2>1, PowNat
  <2> QED BY <1>6, <2>2
<1> DEFINE T == {k \in Nat : k <= cap => S[k] = g[k] * q}
<1>9. 0 \in T
  BY <1>2, <1>7 DEF Stretches
<1>10. ASSUME NEW k \in Nat, k \in T PROVE k + 1 \in T
  <2> SUFFICES ASSUME k + 1 <= cap PROVE S[k + 1] = g[k + 1] * q
    OBVIOUS
  <2>1. k + 1 \in 1 .. cap /\ (k + 1) - 1 = k /\ k \in 0 .. cap /\ k + 1 \in 1 .. 15 /\ k <= cap
    BY <1>1
  <2>2. S[k + 1] = S[k] + t[k + 1] * q
    <3>1. S[k + 1] = S[(k + 1) - 1] + Count(lengths, k + 1) * Pow[15 - (k + 1)]
      BY <2>1 DEF Stretches
    <3> QED BY <1>4, <2>1, <3>1
  <2>3. g[k + 1] = g[k] + t[k + 1] /\ g[k] \in Nat /\ t[k + 1] \in Nat /\ S[k] = g[k] * q
    BY <1>4, <1>7, <1>10, <2>1
  <2>4. (g[k] + t[k + 1]) * q = g[k] * q + t[k + 1] * q
    BY <1>2, <2>3, Distributes
  <2> QED BY <2>2, <2>3, <2>4
<1>11. cap \in T
  <2> HIDE DEF T
  <2> QED BY <1>1, <1>9, <1>10, Induction
<1>12. S[cap] = Pow[15]
  <2>1. S[cap] = Pow[cap] * q
    BY <1>8, <1>11
  <2>2. cap + (15 - cap) <= 15 /\ cap + (15 - cap) = 15
    BY <1>1
  <2>3. Pow[cap + (15 - cap)] = Pow[cap] * Pow[15 - cap]
    BY <1>1, <2>2, PowersMultiply
  <2> QED BY <2>1, <2>2, <2>3 DEF q
<1> DEFINE U == {k \in Nat : cap + k <= 15 => S[cap + k] = S[cap]}
<1>13. 0 \in U
  <2>1. cap + 0 = cap
    BY <1>1
  <2> QED BY <2>1
<1>14. ASSUME NEW k \in Nat, k \in U PROVE k + 1 \in U
  <2> SUFFICES ASSUME cap + (k + 1) <= 15 PROVE S[cap + (k + 1)] = S[cap]
    OBVIOUS
  <2> DEFINE j == cap + (k + 1)
  <2>1. j \in 1 .. 15 /\ j - 1 = cap + k /\ j > cap /\ 15 - j \in 0 .. 16 /\ cap + k <= 15 /\ cap + k \in 0 .. 15
    BY <1>1
  <2>2. Count(lengths, j) = 0
    <3>1. {s \in DOMAIN lengths : lengths[s] = j} = {}
      <4>1. \A s \in 0 .. n : lengths[s] \in 0 .. cap
        OBVIOUS
      <4>2. \A s \in 0 .. n : lengths[s] # j
        BY <1>1, <2>1, <4>1
      <4> QED BY <4>2
    <3> QED BY <3>1, FS_EmptySet DEF Count
  <2>3. S[j] = S[j - 1] + Count(lengths, j) * Pow[15 - j]
    BY <2>1 DEF Stretches
  <2>4. Pow[15 - j] \in Nat /\ S[cap + k] \in Nat /\ S[cap + k] = S[cap]
    BY <1>2, <1>14, <2>1, PowNat
  <2> HIDE DEF j
  <2>5. S[j] = S[cap]
    BY <2>1, <2>2, <2>3, <2>4
  <2> QED BY <2>5 DEF j
<1>15. 15 - cap \in U
  <2> HIDE DEF U
  <2> QED BY <1>1, <1>13, <1>14, Induction
<1>16. cap + (15 - cap) = 15
  BY <1>1
<1> QED BY <1>12, <1>15, <1>16

(* What the decoder makes of complete code lengths reads the codes.        *)
Trimmed(part, lengths, n, m, cap) ==
  /\ n \in Nat /\ cap \in 1 .. 15 /\ lengths \in [0 .. n -> 0 .. cap] /\ Slack(lengths, cap) = 0
  /\ m \in 1 .. n + 1 /\ \A s \in 0 .. n : s >= m => lengths[s] = 0
  /\ part = [s \in 0 .. m - 1 |-> lengths[s]]

TableOf(part, lengths, n) == Code(part).complete /\ Table(Code(part), lengths, CanonicalCodes(lengths), 0 .. n)

LEMMA CompleteTable ==
  ASSUME NEW n, NEW cap, NEW lengths, NEW m, NEW part, Trimmed(part, lengths, n, m, cap)
  PROVE  TableOf(part, lengths, n)
<1>4. n \in Nat /\ cap \in 1 .. 15 /\ m \in 1 .. n + 1
  BY DEF Trimmed
<1>5. lengths \in [0 .. n -> 0 .. cap] /\ Slack(lengths, cap) = 0
  BY DEF Trimmed
<1>6. \A s \in 0 .. n : s >= m => lengths[s] = 0
  BY DEF Trimmed
<1>7. part = [s \in 0 .. m - 1 |-> lengths[s]]
  BY DEF Trimmed
<1>1. lengths \in [0 .. n -> 0 .. 15]
  <2>1. 0 .. cap \subseteq 0 .. 15
    BY <1>4
  <2> QED BY <1>5, <2>1
<1>0. PICK S : CodeOf(Code(part), S, lengths)
  BY <1>1, <1>4, <1>6, <1>7, CodeIs
<1>2. /\ Stretches(S, lengths) /\ Code(part).entries = Entries(S, lengths)
      /\ Code(part).complete = (S[15] = Pow[15])
  BY <1>0 DEF CodeOf
<1>3. S[15] = Pow[15] /\ Aligned(S, lengths, CanonicalCodes(lengths))
  BY <1>1, <1>2, <1>4, <1>5, SlackFills, CanonicalAligned, ZenonT(60)
<1>8. Code(part).complete /\ Table(Code(part), lengths, CanonicalCodes(lengths), 0 .. n)
  BY <1>1, <1>2, <1>3, <1>4, StretchTable
<1> QED BY <1>8 DEF TableOf
-----------------------------------------------------------------------------
(* The fixed codes are the canonical codes of their lengths.               *)
FixedCodes == [s \in 0 .. 287 |-> fixed_litlen_code(s).code]
FixedDistCodes == [s \in 0 .. 31 |-> s]
FixedDistLens == [s \in 0 .. 31 |-> 5]

LEMMA FixedIs ==
  ASSUME NEW s \in 0 .. 287
  PROVE  /\ FixedLens[s] = fixed_litlen_code(s).bits
         /\ s < 144 => FixedLens[s] = 8 /\ FixedCodes[s] = 48 + s
         /\ 144 <= s /\ s < 256 => FixedLens[s] = 9 /\ FixedCodes[s] = 400 + (s - 144)
         /\ 256 <= s /\ s < 280 => FixedLens[s] = 7 /\ FixedCodes[s] = s - 256
         /\ 280 <= s => FixedLens[s] = 8 /\ FixedCodes[s] = 192 + (s - 280)
<1>0. FixedCodes[s] = fixed_litlen_code(s).code
  BY DEF FixedCodes
<1>1. CASE s < 144
  <2>1. fixed_litlen_code(s) = [code |-> 48 + s, bits |-> 8] /\ FixedLens[s] = 8
    BY <1>1 DEF fixed_litlen_code, FixedLens
  <2> QED BY <1>0, <1>1, <2>1
<1>2. CASE 144 <= s /\ s < 256
  <2>1. fixed_litlen_code(s) = [code |-> 400 + (s - 144), bits |-> 9] /\ FixedLens[s] = 9
    BY <1>2 DEF fixed_litlen_code, FixedLens
  <2> QED BY <1>0, <1>2, <2>1
<1>3. CASE 256 <= s /\ s < 280
  <2>1. fixed_litlen_code(s) = [code |-> s - 256, bits |-> 7] /\ FixedLens[s] = 7
    BY <1>3 DEF fixed_litlen_code, FixedLens
  <2> QED BY <1>0, <1>3, <2>1
<1>4. CASE 280 <= s
  <2>1. fixed_litlen_code(s) = [code |-> 192 + (s - 280), bits |-> 8] /\ FixedLens[s] = 8
    BY <1>4 DEF fixed_litlen_code, FixedLens
  <2> QED BY <1>0, <1>4, <2>1
<1> QED BY <1>1, <1>2, <1>3, <1>4

LEMMA FixedLensAre ==
  FixedLens = [s \in 0 .. 287 |-> fixed_litlen_code(s).bits] /\ FixedLens \in [0 .. 287 -> 0 .. 15]
<1>1. FixedLens = [s \in 0 .. 287 |-> FixedLens[s]]
  BY DEF FixedLens
<1>2. \A s \in 0 .. 287 : FixedLens[s] = fixed_litlen_code(s).bits
  BY FixedIs
<1>3. \A s \in 0 .. 287 : FixedLens[s] \in 0 .. 15
  BY FixedIs, SMTT(30)
<1>4. FixedLens = [s \in 0 .. 287 |-> fixed_litlen_code(s).bits]
  BY <1>1, <1>2, Zenon
<1>5. FixedLens \in [0 .. 287 -> 0 .. 15]
  BY <1>1, <1>3, Zenon
<1> QED BY <1>4, <1>5

LEMMA FixedCounts ==
  /\ Count(FixedLens, 7) = 24 /\ Count(FixedLens, 8) = 152 /\ Count(FixedLens, 9) = 112
  /\ \A k \in 1 .. 15 : k \notin {7, 8, 9} => Count(FixedLens, k) = 0
<1> DEFINE L == FixedLens
           n == 287
           a == 144
           b == 256
           c == 280
           d == 288
           A(k) == {s \in 0 .. n : L[s] = k}
<1>1. \A k : Count(L, k) = Cardinality(A(k)) /\ A(k) \subseteq 0 .. n
  <2>1. DOMAIN FixedLens = 0 .. 287
    BY DEF FixedLens
  <2> QED BY <2>1 DEF Count
<1>2. \A s \in 0 .. n : /\ s \in A(7) <=> b <= s /\ s < c
                        /\ s \in A(8) <=> s < a \/ (c <= s /\ s < d)
                        /\ s \in A(9) <=> a <= s /\ s < b
                        /\ L[s] \in {7, 8, 9}
  <2> TAKE s \in 0 .. n
  <2>1. /\ s < 144 => FixedLens[s] = 8
        /\ 144 <= s /\ s < 256 => FixedLens[s] = 9
        /\ 256 <= s /\ s < 280 => FixedLens[s] = 7
        /\ 280 <= s => FixedLens[s] = 8
    BY FixedIs
  <2> QED BY <2>1
<1>3. n \in Nat /\ a \in Nat /\ b \in Nat /\ c \in Nat /\ d \in Nat
      /\ a <= b /\ b <= c /\ a <= c /\ c <= d /\ d <= n + 1 /\ b <= n + 1 /\ c <= n + 1
      /\ c - b = 24 /\ b - a = 112 /\ a + (d - c) = 152
  OBVIOUS
<1>4. ASSUME NEW k \in 1 .. 15, k \notin {7, 8, 9} PROVE Count(L, k) = 0
  <2>1. A(k) = {}
    BY <1>2, <1>4
  <2> QED BY <1>1, <2>1, FS_EmptySet
<1> HIDE DEF L, n, a, b, c, d, A
<1>5. InOne(A(7), n, b, c) /\ InOne(A(9), n, a, b) /\ InTwo(A(8), n, a, c, d)
  BY <1>1, <1>2, <1>3 DEF InOne, InTwo
<1>6. Cardinality(A(7)) = c - b /\ Cardinality(A(9)) = b - a /\ Cardinality(A(8)) = a + (d - c)
  BY <1>3, <1>5, Between, BetweenTwo
<1> QED BY <1>1, <1>3, <1>4, <1>6 DEF L

LEMMA FixedStretches ==
  ASSUME NEW S, Stretches(S, FixedLens)
  PROVE  S[6] = 0 /\ S[7] = 6144 /\ S[8] = 25600 /\ S[15] = 32768
<1> DEFINE c(k) == Count(FixedLens, k) * Pow[15 - k]
<1>1. /\ c(1) = 0 /\ c(2) = 0 /\ c(3) = 0 /\ c(4) = 0 /\ c(5) = 0 /\ c(6) = 0
      /\ c(10) = 0 /\ c(11) = 0 /\ c(12) = 0 /\ c(13) = 0 /\ c(14) = 0 /\ c(15) = 0
  <2>1. ASSUME NEW k \in 1 .. 15, k \notin {7, 8, 9} PROVE c(k) = 0
    <3>1. Count(FixedLens, k) = 0
      BY <2>1, FixedCounts
    <3>2. 15 - k \in 0 .. 16
      OBVIOUS
    <3> DEFINE p == Pow[15 - k]
    <3>3. p \in Nat
      BY <3>2, PowNat
    <3> HIDE DEF p
    <3>4. 0 * p = 0
      BY <3>3
    <3> QED BY <3>1, <3>4 DEF p
  <2> HIDE DEF c
  <2> QED BY <2>1
<1>2. c(7) = 6144 /\ c(8) = 19456 /\ c(9) = 7168
  <2>1. 15 - 7 = 8 /\ 15 - 8 = 7 /\ 15 - 9 = 6
    OBVIOUS
  <2>2. Pow[15 - 7] = 256 /\ Pow[15 - 8] = 128 /\ Pow[15 - 9] = 64
    BY <2>1, PowersTo15 DEF SixteenPowers
  <2> QED BY <2>2, FixedCounts
<1>3. \A k \in 1 .. 15 : S[k] = S[k - 1] + c(k)
  BY DEF Stretches
<1> HIDE DEF c
<1>4. S[0] = 0
  BY DEF Stretches
<1>5. S[1] = 0 /\ S[2] = 0 /\ S[3] = 0 /\ S[4] = 0 /\ S[5] = 0 /\ S[6] = 0
  BY <1>1, <1>3, <1>4
<1>6. S[7] = 6144 /\ S[8] = 25600 /\ S[9] = 32768
  BY <1>2, <1>3, <1>5
<1>7. S[10] = 32768 /\ S[11] = 32768 /\ S[12] = 32768
  BY <1>1, <1>3, <1>6
<1>8. S[13] = 32768 /\ S[14] = 32768 /\ S[15] = 32768
  BY <1>1, <1>3, <1>7
<1> QED BY <1>5, <1>6, <1>8

LEMMA FixedSmaller ==
  ASSUME NEW s \in 0 .. 287
  PROVE  /\ s < 144 => Smaller(FixedLens, s) = s
         /\ 144 <= s /\ s < 256 => Smaller(FixedLens, s) = s - 144
         /\ 256 <= s /\ s < 280 => Smaller(FixedLens, s) = s - 256
         /\ 280 <= s => Smaller(FixedLens, s) = 144 + (s - 280)
<1> DEFINE L == FixedLens
           n == 287
           o == 0
           a == 144
           b == 256
           c == 280
           A == {t \in 0 .. n : t < s /\ L[t] = L[s]}
<1>1. Smaller(FixedLens, s) = Cardinality(A) /\ A \subseteq 0 .. n
  <2>1. DOMAIN FixedLens = 0 .. 287
    BY DEF FixedLens
  <2> QED BY <2>1 DEF Smaller
<1>2. \A t \in 0 .. n : /\ t < a => L[t] = 8
                        /\ a <= t /\ t < b => L[t] = 9
                        /\ b <= t /\ t < c => L[t] = 7
                        /\ c <= t => L[t] = 8
  BY FixedIs, SMTT(30)
<1>3. o \in Nat /\ n \in Nat /\ a \in Nat /\ b \in Nat /\ c \in Nat /\ s \in Nat /\ s \in 0 .. n /\ s <= n + 1
      /\ o <= s /\ s - o = s /\ a <= c /\ a <= b /\ b <= c
  OBVIOUS
<1>4. ASSUME s < a PROVE InOne(A, n, o, s)
  <2>1. ASSUME NEW t \in 0 .. n PROVE t \in A <=> o <= t /\ t < s
    <3>1. t \in A <=> t < s /\ L[t] = L[s]
      OBVIOUS
    <3>2. /\ s < a => L[s] = 8
          /\ a <= s /\ s < b => L[s] = 9
          /\ b <= s /\ s < c => L[s] = 7
          /\ c <= s => L[s] = 8
      BY <1>2, <1>3, Zenon
    <3>3. /\ t < a => L[t] = 8
          /\ a <= t /\ t < b => L[t] = 9
          /\ b <= t /\ t < c => L[t] = 7
          /\ c <= t => L[t] = 8
      BY <1>2
    <3>4. t \in Nat
      OBVIOUS
    <3>5. o = 0
      OBVIOUS
    <3> HIDE DEF n, a, b, c, o, A, L
    <3> QED BY <1>3, <1>4, <3>1, <3>2, <3>3, <3>4, <3>5
  <2>2. o <= s
    BY <1>3, <1>4
  <2> HIDE DEF n, a, b, c, o, A, L
  <2> QED BY <1>1, <1>3, <2>1, <2>2 DEF InOne
<1>5. ASSUME a <= s /\ s < b PROVE InOne(A, n, a, s)
  <2>1. ASSUME NEW t \in 0 .. n PROVE t \in A <=> a <= t /\ t < s
    <3>1. t \in A <=> t < s /\ L[t] = L[s]
      OBVIOUS
    <3>2. /\ s < a => L[s] = 8
          /\ a <= s /\ s < b => L[s] = 9
          /\ b <= s /\ s < c => L[s] = 7
          /\ c <= s => L[s] = 8
      BY <1>2, <1>3, Zenon
    <3>3. /\ t < a => L[t] = 8
          /\ a <= t /\ t < b => L[t] = 9
          /\ b <= t /\ t < c => L[t] = 7
          /\ c <= t => L[t] = 8
      BY <1>2
    <3>4. t \in Nat
      OBVIOUS
    <3>5. o = 0
      OBVIOUS
    <3> HIDE DEF n, a, b, c, o, A, L
    <3> QED BY <1>3, <1>5, <3>1, <3>2, <3>3, <3>4, <3>5
  <2>2. a <= s
    BY <1>3, <1>5
  <2> HIDE DEF n, a, b, c, o, A, L
  <2> QED BY <1>1, <1>3, <2>1, <2>2 DEF InOne
<1>6. ASSUME b <= s /\ s < c PROVE InOne(A, n, b, s)
  <2>1. ASSUME NEW t \in 0 .. n PROVE t \in A <=> b <= t /\ t < s
    <3>1. t \in A <=> t < s /\ L[t] = L[s]
      OBVIOUS
    <3>2. /\ s < a => L[s] = 8
          /\ a <= s /\ s < b => L[s] = 9
          /\ b <= s /\ s < c => L[s] = 7
          /\ c <= s => L[s] = 8
      BY <1>2, <1>3, Zenon
    <3>3. /\ t < a => L[t] = 8
          /\ a <= t /\ t < b => L[t] = 9
          /\ b <= t /\ t < c => L[t] = 7
          /\ c <= t => L[t] = 8
      BY <1>2
    <3>4. t \in Nat
      OBVIOUS
    <3>5. o = 0
      OBVIOUS
    <3> HIDE DEF n, a, b, c, o, A, L
    <3> QED BY <1>3, <1>6, <3>1, <3>2, <3>3, <3>4, <3>5
  <2>2. b <= s
    BY <1>3, <1>6
  <2> HIDE DEF n, a, b, c, o, A, L
  <2> QED BY <1>1, <1>3, <2>1, <2>2 DEF InOne
<1>7. ASSUME c <= s PROVE InTwo(A, n, a, c, s)
  <2>1. ASSUME NEW t \in 0 .. n PROVE t \in A <=> t < a \/ (c <= t /\ t < s)
    <3>1. t \in A <=> t < s /\ L[t] = L[s]
      OBVIOUS
    <3>2. /\ s < a => L[s] = 8
          /\ a <= s /\ s < b => L[s] = 9
          /\ b <= s /\ s < c => L[s] = 7
          /\ c <= s => L[s] = 8
      BY <1>2, <1>3, Zenon
    <3>3. /\ t < a => L[t] = 8
          /\ a <= t /\ t < b => L[t] = 9
          /\ b <= t /\ t < c => L[t] = 7
          /\ c <= t => L[t] = 8
      BY <1>2
    <3>4. t \in Nat
      OBVIOUS
    <3>5. o = 0
      OBVIOUS
    <3> HIDE DEF n, a, b, c, o, A, L
    <3> QED BY <1>3, <1>7, <3>1, <3>2, <3>3, <3>4, <3>5
  <2>2. a <= c /\ c <= s
    BY <1>3, <1>7
  <2> HIDE DEF n, a, b, c, o, A, L
  <2> QED BY <1>1, <1>3, <2>1, <2>2 DEF InTwo
<1> DEFINE size == Cardinality(A)
<1>8. /\ s < a => size = s - o
      /\ a <= s /\ s < b => size = s - a
      /\ b <= s /\ s < c => size = s - b
      /\ c <= s => size = a + (s - c)
  <2> HIDE DEF n, a, b, c, o, A, L
  <2> QED BY <1>3, <1>4, <1>5, <1>6, <1>7, Between, BetweenTwo
<1> HIDE DEF A, L, size
<1> QED BY <1>1, <1>3, <1>8 DEF size

LEMMA FixedLitTable == Table(FixedLit, FixedLens, FixedCodes, 0 .. 287)
<1> DEFINE n == 287
           m == 288
<1>1. n \in Nat /\ m \in 1 .. n + 1 /\ \A s \in 0 .. n : s >= m => FixedLens[s] = 0
  OBVIOUS
<1>2. FixedLens \in [0 .. n -> 0 .. 15] /\ FixedLens = [s \in 0 .. m - 1 |-> FixedLens[s]]
  <2>1. FixedLens = [s \in 0 .. 287 |-> FixedLens[s]] /\ 288 - 1 = 287
    BY DEF FixedLens
  <2> QED BY <2>1, FixedLensAre
<1> HIDE DEF n, m
<1>3. PICK S : CodeOf(Code(FixedLens), S, FixedLens)
  BY <1>1, <1>2, CodeIs
<1>4. Stretches(S, FixedLens) /\ FixedLit.entries = Entries(S, FixedLens)
  BY <1>3 DEF CodeOf, FixedLit
<1>5. S[6] = 0 /\ S[7] = 6144 /\ S[8] = 25600 /\ S[15] = 32768
  BY <1>4, FixedStretches
<1>6. Pow[8] = 256 /\ Pow[7] = 128 /\ Pow[6] = 64 /\ Pow[15] = 32768
  BY PowersTo15 DEF SixteenPowers
<1>7. ASSUME NEW s \in UsedSymbols(FixedLens)
      PROVE  FixedCodes[s] \in Nat /\ FixedCodes[s] * Pow[15 - FixedLens[s]] = StartOf(S, FixedLens, s)
  <2>1. s \in 0 .. 287
    BY DEF UsedSymbols, FixedLens
  <2>2. CASE s < 144
    <3>1. FixedLens[s] = 8 /\ FixedCodes[s] = 48 + s /\ Smaller(FixedLens, s) = s
      BY <2>1, <2>2, FixedIs, FixedSmaller
    <3>2. 15 - 8 = 7 /\ 8 - 1 = 7 /\ s \in Nat
      BY <2>1
    <3>3. StartOf(S, FixedLens, s) = 6144 + s * 128
      BY <1>5, <1>6, <3>1, <3>2 DEF StartOf
    <3> QED BY <1>6, <3>1, <3>2, <3>3
  <2>3. CASE 144 <= s /\ s < 256
    <3>1. FixedLens[s] = 9 /\ FixedCodes[s] = 400 + (s - 144) /\ Smaller(FixedLens, s) = s - 144
      BY <2>1, <2>3, FixedIs, FixedSmaller
    <3>2. 15 - 9 = 6 /\ 9 - 1 = 8 /\ s \in Nat /\ s >= 144
      BY <2>1, <2>3
    <3>3. StartOf(S, FixedLens, s) = 25600 + (s - 144) * 64
      BY <1>5, <1>6, <3>1, <3>2 DEF StartOf
    <3> QED BY <1>6, <3>1, <3>2, <3>3
  <2>4. CASE 256 <= s /\ s < 280
    <3>1. FixedLens[s] = 7 /\ FixedCodes[s] = s - 256 /\ Smaller(FixedLens, s) = s - 256
      BY <2>1, <2>4, FixedIs, FixedSmaller
    <3>2. 15 - 7 = 8 /\ 7 - 1 = 6 /\ s \in Nat /\ s >= 256
      BY <2>1, <2>4
    <3>3. StartOf(S, FixedLens, s) = 0 + (s - 256) * 256
      BY <1>5, <1>6, <3>1, <3>2 DEF StartOf
    <3> QED BY <1>6, <3>1, <3>2, <3>3
  <2>5. CASE 280 <= s
    <3>1. FixedLens[s] = 8 /\ FixedCodes[s] = 192 + (s - 280) /\ Smaller(FixedLens, s) = 144 + (s - 280)
      BY <2>1, <2>5, FixedIs, FixedSmaller
    <3>2. 15 - 8 = 7 /\ 8 - 1 = 7 /\ s \in Nat /\ s >= 280
      BY <2>1, <2>5
    <3>3. StartOf(S, FixedLens, s) = 6144 + (144 + (s - 280)) * 128
      BY <1>5, <1>6, <3>1, <3>2 DEF StartOf
    <3> QED BY <1>6, <3>1, <3>2, <3>3
  <2> QED BY <2>1, <2>2, <2>3, <2>4, <2>5
<1>8. Aligned(S, FixedLens, FixedCodes) /\ S[15] = Pow[15]
  BY <1>5, <1>6, <1>7 DEF Aligned
<1>9. Table(FixedLit, FixedLens, FixedCodes, 0 .. n)
  BY <1>1, <1>2, <1>4, <1>8, StretchTable
<1> QED BY <1>9 DEF n

LEMMA FixedDistTable == Table(FixedDist, FixedDistLens, FixedDistCodes, 0 .. 31)
<1> DEFINE n == 31
           m == 32
           L == FixedDistLens
<1>1. n \in Nat /\ m \in 1 .. n + 1 /\ \A s \in 0 .. n : s >= m => L[s] = 0
  OBVIOUS
<1>2. L \in [0 .. n -> 0 .. 15] /\ L = [s \in 0 .. m - 1 |-> L[s]] /\ FixedDist = Code(L)
  BY DEF FixedDistLens, FixedDist
<1>3. DOMAIN L = 0 .. 31 /\ \A s \in 0 .. 31 : L[s] = 5
  BY DEF FixedDistLens
<1> HIDE DEF n, m, L
<1>4. PICK S : CodeOf(Code(L), S, L)
  BY <1>1, <1>2, CodeIs
<1>5. Stretches(S, L) /\ FixedDist.entries = Entries(S, L)
  BY <1>2, <1>4 DEF CodeOf
<1>6. Count(L, 5) = 32
  <2> DEFINE a == 32
             o == 0
  <2>1. {s \in DOMAIN L : L[s] = 5} = o .. a - 1
    BY <1>3
  <2>2. a \in Nat /\ o \in Nat /\ o <= a /\ a - o = 32
    OBVIOUS
  <2> HIDE DEF a, o
  <2>3. Cardinality(o .. a - 1) = a - o
    BY <2>2, Interval
  <2> QED BY <2>1, <2>2, <2>3 DEF Count
<1> DEFINE c(k) == Count(L, k) * Pow[15 - k]
<1>7. ASSUME NEW k \in 1 .. 15, k # 5 PROVE c(k) = 0
  <2>1. {s \in DOMAIN L : L[s] = k} = {}
    BY <1>3, <1>7
  <2>2. Count(L, k) = 0
    BY <2>1, FS_EmptySet DEF Count
  <2>3. 15 - k \in 0 .. 16
    OBVIOUS
  <2> DEFINE p == Pow[15 - k]
  <2>4. p \in Nat
    BY <2>3, PowNat
  <2> HIDE DEF p
  <2>5. 0 * p = 0
    BY <2>4
  <2> QED BY <2>2, <2>5 DEF p
<1>8. Pow[10] = 1024 /\ Pow[15] = 32768 /\ 15 - 5 = 10
  BY PowersTo15 DEF SixteenPowers
<1>9. c(5) = 32768
  BY <1>6, <1>8
<1>10. S[0] = 0 /\ \A k \in 1 .. 15 : S[k] = S[k - 1] + c(k)
  BY <1>5 DEF Stretches
<1> HIDE DEF c
<1>11. S[1] = 0 /\ S[2] = 0 /\ S[3] = 0 /\ S[4] = 0 /\ S[5] = 32768
  BY <1>7, <1>9, <1>10
<1>12. S[6] = 32768 /\ S[7] = 32768 /\ S[8] = 32768 /\ S[9] = 32768 /\ S[10] = 32768
  BY <1>7, <1>10, <1>11
<1>13. S[11] = 32768 /\ S[12] = 32768 /\ S[13] = 32768 /\ S[14] = 32768 /\ S[15] = 32768
  BY <1>7, <1>10, <1>12
<1>14. ASSUME NEW s \in UsedSymbols(L)
       PROVE  FixedDistCodes[s] \in Nat /\ FixedDistCodes[s] * Pow[15 - L[s]] = StartOf(S, L, s)
  <2>1. s \in 0 .. 31
    BY <1>3 DEF UsedSymbols
  <2>2. {t \in DOMAIN L : t < s /\ L[t] = L[s]} = 0 .. s - 1
    BY <1>3, <2>1
  <2>3. 0 \in Nat /\ s \in Nat /\ 0 <= s
    BY <2>1
  <2>4. Smaller(L, s) = s
    <3> DEFINE o == 0
    <3>1. o \in Nat /\ o <= s /\ s - o = s /\ {t \in DOMAIN L : t < s /\ L[t] = L[s]} = o .. s - 1
      BY <2>2, <2>3
    <3> HIDE DEF o
    <3>2. Cardinality(o .. s - 1) = s - o
      BY <2>3, <3>1, Interval
    <3> QED BY <3>1, <3>2 DEF Smaller
  <2>5. L[s] = 5 /\ FixedDistCodes[s] = s /\ 5 - 1 = 4
    BY <1>3, <2>1 DEF FixedDistCodes
  <2>6. StartOf(S, L, s) = 0 + s * 1024
    BY <1>8, <1>11, <2>4, <2>5 DEF StartOf
  <2> QED BY <1>8, <2>3, <2>5, <2>6
<1>15. Aligned(S, L, FixedDistCodes) /\ S[15] = Pow[15]
  BY <1>8, <1>13, <1>14 DEF Aligned
<1>16. Table(FixedDist, L, FixedDistCodes, 0 .. n)
  BY <1>1, <1>2, <1>5, <1>15, StretchTable
<1> QED BY <1>16 DEF n, L
-----------------------------------------------------------------------------
(* The closed formulas of the decoder give the rows of the tables.         *)
LenDecodes(r) == LenBase(r.sym) = r.base /\ LenExtra(r.sym) = r.extra
DistDecodes(r) == DistBase(r.sym) = r.base /\ DistExtra(r.sym) = r.extra

LEMMA LenRowsDecode == \A k \in 1 .. 29 : LenDecodes(LenRows[k])
<1> SUFFICES ASSUME NEW k \in 1 .. 29 PROVE LenDecodes(LenRows[k])
  OBVIOUS
<1> DEFINE r == LenRows[k]
           s == r.sym
<1>1. s = 256 + k
  BY SMT DEF LenRows, Row
<1>2. CASE k \in 1 .. 8 \/ k = 29
  <2>1. r.extra = 0 /\ r.base = IF k = 29 THEN 258 ELSE k + 2
    BY <1>2, SMT DEF LenRows, Row
  <2> HIDE DEF r
  <2> QED BY <1>1, <1>2, <2>1 DEF LenDecodes, LenBase, LenExtra, r
<1>3. CASE k \in 9 .. 28
  <2> DEFINE e == (k - 5) \div 4
             f == 4 + ((k - 9) % 4)
  <2>1. e \in 1 .. 5 /\ r.extra = e
    BY <1>3, SMT DEF LenRows, Row
  <2>2. r.base = 3 + f * Pow[e]
    <3>1. CASE e = 1
      <4>1. k \in 9 .. 12 /\ Pow[e] = 2
        BY <1>3, <3>1, SmallPowers
      <4>2. f * 2 = r.base - 3
        BY <4>1, SMTT(30) DEF LenRows, Row
      <4>3. r.base \in Nat
        BY LenRowsAre DEF AnyRow
      <4> QED BY <4>1, <4>2, <4>3
    <3>2. CASE e = 2
      <4>1. k \in 13 .. 16 /\ Pow[e] = 4
        BY <1>3, <3>2, SmallPowers
      <4>2. f * 4 = r.base - 3
        BY <4>1, SMT DEF LenRows, Row
      <4>3. r.base \in Nat
        BY LenRowsAre DEF AnyRow
      <4> QED BY <4>1, <4>2, <4>3
    <3>3. CASE e = 3
      <4>1. k \in 17 .. 20 /\ Pow[e] = 8
        BY <1>3, <3>3, SmallPowers
      <4>2. f * 8 = r.base - 3
        BY <4>1, SMT DEF LenRows, Row
      <4>3. r.base \in Nat
        BY LenRowsAre DEF AnyRow
      <4> QED BY <4>1, <4>2, <4>3
    <3>4. CASE e = 4
      <4>1. k \in 21 .. 24 /\ Pow[e] = 16
        BY <1>3, <3>4, SmallPowers
      <4>2. f * 16 = r.base - 3
        BY <4>1, SMT DEF LenRows, Row
      <4>3. r.base \in Nat
        BY LenRowsAre DEF AnyRow
      <4> QED BY <4>1, <4>2, <4>3
    <3>5. CASE e = 5
      <4>1. k \in 25 .. 28 /\ Pow[e] = 32
        BY <1>3, <3>5, SmallPowers
      <4>2. f * 32 = r.base - 3
        BY <4>1, SMT DEF LenRows, Row
      <4>3. r.base \in Nat
        BY LenRowsAre DEF AnyRow
      <4> QED BY <4>1, <4>2, <4>3
    <3> QED BY <2>1, <3>1, <3>2, <3>3, <3>4, <3>5
  <2> HIDE DEF r
  <2>3. s - 261 = k - 5 /\ s - 265 = k - 9 /\ s >= 265 /\ s # 285
    BY <1>1, <1>3
  <2>4. LenExtra(s) = e
    BY <1>1, <2>3 DEF LenExtra
  <2>5. LenBase(s) = 3 + f * 2 ^ e
    BY <1>1, <2>3, <2>4 DEF LenBase
  <2>6. 2 ^ e = Pow[e]
    <3>1. e \in 0 .. 16
      BY <2>1
    <3> HIDE DEF e
    <3> QED BY <3>1, PowIs
  <2> HIDE DEF e, f
  <2> QED BY <2>1, <2>2, <2>4, <2>5, <2>6 DEF LenDecodes, r
<1> QED BY <1>2, <1>3

LEMMA DistRowsDecode == \A k \in 1 .. 30 : DistDecodes(DistRows[k])
<1> SUFFICES ASSUME NEW k \in 1 .. 30 PROVE DistDecodes(DistRows[k])
  OBVIOUS
<1> DEFINE r == DistRows[k]
           s == r.sym
<1>1. s = k - 1
  BY SMT DEF DistRows, Row
<1>2. CASE k \in 1 .. 4
  <2>1. r.extra = 0 /\ r.base = k
    BY <1>2, SMT DEF DistRows, Row
  <2> HIDE DEF r
  <2> QED BY <1>1, <1>2, <2>1 DEF DistDecodes, DistBase, DistExtra, r
<1>3. CASE k \in 5 .. 30
  <2> DEFINE e == s \div 2 - 1
             f == 2 + (s % 2)
  <2>1. e \in 1 .. 13 /\ r.extra = e
    <3>1. r.extra = (k - 1) \div 2 - 1
      BY <1>3, SMT DEF DistRows, Row
    <3> HIDE DEF r
    <3> QED BY <1>1, <1>3, <3>1
  <2>2. r.base = 1 + f * Pow[e]
    <3>0. e = (k - 1) \div 2 - 1 /\ f = 2 + ((k - 1) % 2)
      BY <1>1
    <3> HIDE DEF e, f
    <3>1. CASE e = 1
      <4>1. k \in {5, 6} /\ Pow[e] = 2
        BY <1>3, <3>0, <3>1, SmallPowers
      <4>2. f * 2 = r.base - 1
        BY <3>0, <4>1, SMT DEF DistRows, Row
      <4>3. r.base \in Nat
        BY DistRowsAre DEF AnyRow
      <4> QED BY <4>1, <4>2, <4>3
    <3>2. CASE e = 2
      <4>1. k \in {7, 8} /\ Pow[e] = 4
        BY <1>3, <3>0, <3>2, SmallPowers
      <4>2. f * 4 = r.base - 1
        BY <3>0, <4>1, SMT DEF DistRows, Row
      <4>3. r.base \in Nat
        BY DistRowsAre DEF AnyRow
      <4> QED BY <4>1, <4>2, <4>3
    <3>3. CASE e = 3
      <4>1. k \in {9, 10} /\ Pow[e] = 8
        BY <1>3, <3>0, <3>3, SmallPowers
      <4>2. f * 8 = r.base - 1
        BY <3>0, <4>1, SMT DEF DistRows, Row
      <4>3. r.base \in Nat
        BY DistRowsAre DEF AnyRow
      <4> QED BY <4>1, <4>2, <4>3
    <3>4. CASE e = 4
      <4>1. k \in {11, 12} /\ Pow[e] = 16
        BY <1>3, <3>0, <3>4, SmallPowers
      <4>2. f * 16 = r.base - 1
        BY <3>0, <4>1, SMT DEF DistRows, Row
      <4>3. r.base \in Nat
        BY DistRowsAre DEF AnyRow
      <4> QED BY <4>1, <4>2, <4>3
    <3>5. CASE e = 5
      <4>1. k \in {13, 14} /\ Pow[e] = 32
        BY <1>3, <3>0, <3>5, SmallPowers
      <4>2. f * 32 = r.base - 1
        BY <3>0, <4>1, SMT DEF DistRows, Row
      <4>3. r.base \in Nat
        BY DistRowsAre DEF AnyRow
      <4> QED BY <4>1, <4>2, <4>3
    <3>6. CASE e = 6
      <4>1. k \in {15, 16} /\ Pow[e] = 64
        BY <1>3, <3>0, <3>6, SmallPowers
      <4>2. f * 64 = r.base - 1
        BY <3>0, <4>1, SMT DEF DistRows, Row
      <4>3. r.base \in Nat
        BY DistRowsAre DEF AnyRow
      <4> QED BY <4>1, <4>2, <4>3
    <3>7. CASE e = 7
      <4>1. k \in {17, 18} /\ Pow[e] = 128
        BY <1>3, <3>0, <3>7, SmallPowers
      <4>2. f * 128 = r.base - 1
        BY <3>0, <4>1, SMT DEF DistRows, Row
      <4>3. r.base \in Nat
        BY DistRowsAre DEF AnyRow
      <4> QED BY <4>1, <4>2, <4>3
    <3>8. CASE e = 8
      <4>1. k \in {19, 20} /\ Pow[e] = 256
        BY <1>3, <3>0, <3>8, SmallPowers
      <4>2. f * 256 = r.base - 1
        BY <3>0, <4>1, SMT DEF DistRows, Row
      <4>3. r.base \in Nat
        BY DistRowsAre DEF AnyRow
      <4> QED BY <4>1, <4>2, <4>3
    <3>9. CASE e = 9
      <4>1. k \in {21, 22} /\ Pow[e] = 512
        BY <1>3, <3>0, <3>9, SmallPowers
      <4>2. f * 512 = r.base - 1
        BY <3>0, <4>1, SMT DEF DistRows, Row
      <4>3. r.base \in Nat
        BY DistRowsAre DEF AnyRow
      <4> QED BY <4>1, <4>2, <4>3
    <3>10. CASE e = 10
      <4>1. k \in {23, 24} /\ Pow[e] = 1024
        BY <1>3, <3>0, <3>10, SmallPowers
      <4>2. f * 1024 = r.base - 1
        BY <3>0, <4>1, SMT DEF DistRows, Row
      <4>3. r.base \in Nat
        BY DistRowsAre DEF AnyRow
      <4> QED BY <4>1, <4>2, <4>3
    <3>11. CASE e = 11
      <4>1. k \in {25, 26} /\ Pow[e] = 2048
        BY <1>3, <3>0, <3>11, SmallPowers
      <4>2. f * 2048 = r.base - 1
        BY <3>0, <4>1, SMT DEF DistRows, Row
      <4>3. r.base \in Nat
        BY DistRowsAre DEF AnyRow
      <4> QED BY <4>1, <4>2, <4>3
    <3>12. CASE e = 12
      <4>1. k \in {27, 28} /\ Pow[e] = 4096
        BY <1>3, <3>0, <3>12, SmallPowers
      <4>2. f * 4096 = r.base - 1
        BY <3>0, <4>1, SMT DEF DistRows, Row
      <4>3. r.base \in Nat
        BY DistRowsAre DEF AnyRow
      <4> QED BY <4>1, <4>2, <4>3
    <3>13. CASE e = 13
      <4>1. k \in {29, 30} /\ Pow[e] = 8192
        BY <1>3, <3>0, <3>13, SmallPowers
      <4>2. f * 8192 = r.base - 1
        BY <3>0, <4>1, SMT DEF DistRows, Row
      <4>3. r.base \in Nat
        BY DistRowsAre DEF AnyRow
      <4> QED BY <4>1, <4>2, <4>3
    <3> QED BY <2>1, <3>1, <3>2, <3>3, <3>4, <3>5, <3>6, <3>7, <3>8, <3>9, <3>10, <3>11, <3>12, <3>13
  <2> HIDE DEF r
  <2>4. DistExtra(s) = e
    BY <1>1, <1>3 DEF DistExtra
  <2>5. DistBase(s) = 1 + f * 2 ^ e
    BY <1>1, <1>3, <2>4 DEF DistBase
  <2>6. 2 ^ e = Pow[e]
    <3>1. e \in 0 .. 16
      BY <2>1
    <3> HIDE DEF e
    <3> QED BY <3>1, PowIs
  <2> HIDE DEF e, f
  <2> QED BY <2>1, <2>2, <2>4, <2>5, <2>6 DEF DistDecodes, r
<1> QED BY <1>2, <1>3
-----------------------------------------------------------------------------
(* What a length and a distance are coded with says which they are.        *)
LenCoded(c, x) == CodeFits(c, 257 .. 285) /\ LenBase(c.sym) + c.value = x /\ LenExtra(c.sym) = c.extra
DistCoded(c, x) == CodeFits(c, 0 .. 29) /\ DistBase(c.sym) + c.value = x /\ DistExtra(c.sym) = c.extra

LEMMA LengthReads == ASSUME NEW x \in MatchLengths PROVE LenCoded(length_code(x), x)
<1> DEFINE n == 29
           limit == 259
<1>1. n \in Nat /\ n >= 1 /\ limit \in Nat /\ Ascending(LenRows, n, limit)
  BY LenRowsAscend
<1>2. x \in Nat /\ LenRows[1].base <= x /\ x < limit
  BY LenRowsAre DEF MatchLengths
<1>3. n = 29
  OBVIOUS
<1> HIDE DEF n, limit
<1>4. PICK k \in 1 .. n : RowAtOrBelow(LenRows, x) = LenRows[k]
  BY <1>1, <1>2, RowOf
<1>5. LenDecodes(LenRows[k]) /\ LenRows[k].base \in Nat
  <2>1. k \in 1 .. 29
    BY <1>3
  <2> QED BY <2>1, LenRowsDecode, LenRowsAre DEF AnyRow
<1> DEFINE r == LenRows[k]
<1>6. length_code(x) = [sym |-> r.sym, extra |-> r.extra, value |-> x - r.base]
  BY <1>4 DEF length_code, Coded
<1>7. CodeFits(length_code(x), 257 .. 285)
  BY LengthsAgree
<1> HIDE DEF r
<1>8. LenBase(r.sym) = r.base /\ LenExtra(r.sym) = r.extra /\ r.base \in Nat
  BY <1>5 DEF LenDecodes, r
<1>9. r.base + (x - r.base) = x
  BY <1>2, <1>8
<1> QED BY <1>6, <1>7, <1>8, <1>9 DEF LenCoded

LEMMA DistanceReads == ASSUME NEW x \in MatchDistances PROVE DistCoded(distance_code(x), x)
<1> DEFINE n == 30
           limit == 32769
<1>1. n \in Nat /\ n >= 1 /\ limit \in Nat /\ Ascending(DistRows, n, limit)
  BY DistRowsAscend
<1>2. x \in Nat /\ DistRows[1].base <= x /\ x < limit
  <2>1. DistRows[1].base = 1
    BY DistRowsAre, Zenon
  <2>2. x \in Nat /\ 1 <= x /\ x < limit
    BY DEF MatchDistances
  <2> QED BY <2>1, <2>2
<1>3. n = 30
  OBVIOUS
<1> HIDE DEF n, limit
<1>4. PICK k \in 1 .. n : RowAtOrBelow(DistRows, x) = DistRows[k]
  BY <1>1, <1>2, RowOf
<1>5. DistDecodes(DistRows[k]) /\ DistRows[k].base \in Nat
  <2>1. k \in 1 .. 30
    BY <1>3
  <2> QED BY <2>1, DistRowsDecode, DistRowsAre DEF AnyRow
<1> DEFINE r == DistRows[k]
<1>6. distance_code(x) = [sym |-> r.sym, extra |-> r.extra, value |-> x - r.base]
  BY <1>4 DEF distance_code, Coded
<1>7. CodeFits(distance_code(x), 0 .. 29)
  BY DistancesAgree
<1> HIDE DEF r
<1>8. DistBase(r.sym) = r.base /\ DistExtra(r.sym) = r.extra /\ r.base \in Nat
  BY <1>5 DEF DistDecodes, r
<1>9. r.base + (x - r.base) = x
  BY <1>2, <1>8
<1> QED BY <1>6, <1>7, <1>8, <1>9 DEF DistCoded
-----------------------------------------------------------------------------
(* Extra bits are read where they were written.                            *)
LEMMA ExtraReads ==
  ASSUME NEW c, NEW syms, CodeFits(c, syms), NEW b, NEW at \in Nat, NEW next, At(b, at, Extra(c), next)
  PROVE  Read(b, at, c.extra) = c.value /\ next = at + c.extra /\ next \in Nat
<1>1. c.extra \in 0 .. 15 /\ c.extra \in Nat /\ c.value \in Nat /\ c.value < Pow[c.extra]
  BY DEF CodeFits
<1>2. Holds(b, at, c.value, c.extra) /\ next = at + c.extra
  <2>1. CASE c.extra > 0
    <3> DEFINE p == Piece(c.value, c.extra)
    <3>1. Extra(c) = <<p>>
      BY <2>1 DEF Extra
    <3>2. p \in BitPieces /\ p.bits = c.extra /\ p.value = c.value
      BY <1>1, PieceFits DEF Piece
    <3> HIDE DEF p
    <3>3. At(b, at, <<p>>, next)
      BY <3>1
    <3> QED BY <3>2, <3>3, AtOne
  <2>2. CASE c.extra = 0
    <3>1. Extra(c) = <<>>
      BY <2>2 DEF Extra
    <3>2. next = at
      BY <3>1, AtNone
    <3>3. 0 .. c.extra - 1 = {}
      BY <2>2
    <3> QED BY <2>2, <3>2, <3>3 DEF Holds
  <2> QED BY <1>1, <2>1, <2>2
<1> QED BY <1>1, <1>2, ReadIs

(* A symbol is read where its code was written.                            *)
LEMMA HuffmanReads ==
  ASSUME NEW code, NEW lengths, NEW codes, NEW D, Table(code, lengths, codes, D),
         NEW s \in D, lengths[s] > 0, NEW b, NEW at \in Nat, NEW next, At(b, at, <<Huffman(lengths, codes, s)>>, next)
  PROVE  /\ Symbol(b, at, code) = [sym |-> s, next |-> next]
         /\ next = at + lengths[s] /\ next > at /\ next \in Nat
<1> DEFINE p == Huffman(lengths, codes, s)
<1>1. lengths[s] \in 1 .. 15 /\ lengths[s] \in 0 .. 15
  BY DEF Table
<1>2. p \in BitPieces /\ p.bits = lengths[s] /\ p.value = ReverseBits(codes[s], lengths[s])
  <2>1. p \in BitPieces /\ p.bits = lengths[s]
    BY <1>1, HuffmanFits
  <2> QED BY <2>1 DEF Huffman, Piece
<1>3. At(b, at, <<p>>, next)
  OBVIOUS
<1> HIDE DEF p
<1>4. Holds(b, at, p.value, p.bits) /\ next = at + p.bits
  BY <1>2, <1>3, AtOne
<1>5. Symbol(b, at, code) = [sym |-> s, next |-> at + lengths[s]]
  BY <1>2, <1>4, SymbolReads
<1> QED BY <1>1, <1>2, <1>4, <1>5

(* The four pieces of a reference.                                         *)
LEMMA AtSplitFour ==
  ASSUME NEW x \in Seq(BitPieces), NEW y \in Seq(BitPieces), NEW z \in Seq(BitPieces), NEW u \in Seq(BitPieces),
         NEW b, NEW at, NEW next, At(b, at, x \o y \o z \o u, next)
  PROVE  \E k, m, n \in Nat : At(b, at, x, k) /\ At(b, k, y, m) /\ At(b, m, z, n) /\ At(b, n, u, next)
<1>1. x \o y \in Seq(BitPieces) /\ x \o y \o z \in Seq(BitPieces)
  BY ConcatIs
<1>2. PICK n \in Nat : At(b, at, x \o y \o z, n) /\ At(b, n, u, next)
  BY <1>1, AtSplit
<1>3. PICK m \in Nat : At(b, at, x \o y, m) /\ At(b, m, z, n)
  BY <1>1, <1>2, AtSplit
<1>4. PICK k \in Nat : At(b, at, x, k) /\ At(b, k, y, m)
  BY <1>3, AtSplit
<1> QED BY <1>2, <1>3, <1>4

(* Both decoding tables of a block, and the symbols of a token in them.    *)
TablesRead(lit, lc, dist, dc, litCode, distCode) ==
  /\ Table(litCode, lit, lc, 0 .. 285) /\ Table(distCode, dist, dc, 0 .. 29)
  /\ TablesFit(lit, dist) /\ lit[256] > 0

HasCode(t, lit, dist) ==
  IF is_literal(t) THEN lit[t.distance] > 0
  ELSE lit[length_code(t.length).sym] > 0 /\ dist[distance_code(t.distance).sym] > 0

TokenAt(b, at, t, next, litCode, distCode) ==
  /\ next \in Nat /\ next > at
  /\ NextToken(b, at, litCode, distCode) = [token |-> <<t>>, next |-> next, end |-> FALSE]

LEMMA LiteralReads ==
  ASSUME NEW t \in DeflateTokens, is_literal(t), NEW enc \in Encoders,
         NEW lit, NEW lc, NEW dist, NEW dc, NEW litCode, NEW distCode, TablesRead(lit, lc, dist, dc, litCode, distCode),
         HasCode(t, lit, dist), NEW b, NEW at \in Nat, NEW next, At(b, at, TokenPieces(enc, t, lit, lc, dist, dc), next)
  PROVE  TokenAt(b, at, t, next, litCode, distCode)
<1> DEFINE s == t.distance
<1>1. s \in Nat /\ s < 256 /\ s \in 0 .. 285
  <2>1. s \in Bytes
    BY TokenIs
  <2> QED BY <2>1 DEF Bytes
<1>2. lit[s] > 0 /\ Table(litCode, lit, lc, 0 .. 285)
  BY DEF HasCode, TablesRead
<1>3. At(b, at, <<Huffman(lit, lc, s)>>, next)
  BY DEF TokenPieces
<1>4. t = Literal(s)
  <2>1. t.length = 0
    BY DEF is_literal
  <2>2. t = [length |-> t.length, distance |-> t.distance]
    BY TokenForm, Zenon
  <2> QED BY <2>1, <2>2 DEF Literal
<1> HIDE DEF s
<1>5. /\ Symbol(b, at, litCode) = [sym |-> s, next |-> next]
      /\ next > at /\ next \in Nat
  <2> DEFINE D == 0 .. 285
  <2>1. s \in D /\ Table(litCode, lit, lc, D)
    BY <1>1, <1>2
  <2> HIDE DEF D
  <2> QED BY <1>2, <1>3, <2>1, HuffmanReads, SMTT(30)
<1>6. NextToken(b, at, litCode, distCode) = [token |-> <<Literal(s)>>, next |-> next, end |-> FALSE]
  BY <1>1, <1>5 DEF NextToken
<1> QED BY <1>4, <1>5, <1>6 DEF TokenAt

LEMMA ReferenceReads ==
  ASSUME NEW t \in DeflateTokens, ~ is_literal(t), NEW enc \in Encoders,
         NEW lit, NEW lc, NEW dist, NEW dc, NEW litCode, NEW distCode, TablesRead(lit, lc, dist, dc, litCode, distCode),
         HasCode(t, lit, dist), NEW b, NEW at \in Nat, NEW next, At(b, at, TokenPieces(enc, t, lit, lc, dist, dc), next)
  PROVE  TokenAt(b, at, t, next, litCode, distCode)
<1> DEFINE l == length_code(t.length)
           d == distance_code(t.distance)
           x == <<Huffman(lit, lc, l.sym)>>
           y == Extra(l)
           z == <<Huffman(dist, dc, d.sym)>>
           u == Extra(d)
<1>1. LengthOf(enc, t) = l /\ DistanceOf(enc, t) = d
  BY CodesOfToken
<1>2. LenCoded(l, t.length) /\ DistCoded(d, t.distance)
  <2>1. t.length \in MatchLengths /\ t.distance \in MatchDistances
    BY TokenIs
  <2> QED BY <2>1, LengthReads, DistanceReads
<1>3. TokenPieces(enc, t, lit, lc, dist, dc) = x \o y \o z \o u
  BY <1>1 DEF TokenPieces
<1>4. lit[l.sym] > 0 /\ dist[d.sym] > 0
  BY DEF HasCode
<1> HIDE DEF l, d
<1> DEFINE D == 0 .. 285
           E == 0 .. 29
           L == 257 .. 285
<1>5. CodeFits(l, L) /\ CodeFits(d, E) /\ l.sym \in D /\ d.sym \in E /\ l.sym \in Nat /\ l.sym > 256
  BY <1>2 DEF LenCoded, DistCoded, CodeFits
<1>6. Table(litCode, lit, lc, D) /\ Table(distCode, dist, dc, E)
  BY DEF TablesRead
<1>7. lit[l.sym] \in 0 .. 15 /\ dist[d.sym] \in 0 .. 15
  BY <1>5, SMTT(30) DEF TablesRead, TablesFit
<1> HIDE DEF D, E, L
<1>8. x \in Seq(BitPieces) /\ y \in Seq(BitPieces) /\ z \in Seq(BitPieces) /\ u \in Seq(BitPieces)
  <2> DEFINE p == Huffman(lit, lc, l.sym)
             q == Huffman(dist, dc, d.sym)
  <2>1. p \in BitPieces /\ q \in BitPieces
    BY <1>7, HuffmanFits
  <2>2. y \in Seq(BitPieces) /\ u \in Seq(BitPieces)
    BY <1>5, ExtraFits
  <2> HIDE DEF p, q, y, u
  <2>3. <<p>> \in Seq(BitPieces) /\ <<q>> \in Seq(BitPieces)
    BY <2>1
  <2> QED BY <2>2, <2>3 DEF p, q
<1> HIDE DEF x, y, z, u
<1>9. PICK k \in Nat, m \in Nat, n \in Nat : At(b, at, x, k) /\ At(b, k, y, m) /\ At(b, m, z, n) /\ At(b, n, u, next)
  BY <1>3, <1>8, AtSplitFour
<1>10. Symbol(b, at, litCode) = [sym |-> l.sym, next |-> k] /\ k > at
  BY <1>4, <1>5, <1>6, <1>9, HuffmanReads DEF x
<1>11. Read(b, k, l.extra) = l.value /\ m = k + l.extra
  BY <1>5, <1>9, ExtraReads DEF y
<1>12. Symbol(b, m, distCode) = [sym |-> d.sym, next |-> n] /\ n > m
  BY <1>4, <1>5, <1>6, <1>9, HuffmanReads DEF z
<1>13. Read(b, n, d.extra) = d.value /\ next = n + d.extra /\ next \in Nat
  BY <1>5, <1>9, ExtraReads DEF u
<1>14. l.extra \in Nat /\ d.extra \in Nat
  BY <1>5 DEF CodeFits
<1>15. next > at
  BY <1>9, <1>10, <1>11, <1>12, <1>13, <1>14
<1>16. /\ LenExtra(l.sym) = l.extra /\ LenBase(l.sym) + l.value = t.length
       /\ DistExtra(d.sym) = d.extra /\ DistBase(d.sym) + d.value = t.distance
  BY <1>2 DEF LenCoded, DistCoded
<1>17. NextToken(b, at, litCode, distCode) =
         [token |-> <<[length |-> t.length, distance |-> t.distance]>>, next |-> next, end |-> FALSE]
  <2> DEFINE g == 256
  <2>1. ~ (l.sym < g) /\ l.sym # g
    BY <1>5
  <2> DEFINE A == Symbol(b, at, litCode)
             S == Symbol(b, A.next + LenExtra(A.sym), distCode)
  <2>2. A.sym = l.sym /\ A.next = k
    BY <1>10
  <2>3. A.next + LenExtra(A.sym) = m
    BY <1>11, <1>16, <2>2
  <2>4. S.sym = d.sym /\ S.next = n
    BY <1>12, <2>3
  <2>5. NextToken(b, at, litCode, distCode) =
          IF A.sym < g THEN [token |-> <<Literal(A.sym)>>, next |-> A.next, end |-> FALSE]
          ELSE IF A.sym = g THEN [token |-> <<>>, next |-> A.next, end |-> TRUE]
          ELSE [token |-> <<[length |-> LenBase(A.sym) + Read(b, A.next, LenExtra(A.sym)),
                             distance |-> DistBase(S.sym) + Read(b, S.next, DistExtra(S.sym))]>>,
                next |-> S.next + DistExtra(S.sym), end |-> FALSE]
    BY DEF NextToken
  <2> HIDE DEF g, A, S
  <2>6. ~ (A.sym < g) /\ A.sym # g
    BY <2>1, <2>2
  <2>7. NextToken(b, at, litCode, distCode) =
          [token |-> <<[length |-> LenBase(A.sym) + Read(b, A.next, LenExtra(A.sym)),
                        distance |-> DistBase(S.sym) + Read(b, S.next, DistExtra(S.sym))]>>,
           next |-> S.next + DistExtra(S.sym), end |-> FALSE]
    BY <2>5, <2>6, Zenon
  <2>8. /\ LenBase(A.sym) + Read(b, A.next, LenExtra(A.sym)) = t.length
        /\ DistBase(S.sym) + Read(b, S.next, DistExtra(S.sym)) = t.distance
        /\ S.next + DistExtra(S.sym) = next
    BY <1>11, <1>13, <1>16, <2>2, <2>4
  <2> QED BY <2>7, <2>8
<1>18. t = [length |-> t.length, distance |-> t.distance]
  BY TokenForm, Zenon
<1> QED BY <1>13, <1>15, <1>17, <1>18 DEF TokenAt

LEMMA EndReads ==
  ASSUME NEW lit, NEW lc, NEW dist, NEW dc, NEW litCode, NEW distCode, TablesRead(lit, lc, dist, dc, litCode, distCode),
         NEW b, NEW at \in Nat, NEW next, At(b, at, <<Huffman(lit, lc, 256)>>, next)
  PROVE  /\ NextToken(b, at, litCode, distCode) = [token |-> <<>>, next |-> next, end |-> TRUE]
         /\ next \in Nat /\ next > at
<1> DEFINE s == 256
           D == 0 .. 285
<1>1. s \in D /\ lit[s] > 0 /\ Table(litCode, lit, lc, D) /\ At(b, at, <<Huffman(lit, lc, s)>>, next)
  BY DEF TablesRead
<1>2. ~ (s < 256) /\ s = 256
  OBVIOUS
<1> HIDE DEF s, D
<1>3. Symbol(b, at, litCode) = [sym |-> s, next |-> next] /\ next \in Nat /\ next > at
  BY <1>1, HuffmanReads
<1> QED BY <1>2, <1>3 DEF NextToken
-----------------------------------------------------------------------------
TokenReads(enc, t, lit, lc, dist, dc, litCode, distCode, b) ==
  \A at \in Nat : \A next : At(b, at, TokenPieces(enc, t, lit, lc, dist, dc), next) => TokenAt(b, at, t, next, litCode, distCode)

LEMMA AnyTokenReads ==
  ASSUME NEW t \in DeflateTokens, NEW enc \in Encoders,
         NEW lit, NEW lc, NEW dist, NEW dc, NEW litCode, NEW distCode, TablesRead(lit, lc, dist, dc, litCode, distCode),
         HasCode(t, lit, dist), NEW b
  PROVE  TokenReads(enc, t, lit, lc, dist, dc, litCode, distCode, b)
<1> SUFFICES ASSUME NEW at \in Nat, NEW next, At(b, at, TokenPieces(enc, t, lit, lc, dist, dc), next)
             PROVE  TokenAt(b, at, t, next, litCode, distCode)
  BY DEF TokenReads
<1>1. CASE is_literal(t)
  BY <1>1, LiteralReads
<1>2. CASE ~ is_literal(t)
  BY <1>2, ReferenceReads
<1> QED BY <1>1, <1>2

(* One turn of the decoder.                                                *)
TokenStep(b, before, litCode, distCode) ==
  IF before.end \/ before.next >= b.len THEN before
  ELSE [NextToken(b, before.next, litCode, distCode) EXCEPT
          !.token = before.token \o NextToken(b, before.next, litCode, distCode).token]

Fresh(at) == [token |-> <<>>, next |-> at, end |-> FALSE]

(* A decoder that goes the way of G reads what G ends with.                *)
Goes(G, b, at, litCode, distCode) ==
  /\ G = [k \in 0 .. b.len |-> G[k]] /\ G[0] = Fresh(at)
  /\ \A k \in 1 .. b.len : G[k] = TokenStep(b, G[k - 1], litCode, distCode)

LEMMA TokensGo ==
  ASSUME NEW b, b.len \in Nat, NEW at, NEW litCode, NEW distCode, NEW G, Goes(G, b, at, litCode, distCode)
  PROVE  Tokens(b, at, litCode, distCode) = G[b.len]
<1> DEFINE n == b.len
           Next(v) == TokenStep(b, v, litCode, distCode)
           F == CHOOSE f : f = [k \in 0 .. n |-> IF k = 0 THEN Fresh(at) ELSE Next(f[k - 1])]
<1>1. Tokens(b, at, litCode, distCode) = F[n]
  BY DEF Tokens, TokenStep, Fresh
<1>2. G = [k \in 0 .. n |-> G[k]] /\ G[0] = Fresh(at) /\ \A k \in 1 .. n : G[k] = Next(G[k - 1])
  BY DEF Goes
<1>3. n \in Nat
  OBVIOUS
<1> HIDE DEF n, Next
<1>4. \A k \in 0 .. n : k # 0 => k \in 1 .. n
  BY <1>3
<1>5. \A k \in 0 .. n : G[k] = IF k = 0 THEN Fresh(at) ELSE Next(G[k - 1])
  BY <1>2, <1>4, Zenon
<1>6. G = [k \in 0 .. n |-> IF k = 0 THEN Fresh(at) ELSE Next(G[k - 1])]
  BY <1>2, <1>5
<1>7. F = [k \in 0 .. n |-> IF k = 0 THEN Fresh(at) ELSE Next(F[k - 1])]
  BY <1>6, Zenon
<1> HIDE DEF F
<1>8. 0 \in 0 .. n /\ \A k \in 1 .. n : k \in 0 .. n /\ k # 0
  BY <1>3
<1>9. F[0] = Fresh(at) /\ \A k \in 1 .. n : F[k] = Next(F[k - 1])
  BY <1>7, <1>8, Zenon
<1> DEFINE T == {k \in Nat : k <= n => F[k] = G[k]}
<1>10. 0 \in T
  BY <1>2, <1>9
<1>11. ASSUME NEW k \in Nat, k \in T PROVE k + 1 \in T
  <2> SUFFICES ASSUME k + 1 <= n PROVE F[k + 1] = G[k + 1]
    OBVIOUS
  <2>1. k + 1 \in 1 .. n /\ (k + 1) - 1 = k /\ F[k] = G[k]
    BY <1>3, <1>11
  <2>2. F[k + 1] = Next(F[k]) /\ G[k + 1] = Next(G[k])
    BY <1>2, <1>9, <2>1
  <2> QED BY <2>1, <2>2
<1> HIDE DEF T
<1>12. n \in T
  BY <1>3, <1>10, <1>11, Induction
<1>13. F[n] = G[n]
  BY <1>3, <1>12 DEF T
<1> QED BY <1>1, <1>13 DEF n

LEMMA WithToken ==
  ASSUME NEW x, NEW y, NEW e, NEW v
  PROVE  [[token |-> x, next |-> y, end |-> e] EXCEPT !.token = v] = [token |-> v, next |-> y, end |-> e]
OBVIOUS

(* The tokens are read back, one turn for each and one for the end.        *)
BodyStands(enc, ts, writes, lit, lc, dist, dc, litCode, distCode) ==
  /\ Len(writes) = Len(ts)
  /\ \A k \in 1 .. Len(ts) : writes[k] = TokenPieces(enc, ts[k], lit, lc, dist, dc) /\ HasCode(ts[k], lit, dist)

EndAt(b, at, lit, lc, next) == b.len \in Nat /\ At(b, at, <<Huffman(lit, lc, 256)>>, next) /\ next <= b.len

LEMMA TokensRead ==
  ASSUME NEW ts \in Seq(DeflateTokens), NEW enc \in Encoders, NEW writes \in Seq(Seq(BitPieces)),
         NEW lit, NEW lc, NEW dist, NEW dc, NEW litCode, NEW distCode, TablesRead(lit, lc, dist, dc, litCode, distCode),
         BodyStands(enc, ts, writes, lit, lc, dist, dc, litCode, distCode),
         NEW b, NEW at \in Nat, NEW mid, AtEach(b, at, writes, mid), NEW next, EndAt(b, mid, lit, lc, next)
  PROVE  Tokens(b, at, litCode, distCode).token = ts
<1> DEFINE n == Len(ts)
           top == b.len
<1>0. b.len \in Nat /\ At(b, mid, <<Huffman(lit, lc, 256)>>, next) /\ next <= b.len
  BY DEF EndAt
<1>1. n \in Nat /\ top \in Nat /\ (\A k \in 1 .. n : ts[k] \in DeflateTokens) /\ Len(writes) = n
  BY <1>0 DEF BodyStands
<1>2. PICK g \in [0 .. n -> Nat] : g[0] = at /\ g[n] = mid /\ \A k \in 1 .. n : At(b, g[k - 1], writes[k], g[k])
  BY <1>1 DEF AtEach
<1> HIDE DEF n
<1>3. ASSUME NEW k \in 1 .. n PROVE TokenAt(b, g[k - 1], ts[k], g[k], litCode, distCode)
  <2>1. HasCode(ts[k], lit, dist) /\ writes[k] = TokenPieces(enc, ts[k], lit, lc, dist, dc)
    BY DEF BodyStands, n
  <2>2. TokenReads(enc, ts[k], lit, lc, dist, dc, litCode, distCode, b)
    BY <1>1, <2>1, AnyTokenReads
  <2>3. g[k - 1] \in Nat
    BY <1>1, <1>2
  <2> QED BY <1>2, <2>1, <2>2, <2>3 DEF TokenReads
<1>4. mid \in Nat
  BY <1>1, <1>2
<1>5. /\ NextToken(b, mid, litCode, distCode) = [token |-> <<>>, next |-> next, end |-> TRUE]
      /\ next \in Nat /\ next > mid
  BY <1>0, <1>4, EndReads
(* No token is empty, so there are turns for all of them.                  *)
<1>6. \A k \in 1 .. n : g[k] \in Nat /\ g[k - 1] \in Nat /\ g[k] > g[k - 1]
  <2> TAKE k \in 1 .. n
  <2>1. k \in 0 .. n /\ k - 1 \in 0 .. n
    BY <1>1
  <2> QED BY <1>2, <1>3, <2>1 DEF TokenAt
<1>7. \A k \in 0 .. n : g[k] \in Nat /\ k <= g[k] /\ g[k] <= mid
  <2> DEFINE U == {k \in Nat : k <= n => k <= g[k]}
             V == {k \in Nat : k <= n => g[n - k] <= mid}
  <2>1. 0 \in U /\ 0 \in V
    <3>1. g[0] \in Nat /\ n - 0 = n /\ g[n] <= mid
      BY <1>1, <1>2, <1>4
    <3> QED BY <3>1
  <2>2. ASSUME NEW k \in Nat, k \in U PROVE k + 1 \in U
    <3> SUFFICES ASSUME k + 1 <= n PROVE k + 1 <= g[k + 1]
      OBVIOUS
    <3>1. k + 1 \in 1 .. n /\ (k + 1) - 1 = k /\ k <= g[k]
      BY <1>1, <2>2
    <3> QED BY <1>6, <3>1
  <2>3. ASSUME NEW k \in Nat, k \in V PROVE k + 1 \in V
    <3> SUFFICES ASSUME k + 1 <= n PROVE g[n - (k + 1)] <= mid
      OBVIOUS
    <3>1. n - k \in 1 .. n /\ (n - k) - 1 = n - (k + 1) /\ g[n - k] <= mid
      BY <1>1, <2>3
    <3>2. g[n - k] \in Nat /\ g[(n - k) - 1] \in Nat /\ g[n - k] > g[(n - k) - 1]
      BY <1>6, <3>1
    <3> QED BY <1>4, <3>1, <3>2
  <2> HIDE DEF U, V
  <2>4. Nat \subseteq U /\ Nat \subseteq V
    BY <2>1, <2>2, <2>3, Induction
  <2> SUFFICES ASSUME NEW k \in 0 .. n PROVE g[k] \in Nat /\ k <= g[k] /\ g[k] <= mid
    OBVIOUS
  <2>5. k \in U /\ n - k \in V /\ k <= n /\ n - k <= n /\ n - (n - k) = k
    BY <1>1, <2>4
  <2> QED BY <1>2, <2>5 DEF U, V
<1>8. n + 1 <= top /\ \A k \in 0 .. n : ~ (g[k] >= top)
  BY <1>0, <1>1, <1>4, <1>5, <1>7
<1> DEFINE Leading(k) == [j \in 1 .. k |-> ts[j]]
           G == [k \in 0 .. top |-> IF k <= n THEN [token |-> Leading(k), next |-> g[k], end |-> FALSE]
                                    ELSE [token |-> ts, next |-> next, end |-> TRUE]]
<1>9. Leading(0) = <<>> /\ Leading(n) = ts
  <2>1. Leading(0) = <<>>
    OBVIOUS
  <2>2. ts = [j \in 1 .. n |-> ts[j]]
    BY DEF n
  <2> QED BY <2>1, <2>2
<1>10. \A k \in 1 .. n : Leading(k - 1) \o <<ts[k]>> = Leading(k)
  <2> TAKE k \in 1 .. n
  <2>1. k \in Nat /\ k - 1 \in Nat /\ (k - 1) + 1 = k /\ \A j \in 1 .. k : j \in 1 .. n
    BY <1>1
  <2>2. Leading(k - 1) \in Seq(DeflateTokens) /\ Len(Leading(k - 1)) = k - 1 /\ <<ts[k]>> \in Seq(DeflateTokens)
    BY <1>1, <2>1
  <2> DEFINE x == Leading(k - 1)
             y == <<ts[k]>>
             z == x \o y
  <2>3. y[1] = ts[k] /\ Len(y) = 1 /\ \A j \in 1 .. k - 1 : x[j] = ts[j]
    OBVIOUS
  <2>8. x \in Seq(DeflateTokens) /\ y \in Seq(DeflateTokens) /\ Len(x) = k - 1
    BY <2>2
  <2> HIDE DEF x, y
  <2>4. z \in Seq(DeflateTokens) /\ Len(z) = k /\ (\A j \in 1 .. k - 1 : z[j] = x[j]) /\ z[k] = y[1]
    <3>1. /\ z \in Seq(DeflateTokens) /\ Len(z) = Len(x) + Len(y)
          /\ \A j \in 1 .. Len(x) : z[j] = x[j]
          /\ \A j \in 1 .. Len(y) : z[Len(x) + j] = y[j]
      <4> DEFINE W == DeflateTokens
      <4>1. x \in Seq(W) /\ y \in Seq(W)
        BY <2>8
      <4> HIDE DEF W
      <4>2. /\ x \o y \in Seq(W) /\ Len(x \o y) = Len(x) + Len(y)
            /\ \A j \in 1 .. Len(x) : (x \o y)[j] = x[j]
            /\ \A j \in 1 .. Len(y) : (x \o y)[Len(x) + j] = y[j]
        BY <4>1, ConcatIs
      <4> QED BY <4>2 DEF W, z
    <3>2. Len(x) = k - 1 /\ Len(y) = 1 /\ 1 \in 1 .. 1
      BY <2>3, <2>8
    <3> HIDE DEF z
    <3> QED BY <2>1, <3>1, <3>2
  <2> HIDE DEF z
  <2>5. \A j \in 1 .. k : z[j] = ts[j]
    BY <2>1, <2>3, <2>4
  <2>6. z = [j \in 1 .. k |-> z[j]]
    BY <2>4
  <2>7. z = Leading(k)
    BY <2>5, <2>6
  <2> QED BY <2>7 DEF x, y, z
<1> HIDE DEF Leading
<1>11. G[0] = Fresh(at)
  <2>1. 0 \in 0 .. top /\ 0 <= n
    BY <1>1
  <2> QED BY <1>2, <1>9, <2>1 DEF Fresh
<1>12. ASSUME NEW k \in 1 .. top PROVE G[k] = TokenStep(b, G[k - 1], litCode, distCode)
  <2>1. k \in 0 .. top /\ k - 1 \in 0 .. top
    BY <1>1
  <2>2. CASE k <= n
    <3>1. k \in 1 .. n /\ k - 1 <= n /\ k - 1 \in 0 .. n
      BY <1>1, <2>2
    <3>2. G[k - 1] = [token |-> Leading(k - 1), next |-> g[k - 1], end |-> FALSE]
          /\ G[k] = [token |-> Leading(k), next |-> g[k], end |-> FALSE]
      BY <2>1, <2>2, <3>1
    <3>3. NextToken(b, g[k - 1], litCode, distCode) = [token |-> <<ts[k]>>, next |-> g[k], end |-> FALSE]
      BY <1>3, <3>1 DEF TokenAt
    <3>4. ~ (g[k - 1] >= b.len)
      BY <1>8, <3>1
    <3> DEFINE v == G[k - 1]
               N == NextToken(b, g[k - 1], litCode, distCode)
    <3>5. v.end = FALSE /\ v.next = g[k - 1] /\ v.token = Leading(k - 1)
      BY <3>2
    <3> HIDE DEF G, v
    <3>6. TokenStep(b, v, litCode, distCode) = [N EXCEPT !.token = Leading(k - 1) \o N.token]
      BY <3>4, <3>5 DEF TokenStep
    <3>7. N.token = <<ts[k]>>
      BY <3>3
    <3>8. Leading(k - 1) \o <<ts[k]>> = Leading(k)
      BY <1>10, <3>1
    <3>9. TokenStep(b, v, litCode, distCode) = [N EXCEPT !.token = Leading(k)]
      BY <3>6, <3>7, <3>8
    <3>10. [N EXCEPT !.token = Leading(k)] = [token |-> Leading(k), next |-> g[k], end |-> FALSE]
      <4> DEFINE w == <<ts[k]>>
                 u == g[k]
                 f == Leading(k)
                 e == FALSE
      <4>1. N = [token |-> w, next |-> u, end |-> e]
        BY <3>3
      <4> HIDE DEF N, w, u, f, e
      <4> DEFINE R == [token |-> w, next |-> u, end |-> e]
      <4>2. [R EXCEPT !.token = f] = [token |-> f, next |-> u, end |-> e]
        BY WithToken
      <4>3. N = R
        BY <4>1
      <4> HIDE DEF R
      <4>4. [N EXCEPT !.token = f] = [R EXCEPT !.token = f]
        BY <4>3
      <4> QED BY <4>2, <4>4 DEF f, u, e
    <3> QED BY <3>2, <3>9, <3>10 DEF v
  <2>3. CASE k = n + 1
    <3>1. ~ (k <= n) /\ k - 1 = n /\ n <= n /\ n \in 0 .. n
      BY <1>1, <2>3
    <3>2. G[k - 1] = [token |-> ts, next |-> mid, end |-> FALSE] /\ G[k] = [token |-> ts, next |-> next, end |-> TRUE]
      BY <1>2, <1>9, <2>1, <3>1
    <3>4. ~ (mid >= b.len)
      BY <1>2, <1>8, <3>1
    <3> DEFINE v == G[k - 1]
               N == NextToken(b, mid, litCode, distCode)
    <3>5. v.end = FALSE /\ v.next = mid /\ v.token = ts
      BY <3>2
    <3> HIDE DEF G, v
    <3>6. TokenStep(b, v, litCode, distCode) = [N EXCEPT !.token = ts \o N.token]
      BY <3>4, <3>5 DEF TokenStep
    <3>7. N.token = <<>> /\ ts \o <<>> = ts
      BY <1>5
    <3>9. TokenStep(b, v, litCode, distCode) = [N EXCEPT !.token = ts]
      BY <3>6, <3>7
    <3>10. [N EXCEPT !.token = ts] = [token |-> ts, next |-> next, end |-> TRUE]
      <4>1. N = [token |-> <<>>, next |-> next, end |-> TRUE]
        BY <1>5
      <4> HIDE DEF N
      <4> QED BY <4>1, WithToken, ZenonT(60)
    <3> QED BY <3>2, <3>9, <3>10 DEF v
  <2>4. CASE k > n + 1
    <3>1. ~ (k <= n) /\ ~ (k - 1 <= n)
      BY <1>1, <2>4
    <3>2. G[k - 1] = [token |-> ts, next |-> next, end |-> TRUE] /\ G[k] = [token |-> ts, next |-> next, end |-> TRUE]
      BY <2>1, <3>1
    <3> HIDE DEF G
    <3> QED BY <3>2 DEF TokenStep
  <2> QED BY <1>1, <2>2, <2>3, <2>4
<1>13. G = [k \in 0 .. top |-> G[k]]
  OBVIOUS
<1>14. G[top].token = ts
  <2>1. ~ (top <= n) /\ top \in 0 .. top
    BY <1>1, <1>8
  <2> QED BY <2>1
<1> HIDE DEF G
<1>15. Goes(G, b, at, litCode, distCode)
  BY <1>11, <1>12, <1>13 DEF Goes
<1> QED BY <1>0, <1>14, <1>15, TokensGo
-----------------------------------------------------------------------------
(* The tokens of a body come back, wherever the body stands.               *)
LEMMA BodyReads ==
  ASSUME tokens \in Seq(DeflateTokens), NEW enc \in Encoders,
         NEW lit, NEW lc, NEW dist, NEW dc, NEW litCode, NEW distCode, TablesRead(lit, lc, dist, dc, litCode, distCode),
         \A k \in 1 .. Len(tokens) : HasCode(tokens[k], lit, dist),
         NEW b, b.len \in Nat, NEW at \in Nat, NEW next, At(b, at, Body(enc, lit, lc, dist, dc), next), next <= b.len
  PROVE  Tokens(b, at, litCode, distCode).token = tokens
<1> DEFINE n == Len(tokens)
           P(k) == TokenPieces(enc, tokens[k], lit, lc, dist, dc)
           writes == [k \in 1 .. n |-> P(k)]
           end == Huffman(lit, lc, 256)
<1>1. n \in Nat /\ \A k \in 1 .. n : tokens[k] \in DeflateTokens
  OBVIOUS
<1>2. ASSUME NEW k \in 1 .. n PROVE P(k) \in Seq(BitPieces)
  <2>1. tokens[k] \in DeflateTokens /\ TablesFit(lit, dist)
    BY <1>1 DEF TablesRead
  <2> QED BY <2>1, TokenPiecesFit
<1>3. Body(enc, lit, lc, dist, dc) = Concatenated(writes) \o <<end>>
  BY DEF Body
<1>4. end \in BitPieces
  <2>1. lit[256] \in 0 .. 15
    BY EndFits DEF TablesRead
  <2> QED BY <2>1, HuffmanFits DEF end
<1>5. \A k \in 1 .. n : HasCode(tokens[k], lit, dist)
  OBVIOUS
<1> HIDE DEF P, n
<1>6. writes \in Seq(Seq(BitPieces)) /\ Len(writes) = n /\ \A k \in 1 .. n : writes[k] = P(k)
  BY <1>1, <1>2
<1> HIDE DEF writes
<1>7. BodyStands(enc, tokens, writes, lit, lc, dist, dc, litCode, distCode)
  BY <1>5, <1>6 DEF BodyStands, n, P
<1> HIDE DEF end
<1>8. Concatenated(writes) \in Seq(BitPieces) /\ <<end>> \in Seq(BitPieces)
  <2>1. Concatenated(writes) \in Seq(BitPieces)
    BY <1>6, ConcatenatedIn
  <2> QED BY <1>4, <2>1
<1>9. PICK mid \in Nat : At(b, at, Concatenated(writes), mid) /\ At(b, mid, <<end>>, next)
  BY <1>3, <1>8, AtSplit
<1>10. AtEach(b, at, writes, mid)
  BY <1>6, <1>9, AtConcatenated
<1>11. EndAt(b, mid, lit, lc, next)
  BY <1>9 DEF end, EndAt
<1> QED BY <1>6, <1>7, <1>10, <1>11, TokensRead

SameOn(E, M, K, L, C) == \A s \in E : M[s] = L[s] /\ K[s] = C[s]

LEMMA TableOn ==
  ASSUME NEW code, NEW L, NEW C, NEW D, Table(code, L, C, D), NEW E, E \subseteq D,
         NEW M, NEW K, SameOn(E, M, K, L, C)
  PROVE  Table(code, M, K, E)
<1>1. ASSUME NEW s \in E, M[s] > 0
      PROVE  /\ M[s] \in 1 .. 15 /\ K[s] \in Nat /\ K[s] < Pow[M[s]]
             /\ StretchOf(M, K, s) \in code.entries
  <2>1. s \in D /\ M[s] = L[s] /\ K[s] = C[s] /\ L[s] > 0
    BY <1>1 DEF SameOn
  <2>2. StretchOf(M, K, s) = StretchOf(L, C, s)
    BY <2>1 DEF StretchOf
  <2>3. /\ L[s] \in 1 .. 15 /\ C[s] \in Nat /\ C[s] < Pow[L[s]]
        /\ StretchOf(L, C, s) \in code.entries
    BY <2>1 DEF Table
  <2> QED BY <2>1, <2>2, <2>3
<1> QED BY <1>1 DEF Table

(* Every symbol has a fixed code, and a decoder reads it.                  *)
LEMMA FixedReads ==
  ASSUME NEW lit, lit = [s \in 0 .. 287 |-> fixed_litlen_code(s).bits],
         NEW lc, lc = [s \in 0 .. 287 |-> fixed_litlen_code(s).code],
         NEW dist, dist = [s \in 0 .. 29 |-> fixed_dist_code(s).bits],
         NEW dc, dc = [s \in 0 .. 29 |-> fixed_dist_code(s).code]
  PROVE  /\ TablesRead(lit, lc, dist, dc, FixedLit, FixedDist)
         /\ \A t \in DeflateTokens : HasCode(t, lit, dist)
<1> DEFINE D == 0 .. 287
           E == 0 .. 285
           F == 0 .. 31
           G == 0 .. 29
<1>1. lit = FixedLens /\ lc = FixedCodes
  BY FixedLensAre DEF FixedCodes
<1>2. Table(FixedLit, FixedLens, FixedCodes, D) /\ Table(FixedDist, FixedDistLens, FixedDistCodes, F)
  BY FixedLitTable, FixedDistTable
<1>3. E \subseteq D /\ G \subseteq F
  OBVIOUS
<1>4. \A s \in G : dist[s] = FixedDistLens[s] /\ dc[s] = FixedDistCodes[s] /\ dist[s] = 5
  BY DEF fixed_dist_code, FixedDistLens, FixedDistCodes
<1>5. \A s \in D : lit[s] > 0
  <2> TAKE s \in D
  <2>1. s < 144 \/ (144 <= s /\ s < 256) \/ (256 <= s /\ s < 280) \/ 280 <= s
    OBVIOUS
  <2>2. /\ s < 144 => FixedLens[s] = 8
        /\ 144 <= s /\ s < 256 => FixedLens[s] = 9
        /\ 256 <= s /\ s < 280 => FixedLens[s] = 7
        /\ 280 <= s => FixedLens[s] = 8
    BY FixedIs, ZenonT(60)
  <2>3. FixedLens[s] = 7 \/ FixedLens[s] = 8 \/ FixedLens[s] = 9
    BY <2>1, <2>2, Zenon
  <2>4. lit[s] = FixedLens[s]
    BY <1>1
  <2> DEFINE x == lit[s]
  <2>5. x = 7 \/ x = 8 \/ x = 9
    BY <2>3, <2>4, Zenon
  <2> HIDE DEF x
  <2>6. x > 0
    BY <2>5
  <2> QED BY <2>6 DEF x
<1>6. TablesFit(lit, dist)
  BY FixedTables
<1>7. 256 \in D /\ Bytes \subseteq D
  BY DEF Bytes
<1>8. 257 .. 285 \subseteq D
  OBVIOUS
<1> HIDE DEF D, E, F, G
<1>9. Table(FixedLit, lit, lc, E) /\ Table(FixedDist, dist, dc, G)
  <2>1. Table(FixedLit, lit, lc, E)
    <3>1. SameOn(E, lit, lc, FixedLens, FixedCodes)
      BY <1>1 DEF SameOn
    <3> QED BY <1>2, <1>3, <3>1, TableOn
  <2>2. Table(FixedDist, dist, dc, G)
    <3>1. SameOn(G, dist, dc, FixedDistLens, FixedDistCodes)
      BY <1>4 DEF SameOn
    <3> QED BY <1>2, <1>3, <3>1, TableOn
  <2> QED BY <2>1, <2>2
<1>10. TablesRead(lit, lc, dist, dc, FixedLit, FixedDist)
  <2>1. lit[256] > 0
    BY <1>5, <1>7
  <2> QED BY <1>6, <1>9, <2>1 DEF TablesRead, E, G
<1>11. ASSUME NEW t \in DeflateTokens PROVE HasCode(t, lit, dist)
  <2>1. CASE is_literal(t)
    <3>1. t.distance \in D
      BY <1>7, <2>1, TokenIs
    <3> QED BY <1>5, <2>1, <3>1 DEF HasCode
  <2>2. CASE ~ is_literal(t)
    <3> DEFINE l == length_code(t.length)
               d == distance_code(t.distance)
    <3>1. CodeFits(l, 257 .. 285) /\ CodeFits(d, 0 .. 29)
      <4>1. t.length \in MatchLengths /\ t.distance \in MatchDistances
        BY <2>2, TokenIs
      <4> QED BY <4>1, LengthsAgree, DistancesAgree
    <3> HIDE DEF l, d
    <3>2. l.sym \in D /\ d.sym \in G
      BY <1>8, <3>1 DEF CodeFits, G
    <3>3. lit[l.sym] > 0 /\ dist[d.sym] = 5
      BY <1>4, <1>5, <3>2
    <3> QED BY <2>2, <3>3 DEF HasCode, l, d
  <2> QED BY <2>1, <2>2
<1> QED BY <1>10, <1>11

(* A number at a position is the number the decoder reads.                 *)
PieceAt(b, at, v, n, next) == v \in Nat /\ n \in 0 .. 15 /\ v < Pow[n] /\ At(b, at, <<Piece(v, n)>>, next)

LEMMA PieceReads ==
  ASSUME NEW v, NEW n, NEW b, NEW at \in Nat, NEW next, PieceAt(b, at, v, n, next)
  PROVE  Read(b, at, n) = v /\ next = at + n
<1> DEFINE p == Piece(v, n)
<1>0. v \in Nat /\ n \in 0 .. 15 /\ v < Pow[n]
  BY DEF PieceAt
<1>1. p \in BitPieces /\ p.bits = n /\ p.value = v
  BY <1>0, PieceFits DEF Piece
<1>2. At(b, at, <<p>>, next)
  BY DEF PieceAt
<1> HIDE DEF p
<1>3. Holds(b, at, p.value, p.bits) /\ next = at + p.bits
  BY <1>1, <1>2, AtOne
<1> QED BY <1>0, <1>1, <1>3, ReadIs

(* A fixed block is read back.                                             *)
LEMMA FixedDecodes ==
  ASSUME tokens \in Seq(DeflateTokens), NEW b, b = Written(FixedPieces("slow"), TRUE)
  PROVE  Inflated(b) = tokens
<1> DEFINE lit == [s \in 0 .. 287 |-> fixed_litlen_code(s).bits]
           lc == [s \in 0 .. 287 |-> fixed_litlen_code(s).code]
           dist == [s \in 0 .. 29 |-> fixed_dist_code(s).bits]
           dc == [s \in 0 .. 29 |-> fixed_dist_code(s).code]
           B == Body("slow", lit, lc, dist, dc)
           three == 3
           h == <<Piece(three, three)>>
<1>1. FixedPieces("slow") = h \o B /\ "slow" \in Encoders
  BY DEF FixedPieces, Encoders
<1>2. /\ TablesRead(lit, lc, dist, dc, FixedLit, FixedDist)
      /\ \A t \in DeflateTokens : HasCode(t, lit, dist)
  <2> HIDE DEF B, h
  <2> QED BY FixedReads
<1>3. three = 3 /\ three \in Nat /\ three \in 0 .. 15 /\ three < Pow[three]
  BY SmallPowers
<1> HIDE DEF lit, lc, dist, dc, three
<1>4. B \in Seq(BitPieces)
  BY <1>1, <1>2, BodyFits DEF TablesRead
<1>5. h \in Seq(BitPieces)
  <2>1. Piece(three, three) \in BitPieces
    BY <1>3, PieceFits
  <2> QED BY <2>1
<1> HIDE DEF B, h
<1>6. h \o B \in Seq(BitPieces)
  BY <1>4, <1>5, ConcatIs
<1>7. b.len \in Nat /\ At(b, 0, h \o B, b.len)
  BY <1>1, <1>6, WrittenAt
<1>8. PICK mid \in Nat : At(b, 0, h, mid) /\ At(b, mid, B, b.len)
  BY <1>4, <1>5, <1>7, AtSplit
<1>9. Read(b, 0, three) = three /\ mid = 0 + three
  <2> DEFINE o == 0
  <2>1. o \in Nat /\ PieceAt(b, o, three, three, mid)
    BY <1>3, <1>8 DEF h, PieceAt
  <2> HIDE DEF o
  <2>2. Read(b, o, three) = three /\ mid = o + three
    BY <2>1, PieceReads, ZenonT(60)
  <2> QED BY <2>2 DEF o
<1>10. Read(b, 0, 3) = 3 /\ mid = 3
  <2>1. three = 3 /\ 0 + 3 = 3
    BY <1>3
  <2> QED BY <1>9, <2>1, Zenon
<1>11. Tokens(b, mid, FixedLit, FixedDist).token = tokens
  <2>1. \A k \in 1 .. Len(tokens) : HasCode(tokens[k], lit, dist)
    BY <1>2
  <2>2. b.len <= b.len
    <3> DEFINE e == b.len
    <3>1. e \in Nat
      BY <1>7
    <3> HIDE DEF e
    <3>2. e <= e
      BY <3>1
    <3> QED BY <3>2 DEF e
  <2> QED BY <1>1, <1>2, <1>7, <1>8, <2>1, <2>2, BodyReads, ZenonT(60) DEF B
<1>12. Inflated(b) = Tokens(b, 3, FixedLit, FixedDist).token
  BY <1>10 DEF Inflated
<1> QED BY <1>10, <1>11, <1>12
-----------------------------------------------------------------------------
(* The two bytes of empty_fixed_block: a header and the end of the block.  *)
LEMMA EmptyDecodes ==
  ASSUME NEW b, b = [ones |-> {0, 1}, len |-> 16]
  PROVE  Inflated(b) = <<>>
<1> DEFINE lit == [s \in 0 .. 287 |-> fixed_litlen_code(s).bits]
           lc == [s \in 0 .. 287 |-> fixed_litlen_code(s).code]
           dist == [s \in 0 .. 29 |-> fixed_dist_code(s).bits]
           dc == [s \in 0 .. 29 |-> fixed_dist_code(s).code]
           o == 0
           three == 3
           seven == 7
           e == 256
           last == 10
<1>1. b.ones = {0, 1} /\ b.len = 16 /\ b.len \in Nat
  OBVIOUS
<1>2. TablesRead(lit, lc, dist, dc, FixedLit, FixedDist)
  BY FixedReads
<1>3. lit[e] = seven /\ lc[e] = o
  <2>1. e \in 0 .. 287 /\ 256 <= e /\ e < 280 /\ e - 256 = o
    OBVIOUS
  <2>2. lit = FixedLens /\ lc = FixedCodes
    BY FixedLensAre DEF FixedCodes
  <2> HIDE DEF e, o, lit, lc
  <2>3. FixedLens[e] = 7 /\ FixedCodes[e] = e - 256
    BY <2>1, FixedIs, SMTT(30)
  <2> QED BY <2>1, <2>2, <2>3 DEF seven
<1>4. /\ o = 0 /\ three = 3 /\ seven = 7 /\ last = 10 /\ o \in Nat /\ three \in Nat /\ three \in 0 .. 15 /\ three < Pow[three]
      /\ seven \in 0 .. 15 /\ o < Pow[seven] /\ last <= b.len
  BY <1>1, SmallPowers
<1> HIDE DEF lit, lc, dist, dc, o, three, seven, e, last
<1>5. Read(b, o, three) = three
  <2>1. Holds(b, o, three, three)
    <3> SUFFICES ASSUME NEW j \in 0 .. 2 PROVE o + j \in b.ones <=> BitAt(three, j) = 1
      BY <1>4 DEF Holds
    <3>1. j = 0 \/ j = 1 \/ j = 2
      OBVIOUS
    <3>2. o + j = j
      BY <1>4
    <3> QED BY <1>1, <1>4, <3>1, <3>2, OnesOfThree
  <2> QED BY <1>4, <2>1, ReadIs
<1> DEFINE p == Huffman(lit, lc, e)
<1>6. p \in BitPieces /\ p.bits = 7 /\ p.value = ReverseBits(o, seven)
  <2>1. lit[e] \in 0 .. 15
    BY <1>3, <1>4
  <2>2. p \in BitPieces /\ p.bits = lit[e]
    BY <2>1, HuffmanFits
  <2> QED BY <1>3, <1>4, <2>2 DEF Huffman, Piece
<1>7. \A j \in 0 .. 6 : BitAt(ReverseBits(o, seven), j) = 0
  <2> TAKE j \in 0 .. 6
  <2>1. j \in 0 .. seven - 1 /\ seven - 1 - j \in 0 .. 15
    BY <1>4
  <2>2. BitAt(ReverseBits(o, seven), j) = BitAt(o, seven - 1 - j)
    BY <1>4, <2>1, Reversed
  <2>3. BitAt(0, seven - 1 - j) = 0
    BY <2>1, ZeroBits
  <2> QED BY <1>4, <2>2, <2>3
<1> HIDE DEF p
<1>8. At(b, three, <<p>>, last)
  <2> DEFINE f == [k \in 0 .. 1 |-> IF k = 0 THEN 3 ELSE 10]
             w == <<p>>
  <2>1. f \in [0 .. 1 -> Nat] /\ f[0] = 3 /\ f[1] = 10 /\ Len(w) = 1 /\ w[1] = p
    OBVIOUS
  <2>2. Holds(b, 3, p.value, p.bits)
    <3> SUFFICES ASSUME NEW j \in 0 .. 6 PROVE 3 + j \in b.ones <=> BitAt(p.value, j) = 1
      BY <1>6 DEF Holds
    <3>1. 3 + j \notin b.ones
      BY <1>1
    <3>2. BitAt(p.value, j) = 0
      BY <1>6, <1>7
    <3> QED BY <3>1, <3>2
  <2> HIDE DEF f, w
  <2>3. \A k \in 1 .. 1 : f[k] = f[k - 1] + w[k].bits /\ Holds(b, f[k - 1], w[k].value, w[k].bits)
    <3> SUFFICES ASSUME NEW k \in 1 .. 1
                 PROVE  f[k] = f[k - 1] + w[k].bits /\ Holds(b, f[k - 1], w[k].value, w[k].bits)
      OBVIOUS
    <3>1. k = 1 /\ k - 1 = 0
      OBVIOUS
    <3> QED BY <1>6, <2>1, <2>2, <3>1
  <2>4. f[0] = three /\ f[Len(w)] = last /\ f \in [0 .. Len(w) -> Nat]
    BY <1>4, <2>1
  <2>5. \A k \in 1 .. Len(w) : f[k] = f[k - 1] + w[k].bits /\ Holds(b, f[k - 1], w[k].value, w[k].bits)
    BY <2>1, <2>3
  <2> QED BY <2>4, <2>5 DEF At, w
<1> DEFINE none == <<>>
<1>9. none \in Seq(DeflateTokens) /\ none \in Seq(Seq(BitPieces)) /\ Len(none) = 0
  OBVIOUS
<1>10. AtEach(b, three, none, three)
  <2> DEFINE g == [k \in 0 .. 0 |-> three]
  <2>1. g \in [0 .. 0 -> Nat] /\ g[0] = three /\ 1 .. 0 = {}
    BY <1>4
  <2> HIDE DEF g, none
  <2> QED BY <1>9, <2>1 DEF AtEach
<1> HIDE DEF none
<1>11. BodyStands("slow", none, none, lit, lc, dist, dc, FixedLit, FixedDist) /\ "slow" \in Encoders
  BY <1>9 DEF BodyStands, Encoders
<1>12. EndAt(b, three, lit, lc, last)
  BY <1>1, <1>4, <1>8 DEF p, e, EndAt
<1>13. Tokens(b, three, FixedLit, FixedDist).token = none
  <2>1. three \in Nat /\ none \in Seq(DeflateTokens) /\ none \in Seq(Seq(BitPieces))
    BY <1>4, <1>9
  <2> DEFINE slow == "slow"
             u == FixedLit
             v == FixedDist
  <2>2. slow \in Encoders /\ BodyStands(slow, none, none, lit, lc, dist, dc, u, v) /\ TablesRead(lit, lc, dist, dc, u, v)
    BY <1>2, <1>11
  <2> HIDE DEF slow, u, v
  <2>3. Tokens(b, three, u, v).token = none
    BY <1>10, <1>12, <2>1, <2>2, TokensRead
  <2> QED BY <2>3 DEF u, v
<1>14. Inflated(b) = Tokens(b, three, FixedLit, FixedDist).token
  <2>1. Read(b, 0, 3) = 3
    BY <1>4, <1>5
  <2>2. Inflated(b) = Tokens(b, 3, FixedLit, FixedDist).token
    BY <2>1 DEF Inflated
  <2> QED BY <1>4, <2>2
<1> QED BY <1>13, <1>14 DEF none
-----------------------------------------------------------------------------
(* The writes of an entry of the run-length coded header, and one turn of  *)
(* the decoder over them.                                                  *)
EntryWrites(e, meta, codes) ==
  <<Huffman(meta, codes, e.code)>>
  \o (IF e.extra_bits > 0 THEN <<Piece(e.extra_value, e.extra_bits)>> ELSE <<>>)

LengthStep(b, before, code) ==
  LET a == Symbol(b, before.next, code)
      bits == IF a.sym < 16 THEN 0 ELSE <<2, 3, 7>>[a.sym - 15]
      n0 == IF a.sym < 16 THEN 1 ELSE Read(b, a.next, bits) + <<3, 3, 11>>[a.sym - 15]
      value == IF a.sym < 16 THEN a.sym
               ELSE IF a.sym = 16 THEN before.lens[Len(before.lens)] ELSE 0
  IN  [lens |-> before.lens \o [j \in 1 .. n0 |-> value], next |-> a.next + bits]

EntryAt(b, at, e, meta, codes, next) == At(b, at, EntryWrites(e, meta, codes), next)

EntryRead(code, e, ls, b, at, next) ==
  /\ LengthStep(b, [lens |-> ls, next |-> at], code) = [lens |-> ls \o Meaning(e, ls), next |-> next]
  /\ next \in Nat

LEMMA PlainEntry ==
  ASSUME NEW code, NEW meta, NEW codes, Table(code, meta, codes, 0 .. 18),
         NEW e \in AnyEntry, EntryFits(e), e.code < 16, meta[e.code] > 0,
         NEW ls, NEW b, NEW at \in Nat, NEW next, EntryAt(b, at, e, meta, codes, next)
  PROVE  EntryRead(code, e, ls, b, at, next)
<1> DEFINE s == e.code
           D == 0 .. 18
           h == <<Huffman(meta, codes, s)>>
<1>1. s \in D /\ s < 16 /\ ~ (e.extra_bits > 0) /\ ~ (s = 16) /\ s \in Nat
  BY DEF AnyEntry, EntryFits
<1>2. EntryWrites(e, meta, codes) = h \o <<>>
  BY <1>1 DEF EntryWrites
<1>3. h \o <<>> = h
  OBVIOUS
<1>4. At(b, at, <<Huffman(meta, codes, s)>>, next)
  <2> HIDE DEF h
  <2>1. At(b, at, h, next)
    BY <1>2, <1>3 DEF EntryAt
  <2> QED BY <2>1 DEF h
<1>5. meta[s] > 0 /\ Table(code, meta, codes, D)
  OBVIOUS
<1> HIDE DEF s, D
<1>6. Symbol(b, at, code) = [sym |-> s, next |-> next] /\ next \in Nat
  BY <1>1, <1>4, <1>5, HuffmanReads
<1>7. Meaning(e, ls) = <<s>>
  BY <1>1 DEF Meaning, s
<1>8. <<s>> = [j \in 1 .. 1 |-> s]
  OBVIOUS
<1> DEFINE before == [lens |-> ls, next |-> at]
<1>9. before.lens = ls /\ before.next = at
  OBVIOUS
<1> HIDE DEF before
<1>10. LengthStep(b, before, code) = [lens |-> ls \o [j \in 1 .. 1 |-> s], next |-> next + 0]
  BY <1>1, <1>6, <1>9, SMTT(30) DEF LengthStep
<1>11. next + 0 = next
  BY <1>6
<1> QED BY <1>6, <1>7, <1>8, <1>10, <1>11 DEF before, EntryRead

LEMMA RepeatedEntry ==
  ASSUME NEW code, NEW meta, NEW codes, Table(code, meta, codes, 0 .. 18),
         NEW e \in AnyEntry, EntryFits(e), ~ (e.code < 16), meta[e.code] > 0,
         NEW ls, NEW b, NEW at \in Nat, NEW next, EntryAt(b, at, e, meta, codes, next)
  PROVE  EntryRead(code, e, ls, b, at, next)
<1> DEFINE s == e.code
           n == e.extra_bits
           v == e.extra_value
           D == 0 .. 18
           p == Huffman(meta, codes, s)
           q == Piece(v, n)
<1>1. /\ s \in D /\ ~ (s < 16) /\ n > 0 /\ n \in 0 .. 15 /\ v \in Nat /\ v < Pow[n] /\ s \in {16, 17, 18}
      /\ s = 16 => n = 2
      /\ s = 17 => n = 3
      /\ s = 18 => n = 7
  BY SmallPowers DEF AnyEntry, EntryFits
<1>2. EntryWrites(e, meta, codes) = <<p>> \o <<q>>
  BY <1>1 DEF EntryWrites
<1>3. meta[s] > 0 /\ Table(code, meta, codes, D) /\ meta[s] \in 0 .. 15
  <2>1. meta[s] \in 1 .. 15
    BY <1>1 DEF Table
  <2> QED BY <2>1
<1> HIDE DEF n, v
<1>4. p \in BitPieces /\ q \in BitPieces
  BY <1>1, <1>3, HuffmanFits, PieceFits
<1>5. PICK mid \in Nat : At(b, at, <<p>>, mid) /\ At(b, mid, <<q>>, next)
  <2> HIDE DEF p, q
  <2> DEFINE x == <<p>>
             y == <<q>>
  <2>1. x \in Seq(BitPieces) /\ y \in Seq(BitPieces) /\ At(b, at, x \o y, next)
    BY <1>2, <1>4 DEF EntryAt
  <2> HIDE DEF x, y
  <2>2. \E mid \in Nat : At(b, at, x, mid) /\ At(b, mid, y, next)
    BY <2>1, AtSplit
  <2> QED BY <2>2 DEF x, y
<1>6. Symbol(b, at, code) = [sym |-> s, next |-> mid]
  <2>1. At(b, at, <<Huffman(meta, codes, s)>>, mid)
    BY <1>5
  <2> HIDE DEF s, D, p
  <2> QED BY <1>1, <1>3, <2>1, HuffmanReads
<1>7. Read(b, mid, n) = v /\ next = mid + n /\ next \in Nat
  <2>1. PieceAt(b, mid, v, n, next)
    BY <1>1, <1>5 DEF PieceAt
  <2>2. Read(b, mid, n) = v /\ next = mid + n
    BY <2>1, PieceReads
  <2> QED BY <1>1, <2>2
<1> DEFINE before == [lens |-> ls, next |-> at]
           bits == <<2, 3, 7>>[s - 15]
           least == <<3, 3, 11>>[s - 15]
           value == IF s = 16 THEN ls[Len(ls)] ELSE 0
<1>8. bits = n
  BY <1>1
<1>9. before.lens = ls /\ before.next = at
  OBVIOUS
<1>10. Meaning(e, ls) = [j \in 1 .. v + least |-> value]
  <2>1. CASE s = 16
    <3>1. Meaning(e, ls) = Repeat(ls[Len(ls)], v + 3) /\ least = 3
      BY <2>1 DEF Meaning, v
    <3> QED BY <2>1, <3>1 DEF Repeat
  <2>2. CASE s = 17
    <3>1. Meaning(e, ls) = Repeat(0, v + 3) /\ least = 3
      BY <2>2 DEF Meaning, v
    <3> QED BY <2>2, <3>1 DEF Repeat
  <2>3. CASE s = 18
    <3>1. Meaning(e, ls) = Repeat(0, v + 11) /\ least = 11
      BY <2>3 DEF Meaning, v
    <3> QED BY <2>3, <3>1 DEF Repeat
  <2> QED BY <1>1, <2>1, <2>2, <2>3
<1> HIDE DEF before
<1>11. LengthStep(b, before, code)
         = [lens |-> ls \o [j \in 1 .. Read(b, mid, bits) + least |-> value], next |-> mid + bits]
  <2> DEFINE a == Symbol(b, before.next, code)
  <2>1. a.sym = s /\ a.next = mid
    BY <1>6, <1>9
  <2> HIDE DEF a, s
  <2>2. LengthStep(b, before, code)
         = [lens |-> before.lens \o [j \in 1 .. (IF a.sym < 16 THEN 1 ELSE Read(b, a.next, IF a.sym < 16 THEN 0 ELSE <<2, 3, 7>>[a.sym - 15]) + <<3, 3, 11>>[a.sym - 15])
                      |-> IF a.sym < 16 THEN a.sym ELSE IF a.sym = 16 THEN before.lens[Len(before.lens)] ELSE 0],
            next |-> a.next + (IF a.sym < 16 THEN 0 ELSE <<2, 3, 7>>[a.sym - 15])]
    BY Zenon DEF LengthStep, a
  <2> QED BY <1>1, <1>9, <2>1, <2>2
<1> HIDE DEF bits, least, value
<1>12. LengthStep(b, before, code) = [lens |-> ls \o [j \in 1 .. v + least |-> value], next |-> next]
  BY <1>7, <1>8, <1>11, Zenon
<1> QED BY <1>7, <1>10, <1>12, Zenon DEF before, EntryRead

LEMMA EntryReads ==
  ASSUME NEW code, NEW meta, NEW codes, Table(code, meta, codes, 0 .. 18),
         NEW e \in AnyEntry, EntryFits(e), meta[e.code] > 0,
         NEW ls, NEW b, NEW at \in Nat, NEW next, EntryAt(b, at, e, meta, codes, next)
  PROVE  EntryRead(code, e, ls, b, at, next)
<1>1. CASE e.code < 16
  BY <1>1, PlainEntry, Zenon
<1>2. CASE ~ (e.code < 16)
  BY <1>2, RepeatedEntry, Zenon
<1> QED BY <1>1, <1>2
-----------------------------------------------------------------------------
(* What the entries stand for, one after the other.                        *)
Stages(f, entries, whole) ==
  /\ f \in [0 .. Len(entries) -> Seq(0 .. 15)] /\ f[0] = <<>> /\ f[Len(entries)] = whole
  /\ \A k \in 1 .. Len(entries) : /\ f[k] = f[k - 1] \o Meaning(entries[k], f[k - 1])
                                  /\ Len(f[k - 1]) < Len(f[k])

History(entries, whole) == \E f : Stages(f, entries, whole)

(* One turn of the decoder of the code lengths.                            *)
LengthTurn(b, before, code, n) == IF Len(before.lens) >= n THEN before ELSE LengthStep(b, before, code)

Unread(at) == [lens |-> <<>>, next |-> at]

LengthsGo(G, b, at, code, n) ==
  /\ G = [k \in 0 .. n |-> G[k]] /\ G[0] = Unread(at)
  /\ \A k \in 1 .. n : G[k] = LengthTurn(b, G[k - 1], code, n)

LEMMA LengthsGoOn ==
  ASSUME NEW n \in Nat, NEW b, NEW at, NEW code, NEW G, LengthsGo(G, b, at, code, n)
  PROVE  Lengths(b, at, code, n) = G[n]
<1> DEFINE Next(v) == LengthTurn(b, v, code, n)
           F == CHOOSE f : f = [k \in 0 .. n |-> IF k = 0 THEN Unread(at) ELSE Next(f[k - 1])]
<1>1. Lengths(b, at, code, n) = F[n]
  BY DEF Lengths, LengthTurn, LengthStep, Unread
<1>2. G = [k \in 0 .. n |-> G[k]] /\ G[0] = Unread(at) /\ \A k \in 1 .. n : G[k] = Next(G[k - 1])
  BY DEF LengthsGo
<1> HIDE DEF Next
<1>4. \A k \in 0 .. n : k # 0 => k \in 1 .. n
  OBVIOUS
<1>5. \A k \in 0 .. n : G[k] = IF k = 0 THEN Unread(at) ELSE Next(G[k - 1])
  BY <1>2, <1>4, Zenon
<1>6. G = [k \in 0 .. n |-> IF k = 0 THEN Unread(at) ELSE Next(G[k - 1])]
  BY <1>2, <1>5
<1>7. F = [k \in 0 .. n |-> IF k = 0 THEN Unread(at) ELSE Next(F[k - 1])]
  BY <1>6, Zenon
<1> HIDE DEF F
<1>8. 0 \in 0 .. n /\ \A k \in 1 .. n : k \in 0 .. n /\ k # 0
  OBVIOUS
<1>9. F[0] = Unread(at) /\ \A k \in 1 .. n : F[k] = Next(F[k - 1])
  BY <1>7, <1>8, Zenon
<1> DEFINE T == {k \in Nat : k <= n => F[k] = G[k]}
<1>10. 0 \in T
  BY <1>2, <1>9
<1>11. ASSUME NEW k \in Nat, k \in T PROVE k + 1 \in T
  <2> SUFFICES ASSUME k + 1 <= n PROVE F[k + 1] = G[k + 1]
    OBVIOUS
  <2>1. k + 1 \in 1 .. n /\ (k + 1) - 1 = k /\ F[k] = G[k]
    BY <1>11
  <2>2. F[k + 1] = Next(F[k]) /\ G[k + 1] = Next(G[k])
    BY <1>2, <1>9, <2>1
  <2> QED BY <2>1, <2>2
<1> HIDE DEF T
<1>12. n \in T
  BY <1>10, <1>11, Induction
<1>13. F[n] = G[n]
  BY <1>12 DEF T
<1> QED BY <1>1, <1>13

(* The sequence of entries stands in b.                                    *)
EntriesStand(b, at, entries, meta, codes, next) ==
  \E g \in [0 .. Len(entries) -> Nat] :
    /\ g[0] = at /\ g[Len(entries)] = next
    /\ \A k \in 1 .. Len(entries) : EntryAt(b, g[k - 1], entries[k], meta, codes, g[k])

EntriesCoded(entries, meta) ==
  \A k \in 1 .. Len(entries) : entries[k] \in AnyEntry /\ EntryFits(entries[k]) /\ meta[entries[k].code] > 0

LEMMA LengthsRead ==
  ASSUME NEW code, NEW meta, NEW codes, Table(code, meta, codes, 0 .. 18),
         NEW entries \in Seq(AnyEntry), EntriesCoded(entries, meta),
         NEW whole, History(entries, whole), NEW b, NEW at, NEW next, EntriesStand(b, at, entries, meta, codes, next)
  PROVE  Lengths(b, at, code, Len(whole)) = [lens |-> whole, next |-> next] /\ next \in Nat
<1> DEFINE m == Len(entries)
           n == Len(whole)
<1>1. m \in Nat
  OBVIOUS
<1>2. PICK g \in [0 .. m -> Nat] :
         g[0] = at /\ g[m] = next /\ \A k \in 1 .. m : EntryAt(b, g[k - 1], entries[k], meta, codes, g[k])
  BY DEF EntriesStand
<1>3. PICK f : Stages(f, entries, whole)
  BY DEF History
<1>4. /\ f \in [0 .. m -> Seq(0 .. 15)] /\ f[0] = <<>> /\ f[m] = whole
      /\ \A k \in 1 .. m : f[k] = f[k - 1] \o Meaning(entries[k], f[k - 1]) /\ Len(f[k - 1]) < Len(f[k])
  BY <1>3 DEF Stages
<1>5. \A k \in 1 .. m : entries[k] \in AnyEntry /\ EntryFits(entries[k]) /\ meta[entries[k].code] > 0
  BY DEF EntriesCoded
<1> HIDE DEF m
<1>6. ASSUME NEW k \in 1 .. m
      PROVE  LengthStep(b, [lens |-> f[k - 1], next |-> g[k - 1]], code) = [lens |-> f[k], next |-> g[k]]
  <2> DEFINE x == f[k - 1]
             y == g[k - 1]
             z == g[k]
             e == entries[k]
  <2>1. y \in Nat /\ EntryAt(b, y, e, meta, codes, z) /\ e \in AnyEntry /\ EntryFits(e) /\ meta[e.code] > 0
    BY <1>1, <1>2, <1>5
  <2> HIDE DEF x, y, z, e
  <2>2. EntryRead(code, e, x, b, y, z)
    BY <2>1, EntryReads, Zenon
  <2>3. f[k] = x \o Meaning(e, x)
    BY <1>4 DEF x, e
  <2> QED BY <2>2, <2>3, Zenon DEF EntryRead, x, y, z
<1>7. \A k \in 0 .. m : f[k] \in Seq(0 .. 15) /\ Len(f[k]) \in Nat
  <2> DEFINE W == 0 .. 15
  <2>1. f \in [0 .. m -> Seq(W)]
    BY <1>4
  <2> HIDE DEF W
  <2>2. \A s \in Seq(W) : Len(s) \in Nat
    OBVIOUS
  <2>3. \A k \in 0 .. m : f[k] \in Seq(W)
    BY <2>1
  <2> QED BY <2>2, <2>3 DEF W
<1>8. n \in Nat /\ 0 \in 0 .. m /\ m \in 0 .. m /\ Len(f[m]) = n /\ Len(f[0]) = 0
  <2>1. 0 \in 0 .. m /\ m \in 0 .. m
    BY <1>1
  <2> QED BY <1>4, <1>7, <2>1
<1>9. \A k \in 1 .. m : Len(f[k]) \in Nat /\ Len(f[k - 1]) \in Nat /\ Len(f[k]) > Len(f[k - 1])
  <2> TAKE k \in 1 .. m
  <2>1. k \in 0 .. m /\ k - 1 \in 0 .. m
    BY <1>1
  <2> QED BY <1>4, <1>7, <2>1
<1> HIDE DEF n
<1>10. \A k \in 0 .. m : k <= Len(f[k]) /\ Len(f[k]) <= n /\ (k < m => Len(f[k]) < n)
  <2> DEFINE U == {k \in Nat : k <= m => k <= Len(f[k])}
             V == {k \in Nat : k <= m => Len(f[m - k]) <= n /\ (k > 0 => Len(f[m - k]) < n)}
  <2>1. 0 \in U /\ 0 \in V
    <3>1. m - 0 = m
      BY <1>1
    <3> QED BY <1>8, <3>1
  <2>2. ASSUME NEW k \in Nat, k \in U PROVE k + 1 \in U
    <3> SUFFICES ASSUME k + 1 <= m PROVE k + 1 <= Len(f[k + 1])
      OBVIOUS
    <3>1. k + 1 \in 1 .. m /\ (k + 1) - 1 = k /\ k <= Len(f[k])
      BY <1>1, <2>2
    <3> QED BY <1>9, <3>1
  <2>3. ASSUME NEW k \in Nat, k \in V PROVE k + 1 \in V
    <3> SUFFICES ASSUME k + 1 <= m PROVE Len(f[m - (k + 1)]) < n
      BY <1>1, <1>7, <1>8
    <3>1. m - k \in 1 .. m /\ (m - k) - 1 = m - (k + 1) /\ Len(f[m - k]) <= n
      BY <1>1, <2>3
    <3>2. Len(f[m - k]) \in Nat /\ Len(f[(m - k) - 1]) \in Nat /\ Len(f[m - k]) > Len(f[(m - k) - 1])
      BY <1>9, <3>1
    <3> QED BY <1>8, <3>1, <3>2
  <2> HIDE DEF U, V
  <2>4. Nat \subseteq U /\ Nat \subseteq V
    BY <2>1, <2>2, <2>3, Induction
  <2> SUFFICES ASSUME NEW k \in 0 .. m PROVE k <= Len(f[k]) /\ Len(f[k]) <= n /\ (k < m => Len(f[k]) < n)
    OBVIOUS
  <2>5. k \in U /\ m - k \in V /\ k <= m /\ m - k <= m /\ m - (m - k) = k /\ (k < m => m - k > 0)
    BY <1>1, <2>4
  <2> QED BY <2>5 DEF U, V
<1>11. m <= n /\ ~ (Len(f[m]) < n) /\ \A k \in 0 .. m : k < m => ~ (Len(f[k]) >= n)
  BY <1>7, <1>8, <1>10
<1> DEFINE G == [k \in 0 .. n |-> IF k <= m THEN [lens |-> f[k], next |-> g[k]] ELSE [lens |-> f[m], next |-> g[m]]]
<1>12. G[0] = Unread(at)
  <2>1. 0 \in 0 .. n /\ 0 <= m
    BY <1>1, <1>8
  <2> QED BY <1>2, <1>4, <2>1 DEF Unread
<1>13. ASSUME NEW k \in 1 .. n PROVE G[k] = LengthTurn(b, G[k - 1], code, n)
  <2>1. k \in 0 .. n /\ k - 1 \in 0 .. n
    BY <1>8
  <2>2. CASE k <= m
    <3>1. k \in 1 .. m /\ k - 1 <= m /\ k - 1 \in 0 .. m /\ k - 1 < m
      BY <1>1, <2>2
    <3> DEFINE x == f[k - 1]
               y == g[k - 1]
               v == [lens |-> x, next |-> y]
               w == [lens |-> f[k], next |-> g[k]]
    <3>2. G[k - 1] = v /\ G[k] = w
      BY <2>1, <2>2, <3>1
    <3>3. LengthStep(b, v, code) = w
      BY <1>6, <3>1
    <3>4. v.lens = x /\ ~ (Len(x) >= n)
      BY <1>11, <3>1
    <3> HIDE DEF G, v, w, x, y
    <3> QED BY <3>2, <3>3, <3>4 DEF LengthTurn
  <2>3. CASE ~ (k <= m)
    <3> DEFINE x == f[m]
               v == [lens |-> x, next |-> g[m]]
    <3>1. k - 1 <= m => k - 1 = m
      BY <1>1, <2>3
    <3>2. G[k - 1] = v /\ G[k] = v
      BY <2>1, <2>3, <3>1
    <3>4. v.lens = x /\ Len(x) >= n
      BY <1>8
    <3> HIDE DEF G, v, x
    <3> QED BY <3>2, <3>4 DEF LengthTurn
  <2> QED BY <2>2, <2>3
<1>14. G = [k \in 0 .. n |-> G[k]]
  OBVIOUS
<1>15. G[n] = [lens |-> whole, next |-> next]
  <2>1. n \in 0 .. n /\ (n <= m => n = m)
    BY <1>1, <1>8, <1>11
  <2> QED BY <1>2, <1>4, <2>1
<1> HIDE DEF G
<1>16. LengthsGo(G, b, at, code, n)
  BY <1>12, <1>13, <1>14 DEF LengthsGo
<1>17. Lengths(b, at, code, n) = G[n]
  BY <1>8, <1>16, LengthsGoOn
<1>18. next \in Nat
  BY <1>2, <1>8
<1> QED BY <1>15, <1>17, <1>18 DEF n
-----------------------------------------------------------------------------
(* The distances follow the literals.                                      *)
LEMMA HeaderTail ==
  ASSUME NEW lit, LitPadded(lit), NEW dist, DistPadded(dist)
  PROVE  \A s \in 0 .. NDist(dist) - 1 : HeaderLens(lit, dist)[NLit(lit) + s + 1] = dist[s]
<1> DEFINE n == NLit(lit)
           m == NDist(dist)
           x == [k \in 1 .. n |-> lit[k - 1]]
           y == [k \in 1 .. m |-> dist[k - 1]]
           V == 0 .. 15
<1>1. n \in Nat /\ m \in Nat /\ n <= 286 /\ m <= 30
  <2>1. n \in 257 .. 286 /\ m \in 1 .. 30
    BY HeaderIs
  <2> HIDE DEF n, m
  <2> QED BY <2>1
<1>2. HeaderLens(lit, dist) = x \o y
  BY DEF HeaderLens
<1>3. x \in Seq({lit[k - 1] : k \in 1 .. n}) /\ y \in Seq({dist[k - 1] : k \in 1 .. m}) /\ Len(x) = n /\ Len(y) = m
  <2> HIDE DEF n, m
  <2> DEFINE A == {lit[k - 1] : k \in 1 .. n}
             B == {dist[k - 1] : k \in 1 .. m}
  <2>1. (\A k \in 1 .. n : lit[k - 1] \in A) /\ \A k \in 1 .. m : dist[k - 1] \in B
    OBVIOUS
  <2> HIDE DEF A, B
  <2>2. x \in Seq(A) /\ y \in Seq(B) /\ Len(x) = n /\ Len(y) = m
    BY <1>1, <2>1
  <2> QED BY <2>2 DEF A, B
<1> DEFINE W == {lit[k - 1] : k \in 1 .. n} \cup {dist[k - 1] : k \in 1 .. m}
<1>4. x \in Seq(W) /\ y \in Seq(W)
  <2> DEFINE A == {lit[k - 1] : k \in 1 .. n}
             B == {dist[k - 1] : k \in 1 .. m}
  <2>1. x \in Seq(A) /\ y \in Seq(B)
    BY <1>3
  <2> HIDE DEF A, B, x, y
  <2>2. x \in Seq(A \cup B) /\ y \in Seq(A \cup B)
    BY <2>1
  <2> QED BY <2>2 DEF A, B
<1>5. \A j \in 1 .. m : y[j] = dist[j - 1]
  OBVIOUS
<1> HIDE DEF W, x, y
<1>6. \A j \in 1 .. Len(y) : (x \o y)[Len(x) + j] = y[j]
  BY <1>4, ConcatIs
<1> HIDE DEF n, m
<1> SUFFICES ASSUME NEW s \in 0 .. m - 1 PROVE HeaderLens(lit, dist)[n + s + 1] = dist[s]
  BY DEF n, m
<1>7. s + 1 \in 1 .. m /\ (s + 1) - 1 = s /\ n + s + 1 = n + (s + 1)
  BY <1>1
<1> QED BY <1>2, <1>3, <1>5, <1>6, <1>7

LEMMA StandingReads ==
  ASSUME NEW p \in BitPieces, NEW b, NEW at \in Nat, Holds(b, at, p.value, p.bits)
  PROVE  Read(b, at, p.bits) = p.value
<1> DEFINE v == p.value
           n == p.bits
<1>1. v \in Nat /\ n \in 0 .. 15 /\ v < Pow[n] /\ Holds(b, at, v, n)
  BY DEF BitPieces
<1> HIDE DEF v, n
<1>2. Read(b, at, n) = v
  BY <1>1, ReadIs
<1> QED BY <1>2 DEF v, n

(* The four fields of the header.                                          *)
LEMMA FourRead ==
  ASSUME NEW p \in BitPieces, NEW q \in BitPieces, NEW r \in BitPieces, NEW s \in BitPieces,
         p.bits = 3, q.bits = 5, r.bits = 5, s.bits = 4,
         NEW b, NEW next, At(b, 0, <<p, q, r, s>>, next)
  PROVE  /\ Read(b, 0, 3) = p.value /\ Read(b, 3, 5) = q.value
         /\ Read(b, 8, 5) = r.value /\ Read(b, 13, 4) = s.value /\ next = 17
<1> DEFINE w == <<p, q, r, s>>
<1>1. Len(w) = 4 /\ w[1] = p /\ w[2] = q /\ w[3] = r /\ w[4] = s
  OBVIOUS
<1> HIDE DEF w
<1>2. PICK f \in [0 .. 4 -> Nat] :
         /\ f[0] = 0 /\ f[4] = next
         /\ \A k \in 1 .. 4 : /\ f[k] = f[k - 1] + w[k].bits
                              /\ Holds(b, f[k - 1], w[k].value, w[k].bits)
  BY <1>1 DEF At, w
<1>3. f[1] = 3 /\ Holds(b, 0, p.value, p.bits)
  <2>1. 1 \in 1 .. 4 /\ 1 - 1 = 0
    OBVIOUS
  <2> QED BY <1>1, <1>2, <2>1
<1>4. f[2] = 8 /\ Holds(b, 3, q.value, q.bits)
  <2>1. 2 \in 1 .. 4 /\ 2 - 1 = 1
    OBVIOUS
  <2> QED BY <1>1, <1>2, <1>3, <2>1
<1>5. f[3] = 13 /\ Holds(b, 8, r.value, r.bits)
  <2>1. 3 \in 1 .. 4 /\ 3 - 1 = 2
    OBVIOUS
  <2> QED BY <1>1, <1>2, <1>4, <2>1
<1>6. f[4] = 17 /\ Holds(b, 13, s.value, s.bits)
  <2>1. 4 \in 1 .. 4 /\ 4 - 1 = 3
    OBVIOUS
  <2> QED BY <1>1, <1>2, <1>5, <2>1
<1>7. 0 \in Nat /\ 3 \in Nat /\ 8 \in Nat /\ 13 \in Nat
  OBVIOUS
<1>8. Read(b, 0, p.bits) = p.value
  BY <1>3, <1>7, StandingReads
<1>9. Read(b, 3, q.bits) = q.value
  BY <1>4, <1>7, StandingReads
<1>10. Read(b, 8, r.bits) = r.value
  BY <1>5, <1>7, StandingReads
<1>11. Read(b, 13, s.bits) = s.value
  BY <1>6, <1>7, StandingReads
<1> QED BY <1>2, <1>6, <1>8, <1>9, <1>10, <1>11

(* Pieces of three bits stand three apart.                                 *)
LEMMA ThreeApart ==
  ASSUME NEW s \in Seq(BitPieces), \A k \in 1 .. Len(s) : s[k].bits = 3,
         NEW b, NEW at \in Nat, NEW next, At(b, at, s, next)
  PROVE  /\ next = at + 3 * Len(s)
         /\ \A k \in 1 .. Len(s) : Read(b, at + 3 * (k - 1), 3) = s[k].value
<1> DEFINE n == Len(s)
<1>1. n \in Nat
  OBVIOUS
<1>2. PICK f \in [0 .. n -> Nat] :
         /\ f[0] = at /\ f[n] = next
         /\ \A k \in 1 .. n : /\ f[k] = f[k - 1] + s[k].bits
                              /\ Holds(b, f[k - 1], s[k].value, s[k].bits)
  BY DEF At
<1>3. \A k \in 1 .. n : s[k] \in BitPieces /\ s[k].bits = 3
  OBVIOUS
<1> HIDE DEF n
<1> DEFINE T == {k \in Nat : k <= n => f[k] = at + 3 * k}
<1>4. 0 \in T
  BY <1>2
<1>5. ASSUME NEW k \in Nat, k \in T PROVE k + 1 \in T
  <2> SUFFICES ASSUME k + 1 <= n PROVE f[k + 1] = at + 3 * (k + 1)
    OBVIOUS
  <2>1. k + 1 \in 1 .. n /\ (k + 1) - 1 = k /\ f[k] = at + 3 * k
    BY <1>1, <1>5
  <2>2. f[k + 1] = f[k] + 3
    BY <1>2, <1>3, <2>1
  <2> QED BY <2>1, <2>2
<1> HIDE DEF T
<1>6. \A k \in Nat : k \in T
  BY <1>4, <1>5, Induction
<1>7. next = at + 3 * n
  BY <1>1, <1>2, <1>6 DEF T
<1>8. ASSUME NEW k \in 1 .. n PROVE Read(b, at + 3 * (k - 1), 3) = s[k].value
  <2> DEFINE v == s[k].value
             u == at + 3 * (k - 1)
             three == 3
  <2>1. k - 1 \in Nat /\ k - 1 <= n
    BY <1>1
  <2>2. f[k - 1] = u /\ u \in Nat
    BY <1>6, <2>1 DEF T
  <2>3. v \in Nat /\ s[k].bits = three /\ three \in 0 .. 15 /\ v < Pow[three]
    BY <1>3 DEF BitPieces
  <2> HIDE DEF v, u, three
  <2>4. Holds(b, u, v, three)
    BY <1>2, <2>2, <2>3 DEF v
  <2>5. Read(b, u, three) = v
    BY <2>2, <2>3, <2>4, ReadIs
  <2> QED BY <2>5 DEF v, u, three
<1> QED BY <1>7, <1>8 DEF n

(* The table of the code of lengths, in the order of the header.           *)
MetaRead(b, nmeta) ==
  [s \in 0 .. 18 |->
     IF \E k \in 1 .. nmeta : Order[k] = s
     THEN Read(b, 17 + 3 * ((CHOOSE k \in 1 .. nmeta : Order[k] = s) - 1), 3)
     ELSE 0]

LEMMA MetaTable ==
  ASSUME NEW meta \in [0 .. 18 -> 0 .. 7], NEW b, NEW n, n = HclenCount(meta),
         \A k \in 1 .. n : Read(b, 17 + 3 * (k - 1), 3) = meta[META_ORDER[k]]
  PROVE  MetaRead(b, n) = [s \in 0 .. 18 |-> meta[s]]
<1>1. Order = META_ORDER
  BY DEF Order, META_ORDER
<1>2. n \in 4 .. 19
  BY CountOfMeta
<1>3. ASSUME NEW k \in 1 .. 19, ~ (k <= n) PROVE meta[META_ORDER[k]] = 0
  <2> DEFINE S == {4} \cup {j \in 1 .. 19 : meta[META_ORDER[j]] > 0}
             z == META_ORDER[k]
  <2>1. S \in SUBSET (0 .. 19) /\ S # {} /\ 19 \in Nat
    OBVIOUS
  <2>2. n = LargestOf(S)
    BY DEF HclenCount
  <2>3. z \in 0 .. 18
    BY MetaOrder
  <2>4. meta[z] > 0 => k \in S
    OBVIOUS
  <2> HIDE DEF S, z
  <2>5. \A y \in S : y <= n
    BY <2>1, <2>2, LargestIn
  <2>6. ~ (meta[z] > 0) /\ meta[z] \in 0 .. 7
    BY <1>3, <2>3, <2>4, <2>5
  <2> QED BY <2>6 DEF z
<1>4. \A s \in 0 .. 18 : \E k \in 1 .. 19 : META_ORDER[k] = s
  <2> SUFFICES ASSUME NEW s \in 0 .. 18 PROVE \E k \in 1 .. 19 : META_ORDER[k] = s
    OBVIOUS
  <2> DEFINE a == IF s = 0 THEN 4 ELSE IF s <= 8 THEN (IF s = 8 THEN 5 ELSE 20 - 2 * s)
                  ELSE IF s <= 15 THEN 2 * s - 11 ELSE s - 15
  <2>1. CASE s \in {0, 8, 16, 17, 18}
    BY <2>1 DEF META_ORDER
  <2>2. CASE s \in {1, 2, 3}
    BY <2>2 DEF META_ORDER
  <2>3. CASE s \in {4, 5, 6, 7}
    BY <2>3 DEF META_ORDER
  <2>4. CASE s \in {9, 10, 11, 12}
    BY <2>4 DEF META_ORDER
  <2>5. CASE s \in {13, 14, 15}
    BY <2>5 DEF META_ORDER
  <2>6. s \in {0, 8, 16, 17, 18} \/ s \in {1, 2, 3} \/ s \in {4, 5, 6, 7} \/ s \in {9, 10, 11, 12} \/ s \in {13, 14, 15}
    OBVIOUS
  <2> QED BY <2>1, <2>2, <2>3, <2>4, <2>5, <2>6
<1> DEFINE o == META_ORDER
<1> HIDE DEF o
<1>5. /\ \A k \in 1 .. n : Read(b, 17 + 3 * (k - 1), 3) = meta[o[k]]
      /\ \A k \in 1 .. 19 : ~ (k <= n) => meta[o[k]] = 0
      /\ \A s \in 0 .. 18 : \E k \in 1 .. 19 : o[k] = s
      /\ Order = o
  BY <1>1, <1>3, <1>4 DEF o
<1>6. ASSUME NEW s \in 0 .. 18
      PROVE  (IF \E k \in 1 .. n : o[k] = s
              THEN Read(b, 17 + 3 * ((CHOOSE k \in 1 .. n : o[k] = s) - 1), 3)
              ELSE 0) = meta[s]
  <2> DEFINE c == CHOOSE k \in 1 .. n : o[k] = s
  <2>1. CASE \E k \in 1 .. n : o[k] = s
    <3>1. c \in 1 .. n /\ o[c] = s
      BY <2>1
    <3> HIDE DEF c
    <3>2. Read(b, 17 + 3 * (c - 1), 3) = meta[s]
      BY <1>5, <3>1
    <3> QED BY <2>1, <3>2 DEF c
  <2>2. CASE ~ \E k \in 1 .. n : o[k] = s
    <3>1. PICK k \in 1 .. 19 : o[k] = s
      BY <1>5
    <3>2. ~ (k <= n)
      BY <1>2, <2>2, <3>1
    <3> QED BY <1>5, <2>2, <3>1, <3>2
  <2> QED BY <2>1, <2>2
<1> QED BY <1>5, <1>6 DEF MetaRead
-----------------------------------------------------------------------------
(* What the decoder does with the three counts of a dynamic header.        *)
AfterCounts(b, nlit, ndist, nmeta) ==
  LET meta == Code(MetaRead(b, nmeta))
      header == Lengths(b, 17 + 3 * nmeta, meta, nlit + ndist)
      lit == Code([s \in 0 .. nlit - 1 |-> header.lens[s + 1]])
      dist == Code([s \in 0 .. ndist - 1 |-> header.lens[nlit + s + 1]])
  IN  IF meta.complete /\ Len(header.lens) = nlit + ndist /\ lit.complete /\ dist.complete
      THEN Tokens(b, header.next, lit, dist).token
      ELSE Refused

CountsRead(b, n, m, h) ==
  /\ Read(b, 0, 3) = 5 /\ Read(b, 3, 5) = n - 257 /\ Read(b, 8, 5) = m - 1 /\ Read(b, 13, 4) = h - 4

LEMMA CountsLead ==
  ASSUME NEW b, NEW n \in Nat, NEW m \in Nat, NEW h \in Nat, CountsRead(b, n, m, h)
  PROVE  Inflated(b) = AfterCounts(b, n, m, h)
<1>1. Read(b, 0, 3) = 5 /\ Read(b, 3, 5) + 257 = n /\ Read(b, 8, 5) + 1 = m /\ Read(b, 13, 4) + 4 = h
  BY DEF CountsRead
<1>2. Read(b, 0, 3) \in {3, 5} /\ ~ (Read(b, 0, 3) = 3)
  BY <1>1
<1> DEFINE x == Read(b, 3, 5) + 257
           y == Read(b, 8, 5) + 1
           z == Read(b, 13, 4) + 4
<1>3. Inflated(b) = AfterCounts(b, x, y, z)
  BY <1>2, Zenon DEF Inflated, AfterCounts, MetaRead
<1> HIDE DEF x, y, z
<1>4. x = n /\ y = m /\ z = h
  BY <1>1 DEF x, y, z
<1> QED BY <1>3, <1>4

LengthsAt(b, h, code, n, m, whole, mid) ==
  Lengths(b, 17 + 3 * h, code, n + m) = [lens |-> whole, next |-> mid] /\ Len(whole) = n + m

LEMMA CodesLead ==
  ASSUME NEW b, NEW n \in Nat, NEW m \in Nat, NEW h \in Nat, NEW meta, MetaRead(b, h) = meta, Code(meta).complete,
         NEW whole, NEW mid, LengthsAt(b, h, Code(meta), n, m, whole, mid),
         NEW lit, lit = [s \in 0 .. n - 1 |-> whole[s + 1]], Code(lit).complete,
         NEW dist, dist = [s \in 0 .. m - 1 |-> whole[n + s + 1]], Code(dist).complete
  PROVE  AfterCounts(b, n, m, h) = Tokens(b, mid, Code(lit), Code(dist)).token
<1> DEFINE header == Lengths(b, 17 + 3 * h, Code(meta), n + m)
<1>1. header = [lens |-> whole, next |-> mid] /\ Len(whole) = n + m
  BY DEF LengthsAt
<1>2. header.lens = whole /\ header.next = mid
  BY <1>1
<1>3. AfterCounts(b, n, m, h)
        = IF /\ Code(meta).complete /\ Len(header.lens) = n + m
             /\ Code([s \in 0 .. n - 1 |-> header.lens[s + 1]]).complete
             /\ Code([s \in 0 .. m - 1 |-> header.lens[n + s + 1]]).complete
          THEN Tokens(b, header.next, Code([s \in 0 .. n - 1 |-> header.lens[s + 1]]),
                      Code([s \in 0 .. m - 1 |-> header.lens[n + s + 1]])).token
          ELSE Refused
  BY Zenon DEF AfterCounts
<1> HIDE DEF header
<1>4. lit = [s \in 0 .. n - 1 |-> header.lens[s + 1]] /\ dist = [s \in 0 .. m - 1 |-> header.lens[n + s + 1]]
  BY <1>2
<1>5. Len(header.lens) = n + m
  BY <1>1, <1>2
<1>6. AfterCounts(b, n, m, h)
        = IF Code(meta).complete /\ Len(header.lens) = n + m /\ Code(lit).complete /\ Code(dist).complete
          THEN Tokens(b, header.next, Code(lit), Code(dist)).token ELSE Refused
  BY <1>3, <1>4, Zenon
<1>7. AfterCounts(b, n, m, h) = Tokens(b, header.next, Code(lit), Code(dist)).token
  BY <1>5, <1>6, Zenon
<1> QED BY <1>2, <1>7

(* What a dynamic header writes, field by field.                           *)
HeaderFields == <<Piece(5, 3), Piece(NLit(built.litlen) - 257, 5), Piece(NDist(built.dist) - 1, 5),
                  Piece(HclenCount(built.meta) - 4, 4)>>
HeaderMeta == [k \in 1 .. HclenCount(built.meta) |-> Piece(built.meta[META_ORDER[k]], 3)]
HeaderEntries == [k \in 1 .. Len(rle) |-> EntryWrites(rle[k], built.meta, CanonicalCodes(built.meta))]

LEMMA HeaderParts == HeaderPieces = HeaderFields \o HeaderMeta \o Concatenated(HeaderEntries)
BY DEF HeaderPieces, HeaderFields, HeaderMeta, HeaderEntries, EntryWrites

LEMMA FieldsFit ==
  ASSUME Ready
  PROVE  /\ Piece(5, 3) \in BitPieces /\ Piece(NLit(built.litlen) - 257, 5) \in BitPieces
         /\ Piece(NDist(built.dist) - 1, 5) \in BitPieces /\ Piece(HclenCount(built.meta) - 4, 4) \in BitPieces
<1> DEFINE n == NLit(built.litlen)
           m == NDist(built.dist)
           h == HclenCount(built.meta)
<1>1. n \in 257 .. 286 /\ m \in 1 .. 30 /\ h \in 4 .. 19
  BY HeaderIs, CountOfMeta DEF Ready
<1> HIDE DEF n, m, h
<1>2. n - 257 \in Nat /\ n - 257 < 32 /\ m - 1 \in Nat /\ m - 1 < 32 /\ h - 4 \in Nat /\ h - 4 < 16
  BY <1>1
<1>3. Pow[3] = 8 /\ Pow[4] = 16 /\ Pow[5] = 32
  BY PowersTo15 DEF SixteenPowers
<1>4. Piece(5, 3) \in BitPieces
  BY <1>3, PieceFits
<1> DEFINE five == 5
           four == 4
           x == n - 257
           y == m - 1
           z == h - 4
<1>5. x \in Nat /\ x < Pow[five] /\ y \in Nat /\ y < Pow[five] /\ z \in Nat /\ z < Pow[four] /\ five \in 0 .. 15 /\ four \in 0 .. 15
  BY <1>2, <1>3
<1> HIDE DEF five, four, x, y, z
<1>6. Piece(x, five) \in BitPieces /\ Piece(y, five) \in BitPieces /\ Piece(z, four) \in BitPieces
  BY <1>5, PieceFits
<1> QED BY <1>4, <1>6 DEF x, y, z, n, m, h, five, four

LEMMA MetaFits ==
  ASSUME Ready
  PROVE  /\ HeaderMeta \in Seq(BitPieces) /\ Len(HeaderMeta) = HclenCount(built.meta)
         /\ built.meta \in [0 .. 18 -> 0 .. 7]
         /\ \A k \in 1 .. Len(HeaderMeta) : /\ HeaderMeta[k].bits = 3
                                            /\ HeaderMeta[k].value = built.meta[META_ORDER[k]]
<1> DEFINE meta == built.meta
           h == HclenCount(meta)
           W == 0 .. MetaCap
<1>1. h \in 4 .. 19
  BY CountOfMeta
<1>2. meta \in [0 .. 18 -> W]
  BY DEF Ready
<1>3. W \subseteq 0 .. 7
  BY DeflateAssumption
<1> HIDE DEF W, meta, h
<1>4. meta \in [0 .. 18 -> 0 .. 7]
  BY <1>2, <1>3
<1>5. HeaderMeta = [k \in 1 .. h |-> Piece(meta[META_ORDER[k]], 3)]
  BY DEF HeaderMeta, h, meta
<1>6. ASSUME NEW k \in 1 .. h
      PROVE  Piece(meta[META_ORDER[k]], 3) \in BitPieces
  <2> DEFINE o == META_ORDER[k]
             v == meta[o]
             three == 3
  <2>1. o \in 0 .. 18
    BY <1>1, MetaOrder
  <2> HIDE DEF o
  <2>2. v \in 0 .. 7
    BY <1>4, <2>1
  <2> HIDE DEF v
  <2>3. v \in Nat /\ three \in 0 .. 15 /\ v < Pow[three]
    BY <2>2, SmallPowers
  <2> HIDE DEF three
  <2>4. Piece(v, three) \in BitPieces
    BY <2>3, PieceFits
  <2> QED BY <2>4 DEF v, o, three
<1>7. h \in Nat
  BY <1>1
<1>8. HeaderMeta \in Seq(BitPieces) /\ Len(HeaderMeta) = h
  <2> DEFINE P(k) == Piece(meta[META_ORDER[k]], 3)
  <2>1. HeaderMeta = [k \in 1 .. h |-> P(k)] /\ \A k \in 1 .. h : P(k) \in BitPieces
    BY <1>5, <1>6
  <2> HIDE DEF P
  <2> QED BY <1>7, <2>1
<1>9. \A k \in 1 .. h : HeaderMeta[k].bits = 3 /\ HeaderMeta[k].value = meta[META_ORDER[k]]
  BY <1>5 DEF Piece
<1> QED BY <1>4, <1>8, <1>9 DEF meta, h
-----------------------------------------------------------------------------
Writes(s, entries, meta, codes) == s = [k \in 1 .. Len(entries) |-> EntryWrites(entries[k], meta, codes)]

LEMMA EntryFitsMeta ==
  ASSUME NEW entries \in Seq(AnyEntry), NEW meta, NEW codes, EntriesCoded(entries, meta),
         \A c \in 0 .. 18 : meta[c] \in 0 .. 15,
         NEW s, Writes(s, entries, meta, codes)
  PROVE  s \in Seq(Seq(BitPieces)) /\ Len(s) = Len(entries)
<1> DEFINE n == Len(entries)
           P(k) == EntryWrites(entries[k], meta, codes)
<1>1. ASSUME NEW k \in 1 .. n PROVE P(k) \in Seq(BitPieces)
  <2> DEFINE e == entries[k]
  <2>1. e \in AnyEntry /\ EntryFits(e)
    BY DEF EntriesCoded
  <2> HIDE DEF e
  <2>2. EntryWrites(e, meta, codes) \in Seq(BitPieces)
    BY <2>1, EntryPieceFits DEF EntryWrites
  <2> QED BY <2>2 DEF e
<1>2. n \in Nat /\ s = [k \in 1 .. n |-> P(k)]
  BY DEF Writes
<1> HIDE DEF P, n
<1> DEFINE W == Seq(BitPieces)
<1>3. \A k \in 1 .. n : P(k) \in W
  BY <1>1
<1> HIDE DEF W
<1>4. s \in Seq(W) /\ Len(s) = n
  BY <1>2, <1>3
<1> QED BY <1>4 DEF W, n

(* The entries stand where the decoder looks for them.                     *)
LEMMA EntriesFound ==
  ASSUME NEW entries \in Seq(AnyEntry), NEW meta, NEW codes, EntriesCoded(entries, meta),
         \A c \in 0 .. 18 : meta[c] \in 0 .. 15,
         NEW s, Writes(s, entries, meta, codes),
         NEW b, NEW at, NEW next, At(b, at, Concatenated(s), next)
  PROVE  EntriesStand(b, at, entries, meta, codes, next)
<1> DEFINE n == Len(entries)
<1>1. s \in Seq(Seq(BitPieces)) /\ Len(s) = n
  BY EntryFitsMeta
<1>2. AtEach(b, at, s, next)
  BY <1>1, AtConcatenated
<1>3. PICK g \in [0 .. n -> Nat] : g[0] = at /\ g[n] = next /\ \A k \in 1 .. n : At(b, g[k - 1], s[k], g[k])
  BY <1>1, <1>2 DEF AtEach
<1>4. ASSUME NEW k \in 1 .. n PROVE EntryAt(b, g[k - 1], entries[k], meta, codes, g[k])
  <2>1. s[k] = EntryWrites(entries[k], meta, codes)
    BY DEF Writes
  <2>2. At(b, g[k - 1], s[k], g[k])
    BY <1>3
  <2> QED BY <2>1, <2>2 DEF EntryAt
<1> QED BY <1>3, <1>4 DEF EntriesStand

(* What has been checked of a finished header: the lengths of its codes.   *)
Described ==
  /\ Ready /\ EntriesCoded(rle, built.meta)
  /\ History(rle, HeaderLens(built.litlen, built.dist))

HeaderAt(b, at) ==
  /\ CountsRead(b, NLit(built.litlen), NDist(built.dist), HclenCount(built.meta))
  /\ MetaRead(b, HclenCount(built.meta)) = [s \in 0 .. 18 |-> built.meta[s]]
  /\ Code([s \in 0 .. 18 |-> built.meta[s]]).complete
  /\ LengthsAt(b, HclenCount(built.meta), Code([s \in 0 .. 18 |-> built.meta[s]]),
               NLit(built.litlen), NDist(built.dist), HeaderLens(built.litlen, built.dist), at)

LEMMA MetaCodes ==
  ASSUME Ready, NEW part, part = [s \in 0 .. 18 |-> built.meta[s]]
  PROVE  Code(part).complete /\ Table(Code(part), built.meta, CanonicalCodes(built.meta), 0 .. 18)
<1> DEFINE n == 18
           m == 19
           meta == built.meta
<1>1. PICK cap \in 1 .. 15 : cap = MetaCap
  BY DeflateAssumption
<1>2. meta \in [0 .. n -> 0 .. cap] /\ Slack(meta, cap) = 0
  BY <1>1 DEF Ready
<1>3. /\ n \in Nat /\ m \in 1 .. n + 1 /\ part = [s \in 0 .. m - 1 |-> meta[s]]
      /\ \A s \in 0 .. n : ~ (s >= m)
  OBVIOUS
<1> HIDE DEF n, m, meta
<1>4. Trimmed(part, meta, n, m, cap)
  BY <1>2, <1>3 DEF Trimmed
<1>5. TableOf(part, meta, n)
  BY <1>4, CompleteTable
<1> QED BY <1>5 DEF TableOf, n, meta

LEMMA HeaderReads ==
  ASSUME Described, NEW b, NEW at, At(b, 0, HeaderPieces, at)
  PROVE  HeaderAt(b, at) /\ at \in Nat
<1> DEFINE n == NLit(built.litlen)
           m == NDist(built.dist)
           meta == built.meta
           h == HclenCount(meta)
           codes == CanonicalCodes(meta)
           whole == HeaderLens(built.litlen, built.dist)
           part == [s \in 0 .. 18 |-> meta[s]]
           o == 0
<1>1. Ready /\ EntriesCoded(rle, meta) /\ History(rle, whole) /\ rle \in Seq(AnyEntry)
  BY DEF Described, Ready
<1>2. h \in Nat /\ Len(whole) = n + m
  <2>1. h \in 4 .. 19
    BY CountOfMeta
  <2> HIDE DEF h
  <2>2. Len(whole) = n + m
    BY <1>1, HeaderIs DEF Ready
  <2> QED BY <2>1, <2>2
<1>3. Code(part).complete /\ Table(Code(part), meta, codes, 0 .. 18)
  BY <1>1, MetaCodes
<1>4. /\ HeaderMeta \in Seq(BitPieces) /\ Len(HeaderMeta) = h /\ meta \in [0 .. 18 -> 0 .. 7]
      /\ \A k \in 1 .. Len(HeaderMeta) : HeaderMeta[k].bits = 3 /\ HeaderMeta[k].value = meta[META_ORDER[k]]
  BY <1>1, MetaFits
<1>5. \A c \in 0 .. 18 : meta[c] \in 0 .. 15
  <2> HIDE DEF meta
  <2> QED BY <1>4, SMTT(30)
<1>6. HeaderFields \in Seq(BitPieces) /\ HeaderEntries \in Seq(Seq(BitPieces)) /\ Concatenated(HeaderEntries) \in Seq(BitPieces)
  <2>1. HeaderFields \in Seq(BitPieces)
    BY <1>1, FieldsFit DEF HeaderFields
  <2>2. Writes(HeaderEntries, rle, meta, codes)
    BY DEF HeaderEntries, Writes
  <2> HIDE DEF meta, codes
  <2>3. HeaderEntries \in Seq(Seq(BitPieces))
    BY <1>1, <1>5, <2>2, EntryFitsMeta
  <2> QED BY <2>1, <2>3, ConcatenatedIn
<1>7. PICK k1, k2 \in Nat : /\ At(b, o, HeaderFields, k1) /\ At(b, k1, HeaderMeta, k2)
                            /\ At(b, k2, Concatenated(HeaderEntries), at)
  <2> DEFINE x == HeaderFields
             y == HeaderMeta
             z == Concatenated(HeaderEntries)
  <2>1. x \in Seq(BitPieces) /\ y \in Seq(BitPieces) /\ z \in Seq(BitPieces)
    BY <1>4, <1>6
  <2>2. At(b, o, x \o y \o z, at)
    BY HeaderParts
  <2> HIDE DEF x, y, z, o
  <2>3. x \o y \in Seq(BitPieces)
    BY <2>1, ConcatIs
  <2>4. PICK k2 \in Nat : At(b, o, x \o y, k2) /\ At(b, k2, z, at)
    BY <2>1, <2>2, <2>3, AtSplit
  <2>5. PICK k1 \in Nat : At(b, o, x, k1) /\ At(b, k1, y, k2)
    BY <2>1, <2>4, AtSplit
  <2> QED BY <2>4, <2>5 DEF x, y, z
<1>8. CountsRead(b, n, m, h) /\ k1 = 17
  <2> DEFINE p == Piece(5, 3)
             q == Piece(n - 257, 5)
             r == Piece(m - 1, 5)
             s == Piece(h - 4, 4)
  <2>1. p \in BitPieces /\ q \in BitPieces /\ r \in BitPieces /\ s \in BitPieces
    BY <1>1, FieldsFit
  <2>2. /\ p.bits = 3 /\ q.bits = 5 /\ r.bits = 5 /\ s.bits = 4
        /\ p.value = 5 /\ q.value = n - 257 /\ r.value = m - 1 /\ s.value = h - 4
    BY DEF Piece
  <2>3. At(b, 0, <<p, q, r, s>>, k1)
    BY <1>7 DEF HeaderFields
  <2> HIDE DEF p, q, r, s, n, m, h
  <2>4. /\ Read(b, 0, 3) = p.value /\ Read(b, 3, 5) = q.value
        /\ Read(b, 8, 5) = r.value /\ Read(b, 13, 4) = s.value /\ k1 = 17
    BY <2>1, <2>2, <2>3, FourRead
  <2> QED BY <2>2, <2>4 DEF CountsRead
<1> HIDE DEF n, m, meta, codes, whole, part, o
<1>9. k2 = k1 + 3 * h /\ \A k \in 1 .. h : Read(b, k1 + 3 * (k - 1), 3) = meta[META_ORDER[k]]
  <2>1. \A k \in 1 .. Len(HeaderMeta) : HeaderMeta[k].bits = 3
    BY <1>4
  <2>2. /\ k2 = k1 + 3 * Len(HeaderMeta)
        /\ \A k \in 1 .. Len(HeaderMeta) : Read(b, k1 + 3 * (k - 1), 3) = HeaderMeta[k].value
    BY <1>4, <1>7, <2>1, ThreeApart, ZenonT(60)
  <2> QED BY <1>4, <2>2
<1>10. MetaRead(b, h) = part
  <2>1. \A k \in 1 .. h : Read(b, 17 + 3 * (k - 1), 3) = meta[META_ORDER[k]]
    BY <1>8, <1>9
  <2> QED BY <1>4, <2>1, MetaTable, ZenonT(60) DEF part
<1>11. LengthsAt(b, h, Code(part), n, m, whole, at) /\ at \in Nat
  <2> DEFINE c == Code(part)
  <2>1. EntriesStand(b, k2, rle, meta, codes, at)
    <3>1. Writes(HeaderEntries, rle, meta, codes)
      BY DEF HeaderEntries, Writes, meta, codes
    <3> DEFINE z == HeaderEntries
    <3>2. At(b, k2, Concatenated(z), at)
      BY <1>7
    <3> HIDE DEF z, h
    <3>3. Writes(z, rle, meta, codes)
      BY <3>1 DEF z
    <3> QED BY <1>1, <1>5, <3>2, <3>3, EntriesFound
  <2>2. Table(c, meta, codes, 0 .. 18)
    BY <1>3
  <2> HIDE DEF c, h
  <2>3. Lengths(b, k2, c, Len(whole)) = [lens |-> whole, next |-> at] /\ at \in Nat
    BY <1>1, <2>1, <2>2, LengthsRead
  <2>4. k2 = 17 + 3 * h
    BY <1>8, <1>9
  <2> QED BY <1>2, <2>3, <2>4 DEF LengthsAt, c
<1> QED BY <1>3, <1>8, <1>10, <1>11 DEF HeaderAt, n, m, h, meta, whole, part
-----------------------------------------------------------------------------
(* The codes of a described block: the decoder's tables are the encoder's. *)
LEMMA DescribedTables ==
  ASSUME Ready,
         NEW lit, lit = [s \in 0 .. NLit(built.litlen) - 1 |-> HeaderLens(built.litlen, built.dist)[s + 1]],
         NEW dist, dist = [s \in 0 .. NDist(built.dist) - 1
                             |-> HeaderLens(built.litlen, built.dist)[NLit(built.litlen) + s + 1]]
  PROVE  /\ Code(lit).complete /\ Code(dist).complete
         /\ TablesRead(built.litlen, CanonicalCodes(built.litlen), built.dist, CanonicalCodes(built.dist),
                       Code(lit), Code(dist))
<1> DEFINE l == built.litlen
           d == built.dist
           n == NLit(l)
           m == NDist(d)
           whole == HeaderLens(l, d)
<1>1. LitPadded(l) /\ DistPadded(d)
  BY DEF Ready
<1>2. /\ n \in 257 .. 286 /\ m \in 1 .. 30
      /\ \A s \in 0 .. 285 : s >= n => l[s] = 0
      /\ \A s \in 0 .. 29 : s >= m => d[s] = 0
      /\ \A s \in 0 .. n - 1 : whole[s + 1] = l[s]
      /\ \A s \in 0 .. m - 1 : whole[n + s + 1] = d[s]
  <2> HIDE DEF l, d
  <2> QED BY <1>1, HeaderIs, HeaderTail
<1>3. PICK cap \in 1 .. 15 : cap = LitCap
  BY DeflateAssumption
<1>4. l \in [0 .. 285 -> 0 .. cap] /\ d \in [0 .. 29 -> 0 .. cap] /\ Slack(l, cap) = 0 /\ Slack(d, cap) = 0 /\ l[256] > 0
  BY <1>1, <1>3 DEF LitPadded, DistPadded
<1>5. TablesFit(l, d)
  BY ReadyTables
<1>6. lit = [s \in 0 .. n - 1 |-> whole[s + 1]] /\ dist = [s \in 0 .. m - 1 |-> whole[n + s + 1]]
  OBVIOUS
<1> HIDE DEF l, d, n, m, whole
<1>7. lit = [s \in 0 .. n - 1 |-> l[s]]
  BY <1>2, <1>6
<1>8. dist = [s \in 0 .. m - 1 |-> d[s]]
  BY <1>2, <1>6
<1>9. Code(lit).complete /\ Table(Code(lit), l, CanonicalCodes(l), 0 .. 285)
  <2> DEFINE top == 285
  <2>1. top \in Nat /\ n \in 1 .. top + 1 /\ l \in [0 .. top -> 0 .. cap] /\ \A s \in 0 .. top : s >= n => l[s] = 0
    <3>1. top \in Nat /\ n \in 1 .. top + 1
      BY <1>2
    <3>2. l \in [0 .. top -> 0 .. cap] /\ \A s \in 0 .. top : s >= n => l[s] = 0
      BY <1>2, <1>4, Zenon
    <3> QED BY <3>1, <3>2
  <2>2. Trimmed(lit, l, top, n, cap)
    BY <1>4, <1>7, <2>1 DEF Trimmed
  <2> HIDE DEF top
  <2>3. TableOf(lit, l, top)
    BY <2>2, CompleteTable
  <2> QED BY <2>3 DEF top, TableOf
<1>10. Code(dist).complete /\ Table(Code(dist), d, CanonicalCodes(d), 0 .. 29)
  <2> DEFINE top == 29
  <2>1. top \in Nat /\ m \in 1 .. top + 1 /\ d \in [0 .. top -> 0 .. cap] /\ \A s \in 0 .. top : s >= m => d[s] = 0
    <3>1. top \in Nat /\ m \in 1 .. top + 1
      BY <1>2
    <3>2. d \in [0 .. top -> 0 .. cap] /\ \A s \in 0 .. top : s >= m => d[s] = 0
      BY <1>2, <1>4, Zenon
    <3> QED BY <3>1, <3>2
  <2>2. Trimmed(dist, d, top, m, cap)
    BY <1>4, <1>8, <2>1 DEF Trimmed
  <2> HIDE DEF top
  <2>3. TableOf(dist, d, top)
    BY <2>2, CompleteTable
  <2> QED BY <2>3 DEF top, TableOf
<1> QED BY <1>4, <1>5, <1>9, <1>10 DEF TablesRead, l, d

TokensCoded == \A k \in 1 .. Len(tokens) : HasCode(tokens[k], built.litlen, built.dist)

(* A dynamic block is read back.                                           *)
LEMMA DynamicDecodes ==
  ASSUME tokens \in Seq(DeflateTokens), NEW enc \in Encoders, Described, TokensCoded,
         NEW b, b = DynamicBits(enc)
  PROVE  Inflated(b) = tokens
<1> DEFINE l == built.litlen
           d == built.dist
           lc == CanonicalCodes(l)
           dc == CanonicalCodes(d)
           H == HeaderPieces
           B == Body(enc, l, lc, d, dc)
           n == NLit(l)
           m == NDist(d)
           h == HclenCount(built.meta)
           whole == HeaderLens(l, d)
           lit == [s \in 0 .. n - 1 |-> whole[s + 1]]
           dist == [s \in 0 .. m - 1 |-> whole[n + s + 1]]
           meta == [s \in 0 .. 18 |-> built.meta[s]]
           o == 0
<1>1. Ready
  BY DEF Described
<1>2. b = Written(H \o B, Masked(enc))
  BY DEF DynamicBits
<1>3. /\ Code(lit).complete /\ Code(dist).complete
      /\ TablesRead(l, lc, d, dc, Code(lit), Code(dist))
  BY <1>1, DescribedTables
<1>4. H \in Seq(BitPieces) /\ B \in Seq(BitPieces)
  <2>1. TablesFit(l, d)
    BY <1>1, ReadyTables
  <2> HIDE DEF l, d, lc, dc, H, B
  <2>2. B \in Seq(BitPieces)
    BY <2>1, BodyFits DEF B
  <2>3. H \in Seq(BitPieces)
    BY <1>1, HeaderFits DEF H
  <2> QED BY <2>2, <2>3
<1>5. PICK mid \in Nat : At(b, o, H, mid) /\ At(b, mid, B, b.len) /\ b.len \in Nat
  <2> DEFINE p == H \o B
             k == Masked(enc)
  <2> HIDE DEF H, B
  <2>1. p \in Seq(BitPieces)
    BY <1>4, ConcatIs
  <2>2. b = Written(p, k)
    BY <1>2
  <2> HIDE DEF p, k
  <2>3. b.len \in Nat /\ At(b, 0, p, b.len)
    BY <2>1, <2>2, WrittenAt
  <2>4. \E mid \in Nat : At(b, o, H, mid) /\ At(b, mid, B, b.len)
    BY <1>4, <2>3, AtSplit DEF p
  <2> QED BY <2>3, <2>4
<1>6. HeaderAt(b, mid)
  BY <1>5, HeaderReads
<1>7. CountsRead(b, n, m, h) /\ n \in Nat /\ m \in Nat /\ h \in Nat
  <2>1. n \in 257 .. 286 /\ m \in 1 .. 30
    BY <1>1, HeaderIs DEF Ready
  <2>2. h \in 4 .. 19
    BY CountOfMeta
  <2>3. CountsRead(b, n, m, h)
    BY <1>6 DEF HeaderAt
  <2> HIDE DEF n, m, h
  <2> QED BY <2>1, <2>2, <2>3
<1>8. MetaRead(b, h) = meta /\ Code(meta).complete /\ LengthsAt(b, h, Code(meta), n, m, whole, mid)
  BY <1>6 DEF HeaderAt
<1>9. lit = [s \in 0 .. n - 1 |-> whole[s + 1]] /\ dist = [s \in 0 .. m - 1 |-> whole[n + s + 1]]
  OBVIOUS
<1>10. \A k \in 1 .. Len(tokens) : HasCode(tokens[k], l, d)
  BY DEF TokensCoded
<1> HIDE DEF l, d, lc, dc, n, m, h, whole, lit, dist, meta
<1>11. Inflated(b) = AfterCounts(b, n, m, h)
  BY <1>7, CountsLead
<1>12. AfterCounts(b, n, m, h) = Tokens(b, mid, Code(lit), Code(dist)).token
  BY <1>3, <1>7, <1>8, <1>9, CodesLead
<1>13. Tokens(b, mid, Code(lit), Code(dist)).token = tokens
  <2> DEFINE next == b.len
             x == Code(lit)
             y == Code(dist)
  <2>1. next <= b.len /\ b.len \in Nat /\ At(b, mid, Body(enc, l, lc, d, dc), next) /\ TablesRead(l, lc, d, dc, x, y)
    BY <1>3, <1>5
  <2> HIDE DEF next, x, y
  <2>2. Tokens(b, mid, x, y).token = tokens
    BY <1>10, <2>1, BodyReads
  <2> QED BY <2>2 DEF x, y
<1> QED BY <1>11, <1>12, <1>13
-----------------------------------------------------------------------------
(* The symbols a token and an entry are written with.                      *)
LitSym(t) == IF is_literal(t) THEN t.distance ELSE length_code(t.length).sym
DistSym(t) == distance_code(t.distance).sym

TokenLits == {LitSym(tokens[k]) : k \in 1 .. Len(tokens)}
TokenDists == {DistSym(tokens[k]) : k \in {j \in 1 .. Len(tokens) : ~ is_literal(tokens[j])}}
RleCodes == {rle[k].code : k \in 1 .. Len(rle)}

LEMMA SymbolsOfToken ==
  ASSUME NEW t \in DeflateTokens, NEW enc \in Encoders
  PROVE  /\ LitSymbol(enc, t) = LitSym(t) /\ LitSym(t) \in 0 .. 285
         /\ ~ is_literal(t) => DistanceOf(enc, t).sym = DistSym(t) /\ DistSym(t) \in 0 .. 29
<1>1. CASE is_literal(t)
  <2>1. t.distance \in Bytes
    BY <1>1, TokenIs
  <2>2. Bytes \subseteq 0 .. 285
    BY DEF Bytes
  <2> QED BY <1>1, <2>1, <2>2 DEF LitSymbol, LitSym
<1>2. CASE ~ is_literal(t)
  <2> DEFINE l == LengthOf(enc, t)
             d == DistanceOf(enc, t)
  <2>1. l = length_code(t.length) /\ d = distance_code(t.distance) /\ CodeFits(l, 257 .. 285) /\ CodeFits(d, 0 .. 29)
    BY <1>2, CodesOfToken
  <2>2. LitSymbol(enc, t) = l.sym
    BY <1>2 DEF LitSymbol
  <2> HIDE DEF l, d
  <2>3. l.sym \in 257 .. 285 /\ d.sym \in 0 .. 29
    BY <2>1 DEF CodeFits
  <2>4. LitSym(t) = l.sym /\ DistSym(t) = d.sym
    BY <1>2, <2>1 DEF LitSym, DistSym
  <2>5. 257 .. 285 \subseteq 0 .. 285
    OBVIOUS
  <2> QED BY <2>2, <2>3, <2>4, <2>5 DEF d
<1> QED BY <1>1, <1>2

LEMMA LitsCounted ==
  ASSUME tokens \in Seq(DeflateTokens), NEW enc \in Encoders
  PROVE  TokenLits \subseteq UsedSymbols(LitFrequencies(enc))
<1> DEFINE n == Len(tokens)
           syms == [k \in 1 .. n |-> LitSymbol(enc, tokens[k])]
           P(s) == {k \in DOMAIN syms : syms[k] = s}
           one(s) == IF s = 256 THEN 1 ELSE 0
           F == LitFrequencies(enc)
<1>1. F = [s \in 0 .. 285 |-> Cardinality(P(s)) + one(s)]
  BY DEF LitFrequencies
<1>2. n \in Nat /\ \A s : P(s) \subseteq 1 .. n
  OBVIOUS
<1>3. \A s : one(s) \in {0, 1}
  OBVIOUS
<1>4. ASSUME NEW k \in 1 .. n PROVE LitSym(tokens[k]) \in 0 .. 285 /\ k \in P(LitSym(tokens[k]))
  <2>1. tokens[k] \in DeflateTokens
    OBVIOUS
  <2>2. LitSymbol(enc, tokens[k]) = LitSym(tokens[k]) /\ LitSym(tokens[k]) \in 0 .. 285
    BY <2>1, SymbolsOfToken
  <2> QED BY <2>2
<1> HIDE DEF P, n, one, F
<1>5. ASSUME NEW k \in 1 .. n PROVE LitSym(tokens[k]) \in UsedSymbols(F)
  <2> DEFINE s == LitSym(tokens[k])
             c == Cardinality(P(s))
  <2>1. s \in 0 .. 285 /\ P(s) # {}
    BY <1>4
  <2> HIDE DEF s
  <2>2. c \in Nat /\ c > 0
    BY <1>2, <2>1, CountsNat
  <2>3. F[s] = c + one(s) /\ s \in DOMAIN F
    BY <1>1, <2>1
  <2>4. one(s) \in {0, 1}
    BY <1>3
  <2> HIDE DEF c
  <2>5. F[s] > 0
    BY <2>2, <2>3, <2>4
  <2> QED BY <2>3, <2>5 DEF UsedSymbols, s
<1> QED BY <1>5 DEF TokenLits, n, F

LEMMA DistsCounted ==
  ASSUME tokens \in Seq(DeflateTokens), NEW enc \in Encoders
  PROVE  TokenDists \subseteq UsedSymbols(DistFrequencies(enc))
<1> DEFINE n == Len(tokens)
           P(s) == {k \in DOMAIN tokens : ~ is_literal(tokens[k]) /\ DistanceOf(enc, tokens[k]).sym = s}
           F == DistFrequencies(enc)
<1>1. F = [s \in 0 .. 29 |-> Cardinality(P(s))]
  BY DEF DistFrequencies
<1>2. n \in Nat /\ \A s : P(s) \subseteq 1 .. n
  OBVIOUS
<1>4. ASSUME NEW k \in 1 .. n, ~ is_literal(tokens[k])
      PROVE  DistSym(tokens[k]) \in 0 .. 29 /\ k \in P(DistSym(tokens[k]))
  <2>1. tokens[k] \in DeflateTokens /\ k \in DOMAIN tokens
    OBVIOUS
  <2>2. DistanceOf(enc, tokens[k]).sym = DistSym(tokens[k]) /\ DistSym(tokens[k]) \in 0 .. 29
    BY <1>4, <2>1, SymbolsOfToken
  <2> QED BY <1>4, <2>1, <2>2
<1> HIDE DEF P, n, F
<1>5. ASSUME NEW k \in 1 .. n, ~ is_literal(tokens[k]) PROVE DistSym(tokens[k]) \in UsedSymbols(F)
  <2> DEFINE s == DistSym(tokens[k])
             c == Cardinality(P(s))
  <2>1. s \in 0 .. 29 /\ P(s) # {}
    BY <1>4, <1>5
  <2> HIDE DEF s
  <2>2. c \in Nat /\ c > 0
    BY <1>2, <2>1, CountsNat
  <2>3. F[s] = c /\ s \in DOMAIN F
    BY <1>1, <2>1
  <2> QED BY <2>2, <2>3 DEF UsedSymbols, s
<1> QED BY <1>5 DEF TokenDists, n, F

LEMMA CodesCounted ==
  ASSUME rle \in Seq(AnyEntry)
  PROVE  RleCodes \subseteq UsedSymbols(MetaFrequencies(rle))
<1> DEFINE F == MetaFrequencies(rle)
<1>1. \A k \in 1 .. Len(rle) : k \in DOMAIN rle /\ rle[k].code \in 0 .. 18
  <2>1. \A x \in AnyEntry : x.code \in 0 .. 18
    BY DEF AnyEntry
  <2> QED BY <2>1
<1>2. F \in [0 .. 18 -> Nat] /\ \A k \in DOMAIN rle : rle[k].code \in 0 .. 18 => F[rle[k].code] > 0
  BY MetaFrequenciesAre
<1> HIDE DEF F
<1>3. ASSUME NEW k \in 1 .. Len(rle) PROVE rle[k].code \in UsedSymbols(F)
  BY <1>1, <1>2 DEF UsedSymbols
<1> QED BY <1>3 DEF RleCodes, F

(* What is padded keeps the symbols it had.                                *)
LEMMA PadsKeep ==
  ASSUME NEW lit, LitBuilt(lit), NEW dist, DistBuilt(dist)
  PROVE  UsedSymbols(lit) \subseteq UsedSymbols(PadLiterals(lit)) /\ UsedSymbols(dist) \subseteq UsedSymbols(PadDistances(dist))
<1>1. UsedSymbols(lit) \subseteq UsedSymbols(PadLiterals(lit))
  <2> DEFINE u == [lit EXCEPT ![0] = 1, ![256] = 1]
  <2>1. lit \in [0 .. 285 -> 0 .. LitCap]
    BY DEF LitBuilt
  <2>2. DOMAIN u = DOMAIN lit /\ \A s \in DOMAIN lit : u[s] = 1 \/ u[s] = lit[s]
    BY <2>1
  <2>3. PadLiterals(lit) = u \/ PadLiterals(lit) = lit
    BY DEF PadLiterals
  <2> HIDE DEF u
  <2>4. UsedSymbols(lit) \subseteq UsedSymbols(u)
    BY <2>2 DEF UsedSymbols
  <2> QED BY <2>3, <2>4
<1>2. UsedSymbols(dist) \subseteq UsedSymbols(PadDistances(dist))
  <2> DEFINE used == UsedSymbols(dist)
             only == CHOOSE s \in used : TRUE
             other == 1 - Lesser(only, 1)
             u == [dist EXCEPT ![0] = 1, ![1] = 1]
             w == [dist EXCEPT ![only] = 1, ![other] = 1]
  <2>1. PadDistances(dist) \in {u, w, dist}
    <3> DEFINE c == Cardinality(used)
    <3>1. PadDistances(dist) = CASE c = 0 -> u [] c = 1 -> w [] OTHER -> dist
      BY DEF PadDistances
    <3> HIDE DEF c, u, w
    <3> QED BY <3>1
  <2>2. DOMAIN u = DOMAIN dist /\ \A s \in DOMAIN dist : u[s] = 1 \/ u[s] = dist[s]
    BY DEF DistBuilt
  <2> HIDE DEF only, other
  <2>3. DOMAIN w = DOMAIN dist /\ \A s \in DOMAIN dist : w[s] = 1 \/ w[s] = dist[s]
    BY DEF DistBuilt
  <2> HIDE DEF u, w
  <2>4. UsedSymbols(dist) \subseteq UsedSymbols(u) /\ UsedSymbols(dist) \subseteq UsedSymbols(w)
    BY <2>2, <2>3 DEF UsedSymbols
  <2> QED BY <2>1, <2>4
<1> QED BY <1>1, <1>2

(* One entry more.                                                         *)
LEMMA HistoryGrows ==
  ASSUME NEW entries \in Seq(AnyEntry), NEW before, History(entries, before), NEW x \in AnyEntry,
         NEW after, after = before \o Meaning(x, before), after \in Seq(0 .. 15), Len(before) < Len(after)
  PROVE  History(Append(entries, x), after)
<1> DEFINE n == Len(entries)
           more == Append(entries, x)
<1>1. PICK f : Stages(f, entries, before)
  BY DEF History
<1>2. /\ f \in [0 .. n -> Seq(0 .. 15)] /\ f[0] = <<>> /\ f[n] = before
      /\ \A k \in 1 .. n : f[k] = f[k - 1] \o Meaning(entries[k], f[k - 1]) /\ Len(f[k - 1]) < Len(f[k])
  BY <1>1 DEF Stages
<1>3. n \in Nat /\ Len(more) = n + 1 /\ more[n + 1] = x /\ \A k \in 1 .. n : more[k] = entries[k]
  OBVIOUS
<1> HIDE DEF n, more
<1> DEFINE W == Seq(0 .. 15)
           g == [k \in 0 .. n + 1 |-> IF k <= n THEN f[k] ELSE after]
<1>4. g \in [0 .. n + 1 -> W]
  <2>1. f \in [0 .. n -> W] /\ after \in W
    BY <1>2
  <2> HIDE DEF W
  <2>2. \A k \in 0 .. n + 1 : k <= n => k \in 0 .. n
    BY <1>3
  <2> QED BY <2>1, <2>2
<1>5. g[0] = <<>> /\ g[n + 1] = after
  BY <1>2, <1>3
<1>6. ASSUME NEW k \in 1 .. n + 1
      PROVE  g[k] = g[k - 1] \o Meaning(more[k], g[k - 1]) /\ Len(g[k - 1]) < Len(g[k])
  <2>1. CASE k <= n
    <3>1. k \in 1 .. n /\ k \in 0 .. n + 1 /\ k - 1 \in 0 .. n + 1 /\ k - 1 <= n
      BY <1>3, <2>1
    <3>2. g[k] = f[k] /\ g[k - 1] = f[k - 1] /\ more[k] = entries[k]
      BY <1>3, <2>1, <3>1
    <3> HIDE DEF g
    <3> QED BY <1>2, <3>1, <3>2
  <2>2. CASE ~ (k <= n)
    <3>1. k = n + 1 /\ k - 1 = n /\ k \in 0 .. n + 1 /\ n \in 0 .. n + 1 /\ n <= n
      BY <1>3, <2>2
    <3>2. g[k] = after /\ g[k - 1] = before /\ more[k] = x
      BY <1>2, <1>3, <3>1
    <3> HIDE DEF g
    <3> QED BY <3>2
  <2> QED BY <2>1, <2>2
<1> HIDE DEF g
<1>7. Stages(g, more, after)
  BY <1>3, <1>4, <1>5, <1>6 DEF Stages, W
<1> QED BY <1>7 DEF History, more

LEMMA HistoryBegins == History(<<>>, <<>>)
<1> DEFINE W == Seq(0 .. 15)
           none == <<>>
           f == [k \in 0 .. 0 |-> none]
<1>1. none \in W /\ Len(none) = 0
  OBVIOUS
<1>2. f \in [0 .. 0 -> W] /\ f[0] = none
  <2> HIDE DEF W, none
  <2> QED BY <1>1
<1> HIDE DEF f
<1>3. \A k \in 1 .. 0 : FALSE
  OBVIOUS
<1>4. Stages(f, none, none)
  BY <1>1, <1>2, <1>3 DEF Stages
<1> QED BY <1>4 DEF History
-----------------------------------------------------------------------------
(* The invariant of the block that is read back: every symbol that is      *)
(* written has been counted, the entries stand for the lengths.            *)
Tallied ==
  /\ phase = "litlen" => TokenLits \subseteq UsedSymbols(work)
  /\ phase \in {"dist", "header", "rle", "meta", "emit"} => TokenLits \subseteq UsedSymbols(built.litlen)
  /\ phase = "dist" => TokenDists \subseteq UsedSymbols(work)
  /\ phase \in {"header", "rle", "meta", "emit"} => TokenDists \subseteq UsedSymbols(built.dist)
  /\ phase = "meta" => RleCodes \subseteq UsedSymbols(work)
  /\ phase = "emit" => RleCodes \subseteq UsedSymbols(built.meta)

Recorded ==
  /\ phase = "rle" => History(rle, decoded)
  /\ phase \in {"meta", "emit"} => History(rle, HeaderLens(built.litlen, built.dist))

ReadBackInv == Tallied /\ Recorded /\ BlockDecodes

LEMMA SymbolsStay ==
  ASSUME UNCHANGED tokens
  PROVE  TokenLits' = TokenLits /\ TokenDists' = TokenDists
BY DEF TokenLits, TokenDists, LitSym, DistSym, is_literal

(* A step out of the phases that the invariant speaks of.                  *)
LEMMA Elsewhere ==
  ASSUME phase' \in {"begin", "fixed"}
  PROVE  ReadBackInv'
BY DEF ReadBackInv, Tallied, Recorded, BlockDecodes

LEMMA AtTheEnd ==
  ASSUME phase' = "done", UNCHANGED tokens, Inflated(out') = tokens
  PROVE  ReadBackInv'
BY ZenonT(60) DEF ReadBackInv, Tallied, Recorded, BlockDecodes, Inflated

LEMMA BeginReads == BlockInv /\ (CountFrequencies \/ EncodeFixed \/ EmitEmpty) => ReadBackInv'
<1> SUFFICES ASSUME BlockInv, CountFrequencies \/ EncodeFixed \/ EmitEmpty PROVE ReadBackInv'
  OBVIOUS
<1>1. tokens \in Seq(DeflateTokens) /\ encoder \in Encoders
  BY DEF BlockInv, BlockTypeOK
<1>2. CASE CountFrequencies
  <2>1. phase' = "litlen" /\ work' = LitFrequencies(encoder) /\ UNCHANGED tokens
    BY <1>2 DEF CountFrequencies
  <2>2. TokenLits \subseteq UsedSymbols(LitFrequencies(encoder))
    BY <1>1, LitsCounted
  <2>3. TokenLits' = TokenLits
    BY <2>1, SymbolsStay
  <2>4. UsedSymbols(work)' = UsedSymbols(LitFrequencies(encoder))
    BY <2>1
  <2> QED BY <2>1, <2>2, <2>3, <2>4 DEF ReadBackInv, Tallied, Recorded, BlockDecodes
<1>3. CASE EncodeFixed
  BY <1>3, Elsewhere DEF EncodeFixed
<1>4. CASE EmitEmpty
  <2>1. phase' = "done" /\ UNCHANGED tokens /\ tokens = <<>> /\ out' = [ones |-> {0, 1}, len |-> 16]
    BY <1>4 DEF EmitEmpty
  <2>2. Inflated(out') = <<>>
    BY <2>1, EmptyDecodes
  <2> QED BY <2>1, <2>2, AtTheEnd
<1> QED BY <1>2, <1>3, <1>4

LEMMA AcceptReads == BlockInv /\ ReadBackInv /\ (AcceptDegenerate \/ AcceptTree) => ReadBackInv'
<1> SUFFICES ASSUME BlockInv, ReadBackInv, AcceptDegenerate \/ AcceptTree PROVE ReadBackInv'
  OBVIOUS
<1>1. /\ tokens \in Seq(DeflateTokens) /\ encoder \in Encoders
      /\ built = [litlen |-> built.litlen, dist |-> built.dist, meta |-> built.meta]
  BY DEF BlockInv, BlockTypeOK
<1>2. PICK t : /\ Accept(t)
               /\ \/ Degenerate(work) /\ t = DegenerateLengths(work)
                  \/ ~ Degenerate(work) /\ t = StandardHuffman(work) /\ Tallest(t) <= Cap
  BY DEF AcceptDegenerate, AcceptTree
<1>3. /\ built' = [built EXCEPT ![phase] = t] /\ phase' = PhaseAfter
      /\ UNCHANGED <<tokens, encoder, out, rlevars>>
  BY <1>2 DEF Accept
<1>4. phase \in {"litlen", "dist", "meta"}
  BY DEF AcceptDegenerate, AcceptTree, Building
<1>5. TokenLits' = TokenLits /\ TokenDists' = TokenDists
  BY <1>3, SymbolsStay
<1>6. Cap \in 1 .. 15
  BY DeflateAssumption DEF Cap
<1>7. ASSUME NEW n \in Nat, work \in [0 .. n -> Nat] PROVE UsedSymbols(t) = UsedSymbols(work)
  <2>1. CASE Degenerate(work) /\ t = DegenerateLengths(work)
    BY <2>1 DEF DegenerateLengths, UsedSymbols
  <2>2. CASE ~ Degenerate(work) /\ t = StandardHuffman(work) /\ Tallest(t) <= Cap
    <3>1. PICK cap \in 1 .. 15 : cap = Cap
      BY <1>6
    <3> QED BY <1>7, <2>2, <3>1, TreeTable
  <2> QED BY <1>2, <2>1, <2>2
<1>8. CASE phase = "litlen"
  <2>1. phase' = "dist" /\ work' = DistFrequencies(encoder)
    BY <1>2, <1>3, <1>8 DEF PhaseAfter, Accept
  <2>2. TokenLits \subseteq UsedSymbols(work) /\ work \in [0 .. 285 -> Nat]
    BY <1>8 DEF ReadBackInv, Tallied, BlockInv, Counted
  <2>3. UsedSymbols(t) = UsedSymbols(work)
    BY <1>7, <2>2, ZenonT(60)
  <2>4. built' = [litlen |-> t, dist |-> built.dist, meta |-> built.meta]
    BY <1>1, <1>3, <1>8
  <2>5. built'.litlen = t
    BY <2>4
  <2>6. TokenDists \subseteq UsedSymbols(DistFrequencies(encoder))
    BY <1>1, DistsCounted
  <2>7. UsedSymbols(work)' = UsedSymbols(DistFrequencies(encoder)) /\ UsedSymbols(built.litlen)' = UsedSymbols(t)
    BY <2>1, <2>5
  <2> QED BY <1>5, <2>1, <2>2, <2>3, <2>6, <2>7 DEF ReadBackInv, Tallied, Recorded, BlockDecodes
<1>9. CASE phase = "dist"
  <2>1. phase' = "header"
    BY <1>3, <1>9 DEF PhaseAfter
  <2>2. /\ TokenDists \subseteq UsedSymbols(work) /\ TokenLits \subseteq UsedSymbols(built.litlen)
        /\ work \in [0 .. 29 -> Nat]
    BY <1>9 DEF ReadBackInv, Tallied, BlockInv, Counted
  <2>3. UsedSymbols(t) = UsedSymbols(work)
    BY <1>7, <2>2
  <2>4. built' = [litlen |-> built.litlen, dist |-> t, meta |-> built.meta]
    BY <1>1, <1>3, <1>9
  <2>5. built'.litlen = built.litlen /\ built'.dist = t
    BY <2>4
  <2>7. UsedSymbols(built.dist)' = UsedSymbols(t) /\ UsedSymbols(built.litlen)' = UsedSymbols(built.litlen)
    BY <2>5
  <2> QED BY <1>5, <2>1, <2>2, <2>3, <2>7 DEF ReadBackInv, Tallied, Recorded, BlockDecodes
<1>10. CASE phase = "meta"
  <2>1. phase' = "emit"
    BY <1>3, <1>10 DEF PhaseAfter
  <2>2. /\ RleCodes \subseteq UsedSymbols(work) /\ TokenLits \subseteq UsedSymbols(built.litlen)
        /\ TokenDists \subseteq UsedSymbols(built.dist) /\ History(rle, HeaderLens(built.litlen, built.dist))
        /\ work \in [0 .. 18 -> Nat]
    BY <1>10 DEF ReadBackInv, Tallied, Recorded, BlockInv, Counted
  <2>3. UsedSymbols(t) = UsedSymbols(work)
    BY <1>7, <2>2
  <2>4. built' = [litlen |-> built.litlen, dist |-> built.dist, meta |-> t]
    BY <1>1, <1>3, <1>10
  <2>5. built'.litlen = built.litlen /\ built'.dist = built.dist /\ built'.meta = t
    BY <2>4
  <2>6. UsedSymbols(built.dist)' = UsedSymbols(built.dist) /\ UsedSymbols(built.litlen)' = UsedSymbols(built.litlen)
    BY <2>5
  <2>7. UsedSymbols(built.meta)' = UsedSymbols(t)
    BY <2>5
  <2>8. rle' = rle /\ RleCodes' = RleCodes
    BY <1>3 DEF rlevars, RleCodes
  <2>9. HeaderLens(built.litlen, built.dist)' = HeaderLens(built.litlen, built.dist)
    BY <2>5 DEF HeaderLens, NLit, NDist
  <2>10. History(rle, HeaderLens(built.litlen, built.dist))'
    BY <2>2, <2>8, <2>9 DEF History, Stages, Meaning, Repeat
  <2> QED BY <1>5, <2>1, <2>2, <2>3, <2>6, <2>7, <2>8, <2>10 DEF ReadBackInv, Tallied, Recorded, BlockDecodes
<1> QED BY <1>4, <1>8, <1>9, <1>10

LEMMA HalveReads == BlockInv /\ ReadBackInv /\ HalveFrequencies => ReadBackInv'
<1> SUFFICES ASSUME BlockInv, ReadBackInv, HalveFrequencies PROVE ReadBackInv'
  OBVIOUS
<1>1. /\ phase \in {"litlen", "dist", "meta"} /\ work' = Halved(work)
      /\ UNCHANGED <<tokens, encoder, phase, built, out, rlevars>>
  BY DEF HalveFrequencies, Building
<1>2. TokenLits' = TokenLits /\ TokenDists' = TokenDists /\ RleCodes' = RleCodes /\ rle' = rle
  BY <1>1, SymbolsStay DEF rlevars, RleCodes
<1>3. UsedSymbols(Halved(work)) = UsedSymbols(work)
  <2>1. \E n \in Nat : work \in [0 .. n -> Nat]
    <3>1. 285 \in Nat /\ 29 \in Nat /\ 18 \in Nat
      OBVIOUS
    <3> QED BY <1>1, <3>1 DEF BlockInv, Counted
  <2>2. PICK n \in Nat : work \in [0 .. n -> Nat]
    BY <2>1
  <2> QED BY <2>2, HalvedIs
<1>4. UsedSymbols(work)' = UsedSymbols(work) /\ UsedSymbols(built.litlen)' = UsedSymbols(built.litlen)
      /\ UsedSymbols(built.dist)' = UsedSymbols(built.dist)
  BY <1>1, <1>3
<1>5. HeaderLens(built.litlen, built.dist)' = HeaderLens(built.litlen, built.dist)
  BY <1>1 DEF HeaderLens, NLit, NDist
<1>6. phase = "meta" => History(rle, HeaderLens(built.litlen, built.dist))'
  BY <1>2, <1>5 DEF ReadBackInv, Recorded, History, Stages, Meaning, Repeat
<1>7. phase' = phase /\ phase # "done"
  BY <1>1
<1> QED BY <1>1, <1>2, <1>4, <1>6, <1>7 DEF ReadBackInv, Tallied, Recorded, BlockDecodes

LEMMA StartHeaderReads == BlockInv /\ ReadBackInv /\ StartHeader => ReadBackInv'
<1> SUFFICES ASSUME BlockInv, ReadBackInv, StartHeader PROVE ReadBackInv'
  OBVIOUS
<1> DEFINE lit == PadLiterals(built.litlen)
           dist == PadDistances(built.dist)
<1>1. built = [litlen |-> built.litlen, dist |-> built.dist, meta |-> built.meta]
  BY DEF BlockInv, BlockTypeOK
<1>2. /\ phase = "header" /\ phase' = "rle"
      /\ built' = [built EXCEPT !.litlen = lit, !.dist = dist]
      /\ UNCHANGED <<tokens, encoder, work, out, i, run, cur, rle, decoded, rlepc>>
  BY DEF StartHeader
<1>3. LitBuilt(built.litlen) /\ DistBuilt(built.dist) /\ rle = <<>> /\ decoded = <<>>
  BY <1>2 DEF BlockInv, HasCodes, RunLengths, RleInit
<1>4. UsedSymbols(built.litlen) \subseteq UsedSymbols(lit) /\ UsedSymbols(built.dist) \subseteq UsedSymbols(dist)
  BY <1>3, PadsKeep
<1>5. TokenLits \subseteq UsedSymbols(built.litlen) /\ TokenDists \subseteq UsedSymbols(built.dist)
  BY <1>2 DEF ReadBackInv, Tallied
<1> HIDE DEF lit, dist
<1>6. built' = [litlen |-> lit, dist |-> dist, meta |-> built.meta]
  BY <1>1, <1>2
<1>7. built'.litlen = lit /\ built'.dist = dist
  BY <1>6
<1>8. UsedSymbols(built.litlen)' = UsedSymbols(lit) /\ UsedSymbols(built.dist)' = UsedSymbols(dist)
  BY <1>7
<1>9. TokenLits' = TokenLits /\ TokenDists' = TokenDists
  BY <1>2, SymbolsStay
<1>10. rle' = <<>> /\ decoded' = <<>>
  BY <1>2, <1>3
<1>11. History(rle, decoded)'
  BY <1>10, HistoryBegins DEF History, Stages, Meaning, Repeat
<1> QED BY <1>2, <1>4, <1>5, <1>8, <1>9, <1>11 DEF ReadBackInv, Tallied, Recorded, BlockDecodes
-----------------------------------------------------------------------------
LEMMA PushRecorded ==
  ASSUME RleInv, RleInv', History(rle, decoded), NEW x \in AnyEntry, NEW n \in Nat, n > 0, Push(x, n)
  PROVE  History(rle, decoded)'
<1> DEFINE after == decoded'
<1>1. rle \in Seq(AnyEntry) /\ rle' = Append(rle, x) /\ after = decoded \o Meaning(x, decoded)
  BY DEF RleInv, RleTypeOK, AnyEntry, Push
<1>2. after \in Seq(0 .. 15) /\ Len(decoded) < Len(after)
  <2>1. Len(decoded) = i /\ Len(decoded') = i' /\ i' = i + n /\ i \in Nat
    BY DEF RleInv, RleTypeOK, Covered, Push
  <2>2. decoded' \in Seq(0 .. 15)
    BY DEF RleInv, RleTypeOK
  <2> QED BY <2>1, <2>2
<1> HIDE DEF after
<1>3. History(Append(rle, x), after)
  BY <1>1, <1>2, HistoryGrows
<1> QED BY <1>1, <1>3 DEF History, Stages, Meaning, Repeat, after

LEMMA EntriesRecorded ==
  ASSUME RleInv, RleInv', RleNext, History(rle, decoded)
  PROVE  History(rle, decoded)'
<1>1. CASE PushZeros \/ PushValue \/ PushRepeats
  <2>1. PICK x \in AnyEntry, n \in Nat : Pushed(x, n)
    BY <1>1, PushesFit
  <2> QED BY <2>1, PushRecorded DEF Pushed
<1>2. CASE ScanRun \/ ScanEnds \/ RunEnds
  BY <1>2 DEF ScanRun, ScanEnds, RunEnds, History, Stages, Meaning, Repeat
<1> QED BY <1>1, <1>2 DEF RleNext

LEMMA EncodeLengthsReads == BlockInv /\ ReadBackInv /\ EncodeLengths => ReadBackInv'
<1> SUFFICES ASSUME BlockInv, ReadBackInv, EncodeLengths PROVE ReadBackInv'
  OBVIOUS
<1>1. phase = "rle" /\ RleNext /\ UNCHANGED <<tokens, encoder, phase, work, built, out>>
  BY DEF EncodeLengths
<1>2. RleInv /\ History(rle, decoded)
  BY <1>1 DEF BlockInv, RunLengths, ReadBackInv, Recorded
<1>3. RleInv'
  BY <1>1, <1>2, RleInvNext
<1>4. History(rle, decoded)'
  BY <1>1, <1>2, <1>3, EntriesRecorded
<1>5. TokenLits' = TokenLits /\ TokenDists' = TokenDists
  BY <1>1, SymbolsStay
<1>6. UsedSymbols(built.litlen)' = UsedSymbols(built.litlen) /\ UsedSymbols(built.dist)' = UsedSymbols(built.dist)
  BY <1>1
<1>7. phase' = "rle"
  BY <1>1
<1> QED BY <1>1, <1>4, <1>5, <1>6, <1>7 DEF ReadBackInv, Tallied, Recorded, BlockDecodes

LEMMA StartMetaReads == BlockInv /\ ReadBackInv /\ StartMeta => ReadBackInv'
<1> SUFFICES ASSUME BlockInv, ReadBackInv, StartMeta PROVE ReadBackInv'
  OBVIOUS
<1>1. /\ phase = "rle" /\ rlepc = "done" /\ phase' = "meta" /\ work' = MetaFrequencies(rle)
      /\ UNCHANGED <<tokens, encoder, built, out, rlevars>>
  BY DEF StartMeta
<1>2. RleInv /\ lens = HeaderLens(built.litlen, built.dist) /\ History(rle, decoded)
  BY <1>1 DEF BlockInv, RunLengths, ReadBackInv, Recorded
<1>3. decoded = lens /\ rle \in Seq(AnyEntry)
  BY <1>1, <1>2, RleInvReads DEF RleReadsBack, RleInv, RleTypeOK, AnyEntry
<1>4. History(rle, HeaderLens(built.litlen, built.dist))
  BY <1>2, <1>3
<1>5. rle' = rle /\ RleCodes' = RleCodes
  BY <1>1 DEF rlevars, RleCodes
<1>6. HeaderLens(built.litlen, built.dist)' = HeaderLens(built.litlen, built.dist)
  BY <1>1 DEF HeaderLens, NLit, NDist
<1>7. History(rle, HeaderLens(built.litlen, built.dist))'
  BY <1>4, <1>5, <1>6 DEF History, Stages, Meaning, Repeat
<1>8. RleCodes \subseteq UsedSymbols(MetaFrequencies(rle))
  BY <1>3, CodesCounted
<1>9. UsedSymbols(work)' = UsedSymbols(MetaFrequencies(rle))
  BY <1>1
<1>10. TokenLits' = TokenLits /\ TokenDists' = TokenDists
  BY <1>1, SymbolsStay
<1>11. UsedSymbols(built.litlen)' = UsedSymbols(built.litlen) /\ UsedSymbols(built.dist)' = UsedSymbols(built.dist)
  BY <1>1
<1> QED BY <1>1, <1>5, <1>7, <1>8, <1>9, <1>10, <1>11 DEF ReadBackInv, Tallied, Recorded, BlockDecodes

(* What the invariant says where a block is written is what its reading    *)
(* back needs.                                                             *)
LEMMA EmitIsDescribed ==
  ASSUME BlockInv, ReadBackInv, phase = "emit"
  PROVE  Described /\ TokensCoded
<1>1. Ready
  BY DEF BlockInv, Emitted
<1>2. /\ TokenLits \subseteq UsedSymbols(built.litlen) /\ TokenDists \subseteq UsedSymbols(built.dist)
      /\ RleCodes \subseteq UsedSymbols(built.meta) /\ History(rle, HeaderLens(built.litlen, built.dist))
  BY DEF ReadBackInv, Tallied, Recorded
<1>3. EntriesCoded(rle, built.meta)
  <2> SUFFICES ASSUME NEW k \in 1 .. Len(rle)
               PROVE  rle[k] \in AnyEntry /\ EntryFits(rle[k]) /\ built.meta[rle[k].code] > 0
    BY DEF EntriesCoded
  <2>1. rle \in Seq(AnyEntry) /\ EntriesFit
    BY <1>1 DEF Ready
  <2>2. rle[k] \in AnyEntry /\ EntryFits(rle[k])
    BY <2>1 DEF EntriesFit
  <2>3. rle[k].code \in UsedSymbols(built.meta)
    BY <1>2 DEF RleCodes
  <2> QED BY <2>2, <2>3 DEF UsedSymbols
<1>4. TokensCoded
  <2> SUFFICES ASSUME NEW k \in 1 .. Len(tokens) PROVE HasCode(tokens[k], built.litlen, built.dist)
    BY DEF TokensCoded
  <2>1. LitSym(tokens[k]) \in UsedSymbols(built.litlen)
    BY <1>2 DEF TokenLits
  <2>2. ~ is_literal(tokens[k]) => DistSym(tokens[k]) \in UsedSymbols(built.dist)
    BY <1>2 DEF TokenDists
  <2> QED BY <2>1, <2>2 DEF UsedSymbols, HasCode, LitSym, DistSym
<1> QED BY <1>1, <1>2, <1>3, <1>4 DEF Described

LEMMA EmitReads == BlockInv /\ ReadBackInv /\ (EmitDynamic \/ EmitFixed) => ReadBackInv'
<1> SUFFICES ASSUME BlockInv, ReadBackInv, EmitDynamic \/ EmitFixed PROVE ReadBackInv'
  OBVIOUS
<1>1. tokens \in Seq(DeflateTokens) /\ encoder \in Encoders
  BY DEF BlockInv, BlockTypeOK
<1>2. CASE EmitDynamic
  <2>1. phase = "emit" /\ phase' = "done" /\ UNCHANGED tokens /\ out' = DynamicBits(encoder)
    BY <1>2 DEF EmitDynamic
  <2>2. Described /\ TokensCoded
    BY <2>1, EmitIsDescribed
  <2>3. Inflated(out') = tokens
    BY <1>1, <2>1, <2>2, DynamicDecodes
  <2> QED BY <2>1, <2>3, AtTheEnd
<1>3. CASE EmitFixed
  <2>1. phase' = "done" /\ UNCHANGED tokens /\ out' = FixedBits(encoder)
    BY <1>3 DEF EmitFixed, FixedBits
  <2>2. out' = Written(FixedPieces("slow"), TRUE)
    BY <1>1, <2>1, FixedAgree
  <2>3. Inflated(out') = tokens
    BY <1>1, <2>2, FixedDecodes
  <2> QED BY <2>1, <2>3, AtTheEnd
<1> QED BY <1>2, <1>3

LEMMA ReadBackInit == BlockInit => ReadBackInv
BY DEF BlockInit, ReadBackInv, Tallied, Recorded, BlockDecodes

LEMMA ReadBackNext == BlockInv /\ ReadBackInv /\ [BlockNext]_blockvars => ReadBackInv'
<1> SUFFICES ASSUME BlockInv, ReadBackInv, [BlockNext]_blockvars PROVE ReadBackInv'
  OBVIOUS
<1>1. CASE UNCHANGED blockvars
  <2>1. UNCHANGED <<tokens, encoder, phase, work, built, out, rle, decoded>>
    BY <1>1 DEF blockvars, rlevars
  <2>2. TokenLits' = TokenLits /\ TokenDists' = TokenDists /\ RleCodes' = RleCodes
    BY <2>1, SymbolsStay DEF RleCodes
  <2>3. /\ UsedSymbols(work)' = UsedSymbols(work) /\ UsedSymbols(built.litlen)' = UsedSymbols(built.litlen)
        /\ UsedSymbols(built.dist)' = UsedSymbols(built.dist) /\ UsedSymbols(built.meta)' = UsedSymbols(built.meta)
    BY <2>1
  <2>4. Tallied'
    BY <2>1, <2>2, <2>3 DEF ReadBackInv, Tallied
  <2>5. HeaderLens(built.litlen, built.dist)' = HeaderLens(built.litlen, built.dist)
    BY <2>1 DEF HeaderLens, NLit, NDist
  <2>6. Recorded'
    BY <2>1, <2>5 DEF ReadBackInv, Recorded, History, Stages, Meaning, Repeat
  <2>7. Inflated(out)' = Inflated(out)
    BY <2>1
  <2> QED BY <2>1, <2>4, <2>6, <2>7 DEF ReadBackInv, BlockDecodes
<1>2. CASE Finished
  BY <1>1, <1>2 DEF Finished
<1>3. CASE FallBack
  BY <1>3, Elsewhere DEF FallBack
<1> QED BY <1>1, <1>2, <1>3, BeginReads, AcceptReads, HalveReads, StartHeaderReads, EncodeLengthsReads,
           StartMetaReads, EmitReads DEF BlockNext

(* A decoder of RFC 1951 gets the tokens back from every block of every    *)
(* encoder, on every path.  The tables of the header are those the body is *)
(* coded with, every symbol that is written has a code, and the decoder's  *)
(* walk over the bits meets them one by one up to the end of the block.    *)
THEOREM BlocksDecode == BlockSpec => []BlockDecodes
<1>1. BlockInit => BlockInv /\ ReadBackInv
  BY BlockInvInit, ReadBackInit
<1>2. BlockInv /\ ReadBackInv /\ [BlockNext]_blockvars => BlockInv' /\ ReadBackInv'
  BY BlockInvNext, ReadBackNext
<1>3. ReadBackInv => BlockDecodes
  BY DEF ReadBackInv
<1> QED BY <1>1, <1>2, <1>3, PTL DEF BlockSpec
=============================================================================
