--------------------------- MODULE DeflateTables ---------------------------
(***************************************************************************)
(* The length and distance tables of DEFLATE in the three forms the code   *)
(* keeps them: rows searched for every token (deflate.rs, encode_block),   *)
(* direct tables (encode_block_fast) and direct tables packed into one u32 *)
(* for the GPU (huffman_emit_v2.rs), where the shader unpacks them again.  *)
(* Every form yields the same triple: symbol, number of extra bits, value  *)
(* of the extra bits.                                                      *)
(***************************************************************************)
EXTENDS HuffmanCode, Sequences

Row(base, extra, sym) == [base |-> base, extra |-> extra, sym |-> sym]

LenRows ==
  << Row(3, 0, 257), Row(4, 0, 258), Row(5, 0, 259), Row(6, 0, 260), Row(7, 0, 261),
     Row(8, 0, 262), Row(9, 0, 263), Row(10, 0, 264), Row(11, 1, 265), Row(13, 1, 266),
     Row(15, 1, 267), Row(17, 1, 268), Row(19, 2, 269), Row(23, 2, 270), Row(27, 2, 271),
     Row(31, 2, 272), Row(35, 3, 273), Row(43, 3, 274), Row(51, 3, 275), Row(59, 3, 276),
     Row(67, 4, 277), Row(83, 4, 278), Row(99, 4, 279), Row(115, 4, 280), Row(131, 5, 281),
     Row(163, 5, 282), Row(195, 5, 283), Row(227, 5, 284), Row(258, 0, 285) >>

DistRows ==
  << Row(1, 0, 0), Row(2, 0, 1), Row(3, 0, 2), Row(4, 0, 3), Row(5, 1, 4), Row(7, 1, 5),
     Row(9, 2, 6), Row(13, 2, 7), Row(17, 3, 8), Row(25, 3, 9), Row(33, 4, 10), Row(49, 4, 11),
     Row(65, 5, 12), Row(97, 5, 13), Row(129, 6, 14), Row(193, 6, 15), Row(257, 7, 16),
     Row(385, 7, 17), Row(513, 8, 18), Row(769, 8, 19), Row(1025, 9, 20), Row(1537, 9, 21),
     Row(2049, 10, 22), Row(3073, 10, 23), Row(4097, 11, 24), Row(6145, 11, 25),
     Row(8193, 12, 26), Row(12289, 12, 27), Row(16385, 13, 28), Row(24577, 13, 29) >>

Coded(row, x) == [sym |-> row.sym, extra |-> row.extra, value |-> x - row.base]
-----------------------------------------------------------------------------
(* The linear scans: the last row before the first one whose base is       *)
(* above x.                                                                *)
RowAtOrBelow(rows, x) == rows[LargestOf({i \in 1 .. Len(rows) : rows[i].base <= x})]

length_code(length) == Coded(RowAtOrBelow(LenRows, length), length)
distance_code(distance) == Coded(RowAtOrBelow(DistRows, distance), distance)
-----------------------------------------------------------------------------
(* The direct tables of encode_block_fast.  A row fills [base, next base). *)
RowEnd(rows, w, limit) == IF w < Len(rows) THEN rows[w + 1].base ELSE limit

ZeroEntry == Row(0, 0, 0)

(* The entry a loop over the rows leaves: the last row that writes it.     *)
LastWriter(rows, writers) == IF writers = {} THEN ZeroEntry ELSE rows[LargestOf(writers)]

len_lut ==
  [len \in 0 .. 258 |->
     LastWriter(LenRows, {w \in 1 .. Len(LenRows) :
                            LenRows[w].base <= len /\ len < RowEnd(LenRows, w, 259)})]

dist_lut_lo ==
  LET rows == SubSeq(DistRows, 1, 16)
  IN  [d \in 0 .. 256 |->
         LastWriter(rows, {w \in 1 .. 16 : rows[w].base <= d /\ d < RowEnd(rows, w, 257)})]

(* Indexed by (d - 1) >> 7: one entry stands for 128 distances, so a row   *)
(* writes every entry between that of its base and that of its last.       *)
HighIndex(d) == (d - 1) \div 128

dist_lut_hi ==
  LET rows == SubSeq(DistRows, 17, 30)
  IN  [h \in 0 .. 255 |->
         LastWriter(rows, {w \in 1 .. 14 : /\ HighIndex(rows[w].base) <= h
                                           /\ h <= HighIndex(RowEnd(rows, w, 32769) - 1)})]

dist_entry(distance) ==
  IF distance <= 256 THEN dist_lut_lo[distance] ELSE dist_lut_hi[HighIndex(distance)]

FastLength(length) == Coded(len_lut[length], length)
FastDistance(distance) == Coded(dist_entry(distance), distance)
-----------------------------------------------------------------------------
(* The packed tables of the GPU: sym | extra << 8 | base << 16.            *)
Packed(sym, row) == sym + row.extra * 2 ^ 8 + row.base * 2 ^ 16

build_len_lut ==
  [len \in 0 .. 258 |-> IF len < 3 THEN 0
                        ELSE LET row == RowAtOrBelow(LenRows, len) IN Packed(row.sym - 257, row)]

build_dist_lut_lo ==
  [d \in 0 .. 256 |-> IF d < 1 THEN 0
                      ELSE LET row == RowAtOrBelow(DistRows, d) IN Packed(row.sym, row)]

build_dist_lut_hi ==
  [h \in 0 .. 255 |->
     LET writers == {w \in 17 .. 30 : /\ HighIndex(DistRows[w].base) <= h
                                      /\ h <= HighIndex(RowEnd(DistRows, w, 32769) - 1)}
     IN  IF writers = {} THEN 0
         ELSE Packed(DistRows[LargestOf(writers)].sym, DistRows[LargestOf(writers)])]

Unpacked(p, bias, x) ==
  [sym |-> (p % 2 ^ 8) + bias, extra |-> (p \div 2 ^ 8) % 2 ^ 8, value |-> x - (p \div 2 ^ 16)]

host_length_code(length) == Unpacked(build_len_lut[length], 257, length)

host_distance_code(distance) ==
  Unpacked(IF distance <= 256 THEN build_dist_lut_lo[distance]
           ELSE build_dist_lut_hi[HighIndex(distance)], 0, distance)
-----------------------------------------------------------------------------
(* The fixed code of RFC 1951 3.2.6.                                       *)
fixed_litlen_code(sym) ==
  CASE sym \in 0 .. 143   -> [code |-> 48 + sym, bits |-> 8]
    [] sym \in 144 .. 255 -> [code |-> 400 + (sym - 144), bits |-> 9]
    [] sym \in 256 .. 279 -> [code |-> sym - 256, bits |-> 7]
    [] sym \in 280 .. 287 -> [code |-> 192 + (sym - 280), bits |-> 8]

fixed_dist_code(sym) == [code |-> sym, bits |-> 5]
=============================================================================
