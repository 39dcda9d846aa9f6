---------------------------- MODULE DeflateBlock ----------------------------
(***************************************************************************)
(* One DEFLATE block, from the tokens of a chunk to its bits, by each of   *)
(* the encoders of the GPU backend:                                        *)
(*                                                                         *)
(*   "slow"   encode_block and encode_fixed_block of deflate.rs            *)
(*   "fast"   encode_block_fast, the one encode_one calls                  *)
(*   "gpu"    emit_dynamic_block_v3 up to the dispatch: the tables, the    *)
(*            header and the number of bits the host computes.  The        *)
(*            passes of the shader are the module HuffmanEmit.             *)
(*   "atoms"  emit_fixed_block of huffman_emit.rs                          *)
(*                                                                         *)
(* Each encoder counts symbols, builds two codes, run-length codes their   *)
(* lengths (LengthRle), builds a third code for those and writes header    *)
(* and tokens; when a code cannot be built it falls back, "gpu" to "fast"  *)
(* and the others to the fixed code.                                       *)
(*                                                                         *)
(* A bit string is the set of positions that hold a one, and a length: a   *)
(* write ORs its value in at the end, as every accumulator of the code     *)
(* does.                                                                   *)
(***************************************************************************)
EXTENDS DeflateTables, LengthRle, Inflate

CONSTANTS
  Streams,   \* the token streams that are encoded
  LitCap,    \* 15: the longest literal or distance code
  MetaCap    \* 7: the longest code of the header

ASSUME DeflateAssumption == LitCap \in 1 .. 15 /\ MetaCap \in 5 .. 7

(* Literals carry their byte where a reference has its distance.           *)
DeflateTokens == [length : {0}, distance : 0 .. 255] \cup [length : 3 .. 258, distance : 1 .. 32768]

ASSUME StreamsAssumption == Streams \subseteq Seq(DeflateTokens)

VARIABLES
  tokens,
  encoder,
  phase,  \* "begin" | "litlen" | "dist" | "header" | "rle" | "meta" | "fixed" | "emit" | "done"
  work,   \* the frequencies try_build_code_lengths is at
  built,  \* the code lengths of the three alphabets
  out     \* the bits

blockvars == <<tokens, encoder, phase, work, built, out, rlevars>>

Encoders == {"slow", "fast", "gpu", "atoms"}
NoBits == [ones |-> {}, len |-> 0]

BlockInit ==
  /\ tokens \in Streams
  /\ encoder \in Encoders
  /\ phase = "begin"
  /\ work = <<>> /\ out = NoBits
  /\ built = [litlen |-> <<>>, dist |-> <<>>, meta |-> <<>>]
  /\ lens = <<>> /\ RleInit
-----------------------------------------------------------------------------
is_literal(t) == t.length = 0

(* The table each encoder reads.                                           *)
LengthOf(enc, t) ==
  CASE enc \in {"slow", "atoms"} -> length_code(t.length)
    [] enc = "fast" -> FastLength(t.length)
    [] enc = "gpu" -> host_length_code(t.length)

DistanceOf(enc, t) ==
  CASE enc \in {"slow", "atoms"} -> distance_code(t.distance)
    [] enc = "fast" -> FastDistance(t.distance)
    [] enc = "gpu" -> host_distance_code(t.distance)

LitSymbol(enc, t) == IF is_literal(t) THEN t.distance ELSE LengthOf(enc, t).sym

(* The end of the block is counted once.                                   *)
LitFrequencies(enc) ==
  LET syms == [k \in 1 .. Len(tokens) |-> LitSymbol(enc, tokens[k])]
  IN  [s \in 0 .. 285 |->
         Cardinality({k \in DOMAIN syms : syms[k] = s}) + (IF s = 256 THEN 1 ELSE 0)]

DistFrequencies(enc) ==
  [s \in 0 .. 29 |-> Cardinality({k \in DOMAIN tokens :
                                    ~ is_literal(tokens[k]) /\ DistanceOf(enc, tokens[k]).sym = s})]

MetaFrequencies(entries) ==
  [s \in 0 .. 18 |-> Cardinality({k \in DOMAIN entries : entries[k].code = s})]
-----------------------------------------------------------------------------
(* Bits.  BitWriter and HostBitWriter mask the value, VecBitWriter does    *)
(* not: what exceeds count would be ORed into the bits that follow.        *)
Masked(enc) == enc # "fast"

Piece(value, bits) == [value |-> value, bits |-> bits]
Huffman(lens_, codes, s) == Piece(ReverseBits(codes[s], lens_[s]), lens_[s])
Extra(coded) == IF coded.extra > 0 THEN <<Piece(coded.value, coded.extra)>> ELSE <<>>

Put(b, p, masked) ==
  [ones |-> b.ones \cup {b.len + k : k \in BitsOf(IF masked THEN p.value % 2 ^ p.bits ELSE p.value)},
   len  |-> b.len + p.bits]

Written(pieces, masked) ==
  LET Upto[k \in 0 .. Len(pieces)] == IF k = 0 THEN NoBits ELSE Put(Upto[k - 1], pieces[k], masked)
  IN  Upto[Len(pieces)]

Concatenated(parts) ==
  LET Upto[k \in 0 .. Len(parts)] == IF k = 0 THEN <<>> ELSE Upto[k - 1] \o parts[k]
  IN  Upto[Len(parts)]

(* The one to four writes of a token.                                      *)
TokenPieces(enc, t, lit, litCodes, dist, distCodes) ==
  IF is_literal(t) THEN <<Huffman(lit, litCodes, t.distance)>>
  ELSE LET l == LengthOf(enc, t)
           d == DistanceOf(enc, t)
       IN  <<Huffman(lit, litCodes, l.sym)>> \o Extra(l) \o <<Huffman(dist, distCodes, d.sym)>> \o Extra(d)

Body(enc, lit, litCodes, dist, distCodes) ==
  Concatenated([k \in 1 .. Len(tokens) |-> TokenPieces(enc, tokens[k], lit, litCodes, dist, distCodes)])
  \o <<Huffman(lit, litCodes, 256)>>
-----------------------------------------------------------------------------
(* begin: the entry points.                                                *)
CountFrequencies ==
  /\ phase = "begin"
  /\ encoder \in {"slow", "fast"} \/ (encoder = "gpu" /\ tokens # <<>>)
  /\ phase' = "litlen"
  /\ work' = LitFrequencies(encoder)
  /\ UNCHANGED <<tokens, encoder, built, out, rlevars>>

(* encode_fixed_block, and emit_fixed_block of the atoms.                  *)
EncodeFixed ==
  /\ phase = "begin" /\ encoder \in {"slow", "atoms"}
  /\ phase' = "fixed"
  /\ UNCHANGED <<tokens, encoder, work, built, out, rlevars>>

(* empty_fixed_block: two bytes made by hand.                              *)
EmitEmpty ==
  /\ phase = "begin" /\ encoder = "gpu" /\ tokens = <<>>
  /\ out' = [ones |-> {0, 1}, len |-> 16]
  /\ phase' = "done"
  /\ UNCHANGED <<tokens, encoder, work, built, rlevars>>

(* One round of try_build_code_lengths for the alphabet of the phase.      *)
Building == phase \in {"litlen", "dist", "meta"}
Cap == IF phase = "meta" THEN MetaCap ELSE LitCap
PhaseAfter == CASE phase = "litlen" -> "dist" [] phase = "dist" -> "header" [] phase = "meta" -> "emit"

Accept(lengths) ==
  /\ built' = [built EXCEPT ![phase] = lengths]
  /\ phase' = PhaseAfter
  /\ work' = IF phase = "litlen" THEN DistFrequencies(encoder) ELSE <<>>
  /\ UNCHANGED <<tokens, encoder, out, rlevars>>

AcceptDegenerate ==
  /\ Building /\ Degenerate(work)
  /\ Accept(DegenerateLengths(work))

AcceptTree ==
  /\ Building /\ ~ Degenerate(work) /\ ~ TooMany(work, Cap)
  /\ LET lengths == StandardHuffman(work) IN Tallest(lengths) <= Cap /\ Accept(lengths)

HalveFrequencies ==
  /\ Building /\ ~ Degenerate(work) /\ ~ TooMany(work, Cap)
  /\ Tallest(StandardHuffman(work)) > Cap
  /\ work' = Halved(work)
  /\ UNCHANGED <<tokens, encoder, phase, built, out, rlevars>>

(* try_build_code_lengths answers None: encode_block and encode_block_fast *)
(* write a fixed block, encode_one hands the tokens of a failed "gpu" to   *)
(* encode_block_fast.                                                      *)
FallBack ==
  /\ Building /\ ~ Degenerate(work) /\ TooMany(work, Cap)
  /\ \/ /\ encoder = "gpu" /\ encoder' = "fast" /\ phase' = "begin"
     \/ /\ encoder # "gpu" /\ phase' = "fixed" /\ UNCHANGED encoder
  /\ work' = <<>>
  /\ UNCHANGED <<tokens, built, out, rlevars>>
-----------------------------------------------------------------------------
(* header: a distance code of fewer than two symbols is padded to two, the *)
(* same for the literals, and the two tables go to the run-length coding   *)
(* in one sequence, without the zeros at their ends.                       *)
PadDistancesFault(dist) ==
  IF UsedSymbols(dist) = {} THEN [dist EXCEPT ![0] = 1, ![1] = 1] ELSE dist
PadDistances(dist) ==
  LET used == UsedSymbols(dist)
      only == CHOOSE s \in used : TRUE
  IN  CASE Cardinality(used) = 0 -> [dist EXCEPT ![0] = 1, ![1] = 1]
        [] Cardinality(used) = 1 -> [dist EXCEPT ![only] = 1, ![1 - Lesser(only, 1)] = 1]
        [] OTHER -> dist

PadLiterals(lit) ==
  IF Cardinality(UsedSymbols(lit)) < 2 THEN [lit EXCEPT ![0] = 1, ![256] = 1] ELSE lit

trim_to_minFault(table, min) == LargestOf({min} \cup UsedSymbols(table))
trim_to_min(table, min) == LargestOf({min} \cup {s + 1 : s \in UsedSymbols(table)})

NLit(lit) == trim_to_min(lit, 257)
NDist(dist) == trim_to_min(dist, 1)

StartHeader ==
  /\ phase = "header"
  /\ LET lit == PadLiterals(built.litlen)
         dist == PadDistances(built.dist)
     IN  /\ built' = [built EXCEPT !.litlen = lit, !.dist = dist]
         /\ lens' = [k \in 1 .. NLit(lit) |-> lit[k - 1]] \o [k \in 1 .. NDist(dist) |-> dist[k - 1]]
  /\ phase' = "rle"
  /\ UNCHANGED <<tokens, encoder, work, out, i, run, cur, rle, decoded, rlepc>>

EncodeLengths == phase = "rle" /\ RleNext /\ UNCHANGED <<tokens, encoder, phase, work, built, out>>

StartMeta ==
  /\ phase = "rle" /\ rlepc = "done"
  /\ work' = MetaFrequencies(rle)
  /\ phase' = "meta"
  /\ UNCHANGED <<tokens, encoder, built, out, rlevars>>
-----------------------------------------------------------------------------
META_ORDER == <<16, 17, 18, 0, 8, 7, 9, 6, 10, 5, 11, 4, 12, 3, 13, 2, 14, 1, 15>>

HclenCount(meta) == LargestOf({4} \cup {k \in 1 .. 19 : meta[META_ORDER[k]] > 0})

HeaderPieces ==
  LET meta == built.meta
      codes == CanonicalCodes(meta)
  IN  <<Piece(5, 3), Piece(NLit(built.litlen) - 257, 5), Piece(NDist(built.dist) - 1, 5),
        Piece(HclenCount(meta) - 4, 4)>>
      \o [k \in 1 .. HclenCount(meta) |-> Piece(meta[META_ORDER[k]], 3)]
      \o Concatenated([k \in 1 .. Len(rle) |->
           <<Huffman(meta, codes, rle[k].code)>>
           \o (IF rle[k].extra_bits > 0 THEN <<Piece(rle[k].extra_value, rle[k].extra_bits)>> ELSE <<>>)])

DynamicBits(enc) ==
  Written(HeaderPieces \o Body(enc, built.litlen, CanonicalCodes(built.litlen),
                               built.dist, CanonicalCodes(built.dist)), Masked(enc))

(* What the host of the GPU path sums up before it dispatches: the body    *)
(* from the packed tables and the code lengths, then header and end.       *)
BodyBitsFault ==
  LET bits == [k \in 1 .. Len(tokens) |->
                 IF is_literal(tokens[k]) THEN built.litlen[tokens[k].distance]
                 ELSE LET l == host_length_code(tokens[k].length)
                          d == host_distance_code(tokens[k].distance)
                      IN  built.litlen[l.sym] + built.dist[d.sym] + d.extra]
      Sum[k \in 0 .. Len(tokens)] == IF k = 0 THEN 0 ELSE Sum[k - 1] + bits[k]
  IN  Sum[Len(tokens)]
BodyBits ==
  LET bits == [k \in 1 .. Len(tokens) |->
                 IF is_literal(tokens[k]) THEN built.litlen[tokens[k].distance]
                 ELSE LET l == host_length_code(tokens[k].length)
                          d == host_distance_code(tokens[k].distance)
                      IN  built.litlen[l.sym] + l.extra + built.dist[d.sym] + d.extra]
      Sum[k \in 0 .. Len(tokens)] == IF k = 0 THEN 0 ELSE Sum[k - 1] + bits[k]
  IN  Sum[Len(tokens)]

TotalBits == Written(HeaderPieces, TRUE).len + BodyBits + built.litlen[256]

EmitDynamic ==
  /\ phase = "emit"
  /\ out' = DynamicBits(encoder)
  /\ phase' = "done"
  /\ UNCHANGED <<tokens, encoder, work, built, rlevars>>

FixedPieces(enc) ==
  LET lit == [s \in 0 .. 287 |-> fixed_litlen_code(s).bits]
      codes == [s \in 0 .. 287 |-> fixed_litlen_code(s).code]
  IN  <<Piece(3, 3)>> \o Body(enc, lit, codes, [s \in 0 .. 29 |-> fixed_dist_code(s).bits],
                              [s \in 0 .. 29 |-> fixed_dist_code(s).code])

(* The atoms: every piece with the bit offset it will have.                *)
AtomsFault(pieces) ==
  LET Offset[k \in 0 .. Len(pieces)] == IF k = 0 THEN 0 ELSE Offset[k - 1] + pieces[k].bits
  IN  [k \in 1 .. Len(pieces) |-> [bit_offset |-> Offset[k], value |-> pieces[k].value,
                                   n_bits |-> pieces[k].bits]]
Atoms(pieces) ==
  LET Offset[k \in 0 .. Len(pieces)] == IF k = 0 THEN 0 ELSE Offset[k - 1] + pieces[k].bits
  IN  [k \in 1 .. Len(pieces) |-> [bit_offset |-> Offset[k - 1], value |-> pieces[k].value,
                                   n_bits |-> pieces[k].bits]]

(* The shader huffman_emit.wgsl: one invocation per atom, each an OR.      *)
Placed(atoms) ==
  LET last == atoms[Len(atoms)]
  IN  [ones |-> UNION {{atoms[k].bit_offset + j : j \in BitsOf(atoms[k].value)} : k \in DOMAIN atoms},
       len |-> last.bit_offset + last.n_bits]

EmitFixed ==
  /\ phase = "fixed"
  /\ out' = IF encoder = "atoms" THEN Placed(Atoms(FixedPieces(encoder)))
            ELSE Written(FixedPieces(encoder), Masked(encoder))
  /\ phase' = "done"
  /\ UNCHANGED <<tokens, encoder, work, built, rlevars>>

Finished == phase = "done" /\ UNCHANGED blockvars

BlockNext ==
  \/ CountFrequencies \/ EncodeFixed \/ EmitEmpty
  \/ AcceptDegenerate \/ AcceptTree \/ HalveFrequencies \/ FallBack
  \/ StartHeader \/ EncodeLengths \/ StartMeta
  \/ EmitDynamic \/ EmitFixed \/ Finished

BlockSpec == BlockInit /\ [][BlockNext]_blockvars
-----------------------------------------------------------------------------
(* Any decoder gets the tokens back from the block, whichever encoder made *)
(* it and on whichever path: tables, codes, header and extra bits of every *)
(* form agree with RFC 1951.                                               *)
BlockDecodes == phase = "done" => Inflated(out) = tokens

(* The three codes of a header use every bit string.  zlib refuses a       *)
(* block whose codes do not; the padding of the distance code is there for *)
(* that, and nothing pads the code of the lengths.                         *)
CodesComplete ==
  phase = "emit" =>
    /\ Slack(built.litlen, LitCap) = 0
    /\ Slack(built.dist, LitCap) = 0
    /\ Slack(built.meta, MetaCap) = 0

(* The encoders are interchangeable: the same tokens on the same path give *)
(* the same bits from encode_block, from the unmasked writer and direct    *)
(* tables of encode_block_fast, from the packed tables of the GPU and from *)
(* atoms placed in any order.                                              *)
EncodersAgree ==
  phase = "done" /\ ~ (encoder = "gpu" /\ tokens = <<>>) =>
    out = IF built.meta # <<>> THEN DynamicBits("slow") ELSE Written(FixedPieces("slow"), TRUE)

(* The bits the host announces to the GPU path are those of the block: the *)
(* end of block is placed by them and the read-back is cut there.          *)
AnnouncedBitsExact ==
  phase = "done" /\ encoder = "gpu" /\ tokens # <<>> => out.len = TotalBits

(* The loop of try_build_code_lengths ends: halving stops changing the     *)
(* frequencies only when the tree over them fits.                          *)
HalvingEnds ==
  Building /\ ~ Degenerate(work) /\ ~ TooMany(work, Cap) /\ Halved(work) = work =>
    Tallest(StandardHuffman(work)) <= Cap
=============================================================================
