------------------------------ MODULE Lz77Hash ------------------------------
(***************************************************************************)
(* Match finding on the GPU (lz77_hash.rs and its two shaders): for every  *)
(* position of a chunk, a literal or a reference to an earlier occurrence. *)
(* The build pass records, for each hash of three bytes and each segment   *)
(* of the chunk, the oldest and the newest position; its invocations run   *)
(* in any order.  The lookup pass tries these candidates.  Chunks go one   *)
(* after another through the same buffers, whose tables are reset only as  *)
(* far as the chunk needs them, in a layout that depends on its length.    *)
(*                                                                         *)
(* Positions count from 0, as in the code.  A token is a literal when its  *)
(* length is 0, and then carries the byte as its distance; packing the two *)
(* in 32 bits loses nothing, as neither exceeds 2^16 - 1.                  *)
(***************************************************************************)
EXTENDS Integers, Sequences, FiniteSetsExt

CONSTANTS ByteBits,    \* bits of a byte
          Window, MaxMatch,
          LongMatch,   \* a match this long makes the oldest candidate useless
          SegLog2,
          HashBits,
          WordBits, Multiplier,   \* of the arithmetic of hash3
          MaxLen,      \* bound: bytes of a chunk, also what the buffers hold
          MaxChunks    \* bound: chunks sent through the buffers

ASSUME HashAssumption ==
  /\ {ByteBits, Window, MaxMatch, LongMatch, Multiplier, MaxLen, MaxChunks} \subseteq Nat \ {0}
  /\ {SegLog2, HashBits, WordBits} \subseteq Nat
  /\ HashBits <= WordBits /\ 3 * ByteBits <= WordBits
  /\ MaxMatch >= 3 /\ 2^SegLog2 <= Window

(* Arithmetic that holds of all natural numbers, for the proofs: the       *)
(* provers know nothing of powers of a variable.                           *)
ASSUME PowersAssumption ==
  /\ {2^ByteBits, 2^SegLog2, 2^HashBits, 2^(WordBits - HashBits)} \subseteq Nat \ {0}
  /\ 2^WordBits = 2^HashBits * 2^(WordBits - HashBits)

VARIABLES
  input,       \* the chunk uploaded
  seg_oldest,  \* table of the build pass, kept from chunk to chunk
  seg_newest,
  building,    \* positions whose build invocation has not run
  tokens,      \* one per position, once the lookup pass has run
  phase,       \* upload, build, or walk when the tokens are there
  chunks       \* chunks uploaded so far

matchVars == <<input, seg_oldest, seg_newest, building, tokens, phase, chunks>>

Byte       == 0 .. 2^ByteBits - 1

SegSize    == 2^SegLog2
Buckets    == 2^HashBits
NumSegs(n) == (n + SegSize - 1) \div SegSize
TableSize  == Buckets * NumSegs(MaxLen)

(* Stands for 0xFFFFFFFF, above every position plus one. *)
Unset == MaxLen + 1

ReadByte(p) == input[p + 1]

(* Positions with three bytes to hash. *)
Hashed == 0 .. Len(input) - 3

Hash3(p) ==
  LET x == ReadByte(p) * 2^(2 * ByteBits) + ReadByte(p + 1) * 2^ByteBits + ReadByte(p + 2)
  IN  ((x * Multiplier) % 2^WordBits) \div 2^(WordBits - HashBits)

Slot(h, seg) == h * NumSegs(Len(input)) + seg

MatchInit ==
  /\ input = <<>> /\ building = {} /\ tokens = <<>>
  /\ seg_oldest = [s \in 0 .. TableSize - 1 |-> 0]
  /\ seg_newest = [s \in 0 .. TableSize - 1 |-> 0]
  /\ phase = "upload" /\ chunks = 0
-----------------------------------------------------------------------------
ResetFault(table, value, bytes) ==
  [s \in DOMAIN table |-> IF s < Buckets THEN value ELSE table[s]]

(* The entries a chunk of these bytes uses are overwritten. *)
Reset(table, value, bytes) ==
  [s \in DOMAIN table |-> IF s < Buckets * NumSegs(Len(bytes)) THEN value ELSE table[s]]

Upload(bytes) ==
  /\ phase = "upload" /\ chunks < MaxChunks
  /\ input' = bytes
  /\ seg_oldest' = Reset(seg_oldest, Unset, bytes)
  /\ seg_newest' = Reset(seg_newest, 0, bytes)
  /\ building' = 0 .. Len(bytes) - 3
  /\ tokens' = <<>>
  /\ phase' = "build" /\ chunks' = chunks + 1

(* One invocation of build: its two atomics are on different tables, which *)
(* nothing reads in this pass.                                             *)
Build(p) ==
  /\ phase = "build" /\ p \in building
  /\ LET s == Slot(Hash3(p), p \div SegSize)
     IN  /\ seg_oldest' = [seg_oldest EXCEPT ![s] = Min({@, p + 1})]
         /\ seg_newest' = [seg_newest EXCEPT ![s] = Max({@, p + 1})]
  /\ building' = building \ {p}
  /\ UNCHANGED <<input, tokens, phase, chunks>>
-----------------------------------------------------------------------------
SameAt(cand, p, len) == \A i \in 0 .. len - 1 : ReadByte(cand + i) = ReadByte(p + i)

(* A table entry names a candidate for p. *)
Usable(raw, p) ==
  /\ raw \notin {0, Unset}
  /\ raw - 1 < p /\ p - (raw - 1) <= Window
  /\ SameAt(raw - 1, p, 3)

(* How far the occurrences go on alike, within the chunk. *)
Extent(cand, p) ==
  Max({len \in 3 .. MaxMatch : p + len <= Len(input) /\ SameAt(cand, p, len)})

(* The candidate replaces the best match so far if it is longer. *)
TryCandidate(raw, p, best) ==
  IF Usable(raw, p) /\ Extent(raw - 1, p) > best.length
    THEN [length |-> Extent(raw - 1, p), distance |-> p - (raw - 1)]
    ELSE best

SkipOldestFault(best) == TRUE

SkipOldest(best) == best.length >= LongMatch

InSegment(seg, p, best) ==
  LET s     == Slot(Hash3(p), seg)
      newer == TryCandidate(seg_newest[s], p, best)
  IN  IF SkipOldest(newer) THEN newer ELSE TryCandidate(seg_oldest[s], p, newer)

(* The segments from p's own back to the first.  The code leaves the loop  *)
(* at a match of MaxMatch, which no candidate replaces.                    *)
BestMatch(p) ==
  LET last    == p \div SegSize
      none    == [length |-> 0, distance |-> ReadByte(p)]
      from[seg \in 0 .. last] == InSegment(seg, p, IF seg = last THEN none ELSE from[seg + 1])
  IN  from[0]

TokenAt(p) == IF p \in Hashed THEN BestMatch(p) ELSE [length |-> 0, distance |-> ReadByte(p)]

(* The lookup pass starts when the build pass has ended.  Each invocation  *)
(* reads tables that no longer change and writes a token of its own.       *)
Lookup ==
  /\ phase = "build" /\ building = {}
  /\ tokens' = [k \in 1 .. Len(input) |-> TokenAt(k - 1)]
  /\ phase' = "walk"
  /\ UNCHANGED <<input, seg_oldest, seg_newest, building, chunks>>

MatchNext ==
  \/ \E n \in 1 .. MaxLen : \E bytes \in [1 .. n -> Byte] : Upload(bytes)
  \/ \E p \in building : Build(p)
  \/ Lookup
-----------------------------------------------------------------------------
(* Whatever order the invocations of the build pass ran in and whatever    *)
(* chunk used the buffers before, the lookup pass reads the oldest and     *)
(* newest position of the current chunk for every hash and segment:        *)
(* lz77_hash_build.wgsl:45-54 with the reset of lz77_hash.rs:582-587.      *)
TablesExact ==
  phase = "build" /\ building = {} =>
    \A h \in 0 .. Buckets - 1, seg \in 0 .. NumSegs(Len(input)) - 1 :
      LET here == {p + 1 : p \in {q \in Hashed : Hash3(q) = h /\ q \div SegSize = seg}}
      IN  /\ seg_oldest[Slot(h, seg)] = IF here = {} THEN Unset ELSE Min(here)
          /\ seg_newest[Slot(h, seg)] = IF here = {} THEN 0 ELSE Max(here)

(* Two candidates per segment are enough: a position whose three bytes     *)
(* occur before it, within the window, gets a match, unless other bytes    *)
(* with the same hash hid the occurrence in its segment.  In particular    *)
(* one in the position's own segment is found although the newest entry    *)
(* there is the position itself or a later one (lz77_hash_build.wgsl:7-10).*)
NoRepeatMissed ==
  phase = "walk" =>
    \A p \in Hashed : \A q \in 0 .. p - 1 :
      /\ p - q <= Window /\ SameAt(q, p, 3)
      /\ \A r \in Hashed :
           r \div SegSize = q \div SegSize /\ Hash3(r) = Hash3(p) => SameAt(r, p, 3)
      => tokens[p + 1].length >= 3
=============================================================================
