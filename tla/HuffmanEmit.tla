----------------------------- MODULE HuffmanEmit -----------------------------
(***************************************************************************)
(* The emission of a block on the GPU (huffman_emit_v2.rs, dispatch_emit,  *)
(* and huffman_emit_v2.wgsl): a first pass scans the bit lengths of the    *)
(* tokens in every workgroup, a second scans the totals of the workgroups, *)
(* a third places every token's bits with atomic ORs, and the host reads   *)
(* back as many bytes as it has counted itself.                            *)
(*                                                                         *)
(* A token is the sequence of its one to four writes, a write its number   *)
(* of bits and the set of those that are one; DeflateBlock shows that they *)
(* are the right ones.  A buffer of bits is the set of positions that hold *)
(* a one.  Blocks are encoded one after the other with one buffer set from *)
(* the pool, which keeps what the block before left in it.                 *)
(***************************************************************************)
EXTENDS WorkgroupScan, Sequences, FiniteSets

CONSTANTS
  Blocks,     \* what may be encoded: records of header, tokens and eob
  MaxBlocks,  \* how many are encoded with the buffer set
  WordBits,   \* bits of a word of the output (32)
  ByteBits    \* bits of a byte (8)

Ceiling(a, b) == (a + b - 1) \div b
Lesser(a, b) == IF a < b THEN a ELSE b

(* The bits of a token, as token_bits adds them up.                        *)
token_bits(t) ==
  LET Sum[k \in 0 .. Len(t)] == IF k = 0 THEN 0 ELSE Sum[k - 1] + t[k].bits
  IN  Sum[Len(t)]

Size(b) == Len(b.tokens)
Groups(n) == Ceiling(n, WgSize)

ASSUME SizesAssumption == WordBits \in Nat \ {0} /\ ByteBits \in Nat \ {0}

Write == [bits : Nat, ones : SUBSET Nat]
Fits(w) == w.ones \subseteq 0 .. w.bits - 1

(* The host asserts that one workgroup can scan the totals; no write has a *)
(* bit above those it counts.                                              *)
ASSUME BlocksAssumption ==
  \A b \in Blocks :
    /\ b.header \in Write /\ Fits(b.header) /\ b.eob \in Write /\ Fits(b.eob)
    /\ b.tokens \in Seq(Seq(Write)) /\ Size(b) # 0 /\ Groups(Size(b)) <= WgSize
    /\ \A k \in 1 .. Size(b) : \A m \in 1 .. Len(b.tokens[k]) : Fits(b.tokens[k][m])

(* global_invocation_id                                                    *)
Global(g, l) == g * WgSize + l

VARIABLES
  blocks,   \* the blocks taken up so far, the last one is in work
  pass,     \* "idle" | "count" | "scan" | "totals" | "emit"
  sums,     \* the running sum of the host over the tokens
  groups,   \* the workgroups of a scan
  tokens, per_token_offset, workgroup_totals, workgroup_bases, output,  \* the buffer set
  emits,    \* the writes the invocations of the third pass have still to do
  results   \* what the calls returned

set == <<tokens, per_token_offset, workgroup_totals, workgroup_bases, output>>
vars == <<blocks, pass, sums, groups, set, emits, results>>

Block == blocks[Len(blocks)]
N == Size(Block)

Init ==
  /\ blocks = <<>> /\ pass = "idle" /\ sums = <<0>> /\ groups = <<>> /\ emits = <<>>
  /\ results = <<>>
  /\ tokens = <<>> /\ per_token_offset = <<>> /\ workgroup_totals = <<>> /\ workgroup_bases = <<>>
  /\ output = {}

(* A buffer is a function on the elements written so far.                  *)
Put(buffer, i, x) == [k \in DOMAIN buffer \cup {i} |-> IF k = i THEN x ELSE buffer[k]]
At(buffer, i) == IF i \in DOMAIN buffer THEN buffer[i] ELSE 0
-----------------------------------------------------------------------------
(* acquire: the set the block before has released, or a new one.           *)
Acquire ==
  /\ pass = "idle" /\ Len(blocks) < MaxBlocks
  /\ \E b \in Blocks : blocks' = Append(blocks, b)
  /\ pass' = "count" /\ sums' = <<0>>
  /\ UNCHANGED <<groups, set, emits, results>>

(* The host adds up the body, token by token.                              *)
CountToken ==
  /\ pass = "count" /\ Len(sums) <= N
  /\ sums' = Append(sums, sums[Len(sums)] + token_bits(Block.tokens[Len(sums)]))
  /\ UNCHANGED <<blocks, pass, groups, set, emits, results>>

LiveWords(b) == Ceiling(b.header.bits + Size(b) * WordBits + WordBits \div 2, WordBits) + 1
ClearedFault == output
Cleared == {p \in output : p >= LiveWords(Block) * WordBits}

(* Token i of the dispatch is token i + 1 of the sequence.                 *)
Uploaded ==
  [i \in DOMAIN tokens \cup (0 .. N - 1) |-> IF i < N THEN Block.tokens[i + 1] ELSE tokens[i]]

Input(i) == IF i < N THEN token_bits(Uploaded[i]) ELSE 0

(* Upload, clear, header and the first pass.                               *)
Dispatch ==
  /\ pass = "count" /\ Len(sums) = N + 1
  /\ tokens' = Uploaded
  /\ output' = Cleared \cup Block.header.ones
  /\ groups' = [g \in 0 .. Groups(N) - 1 |-> Started([l \in Lanes |-> Input(Global(g, l))])]
  /\ pass' = "scan"
  /\ UNCHANGED <<blocks, sums, per_token_offset, workgroup_totals, workgroup_bases, emits, results>>
-----------------------------------------------------------------------------
(* The segments of a scan, in the first and the second pass.               *)
InGroup(g, s) ==
  /\ groups' = [groups EXCEPT ![g] = s]
  /\ UNCHANGED <<blocks, pass, sums, emits, results>>

LaneStores(g, l) == MayRun(groups[g], l, "store") /\ InGroup(g, Store(groups[g], l)) /\ UNCHANGED set
LaneReads(g, l) == MayRun(groups[g], l, "read") /\ InGroup(g, ReadAddend(groups[g], l)) /\ UNCHANGED set
LaneAdds(g, l) == MayRun(groups[g], l, "add") /\ InGroup(g, AddAddend(groups[g], l)) /\ UNCHANGED set
BarrierOpens(g) == AtBarrier(groups[g]) /\ InGroup(g, PassBarrier(groups[g])) /\ UNCHANGED set

(* The end of compute_and_local_scan.                                      *)
LaneLeavesScan(g, l) ==
  /\ pass = "scan" /\ MayRun(groups[g], l, "out")
  /\ InGroup(g, Leave(groups[g], l))
  /\ LET i == Global(g, l)
     IN  per_token_offset' = IF i < N THEN Put(per_token_offset, i, Exclusive(groups[g], l))
                             ELSE per_token_offset
  /\ workgroup_totals' = IF l = WgSize - 1 THEN Put(workgroup_totals, g, Inclusive(groups[g], l))
                         ELSE workgroup_totals
  /\ UNCHANGED <<tokens, workgroup_bases, output>>

(* scan_totals starts when every workgroup of the first pass has ended.    *)
StartTotals ==
  /\ pass = "scan" /\ \A g \in DOMAIN groups : AllLeft(groups[g])
  /\ groups' = [g \in {0} |-> Started([l \in Lanes |->
                  IF l < Groups(N) THEN workgroup_totals[l] ELSE 0])]
  /\ pass' = "totals"
  /\ UNCHANGED <<blocks, sums, set, emits, results>>

LaneLeavesTotals(l) ==
  /\ pass = "totals" /\ MayRun(groups[0], l, "out")
  /\ InGroup(0, Leave(groups[0], l))
  /\ workgroup_bases' = IF l < Groups(N) THEN Put(workgroup_bases, l, Exclusive(groups[0], l))
                        ELSE workgroup_bases
  /\ UNCHANGED <<tokens, per_token_offset, workgroup_totals, output>>
-----------------------------------------------------------------------------
(* The third pass.  An invocation is a pair of workgroup and lane, as in   *)
(* the shader; it has the writes in todo left, the next goes to bit off,   *)
(* and high says that only its part in the next word is left.              *)
Invocations == {i \in (0 .. Ceiling(N + 1, WgSize) - 1) \X Lanes : Global(i[1], i[2]) <= N}

TokenOffset(g, l) == Block.header.bits + workgroup_bases[g] + per_token_offset[Global(g, l)]

LastGroup == Groups(N) - 1
EndOffset == Block.header.bits + At(workgroup_bases, LastGroup) + At(workgroup_totals, LastGroup)

Begun(g, l) ==
  IF Global(g, l) < N
  THEN [todo |-> tokens[Global(g, l)], off |-> TokenOffset(g, l), high |-> FALSE]
  ELSE [todo |-> <<Block.eob>>, off |-> EndOffset, high |-> FALSE]

StartEmit ==
  /\ pass = "totals" /\ AllLeft(groups[0])
  /\ emits' = [i \in Invocations |-> Begun(i[1], i[2])]
  /\ groups' = <<>> /\ pass' = "emit"
  /\ UNCHANGED <<blocks, sums, set, results>>

Low(e) == Lesser(Head(e.todo).bits, WordBits - (e.off % WordBits))

(* One atomicOr of write_bits.                                             *)
LowWord(e) == {e.off + j : j \in {k \in Head(e.todo).ones : k < Low(e)}}
HighWord(e) ==
  {(e.off \div WordBits + 1) * WordBits + (j - Low(e)) : j \in {k \in Head(e.todo).ones : k >= Low(e)}}

Past(e) == [todo |-> Tail(e.todo), off |-> e.off + Head(e.todo).bits, high |-> FALSE]

EmitLow(i) ==
  /\ pass = "emit" /\ emits[i].todo # <<>> /\ ~ emits[i].high
  /\ output' = output \cup LowWord(emits[i])
  /\ emits' = [emits EXCEPT ![i] = IF Head(@.todo).bits > Low(@) THEN [@ EXCEPT !.high = TRUE] ELSE Past(@)]
  /\ UNCHANGED <<blocks, pass, sums, groups, tokens, per_token_offset, workgroup_totals,
                 workgroup_bases, results>>

EmitHigh(i) ==
  /\ pass = "emit" /\ emits[i].todo # <<>> /\ emits[i].high
  /\ output' = output \cup HighWord(emits[i])
  /\ emits' = [emits EXCEPT ![i] = Past(@)]
  /\ UNCHANGED <<blocks, pass, sums, groups, tokens, per_token_offset, workgroup_totals,
                 workgroup_bases, results>>

(* The copy to staging, the read-back of total_bits, release.              *)
TotalBits == Block.header.bits + sums[N + 1] + Block.eob.bits

ReadBack ==
  /\ pass = "emit" /\ \A i \in DOMAIN emits : emits[i].todo = <<>>
  /\ LET bits == Ceiling(TotalBits, ByteBits) * ByteBits
     IN  results' = Append(results, [len |-> bits, ones |-> {p \in output : p < bits}])
  /\ emits' = <<>> /\ pass' = "idle"
  /\ UNCHANGED <<blocks, sums, groups, set>>

Finished == pass = "idle" /\ Len(blocks) = MaxBlocks /\ UNCHANGED vars

Next ==
  \/ Acquire \/ CountToken \/ Dispatch
  \/ \E g \in DOMAIN groups, l \in Lanes :
       LaneStores(g, l) \/ LaneReads(g, l) \/ LaneAdds(g, l) \/ LaneLeavesScan(g, l)
  \/ \E g \in DOMAIN groups : BarrierOpens(g)
  \/ StartTotals
  \/ \E l \in Lanes : LaneLeavesTotals(l)
  \/ StartEmit
  \/ \E i \in DOMAIN emits : EmitLow(i) \/ EmitHigh(i)
  \/ ReadBack \/ Finished

Spec == Init /\ [][Next]_vars
-----------------------------------------------------------------------------
(* The GPU places every token where the host's own sum would place it, and *)
(* the end of the block after the last, in whatever order the invocations  *)
(* of the two scans have run and whatever the buffer set held before.      *)
OffsetsExact ==
  pass = "emit" =>
    /\ \A g \in 0 .. Groups(N) - 1, l \in Lanes :
         Global(g, l) < N => TokenOffset(g, l) = Block.header.bits + sums[Global(g, l) + 1]
    /\ EndOffset = Block.header.bits + sums[N + 1]

(* What a call returns is what one writer that goes through the tokens in  *)
(* order would have written, padded with zeros to a byte: no bit is lost   *)
(* between two words or two invocations and none is left of the block      *)
(* before.                                                                 *)
Shifted(ones, by) == {by + j : j \in ones}

Writes(b) ==
  LET Upto[k \in 0 .. Len(b.tokens)] == IF k = 0 THEN <<b.header>> ELSE Upto[k - 1] \o b.tokens[k]
  IN  Append(Upto[Len(b.tokens)], b.eob)

OneWriter(writes) ==
  LET Written[k \in 0 .. Len(writes)] ==
        IF k = 0 THEN [bits |-> 0, ones |-> {}]
        ELSE LET before == Written[k - 1]
             IN  [bits |-> before.bits + writes[k].bits,
                  ones |-> before.ones \cup Shifted(writes[k].ones, before.bits)]
  IN  Written[Len(writes)]

Sequential(b) == OneWriter(Writes(b))

(* The host clears, and copies back, a word for every token, one for the   *)
(* rest, and the header: the codes of a block take less on average.        *)
ASSUME LiveAssumption ==
  \A b \in Blocks : Ceiling(Sequential(b).bits, ByteBits) * ByteBits <= LiveWords(b) * WordBits

OutputIsSequential ==
  pass = "idle" =>
    \A k \in 1 .. Len(results) :
      LET written == Sequential(blocks[k])
      IN  /\ results[k].ones = written.ones
          /\ results[k].len = Ceiling(written.bits, ByteBits) * ByteBits
=============================================================================
