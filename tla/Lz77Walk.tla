------------------------------ MODULE Lz77Walk ------------------------------
(***************************************************************************)
(* From the tokens of every position of a chunk to a token stream whose    *)
(* tokens do not overlap: the lazy walk of the host (lz77.rs), the serial  *)
(* walk on the GPU (walk.wgsl), and the walk in three passes over blocks   *)
(* (walk_block.wgsl).  The blocks of a pass run in any order, those of the *)
(* last pass a token at a time.                                            *)
(***************************************************************************)
EXTENDS Lz77Hash

CONSTANT BlockSize

ASSUME BlockAssumption == BlockSize \in Nat \ {0}

VARIABLES
  walker,        \* the walk that runs over the tokens
  cur,           \* its position; in the block walk that of chain_blocks
  out,           \* tokens emitted so far by the lazy or the serial walk
  unsummarised,  \* blocks whose summary is not written
  exit_table,    \* from an entry of a block: where the walk leaves it
  count_table,   \* and the tokens it emits there
  actual_entry,  \* by block, as far as chain_blocks has come
  token_offsets,
  token_off,
  lane,          \* by block, the progress of its block_emit
  walked         \* output of the block walk, by slot

blockVars == <<unsummarised, exit_table, count_table, actual_entry, token_offsets,
               token_off, lane, walked>>
vars == <<matchVars, walker, cur, out, blockVars>>

n == Len(input)
At(p) == tokens[p + 1]
IsLiteral(t) == t.length = 0
After(p) == p + (IF IsLiteral(At(p)) THEN 1 ELSE At(p).length)

Blocks        == 0 .. (n + BlockSize - 1) \div BlockSize - 1
BlockStart(b) == b * BlockSize
BlockEnd(b)   == Min({BlockStart(b) + BlockSize, n})
Nil           == [length |-> 0, distance |-> -1]   \* a slot not written

Init ==
  /\ MatchInit
  /\ walker = "none" /\ cur = 0 /\ out = <<>>
  /\ unsummarised = {} /\ exit_table = <<>> /\ count_table = <<>>
  /\ actual_entry = <<>> /\ token_offsets = <<>> /\ token_off = 0
  /\ lane = <<>> /\ walked = <<>>

MatchFind == MatchNext /\ UNCHANGED <<walker, cur, out, blockVars>>
-----------------------------------------------------------------------------
StartSequential(w) ==
  /\ phase = "walk" /\ walker = "none"
  /\ walker' = w
  /\ UNCHANGED <<matchVars, cur, out, blockVars>>

TakeFault == cur' = cur + Max({1, At(cur).length - 1}) /\ out' = Append(out, At(cur))

Take == cur' = After(cur) /\ out' = Append(out, At(cur))

LongerNext == cur + 1 < n /\ At(cur + 1).length > At(cur).length

(* One round of greedy_walk: a match gives way to a longer one at the next *)
(* position, and its first byte becomes a literal.                         *)
LazyStep ==
  /\ walker = "lazy" /\ cur < n
  /\ IF ~ IsLiteral(At(cur)) /\ LongerNext
       THEN /\ out' = Append(out, [length |-> 0, distance |-> ReadByte(cur)])
            /\ cur' = cur + 1
       ELSE Take
  /\ UNCHANGED <<matchVars, walker, blockVars>>

(* One round of walk_serial, and of host_strict_greedy. *)
SerialStep ==
  /\ walker = "serial" /\ cur < n
  /\ Take
  /\ UNCHANGED <<matchVars, walker, blockVars>>
-----------------------------------------------------------------------------
StartBlocks ==
  /\ phase = "walk" /\ walker = "none"
  /\ walker' = "block"
  /\ unsummarised' = Blocks
  /\ exit_table' = [b \in Blocks |-> [e \in 0 .. BlockSize - 1 |-> 0]]
  /\ count_table' = exit_table'
  /\ walked' = [s \in 0 .. n - 1 |-> Nil]
  /\ UNCHANGED <<matchVars, cur, out, actual_entry, token_offsets, token_off, lane>>

(* The walk from an entry of a block: where it ends and after how many     *)
(* tokens.  An entry beyond the input leaves by the end of the block.      *)
Summary(b, e) ==
  LET from[p \in BlockStart(b) .. n] ==
        IF p >= BlockEnd(b)
          THEN [exit |-> p - BlockStart(b), count |-> 0]
          ELSE [from[After(p)] EXCEPT !.count = @ + 1]
  IN  IF BlockStart(b) + e >= n THEN [exit |-> BlockSize, count |-> 0]
                                ELSE from[BlockStart(b) + e]

(* block_summary: the threads of a block share nothing. *)
Summarise(b) ==
  /\ b \in unsummarised
  /\ exit_table' = [exit_table EXCEPT ![b] = [e \in 0 .. BlockSize - 1 |-> Summary(b, e).exit]]
  /\ count_table' = [count_table EXCEPT ![b] = [e \in 0 .. BlockSize - 1 |-> Summary(b, e).count]]
  /\ unsummarised' = unsummarised \ {b}
  /\ UNCHANGED <<matchVars, walker, cur, out, actual_entry, token_offsets, token_off, lane, walked>>

(* The block chain_blocks looks at next. *)
Here == Len(actual_entry)

Chaining == walker = "block" /\ unsummarised = {} /\ Here \in Blocks

(* The walk enters this block: it does not when the input is over, or when *)
(* a match has jumped over the block, so that cur is beyond its end.       *)
Enters ==
  /\ cur < n /\ cur >= BlockStart(Here) /\ cur < BlockStart(Here) + BlockSize

ChainFault ==
  LET e == cur - BlockStart(Here)
  IN  /\ actual_entry' = Append(actual_entry, e + 1)
      /\ token_off' = token_off + count_table[Here][e]
      /\ cur' = BlockStart(Here) + Min({exit_table[Here][e], BlockSize})

Chain ==
  LET e == cur - BlockStart(Here)
  IN  /\ actual_entry' = Append(actual_entry, e + 1)
      /\ token_off' = token_off + count_table[Here][e]
      /\ cur' = BlockStart(Here) + exit_table[Here][e]

(* One round of chain_blocks.  After the last, block_emit starts. *)
ChainBlock ==
  /\ Chaining
  /\ IF Enters THEN Chain
               ELSE actual_entry' = Append(actual_entry, 0) /\ UNCHANGED <<token_off, cur>>
  /\ token_offsets' = Append(token_offsets, token_off)
  /\ lane' = [b \in {x \in 0 .. Here : actual_entry'[x + 1] # 0} |->
                [at |-> BlockStart(b) + actual_entry'[b + 1] - 1, emitted |-> 0]]
  /\ UNCHANGED <<matchVars, walker, out, unsummarised, exit_table, count_table, walked>>

Chained == walker = "block" /\ unsummarised = {} /\ Here \notin Blocks

SlotOfFault(b) == token_offsets[Max({b, 1})] + lane[b].emitted

SlotOf(b) == token_offsets[b + 1] + lane[b].emitted

(* block_emit: one thread per block that is entered. *)
EmitToken(b) ==
  /\ Chained
  /\ lane[b].at < BlockEnd(b)
  /\ walked' = [walked EXCEPT ![SlotOf(b)] = At(lane[b].at)]
  /\ lane' = [lane EXCEPT ![b] = [at |-> After(@.at), emitted |-> @.emitted + 1]]
  /\ UNCHANGED <<matchVars, walker, cur, out, unsummarised, exit_table, count_table,
                 actual_entry, token_offsets, token_off>>

BlocksWalked == Chained /\ \A b \in DOMAIN lane : lane[b].at >= BlockEnd(b)

(* The buffers of the block walk are made for one call. *)
WalkEnds ==
  /\ \/ walker \in {"lazy", "serial"} /\ cur >= n
     \/ BlocksWalked
  /\ phase' = "upload" /\ tokens' = <<>>
  /\ walker' = "none" /\ cur' = 0 /\ out' = <<>>
  /\ unsummarised' = {} /\ exit_table' = <<>> /\ count_table' = <<>>
  /\ actual_entry' = <<>> /\ token_offsets' = <<>> /\ token_off' = 0
  /\ lane' = <<>> /\ walked' = <<>>
  /\ UNCHANGED <<input, seg_oldest, seg_newest, building, chunks>>
-----------------------------------------------------------------------------
Next ==
  \/ MatchFind
  \/ \E w \in {"lazy", "serial"} : StartSequential(w)
  \/ LazyStep \/ SerialStep
  \/ StartBlocks \/ ChainBlock
  \/ \E b \in unsummarised : Summarise(b)
  \/ \E b \in DOMAIN lane : EmitToken(b)
  \/ WalkEnds

Spec == Init /\ [][Next]_vars
-----------------------------------------------------------------------------
(* reconstruct: a match is copied byte by byte, so that it may overlap     *)
(* what it produces.                                                       *)
CopyBack(bytes, distance) == Append(bytes, bytes[Len(bytes) + 1 - distance])

Expand(bytes, t) ==
  LET copied[k \in 0 .. t.length] ==
        IF k = 0 THEN bytes ELSE CopyBack(copied[k - 1], t.distance)
  IN  IF IsLiteral(t) THEN Append(bytes, t.distance) ELSE copied[t.length]

Reconstruct(ts) ==
  LET after[k \in 0 .. Len(ts)] == IF k = 0 THEN <<>> ELSE Expand(after[k - 1], ts[k])
  IN  after[Len(ts)]

(* Whatever the hash table kept, lost or mixed up, the tokens emitted so   *)
(* far decode to the input read so far: lz77.rs:260-304.                   *)
LosslessSoFar ==
  walker \in {"lazy", "serial"} => Reconstruct(out) = SubSeq(input, 1, cur)

(* What the serial walk emits from a position on (walk.rs:512-525). *)
StrictGreedy ==
  LET from[p \in 0 .. n] == IF p >= n THEN <<>> ELSE <<At(p)>> \o from[After(p)]
  IN  from[0]

(* "Result must match host_strict_greedy byte-for-byte": the tokens of the *)
(* block walk are those of the serial one, although matches jump into the  *)
(* middle of blocks and over whole blocks (walk_block.wgsl:25-27).         *)
BlockWalkIsStrict ==
  BlocksWalked => [k \in 1 .. token_off |-> walked[k - 1]] = StrictGreedy

(* No two blocks write the same slot, in any order of their threads: the   *)
(* output needs no atomics (walk_block.wgsl:135-160).                      *)
SlotsWrittenOnce ==
  [][\A s \in DOMAIN walked \cap DOMAIN walked' :
       walked[s] # Nil => walked'[s] = walked[s]]_vars
=============================================================================
