---------------------------- MODULE HuffmanCode ----------------------------
(***************************************************************************)
(* huffman.rs: code lengths from symbol frequencies and canonical codes    *)
(* from code lengths, with the bit reversal that packs a code LSB-first.   *)
(*                                                                         *)
(* A frequency table, a table of lengths and a table of codes are          *)
(* functions on the symbols.  A node of the Huffman tree carries the depth *)
(* of its leaves instead of child pointers, so that the recursive walk     *)
(* which turns the finished tree into lengths is the depth of the root.    *)
(***************************************************************************)
EXTENDS Integers, FiniteSets

LargestOf(S) == CHOOSE x \in S : \A y \in S : y <= x

UsedSymbols(table) == {s \in DOMAIN table : table[s] > 0}

(* The least power of two that is not below n, as an exponent: the f64     *)
(* ceil(log2(n)) of the code.                                              *)
RequiredBits(n) == CHOOSE b \in 0 .. n : 2 ^ b >= n /\ \A c \in 0 .. b - 1 : 2 ^ c < n
-----------------------------------------------------------------------------
(* The order of the heap of Reverse((frequency, id)).                      *)
Lighter(a, b) == a.weight < b.weight \/ (a.weight = b.weight /\ a.id < b.id)

Smallest(heap) == CHOOSE a \in heap : \A b \in heap \ {a} : Lighter(a, b)

Leaf(s, weight) == [weight |-> weight, id |-> s, leaves |-> {[sym |-> s, depth |-> 0]}]

(* A new node over two popped ones: every leaf is one level deeper.        *)
Joined(a, b, id) ==
  [weight |-> a.weight + b.weight, id |-> id,
   leaves |-> {[sym |-> l.sym, depth |-> l.depth + 1] : l \in a.leaves \cup b.leaves}]

Merge(heap, id) ==
  LET a == Smallest(heap)
      b == Smallest(heap \ {a})
  IN  (heap \ {a, b}) \cup {Joined(a, b, id)}

(* Pop two, push their sum, until one node is left.  Inner nodes get ids   *)
(* above every symbol's, so a symbol comes first among equal weights.      *)
StandardHuffman(freq) ==
  LET used == UsedSymbols(freq)
      n == LargestOf(DOMAIN freq)
      Heap[k \in 0 .. Cardinality(used) - 1] ==
        IF k = 0 THEN {Leaf(s, freq[s]) : s \in used} ELSE Merge(Heap[k - 1], n + k)
      root == CHOOSE node \in Heap[Cardinality(used) - 1] : TRUE
      Depth(s) == (CHOOSE l \in root.leaves : l.sym = s).depth
  IN  [s \in DOMAIN freq |-> IF s \notin used THEN 0 ELSE LargestOf({Depth(s), 1})]

Tallest(lens) == LargestOf({lens[s] : s \in DOMAIN lens})

(* Frequencies above one are halved, so no used symbol falls out.          *)
Halved(freq) == [s \in DOMAIN freq |-> IF freq[s] > 1 THEN freq[s] \div 2 ELSE freq[s]]

(* Nothing used, or one symbol, which gets one bit, before any tree.       *)
Degenerate(freq) == Cardinality(UsedSymbols(freq)) <= 1
DegenerateLengths(freq) == [s \in DOMAIN freq |-> IF freq[s] > 0 THEN 1 ELSE 0]

TooManyFault(freq, max_bits) == RequiredBits(Cardinality(UsedSymbols(freq))) > max_bits + 1

(* The alphabet is too large for any code within max_bits.                 *)
TooMany(freq, max_bits) == RequiredBits(Cardinality(UsedSymbols(freq))) > max_bits
-----------------------------------------------------------------------------
(* RFC 1951 3.2.2: the first code of each length, then symbols in order.   *)
Count(lens, bits) == Cardinality({s \in DOMAIN lens : lens[s] = bits})

CanonicalCodes(lens) ==
  LET First[bits \in 0 .. Tallest(lens)] ==
        IF bits <= 1 THEN 0 ELSE (First[bits - 1] + Count(lens, bits - 1)) * 2
  IN  [s \in DOMAIN lens |->
         IF lens[s] = 0 THEN 0
         ELSE First[lens[s]] + Cardinality({t \in DOMAIN lens : t < s /\ lens[t] = lens[s]})]

(* The bits of a value of at most 24 bits, as the writers assert.          *)
BitsOf(value) == {k \in 0 .. 23 : (value \div 2 ^ k) % 2 = 1}

ValueOf(ones) ==
  LET Sum[k \in 0 .. 24] == IF k = 0 THEN 0 ELSE Sum[k - 1] + (IF k - 1 \in ones THEN 2 ^ (k - 1) ELSE 0)
  IN  Sum[24]

(* The low bits of a code in reverse order.                                *)
ReverseBits(code, bits) == ValueOf({bits - 1 - k : k \in {j \in BitsOf(code) : j < bits}})

(* 1 - (the sum of 2^-length), in units of 2^-max_bits: 0 of a complete    *)
(* code, positive of one that leaves bit strings unused.                   *)
Slack(lens, max_bits) ==
  LET Sum[b \in 0 .. max_bits] == IF b = 0 THEN 0 ELSE Sum[b - 1] + Count(lens, b) * 2 ^ (max_bits - b)
  IN  2 ^ max_bits - Sum[max_bits]
=============================================================================
