------------------------------ MODULE Inflate ------------------------------
(***************************************************************************)
(* A decoder of one DEFLATE block by RFC 1951, the part flate2 plays in    *)
(* the tests of the repository and in every reader of an archive.  It      *)
(* shares no table with the encoders: codes, lengths and distances are the *)
(* closed formulas of the RFC.                                             *)
(*                                                                         *)
(* A bit string is a record of a length and the positions of its ones,     *)
(* position 0 first.  Like zlib, the decoder refuses an incomplete or      *)
(* oversubscribed code.                                                    *)
(***************************************************************************)
EXTENDS Integers, FiniteSets, Sequences

Order == <<16, 17, 18, 0, 8, 7, 9, 6, 10, 5, 11, 4, 12, 3, 13, 2, 14, 1, 15>>

Bit(b, at) == IF at \in b.ones THEN 1 ELSE 0

Read(b, at, n) ==
  LET Sum[k \in 0 .. n] == IF k = 0 THEN 0 ELSE Sum[k - 1] + Bit(b, at + k - 1) * 2 ^ (k - 1)
  IN  Sum[n]

Count15(lens, n) == Cardinality({s \in DOMAIN lens : lens[s] = n})

(* The decoding table.  The code of a symbol owns a stretch of 0 .. 2^15:  *)
(* it starts where those of shorter codes, and of smaller symbols with a   *)
(* code as long, end.                                                      *)
Code(lens) ==
  LET Shorter[n \in 0 .. 15] ==
        IF n = 0 THEN 0 ELSE Shorter[n - 1] + Count15(lens, n) * 2 ^ (15 - n)
      Peers(s) == {t \in DOMAIN lens : t < s /\ lens[t] = lens[s]}
  IN  [entries |-> {[sym |-> s, len |-> lens[s],
                     start |-> Shorter[lens[s] - 1] + Cardinality(Peers(s)) * 2 ^ (15 - lens[s])]
                      : s \in {t \in DOMAIN lens : lens[t] > 0}},
       complete |-> Shorter[15] = 2 ^ 15]

(* The next 15 bits, most significant first, select the symbol.            *)
Symbol(b, at, code) ==
  LET Sum[k \in 0 .. 15] == IF k = 0 THEN 0 ELSE Sum[k - 1] * 2 + Bit(b, at + k - 1)
      ahead == Sum[15]
      e == CHOOSE x \in code.entries : x.start <= ahead /\ ahead < x.start + 2 ^ (15 - x.len)
  IN  [sym |-> e.sym, next |-> at + e.len]
-----------------------------------------------------------------------------
(* A value of a length or distance symbol: its base and its extra bits.    *)
LenExtra(s) == IF s < 265 \/ s = 285 THEN 0 ELSE (s - 261) \div 4
LenBase(s) ==
  IF s = 285 THEN 258 ELSE IF s < 265 THEN s - 254 ELSE 3 + (4 + ((s - 265) % 4)) * 2 ^ LenExtra(s)
DistExtra(s) == IF s < 4 THEN 0 ELSE s \div 2 - 1
DistBase(s) == IF s < 4 THEN s + 1 ELSE 1 + (2 + (s % 2)) * 2 ^ DistExtra(s)

Literal(sym) == [length |-> 0, distance |-> sym]

(* One token or the end of the block.                                      *)
NextToken(b, at, lit, dist) ==
  LET a == Symbol(b, at, lit)
  IN  IF a.sym < 256 THEN [token |-> <<Literal(a.sym)>>, next |-> a.next, end |-> FALSE]
      ELSE IF a.sym = 256 THEN [token |-> <<>>, next |-> a.next, end |-> TRUE]
      ELSE LET length == LenBase(a.sym) + Read(b, a.next, LenExtra(a.sym))
               d == Symbol(b, a.next + LenExtra(a.sym), dist)
               distance == DistBase(d.sym) + Read(b, d.next, DistExtra(d.sym))
           IN  [token |-> <<[length |-> length, distance |-> distance]>>,
                next |-> d.next + DistExtra(d.sym), end |-> FALSE]

Tokens(b, at, lit, dist) ==
  LET Body[k \in 0 .. b.len] ==
        IF k = 0 THEN [token |-> <<>>, next |-> at, end |-> FALSE]
        ELSE LET before == Body[k - 1]
                 step == NextToken(b, before.next, lit, dist)
             IN  IF before.end \/ before.next >= b.len THEN before
                 ELSE [step EXCEPT !.token = before.token \o step.token]
  IN  Body[b.len]

FixedLens ==
  [s \in 0 .. 287 |-> IF s \in 144 .. 255 THEN 9 ELSE IF s \in 256 .. 279 THEN 7 ELSE 8]

FixedLit == Code(FixedLens)
FixedDist == Code([s \in 0 .. 31 |-> 5])

(* The code lengths of the header, at most n of them, from position at on. *)
Lengths(b, at, meta, n) ==
  LET Part[k \in 0 .. n] ==
        IF k = 0 THEN [lens |-> <<>>, next |-> at]
        ELSE LET before == Part[k - 1]
                 a == Symbol(b, before.next, meta)
                 bits == IF a.sym < 16 THEN 0 ELSE <<2, 3, 7>>[a.sym - 15]
                 n0 == IF a.sym < 16 THEN 1 ELSE Read(b, a.next, bits) + <<3, 3, 11>>[a.sym - 15]
                 value == IF a.sym < 16 THEN a.sym
                          ELSE IF a.sym = 16 THEN before.lens[Len(before.lens)] ELSE 0
             IN  IF Len(before.lens) >= n THEN before
                 ELSE [lens |-> before.lens \o [j \in 1 .. n0 |-> value], next |-> a.next + bits]
  IN  Part[n]

(* What is read from a block that is refused: a token nobody writes.       *)
Refused == <<Literal(-1)>>

Inflated(b) ==
  IF ~ Read(b, 0, 3) \in {3, 5} THEN Refused
  ELSE IF Read(b, 0, 3) = 3
  THEN Tokens(b, 3, FixedLit, FixedDist).token
  ELSE LET nlit == Read(b, 3, 5) + 257
           ndist == Read(b, 8, 5) + 1
           nmeta == Read(b, 13, 4) + 4
           meta == Code([s \in 0 .. 18 |->
                           IF \E k \in 1 .. nmeta : Order[k] = s
                           THEN Read(b, 17 + 3 * ((CHOOSE k \in 1 .. nmeta : Order[k] = s) - 1), 3)
                           ELSE 0])
           header == Lengths(b, 17 + 3 * nmeta, meta, nlit + ndist)
           lit == Code([s \in 0 .. nlit - 1 |-> header.lens[s + 1]])
           dist == Code([s \in 0 .. ndist - 1 |-> header.lens[nlit + s + 1]])
       IN  IF meta.complete /\ Len(header.lens) = nlit + ndist /\ lit.complete /\ dist.complete
           THEN Tokens(b, header.next, lit, dist).token
           ELSE Refused
=============================================================================
