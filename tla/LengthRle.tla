----------------------------- MODULE LengthRle -----------------------------
(***************************************************************************)
(* rle_encode_lengths of deflate.rs and its copy in huffman_emit_v2.rs:    *)
(* the run-length coding of the code lengths in the header of a dynamic    *)
(* block (RFC 1951 3.2.7).  One step is one entry pushed, or one turn of   *)
(* the outer loop.                                                         *)
(*                                                                         *)
(* decoded is what a decoder has after the entries pushed so far: a value  *)
(* stands for itself, 16 repeats the value before it, 17 and 18 stand for  *)
(* zeros.  It is a history variable, no step depends on it.                *)
(***************************************************************************)
EXTENDS Integers, Sequences

VARIABLES
  lens,     \* the code lengths, both alphabets in one sequence
  i,        \* how many are covered by the entries in rle
  run,      \* what is left of the run that starts at i
  cur,      \* the value of that run
  rle,      \* entries pushed
  decoded,  \* what they decode to
  rlepc     \* "scan" | "zeros" | "value" | "repeats" | "done"

rlevars == <<lens, i, run, cur, rle, decoded, rlepc>>

Entry(code, bits, value) == [code |-> code, extra_bits |-> bits, extra_value |-> value]

Lesser(a, b) == IF a < b THEN a ELSE b

RleInit ==
  /\ i = 0 /\ run = 0 /\ cur = 0 /\ rle = <<>> /\ decoded = <<>>
  /\ rlepc = "scan"
-----------------------------------------------------------------------------
(* What RFC 1951 says an entry stands for, after the values so far.        *)
Repeat(value, n) == [k \in 1 .. n |-> value]

Meaning(e, before) ==
  CASE e.code < 16 -> <<e.code>>
    [] e.code = 16 -> Repeat(before[Len(before)], e.extra_value + 3)
    [] e.code = 17 -> Repeat(0, e.extra_value + 3)
    [] e.code = 18 -> Repeat(0, e.extra_value + 11)

(* One push moves i and run by n.                                          *)
Push(e, n) ==
  /\ rle' = Append(rle, e)
  /\ decoded' = decoded \o Meaning(e, decoded)
  /\ i' = i + n
  /\ run' = run - n
  /\ UNCHANGED <<lens, cur>>

(* The longest run of one value from i on.                                 *)
IsRun(n) ==
  /\ n \in 1 .. Len(lens) - i
  /\ \A k \in 1 .. n : lens[i + k] = lens[i + 1]
  /\ i + n < Len(lens) => lens[i + n + 1] # lens[i + 1]

ScanRun ==
  /\ rlepc = "scan" /\ i < Len(lens)
  /\ cur' = lens[i + 1]
  /\ \E n \in 1 .. Len(lens) - i : IsRun(n) /\ run' = n
  /\ rlepc' = IF lens[i + 1] = 0 THEN "zeros" ELSE "value"
  /\ UNCHANGED <<lens, i, rle, decoded>>

ScanEnds ==
  /\ rlepc = "scan" /\ i = Len(lens)
  /\ rlepc' = "done"
  /\ UNCHANGED <<lens, i, run, cur, rle, decoded>>

(* From here on 18 is used, with 7 bits for what exceeds 11.               *)
LongZeros(n) == n >= 11

PushZeros ==
  /\ rlepc = "zeros" /\ run > 0
  /\ \/ /\ LongZeros(run)
        /\ LET n == Lesser(run, 138) IN Push(Entry(18, 7, n - 11), n)
     \/ /\ ~ LongZeros(run) /\ run >= 3
        /\ LET n == Lesser(run, 10) IN Push(Entry(17, 3, n - 3), n)
     \/ /\ run < 3
        /\ Push(Entry(0, 0, 0), 1)
  /\ UNCHANGED rlepc

PushValueFault ==
  /\ rlepc = "value" /\ rlepc' = "repeats"
  /\ Push(Entry(cur, 0, 0), 0)

(* A value other than zero is pushed once before it is repeated.           *)
PushValue ==
  /\ rlepc = "value"
  /\ Push(Entry(cur, 0, 0), 1)
  /\ rlepc' = "repeats"

PushRepeats ==
  /\ rlepc = "repeats" /\ run > 0
  /\ \/ /\ run >= 3
        /\ LET n == Lesser(run, 6) IN Push(Entry(16, 2, n - 3), n)
     \/ /\ run < 3
        /\ Push(Entry(cur, 0, 0), 1)
  /\ UNCHANGED rlepc

RunEnds ==
  /\ rlepc \in {"zeros", "repeats"} /\ run = 0
  /\ rlepc' = "scan"
  /\ UNCHANGED <<lens, i, run, cur, rle, decoded>>

RleNext == ScanRun \/ ScanEnds \/ PushZeros \/ PushValue \/ PushRepeats \/ RunEnds

(* Any sequence of code lengths, 0 to 15.                                  *)
RleSpec == RleInit /\ lens \in Seq(0 .. 15) /\ [][RleNext]_rlevars
-----------------------------------------------------------------------------
(* What the header says is what the block is coded with: the entries so    *)
(* far decode to the lengths covered so far, whatever the runs, also where *)
(* a run crosses from one alphabet into the other, and to all of them at   *)
(* the end.                                                                *)
RleReadsBack ==
  /\ decoded = SubSeq(lens, 1, i)
  /\ rlepc = "done" => decoded = lens

(* Every entry can be written: its symbol is in the alphabet of 19 and its *)
(* extra value fits the bits that announce it, 2, 3 and 7.                 *)
EntryFits(e) ==
  \/ e.code \in 0 .. 15 /\ e.extra_bits = 0 /\ e.extra_value = 0
  \/ e.code = 16 /\ e.extra_bits = 2 /\ e.extra_value \in 0 .. 3
  \/ e.code = 17 /\ e.extra_bits = 3 /\ e.extra_value \in 0 .. 7
  \/ e.code = 18 /\ e.extra_bits = 7 /\ e.extra_value \in 0 .. 127

EntriesFit == \A k \in DOMAIN rle : EntryFits(rle[k])
=============================================================================
