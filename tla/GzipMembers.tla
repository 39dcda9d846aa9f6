----------------------------- MODULE GzipMembers -----------------------------
(***************************************************************************)
(* How a .tar.gz of gpzip is written and read back.  The writer appends    *)
(* the gzip members of its chunks, made by flate2 on the CPU (compress.rs) *)
(* or by gzip_wrap on the GPU path (gpu.rs, deflate.rs); the reader looks  *)
(* for one fixed header to find the members again and decodes the slices   *)
(* between in parallel (parallel_decompress.rs, decompress.rs).            *)
(*                                                                         *)
(* A stream is a sequence of tokens.  "gz" is a member's header equal to   *)
(* GPZIP_HEADER and "hdr" any other header; a member goes on with data and *)
(* closes with an "end", its CRC and length.  Data is "d", or "dz" where   *)
(* compressed bytes happen to spell the ten bytes of GPZIP_HEADER.  "cut"  *)
(* is a header the file ends inside of.  Data is numbered in the order of  *)
(* the input, so a stream's data says whether any was lost.                *)
(*                                                                         *)
(* Operators named after a fault are not part of the model: each is the    *)
(* operator that follows it with a plausible mistake in it.                *)
(***************************************************************************)
EXTENDS Integers, Sequences, FiniteSets, SequencesExt

CONSTANTS Levels,       \* compression levels the user may ask for
          Pieces,       \* GPU sub-chunks of one chunk, a member each
          MaxData       \* bound: data tokens of the archive

ASSUME MembersAssumption == Levels \subseteq 0 .. 9 /\ Pieces \in Nat \ {0} /\ MaxData \in Nat

VARIABLES
  level,      \* the level of the archive
  stream,     \* the file
  written,    \* data tokens of the input so far
  whole,      \* the file was closed, not cut short
  stage,      \* write, scan, decode, done
  at,         \* the position of the scan
  starts,     \* member starts found
  parts,      \* the decoded slices, by index
  result      \* what the reader's caller sees: data, and whether it ends well

membervars == <<level, stream, written, whole, stage, at, starts, parts, result>>

(* A token of the file, [kind, id]; the kinds are "gz", "hdr", "d", "dz",  *)
(* "end" and "cut".                                                        *)
Mark(kind) == <<[kind |-> kind, id |-> 0]>>

Nothing == [data |-> <<>>, ok |-> TRUE]
-----------------------------------------------------------------------------
(* flate2 sets XFL to 2 at its best level and to 4 at its fastest and      *)
(* below, so that only the levels between carry GPZIP_HEADER.              *)
CpuHeader == IF level \in 2 .. 8 THEN "gz" ELSE "hdr"

(* A member around one data token per element of shape, numbered from n+1. *)
MemberOf(header, shape, n) ==
  Mark(header) \o [k \in DOMAIN shape |-> [kind |-> shape[k], id |-> n + k]] \o Mark("end")

MembersInit ==
  /\ level \in Levels
  /\ stream = <<>> /\ written = 0 /\ whole = FALSE
  /\ stage = "write" /\ at = 1 /\ starts = <<>> /\ parts = <<>>
  /\ result = Nothing

AppendChunk(tokens, n) ==
  /\ stage = "write"
  /\ written + n <= MaxData
  /\ stream' = stream \o tokens
  /\ written' = written + n
  /\ UNCHANGED <<level, whole, stage, at, starts, parts, result>>

(* A chunk on the CPU is one member, of some length. *)
WriteCpu ==
  \E n \in 1 .. Pieces : \E shape \in [1 .. n -> {"d", "dz"}] :
    AppendChunk(MemberOf(CpuHeader, shape, written), n)

(* On the GPU it is a member per piece, whatever the level. *)
WriteGpu ==
  \E n \in 1 .. Pieces : \E shape \in [1 .. n -> {"d", "dz"}] :
    AppendChunk(FlattenSeq([k \in 1 .. n |-> MemberOf("gz", <<shape[k]>>, written + k - 1)]), n)

(* The archive is closed, or cut anywhere by a crash, in a header perhaps. *)
CloseFile ==
  /\ stage = "write"
  /\ stage' = "scan"
  /\ whole' = TRUE
  /\ UNCHANGED <<level, stream, written, at, starts, parts, result>>

Crash ==
  /\ stage = "write" /\ stream # <<>>
  /\ \E n \in 0 .. Len(stream) - 1 :
       \/ stream' = SubSeq(stream, 1, n)
       \/ /\ stream[n + 1].kind \in {"gz", "hdr"}
          /\ stream' = SubSeq(stream, 1, n) \o Mark("cut")
  /\ stage' = "scan"
  /\ UNCHANGED <<level, written, whole, at, starts, parts, result>>
-----------------------------------------------------------------------------
(* MultiGzDecoder: every member in turn; an error ends the data where the  *)
(* stream breaks off or something else than a header follows a member.     *)
Fresh == [data |-> <<>>, inside |-> FALSE, ok |-> TRUE]

Take(r, token) ==
  CASE ~ r.ok -> r
    [] r.ok /\ r.inside /\ token.kind \in {"d", "dz"} -> [r EXCEPT !.data = Append(@, token.id)]
    [] r.ok /\ r.inside /\ token.kind = "end" -> [r EXCEPT !.inside = FALSE]
    [] r.ok /\ ~ r.inside /\ token.kind \in {"gz", "hdr"} -> [r EXCEPT !.inside = TRUE]
    [] OTHER -> [r EXCEPT !.ok = FALSE]

(* The decoder after each token of s. *)
Reading(s) ==
  LET After[k \in 0 .. Len(s)] == IF k = 0 THEN Fresh ELSE Take(After[k - 1], s[k])
  IN  After

Serial(s) ==
  LET last == Reading(s)[Len(s)]
  IN  [data |-> last.data, ok |-> last.ok /\ ~ last.inside]

(* GzDecoder on a slice: its first member; what follows it is not read.    *)
(* Data taken for a header decodes to something the CRC refuses.           *)
First(s) ==
  LET ends == {k \in DOMAIN s : s[k].kind = "end"}
  IN  IF s[1].kind = "gz" /\ ends # {}
        THEN Serial(SubSeq(s, 1, CHOOSE k \in ends : \A e \in ends : k <= e))
        ELSE [data |-> <<>>, ok |-> FALSE]
-----------------------------------------------------------------------------
Found == Append(starts, at)

(* find_member_starts: what looks like the header is taken for a start. *)
Scan ==
  /\ stage = "scan" /\ at <= Len(stream)
  /\ starts' = IF stream[at].kind \in {"gz", "dz"} THEN Found ELSE starts
  /\ at' = at + 1
  /\ UNCHANGED <<level, stream, written, whole, stage, parts, result>>

TooFew == Len(starts) < 2

(* The serial path, straight after the scan; the reader falls back to a    *)
(* streaming decoder when it fails, so its data up to the error is seen.   *)
ReadSerially ==
  /\ stage = "scan" /\ at > Len(stream) /\ TooFew
  /\ result' = IF stream = <<>> THEN Nothing ELSE Serial(stream)
  /\ stage' = "done"
  /\ UNCHANGED <<level, stream, written, whole, at, starts, parts>>

StartsFound ==
  /\ stage = "scan" /\ at > Len(stream) /\ ~ TooFew
  /\ stage' = "decode"
  /\ UNCHANGED <<level, stream, written, whole, at, starts, parts, result>>

Slice(k) == SubSeq(stream, starts[k], IF k = Len(starts) THEN Len(stream) ELSE starts[k + 1] - 1)

(* A rayon job decodes a slice that is still to be decoded. *)
Decode(k) ==
  /\ stage = "decode" /\ k \notin DOMAIN parts
  /\ First(Slice(k)).ok
  /\ parts' = [i \in DOMAIN parts \cup {k} |-> IF i = k THEN First(Slice(k)).data ELSE parts[i]]
  /\ UNCHANGED <<level, stream, written, whole, stage, at, starts, result>>

AfterFailureFault(k) == [data |-> FlattenSeq([i \in 1 .. k - 1 |-> First(Slice(i)).data]), ok |-> FALSE]

(* What is read when slice k does not decode. *)
AfterFailure(k) == Serial(stream)

(* The first failure ends the parallel attempt, whatever was decoded. *)
DecodeFails(k) ==
  /\ stage = "decode" /\ k \notin DOMAIN parts
  /\ ~ First(Slice(k)).ok
  /\ result' = AfterFailure(k)
  /\ stage' = "done"
  /\ UNCHANGED <<level, stream, written, whole, at, starts, parts>>

Assemble ==
  /\ stage = "decode" /\ DOMAIN parts = DOMAIN starts
  /\ result' = [data |-> FlattenSeq([k \in DOMAIN starts |-> parts[k]]), ok |-> TRUE]
  /\ stage' = "done"
  /\ UNCHANGED <<level, stream, written, whole, at, starts, parts>>

MembersNext ==
  \/ WriteCpu \/ WriteGpu \/ CloseFile \/ Crash
  \/ Scan \/ ReadSerially \/ StartsFound
  \/ \E k \in DOMAIN starts : Decode(k) \/ DecodeFails(k)
  \/ Assemble

MembersSpec == MembersInit /\ [][MembersNext]_membervars
-----------------------------------------------------------------------------
Input == [k \in 1 .. written |-> k]

(* The members all have the header the reader looks for, or none has it.   *)
Uniform ==
  Cardinality({stream[k].kind : k \in DOMAIN stream} \cap {"gz", "hdr"}) <= 1

(* An archive whose members have one kind of header reads back to the      *)
(* input, in order and whole, whatever the compressed bytes look like and  *)
(* whichever slices are decoded first (parallel_decompress.rs:63-113).     *)
RoundTrip == stage = "done" /\ whole /\ Uniform => result = [data |-> Input, ok |-> TRUE]

(* What is left of an archive cut short reads back to a prefix of the      *)
(* input, as the serial decoder would have read it.  Only a cut in the     *)
(* header of a member may go unreported (parallel_decompress.rs:97-112,    *)
(* decompress.rs:40-43).                                                   *)
CutReadsAsPrefix ==
  stage = "done" /\ ~ whole /\ Uniform =>
    /\ IsPrefix(result.data, Input)
    /\ result.data = Serial(stream).data
    /\ (\A k \in DOMAIN stream : stream[k].kind # "cut") => result.ok = Serial(stream).ok
-----------------------------------------------------------------------------
(* "For gpzip-written archives [...] decodes members in parallel [...].    *)
(* For other inputs [...] falls back to serial [...] same correctness as   *)
(* before": decompress.rs:20-25.                                           *)
EveryArchiveRoundTrips == stage = "done" /\ whole => result = [data |-> Input, ok |-> TRUE]
=============================================================================
