---------------------------- MODULE ChunkStream ----------------------------
(***************************************************************************)
(* What the chunk-parallel writer of gpzip-codec-cpu promises, with the    *)
(* workers, the channel and the reorder buffer left out.  The caller's     *)
(* bytes are cut into chunks; the members of the chunks appear in the      *)
(* output one after the other, in the order of the input; the writer is    *)
(* closed once, and it closes with "ok" only over a complete output,       *)
(* unless the caller was already told of an error.                         *)
(*                                                                         *)
(* A chunk is the interval of the input stream it holds: lo is the         *)
(* position of its first byte, len how many bytes it has.                  *)
(***************************************************************************)
EXTENDS Integers, Sequences

CONSTANT ChunkSize      \* bytes of a full chunk

VARIABLES accepted,     \* bytes of the input taken from the caller
          submitted,    \* the chunks cut so far, in the order of the input
          emitted,      \* the chunks whose members are whole in the output
          warned,       \* some call of write has returned an error
          verdict       \* how the writer was closed, "none" while it is open

streamVars == <<accepted, submitted, emitted, warned, verdict>>

Chunk == [lo : Nat, len : 1 .. ChunkSize]

(* The position of the stream after the last of the chunks s. *)
StreamEnd(s) == IF s = <<>> THEN 0 ELSE s[Len(s)].lo + s[Len(s)].len

(* Only the last chunk of a stream may be shorter than ChunkSize. *)
AllFull(s) == \A k \in DOMAIN s : s[k].len = ChunkSize

Init == /\ accepted = 0
        /\ submitted = <<>>
        /\ emitted = <<>>
        /\ warned = FALSE
        /\ verdict = "none"

(* Bytes of the caller enter the stream. *)
Accept == /\ verdict = "none"
          /\ \E n \in 1 .. ChunkSize : accepted' = accepted + n
          /\ UNCHANGED <<submitted, emitted, warned, verdict>>

(* All bytes taken and not yet cut become a chunk; a short one is the last. *)
Submit == /\ verdict = "none"
          /\ AllFull(submitted)
          /\ accepted - StreamEnd(submitted) \in 1 .. ChunkSize
          /\ submitted' = Append(submitted, [lo  |-> StreamEnd(submitted),
                                             len |-> accepted - StreamEnd(submitted)])
          /\ UNCHANGED <<accepted, emitted, warned, verdict>>

(* The member of the next chunk in input order is written. *)
Emit == /\ verdict = "none"
        /\ Len(emitted) < Len(submitted)
        /\ emitted' = Append(emitted, submitted[Len(emitted) + 1])
        /\ UNCHANGED <<accepted, submitted, warned, verdict>>

(* A call of write returns an error. *)
Warn == /\ verdict = "none"
        /\ warned' = TRUE
        /\ UNCHANGED <<accepted, submitted, emitted, verdict>>

Complete == emitted = submitted /\ StreamEnd(submitted) = accepted

Close == /\ verdict = "none"
         /\ \/ verdict' \in {"err", "dropped"}
            \/ verdict' = "ok" /\ (Complete \/ warned)
         /\ UNCHANGED <<accepted, submitted, emitted, warned>>

Next == Accept \/ Submit \/ Emit \/ Warn \/ Close

Spec == Init /\ [][Next]_streamVars
=============================================================================
