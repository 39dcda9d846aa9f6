---------------------------- MODULE WorkgroupScan ----------------------------
(***************************************************************************)
(* The prefix sum of one workgroup in huffman_emit_v2.wgsl, the body that  *)
(* compute_and_local_scan and scan_totals share: a Hillis-Steele inclusive *)
(* scan over one buffer in workgroup memory, with two barriers in every    *)
(* round.                                                                  *)
(*                                                                         *)
(* A workgroup is a record.  Its invocations run in any order between two  *)
(* barriers; arrived are those that have run the segment the group is in.  *)
(* The step of a round is the same for all of them, so the record has one. *)
(***************************************************************************)
EXTENDS Integers

CONSTANT WgSize   \* invocations of a workgroup (1024)

ASSUME WgSizeAssumption == WgSize \in Nat \ {0}

Lanes == 0 .. WgSize - 1

(* input[l] is what invocation l starts with, its variable bits (or v).    *)
Started(input) ==
  [input |-> input, seg |-> "store", step |-> 1, arrived |-> {},
   shared |-> [l \in Lanes |-> 0], addend |-> [l \in Lanes |-> 0]]

MayRun(s, l, seg) == s.seg = seg /\ l \notin s.arrived

Arrive(s, l) == s.arrived \cup {l}

Store(s, l) == [s EXCEPT !.shared[l] = s.input[l], !.arrived = Arrive(s, l)]

ReadAddend(s, l) ==
  [s EXCEPT !.addend[l] = IF l >= s.step THEN s.shared[l - s.step] ELSE 0, !.arrived = Arrive(s, l)]

(* The addend is read again instead of kept from before the barrier.       *)
AddAddendFault(s, l) ==
  [s EXCEPT !.shared[l] = s.shared[l] + (IF l >= s.step THEN s.shared[l - s.step] ELSE 0),
            !.arrived = Arrive(s, l)]
AddAddend(s, l) ==
  [s EXCEPT !.shared[l] = s.shared[l] + s.addend[l], !.arrived = Arrive(s, l)]

(* workgroupBarrier: once all have arrived, all go on to the next segment. *)
AtBarrier(s) == s.arrived = Lanes /\ s.seg \in {"store", "read", "add"}

StepAfter(s) == IF s.seg = "add" THEN s.step * 2 ELSE s.step

SegmentAfter(s) ==
  IF s.seg = "read" THEN "add" ELSE IF StepAfter(s) >= WgSize THEN "out" ELSE "read"

PassBarrier(s) == [s EXCEPT !.seg = SegmentAfter(s), !.step = StepAfter(s), !.arrived = {}]

(* What an invocation holds once it has left the loop.                     *)
Inclusive(s, l) == s.shared[l]
Exclusive(s, l) == Inclusive(s, l) - s.input[l]
Leave(s, l) == [s EXCEPT !.arrived = Arrive(s, l)]

AllLeft(s) == s.seg = "out" /\ s.arrived = Lanes
=============================================================================
