------------------------ MODULE ParallelWriterProof ------------------------
(***************************************************************************)
(* Proofs about ParallelWriter, for every chunk size, every max_in_flight  *)
(* and every bound on the bytes written, and about GzipMembers, the file   *)
(* its members make, for all levels, pieces and amounts of data.           *)
(*                                                                         *)
(* The invariants of ParallelWriter are not inductive.  That the output is *)
(* a prefix of the input rests on what no property of the code states: a   *)
(* member carries the bytes of the chunk its index names, wherever it is   *)
(* (at its job, in the channel, in the reorder buffer), and write_index    *)
(* counts the members written.  That in_flight never drops below zero      *)
(* rests on its counting exactly the jobs and results the owner has not    *)
(* received.                                                               *)
(*                                                                         *)
(* Members.  RoundTrip says what the reader ends with and nothing of how.  *)
(* Its invariant follows the file: while it is written it decodes to the   *)
(* numbers of the data so far; what a crash leaves decodes without an      *)
(* error up to a header that is cut at the very end; the starts are those  *)
(* positions before the scan that look like the header; a part is what its *)
(* slice decodes to.  The argument is in Assembled: if every slice decodes *)
(* then every start is a header, so no other kind of header is in the file *)
(* and each slice is one member from its first token to its last, whatever *)
(* the order in which they were decoded.                                   *)
(***************************************************************************)
EXTENDS ParallelWriter, GzipMembers, FiniteSetTheorems, SequenceTheorems, DataInduction, TLAPS

(* m carries the bytes of the chunk its index names. *)
Tagged(m) == m.idx < next_index /\ m.bytes = dispatched[m.idx + 1]

MembersTagged ==
  /\ next_index = Len(dispatched)
  /\ \A m \in spawned : Tagged(m)
  /\ \A m \in pending : Tagged(m)
  /\ \A k \in 1 .. Len(chan) : Tagged(chan[k])

OutputCounted ==
  /\ write_index = Len(out)
  /\ OutputIsPrefix

JobsCounted ==
  /\ IsFiniteSet(spawned)
  /\ InFlightExact

IInv == TypeOK /\ MembersTagged /\ OutputCounted /\ JobsCounted
-----------------------------------------------------------------------------
LEMMA InitIInv == Init => IInv
<1> SUFFICES ASSUME Init PROVE IInv
  OBVIOUS
<1> USE DEF Init
<1>1. TypeOK
  <2>1. current \in [lo : Nat, len : 0 .. ChunkSize]
    BY WriterAssumption
  <2>2. chan \in Seq(Result) /\ out \in Seq(Chunk) /\ dispatched \in Seq(Chunk)
    BY EmptySeq
  <2>3. pc \in Location /\ resume \in {"await", "join"} /\ outcome \in {"none", "ok", "err", "dropped"}
    BY DEF Location
  <2> QED BY <2>1, <2>2, <2>3 DEF TypeOK
<1>2. MembersTagged
  BY DEF MembersTagged
<1>3. OutputCounted
  BY DEF OutputCounted, OutputIsPrefix
<1>4. JobsCounted
  BY FS_EmptySet DEF JobsCounted, InFlightExact
<1> QED BY <1>1, <1>2, <1>3, <1>4 DEF IInv

(* A dispatch is the only step that makes a chunk of the bytes in current. *)
LEMMA DispatchIInv == IInv /\ Dispatch => IInv'
<1> SUFFICES ASSUME IInv, Dispatch PROVE IInv'
  OBVIOUS
<1> PICK job \in {[idx |-> next_index, bytes |-> current]} : job = [idx |-> next_index, bytes |-> current]
  OBVIOUS
<1> USE DEF Dispatch, IInv, reorder, errs, life
<1>1. current \in Chunk /\ job \in Member
  BY DEF TypeOK, Chunk, Member
<1>2. /\ dispatched' \in Seq(Chunk)
      /\ Len(dispatched') = Len(dispatched) + 1
      /\ \A k \in 1 .. Len(dispatched) : dispatched'[k] = dispatched[k]
      /\ dispatched'[Len(dispatched) + 1] = current
  BY <1>1 DEF TypeOK
<1>3. TypeOK'
  BY <1>1, <1>2, WriterAssumption DEF TypeOK, Location
<1>4. MembersTagged'
  <2>1. next_index' = Len(dispatched')
    BY <1>2 DEF MembersTagged
  <2>2. ASSUME NEW m, m.idx \in Nat, Tagged(m) PROVE Tagged(m)'
    BY <2>2, <1>2 DEF Tagged, MembersTagged, TypeOK
  <2>3. Tagged(job)'
    BY <1>2 DEF Tagged, MembersTagged, TypeOK
  <2>4. \A m \in spawned' : Tagged(m)'
    BY <2>2, <2>3 DEF MembersTagged, TypeOK, Member
  <2>5. \A m \in pending' : Tagged(m)'
    BY <2>2 DEF MembersTagged, TypeOK, Member
  <2>6. (\A k \in 1 .. Len(chan) : Tagged(chan[k]))'
    <3>1. ASSUME NEW k \in 1 .. Len(chan) PROVE Tagged(chan[k])'
      <4>1. PICK r \in {chan[k]} : r = chan[k]
        OBVIOUS
      <4>2. r \in Result
        BY <4>1, ElementOfSeq DEF TypeOK
      <4>3. Tagged(r)'
        BY <2>2, <4>1, <4>2 DEF MembersTagged, Result
      <4> QED BY <4>1, <4>3
    <3> QED BY <3>1
  <2> QED BY <2>1, <2>4, <2>5, <2>6 DEF MembersTagged
<1>5. OutputCounted'
  BY <1>2 DEF OutputCounted, OutputIsPrefix, TypeOK
<1>6. JobsCounted'
  <2>1. job \notin spawned
    BY DEF MembersTagged, Tagged, TypeOK
  <2>2. /\ IsFiniteSet(spawned \cup {job})
        /\ Cardinality(spawned \cup {job}) = Cardinality(spawned) + 1
        /\ Cardinality(spawned) \in Nat
    BY <2>1, FS_AddElement, FS_CardinalityType DEF JobsCounted
  <2>3. spawned' = spawned \cup {job} /\ chan' = chan /\ Len(chan) \in Nat
    BY DEF TypeOK
  <2> QED BY <2>2, <2>3 DEF JobsCounted, InFlightExact
<1> QED BY <1>3, <1>4, <1>5, <1>6
-----------------------------------------------------------------------------
(* Moving members about without a dispatch leaves their tags alone. *)
LEMMA TagsStay ==
  ASSUME UNCHANGED <<next_index, dispatched>>, NEW m
  PROVE  Tagged(m)' <=> Tagged(m)
  BY DEF Tagged

(* A job's result enters the channel with the index and bytes of the job. *)
LEMMA JobIInv == ASSUME IInv, NEW j \in spawned, Job(j) PROVE IInv'
<1> PICK ok \in BOOLEAN, r \in Result :
      /\ r = [idx |-> j.idx, bytes |-> j.bytes, ok |-> ok]
      /\ chan' = Append(chan, r)
      /\ failed' = IF ok THEN failed ELSE failed \cup {j.idx}
  BY DEF Job, Result, Member, IInv, TypeOK
<1>1. UNCHANGED <<pc, resume, todo, current, next_index, offered, dispatched,
                  write_index, pending, out, torn, in_flight, sticky_err, reported,
                  finalized, dropping, outcome>>
  BY DEF Job, cut, reorder, errs, life
<1>2. j \in Member /\ r \in Result
  BY DEF IInv, TypeOK, Member, Result
<1>3. /\ chan' \in Seq(Result) /\ Len(chan') = Len(chan) + 1
      /\ \A k \in 1 .. Len(chan) : chan'[k] = chan[k]
      /\ chan'[Len(chan) + 1] = r
  BY <1>2 DEF IInv, TypeOK
<1>4. spawned' = spawned \ {j}
  BY DEF Job
<1>5. TypeOK'
  <2>1. failed' \subseteq Nat /\ spawned' \subseteq Member
    BY <1>2, <1>4 DEF IInv, TypeOK, Member
  <2> QED BY <1>1, <1>3, <2>1 DEF IInv, TypeOK
<1>6. MembersTagged'
  <2>1. Tagged(j) /\ Tagged(r)
    BY DEF IInv, MembersTagged, Tagged
  <2>2. (\A k \in 1 .. Len(chan) : Tagged(chan[k]))'
    <3>1. ASSUME NEW k \in 1 .. Len(chan') PROVE Tagged(chan[k])'
      <4>1. CASE k = Len(chan) + 1
        BY <4>1, <1>1, <1>3, <2>1 DEF Tagged
      <4>2. CASE k \in 1 .. Len(chan)
        BY <4>2, <1>1, <1>3 DEF Tagged, IInv, MembersTagged
      <4> QED BY <4>1, <4>2, <1>3, LenProperties DEF IInv, TypeOK
    <3> QED BY <3>1
  <2>3. (\A m \in spawned : Tagged(m))' /\ (\A m \in pending : Tagged(m))'
    BY <1>1, <1>4, TagsStay DEF IInv, MembersTagged
  <2> QED BY <2>2, <2>3, <1>1 DEF IInv, MembersTagged
<1>7. OutputCounted'
  BY <1>1 DEF IInv, OutputCounted, OutputIsPrefix
<1>8. JobsCounted'
  <2>1. /\ IsFiniteSet(spawned \ {j})
        /\ Cardinality(spawned \ {j}) = Cardinality(spawned) - 1
        /\ Cardinality(spawned) \in Nat
    BY FS_RemoveElement, FS_CardinalityType DEF IInv, JobsCounted
  <2>2. Len(chan) \in Nat
    BY DEF IInv, TypeOK
  <2> QED BY <2>1, <2>2, <1>1, <1>3, <1>4 DEF IInv, JobsCounted, InFlightExact
<1> QED BY <1>5, <1>6, <1>7, <1>8 DEF IInv

(* What a received result leaves behind, in any of the three loops. *)
LEMMA ReceiveStep ==
  ASSUME IInv, NEW ok \in BOOLEAN, Receive(ok), UNCHANGED <<next_index, dispatched>>
  PROVE  /\ chan' \in Seq(Result) /\ pending' \subseteq Member /\ in_flight' \in Nat
         /\ UNCHANGED <<write_index, out, torn, spawned, failed>>
         /\ MembersTagged' /\ OutputCounted' /\ JobsCounted'
<1> PICK r \in {Head(chan)} : r = Head(chan)
  OBVIOUS
<1> PICK m \in {[idx |-> r.idx, bytes |-> r.bytes]} : m = [idx |-> r.idx, bytes |-> r.bytes]
  OBVIOUS
<1>1. /\ chan' \in Seq(Result) /\ Len(chan') = Len(chan) - 1 /\ Len(chan) \in Nat \ {0}
      /\ \A k \in 1 .. Len(chan') : chan'[k] = chan[k + 1]
      /\ r \in Result /\ r = chan[1]
  BY HeadTailProperties, EmptySeq DEF IInv, TypeOK, Receive
<1>2. m \in Member /\ Tagged(m)
  BY <1>1 DEF Member, Result, Tagged, IInv, MembersTagged
<1>3. pending' \subseteq pending \cup {m}
  BY DEF Receive
<1>4. pending' \subseteq Member
  BY <1>2, <1>3 DEF IInv, TypeOK
<1>5. UNCHANGED <<write_index, out, torn, spawned, failed>>
  BY DEF Receive
<1>6. MembersTagged'
  <2>1. (\A k \in 1 .. Len(chan) : Tagged(chan[k]))'
    <3>1. ASSUME NEW k \in 1 .. Len(chan') PROVE Tagged(chan[k])'
      BY <1>1 DEF Tagged, IInv, MembersTagged
    <3> QED BY <3>1
  <2>2. (\A x \in pending : Tagged(x))'
    BY <1>2, <1>3, TagsStay DEF IInv, MembersTagged
  <2>3. (\A x \in spawned : Tagged(x))'
    BY <1>5, TagsStay DEF IInv, MembersTagged
  <2> QED BY <2>1, <2>2, <2>3 DEF IInv, MembersTagged
<1>7. OutputCounted'
  BY <1>5 DEF IInv, OutputCounted, OutputIsPrefix
<1>8. in_flight' \in Nat /\ JobsCounted'
  <2>1. Cardinality(spawned) \in Nat /\ in_flight = Cardinality(spawned) + Len(chan)
    BY FS_CardinalityType DEF IInv, JobsCounted, InFlightExact
  <2>2. in_flight' = in_flight - 1
    BY DEF Receive, Release
  <2> QED BY <2>1, <2>2, <1>1, <1>5 DEF IInv, JobsCounted, InFlightExact
<1> QED BY <1>1, <1>4, <1>5, <1>6, <1>7, <1>8

(* The member written is the one of the next chunk in input order. *)
LEMMA EmitIInv == IInv /\ Emit => IInv'
<1> SUFFICES ASSUME IInv, Emit PROVE IInv'
  OBVIOUS
<1>1. PICK m \in Turn : pending' = pending \ {m} /\ out' = Append(out, m.bytes)
  BY DEF Emit
<1>2. UNCHANGED <<pc, resume, todo, current, next_index, offered, dispatched, torn,
                  in_flight, chan, spawned, failed, sticky_err, reported,
                  finalized, dropping, outcome>>
  BY DEF Emit, cut, queue, errs, life
<1>3. m \in Member /\ Tagged(m) /\ m.idx = write_index /\ m.bytes \in Chunk
  BY DEF Turn, Member, IInv, TypeOK, MembersTagged
<1>4. write_index' = write_index + 1
  BY DEF Emit
<1>5. /\ out' \in Seq(Chunk) /\ Len(out') = Len(out) + 1 /\ Len(out) \in Nat
      /\ \A k \in 1 .. Len(out) : out'[k] = out[k]
      /\ out'[Len(out) + 1] = m.bytes
  BY <1>1, <1>3 DEF IInv, TypeOK
<1>6. TypeOK'
  BY <1>1, <1>2, <1>4, <1>5 DEF IInv, TypeOK
<1>7. MembersTagged'
  BY <1>1, <1>2 DEF IInv, MembersTagged, Tagged
<1>8. OutputCounted'
  <2>1. write_index' = Len(out') /\ Len(out') <= Len(dispatched')
    BY <1>2, <1>3, <1>4, <1>5 DEF IInv, OutputCounted, MembersTagged, Tagged, TypeOK
  <2>2. ASSUME NEW k \in 1 .. Len(out') PROVE out'[k] = dispatched'[k]
    BY <1>2, <1>3, <1>5 DEF IInv, OutputCounted, OutputIsPrefix, Tagged
  <2> QED BY <2>1, <2>2 DEF OutputCounted, OutputIsPrefix
<1>9. JobsCounted'
  BY <1>2 DEF IInv, JobsCounted, InFlightExact
<1> QED BY <1>6, <1>7, <1>8, <1>9 DEF IInv
-----------------------------------------------------------------------------
(* Steps that move no member. *)
LEMMA QuietStep ==
  ASSUME IInv, pending' \subseteq pending,
         UNCHANGED <<next_index, dispatched, chan, spawned, out, write_index, in_flight>>
  PROVE  MembersTagged' /\ OutputCounted' /\ JobsCounted'
  BY DEF IInv, MembersTagged, Tagged, OutputCounted, OutputIsPrefix, JobsCounted, InFlightExact

(* The steps of the owner other than a dispatch and a write of a member. *)
LEMMA OwnerIInv == IInv /\ OwnerStep => IInv'
<1> SUFFICES ASSUME IInv, OwnerStep PROVE IInv'
  OBVIOUS
<1> USE DEF cut, reorder, queue, errs, life
<1>1. CASE Copy
  <2> DEFINE take == IF todo < Space THEN todo ELSE Space
  <2>0. /\ todo \in Nat /\ current \in [lo : Nat, len : 0 .. ChunkSize]
        /\ Space \in Nat /\ Space = ChunkSize - current.len
    BY WriterAssumption DEF Space, IInv, TypeOK
  <2>1. /\ take \in Nat /\ take <= todo /\ take <= Space
        /\ current' = [current EXCEPT !.len = @ + take] /\ todo' = todo - take
    BY <1>1, <2>0 DEF Copy
  <2> HIDE DEF take
  <2>2. todo' \in Nat /\ current' \in [lo : Nat, len : 0 .. ChunkSize]
    BY <2>0, <2>1, WriterAssumption
  <2>3. TypeOK'
    BY <1>1, <2>2 DEF Copy, IInv, TypeOK, Location
  <2> QED BY <1>1, <2>3, QuietStep DEF Copy, IInv
<1>2. CASE WriteReturns
  <2>1. TypeOK'
    BY <1>2 DEF WriteReturns, IInv, TypeOK, Location
  <2> QED BY <1>2, <2>1, QuietStep DEF WriteReturns, IInv
<1>3. CASE DispatchRefused
  <2>1. TypeOK'
    BY <1>3 DEF DispatchRefused, DispatchFails, DispatchReturns, IInv, TypeOK, Location
  <2> QED BY <1>3, <2>1, QuietStep DEF DispatchRefused, IInv
<1>4. CASE Drain
  <2>1. Receive(TRUE) /\ UNCHANGED <<next_index, dispatched>>
    BY <1>4 DEF Drain
  <2>2. TypeOK'
    BY <1>4, <2>1, ReceiveStep DEF Drain, IInv, TypeOK
  <2> QED BY <2>1, <2>2, ReceiveStep DEF IInv
<1>5. CASE DrainEnds
  <2>1. TypeOK'
    BY <1>5 DEF DrainEnds, IInv, TypeOK, Location
  <2> QED BY <1>5, <2>1, QuietStep DEF DrainEnds, IInv
<1>6. CASE Await
  <2>1. Receive(TRUE) /\ UNCHANGED <<next_index, dispatched>>
    BY <1>6 DEF Await
  <2>2. TypeOK'
    BY <1>6, <2>1, ReceiveStep DEF Await, IInv, TypeOK, Location
  <2> QED BY <2>1, <2>2, ReceiveStep DEF IInv
<1>7. CASE AwaitEnds
  <2>1. TypeOK'
    BY <1>7 DEF AwaitEnds, DispatchReturns, IInv, TypeOK, Location
  <2> QED BY <1>7, <2>1, QuietStep DEF AwaitEnds, IInv
<1>8. CASE ReceiveFailure
  <2>1. Receive(FALSE) /\ UNCHANGED <<next_index, dispatched>>
    BY <1>8 DEF ReceiveFailure
  <2>2. TypeOK'
    BY <1>8, <2>1, ReceiveStep
    DEF ReceiveFailure, Record, DispatchFails, IInv, TypeOK, Location
  <2> QED BY <2>1, <2>2, ReceiveStep DEF IInv
<1>9. CASE Tear
  <2>1. TypeOK'
    BY <1>9 DEF Tear, Turn, Record, DispatchFails, IInv, TypeOK, Location
  <2>2. pending' \subseteq pending
    BY <1>9 DEF Tear
  <2> QED BY <1>9, <2>1, <2>2, QuietStep DEF Tear, IInv
<1>10. CASE EmitEnds
  <2>1. TypeOK'
    BY <1>10 DEF EmitEnds, IInv, TypeOK, Location
  <2> QED BY <1>10, <2>1, QuietStep DEF EmitEnds, IInv
<1>11. CASE Join
  <2>1. Receive(TRUE) /\ UNCHANGED <<next_index, dispatched>>
    BY <1>11 DEF Join
  <2>2. TypeOK'
    BY <1>11, <2>1, ReceiveStep DEF Join, IInv, TypeOK, Location
  <2> QED BY <2>1, <2>2, ReceiveStep DEF IInv
<1>12. CASE JoinFailure
  <2>1. Receive(FALSE) /\ UNCHANGED <<next_index, dispatched>>
    BY <1>12 DEF JoinFailure
  <2>2. TypeOK'
    BY <1>12, <2>1, ReceiveStep DEF JoinFailure, Record, IInv, TypeOK
  <2> QED BY <2>1, <2>2, ReceiveStep DEF IInv
<1>13. CASE JoinEnds
  <2>1. TypeOK'
    BY <1>13 DEF JoinEnds, IInv, TypeOK, Location
  <2> QED BY <1>13, <2>1, QuietStep DEF JoinEnds, IInv
<1>14. CASE FinalizeReturns
  <2>1. TypeOK'
    BY <1>14 DEF FinalizeReturns, Record, IInv, TypeOK, Location
  <2> QED BY <1>14, <2>1, QuietStep DEF FinalizeReturns, IInv
<1>15. CASE DropFinalized
  <2>1. TypeOK'
    BY <1>15 DEF DropFinalized, IInv, TypeOK, Location
  <2> QED BY <1>15, <2>1, QuietStep DEF DropFinalized, IInv
<1> QED
  BY <1>1, <1>2, <1>3, <1>4, <1>5, <1>6, <1>7, <1>8, <1>9, <1>10, <1>11, <1>12, <1>13,
     <1>14, <1>15, DispatchIInv, EmitIInv DEF OwnerStep

LEMMA CallIInv == IInv /\ OwnerCall => IInv'
<1> SUFFICES ASSUME IInv, OwnerCall PROVE IInv'
  OBVIOUS
<1> USE DEF cut, reorder, queue, errs, life
<1>1. ASSUME NEW n \in 1 .. MaxWrite, BeginWrite(n) PROVE IInv'
  <2>1. TypeOK'
    BY <1>1 DEF BeginWrite, IInv, TypeOK, Location
  <2> QED BY <1>1, <2>1, QuietStep DEF BeginWrite, IInv
<1>2. ASSUME NEW n \in 1 .. MaxWrite, WriteTakesError(n) PROVE IInv'
  <2>1. sticky_err' = FALSE /\ reported' = TRUE
    BY <1>2 DEF WriteTakesError
  <2>2. sticky_err' \in BOOLEAN /\ reported' \in BOOLEAN
    BY <2>1
  <2>3. /\ offered' \in Nat
        /\ UNCHANGED <<pc, resume, todo, current, next_index, dispatched, write_index,
                       pending, out, torn, in_flight, chan, spawned, failed,
                       finalized, dropping, outcome>>
    BY <1>2 DEF WriteTakesError, IInv, TypeOK
  <2>4. TypeOK'
    BY <2>2, <2>3 DEF IInv, TypeOK
  <2> QED BY <1>2, <2>4, QuietStep DEF WriteTakesError, IInv
<1>3. CASE Flush
  <2>1. TypeOK'
    BY <1>3 DEF Flush, vars, IInv, TypeOK
  <2> QED BY <1>3, <2>1, QuietStep DEF Flush, vars, IInv
<1>4. ASSUME NEW drop \in BOOLEAN, Finalize(drop) PROVE IInv'
  <2>1. TypeOK'
    BY <1>4 DEF Finalize, IInv, TypeOK, Location
  <2> QED BY <1>4, <2>1, QuietStep DEF Finalize, IInv
<1> QED BY <1>1, <1>2, <1>3, <1>4 DEF OwnerCall

THEOREM Inductive == Spec => []IInv
<1>1. IInv /\ [Next]_vars => IInv'
  <2> SUFFICES ASSUME IInv, [Next]_vars PROVE IInv'
    OBVIOUS
  <2>1. CASE OwnerStep
    BY <2>1, OwnerIInv
  <2>2. CASE OwnerCall
    BY <2>2, CallIInv
  <2>3. CASE \E j \in spawned : Job(j)
    BY <2>3, JobIInv
  <2>4. CASE UNCHANGED vars
    <3>1. TypeOK'
      BY <2>4 DEF vars, cut, reorder, queue, errs, life, IInv, TypeOK
    <3> QED BY <2>4, <3>1, QuietStep DEF vars, cut, reorder, queue, IInv
  <2> QED BY <2>1, <2>2, <2>3, <2>4 DEF Next
<1> QED BY InitIInv, <1>1, PTL DEF Spec

(* Every variable keeps its type: in particular in_flight, next_index and  *)
(* write_index never go below zero, and the chunk being filled never       *)
(* outgrows chunk_size.                                                    *)
THEOREM TypeCorrect == Spec => []TypeOK
<1>1. IInv => TypeOK
  BY DEF IInv
<1> QED BY Inductive, <1>1, PTL

(* Whatever order the jobs finish in, and whatever fails, the output is    *)
(* the members of the first chunks of the input in input order.            *)
THEOREM OutputOrdered == Spec => []OutputIsPrefix
<1>1. IInv => OutputIsPrefix
  BY DEF IInv, OutputCounted
<1> QED BY Inductive, <1>1, PTL

(* in_flight is exactly the number of jobs and results the owner has not   *)
(* received.                                                               *)
THEOREM InFlightCorrect == Spec => []InFlightExact
<1>1. IInv => InFlightExact
  BY DEF IInv, JobsCounted
<1> QED BY Inductive, <1>1, PTL
-----------------------------------------------------------------------------
(***************************************************************************)
(* ParallelWriter implements ChunkStream, leaves nothing behind when it    *)
(* closes, loses no byte in silence, and keeps its bound on the results    *)
(* ahead of the output, for every chunk size, queue and input.             *)
(*                                                                         *)
(* IInv says where a member that is still there belongs.  What is missing  *)
(* is the converse, that no member disappears without a trace: each index  *)
(* that was handed out is written, waiting, on its way, or its loss has    *)
(* been told, and while nothing is told the loops leave no member behind   *)
(* whose turn it is.                                                       *)
(***************************************************************************)

(* Some error is stashed or was returned by write. *)
Told == sticky_err \/ reported

InChan(k) == \E n \in 1 .. Len(chan) : chan[n].ok /\ chan[n].idx = k
OnTheWay(k) == (\E m \in spawned : m.idx = k) \/ InChan(k) \/ (\E m \in pending : m.idx = k)

Accounted ==
  \A k \in 0 .. next_index - 1 : k < write_index \/ OnTheWay(k) \/ k \in failed \/ torn

FailuresTold ==
  /\ failed # {} => Told \/ \E n \in 1 .. Len(chan) : ~ chan[n].ok
  /\ torn => Told

TurnTaken == pc \notin {"drain", "emit"} => Turn = {} \/ Told

(* The chunk being filled: never full between calls, dispatched when full, *)
(* empty inside dispatch_current and after finalize has called it.         *)
Cutting ==
  /\ current.lo = Stream!StreamEnd(dispatched)
  /\ pc \in {"idle", "copy"} => current.len < ChunkSize
  /\ pc = "dispatch" /\ ~ finalized => current.len = ChunkSize
  /\ pc \in {"drain", "await"} => current.len = 0
  /\ pc = "emit" /\ resume = "await" => current.len = 0
  /\ finalized /\ pc # "dispatch" => current.len = 0 \/ Told
  /\ ~ finalized \/ pc = "dispatch" => Stream!AllFull(dispatched)

Closing ==
  /\ pc \in {"idle", "copy"} => ~ finalized
  /\ pc \in {"join", "flush", "closed", "gone"} => finalized
  /\ pc = "emit" /\ resume = "join" => finalized
  /\ ~ finalized /\ pc # "idle" => ~ sticky_err
  /\ pc \in {"flush", "closed", "gone"} => in_flight = 0
  /\ outcome # "none" => pc \in {"closed", "gone"}
  /\ outcome = "ok" => ~ sticky_err

LInv == Accounted /\ FailuresTold /\ TurnTaken /\ Cutting /\ Closing
-----------------------------------------------------------------------------
LEMMA InitLInv == Init => LInv
<1> SUFFICES ASSUME Init PROVE LInv
  OBVIOUS
<1> USE DEF Init
<1>1. Accounted
  BY DEF Accounted
<1>2. FailuresTold /\ TurnTaken
  BY DEF FailuresTold, TurnTaken, Turn
<1>3. Cutting
  BY WriterAssumption DEF Cutting, Stream!StreamEnd, Stream!AllFull
<1> QED BY <1>1, <1>2, <1>3 DEF LInv, Closing

(* The steps that move members, and the others.                            *)
Rests == UNCHANGED <<next_index, write_index, spawned, pending, chan, failed, torn>>

LEMMA StepIsOne ==
  ASSUME [Next]_vars
  PROVE  Dispatch \/ Emit \/ (\E j \in spawned : Job(j)) \/ Drain \/ Await \/ Join
           \/ ReceiveFailure \/ JoinFailure \/ Tear \/ Rests
<1> USE DEF cut, reorder, queue, errs, life
<1>1. CASE OwnerCall
  BY <1>1 DEF OwnerCall, BeginWrite, WriteTakesError, Flush, Finalize, Rests, vars
<1>2. CASE Copy \/ WriteReturns \/ DispatchRefused \/ DrainEnds \/ AwaitEnds
  BY <1>2 DEF Copy, WriteReturns, DispatchRefused, DrainEnds, AwaitEnds, Rests
<1>3. CASE EmitEnds \/ JoinEnds \/ FinalizeReturns \/ DropFinalized
  BY <1>3 DEF EmitEnds, JoinEnds, FinalizeReturns, DropFinalized, Rests
<1>4. CASE UNCHANGED vars
  BY <1>4 DEF vars, Rests
<1> QED BY <1>1, <1>2, <1>3, <1>4 DEF Next, OwnerStep

(* The steps that receive a failed result, or fail to write one, stash an  *)
(* error; the others that receive, receive a member.                       *)
LEMMA LossesTold ==
  /\ ReceiveFailure \/ JoinFailure \/ Tear => Told'
  /\ Drain \/ Await \/ Join => Receive(TRUE) /\ UNCHANGED torn
  BY DEF ReceiveFailure, JoinFailure, Tear, Record, Told, Drain, Await, Join, Receive

(* A step out of the two loops that fill and empty the map, and moves      *)
(* nothing, is the one that finds no member to write.                      *)
LEMMA QuietFromLoop ==
  ASSUME TypeOK, [Next]_vars, Rests, pc \in {"drain", "emit"}, pc' \notin {"drain", "emit"}, ~ Told'
  PROVE  EmitEnds
<1> USE DEF cut, reorder, queue, errs, life
<1>1. CASE OwnerCall \/ UNCHANGED vars \/ \E j \in spawned : Job(j)
  BY <1>1 DEF OwnerCall, BeginWrite, WriteTakesError, Flush, Finalize, vars, Job
<1>2. CASE Copy \/ WriteReturns \/ DispatchRefused \/ Dispatch \/ Drain \/ DrainEnds \/ Await
             \/ AwaitEnds \/ Emit
  BY <1>2 DEF Copy, WriteReturns, DispatchRefused, Dispatch, Drain, DrainEnds, Await, AwaitEnds, Emit
<1>3. CASE Join \/ JoinEnds \/ FinalizeReturns \/ DropFinalized
  BY <1>3 DEF Join, JoinEnds, FinalizeReturns, DropFinalized
<1>4. CASE ReceiveFailure \/ JoinFailure \/ Tear
  BY <1>4, LossesTold
<1> QED BY <1>1, <1>2, <1>3, <1>4 DEF Next, OwnerStep

(* What is in the channel after its head was received. *)
LEMMA ChanAfterReceive ==
  ASSUME IInv, NEW ok \in BOOLEAN, Receive(ok)
  PROVE  /\ Len(chan') = Len(chan) - 1 /\ Len(chan) \in Nat \ {0}
         /\ \A n \in 1 .. Len(chan') : chan'[n] = chan[n + 1]
         /\ chan[1].ok = ok /\ Head(chan) = chan[1]
  BY HeadTailProperties, EmptySeq DEF IInv, TypeOK, Receive

(* No member disappears without a trace. *)
LEMMA AccountedStep ==
  ASSUME IInv, Accounted, [Next]_vars
  PROVE  Accounted'
<1>1. next_index \in Nat /\ write_index \in Nat /\ chan \in Seq(Result) /\ Len(chan) \in Nat
      /\ pending \subseteq Member /\ spawned \subseteq Member
  BY DEF IInv, TypeOK
<1>2. CASE Rests
  BY <1>2 DEF Rests, Accounted, OnTheWay, InChan
<1>3. CASE Dispatch
  <2>1. /\ next_index' = next_index + 1
        /\ spawned' = spawned \cup {[idx |-> next_index, bytes |-> current]}
        /\ UNCHANGED <<write_index, pending, chan, failed, torn>>
    BY <1>3 DEF Dispatch, reorder
  <2>2. ASSUME NEW k \in 0 .. next_index' - 1
        PROVE  k < write_index' \/ OnTheWay(k)' \/ k \in failed' \/ torn'
    <3>1. CASE k = next_index
      <4> DEFINE job == [idx |-> next_index, bytes |-> current]
      <4>1. job \in spawned' /\ job.idx = next_index
        BY <2>1
      <4> HIDE DEF job
      <4> QED BY <3>1, <4>1 DEF OnTheWay
    <3>2. CASE k # next_index
      <4>1. k \in 0 .. next_index - 1
        BY <1>1, <2>1, <3>2
      <4>2. OnTheWay(k) => OnTheWay(k)'
        BY <2>1 DEF OnTheWay, InChan
      <4> QED BY <2>1, <4>1, <4>2 DEF Accounted
    <3> QED BY <3>1, <3>2
  <2> QED BY <2>2 DEF Accounted
<1>4. ASSUME NEW j \in spawned, Job(j) PROVE Accounted'
  <2>1. PICK r \in Result :
          /\ r.idx = j.idx /\ chan' = Append(chan, r)
          /\ failed' = IF r.ok THEN failed ELSE failed \cup {j.idx}
    BY <1>1, <1>4 DEF Job, Result, Member
  <2>2. /\ spawned' = spawned \ {j}
        /\ UNCHANGED <<next_index, write_index, pending, torn>>
    BY <1>4 DEF Job, cut, reorder
  <2>3. /\ Len(chan') = Len(chan) + 1 /\ chan'[Len(chan) + 1] = r
        /\ \A n \in 1 .. Len(chan) : chan'[n] = chan[n]
    BY <1>1, <2>1
  <2>4. ASSUME NEW k \in 0 .. next_index - 1
        PROVE  k < write_index \/ OnTheWay(k)' \/ k \in failed' \/ torn
    <3>1. CASE k = j.idx
      BY <1>1, <2>1, <2>3, <3>1 DEF OnTheWay, InChan
    <3>2. InChan(k) => InChan(k)'
      BY <1>1, <2>3 DEF InChan
    <3>3. k # j.idx /\ OnTheWay(k) => OnTheWay(k)'
      BY <2>2, <3>2 DEF OnTheWay
    <3> QED BY <2>1, <3>1, <3>3 DEF Accounted
  <2> QED BY <2>2, <2>4 DEF Accounted
<1>5. ASSUME NEW ok \in BOOLEAN, Receive(ok), UNCHANGED next_index PROVE Accounted'
  <2>1. /\ UNCHANGED <<write_index, spawned, failed, torn>> /\ pending \subseteq pending'
        /\ ok => [idx |-> chan[1].idx, bytes |-> chan[1].bytes] \in pending'
    BY <1>5, ChanAfterReceive DEF Receive
  <2>2. ASSUME NEW k \in 0 .. next_index - 1, InChan(k) PROVE OnTheWay(k)'
    <3>1. PICK n \in 1 .. Len(chan) : chan[n].ok /\ chan[n].idx = k
      BY <2>2 DEF InChan
    <3>2. CASE n = 1
      BY <1>5, <2>1, <3>1, <3>2, ChanAfterReceive DEF OnTheWay
    <3>3. CASE n # 1
      <4>1. n - 1 \in 1 .. Len(chan') /\ chan'[n - 1] = chan[n]
        BY <1>1, <1>5, <3>3, ChanAfterReceive
      <4> QED BY <3>1, <4>1 DEF OnTheWay, InChan
    <3> QED BY <3>2, <3>3
  <2>3. ASSUME NEW k \in 0 .. next_index - 1, OnTheWay(k) PROVE OnTheWay(k)'
    BY <2>1, <2>2, <2>3 DEF OnTheWay
  <2> QED BY <1>5, <2>1, <2>3 DEF Accounted
<1>6. CASE Emit
  <2>1. PICK m \in Turn : pending' = pending \ {m}
    BY <1>6 DEF Emit
  <2>2. /\ write_index' = write_index + 1 /\ m.idx = write_index
        /\ UNCHANGED <<next_index, spawned, chan, failed, torn>>
    BY <1>6, <2>1 DEF Emit, cut, queue, Turn
  <2>3. ASSUME NEW k \in 0 .. next_index - 1, ~ k < write_index', OnTheWay(k) PROVE OnTheWay(k)'
    BY <1>1, <2>1, <2>2, <2>3 DEF OnTheWay, InChan
  <2>4. \A k \in 0 .. next_index - 1 : k < write_index => k < write_index'
    BY <1>1, <2>2
  <2> QED BY <2>2, <2>3, <2>4 DEF Accounted
<1>7. CASE Tear
  BY <1>7 DEF Tear, Accounted
<1>8. CASE Drain \/ Await \/ Join \/ ReceiveFailure \/ JoinFailure
  <2>1. \E ok \in BOOLEAN : Receive(ok) /\ UNCHANGED next_index
    BY <1>8 DEF Drain, Await, Join, ReceiveFailure, JoinFailure, cut
  <2> QED BY <1>5, <2>1
<1> QED BY <1>2, <1>3, <1>4, <1>6, <1>7, <1>8, StepIsOne
-----------------------------------------------------------------------------
(* What was told is not forgotten: write takes the stashed error only to   *)
(* return it.                                                              *)
LEMMA ToldStays == ASSUME TypeOK, [Next]_vars, Told PROVE Told'
<1> USE DEF Told, cut, reorder, queue, errs, life
<1>1. CASE OwnerCall
  BY <1>1 DEF OwnerCall, BeginWrite, WriteTakesError, Flush, Finalize, vars
<1>2. CASE DispatchRefused \/ ReceiveFailure \/ Tear \/ AwaitEnds
  BY <1>2 DEF DispatchRefused, ReceiveFailure, Tear, AwaitEnds, DispatchFails, DispatchReturns, Record
<1>3. CASE Copy \/ WriteReturns \/ Dispatch \/ Drain \/ DrainEnds \/ Await \/ Emit \/ EmitEnds
  BY <1>3 DEF Copy, WriteReturns, Dispatch, Drain, DrainEnds, Await, Emit, EmitEnds
<1>4. CASE Join \/ JoinFailure \/ JoinEnds \/ FinalizeReturns \/ DropFinalized
  BY <1>4 DEF Join, JoinFailure, JoinEnds, FinalizeReturns, DropFinalized, Record
<1>5. CASE \E j \in spawned : Job(j)
  BY <1>5 DEF Job
<1>6. CASE UNCHANGED vars
  BY <1>6 DEF vars
<1> QED BY <1>1, <1>2, <1>3, <1>4, <1>5, <1>6 DEF Next, OwnerStep

(* A failed chunk is told, or its result is still in the channel.          *)
LEMMA FailuresToldStep ==
  ASSUME IInv, FailuresTold, [Next]_vars
  PROVE  FailuresTold'
<1>1. chan \in Seq(Result) /\ Len(chan) \in Nat /\ spawned \subseteq Member /\ TypeOK
  BY DEF IInv, TypeOK
<1>2. CASE Told'
  BY <1>2 DEF FailuresTold
<1>3. CASE ~ Told'
  <2>1. ~ Told
    BY <1>1, <1>3, ToldStays
  <2>2. CASE Rests
    BY <2>1, <2>2 DEF Rests, FailuresTold
  <2>3. CASE Dispatch \/ Emit
    BY <2>1, <2>3 DEF Dispatch, Emit, FailuresTold, reorder, queue
  <2>4. ASSUME NEW j \in spawned, Job(j) PROVE FailuresTold'
    <3>1. PICK r \in Result :
            chan' = Append(chan, r) /\ failed' = IF r.ok THEN failed ELSE failed \cup {j.idx}
      BY <1>1, <2>4 DEF Job, Result, Member
    <3>2. /\ Len(chan') = Len(chan) + 1 /\ chan'[Len(chan) + 1] = r
          /\ \A n \in 1 .. Len(chan) : chan'[n] = chan[n]
      BY <1>1, <3>1
    <3>3. torn' = torn
      BY <2>4 DEF Job, reorder
    <3> QED BY <1>1, <2>1, <3>1, <3>2, <3>3 DEF FailuresTold
  <2>5. CASE Drain \/ Await \/ Join
    <3>1. Receive(TRUE) /\ UNCHANGED <<torn, failed>>
      BY <2>5, LossesTold DEF Receive
    <3>2. ASSUME NEW n \in 1 .. Len(chan), ~ chan[n].ok
          PROVE  n - 1 \in 1 .. Len(chan') /\ chan'[n - 1] = chan[n]
      <4>1. n # 1
        BY <3>1, <3>2, ChanAfterReceive
      <4>2. Len(chan') = Len(chan) - 1 /\ \A k \in 1 .. Len(chan') : chan'[k] = chan[k + 1]
        BY <3>1, ChanAfterReceive
      <4> QED BY <1>1, <4>1, <4>2
    <3> QED BY <2>1, <3>1, <3>2 DEF FailuresTold
  <2>6. CASE ReceiveFailure \/ JoinFailure \/ Tear
    BY <1>3, <2>6, LossesTold
  <2>7. Dispatch \/ Emit \/ (\E j \in spawned : Job(j)) \/ Drain \/ Await \/ Join
          \/ ReceiveFailure \/ JoinFailure \/ Tear \/ Rests
    BY StepIsOne
  <2> QED BY <2>2, <2>3, <2>4, <2>5, <2>6, <2>7
<1> QED BY <1>2, <1>3

(* Whenever nothing is told and write_pending is not at work or due, the   *)
(* member whose turn it is is not in the map.                              *)
LEMMA TurnTakenStep ==
  ASSUME IInv, TurnTaken, [Next]_vars
  PROVE  TurnTaken'
<1> SUFFICES ASSUME pc' \notin {"drain", "emit"}, ~ Told' PROVE Turn' = {}
  BY DEF TurnTaken
<1>1. ~ Told
  BY ToldStays DEF IInv
<1>2. CASE UNCHANGED <<pending, write_index>> /\ pc \notin {"drain", "emit"}
  BY <1>1, <1>2 DEF TurnTaken, Turn
<1>3. CASE UNCHANGED <<pending, write_index>> /\ pc \in {"drain", "emit"} /\ Rests
  <2>1. EmitEnds
    BY <1>3, QuietFromLoop DEF IInv
  <2> QED BY <1>3, <2>1 DEF EmitEnds, Turn
<1>4. CASE ~ Rests
  <2>1. CASE Dispatch \/ Drain \/ Await \/ Join \/ Emit
    BY <2>1 DEF Dispatch, Drain, Await, Join, Emit
  <2>2. CASE ReceiveFailure \/ JoinFailure \/ Tear
    BY <2>2, LossesTold
  <2>3. ASSUME NEW j \in spawned, Job(j) PROVE Turn' = {}
    BY <1>1, <2>3 DEF Job, reorder, TurnTaken, Turn
  <2> QED BY <1>4, <2>1, <2>2, <2>3, StepIsOne
<1> QED BY <1>2, <1>3, <1>4 DEF Rests
-----------------------------------------------------------------------------
LEMMA ClosingStep ==
  ASSUME TypeOK, Closing, [Next]_vars
  PROVE  Closing'
<1> USE DEF Closing, cut, reorder, queue, errs, life
<1>1. CASE OwnerCall \/ UNCHANGED vars \/ \E j \in spawned : Job(j)
  BY <1>1 DEF OwnerCall, BeginWrite, WriteTakesError, Flush, Finalize, vars, Job
<1>2. CASE Copy \/ WriteReturns \/ Dispatch
  BY <1>2 DEF Copy, WriteReturns, Dispatch
<1>3. CASE DispatchRefused
  BY <1>3 DEF DispatchRefused, DispatchFails, DispatchReturns, TypeOK
<1>4. CASE Drain
  <2>1. pc = "drain" /\ UNCHANGED <<pc, sticky_err, life>>
    BY <1>4 DEF Drain
  <2> QED BY <2>1
<1>11. CASE DrainEnds \/ Await
  <2>1. pc \in {"drain", "await"} /\ pc' = "emit" /\ resume' = "await" /\ UNCHANGED <<sticky_err, life>>
    BY <1>11 DEF DrainEnds, Await
  <2> QED BY <2>1
<1>5. CASE AwaitEnds
  BY <1>5 DEF AwaitEnds, DispatchReturns, TypeOK
<1>6. CASE ReceiveFailure
  <2>1. UNCHANGED life /\ pc \in {"drain", "await"} /\ pc' = IF finalized THEN "join" ELSE "idle"
    BY <1>6 DEF ReceiveFailure, DispatchFails
  <2> QED BY <2>1 DEF TypeOK
<1>7. CASE Emit \/ EmitEnds
  BY <1>7 DEF Emit, EmitEnds, TypeOK
<1>8. CASE Tear
  <2>1. /\ UNCHANGED life /\ pc = "emit"
        /\ pc' = IF resume = "join" \/ finalized THEN "join" ELSE "idle"
    BY <1>8 DEF Tear, DispatchFails
  <2> QED BY <2>1 DEF TypeOK
<1>9. CASE Join \/ JoinFailure \/ JoinEnds
  BY <1>9 DEF Join, JoinFailure, JoinEnds, Drained, Record, TypeOK
<1>10. CASE FinalizeReturns \/ DropFinalized
  BY <1>10 DEF FinalizeReturns, DropFinalized, Record, TypeOK
<1> QED BY <1>1, <1>2, <1>3, <1>4, <1>5, <1>6, <1>7, <1>8, <1>9, <1>10, <1>11 DEF Next, OwnerStep

(* The chunk that is dispatched ends where the next one begins.            *)
LEMMA DispatchCuts ==
  ASSUME IInv, Cutting, Dispatch
  PROVE  /\ current'.lo = Stream!StreamEnd(dispatched')
         /\ current.len = ChunkSize => Stream!AllFull(dispatched')
<1>1. /\ current \in Chunk /\ dispatched \in Seq(Chunk)
      /\ dispatched' = Append(dispatched, current)
      /\ current' = [lo |-> current.lo + current.len, len |-> 0]
  BY DEF Dispatch, IInv, TypeOK, Chunk
<1>2. /\ dispatched' # <<>> /\ Len(dispatched') = Len(dispatched) + 1
      /\ DOMAIN dispatched = 1 .. Len(dispatched) /\ DOMAIN dispatched' = 1 .. Len(dispatched')
      /\ dispatched'[Len(dispatched')] = current
      /\ \A k \in 1 .. Len(dispatched) : dispatched'[k] = dispatched[k]
  BY <1>1
<1>3. Stream!AllFull(dispatched)
  BY DEF Cutting, Dispatch
<1>4. current'.lo = Stream!StreamEnd(dispatched')
  BY <1>1, <1>2 DEF Stream!StreamEnd
<1> QED BY <1>1, <1>2, <1>3, <1>4 DEF Stream!AllFull

LEMMA CopyFills ==
  ASSUME TypeOK, Copy, current.len < ChunkSize
  PROVE  \E n \in 1 .. ChunkSize :
           /\ current' = [current EXCEPT !.len = @ + n]
           /\ current.len + n <= ChunkSize
           /\ pc' = IF current.len + n = ChunkSize THEN "dispatch" ELSE "copy"
<1> DEFINE n == IF todo < Space THEN todo ELSE Space
<1>1. todo \in Nat \ {0} /\ current \in [lo : Nat, len : 0 .. ChunkSize] /\ ChunkSize \in Nat
      /\ Space = ChunkSize - current.len
  BY WriterAssumption DEF TypeOK, Copy, Space
<1>2. n \in 1 .. ChunkSize /\ current.len + n <= ChunkSize
  BY <1>1
<1>3. /\ current' = [current EXCEPT !.len = @ + n]
      /\ pc' = IF current.len + n >= ChunkSize THEN "dispatch" ELSE "copy"
  BY DEF Copy
<1> HIDE DEF n
<1>4. pc' = IF current.len + n = ChunkSize THEN "dispatch" ELSE "copy"
  BY <1>1, <1>2, <1>3
<1> QED BY <1>2, <1>3, <1>4

LEMMA CuttingStep ==
  ASSUME IInv, Closing, Cutting, [Next]_vars
  PROVE  Cutting'
<1>1. TypeOK /\ ChunkSize \in Nat \ {0} /\ (Told => Told')
  BY ToldStays, WriterAssumption DEF IInv
<1>2. CASE Dispatch
  <2>1. pc = "dispatch" /\ pc' = "drain" /\ current'.len = 0 /\ finalized' = finalized
    BY <1>2 DEF Dispatch, life
  <2> QED BY <1>2, <2>1, DispatchCuts DEF Cutting
<1>3. CASE Copy
  <2>1. UNCHANGED <<dispatched, finalized, resume>> /\ pc = "copy" /\ ~ finalized
    BY <1>3 DEF Copy, life, Closing
  <2>2. PICK n \in 1 .. ChunkSize :
           /\ current' = [current EXCEPT !.len = @ + n]
           /\ current.len + n <= ChunkSize
           /\ pc' = IF current.len + n = ChunkSize THEN "dispatch" ELSE "copy"
    BY <1>1, <1>3, <2>1, CopyFills DEF Cutting
  <2>3. current'.lo = current.lo /\ current'.len = current.len + n /\ current.len \in Nat
    BY <1>1, <2>2 DEF TypeOK
  <2> QED BY <1>1, <2>1, <2>2, <2>3 DEF Cutting
<1>4. CASE UNCHANGED <<current, dispatched>>
  <2> USE DEF Cutting, Closing, cut, reorder, queue, errs, life
  <2>1. CASE OwnerCall
    BY <1>1, <1>4, <2>1 DEF OwnerCall, BeginWrite, WriteTakesError, Flush, Finalize, vars
  <2>2. CASE WriteReturns \/ DispatchRefused
    BY <1>1, <1>4, <2>2 DEF WriteReturns, DispatchRefused, DispatchFails, DispatchReturns, Told
  <2>3. CASE Drain \/ DrainEnds \/ Await
    BY <1>1, <1>4, <2>3 DEF Drain, DrainEnds, Await
  <2>7. CASE AwaitEnds
    BY <1>1, <1>4, <2>7 DEF AwaitEnds, DispatchReturns
  <2>8. CASE ReceiveFailure
    <3>1. /\ UNCHANGED finalized /\ pc \in {"drain", "await"} /\ Told'
          /\ pc' = IF finalized THEN "join" ELSE "idle"
      BY <2>8, LossesTold DEF ReceiveFailure, DispatchFails
    <3> QED BY <1>1, <1>4, <3>1
  <2>4. CASE Emit \/ Tear \/ EmitEnds
    BY <1>1, <1>4, <2>4 DEF Emit, Tear, EmitEnds, DispatchFails, TypeOK
  <2>5. CASE Join \/ JoinFailure \/ JoinEnds \/ FinalizeReturns \/ DropFinalized
    BY <1>1, <1>4, <2>5 DEF Join, JoinFailure, JoinEnds, FinalizeReturns, DropFinalized
  <2>6. CASE UNCHANGED vars \/ \E j \in spawned : Job(j)
    BY <1>1, <1>4, <2>6 DEF vars, Job
  <2> QED BY <1>2, <1>3, <2>1, <2>2, <2>3, <2>4, <2>5, <2>6, <2>7, <2>8 DEF Next, OwnerStep
<1>5. Dispatch \/ Copy \/ UNCHANGED <<current, dispatched>>
  BY DEF Next, OwnerStep, OwnerCall, BeginWrite, WriteTakesError, Flush, Finalize, vars, Job, cut,
         WriteReturns, DispatchRefused, Drain, DrainEnds, Await, AwaitEnds, ReceiveFailure, Emit,
         Tear, EmitEnds, Join, JoinFailure, JoinEnds, FinalizeReturns, DropFinalized
<1> QED BY <1>2, <1>3, <1>4, <1>5
-----------------------------------------------------------------------------
THEOREM NothingUntold == Spec => [](IInv /\ LInv)
<1>1. IInv /\ LInv /\ [Next]_vars => LInv'
  BY AccountedStep, FailuresToldStep, TurnTakenStep, CuttingStep, ClosingStep DEF LInv, IInv
<1> QED BY Inductive, InitLInv, <1>1, PTL DEF Spec

(* Once finalize has drained the jobs, none is left anywhere.              *)
LEMMA EndIsQuiet ==
  ASSUME IInv, in_flight = 0
  PROVE  spawned = {} /\ chan = <<>>
<1>1. Cardinality(spawned) \in Nat /\ Len(chan) \in Nat /\ IsFiniteSet(spawned)
  BY FS_CardinalityType DEF IInv, TypeOK, JobsCounted
<1>2. Cardinality(spawned) = 0 /\ Len(chan) = 0
  BY <1>1 DEF IInv, JobsCounted, InFlightExact
<1>3. spawned = {}
  BY <1>1, <1>2, FS_EmptySet
<1>4. chan = <<>>
  BY <1>2, EmptySeq DEF IInv, TypeOK
<1> QED BY <1>3, <1>4

(* A writer that has drained its jobs and has nothing to tell has written  *)
(* every chunk.                                                            *)
LEMMA QuietIsComplete ==
  ASSUME IInv, LInv, pc \in {"flush", "closed", "gone"}, ~ Told
  PROVE  out = dispatched /\ current.len = 0 /\ failed = {} /\ ~ torn
<1>1. spawned = {} /\ chan = <<>> /\ finalized
  BY EndIsQuiet DEF LInv, Closing
<1>2. failed = {} /\ ~ torn /\ Turn = {} /\ current.len = 0
  BY <1>1 DEF LInv, FailuresTold, TurnTaken, Cutting
<1>3. /\ write_index = Len(out) /\ next_index = Len(dispatched)
      /\ out \in Seq(Chunk) /\ dispatched \in Seq(Chunk) /\ OutputIsPrefix
  BY DEF IInv, TypeOK, MembersTagged, OutputCounted
<1>4. ~ write_index < next_index
  <2> SUFFICES ASSUME write_index < next_index PROVE FALSE
    OBVIOUS
  <2>1. write_index \in 0 .. next_index - 1
    BY <1>3
  <2>2. OnTheWay(write_index)
    BY <1>2, <1>3, <2>1 DEF LInv, Accounted
  <2> QED BY <1>1, <1>2, <2>2 DEF OnTheWay, InChan, Turn
<1>5. out = dispatched
  BY <1>3, <1>4, SeqEqual DEF OutputIsPrefix
<1> QED BY <1>2, <1>5

(* finalize leaves no job and no result behind, whatever has failed.       *)
THEOREM NothingIsLeft == Spec => []NothingLeftBehind
<1>1. IInv /\ LInv => NothingLeftBehind
  BY EndIsQuiet DEF LInv, Closing, NothingLeftBehind
<1> QED BY NothingUntold, <1>1, PTL

(* Ok from finalize, to a caller whose writes have all succeeded, means    *)
(* that every byte is in the output.                                       *)
THEOREM OkMeansAll == Spec => []NoSilentLoss
<1>1. IInv /\ LInv => NoSilentLoss
  BY QuietIsComplete DEF LInv, Closing, Told, NoSilentLoss
<1> QED BY NothingUntold, <1>1, PTL
-----------------------------------------------------------------------------
(* What a caller may see of a step.                                        *)
StreamStep == [Stream!Next]_(Stream!streamVars)

LEMMA InitMaps == Init => Stream!Init
  BY DEF Init, Stream!Init

LEMMA CopyMaps ==
  ASSUME IInv, LInv, Copy
  PROVE  Stream!Accept
<1>1. outcome = "none" /\ current.len < ChunkSize /\ TypeOK
  BY DEF Copy, LInv, Closing, Cutting, IInv
<1>2. PICK n \in 1 .. ChunkSize : current' = [current EXCEPT !.len = @ + n]
  BY <1>1, CopyFills
<1>3. current'.lo + current'.len = current.lo + current.len + n
  BY <1>1, <1>2 DEF TypeOK
<1>4. UNCHANGED <<dispatched, out, reported, outcome>>
  BY DEF Copy, reorder, errs, life
<1> QED BY <1>1, <1>3, <1>4 DEF Stream!Accept

LEMMA DispatchMaps ==
  ASSUME IInv, LInv, Dispatch
  PROVE  Stream!Submit
<1>1. /\ outcome = "none" /\ Stream!AllFull(dispatched)
      /\ current.lo = Stream!StreamEnd(dispatched)
  BY DEF Dispatch, LInv, Closing, Cutting
<1>2. current \in [lo : Nat, len : 0 .. ChunkSize] /\ current.len > 0 /\ ChunkSize \in Nat
  BY WriterAssumption DEF Dispatch, IInv, TypeOK
<1>3. /\ (current.lo + current.len) - current.lo = current.len
      /\ current.len \in 1 .. ChunkSize
      /\ current = [lo |-> current.lo, len |-> current.len]
  BY <1>2
<1>4. /\ dispatched' = Append(dispatched, current)
      /\ current' = [lo |-> current.lo + current.len, len |-> 0]
      /\ UNCHANGED <<out, reported, outcome>>
  BY DEF Dispatch, reorder, errs, life
<1>5. current'.lo + current'.len = current.lo + current.len
  BY <1>2, <1>4
<1>6. (current.lo + current.len) - Stream!StreamEnd(dispatched) = current.len
  BY <1>1, <1>3
<1>7. [lo |-> Stream!StreamEnd(dispatched), len |-> current.len] = current
  BY <1>1, <1>3
<1>8. dispatched' = Append(dispatched, [lo  |-> Stream!StreamEnd(dispatched),
                             len |-> (current.lo + current.len) - Stream!StreamEnd(dispatched)])
  BY <1>4, <1>6, <1>7
<1>9. (current.lo + current.len) - Stream!StreamEnd(dispatched) \in 1 .. ChunkSize
  BY <1>3, <1>6
<1>10. UNCHANGED <<current.lo + current.len, out, reported, outcome>>
  BY <1>4, <1>5
<1> QED BY <1>1, <1>8, <1>9, <1>10 DEF Stream!Submit

LEMMA EmitMaps ==
  ASSUME IInv, LInv, Emit
  PROVE  Stream!Emit
<1>1. PICK m \in Turn : out' = Append(out, m.bytes)
  BY DEF Emit
<1>2. m.idx = Len(out) /\ Tagged(m)
  BY DEF Turn, IInv, OutputCounted, MembersTagged
<1>3. Len(out) < Len(dispatched) /\ m.bytes = dispatched[Len(out) + 1]
  BY <1>2 DEF Tagged, IInv, MembersTagged
<1>4. outcome = "none" /\ UNCHANGED <<current, dispatched, reported, outcome>>
  BY DEF Emit, LInv, Closing, cut, errs, life
<1> QED BY <1>1, <1>3, <1>4 DEF Stream!Emit

(* A call of write that fails is a warning, if it is the first.            *)
LEMMA WarnMaps ==
  ASSUME outcome = "none", UNCHANGED <<current, dispatched, out, outcome>>,
         reported' = TRUE \/ UNCHANGED reported
  PROVE  StreamStep
  BY DEF StreamStep, Stream!Next, Stream!Warn, Stream!streamVars

LEMMA CloseMaps ==
  ASSUME IInv, LInv, FinalizeReturns
  PROVE  Stream!Close
<1>1. pc = "flush" /\ outcome = "none" /\ UNCHANGED <<current, dispatched, out, reported>>
  BY DEF FinalizeReturns, LInv, Closing, cut, reorder
<1>2. outcome' \in {"dropped", "err"} \/ (outcome' = "ok" /\ ~ sticky_err')
  BY DEF FinalizeReturns
<1>3. ASSUME ~ sticky_err', ~ reported PROVE Stream!Complete
  <2>1. ~ sticky_err
    BY <1>3 DEF FinalizeReturns, Record
  <2>2. out = dispatched /\ current.len = 0
    BY <1>1, <1>3, <2>1, QuietIsComplete DEF Told
  <2>3. current.lo \in Nat /\ Stream!StreamEnd(dispatched) = current.lo
    BY DEF IInv, TypeOK, LInv, Cutting
  <2> QED BY <2>2, <2>3 DEF Stream!Complete
<1>4. reported \in BOOLEAN
  BY DEF IInv, TypeOK
<1> QED BY <1>1, <1>2, <1>3, <1>4 DEF Stream!Close

LEMMA StepMaps ==
  ASSUME IInv, LInv, [Next]_vars
  PROVE  StreamStep
<1> USE DEF cut, reorder, queue, errs, life
<1>1. CASE Copy
  BY <1>1, CopyMaps DEF StreamStep, Stream!Next
<1>2. CASE Dispatch
  BY <1>2, DispatchMaps DEF StreamStep, Stream!Next
<1>3. CASE Emit
  BY <1>3, EmitMaps DEF StreamStep, Stream!Next
<1>4. CASE FinalizeReturns
  BY <1>4, CloseMaps DEF StreamStep, Stream!Next
<1>5. CASE DispatchRefused \/ ReceiveFailure \/ Tear \/ AwaitEnds
  <2>1. outcome = "none"
    BY <1>5 DEF DispatchRefused, ReceiveFailure, Tear, AwaitEnds, LInv, Closing
  <2>2. UNCHANGED <<current, dispatched, out, outcome>> /\ (reported' = TRUE \/ UNCHANGED reported)
    BY <1>5 DEF DispatchRefused, DispatchFails, DispatchReturns, ReceiveFailure, Receive, Tear, AwaitEnds
  <2> QED BY <2>1, <2>2, WarnMaps
<1>6. ASSUME NEW n \in 1 .. MaxWrite, WriteTakesError(n) PROVE StreamStep
  <2>1. outcome = "none"
    BY <1>6 DEF WriteTakesError, LInv, Closing
  <2> QED BY <1>6, <2>1, WarnMaps DEF WriteTakesError
<1>7. ASSUME UNCHANGED <<current, dispatched, out, reported, outcome>> PROVE StreamStep
  BY <1>7 DEF StreamStep, Stream!streamVars
<1>8. CASE WriteReturns \/ Drain \/ DrainEnds \/ Await \/ EmitEnds
  BY <1>7, <1>8 DEF WriteReturns, Drain, DrainEnds, Await, Receive, EmitEnds
<1>9. CASE Join \/ JoinFailure \/ JoinEnds \/ DropFinalized
  BY <1>7, <1>9 DEF Join, JoinFailure, Receive, JoinEnds, DropFinalized
<1>10. CASE UNCHANGED vars \/ \E j \in spawned : Job(j)
  BY <1>7, <1>10 DEF vars, Job
<1>11. CASE OwnerCall
  <2>1. ASSUME NEW n \in 1 .. MaxWrite, BeginWrite(n) PROVE StreamStep
    BY <1>7, <2>1 DEF BeginWrite
  <2>2. CASE Flush
    BY <1>7, <2>2 DEF Flush, vars
  <2>3. ASSUME NEW drop \in BOOLEAN, Finalize(drop) PROVE StreamStep
    BY <1>7, <2>3 DEF Finalize
  <2> QED BY <1>6, <1>11, <2>1, <2>2, <2>3 DEF OwnerCall
<1> QED BY <1>1, <1>2, <1>3, <1>4, <1>5, <1>8, <1>9, <1>10, <1>11 DEF Next, OwnerStep

(* The writer implements ChunkStream: every step a caller sees takes       *)
(* bytes, cuts a chunk, writes the next member, returns an error or        *)
(* closes, and it closes with Ok only over a complete output.              *)
THEOREM StreamImplemented == Spec => ImplementsStream
<1>1. IInv /\ LInv /\ [Next]_vars => [Stream!Next]_(Stream!streamVars)
  BY StepMaps DEF StreamStep
<1> QED BY NothingUntold, InitMaps, <1>1, PTL DEF Spec, ImplementsStream, Stream!Spec
-----------------------------------------------------------------------------
(* Back-pressure.  A failed write of a member in drain_ready leaves        *)
(* dispatch_current before it has waited for a free slot.  It happens      *)
(* once: no two members have one index, so none ever has that of the one   *)
(* that was lost, which is the index the output waits for from then on.    *)
Apart ==
  /\ \A m \in spawned, n \in 1 .. Len(chan) : m.idx # chan[n].idx
  /\ \A m \in spawned, p \in pending : m.idx # p.idx
  /\ \A p \in pending, n \in 1 .. Len(chan) : p.idx # chan[n].idx
  /\ \A n, o \in 1 .. Len(chan) : chan[n].idx = chan[o].idx => n = o

Nobody(k) ==
  /\ \A m \in spawned \cup pending : m.idx # k
  /\ \A n \in 1 .. Len(chan) : chan[n].idx # k

LostForGood == torn => write_index < next_index /\ Nobody(write_index)

Extra == IF torn THEN 1 ELSE 0

Room ==
  /\ in_flight <= MaxInFlight + Extra
  /\ pc \in {"idle", "copy", "dispatch"} => in_flight <= MaxInFlight - 1 + Extra

BInv == Apart /\ LostForGood /\ Room

LEMMA InitBInv == Init => BInv
<1> SUFFICES ASSUME Init PROVE BInv
  OBVIOUS
<1>1. Apart /\ LostForGood
  BY DEF Init, Apart, LostForGood
<1>2. Room
  BY WriterAssumption DEF Init, Room, Extra
<1> QED BY <1>1, <1>2 DEF BInv

LEMMA IndexTells ==
  ASSUME IInv, NEW m \in pending, NEW p \in pending, m.idx = p.idx
  PROVE  m = p
<1>1. m \in Member /\ p \in Member /\ Tagged(m) /\ Tagged(p)
  BY DEF IInv, TypeOK, MembersTagged
<1> QED BY <1>1 DEF Member, Tagged

LEMMA SpawnedTells ==
  ASSUME IInv, NEW m \in spawned, NEW p \in spawned, m.idx = p.idx
  PROVE  m = p
<1>1. m \in Member /\ p \in Member /\ Tagged(m) /\ Tagged(p)
  BY DEF IInv, TypeOK, MembersTagged
<1> QED BY <1>1 DEF Member, Tagged

LEMMA ApartStep ==
  ASSUME IInv, Apart, LostForGood, [Next]_vars
  PROVE  Apart' /\ LostForGood'
<1>1. next_index \in Nat /\ write_index \in Nat /\ chan \in Seq(Result) /\ Len(chan) \in Nat
      /\ pending \subseteq Member /\ spawned \subseteq Member
  BY DEF IInv, TypeOK
<1>2. CASE Rests
  BY <1>2 DEF Rests, Apart, LostForGood, Nobody
<1>3. CASE Dispatch
  <2> DEFINE job == [idx |-> next_index, bytes |-> current]
  <2>1. /\ next_index' = next_index + 1 /\ spawned' = spawned \cup {job} /\ job.idx = next_index
        /\ UNCHANGED <<write_index, pending, chan, torn>>
    BY <1>3 DEF Dispatch, reorder
  <2>2. /\ \A m \in pending : m.idx # next_index
        /\ \A n \in 1 .. Len(chan) : chan[n].idx # next_index
    BY <1>1 DEF IInv, MembersTagged, Tagged
  <2> HIDE DEF job
  <2>3. Apart'
    BY <2>1, <2>2 DEF Apart
  <2>4. LostForGood'
    BY <1>1, <2>1 DEF LostForGood, Nobody
  <2> QED BY <2>3, <2>4
<1>4. ASSUME NEW j \in spawned, Job(j) PROVE Apart' /\ LostForGood'
  <2>1. PICK r \in Result : r.idx = j.idx /\ chan' = Append(chan, r)
    BY <1>1, <1>4 DEF Job, Result, Member
  <2>2. spawned' = spawned \ {j} /\ UNCHANGED <<next_index, write_index, pending, torn>>
    BY <1>4 DEF Job, cut, reorder
  <2>3. /\ Len(chan') = Len(chan) + 1 /\ chan'[Len(chan) + 1] = r
        /\ \A n \in 1 .. Len(chan) : chan'[n] = chan[n]
    BY <1>1, <2>1
  <2>4. \A n \in 1 .. Len(chan') : n = Len(chan) + 1 \/ n \in 1 .. Len(chan)
    BY <1>1, <2>3
  <2>5. \A m \in spawned' : m.idx # j.idx
    BY <2>2, SpawnedTells
  <2>6. Apart'
    <3>1. \A m \in spawned', n \in 1 .. Len(chan') : m.idx # chan'[n].idx
      BY <2>1, <2>2, <2>3, <2>4, <2>5 DEF Apart
    <3>2. \A m \in spawned', p \in pending' : m.idx # p.idx
      BY <2>2 DEF Apart
    <3>3. \A p \in pending', n \in 1 .. Len(chan') : p.idx # chan'[n].idx
      BY <2>1, <2>2, <2>3, <2>4 DEF Apart
    <3>4. \A n, o \in 1 .. Len(chan') : chan'[n].idx = chan'[o].idx => n = o
      BY <2>1, <2>3, <2>4 DEF Apart
    <3> QED BY <3>1, <3>2, <3>3, <3>4 DEF Apart
  <2>7. LostForGood'
    BY <2>1, <2>2, <2>3, <2>4 DEF LostForGood, Nobody
  <2> QED BY <2>6, <2>7
<1>5. ASSUME NEW ok \in BOOLEAN, Receive(ok), UNCHANGED next_index PROVE Apart' /\ LostForGood'
  <2>1. UNCHANGED <<write_index, spawned, torn>>
    BY <1>5 DEF Receive
  <2>2. 1 \in 1 .. Len(chan) /\ \A n \in 1 .. Len(chan') :
          n + 1 \in 1 .. Len(chan) /\ n + 1 # 1 /\ chan'[n] = chan[n + 1]
    BY <1>1, <1>5, ChanAfterReceive
  <2>3. \A p \in pending' : p \in pending \/ p.idx = chan[1].idx
    BY <1>5, ChanAfterReceive DEF Receive
  <2>4. Apart'
    <3>1. \A m \in spawned', n \in 1 .. Len(chan') : m.idx # chan'[n].idx
      BY <2>1, <2>2 DEF Apart
    <3>2. \A m \in spawned', p \in pending' : m.idx # p.idx
      BY <2>1, <2>2, <2>3 DEF Apart
    <3>3. \A p \in pending', n \in 1 .. Len(chan') : p.idx # chan'[n].idx
      BY <2>2, <2>3 DEF Apart
    <3>4. ASSUME NEW n \in 1 .. Len(chan'), NEW o \in 1 .. Len(chan'), chan'[n].idx = chan'[o].idx
          PROVE  n = o
      <4>1. n + 1 \in 1 .. Len(chan) /\ o + 1 \in 1 .. Len(chan)
        BY <2>2, <3>4
      <4>2. chan[n + 1].idx = chan[o + 1].idx
        BY <2>2, <3>4
      <4>3. n + 1 = o + 1
        BY <4>1, <4>2 DEF Apart
      <4> QED BY <3>4, <4>3
    <3> QED BY <3>1, <3>2, <3>3, <3>4 DEF Apart
  <2>5. LostForGood'
    BY <1>5, <2>1, <2>2, <2>3 DEF LostForGood, Nobody
  <2> QED BY <2>4, <2>5
<1>6. CASE Emit
  <2>1. Turn # {} /\ pending' \subseteq pending /\ UNCHANGED <<next_index, spawned, chan, torn>>
    BY <1>6 DEF Emit, cut, queue
  <2>2. ~ torn
    BY <2>1 DEF LostForGood, Nobody, Turn
  <2> QED BY <2>1, <2>2 DEF Apart, LostForGood
<1>7. CASE Tear
  <2>1. PICK m \in Turn : pending' = pending \ {m}
    BY <1>7 DEF Tear
  <2>2. UNCHANGED <<next_index, write_index, spawned, chan>>
    BY <1>7 DEF Tear, cut, queue
  <2>3. m \in pending /\ m.idx = write_index /\ Tagged(m)
    BY DEF Turn, IInv, MembersTagged
  <2>4. Nobody(write_index)'
    <3>1. \A p \in pending' : p.idx # write_index
      BY <2>1, <2>3, IndexTells
    <3>2. \A p \in spawned' : p.idx # write_index
      BY <2>2, <2>3 DEF Apart
    <3>3. \A n \in 1 .. Len(chan') : chan'[n].idx # write_index
      BY <2>2, <2>3 DEF Apart
    <3> QED BY <2>2, <3>1, <3>2, <3>3 DEF Nobody
  <2>5. Apart'
    BY <2>1, <2>2 DEF Apart
  <2> QED BY <2>2, <2>3, <2>4, <2>5 DEF LostForGood, Tagged
<1>8. CASE Drain \/ Await \/ Join \/ ReceiveFailure \/ JoinFailure
  <2>1. \E ok \in BOOLEAN : Receive(ok) /\ UNCHANGED next_index
    BY <1>8 DEF Drain, Await, Join, ReceiveFailure, JoinFailure, cut
  <2> QED BY <1>5, <2>1
<1> QED BY <1>2, <1>3, <1>4, <1>6, <1>7, <1>8, StepIsOne

LEMMA RoomStep ==
  ASSUME IInv, LostForGood, Room, [Next]_vars
  PROVE  Room'
<1>1. in_flight \in Nat /\ MaxInFlight \in Nat \ {0} /\ torn \in BOOLEAN
  BY WriterAssumption DEF IInv, TypeOK
<1> USE DEF Room, Extra, cut, reorder, queue, errs, life
<1>2. CASE OwnerCall \/ UNCHANGED vars \/ \E j \in spawned : Job(j)
  BY <1>1, <1>2 DEF OwnerCall, BeginWrite, WriteTakesError, Flush, Finalize, vars, Job
<1>3. CASE Copy \/ WriteReturns
  BY <1>1, <1>3 DEF Copy, WriteReturns
<1>4. CASE DispatchRefused
  BY <1>1, <1>4 DEF DispatchRefused, DispatchFails, DispatchReturns
<1>5. CASE Dispatch
  BY <1>1, <1>5 DEF Dispatch
<1>6. CASE Drain \/ Await \/ Join \/ ReceiveFailure \/ JoinFailure
  <2>1. in_flight' = in_flight - 1 /\ torn' = torn
    BY <1>6 DEF Drain, Await, Join, ReceiveFailure, JoinFailure, Receive, Release
  <2> QED BY <1>1, <2>1
<1>7. CASE DrainEnds \/ JoinEnds \/ FinalizeReturns \/ DropFinalized
  BY <1>1, <1>7 DEF DrainEnds, JoinEnds, FinalizeReturns, DropFinalized
<1>8. CASE AwaitEnds
  BY <1>1, <1>8 DEF AwaitEnds, Full
<1>9. CASE Emit \/ EmitEnds
  <2>1. UNCHANGED <<in_flight, torn>>
    BY <1>9 DEF Emit, EmitEnds
  <2>2. pc' \notin {"idle", "copy", "dispatch"}
    BY <1>9 DEF Emit, EmitEnds, IInv, TypeOK
  <2> QED BY <2>1, <2>2
<1>10. CASE Tear
  <2>1. ~ torn
    BY <1>10 DEF Tear, LostForGood, Nobody, Turn
  <2>2. torn' = TRUE /\ UNCHANGED in_flight
    BY <1>10 DEF Tear
  <2> QED BY <1>1, <2>1, <2>2
<1> QED BY <1>2, <1>3, <1>4, <1>5, <1>6, <1>7, <1>8, <1>9, <1>10 DEF Next, OwnerStep

(* No more than max_in_flight jobs are out, and one more only after the    *)
(* one write of the output that may fail in drain_ready.                   *)
THEOREM QueueIsBounded == Spec => []BackPressure
<1>1. IInv /\ BInv /\ [Next]_vars => BInv'
  BY ApartStep, RoomStep DEF BInv
<1>2. BInv => BackPressure
  BY DEF BInv, Room, Extra, BackPressure
<1> QED BY Inductive, InitBInv, <1>1, <1>2, PTL DEF Spec
-----------------------------------------------------------------------------
(* What GzipMembers reads and writes, token by token.                      *)
Token == [kind : {"gz", "hdr", "d", "dz", "end", "cut"}, id : Nat]
Decoder == [data : Seq(Nat), inside : BOOLEAN, ok : BOOLEAN]

(* One token changes at most one field.                                    *)
LEMMA TakeIs ==
  ASSUME NEW r \in Decoder, NEW t \in Token
  PROVE  /\ Take(r, t) \in Decoder
         /\ Take(r, t).ok => r.ok
         /\ Take(r, t).data = IF r.ok /\ r.inside /\ t.kind \in {"d", "dz"} THEN Append(r.data, t.id) ELSE r.data
         /\ Take(r, t).ok <=> /\ r.ok
                              /\ r.inside => t.kind \in {"d", "dz", "end"}
                              /\ ~ r.inside => t.kind \in {"gz", "hdr"}
         /\ Take(r, t).ok => (Take(r, t).inside <=> t.kind # "end")
<1>1. r.data \in Seq(Nat) /\ r.inside \in BOOLEAN /\ r.ok \in BOOLEAN /\ t.id \in Nat
  BY DEF Decoder, Token
<1>2. r = [data |-> r.data, inside |-> r.inside, ok |-> r.ok]
  BY DEF Decoder
<1>3. CASE ~ r.ok
  <2>1. Take(r, t) = r
    BY <1>3 DEF Take
  <2> QED BY <1>3, <2>1
<1>4. CASE r.ok /\ r.inside /\ t.kind \in {"d", "dz"}
  <2>1. Take(r, t) = [r EXCEPT !.data = Append(@, t.id)]
    BY <1>4 DEF Take
  <2>2. Take(r, t) = [data |-> Append(r.data, t.id), inside |-> r.inside, ok |-> r.ok]
    BY <1>2, <2>1
  <2>3. Append(r.data, t.id) \in Seq(Nat)
    BY <1>1
  <2> HIDE DEF Take
  <2> QED BY <1>1, <1>4, <2>2, <2>3 DEF Decoder
<1>5. CASE r.ok /\ r.inside /\ t.kind = "end"
  <2>1. Take(r, t) = [r EXCEPT !.inside = FALSE]
    BY <1>5 DEF Take
  <2>2. Take(r, t) = [data |-> r.data, inside |-> FALSE, ok |-> r.ok]
    BY <1>2, <2>1
  <2> QED BY <1>1, <1>5, <2>2 DEF Decoder
<1>6. CASE r.ok /\ ~ r.inside /\ t.kind \in {"gz", "hdr"}
  <2>1. Take(r, t) = [r EXCEPT !.inside = TRUE]
    BY <1>6 DEF Take
  <2>2. Take(r, t) = [data |-> r.data, inside |-> TRUE, ok |-> r.ok]
    BY <1>2, <2>1
  <2> QED BY <1>1, <1>6, <2>2 DEF Decoder
<1>7. CASE /\ r.ok /\ ~ (r.inside /\ t.kind \in {"d", "dz"}) /\ ~ (r.inside /\ t.kind = "end")
           /\ ~ (~ r.inside /\ t.kind \in {"gz", "hdr"})
  <2>1. Take(r, t) = [r EXCEPT !.ok = FALSE]
    BY <1>7 DEF Take
  <2>2. Take(r, t) = [data |-> r.data, inside |-> r.inside, ok |-> FALSE]
    BY <1>2, <2>1
  <2> QED BY <1>1, <1>7, <2>2 DEF Decoder
<1> QED BY <1>3, <1>4, <1>5, <1>6, <1>7

(* Inside a member data is taken, and the end ends it.                     *)
LEMMA TakesInside ==
  ASSUME NEW x \in Seq(Nat), NEW r, r = [data |-> x, inside |-> TRUE, ok |-> TRUE], NEW t \in Token
  PROVE  /\ t.kind \in {"d", "dz"} =>
              Take(r, t) = [data |-> Append(x, t.id), inside |-> TRUE, ok |-> TRUE]
         /\ t.kind = "end" => Take(r, t) = [data |-> x, inside |-> FALSE, ok |-> TRUE]
<1>1. r \in Decoder /\ r.data = x /\ r.inside /\ r.ok
  BY DEF Decoder
<1> DEFINE q == Take(r, t)
<1>2. /\ q \in Decoder
      /\ q.data = IF t.kind \in {"d", "dz"} THEN Append(x, t.id) ELSE x
      /\ q.ok <=> t.kind \in {"d", "dz", "end"}
      /\ q.ok => (q.inside <=> t.kind # "end")
  BY <1>1, TakeIs
<1> HIDE DEF q
<1>3. q = [data |-> q.data, inside |-> q.inside, ok |-> q.ok] /\ q.inside \in BOOLEAN /\ q.ok \in BOOLEAN
  BY <1>2 DEF Decoder
<1>4. CASE t.kind \in {"d", "dz"}
  <2>1. q.data = Append(x, t.id) /\ q.inside = TRUE /\ q.ok = TRUE
    BY <1>2, <1>3, <1>4
  <2> QED BY <1>3, <1>4, <2>1 DEF q
<1>5. CASE t.kind = "end"
  <2>1. q.data = x /\ q.inside = FALSE /\ q.ok = TRUE
    BY <1>2, <1>3, <1>5
  <2> QED BY <1>3, <1>5, <2>1 DEF q
<1> QED BY <1>4, <1>5

(* The decoder goes through the stream token by token.                     *)
LEMMA ReadingIs ==
  ASSUME NEW s \in Seq(Token)
  PROVE  /\ Reading(s) \in [0 .. Len(s) -> Decoder] /\ Reading(s)[0] = Fresh
         /\ \A k \in 1 .. Len(s) : /\ s[k] \in Token /\ Reading(s)[k - 1] \in Decoder
                                   /\ Reading(s)[k] = Take(Reading(s)[k - 1], s[k])
<1> DEFINE top == Len(s)
           F == CHOOSE f : f = [k \in 0 .. top |-> IF k = 0 THEN Fresh ELSE Take(f[k - 1], s[k])]
           G == [k \in Nat |-> [v \in Decoder |-> IF k \in 1 .. top THEN Take(v, s[k]) ELSE v]]
<1>1. top \in Nat /\ \A k \in 1 .. top : s[k] \in Token
  OBVIOUS
<1>2. Reading(s) = F
  BY DEF Reading
<1>3. Fresh \in Decoder
  BY DEF Fresh, Decoder
<1> HIDE DEF top
<1>4. G \in [Nat -> [Decoder -> Decoder]]
  BY <1>1, TakeIs
<1>5. PICK g \in [0 .. top -> Decoder] : Iterates(g, Fresh, G, top)
  <2> HIDE DEF G
  <2> QED BY <1>1, <1>3, <1>4, Recursion
<1>6. g[0] = Fresh /\ \A k \in 1 .. top : g[k] = Take(g[k - 1], s[k])
  <2>1. \A k \in 1 .. top : k \in Nat /\ k - 1 \in 0 .. top
    BY <1>1
  <2>2. \A k \in 1 .. top : g[k - 1] \in Decoder /\ g[k] = G[k][g[k - 1]]
    BY <1>5, <2>1 DEF Iterates
  <2> QED BY <1>5, <2>1, <2>2 DEF Iterates
<1>7. g = [k \in 0 .. top |-> IF k = 0 THEN Fresh ELSE Take(g[k - 1], s[k])]
  <2>1. \A k \in 0 .. top : g[k] = IF k = 0 THEN Fresh ELSE Take(g[k - 1], s[k])
    <3>1. \A k \in 0 .. top : k # 0 => k \in 1 .. top
      BY <1>1
    <3> QED BY <1>6, <3>1
  <2>2. g = [k \in 0 .. top |-> g[k]]
    OBVIOUS
  <2> QED BY <2>1, <2>2
<1>8. F = [k \in 0 .. top |-> IF k = 0 THEN Fresh ELSE Take(F[k - 1], s[k])]
  BY <1>7, Zenon
<1> HIDE DEF F, G
<1>9. F[0] = Fresh /\ \A k \in 1 .. top : F[k] = Take(F[k - 1], s[k])
  <2>1. 0 \in 0 .. top /\ \A k \in 1 .. top : k \in 0 .. top /\ k # 0
    BY <1>1
  <2> QED BY <1>8, <2>1
<1> DEFINE S == {k \in Nat : k \in 0 .. top => F[k] \in Decoder}
<1>10. Nat \subseteq S
  <2>1. 0 \in S
    BY <1>3, <1>9
  <2>2. ASSUME NEW m \in Nat, m \in S PROVE m + 1 \in S
    <3>1. m + 1 \in 0 .. top => m \in 0 .. top /\ m + 1 \in 1 .. top /\ (m + 1) - 1 = m
      BY <1>1
    <3>2. m + 1 \in 0 .. top => F[m] \in Decoder /\ F[m + 1] = Take(F[m], s[m + 1]) /\ s[m + 1] \in Token
      BY <1>1, <1>9, <2>2, <3>1
    <3> QED BY <3>2, TakeIs
  <2> HIDE DEF S
  <2> QED BY <2>1, <2>2, Induction
<1>11. \A k \in 0 .. top : F[k] \in Decoder
  BY <1>1, <1>10
<1>12. F \in [0 .. top -> Decoder]
  BY <1>8, <1>11
<1>13. \A k \in 1 .. top : k - 1 \in 0 .. top
  BY <1>1
<1> QED BY <1>1, <1>2, <1>9, <1>11, <1>12, <1>13 DEF top

(* Data that is appended behind x and y is appended behind y.              *)
LEMMA AppendToConcat ==
  ASSUME NEW x \in Seq(Nat), NEW y \in Seq(Nat), NEW e \in Nat
  PROVE  Append(x \o y, e) = x \o Append(y, e)
<1> DEFINE S == Nat
<1>0. x \in Seq(S) /\ y \in Seq(S) /\ e \in S
  OBVIOUS
<1> HIDE DEF S
<1>1. x \o y \in Seq(S) /\ <<e>> \in Seq(S)
  BY <1>0
<1>2. Append(x \o y, e) = (x \o y) \o <<e>> /\ Append(y, e) = y \o <<e>>
  BY <1>0, <1>1, AppendIsConcat
<1> QED BY <1>0, <1>1, <1>2, ConcatAssociative

(* Between two members.                                                    *)
Clean(r) == r.ok /\ ~ r.inside

(* The decoder forgets: behind the end of a member it reads what follows   *)
(* as if that were the whole stream.                                       *)
LEMMA ReadsWindow ==
  ASSUME NEW s \in Seq(Token), NEW t \in Seq(Token), NEW a \in 0 .. Len(s),
         a + Len(t) <= Len(s), \A m \in 1 .. Len(t) : s[a + m] = t[m],
         Clean(Reading(s)[a])
  PROVE  \A m \in 0 .. Len(t) :
           /\ Reading(s)[a + m].data = Reading(s)[a].data \o Reading(t)[m].data
           /\ Reading(s)[a + m].ok <=> Reading(t)[m].ok
           /\ Reading(t)[m].ok => (Reading(s)[a + m].inside <=> Reading(t)[m].inside)
<1> DEFINE base == Reading(s)[a]
           A(m) == Reading(s)[a + m]
           B(m) == Reading(t)[m]
           Same(m) == /\ A(m).data = base.data \o B(m).data
                      /\ A(m).ok <=> B(m).ok
                      /\ B(m).ok => (A(m).inside <=> B(m).inside)
           S == {m \in Nat : m \in 0 .. Len(t) => Same(m)}
<1>1. a \in Nat /\ Len(t) \in Nat /\ Len(s) \in Nat /\ base \in Decoder /\ base.data \in Seq(Nat)
  <2>1. base \in Decoder
    BY ReadingIs
  <2> QED BY <2>1 DEF Decoder
<1>2. \A m \in 0 .. Len(t) : A(m) \in Decoder /\ B(m) \in Decoder
  <2>1. \A m \in 0 .. Len(t) : a + m \in 0 .. Len(s)
    BY <1>1
  <2> QED BY <2>1, ReadingIs
<1>3. \A m \in 0 .. Len(t) - 1 : /\ A(m + 1) = Take(A(m), t[m + 1])
                                 /\ B(m + 1) = Take(B(m), t[m + 1]) /\ t[m + 1] \in Token
  <2> SUFFICES ASSUME NEW m \in 0 .. Len(t) - 1
               PROVE  /\ A(m + 1) = Take(A(m), t[m + 1])
                      /\ B(m + 1) = Take(B(m), t[m + 1]) /\ t[m + 1] \in Token
    OBVIOUS
  <2>1. m + 1 \in 1 .. Len(t) /\ (m + 1) - 1 = m /\ a + (m + 1) \in 1 .. Len(s) /\ (a + (m + 1)) - 1 = a + m
    BY <1>1
  <2>2. A(m + 1) = Take(A(m), s[a + (m + 1)]) /\ B(m + 1) = Take(B(m), t[m + 1]) /\ t[m + 1] \in Token
    BY <2>1, ReadingIs
  <2> QED BY <2>1, <2>2
<1>4. Same(0)
  <2>1. a + 0 = a /\ B(0) = Fresh
    BY <1>1, ReadingIs
  <2> QED BY <1>1, <2>1 DEF Fresh, Clean
<1>5. Nat \subseteq S
  <2>1. 0 \in S
    BY <1>4
  <2>2. ASSUME NEW m \in Nat, m \in S PROVE m + 1 \in S
    <3> HIDE DEF Same
    <3> SUFFICES ASSUME m + 1 \in 0 .. Len(t) PROVE Same(m + 1)
      OBVIOUS
    <3> USE DEF Same
    <3>1. m \in 0 .. Len(t) - 1 /\ m \in 0 .. Len(t)
      BY <1>1
    <3> HIDE DEF A, B, base
    <3>2. Same(m)
      BY <2>2, <3>1
    <3> DEFINE w == t[m + 1]
               x == A(m)
               y == B(m)
    <3>3. x \in Decoder /\ y \in Decoder /\ w \in Token /\ A(m + 1) = Take(x, w) /\ B(m + 1) = Take(y, w)
      BY <1>2, <1>3, <3>1
    <3> HIDE DEF x, y, w
    <3>4. x.data = base.data \o y.data /\ (x.ok <=> y.ok) /\ (y.ok => (x.inside <=> y.inside))
          /\ y.data \in Seq(Nat) /\ w.id \in Nat
      BY <3>2, <3>3 DEF x, y, Decoder, Token
    <3>5. Append(x.data, w.id) = base.data \o Append(y.data, w.id)
      <4> DEFINE z == base.data
                 v == y.data
      <4>1. z \in Seq(Nat) /\ v \in Seq(Nat) /\ w.id \in Nat /\ x.data = z \o v
        BY <1>1, <3>4
      <4> HIDE DEF z, v
      <4> DEFINE e == w.id
      <4>2. e \in Nat
        BY <4>1
      <4> HIDE DEF e
      <4>3. Append(z \o v, e) = z \o Append(v, e)
        BY <4>1, <4>2, AppendToConcat
      <4> QED BY <4>1, <4>3 DEF z, v, e
    <3>6. Take(x, w).data = base.data \o Take(y, w).data
      BY <3>3, <3>4, <3>5, TakeIs
    <3>7. Take(x, w).ok <=> Take(y, w).ok
      BY <3>3, <3>4, TakeIs
    <3>8. Take(y, w).ok => (Take(x, w).inside <=> Take(y, w).inside)
      BY <3>3, <3>7, TakeIs
    <3> QED BY <3>3, <3>6, <3>7, <3>8
  <2> HIDE DEF S
  <2> QED BY <2>1, <2>2, Induction
<1>6. \A m \in 0 .. Len(t) : Same(m)
  <2> HIDE DEF Same
  <2> QED BY <1>1, <1>5
<1> QED BY <1>6

(* s decodes to x, with nothing left over.                                 *)
Reads(s, x) ==
  /\ s \in Seq(Token) /\ x \in Seq(Nat)
  /\ Reading(s)[Len(s)] = [data |-> x, inside |-> FALSE, ok |-> TRUE]

(* Two streams that decode, one behind the other.                          *)
LEMMA ReadsAppend ==
  ASSUME NEW s, NEW x, Reads(s, x), NEW t, NEW y, Reads(t, y)
  PROVE  /\ Reads(s \o t, x \o y)
         /\ \A m \in 0 .. Len(s) : Reading(s \o t)[m] = Reading(s)[m]
<1> DEFINE u == s \o t
<1>1. /\ s \in Seq(Token) /\ x \in Seq(Nat) /\ t \in Seq(Token) /\ y \in Seq(Nat)
      /\ Reading(s)[Len(s)] = [data |-> x, inside |-> FALSE, ok |-> TRUE]
      /\ Reading(t)[Len(t)] = [data |-> y, inside |-> FALSE, ok |-> TRUE]
  BY DEF Reads
<1>2. /\ u \in Seq(Token) /\ Len(u) = Len(s) + Len(t) /\ Len(s) \in Nat /\ Len(t) \in Nat
      /\ \A m \in 1 .. Len(s) : u[m] = s[m]
      /\ \A m \in 1 .. Len(t) : u[Len(s) + m] = t[m]
  BY <1>1
<1>3. x \o y \in Seq(Nat)
  BY <1>1
<1> HIDE DEF u
<1>4. Reading(u)[0] = Fresh /\ Clean(Fresh) /\ Fresh.data = <<>>
  BY <1>2, ReadingIs DEF Clean, Fresh
<1> DEFINE S == {m \in Nat : m \in 0 .. Len(s) => Reading(u)[m] = Reading(s)[m]}
<1>5. Nat \subseteq S
  <2>1. 0 \in S
    BY <1>1, <1>4, ReadingIs
  <2>2. ASSUME NEW m \in Nat, m \in S PROVE m + 1 \in S
    <3>1. m + 1 \in 0 .. Len(s) => /\ m \in 0 .. Len(s) /\ m + 1 \in 1 .. Len(s) /\ m + 1 \in 1 .. Len(u)
                                   /\ (m + 1) - 1 = m
      BY <1>2
    <3>2. m + 1 \in 0 .. Len(s) => /\ Reading(u)[m + 1] = Take(Reading(u)[m], u[m + 1])
                                   /\ Reading(s)[m + 1] = Take(Reading(s)[m], s[m + 1])
                                   /\ u[m + 1] = s[m + 1]
      BY <1>1, <1>2, <3>1, ReadingIs
    <3> QED BY <2>2, <3>1, <3>2
  <2> HIDE DEF S
  <2> QED BY <2>1, <2>2, Induction
<1>6. \A m \in 0 .. Len(s) : Reading(u)[m] = Reading(s)[m]
  BY <1>2, <1>5
<1>7. Reading(u)[Len(s)] = [data |-> x, inside |-> FALSE, ok |-> TRUE] /\ Len(s) \in 0 .. Len(u)
  BY <1>1, <1>2, <1>6
<1>8. /\ Reading(u)[Len(s) + Len(t)].data = Reading(u)[Len(s)].data \o Reading(t)[Len(t)].data
      /\ Reading(u)[Len(s) + Len(t)].ok <=> Reading(t)[Len(t)].ok
      /\ Reading(t)[Len(t)].ok => (Reading(u)[Len(s) + Len(t)].inside <=> Reading(t)[Len(t)].inside)
  <2>1. Clean(Reading(u)[Len(s)]) /\ Len(t) \in 0 .. Len(t)
    BY <1>2, <1>7 DEF Clean
  <2> DEFINE a == Len(s)
  <2>2. /\ a \in 0 .. Len(u) /\ a + Len(t) <= Len(u) /\ Clean(Reading(u)[a])
        /\ \A m \in 1 .. Len(t) : u[a + m] = t[m]
    BY <1>2, <1>7, <2>1
  <2> HIDE DEF a
  <2>3. \A m \in 0 .. Len(t) :
           /\ Reading(u)[a + m].data = Reading(u)[a].data \o Reading(t)[m].data
           /\ Reading(u)[a + m].ok <=> Reading(t)[m].ok
           /\ Reading(t)[m].ok => (Reading(u)[a + m].inside <=> Reading(t)[m].inside)
    BY <1>1, <1>2, <2>2, ReadsWindow
  <2> QED BY <2>1, <2>3 DEF a
<1>9. Reading(u)[Len(u)] = [data |-> x \o y, inside |-> FALSE, ok |-> TRUE]
  <2>1. Reading(u)[Len(u)] \in Decoder
    BY <1>2, ReadingIs
  <2>2. Reading(u)[Len(u)].data = x \o y /\ Reading(u)[Len(u)].ok /\ ~ Reading(u)[Len(u)].inside
    BY <1>1, <1>2, <1>7, <1>8
  <2> QED BY <2>1, <2>2 DEF Decoder
<1>10. Reads(u, x \o y)
  BY <1>2, <1>3, <1>9 DEF Reads
<1> QED BY <1>6, <1>10 DEF u
-----------------------------------------------------------------------------
(* The data of n tokens, numbered from where they start.                   *)
Numbers(from, n) == [j \in 1 .. n |-> from + j]

LEMMA NumbersIs ==
  ASSUME NEW w \in Nat, NEW n \in Nat
  PROVE  /\ Numbers(w, n) \in Seq(Nat) /\ Len(Numbers(w, n)) = n
         /\ \A j \in 1 .. n : Numbers(w, n)[j] = w + j
<1>1. Numbers(w, n) \in [1 .. n -> Nat]
  BY DEF Numbers
<1> QED BY <1>1 DEF Numbers

LEMMA NumbersJoin ==
  ASSUME NEW w \in Nat, NEW a \in Nat, NEW b \in Nat
  PROVE  Numbers(w, a) \in Seq(Nat) /\ Numbers(w, a) \o Numbers(w + a, b) = Numbers(w, a + b)
<1> DEFINE x == Numbers(w, a)
           y == Numbers(w + a, b)
           z == Numbers(w, a + b)
<1>1. /\ x \in Seq(Nat) /\ Len(x) = a /\ \A j \in 1 .. a : x[j] = w + j
      /\ y \in Seq(Nat) /\ Len(y) = b /\ \A j \in 1 .. b : y[j] = w + a + j
      /\ z \in Seq(Nat) /\ Len(z) = a + b /\ \A j \in 1 .. a + b : z[j] = w + j
  <2>1. w + a \in Nat /\ a + b \in Nat
    OBVIOUS
  <2> QED BY <2>1, NumbersIs
<1> HIDE DEF x, y, z
<1> DEFINE T == Nat
<1>2. /\ x \o y \in Seq(Nat) /\ Len(x \o y) = a + b
      /\ \A j \in 1 .. a : (x \o y)[j] = x[j]
      /\ \A j \in 1 .. b : (x \o y)[a + j] = y[j]
  <2>1. x \in Seq(T) /\ y \in Seq(T)
    BY <1>1
  <2> HIDE DEF T
  <2>2. /\ x \o y \in Seq(T) /\ Len(x \o y) = a + b
        /\ \A j \in 1 .. a : (x \o y)[j] = x[j]
        /\ \A j \in 1 .. b : (x \o y)[a + j] = y[j]
    <3>1. /\ x \o y \in Seq(T) /\ Len(x \o y) = Len(x) + Len(y)
          /\ \A j \in 1 .. Len(x) : (x \o y)[j] = x[j]
          /\ \A j \in 1 .. Len(y) : (x \o y)[Len(x) + j] = y[j]
      BY <2>1, ConcatIs
    <3> QED BY <1>1, <3>1
  <2> QED BY <2>2 DEF T
<1>3. ASSUME NEW j \in 1 .. a + b PROVE (x \o y)[j] = z[j]
  <2>1. CASE j <= a
    <3>1. j \in 1 .. a
      BY <2>1
    <3> QED BY <1>1, <1>2, <3>1
  <2>2. CASE j > a
    <3>1. j - a \in 1 .. b /\ a + (j - a) = j /\ w + a + (j - a) = w + j
      BY <2>2
    <3>2. (x \o y)[j] = y[j - a] /\ y[j - a] = w + a + (j - a)
      BY <1>1, <1>2, <3>1
    <3> QED BY <1>1, <3>1, <3>2
  <2>3. j <= a \/ j > a
    OBVIOUS
  <2> QED BY <2>1, <2>2, <2>3
<1>4. x \o y = z
  BY <1>1, <1>2, <1>3, SeqEqual
<1> QED BY <1>1, <1>4 DEF x, y, z

(* One member decodes to its data: a chunk of the CPU.                     *)
LEMMA MemberReads ==
  ASSUME NEW header \in {"gz", "hdr"}, NEW len \in Nat, NEW shape \in [1 .. len -> {"d", "dz"}],
         NEW w \in Nat
  PROVE  /\ Reads(MemberOf(header, shape, w), Numbers(w, len))
         /\ \A k \in 1 .. Len(MemberOf(header, shape, w)) : MemberOf(header, shape, w)[k].kind # "cut"
<1> DEFINE body == [k \in DOMAIN shape |-> [kind |-> shape[k], id |-> w + k]]
           t == Mark(header) \o body \o Mark("end")
<1>1. /\ body \in Seq(Token) /\ Len(body) = len
      /\ \A k \in 1 .. len : body[k] = [kind |-> shape[k], id |-> w + k] /\ shape[k] \in {"d", "dz"}
  BY DEF Token
<1>2. t = MemberOf(header, shape, w)
  BY DEF MemberOf
<1>3. /\ Mark(header) \in Seq(Token) /\ Len(Mark(header)) = 1 /\ Mark(header)[1] = [kind |-> header, id |-> 0]
      /\ Mark("end") \in Seq(Token) /\ Len(Mark("end")) = 1 /\ Mark("end")[1] = [kind |-> "end", id |-> 0]
  BY DEF Mark, Token
<1> HIDE DEF body
<1>4. /\ t \in Seq(Token) /\ Len(t) = len + 2 /\ t[1] = [kind |-> header, id |-> 0]
      /\ \A k \in 1 .. len : t[1 + k] = body[k]
      /\ t[len + 2] = [kind |-> "end", id |-> 0]
  <2> DEFINE h == Mark(header)
             c == Mark("end")
             y == h \o body
  <2>1. t = y \o c
    OBVIOUS
  <2>2. /\ h \in Seq(Token) /\ Len(h) = 1 /\ h[1] = [kind |-> header, id |-> 0]
        /\ c \in Seq(Token) /\ Len(c) = 1 /\ c[1] = [kind |-> "end", id |-> 0]
    BY <1>3
  <2> HIDE DEF h, c, t
  <2>3. /\ y \in Seq(Token) /\ Len(y) = len + 1 /\ y[1] = [kind |-> header, id |-> 0]
        /\ \A k \in 1 .. len : y[1 + k] = body[k]
    <3>1. body \in Seq(Token) /\ Len(body) = len /\ 1 \in 1 .. 1
      BY <1>1
    <3>0. h \in Seq(Token) /\ body \in Seq(Token)
      BY <2>2, <3>1
    <3>2. /\ h \o body \in Seq(Token) /\ Len(h \o body) = Len(h) + Len(body)
          /\ \A j \in 1 .. Len(h) : (h \o body)[j] = h[j]
          /\ \A j \in 1 .. Len(body) : (h \o body)[Len(h) + j] = body[j]
      BY <3>0, ConcatIs
    <3> QED BY <2>2, <3>1, <3>2
  <2> HIDE DEF y
  <2>4. /\ t \in Seq(Token) /\ Len(t) = len + 2 /\ t[len + 2] = c[1]
        /\ \A k \in 1 .. len + 1 : t[k] = y[k]
    <3>1. 1 \in 1 .. 1 /\ (len + 1) + 1 = len + 2
      OBVIOUS
    <3>0. y \in Seq(Token) /\ c \in Seq(Token)
      BY <2>2, <2>3
    <3>2. /\ y \o c \in Seq(Token) /\ Len(y \o c) = Len(y) + Len(c)
          /\ \A j \in 1 .. Len(y) : (y \o c)[j] = y[j]
          /\ \A j \in 1 .. Len(c) : (y \o c)[Len(y) + j] = c[j]
      BY <3>0, ConcatIs
    <3>3. Len(y) = len + 1 /\ Len(c) = 1
      BY <2>2, <2>3
    <3> QED BY <2>1, <3>1, <3>2, <3>3
  <2>5. 1 \in 1 .. len + 1 /\ \A k \in 1 .. len : 1 + k \in 1 .. len + 1
    OBVIOUS
  <2> QED BY <2>2, <2>3, <2>4, <2>5
<1> HIDE DEF t
<1> DEFINE Within(k) == Reading(t)[k + 1] = [data |-> Numbers(w, k), inside |-> TRUE, ok |-> TRUE]
           S == {k \in Nat : k \in 0 .. len => Within(k)}
<1>5. Within(0)
  <2>1. 1 \in 1 .. Len(t) /\ Reading(t)[0] = Fresh /\ Reading(t)[1] = Take(Reading(t)[1 - 1], t[1])
    BY <1>4, ReadingIs
  <2>2. Take(Fresh, t[1]) = [Fresh EXCEPT !.inside = TRUE]
    BY <1>4 DEF Take, Fresh
  <2>3. Numbers(w, 0) = <<>>
    BY DEF Numbers
  <2>4. Take(Fresh, t[1]) = [data |-> <<>>, inside |-> TRUE, ok |-> TRUE]
    BY <2>2 DEF Fresh
  <2>5. Reading(t)[0 + 1] = Take(Fresh, t[1])
    BY <2>1
  <2> QED BY <2>3, <2>4, <2>5
<1>6. Nat \subseteq S
  <2>1. 0 \in S
    BY <1>5
  <2>2. ASSUME NEW m \in Nat, m \in S PROVE m + 1 \in S
    <3> SUFFICES ASSUME m + 1 \in 0 .. len PROVE Within(m + 1)
      OBVIOUS
    <3>1. m \in 0 .. len /\ m + 1 \in 1 .. len /\ 1 + (m + 1) = (m + 1) + 1 /\ (m + 1) + 1 \in 1 .. Len(t)
          /\ ((m + 1) + 1) - 1 = m + 1
      BY <1>4
    <3> DEFINE r == Reading(t)[m + 1]
    <3>2. r = [data |-> Numbers(w, m), inside |-> TRUE, ok |-> TRUE]
      BY <2>2, <3>1
    <3>3. Reading(t)[(m + 1) + 1] = Take(r, t[(m + 1) + 1])
      BY <1>4, <3>1, ReadingIs
    <3>4. t[(m + 1) + 1] = [kind |-> shape[m + 1], id |-> w + (m + 1)] /\ shape[m + 1] \in {"d", "dz"}
      BY <1>1, <1>4, <3>1
    <3> HIDE DEF r
    <3> DEFINE x == Numbers(w, m)
               e == w + (m + 1)
               q == t[(m + 1) + 1]
    <3>5. Take(r, q) = [data |-> Append(x, e), inside |-> TRUE, ok |-> TRUE]
      <4>1. x \in Seq(Nat) /\ q \in Token /\ q.kind \in {"d", "dz"} /\ q.id = e
        <5>1. x \in Seq(Nat)
          BY NumbersIs
        <5>2. q = [kind |-> shape[m + 1], id |-> e] /\ shape[m + 1] \in {"d", "dz"}
          BY <3>4
        <5>3. q \in Token
          BY <1>4, <3>1, ReadingIs
        <5> HIDE DEF q, e, x
        <5> QED BY <5>1, <5>2, <5>3
      <4> HIDE DEF x, e, q
      <4>2. r = [data |-> x, inside |-> TRUE, ok |-> TRUE]
        BY <3>2 DEF x
      <4>3. Take(r, q) = [data |-> Append(x, q.id), inside |-> TRUE, ok |-> TRUE]
        BY <4>1, <4>2, TakesInside
      <4> QED BY <4>1, <4>3
    <3>6. Append(Numbers(w, m), w + (m + 1)) = Numbers(w, m + 1)
      <4>1. Numbers(w, m) \in Seq(Nat) /\ w + (m + 1) \in Nat
            /\ Numbers(w, m) \o Numbers(w + m, 1) = Numbers(w, m + 1)
        <5>1. w \in Nat /\ m \in Nat /\ 1 \in Nat /\ w + (m + 1) \in Nat
          OBVIOUS
        <5> QED BY <5>1, NumbersIs, NumbersJoin
      <4>2. Numbers(w + m, 1) = <<w + (m + 1)>>
        BY DEF Numbers
      <4> QED BY <4>1, <4>2, AppendIsConcat
    <3> QED BY <3>3, <3>5, <3>6
  <2> HIDE DEF S
  <2> QED BY <2>1, <2>2, Induction
<1>7. Within(len)
  BY <1>6
<1>8. Reading(t)[Len(t)] = [data |-> Numbers(w, len), inside |-> FALSE, ok |-> TRUE]
  <2>1. len + 2 \in 1 .. Len(t) /\ (len + 2) - 1 = len + 1
    BY <1>4
  <2>2. Reading(t)[len + 2] = Take(Reading(t)[len + 1], t[len + 2])
    BY <1>4, <2>1, ReadingIs
  <2> DEFINE x == Numbers(w, len)
             r == Reading(t)[len + 1]
             q == t[len + 2]
  <2>3. x \in Seq(Nat) /\ q \in Token /\ q.kind = "end" /\ r = [data |-> x, inside |-> TRUE, ok |-> TRUE]
    BY <1>4, <1>7, <2>1, NumbersIs
  <2> HIDE DEF x, r, q
  <2>4. Take(r, q) = [data |-> x, inside |-> FALSE, ok |-> TRUE]
    BY <2>3, TakesInside
  <2> QED BY <1>4, <2>2, <2>4 DEF x, r, q
<1>9. Numbers(w, len) \in Seq(Nat)
  BY NumbersJoin
<1>10. ASSUME NEW k \in 1 .. Len(t) PROVE t[k].kind # "cut"
  <2>1. CASE k = 1
    BY <1>4, <2>1
  <2>2. CASE k = len + 2
    BY <1>4, <2>2
  <2>3. CASE k # 1 /\ k # len + 2
    <3>1. k - 1 \in 1 .. len /\ k = 1 + (k - 1)
      BY <1>4, <2>3
    <3>2. t[k] = [kind |-> shape[k - 1], id |-> w + (k - 1)] /\ shape[k - 1] \in {"d", "dz"}
      BY <1>1, <1>4, <3>1
    <3> QED BY <3>2
  <2> QED BY <2>1, <2>2, <2>3
<1> QED BY <1>2, <1>4, <1>8, <1>9, <1>10 DEF Reads
-----------------------------------------------------------------------------
(* So does a member per piece: a chunk of the GPU.                         *)
LEMMA PiecesRead ==
  ASSUME NEW n \in Nat \ {0}, NEW shape \in [1 .. n -> {"d", "dz"}], NEW w \in Nat
  PROVE  Reads(FlattenSeq([k \in 1 .. n |-> MemberOf("gz", <<shape[k]>>, w + k - 1)]), Numbers(w, n))
<1> DEFINE M(k) == MemberOf("gz", <<shape[k]>>, w + k - 1)
           s == [k \in 1 .. n |-> M(k)]
<1>1. ASSUME NEW k \in 1 .. n PROVE Reads(M(k), Numbers(w + k - 1, 1))
  <2>1. <<shape[k]>> \in [1 .. 1 -> {"d", "dz"}] /\ w + k - 1 \in Nat
    OBVIOUS
  <2> QED BY <2>1, MemberReads
<1> HIDE DEF M
<1>2. s \in Seq(Seq(Token)) /\ Len(s) = n /\ \A k \in 1 .. n : s[k] = M(k)
  <2>1. \A k \in 1 .. n : M(k) \in Seq(Token)
    BY <1>1 DEF Reads
  <2> QED BY <2>1
<1> HIDE DEF s
<1>3. PICK f \in [1 .. n -> Seq(Token)] : /\ f[1] = s[1] /\ FlattenSeq(s) = f[n]
                                          /\ \A k \in 2 .. n : f[k] = f[k - 1] \o s[k]
  <2> DEFINE V == Token
  <2>1. s \in Seq(Seq(V)) /\ Len(s) # 0
    BY <1>2
  <2> HIDE DEF V
  <2>2. \E f \in [1 .. Len(s) -> Seq(V)] :
           /\ f[1] = s[1] /\ FlattenSeq(s) = f[Len(s)]
           /\ \A k \in 2 .. Len(s) : f[k] = f[k - 1] \o s[k]
    BY <2>1, FlattenIs
  <2> QED BY <1>2, <2>2 DEF V
<1> DEFINE S == {k \in Nat : k \in 1 .. n => Reads(f[k], Numbers(w, k))}
<1>4. Nat \subseteq S
  <2>1. 0 \in S
    OBVIOUS
  <2>2. ASSUME NEW m \in Nat, m \in S PROVE m + 1 \in S
    <3> SUFFICES ASSUME m + 1 \in 1 .. n PROVE Reads(f[m + 1], Numbers(w, m + 1))
      OBVIOUS
    <3>0. w + (m + 1) - 1 = w + m
      OBVIOUS
    <3>1. Reads(s[m + 1], Numbers(w + m, 1))
      BY <1>1, <1>2, <3>0
    <3>2. CASE m = 0
      BY <1>3, <3>1, <3>2
    <3>3. CASE m # 0
      <4>1. m \in 1 .. n /\ m + 1 \in 2 .. n /\ (m + 1) - 1 = m
        BY <3>3
      <4>2. Reads(f[m], Numbers(w, m)) /\ f[m + 1] = f[m] \o s[m + 1]
        BY <1>3, <2>2, <4>1
      <4>3. Numbers(w, m) \o Numbers(w + m, 1) = Numbers(w, m + 1)
        <5>1. w \in Nat /\ m \in Nat /\ 1 \in Nat
          OBVIOUS
        <5> QED BY <5>1, NumbersJoin
      <4>4. Reads(f[m] \o s[m + 1], Numbers(w, m) \o Numbers(w + m, 1))
        BY <3>1, <4>2, ReadsAppend
      <4> QED BY <4>2, <4>3, <4>4
    <3> QED BY <3>2, <3>3
  <2> HIDE DEF S
  <2> QED BY <2>1, <2>2, Induction
<1>5. Reads(f[n], Numbers(w, n))
  BY <1>4
<1> QED BY <1>3, <1>5 DEF s, M
-----------------------------------------------------------------------------
(* Tokens in common are read alike.                                        *)
LEMMA SamePrefix ==
  ASSUME NEW s \in Seq(Token), NEW t \in Seq(Token), NEW n \in Nat, n <= Len(s), n <= Len(t),
         \A k \in 1 .. n : s[k] = t[k]
  PROVE  \A k \in 0 .. n : Reading(s)[k] = Reading(t)[k]
<1> DEFINE S == {m \in Nat : m \in 0 .. n => Reading(s)[m] = Reading(t)[m]}
<1>1. Nat \subseteq S
  <2>1. 0 \in S
    BY ReadingIs
  <2>2. ASSUME NEW m \in Nat, m \in S PROVE m + 1 \in S
    <3>1. m + 1 \in 0 .. n => /\ m \in 0 .. n /\ m + 1 \in 1 .. n /\ m + 1 \in 1 .. Len(s) /\ m + 1 \in 1 .. Len(t)
                              /\ (m + 1) - 1 = m
      OBVIOUS
    <3>2. m + 1 \in 0 .. n => /\ Reading(s)[m + 1] = Take(Reading(s)[m], s[m + 1])
                              /\ Reading(t)[m + 1] = Take(Reading(t)[m], t[m + 1])
                              /\ s[m + 1] = t[m + 1]
      BY <3>1, ReadingIs
    <3> QED BY <2>2, <3>1, <3>2
  <2> HIDE DEF S
  <2> QED BY <2>1, <2>2, Induction
<1> QED BY <1>1

(* A prefix, element by element.                                           *)
LEMMA IsPrefixIs ==
  ASSUME NEW e \in Seq(Nat), NEW d \in Seq(Nat), Len(e) <= Len(d),
         \A j \in 1 .. Len(e) : d[j] = e[j]
  PROVE  IsPrefix(e, d)
<1> DEFINE T == Nat
<1>0. e \in Seq(T) /\ d \in Seq(T)
  OBVIOUS
<1> HIDE DEF T
<1>1. SubSeq(e, 1, Len(e)) \in Seq(T) /\ SubSeq(d, 1, Len(e)) \in Seq(T)
  BY <1>0
<1>2. Len(SubSeq(e, 1, Len(e))) = Len(e) /\ Len(SubSeq(d, 1, Len(e))) = Len(e)
  BY <1>0
<1>3. \A j \in 1 .. Len(e) : SubSeq(e, 1, Len(e))[j] = e[j] /\ SubSeq(d, 1, Len(e))[j] = d[j]
  BY <1>0
<1>4. SubSeq(e, 1, Len(e)) = SubSeq(d, 1, Len(e))
  BY <1>1, <1>2, <1>3, SeqEqual
<1> QED BY <1>4 DEF IsPrefix

(* Once the decoder has failed it has failed, and data stays.              *)
LEMMA Grows ==
  ASSUME NEW s \in Seq(Token), NEW k \in 0 .. Len(s), NEW m \in k .. Len(s)
  PROVE  /\ Reading(s)[m].ok => Reading(s)[k].ok
         /\ IsPrefix(Reading(s)[k].data, Reading(s)[m].data)
<1> DEFINE R(j) == Reading(s)[j]
           Kept(j) == /\ R(j).ok => R(k).ok
                      /\ Len(R(k).data) <= Len(R(j).data)
                      /\ \A z \in 1 .. Len(R(k).data) : R(j).data[z] = R(k).data[z]
           S == {j \in Nat : k + j <= Len(s) => Kept(k + j)}
<1>1. \A j \in 0 .. Len(s) : R(j) \in Decoder /\ R(j).data \in Seq(Nat)
  <2>1. \A j \in 0 .. Len(s) : R(j) \in Decoder
    BY ReadingIs
  <2> QED BY <2>1 DEF Decoder
<1>2. \A j \in 1 .. Len(s) : R(j) = Take(R(j - 1), s[j]) /\ s[j] \in Token
  BY ReadingIs
<1> HIDE DEF R
<1>3. Nat \subseteq S
  <2>1. 0 \in S
    <3>1. k + 0 = k /\ Kept(k)
      BY <1>1
    <3> HIDE DEF Kept
    <3> QED BY <3>1
  <2>2. ASSUME NEW j \in Nat, j \in S PROVE j + 1 \in S
    <3> HIDE DEF Kept
    <3> SUFFICES ASSUME k + (j + 1) <= Len(s) PROVE Kept(k + (j + 1))
      OBVIOUS
    <3> DEFINE p == k + j
    <3>1. p \in 0 .. Len(s) /\ k + (j + 1) = p + 1 /\ p + 1 \in 1 .. Len(s) /\ (p + 1) - 1 = p /\ p + 1 \in 0 .. Len(s)
      OBVIOUS
    <3>2. Kept(p)
      BY <2>2
    <3> HIDE DEF p
    <3> DEFINE x == R(p)
               u == s[p + 1]
               d == x.data
               e == R(k).data
    <3>3. x \in Decoder /\ u \in Token /\ R(p + 1) = Take(x, u) /\ d \in Seq(Nat) /\ e \in Seq(Nat) /\ u.id \in Nat
      BY <1>1, <1>2, <3>1 DEF Token
    <3>4. (Take(x, u).ok => x.ok) /\ (Take(x, u).data = d \/ Take(x, u).data = Append(d, u.id))
      BY <3>3, TakeIs
    <3>5. (x.ok => R(k).ok) /\ Len(e) <= Len(d) /\ \A z \in 1 .. Len(e) : d[z] = e[z]
      BY <3>2 DEF Kept
    <3> HIDE DEF x, u, d, e
    <3>6. /\ Len(Append(d, u.id)) = Len(d) + 1
          /\ \A z \in 1 .. Len(d) : Append(d, u.id)[z] = d[z]
      BY <3>3
    <3>7. \A z \in 1 .. Len(e) : z \in 1 .. Len(d)
      BY <3>3, <3>5
    <3> DEFINE v == Take(x, u).data
    <3>8. Len(e) <= Len(v) /\ \A z \in 1 .. Len(e) : v[z] = e[z]
      <4>1. v = d \/ v = Append(d, u.id)
        BY <3>4
      <4> HIDE DEF v
      <4>2. CASE v = d
        BY <3>5, <4>2
      <4>3. CASE v = Append(d, u.id)
        <5>1. Len(e) \in Nat /\ Len(d) \in Nat /\ Len(v) = Len(d) + 1
          BY <3>3, <3>6, <4>3
        <5>2. \A z \in 1 .. Len(e) : v[z] = d[z] /\ d[z] = e[z]
          BY <3>5, <3>6, <3>7, <4>3
        <5> QED BY <3>5, <5>1, <5>2
      <4> QED BY <4>1, <4>2, <4>3
    <3>9. Kept(p + 1)
      BY <3>3, <3>4, <3>5, <3>8 DEF Kept, e
    <3> QED BY <3>1, <3>9
  <2> HIDE DEF S
  <2> QED BY <2>1, <2>2, Induction
<1>4. Kept(m)
  <2>1. m - k \in Nat /\ k + (m - k) = m
    OBVIOUS
  <2> HIDE DEF Kept
  <2> QED BY <1>3, <2>1
<1>5. IsPrefix(R(k).data, R(m).data)
  <2> DEFINE d == R(m).data
             e == R(k).data
  <2>1. d \in Seq(Nat) /\ e \in Seq(Nat) /\ Len(e) <= Len(d) /\ \A z \in 1 .. Len(e) : d[z] = e[z]
    BY <1>1, <1>4
  <2> HIDE DEF d, e
  <2>2. IsPrefix(e, d)
    BY <2>1, IsPrefixIs
  <2> QED BY <2>2 DEF d, e
<1> QED BY <1>4, <1>5 DEF R
-----------------------------------------------------------------------------
(* No header is short.                                                       *)
NoCut(s) == \A k \in DOMAIN s : s[k].kind # "cut"

(* What a crash leaves of n data tokens: it reads without an error, up to  *)
(* a header that is short at the very end.                                   *)
Left(s, n) ==
  /\ s \in Seq(Token)
  /\ \A k \in 1 .. Len(s) : \/ Reading(s)[k].ok
                            \/ k = Len(s) /\ s[k].kind = "cut" /\ Clean(Reading(s)[k - 1])
  /\ IsPrefix(Reading(s)[Len(s)].data, Numbers(0, n))

(* A file that was not short.                                                *)
LEMMA ReadIsLeft ==
  ASSUME NEW n \in Nat, NEW s, Reads(s, Numbers(0, n))
  PROVE  Left(s, n) /\ NoCut(s)
<1>1. s \in Seq(Token) /\ Reading(s)[Len(s)].data = Numbers(0, n) /\ Reading(s)[Len(s)].ok
  BY DEF Reads
<1>2. ASSUME NEW k \in 0 .. Len(s) PROVE Reading(s)[k].ok
  <2>1. Len(s) \in k .. Len(s)
    BY <1>1
  <2> QED BY <1>1, <2>1, Grows
<1>3. ASSUME NEW k \in 1 .. Len(s) PROVE s[k].kind # "cut"
  <2>1. /\ s[k] \in Token /\ Reading(s)[k - 1] \in Decoder
        /\ Reading(s)[k] = Take(Reading(s)[k - 1], s[k]) /\ k \in 0 .. Len(s)
    BY <1>1, ReadingIs
  <2> QED BY <1>2, <2>1, TakeIs
<1>4. IsPrefix(Reading(s)[Len(s)].data, Numbers(0, n))
  <2>1. 0 \in Nat
    OBVIOUS
  <2>2. Numbers(0, n) \in Seq(Nat)
    BY <2>1, NumbersIs
  <2>3. IsPrefix(Numbers(0, n), Numbers(0, n))
    <3> DEFINE x == Numbers(0, n)
    <3>1. x \in Seq(Nat) /\ Len(x) <= Len(x) /\ \A j \in 1 .. Len(x) : x[j] = x[j]
      BY <2>2
    <3> HIDE DEF x
    <3>2. IsPrefix(x, x)
      BY <3>1, IsPrefixIs
    <3> QED BY <3>2 DEF x
  <2> QED BY <1>1, <2>3
<1>5. \A k \in 1 .. Len(s) : k \in 0 .. Len(s)
  OBVIOUS
<1>6. DOMAIN s = 1 .. Len(s)
  BY <1>1
<1> QED BY <1>1, <1>2, <1>3, <1>4, <1>5, <1>6 DEF Left, NoCut

(* The two ways a crash cuts.                                              *)
LEMMA CutIsLeft ==
  ASSUME NEW n \in Nat, NEW s, Reads(s, Numbers(0, n)), NEW m \in 0 .. Len(s) - 1
  PROVE  /\ Left(SubSeq(s, 1, m), n)
         /\ s[m + 1].kind \in {"gz", "hdr"} => Left(SubSeq(s, 1, m) \o Mark("cut"), n)
<1> DEFINE t == SubSeq(s, 1, m)
           c == Mark("cut")
           u == t \o c
<1>1. s \in Seq(Token) /\ Len(s) \in Nat /\ m \in Nat
      /\ Reading(s)[Len(s)].data = Numbers(0, n) /\ Reading(s)[Len(s)].ok
  BY DEF Reads
<1>2. t \in Seq(Token) /\ Len(t) = m /\ \A k \in 1 .. m : t[k] = s[k]
  BY <1>1
<1>3. c \in Seq(Token) /\ Len(c) = 1 /\ c[1].kind = "cut"
  BY DEF Mark, Token
<1> HIDE DEF t, c
<1>4. /\ u \in Seq(Token) /\ Len(u) = m + 1 /\ u[m + 1] = c[1]
      /\ \A k \in 1 .. m : u[k] = s[k]
  <2>0. t \in Seq(Token) /\ c \in Seq(Token)
    BY <1>2, <1>3
  <2>1. /\ t \o c \in Seq(Token) /\ Len(t \o c) = Len(t) + Len(c)
        /\ \A j \in 1 .. Len(t) : (t \o c)[j] = t[j]
        /\ \A j \in 1 .. Len(c) : (t \o c)[Len(t) + j] = c[j]
    BY <2>0, ConcatIs
  <2>2. 1 \in 1 .. 1
    OBVIOUS
  <2>3. u = t \o c
    OBVIOUS
  <2> HIDE DEF u
  <2> QED BY <1>2, <1>3, <2>1, <2>2, <2>3
<1> HIDE DEF u
<1>5. \A k \in 0 .. m : Reading(t)[k] = Reading(s)[k]
  <2>1. m <= Len(t) /\ m <= Len(s)
    BY <1>1, <1>2
  <2> QED BY <1>1, <1>2, <2>1, SamePrefix
<1>6. \A k \in 0 .. m : Reading(u)[k] = Reading(s)[k]
  <2>1. m <= Len(u) /\ m <= Len(s)
    BY <1>1, <1>4
  <2> QED BY <1>1, <1>4, <2>1, SamePrefix
<1>7. \A k \in 0 .. Len(s) : Reading(s)[k].ok /\ IsPrefix(Reading(s)[k].data, Numbers(0, n))
  <2>1. \A k \in 0 .. Len(s) : Len(s) \in k .. Len(s)
    BY <1>1
  <2> QED BY <1>1, <2>1, Grows
<1>8. Left(t, n)
  <2>1. \A k \in 1 .. m : k \in 0 .. m /\ k \in 0 .. Len(s)
    BY <1>1
  <2>2. m \in 0 .. m /\ m \in 0 .. Len(s)
    BY <1>1
  <2> QED BY <1>2, <1>5, <1>7, <2>1, <2>2 DEF Left
<1>9. ASSUME s[m + 1].kind \in {"gz", "hdr"} PROVE Left(u, n)
  <2>1. m + 1 \in 1 .. Len(s) /\ (m + 1) - 1 = m /\ m \in 0 .. m /\ m + 1 \in 0 .. Len(s) /\ m \in 0 .. Len(s)
    BY <1>1
  <2>2. Clean(Reading(s)[m])
    <3>1. /\ s[m + 1] \in Token /\ Reading(s)[m] \in Decoder
          /\ Reading(s)[m + 1] = Take(Reading(s)[m], s[m + 1])
      BY <1>1, <2>1, ReadingIs
    <3> QED BY <1>7, <1>9, <2>1, <3>1, TakeIs DEF Clean
  <2>3. Reading(u)[m + 1].data = Reading(s)[m].data
    <3>1. m + 1 \in 1 .. Len(u)
      BY <1>4
    <3>2. /\ u[m + 1] \in Token /\ Reading(u)[m] \in Decoder
          /\ Reading(u)[m + 1] = Take(Reading(u)[m], u[m + 1])
      BY <1>4, <2>1, <3>1, ReadingIs
    <3>3. u[m + 1].kind \notin {"d", "dz"}
      BY <1>3, <1>4
    <3> QED BY <1>6, <2>1, <3>2, <3>3, TakeIs
  <2>4. ASSUME NEW k \in 1 .. m + 1 
        PROVE  \/ Reading(u)[k].ok
               \/ k = Len(u) /\ u[k].kind = "cut" /\ Clean(Reading(u)[k - 1])
    <3>1. CASE k = m + 1
      BY <1>3, <1>4, <1>6, <2>1, <2>2, <3>1
    <3>2. CASE k # m + 1
      <4>1. k \in 0 .. m /\ k \in 0 .. Len(s)
        BY <1>1, <3>2
      <4>2. Reading(u)[k] = Reading(s)[k]
        BY <1>6, <4>1
      <4>3. Reading(s)[k].ok
        BY <1>7, <4>1
      <4>4. Reading(u)[k].ok
        BY <4>2, <4>3
      <4> QED BY <4>4
    <3> QED BY <3>1, <3>2
  <2>5. IsPrefix(Reading(u)[m + 1].data, Numbers(0, n))
    BY <1>7, <2>1, <2>3
  <2> QED BY <1>4, <2>4, <2>5 DEF Left
<1> QED BY <1>8, <1>9 DEF u, t, c
-----------------------------------------------------------------------------
(* st are the positions below p of what looks like the header in s.        *)
AllStarts(s, st, p) ==
  /\ st \in Seq(Nat)
  /\ \A j \in 1 .. Len(st) : st[j] \in 1 .. p - 1 /\ s[st[j]].kind \in {"gz", "dz"}
  /\ \A j, k \in 1 .. Len(st) : j < k => st[j] < st[k]
  /\ \A q \in 1 .. p - 1 : s[q].kind \in {"gz", "dz"} => \E j \in 1 .. Len(st) : st[j] = q

(* The decoder in front of token a.                                        *)
Before(s, a) == Reading(s)[a - 1]

(* The slice from a to b begins with a member, which ends somewhere in it. *)
BeginsWithMember(s, a, b) ==
  /\ s[a].kind = "gz"
  /\ First(SubSeq(s, a, b)).data \in Seq(Nat)
  /\ \E e \in a .. b :
       Clean(Reading(s)[e]) /\ Reading(s)[e].data = Before(s, a).data \o First(SubSeq(s, a, b)).data

(* What decodes of a slice is read where it stands.                        *)
LEMMA FirstReads ==
  ASSUME NEW n \in Nat, NEW s, Left(s, n), NEW a \in 1 .. Len(s), NEW b \in a .. Len(s),
         First(SubSeq(s, a, b)).ok
  PROVE  BeginsWithMember(s, a, b)
<1> DEFINE t == SubSeq(s, a, b)
           ends == {k \in DOMAIN t : t[k].kind = "end"}
           short == CHOOSE k \in ends : \A e \in ends : k <= e
           u == SubSeq(t, 1, short)
<1>1. s \in Seq(Token) /\ Len(s) \in Nat /\ a \in Nat /\ b \in Nat /\ a <= b /\ b <= Len(s)
  BY DEF Left
<1>2. t \in Seq(Token) /\ Len(t) = b - a + 1 /\ DOMAIN t = 1 .. Len(t) /\ Len(t) \in Nat \ {0}
      /\ \A k \in 1 .. Len(t) : t[k] = s[(a - 1) + k]
  BY <1>1
<1>3. t[1].kind = "gz" /\ ends # {} /\ First(t) = Serial(u)
  <2> HIDE DEF t
  <2> QED BY DEF First, t
<1> HIDE DEF t
<1>4. short \in 1 .. Len(t)
  <2>1. ends \in SUBSET Nat
    BY <1>2
  <2>2. \E k \in ends : \A e \in ends : k <= e
    <3> HIDE DEF ends
    <3> QED BY <1>3, <2>1, Least
  <2>3. short \in ends
    BY <2>2, Zenon
  <2>4. ends \subseteq DOMAIN t
    OBVIOUS
  <2> HIDE DEF ends, short
  <2> QED BY <1>2, <2>3, <2>4
<1> HIDE DEF short
<1>5. u \in Seq(Token) /\ Len(u) = short /\ \A k \in 1 .. short : u[k] = s[(a - 1) + k]
  <2> HIDE DEF ends
  <2>1. short \in Nat /\ short <= Len(t) /\ \A k \in 1 .. short : k \in 1 .. Len(t)
    BY <1>2, <1>4
  <2>2. u \in Seq(Token) /\ Len(u) = short /\ \A k \in 1 .. short : u[k] = t[k]
    BY <1>2, <2>1
  <2> HIDE DEF u
  <2> QED BY <1>2, <2>1, <2>2
<1> HIDE DEF u
<1>6. s[a].kind = "gz"
  <2>1. 1 \in 1 .. Len(t) /\ (a - 1) + 1 = a
    BY <1>1, <1>2
  <2> QED BY <1>2, <1>3, <2>1
<1>7. Clean(Reading(s)[a - 1])
  <2>1. /\ s[a] \in Token /\ Reading(s)[a - 1] \in Decoder
        /\ Reading(s)[a] = Take(Reading(s)[a - 1], s[a])
    BY <1>1, ReadingIs
  <2>2. Reading(s)[a].ok
    BY <1>6 DEF Left
  <2> QED BY <1>6, <2>1, <2>2, TakeIs DEF Clean
<1> DEFINE z == a - 1
           last == Reading(u)[Len(u)]
<1>8. /\ Reading(s)[z + short].data = Reading(s)[z].data \o last.data
      /\ Reading(s)[z + short].ok <=> last.ok
      /\ last.ok => (Reading(s)[z + short].inside <=> last.inside)
  <2>1. z \in 0 .. Len(s) /\ z + Len(u) <= Len(s) /\ short \in 0 .. Len(u)
    BY <1>1, <1>2, <1>4, <1>5
  <2>2. \A m \in 1 .. Len(u) : s[z + m] = u[m]
    BY <1>5
  <2>3. Clean(Reading(s)[z])
    BY <1>7
  <2>4. u \in Seq(Token)
    BY <1>5
  <2> HIDE DEF z
  <2>5. \A m \in 0 .. Len(u) :
           /\ Reading(s)[z + m].data = Reading(s)[z].data \o Reading(u)[m].data
           /\ Reading(s)[z + m].ok <=> Reading(u)[m].ok
           /\ Reading(u)[m].ok => (Reading(s)[z + m].inside <=> Reading(u)[m].inside)
    BY <1>1, <2>1, <2>2, <2>3, <2>4, ReadsWindow
  <2> QED BY <1>5, <2>1, <2>5
<1>9. last \in Decoder /\ last.data \in Seq(Nat)
  <2>1. Len(u) \in 0 .. Len(u)
    BY <1>5
  <2>2. last \in Decoder
    BY <1>5, <2>1, ReadingIs
  <2> QED BY <2>2 DEF Decoder
<1>10. First(t).data = last.data /\ First(t).ok = (last.ok /\ ~ last.inside)
  BY <1>3 DEF Serial
<1>11. z + short \in a .. b /\ Clean(Reading(s)[z + short])
  <2>1. z + short \in a .. b
    BY <1>1, <1>2, <1>4
  <2>2. First(t).ok
    BY DEF t
  <2> HIDE DEF z, last
  <2> QED BY <1>8, <1>10, <2>1, <2>2 DEF Clean
<1> HIDE DEF last
<1>12. Reading(s)[z + short].data = Reading(s)[a - 1].data \o First(t).data
  BY <1>8, <1>10
<1> QED BY <1>6, <1>7, <1>9, <1>10, <1>11, <1>12 DEF BeginsWithMember, t, Before
-----------------------------------------------------------------------------
(* Uniform, of any stream.                                                 *)
OneHeader(s) == Cardinality({s[k].kind : k \in DOMAIN s} \cap {"gz", "hdr"}) <= 1

(* Where there is a header that is looked for there is no other kind.      *)
LEMMA GzOrHdr ==
  ASSUME NEW s \in Seq(Token), OneHeader(s), NEW a \in 1 .. Len(s), s[a].kind = "gz",
         NEW b \in 1 .. Len(s)
  PROVE  s[b].kind # "hdr"
<1> SUFFICES ASSUME s[b].kind = "hdr" PROVE FALSE
  OBVIOUS
<1> DEFINE K == {s[k].kind : k \in DOMAIN s} \cap {"gz", "hdr"}
           G == {"gz"}
           H == "hdr"
<1>1. K = G \cup {H}
  <2>1. DOMAIN s = 1 .. Len(s)
    OBVIOUS
  <2>2. "gz" \in K /\ "hdr" \in K
    BY <2>1
  <2> QED BY <2>2
<1>2. IsFiniteSet(G) /\ Cardinality(G) = 1 /\ H \notin G
  BY FS_Singleton
<1>3. Cardinality(K) <= 1
  BY DEF OneHeader
<1> HIDE DEF K, G, H
<1>4. Cardinality(K) = 2
  <2>1. Cardinality(G \cup {H}) = IF H \in G THEN Cardinality(G) ELSE Cardinality(G) + 1
    BY <1>2, FS_AddElement
  <2> QED BY <1>1, <1>2, <2>1
<1> QED BY <1>3, <1>4

(* Behind a member comes another member or nothing that decodes.           *)
LEMMA NextIsStart ==
  ASSUME NEW n \in Nat, NEW s, Left(s, n), NEW e \in 0 .. Len(s) - 1, Clean(Reading(s)[e]),
         s[e + 1].kind # "hdr"
  PROVE  \/ s[e + 1].kind = "gz"
         \/ e + 1 = Len(s) /\ s[e + 1].kind = "cut" /\ Reading(s)[e + 1].data = Reading(s)[e].data
<1>1. s \in Seq(Token) /\ Len(s) \in Nat
  BY DEF Left
<1>2. e + 1 \in 1 .. Len(s) /\ (e + 1) - 1 = e
  BY <1>1
<1>3. /\ s[e + 1] \in Token /\ Reading(s)[e] \in Decoder
      /\ Reading(s)[e + 1] = Take(Reading(s)[e], s[e + 1])
  BY <1>1, <1>2, ReadingIs
<1>4. CASE Reading(s)[e + 1].ok
  BY <1>3, <1>4, TakeIs DEF Clean
<1>5. CASE e + 1 = Len(s) /\ s[e + 1].kind = "cut"
  <2>1. Reading(s)[e + 1].data = Reading(s)[e].data
    BY <1>3, <1>5, TakeIs
  <2> QED BY <1>5, <2>1
<1> QED BY <1>2, <1>4, <1>5 DEF Left

(* A slice that decodes and holds no other start is a member, and nothing  *)
(* of it is passed over.                                                   *)
IsMember(s, a, b) ==
  /\ s[a].kind = "gz"
  /\ First(SubSeq(s, a, b)).data \in Seq(Nat)
  /\ Reading(s)[b].data = Before(s, a).data \o First(SubSeq(s, a, b)).data
  /\ Clean(Reading(s)[b]) \/ s[b].kind = "cut"

LEMMA SliceIsMember ==
  ASSUME NEW n \in Nat, NEW s, Left(s, n), NEW a \in 1 .. Len(s), NEW b \in a .. Len(s),
         First(SubSeq(s, a, b)).ok,
         \A q \in a + 1 .. b : s[q].kind \notin {"gz", "hdr"}
  PROVE  IsMember(s, a, b)
<1>1. Len(s) \in Nat /\ a \in Nat /\ b \in Nat
  BY DEF Left
<1>2. PICK e \in a .. b : /\ Clean(Reading(s)[e])
                          /\ Reading(s)[e].data = Before(s, a).data \o First(SubSeq(s, a, b)).data
  <2>1. BeginsWithMember(s, a, b)
    BY FirstReads
  <2> QED BY <2>1 DEF BeginsWithMember
<1>3. s[a].kind = "gz" /\ First(SubSeq(s, a, b)).data \in Seq(Nat)
  BY FirstReads DEF BeginsWithMember
<1>4. CASE e = b
  BY <1>2, <1>3, <1>4 DEF IsMember
<1>5. CASE e # b
  <2>1. e \in 0 .. Len(s) - 1 /\ e + 1 \in a + 1 .. b
    BY <1>1, <1>5
  <2>2. e + 1 = Len(s) /\ s[e + 1].kind = "cut" /\ Reading(s)[e + 1].data = Reading(s)[e].data
    BY <1>2, <2>1, NextIsStart
  <2>3. e + 1 = b
    BY <1>1, <2>1, <2>2
  <2> QED BY <1>2, <1>3, <2>2, <2>3 DEF IsMember
<1> QED BY <1>4, <1>5

(* Slice k of the starts st ends here, and decodes to this.                *)
Ends(s, st, k) == IF k = Len(st) THEN Len(s) ELSE st[k + 1] - 1
Decoded(s, st, k) == First(SubSeq(s, st[k], Ends(s, st, k)))

(* When every slice decodes, what was decoded is what there is to decode.  *)
LEMMA Assembled ==
  ASSUME NEW n \in Nat, NEW s, Left(s, n), OneHeader(s),
         NEW st, AllStarts(s, st, Len(s) + 1), Len(st) >= 2,
         \A k \in 1 .. Len(st) : Decoded(s, st, k).ok
  PROVE  /\ FlattenSeq([k \in 1 .. Len(st) |-> Decoded(s, st, k).data]) = Reading(s)[Len(s)].data
         /\ NoCut(s) => Clean(Reading(s)[Len(s)])
<1> DEFINE last == Len(st)
<1>1. /\ s \in Seq(Token) /\ Len(s) \in Nat /\ st \in Seq(Nat) /\ last \in Nat /\ last >= 2
      /\ \A k \in 1 .. last : st[k] \in 1 .. Len(s) /\ s[st[k]].kind \in {"gz", "dz"}
      /\ \A j, k \in 1 .. last : j < k => st[j] < st[k]
      /\ \A q \in 1 .. Len(s) : s[q].kind \in {"gz", "dz"} => \E j \in 1 .. last : st[j] = q
  <2>1. s \in Seq(Token) /\ Len(s) \in Nat /\ (Len(s) + 1) - 1 = Len(s)
    BY DEF Left
  <2>2. st \in Seq(Nat) /\ last \in Nat /\ last >= 2
    BY DEF AllStarts
  <2> HIDE DEF last
  <2>3. /\ \A k \in 1 .. last : st[k] \in 1 .. Len(s) /\ s[st[k]].kind \in {"gz", "dz"}
        /\ \A j, k \in 1 .. last : j < k => st[j] < st[k]
        /\ \A q \in 1 .. Len(s) : s[q].kind \in {"gz", "dz"} => \E j \in 1 .. last : st[j] = q
    BY <2>1, Zenon DEF AllStarts, last
  <2> QED BY <2>1, <2>2, <2>3
<1> HIDE DEF last
<1>2. ASSUME NEW k \in 1 .. last
      PROVE  /\ st[k] \in 1 .. Len(s) /\ Ends(s, st, k) \in st[k] .. Len(s)
             /\ \A q \in st[k] + 1 .. Ends(s, st, k) : s[q].kind \notin {"gz", "dz"}
  <2>1. CASE k = last
    <3>1. Ends(s, st, k) = Len(s)
      BY <2>1 DEF Ends, last
    <3>2. ASSUME NEW q \in st[k] + 1 .. Len(s), s[q].kind \in {"gz", "dz"} PROVE FALSE
      <4>1. st[k] \in Nat /\ q \in 1 .. Len(s) /\ st[k] < q
        BY <1>1
      <4>2. PICK j \in 1 .. last : st[j] = q
        BY <1>1, <3>2, <4>1
      <4>3. j = k \/ j < k
        BY <1>1, <2>1
      <4>4. CASE j = k
        BY <4>1, <4>2, <4>4
      <4>5. CASE j < k
        <5>1. st[j] < st[k] /\ st[j] \in Nat
          BY <1>1, <4>5, SMTT(40)
        <5> QED BY <4>1, <4>2, <5>1
      <4> QED BY <4>3, <4>4, <4>5
    <3>3. st[k] \in 1 .. Len(s) /\ Len(s) \in st[k] .. Len(s)
      BY <1>1
    <3> QED BY <3>1, <3>2, <3>3, Zenon
  <2>2. CASE k # last
    <3>1. Ends(s, st, k) = st[k + 1] - 1 /\ k + 1 \in 1 .. last /\ k < k + 1
      BY <1>1, <2>2 DEF Ends, last
    <3>2. st[k] \in 1 .. Len(s) /\ st[k + 1] \in 1 .. Len(s) /\ st[k] < st[k + 1]
      BY <1>1, <3>1
    <3>3. ASSUME NEW q \in st[k] + 1 .. st[k + 1] - 1, s[q].kind \in {"gz", "dz"} PROVE FALSE
      <4>1. q \in 1 .. Len(s) /\ st[k] < q /\ q < st[k + 1]
        <5>1. \A x, y \in 1 .. Len(s) : q \in x + 1 .. y - 1 => q \in 1 .. Len(s) /\ x < q /\ q < y
          BY <1>1
        <5> QED BY <3>2, <5>1
      <4>2. PICK j \in 1 .. last : st[j] = q
        BY <1>1, <3>3, <4>1
      <4>3. j = k \/ j < k \/ j = k + 1 \/ k + 1 < j
        BY <1>1
      <4>4. (j < k => st[j] < st[k]) /\ (k + 1 < j => st[k + 1] < st[j])
        BY <1>1, <3>1
      <4>5. q \in Nat /\ st[k] \in Nat /\ st[k + 1] \in Nat
        BY <3>2, <4>1
      <4> QED BY <4>1, <4>2, <4>3, <4>4, <4>5, SMTT(40)
    <3>4. st[k + 1] - 1 \in st[k] .. Len(s)
      BY <1>1, <3>2, SMTT(40)
    <3> QED BY <3>1, <3>2, <3>3, <3>4
  <2> QED BY <2>1, <2>2
<1>3. ASSUME NEW k \in 1 .. last PROVE s[st[k]].kind = "gz"
  <2>1. First(SubSeq(s, st[k], Ends(s, st, k))).ok
    BY DEF Decoded, last
  <2> QED BY <1>2, <2>1, FirstReads DEF BeginsWithMember
<1>4. \A q \in 1 .. Len(s) : s[q].kind # "hdr"
  <2>1. 1 \in 1 .. last /\ st[1] \in 1 .. Len(s) /\ s[st[1]].kind = "gz"
    BY <1>1, <1>3
  <2> QED BY <1>1, <2>1, GzOrHdr
<1>5. ASSUME NEW k \in 1 .. last
      PROVE  /\ Decoded(s, st, k).data \in Seq(Nat)
             /\ Reading(s)[Ends(s, st, k)].data = Reading(s)[st[k] - 1].data \o Decoded(s, st, k).data
             /\ Clean(Reading(s)[Ends(s, st, k)]) \/ s[Ends(s, st, k)].kind = "cut"
  <2> DEFINE a == st[k]
             b == Ends(s, st, k)
  <2>1. a \in 1 .. Len(s) /\ b \in a .. Len(s) /\ \A q \in a + 1 .. b : s[q].kind \notin {"gz", "dz"}
    BY <1>2
  <2>2. First(SubSeq(s, a, b)).ok
    BY DEF Decoded, last
  <2> HIDE DEF a, b
  <2>3. \A q \in a + 1 .. b : s[q].kind \notin {"gz", "hdr"}
    <3>1. \A q \in a + 1 .. b : q \in 1 .. Len(s)
      BY <1>1, <2>1
    <3> QED BY <1>4, <2>1, <3>1
  <2>4. IsMember(s, a, b)
    BY <2>1, <2>2, <2>3, SliceIsMember
  <2> QED BY <2>4 DEF IsMember, Decoded, Before, a, b
<1>6. st[1] = 1
  <2>1. st[1] \in 1 .. Len(s) /\ st[2] \in 1 .. Len(s) /\ st[1] < st[2] /\ 1 \in 1 .. last
    BY <1>1
  <2>2. 0 \in 0 .. Len(s) - 1 /\ 0 + 1 = 1 /\ 1 \in 1 .. Len(s) /\ 1 # Len(s)
    BY <1>1, <2>1
  <2>3. Clean(Reading(s)[0])
    BY <1>1, ReadingIs DEF Clean, Fresh
  <2>4. s[1].kind = "gz"
    BY <1>4, <2>2, <2>3, NextIsStart
  <2>5. PICK j \in 1 .. last : st[j] = 1
    BY <1>1, <2>2, <2>4
  <2>6. CASE j = 1
    BY <2>5, <2>6
  <2>7. CASE 1 < j
    <3>1. st[1] < st[j]
      BY <1>1, <2>1, <2>7
    <3> QED BY <2>1, <2>5, <3>1
  <2> QED BY <1>1, <2>6, <2>7
<1> DEFINE D(k) == Decoded(s, st, k).data
           d == [k \in 1 .. last |-> D(k)]
           E(k) == Reading(s)[Ends(s, st, k)].data
<1>7. d \in Seq(Seq(Nat)) /\ Len(d) = last /\ \A k \in 1 .. last : d[k] = D(k)
  <2>1. \A k \in 1 .. last : D(k) \in Seq(Nat)
    BY <1>5
  <2> HIDE DEF D
  <2> QED BY <1>1, <2>1
<1>8. E(1) = D(1)
  <2>1. 1 \in 1 .. last /\ st[1] - 1 = 0
    BY <1>1, <1>6
  <2>2. E(1) = Reading(s)[0].data \o D(1) /\ D(1) \in Seq(Nat)
    BY <1>5, <2>1
  <2>3. Reading(s)[0].data = <<>>
    BY <1>1, ReadingIs DEF Fresh
  <2> HIDE DEF D, E
  <2> QED BY <2>2, <2>3, ConcatEmptySeq
<1>9. \A k \in 2 .. last : E(k) = E(k - 1) \o D(k)
  <2> SUFFICES ASSUME NEW k \in 2 .. last PROVE E(k) = E(k - 1) \o D(k)
    OBVIOUS
  <2>1. k \in 1 .. last /\ k - 1 # last /\ (k - 1) + 1 = k
    BY <1>1
  <2>2. Ends(s, st, k - 1) = st[k] - 1
    BY <2>1 DEF Ends, last
  <2>3. E(k) = Reading(s)[st[k] - 1].data \o D(k)
    BY <1>5, <2>1
  <2> QED BY <2>2, <2>3
<1> HIDE DEF D, E, d
<1>10. PICK f \in [1 .. last -> Seq(Nat)] : /\ f[1] = d[1] /\ FlattenSeq(d) = f[last]
                                            /\ \A k \in 2 .. last : f[k] = f[k - 1] \o d[k]
  <2> DEFINE V == Nat
  <2>1. d \in Seq(Seq(V)) /\ Len(d) # 0
    BY <1>1, <1>7
  <2> HIDE DEF V
  <2>2. \E f \in [1 .. Len(d) -> Seq(V)] :
           /\ f[1] = d[1] /\ FlattenSeq(d) = f[Len(d)]
           /\ \A k \in 2 .. Len(d) : f[k] = f[k - 1] \o d[k]
    BY <2>1, FlattenIs
  <2> QED BY <1>7, <2>2 DEF V
<1> DEFINE S == {k \in Nat : k \in 1 .. last => f[k] = E(k)}
<1>11. Nat \subseteq S
  <2>1. 0 \in S
    OBVIOUS
  <2>2. ASSUME NEW m \in Nat, m \in S PROVE m + 1 \in S
    <3> SUFFICES ASSUME m + 1 \in 1 .. last PROVE f[m + 1] = E(m + 1)
      OBVIOUS
    <3>1. CASE m = 0
      <4>1. 1 \in 1 .. last /\ m + 1 = 1
        BY <1>1, <3>1
      <4> QED BY <1>7, <1>8, <1>10, <4>1
    <3>2. CASE m # 0
      <4>1. m \in 1 .. last /\ m + 1 \in 2 .. last /\ (m + 1) - 1 = m
        BY <1>1, <3>2
      <4>2. f[m] = E(m) /\ f[m + 1] = f[m] \o d[m + 1] /\ d[m + 1] = D(m + 1) /\ E(m + 1) = E(m) \o D(m + 1)
        BY <1>7, <1>9, <1>10, <2>2, <4>1
      <4> QED BY <4>2
    <3> QED BY <3>1, <3>2
  <2> HIDE DEF S
  <2> QED BY <2>1, <2>2, Induction
<1>12. last \in 1 .. last /\ Ends(s, st, last) = Len(s)
  BY <1>1 DEF Ends, last
<1>13. FlattenSeq(d) = Reading(s)[Len(s)].data
  BY <1>1, <1>10, <1>11, <1>12 DEF E
<1>14. NoCut(s) => Clean(Reading(s)[Len(s)])
  <2>1. Clean(Reading(s)[Len(s)]) \/ s[Len(s)].kind = "cut"
    BY <1>5, <1>12
  <2>2. Len(s) \in DOMAIN s
    <3>1. st[1] \in 1 .. Len(s)
      BY <1>1
    <3> QED BY <1>1, <3>1, SMTT(40)
  <2> QED BY <2>1, <2>2 DEF NoCut
<1> QED BY <1>13, <1>14 DEF d, D, last
-----------------------------------------------------------------------------
(* The file decodes at every moment of its being written.                  *)
WriteInv ==
  stage = "write" => /\ Reads(stream, Numbers(0, written))
                     /\ ~ whole /\ at = 1 /\ starts = <<>> /\ parts = <<>>

(* When it was closed it still does, and when it was short what is left does.*)
FileInv ==
  stage # "write" => /\ Left(stream, written)
                     /\ whole => Reads(stream, Numbers(0, written))

(* The starts are all there is before the scan that looks like a header.   *)
ScanInv ==
  /\ stage = "scan" => at \in 1 .. Len(stream) + 1 /\ AllStarts(stream, starts, at) /\ parts = <<>>
  /\ stage = "decode" => AllStarts(stream, starts, Len(stream) + 1) /\ Len(starts) >= 2

(* Each part is what its slice decodes to, in whatever order they come.    *)
PartsInv ==
  stage = "decode" =>
    \A k \in DOMAIN parts : /\ k \in DOMAIN starts
                            /\ Decoded(stream, starts, k).ok
                            /\ parts[k] = Decoded(stream, starts, k).data

(* The parallel reader has read what the serial one reads.                 *)
ResultInv ==
  stage = "done" /\ OneHeader(stream) =>
    /\ result.data = Serial(stream).data
    /\ NoCut(stream) => result = Serial(stream)

FInv ==
  /\ written \in Nat /\ stage \in {"write", "scan", "decode", "done"} /\ level \in Int
  /\ WriteInv /\ FileInv /\ ScanInv /\ PartsInv /\ ResultInv

LEMMA FInvInit == MembersInit => FInv
<1> SUFFICES ASSUME MembersInit PROVE FInv
  OBVIOUS
<1>1. /\ stage = "write" /\ stream = <<>> /\ written = 0 /\ ~ whole /\ at = 1 /\ starts = <<>> /\ parts = <<>>
      /\ level \in Int
  BY MembersAssumption DEF MembersInit
<1>2. Reads(<<>>, Numbers(0, 0))
  <2> DEFINE e == <<>>
  <2>1. e \in Seq(Token) /\ Len(e) = 0 /\ Numbers(0, 0) = <<>> /\ <<>> \in Seq(Nat)
    BY DEF Numbers
  <2> HIDE DEF e
  <2>2. Reading(e)[0] = Fresh
    BY <2>1, ReadingIs
  <2>3. Reads(e, <<>>)
    BY <2>1, <2>2 DEF Reads, Fresh
  <2> QED BY <2>1, <2>3 DEF e
<1>3. WriteInv
  BY <1>1, <1>2 DEF WriteInv
<1>4. FileInv /\ ScanInv /\ PartsInv /\ ResultInv
  BY <1>1 DEF FileInv, ScanInv, PartsInv, ResultInv
<1> QED BY <1>1, <1>3, <1>4 DEF FInv

(* A chunk is appended.                                                    *)
LEMMA ChunkStep ==
  ASSUME FInv, NEW toks, NEW n \in Nat, Reads(toks, Numbers(written, n)), AppendChunk(toks, n)
  PROVE  FInv'
<1>1. /\ stage = "write" /\ written \in Nat /\ WriteInv /\ level \in Int
      /\ stream' = stream \o toks /\ written' = written + n
      /\ UNCHANGED <<level, whole, stage, at, starts, parts, result>>
  BY DEF FInv, AppendChunk
<1>2. Reads(stream', Numbers(0, written'))
  <2>1. 0 \in Nat /\ 0 + written = written
    BY <1>1
  <2>2. Numbers(0, written) \o Numbers(written, n) = Numbers(0, written + n)
    BY <1>1, <2>1, NumbersJoin, ZenonT(60)
  <2>3. Reads(stream, Numbers(0, written))
    BY <1>1 DEF WriteInv
  <2> QED BY <1>1, <2>2, <2>3, ReadsAppend
<1>3. WriteInv'
  BY <1>1, <1>2 DEF WriteInv
<1>4. FileInv' /\ ScanInv' /\ PartsInv' /\ ResultInv'
  BY <1>1 DEF FileInv, ScanInv, PartsInv, ResultInv
<1>5. written' \in Nat /\ stage' = "write" /\ level' \in Int
  BY <1>1
<1> QED BY <1>3, <1>4, <1>5 DEF FInv

(* A start more or none: the scan goes one token on.                       *)
LEMMA OneMore ==
  ASSUME NEW s \in Seq(Token), NEW p \in 1 .. Len(s), NEW st, AllStarts(s, st, p)
  PROVE  AllStarts(s, IF s[p].kind \in {"gz", "dz"} THEN Append(st, p) ELSE st, p + 1)
<1>1. /\ st \in Seq(Nat) /\ Len(st) \in Nat /\ p \in Nat /\ (p + 1) - 1 = p
      /\ \A j \in 1 .. Len(st) : st[j] \in 1 .. p - 1 /\ s[st[j]].kind \in {"gz", "dz"}
      /\ \A j, k \in 1 .. Len(st) : j < k => st[j] < st[k]
      /\ \A q \in 1 .. p - 1 : s[q].kind \in {"gz", "dz"} => \E j \in 1 .. Len(st) : st[j] = q
  <2>1. st \in Seq(Nat) /\ Len(s) \in Nat
    BY DEF AllStarts
  <2>2. Len(st) \in Nat /\ p \in Nat /\ (p + 1) - 1 = p
    BY <2>1
  <2> QED BY <2>1, <2>2 DEF AllStarts
<1>2. CASE s[p].kind \in {"gz", "dz"}
  <2> DEFINE new == Append(st, p)
  <2>1. /\ new \in Seq(Nat) /\ Len(new) = Len(st) + 1 /\ new[Len(st) + 1] = p
        /\ \A j \in 1 .. Len(st) : new[j] = st[j]
    BY <1>1
  <2> HIDE DEF new
  <2>2. ASSUME NEW j \in 1 .. Len(new) PROVE new[j] \in 1 .. p /\ s[new[j]].kind \in {"gz", "dz"}
    <3>1. CASE j = Len(st) + 1
      BY <1>1, <1>2, <2>1, <3>1
    <3>2. CASE j # Len(st) + 1
      <4>1. j \in 1 .. Len(st)
        BY <1>1, <2>1, <3>2
      <4>2. st[j] \in 1 .. p - 1 /\ s[st[j]].kind \in {"gz", "dz"} /\ new[j] = st[j]
        BY <1>1, <2>1, <4>1
      <4> QED BY <1>1, <4>2
    <3> QED BY <3>1, <3>2
  <2>3. ASSUME NEW j \in 1 .. Len(new), NEW k \in 1 .. Len(new), j < k PROVE new[j] < new[k]
    <3>1. j \in 1 .. Len(st) /\ new[j] = st[j] /\ st[j] \in 1 .. p - 1
      <4>1. j \in 1 .. Len(st)
        BY <1>1, <2>1, <2>3
      <4> QED BY <1>1, <2>1, <4>1
    <3>2. CASE k = Len(st) + 1
      BY <1>1, <2>1, <3>1, <3>2
    <3>3. CASE k # Len(st) + 1
      <4>1. k \in 1 .. Len(st) /\ new[k] = st[k]
        BY <1>1, <2>1, <3>3
      <4> QED BY <1>1, <2>3, <3>1, <4>1
    <3> QED BY <3>2, <3>3
  <2>4. ASSUME NEW q \in 1 .. p, s[q].kind \in {"gz", "dz"} PROVE \E j \in 1 .. Len(new) : new[j] = q
    <3>1. CASE q = p
      BY <1>1, <2>1, <3>1
    <3>2. CASE q # p
      <4>1. q \in 1 .. p - 1
        BY <1>1, <3>2
      <4>2. PICK j \in 1 .. Len(st) : st[j] = q
        BY <1>1, <2>4, <4>1
      <4>3. j \in 1 .. Len(new) /\ new[j] = q
        BY <1>1, <2>1, <4>2
      <4> QED BY <4>3
    <3> QED BY <3>1, <3>2
  <2>5. AllStarts(s, new, p + 1)
    BY <1>1, <2>1, <2>2, <2>3, <2>4 DEF AllStarts
  <2> QED BY <1>2, <2>5 DEF new
<1>3. CASE s[p].kind \notin {"gz", "dz"}
  <2>1. ASSUME NEW q \in 1 .. p, s[q].kind \in {"gz", "dz"} PROVE \E j \in 1 .. Len(st) : st[j] = q
    <3>1. q # p
      BY <1>3, <2>1
    <3>2. q \in 1 .. p - 1
      BY <1>1, <3>1
    <3> QED BY <1>1, <2>1, <3>2
  <2>2. \A j \in 1 .. Len(st) : st[j] \in 1 .. p
    <3>1. \A j \in 1 .. Len(st) : st[j] \in 1 .. p - 1
      BY <1>1
    <3> QED BY <1>1, <3>1
  <2>3. AllStarts(s, st, p + 1)
    BY <1>1, <2>1, <2>2 DEF AllStarts
  <2> QED BY <1>3, <2>3
<1> QED BY <1>2, <1>3
-----------------------------------------------------------------------------
(* The writer's steps.                                                     *)
LEMMA WriteStep == FInv /\ (WriteCpu \/ WriteGpu) => FInv'
<1> SUFFICES ASSUME FInv, WriteCpu \/ WriteGpu PROVE FInv'
  OBVIOUS
<1>0. written \in Nat /\ CpuHeader \in {"gz", "hdr"}
  BY DEF FInv, CpuHeader
<1>1. CASE WriteCpu
  <2>1. PICK n \in 1 .. Pieces : \E shape \in [1 .. n -> {"d", "dz"}] :
                                    AppendChunk(MemberOf(CpuHeader, shape, written), n)
    BY <1>1 DEF WriteCpu
  <2>2. PICK shape \in [1 .. n -> {"d", "dz"}] : AppendChunk(MemberOf(CpuHeader, shape, written), n)
    BY <2>1
  <2>3. n \in Nat
    OBVIOUS
  <2>4. Reads(MemberOf(CpuHeader, shape, written), Numbers(written, n))
    BY <1>0, <2>3, MemberReads
  <2> QED BY <2>2, <2>3, <2>4, ChunkStep
<1>2. CASE WriteGpu
  <2>1. PICK n \in 1 .. Pieces : \E shape \in [1 .. n -> {"d", "dz"}] :
          AppendChunk(FlattenSeq([k \in 1 .. n |-> MemberOf("gz", <<shape[k]>>, written + k - 1)]), n)
    BY <1>2 DEF WriteGpu
  <2>2. PICK shape \in [1 .. n -> {"d", "dz"}] :
          AppendChunk(FlattenSeq([k \in 1 .. n |-> MemberOf("gz", <<shape[k]>>, written + k - 1)]), n)
    BY <2>1
  <2>3. n \in Nat \ {0}
    OBVIOUS
  <2> DEFINE toks == FlattenSeq([k \in 1 .. n |-> MemberOf("gz", <<shape[k]>>, written + k - 1)])
  <2>4. Reads(toks, Numbers(written, n))
    BY <1>0, <2>3, PiecesRead
  <2>5. AppendChunk(toks, n)
    BY <2>2
  <2> HIDE DEF toks
  <2> QED BY <2>3, <2>4, <2>5, ChunkStep
<1> QED BY <1>1, <1>2

(* The file is closed, or short.                                             *)
LEMMA CloseStep == FInv /\ (CloseFile \/ Crash) => FInv'
<1> SUFFICES ASSUME FInv, CloseFile \/ Crash PROVE FInv'
  OBVIOUS
<1>1. /\ stage = "write" /\ stage' = "scan" /\ written \in Nat /\ level \in Int
      /\ Reads(stream, Numbers(0, written)) /\ ~ whole /\ at = 1 /\ starts = <<>> /\ parts = <<>>
      /\ UNCHANGED <<level, written, at, starts, parts, result>>
  BY DEF FInv, WriteInv, CloseFile, Crash
<1>2. Left(stream', written) /\ (whole' => Reads(stream', Numbers(0, written)))
  <2>1. CASE CloseFile
    BY <1>1, <2>1, ReadIsLeft DEF CloseFile
  <2>2. CASE Crash
    <3>1. PICK n \in 0 .. Len(stream) - 1 :
            \/ stream' = SubSeq(stream, 1, n)
            \/ stream[n + 1].kind \in {"gz", "hdr"} /\ stream' = SubSeq(stream, 1, n) \o Mark("cut")
      BY <2>2 DEF Crash
    <3>2. Left(stream', written)
      BY <1>1, <3>1, CutIsLeft
    <3>3. ~ whole'
      BY <1>1, <2>2 DEF Crash
    <3> QED BY <3>2, <3>3
  <2> QED BY <2>1, <2>2
<1>3. AllStarts(stream', <<>>, 1)
  <2> DEFINE e == <<>>
  <2>1. e \in Seq(Nat) /\ Len(e) = 0
    OBVIOUS
  <2> HIDE DEF e
  <2>2. AllStarts(stream', e, 1)
    BY <2>1 DEF AllStarts
  <2> QED BY <2>2 DEF e
<1>4. at' \in 1 .. Len(stream') + 1 /\ AllStarts(stream', starts', at') /\ parts' = <<>>
  <2>1. stream' \in Seq(Token)
    BY <1>2 DEF Left
  <2>2. Len(stream') \in Nat
    BY <2>1
  <2> QED BY <1>1, <1>3, <2>2
<1>5. WriteInv' /\ FileInv' /\ ScanInv' /\ PartsInv' /\ ResultInv'
  BY <1>1, <1>2, <1>4 DEF WriteInv, FileInv, ScanInv, PartsInv, ResultInv
<1> QED BY <1>1, <1>5 DEF FInv

(* The reader's steps.                                                     *)
LEMMA ScanStep == FInv /\ Scan => FInv'
<1> SUFFICES ASSUME FInv, Scan PROVE FInv'
  OBVIOUS
<1>1. /\ stage = "scan" /\ at <= Len(stream) /\ written \in Nat /\ level \in Int
      /\ starts' = (IF stream[at].kind \in {"gz", "dz"} THEN Append(starts, at) ELSE starts)
      /\ at' = at + 1
      /\ UNCHANGED <<level, stream, written, whole, stage, parts, result>>
  BY DEF FInv, Scan, Found
<1>2. /\ at \in 1 .. Len(stream) + 1 /\ AllStarts(stream, starts, at) /\ parts = <<>>
      /\ Left(stream, written) /\ (whole => Reads(stream, Numbers(0, written)))
  BY <1>1 DEF FInv, ScanInv, FileInv
<1>3. stream \in Seq(Token) /\ Len(stream) \in Nat
  BY <1>2 DEF Left
<1>4. at \in 1 .. Len(stream) /\ at' \in 1 .. Len(stream) + 1
  BY <1>1, <1>2, <1>3
<1>5. AllStarts(stream, starts', at')
  BY <1>1, <1>2, <1>3, <1>4, OneMore
<1>6. WriteInv' /\ FileInv' /\ ScanInv' /\ PartsInv' /\ ResultInv'
  BY <1>1, <1>2, <1>4, <1>5 DEF WriteInv, FileInv, ScanInv, PartsInv, ResultInv
<1> QED BY <1>1, <1>6 DEF FInv

LEMMA FoundStep == FInv /\ StartsFound => FInv'
<1> SUFFICES ASSUME FInv, StartsFound PROVE FInv'
  OBVIOUS
<1>1. /\ stage = "scan" /\ stage' = "decode" /\ at > Len(stream) /\ ~ TooFew /\ written \in Nat /\ level \in Int
      /\ UNCHANGED <<level, stream, written, whole, at, starts, parts, result>>
  BY DEF FInv, StartsFound
<1>2. /\ at \in 1 .. Len(stream) + 1 /\ AllStarts(stream, starts, at) /\ parts = <<>>
      /\ Left(stream, written) /\ (whole => Reads(stream, Numbers(0, written)))
  BY <1>1 DEF FInv, ScanInv, FileInv
<1>3. Len(stream) \in Nat /\ Len(starts) \in Nat
  BY <1>2 DEF Left, AllStarts
<1>4. at = Len(stream) + 1 /\ Len(starts) >= 2
  BY <1>1, <1>2, <1>3 DEF TooFew
<1>5. DOMAIN parts = {}
  BY <1>2
<1>6. WriteInv' /\ FileInv' /\ ScanInv' /\ PartsInv' /\ ResultInv'
  BY <1>1, <1>2, <1>4, <1>5 DEF WriteInv, FileInv, ScanInv, PartsInv, ResultInv
<1> QED BY <1>1, <1>6 DEF FInv

LEMMA DecodeStep == ASSUME NEW k \in DOMAIN starts, FInv, Decode(k) PROVE FInv'
<1>1. /\ stage = "decode" /\ written \in Nat /\ level \in Int
      /\ First(Slice(k)).ok
      /\ parts' = [z \in DOMAIN parts \cup {k} |-> IF z = k THEN First(Slice(k)).data ELSE parts[z]]
      /\ UNCHANGED <<level, stream, written, whole, stage, at, starts, result>>
  BY DEF FInv, Decode
<1>2. /\ AllStarts(stream, starts, Len(stream) + 1) /\ Len(starts) >= 2
      /\ Left(stream, written) /\ (whole => Reads(stream, Numbers(0, written))) /\ PartsInv
  BY <1>1 DEF FInv, ScanInv, FileInv
<1>3. Decoded(stream, starts, k) = First(Slice(k))
  BY DEF Decoded, Ends, Slice
<1>4. ASSUME NEW z \in DOMAIN parts'
      PROVE  z \in DOMAIN starts /\ Decoded(stream, starts, z).ok /\ parts'[z] = Decoded(stream, starts, z).data
  <2>1. CASE z = k
    BY <1>1, <1>3, <2>1
  <2>2. CASE z # k
    BY <1>1, <1>2, <2>2 DEF PartsInv
  <2> QED BY <2>1, <2>2
<1>5. PartsInv'
  BY <1>1, <1>4 DEF PartsInv
<1>6. WriteInv' /\ FileInv' /\ ScanInv' /\ ResultInv'
  BY <1>1, <1>2 DEF WriteInv, FileInv, ScanInv, ResultInv
<1> QED BY <1>1, <1>5, <1>6 DEF FInv

(* The serial decoder's result, as the reader's.                           *)
LEMMA SerialResult ==
  ASSUME FInv, stage # "write", stage' = "done", result' = Serial(stream),
         UNCHANGED <<level, stream, written, whole, at, starts, parts>>
  PROVE  FInv'
<1>1. Left(stream, written) /\ (whole => Reads(stream, Numbers(0, written))) /\ written \in Nat /\ level \in Int
  BY DEF FInv, FileInv
<1>2. WriteInv' /\ FileInv' /\ ScanInv' /\ PartsInv' /\ ResultInv'
  BY <1>1 DEF WriteInv, FileInv, ScanInv, PartsInv, ResultInv
<1> QED BY <1>1, <1>2 DEF FInv

LEMMA SerialStep == FInv /\ (ReadSerially \/ \E k \in DOMAIN starts : DecodeFails(k)) => FInv'
<1> SUFFICES ASSUME FInv, ReadSerially \/ \E k \in DOMAIN starts : DecodeFails(k) PROVE FInv'
  OBVIOUS
<1>1. Serial(<<>>) = Nothing
  <2> DEFINE e == <<>>
  <2>1. e \in Seq(Token) /\ Len(e) = 0
    OBVIOUS
  <2> HIDE DEF e
  <2>2. Reading(e)[0] = Fresh
    BY <2>1, ReadingIs
  <2>3. Serial(e) = Nothing
    <3>1. (Reading(e)[Len(e)].ok /\ ~ Reading(e)[Len(e)].inside) = TRUE /\ Reading(e)[Len(e)].data = <<>>
      BY <2>1, <2>2 DEF Fresh
    <3> QED BY <3>1 DEF Serial, Nothing
  <2> QED BY <2>3 DEF e
<1>2. stage # "write" /\ stage' = "done" /\ UNCHANGED <<level, stream, written, whole, at, starts, parts>>
  BY DEF ReadSerially, DecodeFails
<1>3. result' = Serial(stream)
  BY <1>1 DEF ReadSerially, DecodeFails, AfterFailure
<1> QED BY <1>2, <1>3, SerialResult

LEMMA AssembleStep == FInv /\ Assemble => FInv'
<1> SUFFICES ASSUME FInv, Assemble PROVE FInv'
  OBVIOUS
<1>1. /\ stage = "decode" /\ stage' = "done" /\ DOMAIN parts = DOMAIN starts /\ written \in Nat /\ level \in Int
      /\ result' = [data |-> FlattenSeq([k \in DOMAIN starts |-> parts[k]]), ok |-> TRUE]
      /\ UNCHANGED <<level, stream, written, whole, at, starts, parts>>
  BY DEF FInv, Assemble
<1>2. /\ AllStarts(stream, starts, Len(stream) + 1) /\ Len(starts) >= 2
      /\ Left(stream, written) /\ (whole => Reads(stream, Numbers(0, written))) /\ PartsInv
  BY <1>1 DEF FInv, ScanInv, FileInv
<1>3. DOMAIN starts = 1 .. Len(starts)
  BY <1>2 DEF AllStarts
<1>4. /\ \A k \in 1 .. Len(starts) : Decoded(stream, starts, k).ok
      /\ \A k \in 1 .. Len(starts) : parts[k] = Decoded(stream, starts, k).data
  BY <1>1, <1>2, <1>3 DEF PartsInv
<1>5. [k \in DOMAIN starts |-> parts[k]] = [k \in 1 .. Len(starts) |-> Decoded(stream, starts, k).data]
  BY <1>3, <1>4
<1>6. ASSUME OneHeader(stream)
      PROVE  result'.data = Serial(stream).data /\ (NoCut(stream) => result' = Serial(stream))
  <2>1. /\ FlattenSeq([k \in 1 .. Len(starts) |-> Decoded(stream, starts, k).data]) = Reading(stream)[Len(stream)].data
        /\ NoCut(stream) => Clean(Reading(stream)[Len(stream)])
    BY <1>1, <1>2, <1>4, <1>6, Assembled
  <2>2. result' = [data |-> Reading(stream)[Len(stream)].data, ok |-> TRUE]
    BY <1>1, <1>5, <2>1
  <2>3. Serial(stream).data = Reading(stream)[Len(stream)].data
    BY DEF Serial
  <2>4. ASSUME NoCut(stream) PROVE result' = Serial(stream)
    <3>1. (Reading(stream)[Len(stream)].ok /\ ~ Reading(stream)[Len(stream)].inside) = TRUE
      BY <2>1, <2>4 DEF Clean
    <3> QED BY <2>2, <3>1 DEF Serial
  <2> QED BY <2>2, <2>3, <2>4
<1>7. WriteInv' /\ FileInv' /\ ScanInv' /\ PartsInv' /\ ResultInv'
  BY <1>1, <1>2, <1>6 DEF WriteInv, FileInv, ScanInv, PartsInv, ResultInv
<1> QED BY <1>1, <1>7 DEF FInv

LEMMA FInvNext == FInv /\ [MembersNext]_membervars => FInv'
<1> SUFFICES ASSUME FInv, [MembersNext]_membervars PROVE FInv'
  OBVIOUS
<1>1. CASE WriteCpu \/ WriteGpu
  BY <1>1, WriteStep
<1>2. CASE CloseFile \/ Crash
  BY <1>2, CloseStep
<1>3. CASE Scan
  BY <1>3, ScanStep
<1>4. CASE ReadSerially \/ \E k \in DOMAIN starts : DecodeFails(k)
  BY <1>4, SerialStep
<1>5. CASE StartsFound
  BY <1>5, FoundStep
<1>6. CASE \E k \in DOMAIN starts : Decode(k)
  BY <1>6, DecodeStep
<1>7. CASE Assemble
  BY <1>7, AssembleStep
<1>8. CASE UNCHANGED membervars
  BY <1>8 DEF membervars, FInv, WriteInv, FileInv, ScanInv, PartsInv, ResultInv
<1> QED BY <1>1, <1>2, <1>3, <1>4, <1>5, <1>6, <1>7, <1>8 DEF MembersNext

(* The invariant of a .tar.gz from its first chunk to its reader's result. *)
THEOREM FormatInvariant == MembersSpec => []FInv
<1> QED BY FInvInit, FInvNext, PTL DEF MembersSpec

(* The stream when it has been read.                                       *)
LEMMA DoneIs ==
  ASSUME FInv, stage = "done", Uniform
  PROVE  /\ result.data = Serial(stream).data /\ (NoCut(stream) => result = Serial(stream))
         /\ Left(stream, written) /\ (whole => Reads(stream, Numbers(0, written)))
         /\ Input = Numbers(0, written) /\ written \in Nat
<1>1. OneHeader(stream)
  BY DEF Uniform, OneHeader
<1>2. Input = Numbers(0, written) /\ written \in Nat
  <2>1. written \in Nat
    BY DEF FInv
  <2>2. \A k \in 1 .. written : 0 + k = k
    BY <2>1
  <2> QED BY <2>1, <2>2 DEF Input, Numbers
<1> QED BY <1>1, <1>2 DEF FInv, ResultInv, FileInv

(* RoundTrip, for every set of levels, any number of pieces and any amount *)
(* of data: an archive whose members have one kind of header is read back  *)
(* in order and whole, whatever its bytes look like (find_member_starts,   *)
(* parallel_decompress, parallel_decompress.rs:35-113).                    *)
THEOREM ArchivesReadBack == MembersSpec => []RoundTrip
<1>1. ASSUME FInv PROVE RoundTrip
  <2> SUFFICES ASSUME stage = "done", whole, Uniform PROVE result = [data |-> Input, ok |-> TRUE]
    BY DEF RoundTrip
  <2>1. Reads(stream, Numbers(0, written)) /\ (NoCut(stream) => result = Serial(stream))
        /\ Input = Numbers(0, written) /\ written \in Nat
    BY <1>1, DoneIs
  <2>2. NoCut(stream)
    BY <2>1, ReadIsLeft
  <2>3. Serial(stream) = [data |-> Numbers(0, written), ok |-> TRUE]
    <3> DEFINE last == Reading(stream)[Len(stream)]
    <3>1. last = [data |-> Numbers(0, written), inside |-> FALSE, ok |-> TRUE]
      BY <2>1 DEF Reads
    <3> HIDE DEF last
    <3>2. last.data = Numbers(0, written) /\ (last.ok /\ ~ last.inside) = TRUE
      BY <3>1
    <3> QED BY <3>2 DEF Serial, last
  <2> QED BY <2>1, <2>2, <2>3
<1> QED BY <1>1, FormatInvariant, PTL

(* CutReadsAsPrefix: wherever the file was short, the parallel decoder gives *)
(* the prefix of the input that the serial one gives, and its verdict too  *)
(* unless the short is in a header (parallel_decompress.rs:97-112,           *)
(* decompress.rs:40-43).                                                   *)
THEOREM CutArchivesReadAsPrefix == MembersSpec => []CutReadsAsPrefix
<1>1. ASSUME FInv PROVE CutReadsAsPrefix
  <2> SUFFICES ASSUME stage = "done", ~ whole, Uniform
               PROVE  /\ IsPrefix(result.data, Input)
                      /\ result.data = Serial(stream).data
                      /\ (\A k \in DOMAIN stream : stream[k].kind # "cut") => result.ok = Serial(stream).ok
    BY DEF CutReadsAsPrefix
  <2>1. /\ result.data = Serial(stream).data /\ (NoCut(stream) => result = Serial(stream))
        /\ Left(stream, written) /\ Input = Numbers(0, written)
    BY <1>1, DoneIs
  <2>2. Serial(stream).data = Reading(stream)[Len(stream)].data
    BY DEF Serial
  <2>3. IsPrefix(result.data, Input)
    BY <2>1, <2>2 DEF Left
  <2>4. (\A k \in DOMAIN stream : stream[k].kind # "cut") => result.ok = Serial(stream).ok
    BY <2>1 DEF NoCut
  <2> QED BY <2>1, <2>3, <2>4
<1> QED BY <1>1, FormatInvariant, PTL
=============================================================================
