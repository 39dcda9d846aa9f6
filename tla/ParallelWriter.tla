--------------------------- MODULE ParallelWriter ---------------------------
(***************************************************************************)
(* ParallelChunkedWriter of gpzip-codec-cpu (parallel.rs): the thread that *)
(* owns the writer cuts the bytes it is given into chunks, spawns a rayon  *)
(* job per chunk, collects the results from a bounded channel, puts them   *)
(* back in input order and writes them to the output.                      *)
(*                                                                         *)
(* The owner's code between two operations on the channel or the output is *)
(* invisible to the jobs, so the owner takes one step per such operation.  *)
(* A job's computation is invisible until it sends: spawning, running and  *)
(* blocking on a full channel are one state (member of `spawned'), and any *)
(* spawned job may be the next to send, which covers every pool size.      *)
(*                                                                         *)
(* A chunk's bytes are the interval of the input they come from, and its   *)
(* member is identified with them: what chunk_fn does to the bytes is the  *)
(* subject of other modules, that it may fail is modelled here.            *)
(***************************************************************************)
EXTENDS Integers, Sequences, FiniteSets

CONSTANTS ChunkSize,    \* chunk_size, in bytes
          MaxInFlight,  \* max_in_flight, also the capacity of the channel
          MaxBytes,     \* bound: bytes the owner passes to write in all
          MaxWrite      \* bound: bytes of one call of write

ASSUME WriterAssumption == /\ ChunkSize \in Nat \ {0}
                           /\ MaxInFlight \in Nat \ {0}
                           /\ MaxBytes \in Nat
                           /\ MaxWrite \in Nat

VARIABLES
  pc,           \* where the owner is: see Location
  resume,       \* the loop to go back to when write_pending returns
  todo,         \* bytes of the current call of write not yet copied
  current,      \* the chunk being filled
  next_index,
  write_index,
  pending,      \* the BTreeMap: a set of members, by index
  in_flight,
  finalized,
  sticky_err,   \* whether an error is stashed
  dropping,     \* finalize was called by drop, which swallows its result
  chan,         \* the channel of results
  spawned,      \* jobs that have not sent their result
  out,          \* members whole in the output
  torn,         \* a write of a member to the output has failed
  offered,      \* history: bytes passed to write so far
  dispatched,   \* history: the chunks handed to rayon
  failed,       \* history: indices whose chunk_fn failed
  reported,     \* history: some call of write has returned an error
  outcome       \* result of the first finalize

cut    == <<todo, current, next_index, offered, dispatched>>
reorder == <<write_index, pending, out, torn>>
queue  == <<in_flight, chan, spawned, failed>>
errs   == <<sticky_err, reported>>
life   == <<finalized, dropping, outcome>>
vars   == <<pc, resume, cut, reorder, queue, errs, life>>

Stream == INSTANCE ChunkStream
            WITH accepted  <- current.lo + current.len,
                 submitted <- dispatched,
                 emitted   <- out,
                 warned    <- reported,
                 verdict   <- outcome

Chunk    == [lo : Nat, len : 1 .. ChunkSize]
Member   == [idx : Nat, bytes : Chunk]
Result   == [idx : Nat, bytes : Chunk, ok : BOOLEAN]

(* idle: between calls.  copy: the loop of write.  dispatch: entry of      *)
(* dispatch_current.  drain: the loop of drain_ready.  await: the loop of  *)
(* dispatch_current.  emit: write_pending.  join: the loop of finalize.    *)
(* flush: its end.  closed: finalize has returned.  gone: dropped.         *)
Location == {"idle", "copy", "dispatch", "drain", "await", "emit",
             "join", "flush", "closed", "gone"}

Init == /\ pc = "idle" /\ resume = "await" /\ todo = 0
        /\ current = [lo |-> 0, len |-> 0]
        /\ next_index = 0 /\ write_index = 0
        /\ pending = {} /\ in_flight = 0
        /\ finalized = FALSE /\ sticky_err = FALSE /\ dropping = FALSE
        /\ chan = <<>> /\ spawned = {}
        /\ out = <<>> /\ torn = FALSE
        /\ offered = 0 /\ dispatched = <<>> /\ failed = {}
        /\ reported = FALSE /\ outcome = "none"
-----------------------------------------------------------------------------
(* Operators named after a fault are not part of the model: each is the    *)
(* operator that follows it with a plausible mistake in it.                *)
RecordFault == UNCHANGED sticky_err

(* record: only the first error is kept, and one is as good as another. *)
Record == sticky_err' = TRUE

(* An error leaves dispatch_current: write returns it to its caller,       *)
(* finalize ignores it and goes on to drain the jobs.                      *)
DispatchFails ==
  IF finalized THEN pc' = "join" /\ UNCHANGED reported
               ELSE pc' = "idle" /\ reported' = TRUE

DispatchReturns ==
  /\ pc' = IF finalized THEN "join" ELSE "copy"
  /\ UNCHANGED reported
-----------------------------------------------------------------------------
(* Room left in the chunk being filled. *)
Space == ChunkSize - current.len

(* A call of write that finds an error stashed takes it and returns it. *)
WriteTakesError(n) ==
  /\ pc = "idle" /\ offered + n <= MaxBytes
  /\ sticky_err
  /\ sticky_err' = FALSE
  /\ reported' = TRUE
  /\ offered' = offered + n
  /\ UNCHANGED <<pc, resume, todo, current, next_index, dispatched, reorder, queue, life>>

BeginWrite(n) ==
  /\ pc = "idle" /\ offered + n <= MaxBytes
  /\ ~ sticky_err
  /\ pc' = "copy"
  /\ todo' = n
  /\ offered' = offered + n
  /\ UNCHANGED <<resume, current, next_index, dispatched, reorder, queue, errs, life>>

(* One round of the loop of write: fill the chunk, dispatch it when full. *)
Copy ==
  /\ pc = "copy" /\ todo > 0
  /\ LET take == IF todo < Space THEN todo ELSE Space
     IN  /\ current' = [current EXCEPT !.len = @ + take]
         /\ todo' = todo - take
         /\ pc' = IF current.len + take >= ChunkSize THEN "dispatch" ELSE "copy"
  /\ UNCHANGED <<resume, next_index, offered, dispatched, reorder, queue, errs, life>>

WriteReturns ==
  /\ pc = "copy" /\ todo = 0
  /\ pc' = "idle"
  /\ UNCHANGED <<resume, cut, reorder, queue, errs, life>>

(* flush between two calls of write leaves the partial chunk alone. *)
Flush == pc = "idle" /\ UNCHANGED vars
-----------------------------------------------------------------------------
(* dispatch_current returns early on a stashed error or an empty chunk. *)
DispatchRefused ==
  /\ pc = "dispatch"
  /\ \/ sticky_err /\ DispatchFails
     \/ ~ sticky_err /\ current.len = 0 /\ DispatchReturns
  /\ UNCHANGED <<resume, cut, reorder, queue, sticky_err, life>>

Dispatch ==
  /\ pc = "dispatch"
  /\ ~ sticky_err /\ current.len > 0
  /\ spawned' = spawned \cup {[idx |-> next_index, bytes |-> current]}
  /\ dispatched' = Append(dispatched, current)
  /\ next_index' = next_index + 1
  /\ current' = [lo |-> current.lo + current.len, len |-> 0]
  /\ in_flight' = in_flight + 1
  /\ pc' = "drain"
  /\ UNCHANGED <<resume, todo, offered, reorder, chan, failed, errs, life>>

(* A job sends its result; crossbeam's send blocks while the channel is full. *)
Job(j) ==
  /\ Len(chan) < MaxInFlight
  /\ \E ok \in BOOLEAN :
       /\ chan' = Append(chan, [idx |-> j.idx, bytes |-> j.bytes, ok |-> ok])
       /\ failed' = IF ok THEN failed ELSE failed \cup {j.idx}
  /\ spawned' = spawned \ {j}
  /\ UNCHANGED <<pc, resume, cut, reorder, in_flight, errs, life>>

ReleaseFault == UNCHANGED in_flight

(* The slot of a received result is free again. *)
Release == in_flight' = in_flight - 1

FullFault == in_flight > MaxInFlight

Full == in_flight >= MaxInFlight

DrainedFault == in_flight = 0 \/ sticky_err

(* No job is left to wait for. *)
Drained == in_flight = 0

(* What the three receiving loops share: a result leaves the channel, and  *)
(* a good one is a member waiting for its turn.                            *)
Receive(ok) ==
  /\ chan # <<>> /\ Head(chan).ok = ok
  /\ chan' = Tail(chan)
  /\ Release
  /\ pending' = IF ok THEN pending \cup {[idx |-> Head(chan).idx, bytes |-> Head(chan).bytes]}
                      ELSE pending
  /\ UNCHANGED <<write_index, out, torn, spawned, failed>>

(* A failed chunk ends dispatch_current from either of its loops. *)
ReceiveFailure ==
  /\ \/ pc = "drain"
     \/ pc = "await" /\ Full
  /\ Receive(FALSE)
  /\ Record /\ DispatchFails
  /\ UNCHANGED <<resume, cut, life>>

(* drain_ready: try_recv until the channel is empty, then write_pending. *)
Drain ==
  /\ pc = "drain"
  /\ Receive(TRUE)
  /\ UNCHANGED <<pc, resume, cut, errs, life>>

DrainEnds ==
  /\ pc = "drain" /\ chan = <<>>
  /\ pc' = "emit" /\ resume' = "await"
  /\ UNCHANGED <<cut, reorder, queue, errs, life>>

(* Back-pressure: block on the channel while max_in_flight jobs are out. *)
Await ==
  /\ pc = "await" /\ Full
  /\ Receive(TRUE)
  /\ pc' = "emit" /\ resume' = "await"
  /\ UNCHANGED <<cut, errs, life>>

AwaitEnds ==
  /\ pc = "await" /\ ~ Full
  /\ DispatchReturns
  /\ UNCHANGED <<resume, cut, reorder, queue, sticky_err, life>>
-----------------------------------------------------------------------------
TurnFault == {m \in pending : \A other \in pending : m.idx <= other.idx}

(* The member write_index asks for. *)
Turn == {m \in pending : m.idx = write_index}

(* write_pending: remove the member whose turn it is and write it. *)
Emit ==
  /\ pc = "emit"
  /\ \E m \in Turn :
       /\ pending' = pending \ {m}
       /\ out' = Append(out, m.bytes)
  /\ write_index' = write_index + 1
  /\ UNCHANGED <<pc, resume, torn, cut, queue, errs, life>>

(* The output refuses the member: it is gone from the map, and the index   *)
(* stays on it.  finalize goes on, dispatch_current fails.                 *)
Tear ==
  /\ pc = "emit"
  /\ \E m \in Turn : pending' = pending \ {m}
  /\ torn' = TRUE
  /\ Record
  /\ IF resume = "join" THEN pc' = "join" /\ UNCHANGED reported ELSE DispatchFails
  /\ UNCHANGED <<resume, write_index, out, cut, queue, life>>

EmitEnds ==
  /\ pc = "emit"
  /\ Turn = {}
  /\ pc' = resume
  /\ UNCHANGED <<resume, cut, reorder, queue, errs, life>>
-----------------------------------------------------------------------------
FinalizeFault(drop) ==
  /\ pc = "idle"
  /\ finalized' = TRUE /\ dropping' = drop
  /\ pc' = "join"
  /\ UNCHANGED <<resume, outcome, cut, reorder, queue, errs>>

(* The owner calls finalize, or drops the writer, which calls it. *)
Finalize(drop) ==
  /\ pc = "idle"
  /\ finalized' = TRUE /\ dropping' = drop
  /\ pc' = "dispatch"
  /\ UNCHANGED <<resume, outcome, cut, reorder, queue, errs>>

Join ==
  /\ pc = "join" /\ ~ Drained
  /\ Receive(TRUE)
  /\ pc' = "emit" /\ resume' = "join"
  /\ UNCHANGED <<cut, errs, life>>

JoinFailure ==
  /\ pc = "join" /\ ~ Drained
  /\ Receive(FALSE)
  /\ Record
  /\ UNCHANGED <<pc, resume, cut, reported, life>>

JoinEnds ==
  /\ pc = "join" /\ Drained
  /\ pc' = "flush"
  /\ UNCHANGED <<resume, cut, reorder, queue, errs, life>>

(* The output is flushed, which may fail, and finalize returns. *)
FinalizeReturns ==
  /\ pc = "flush"
  /\ Record \/ UNCHANGED sticky_err
  /\ outcome' = IF dropping THEN "dropped" ELSE IF sticky_err' THEN "err" ELSE "ok"
  /\ pc' = "closed"
  /\ UNCHANGED <<resume, reported, finalized, dropping, cut, reorder, queue>>

(* Dropped after an explicit finalize: finalize returns at once. *)
DropFinalized ==
  /\ pc = "closed" /\ ~ dropping
  /\ pc' = "gone"
  /\ UNCHANGED <<resume, cut, reorder, queue, errs, life>>
-----------------------------------------------------------------------------
(* The owner inside a call; it starts a call of write when it likes. *)
OwnerStep ==
  \/ Copy \/ WriteReturns
  \/ DispatchRefused \/ Dispatch
  \/ Drain \/ DrainEnds \/ Await \/ AwaitEnds \/ ReceiveFailure
  \/ Emit \/ Tear \/ EmitEnds
  \/ Join \/ JoinFailure \/ JoinEnds \/ FinalizeReturns \/ DropFinalized

(* Nothing but drop follows finalize, as in every caller: left out are a   *)
(* write behind it, which the code does not refuse, and a second finalize, *)
(* which returns what is stashed and does nothing else.                    *)
OwnerCall ==
  \/ \E n \in 1 .. MaxWrite : BeginWrite(n) \/ WriteTakesError(n)
  \/ Flush
  \/ \E drop \in BOOLEAN : Finalize(drop)

Next == OwnerStep \/ OwnerCall \/ \E j \in spawned : Job(j)

Spec == Init /\ [][Next]_vars

(* A chunk_fn returns, rayon runs every job, the output's writes return:   *)
(* the owner inside a call and every job go on.  No call need ever start.  *)
Fairness ==
  /\ WF_vars(OwnerStep)
  /\ WF_vars(\E j \in spawned : Job(j))

FairSpec == Spec /\ Fairness
-----------------------------------------------------------------------------
TypeOK ==
  /\ pc \in Location /\ resume \in {"await", "join"}
  /\ todo \in Nat /\ current \in [lo : Nat, len : 0 .. ChunkSize]
  /\ next_index \in Nat /\ write_index \in Nat /\ in_flight \in Nat
  /\ pending \subseteq Member /\ spawned \subseteq Member
  /\ chan \in Seq(Result)
  /\ out \in Seq(Chunk) /\ dispatched \in Seq(Chunk)
  /\ offered \in Nat /\ failed \subseteq Nat
  /\ finalized \in BOOLEAN /\ dropping \in BOOLEAN /\ torn \in BOOLEAN
  /\ sticky_err \in BOOLEAN /\ reported \in BOOLEAN
  /\ outcome \in {"none", "ok", "err", "dropped"}

(* The output is the members of the first chunks of the input, each once   *)
(* and in input order, at every moment (so also if the process dies):      *)
(* write_pending only writes the member whose turn it is, whatever order   *)
(* the jobs finish in and whatever fails (parallel.rs:144-150).            *)
OutputIsPrefix ==
  /\ Len(out) <= Len(dispatched)
  /\ \A k \in 1 .. Len(out) : out[k] = dispatched[k]

(* in_flight counts the jobs whose result the owner has not received.      *)
(* Both blocking loops trust it: were it too high they would block for     *)
(* ever, too low they would leave jobs behind (parallel.rs:109-117, 166).  *)
InFlightExact == in_flight = Cardinality(spawned) + Len(chan)

(* Back-pressure: no more than max_in_flight jobs are out, one more only   *)
(* after the output failed under drain_ready, which gives no slot back     *)
(* (parallel.rs:105-127).                                                  *)
BackPressure == in_flight <= MaxInFlight + (IF torn THEN 1 ELSE 0)

(* finalize leaves no job and no result behind it, on success or after any *)
(* combination of failures (parallel.rs:160-186).                          *)
NothingLeftBehind ==
  pc \in {"flush", "closed", "gone"} => spawned = {} /\ chan = <<>> /\ in_flight = 0

(* A writer that closes with Ok, and whose caller was never told of an     *)
(* error, has written every byte it took (parallel.rs:152-191).            *)
NoSilentLoss ==
  outcome = "ok" /\ ~ reported =>
    /\ out = dispatched
    /\ current.len = 0
    /\ failed = {} /\ ~ torn

(* The writer implements the abstract stream. *)
ImplementsStream == Stream!Spec

(* Every call returns: neither the back-pressure loop nor finalize blocks  *)
(* for ever, whatever fails (parallel.rs:109-127, 166-186).                *)
CallsReturn == pc \notin {"idle", "closed", "gone"} ~> pc \in {"idle", "closed"}
-----------------------------------------------------------------------------
(* "Returns Err if any chunk has ever failed (sticky)": parallel.rs:152-154. *)
FinalizeReportsAnyFailure == outcome = "ok" => failed = {}
=============================================================================
