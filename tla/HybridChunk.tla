---------------------------- MODULE HybridChunk ----------------------------
(***************************************************************************)
(* The chunk function of the hybrid backend (gpzip-cli, hybrid.rs), run by *)
(* the workers of rayon's pool for the chunks of one ParallelChunkedWriter,*)
(* and the lazy initialisation of the GPU it triggers (gpu.rs).            *)
(*                                                                         *)
(* A worker takes one step per operation on the shared atomics and cells;  *)
(* permits.load and compare_exchange_weak are steps of their own.  The     *)
(* two nested OnceLocks, of the writer and of LazyGpuBackend, are entered  *)
(* and left together by a process with one writer, and are one cell here.  *)
(* The writer (see ParallelWriter) is what it is to the workers: it keeps  *)
(* at most max_in_flight chunks out.                                       *)
(*                                                                         *)
(* Operators named after a fault are not part of the model: each is the    *)
(* operator that follows it with a plausible mistake in it.                *)
(***************************************************************************)
EXTENDS Integers, FiniteSets

CONSTANTS Workers,      \* the threads of rayon's global pool
          CpuWorkers,   \* cpu_workers: --threads, or the number of cores
          GpuWorkers,   \* gpu_workers
          Warmup,       \* GPU_WARMUP_CHUNKS
          Pieces,       \* GPU sub-chunks of one chunk
          MaxChunks     \* bound: chunks of the stream

ASSUME HybridAssumption == /\ IsFiniteSet(Workers)
                           /\ CpuWorkers \in Nat \ {0} /\ GpuWorkers \in Nat
                           /\ Warmup \in Nat /\ Pieces \in Nat \ {0}
                           /\ MaxChunks \in Nat

VARIABLES
  sent,         \* chunks handed to rayon so far: chunks 1 .. sent
  queued,       \* those no worker has started
  finished,     \* those whose result was sent
  received,     \* how many results the writer has received
  at,           \* where each worker is
  job,          \* the chunk each worker is at, 0 for none
  cur,          \* the local copy of permits in try_acquire
  left,         \* pieces of the chunk still to be encoded on the GPU
  chunk_counter,
  cell,         \* the OnceLocks: empty, busy, or set to some or none
  inits,        \* history: initialisations of the GPU begun
  permits

writerVars == <<sent, received>>
gpuVars    == <<chunk_counter, cell, inits, permits>>
hybridVars == <<writerVars, queued, finished, at, job, cur, left, gpuVars>>

Total == CpuWorkers + GpuWorkers

InFlight == sent - received

Holders == {w \in Workers : at[w] \in {"gpu", "release"}}

Permits == INSTANCE GpuPermits WITH holders <- Holders

HybridInit ==
  /\ sent = 0 /\ received = 0 /\ queued = {} /\ finished = {}
  /\ at = [w \in Workers |-> "idle"]
  /\ job = [w \in Workers |-> 0]
  /\ cur = [w \in Workers |-> 0]
  /\ left = [w \in Workers |-> 0]
  /\ chunk_counter = 0 /\ cell = "empty" /\ inits = 0
  /\ permits = GpuWorkers
-----------------------------------------------------------------------------
Dispatch ==
  /\ sent < MaxChunks /\ InFlight < Total
  /\ sent' = sent + 1
  /\ queued' = queued \cup {sent + 1}
  /\ UNCHANGED <<received, finished, at, job, cur, left, gpuVars>>

Receive ==
  /\ received < Cardinality(finished)
  /\ received' = received + 1
  /\ UNCHANGED <<sent, queued, finished, at, job, cur, left, gpuVars>>
-----------------------------------------------------------------------------
Goto(w, place) == at' = [at EXCEPT ![w] = place]

Start(w) ==
  /\ at[w] = "idle"
  /\ \E c \in queued : queued' = queued \ {c} /\ job' = [job EXCEPT ![w] = c]
  /\ Goto(w, "count")
  /\ UNCHANGED <<writerVars, finished, cur, left, gpuVars>>

WarmFault(n) == n + 1 < Warmup

Warm(n) == n < Warmup

(* The ordinal of the chunk is that of the fetch_add, not of the input. *)
Count(w) ==
  /\ at[w] = "count"
  /\ chunk_counter' = chunk_counter + 1
  /\ Goto(w, IF GpuWorkers = 0 \/ Warm(chunk_counter) THEN "cpu" ELSE "cell")
  /\ UNCHANGED <<writerVars, queued, finished, job, cur, left, cell, inits, permits>>

UninitialisedFault == cell \in {"empty", "busy"}

Uninitialised == cell = "empty"

(* get_or_init: the first worker runs the initialisation, those that come  *)
(* while it runs block, those that come later find its result.             *)
BeginInit(w) ==
  /\ at[w] = "cell" /\ Uninitialised
  /\ cell' = "busy" /\ inits' = inits + 1
  /\ Goto(w, "init")
  /\ UNCHANGED <<writerVars, queued, finished, job, cur, left, chunk_counter, permits>>

(* There may be no adapter. *)
EndInit(w) ==
  /\ at[w] = "init"
  /\ cell' \in {"some", "none"}
  /\ Goto(w, "cell")
  /\ UNCHANGED <<writerVars, queued, finished, job, cur, left, chunk_counter, inits, permits>>

GetCell(w) ==
  /\ at[w] = "cell" /\ cell \in {"some", "none"}
  /\ Goto(w, IF cell = "some" THEN "load" ELSE "cpu")
  /\ UNCHANGED <<writerVars, queued, finished, job, cur, left, gpuVars>>
-----------------------------------------------------------------------------
(* try_acquire *)
Load(w) ==
  /\ at[w] = "load"
  /\ cur' = [cur EXCEPT ![w] = permits]
  /\ Goto(w, "cas")
  /\ UNCHANGED <<writerVars, queued, finished, job, left, gpuVars>>

NoPermit(w) ==
  /\ at[w] = "cas" /\ cur[w] = 0
  /\ Goto(w, "cpu")
  /\ UNCHANGED <<writerVars, queued, finished, job, cur, left, gpuVars>>

UnchangedSinceFault(w) == TRUE

(* What the compare-and-exchange compares. *)
UnchangedSince(w) == permits = cur[w]

ExchangeSucceeds(w) ==
  /\ at[w] = "cas" /\ cur[w] # 0 /\ UnchangedSince(w)
  /\ permits' = cur[w] - 1
  /\ left' = [left EXCEPT ![w] = Pieces]
  /\ Goto(w, "gpu")
  /\ UNCHANGED <<writerVars, queued, finished, job, cur, chunk_counter, cell, inits>>

ActualFault(w) == cur[w]

(* The value a failed exchange returns. *)
Actual(w) == permits

(* The weak exchange may fail although the value is the expected one. *)
ExchangeFails(w) ==
  /\ at[w] = "cas" /\ cur[w] # 0
  /\ cur' = [cur EXCEPT ![w] = Actual(w)]
  /\ UNCHANGED <<writerVars, queued, finished, at, job, left, gpuVars>>
-----------------------------------------------------------------------------
(* gzip_chunk_fn: a submission to BatchedLz77 per piece; an error of the   *)
(* encoder ends it early.  The worker blocks meanwhile.                    *)
Encode(w) ==
  /\ at[w] = "gpu"
  /\ \E rest \in {left[w] - 1, 0} :
       /\ left' = [left EXCEPT ![w] = rest]
       /\ Goto(w, IF rest = 0 THEN "release" ELSE "gpu")
  /\ UNCHANGED <<writerVars, queued, finished, job, cur, gpuVars>>

ReleaseFault(w) ==
  /\ at[w] = "release"
  /\ permits' = GpuWorkers
  /\ Goto(w, "send")
  /\ UNCHANGED <<writerVars, queued, finished, job, cur, left, chunk_counter, cell, inits>>

Release(w) ==
  /\ at[w] = "release"
  /\ permits' = permits + 1
  /\ Goto(w, "send")
  /\ UNCHANGED <<writerVars, queued, finished, job, cur, left, chunk_counter, cell, inits>>

RunOnCpu(w) ==
  /\ at[w] = "cpu"
  /\ Goto(w, "send")
  /\ UNCHANGED <<writerVars, queued, finished, job, cur, left, gpuVars>>

(* The channel has room for every chunk the writer has out. *)
Send(w) ==
  /\ at[w] = "send"
  /\ finished' = finished \cup {job[w]}
  /\ job' = [job EXCEPT ![w] = 0]
  /\ Goto(w, "idle")
  /\ UNCHANGED <<writerVars, queued, cur, left, gpuVars>>
-----------------------------------------------------------------------------
Step(w) ==
  \/ Start(w) \/ Count(w)
  \/ BeginInit(w) \/ EndInit(w) \/ GetCell(w)
  \/ Load(w) \/ NoPermit(w) \/ ExchangeSucceeds(w) \/ ExchangeFails(w)
  \/ Encode(w) \/ Release(w) \/ RunOnCpu(w) \/ Send(w)

HybridNext == Dispatch \/ Receive \/ \E w \in Workers : Step(w)

HybridSpec == HybridInit /\ [][HybridNext]_hybridVars

(* The threads are scheduled, initialisation and submissions return, and   *)
(* an exchange of the expected value does not fail for ever (such a        *)
(* failure is a stuttering step).  The writer need not go on.              *)
HybridFairness == \A w \in Workers : WF_hybridVars(Step(w))

HybridFairSpec == HybridSpec /\ HybridFairness
-----------------------------------------------------------------------------
Place == {"idle", "count", "cell", "init", "load", "cas", "gpu", "release", "cpu", "send"}

TypeOK ==
  /\ sent \in 0 .. MaxChunks /\ received \in Nat
  /\ queued \subseteq 1 .. sent /\ finished \subseteq 1 .. sent
  /\ at \in [Workers -> Place]
  /\ job \in [Workers -> Nat]
  /\ cur \in [Workers -> 0 .. GpuWorkers]
  /\ left \in [Workers -> 0 .. Pieces]
  /\ chunk_counter \in Nat /\ inits \in Nat
  /\ cell \in {"empty", "busy", "some", "none"}
  /\ permits \in 0 .. GpuWorkers

(* Permits are neither lost nor invented by racing exchanges, failed       *)
(* encodings and releases: those in the counter and those held by workers  *)
(* are always GpuWorkers (hybrid.rs:122-129, 152-163).                     *)
PermitsConserved == permits + Cardinality(Holders) = GpuWorkers

(* The loop of try_acquire with the fetch_add that ends a chunk implements *)
(* the counting semaphore: no worker encodes without a permit of its own.  *)
ImplementsPermits == Permits!Spec

(* The GPU is initialised at most once, and nobody reads the cell before   *)
(* the initialisation is over (hybrid.rs:107-112, gpu.rs:34-36).           *)
InitOnce ==
  /\ inits <= 1
  /\ (\E w \in Workers : at[w] \in {"load", "cas", "gpu", "release"}) => cell = "some"

(* A stream of at most Warmup chunks never pays for the initialisation,    *)
(* whatever the order its chunks are started in (hybrid.rs:113-118).       *)
WarmupAvoidsInit == inits > 0 => chunk_counter > Warmup /\ sent > Warmup

(* Every chunk is eventually compressed: no worker is stuck behind the     *)
(* initialisation or in the loop of try_acquire (hybrid.rs:152-163).       *)
ChunksFinish == \A c \in 1 .. MaxChunks : c \in queued ~> c \in finished
=============================================================================
