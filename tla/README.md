# A TLA+ model of gpzip

gpzip is an archiver that compresses an archive in independent chunks, on the
CPU cores and, where there is one, on the GPU.  This directory holds TLA+
modules for the parts of it that are hard to get right — the threads, channels,
atomics and failures between an input byte and its place in the archive — with
the TLC runs that check them and the TLAPS proofs about them.  `PROJECT.json`
lists the runs, and maps every definition to the lines it models; paths below
are relative to `src/crates/`.

## 1. The system

| component | source | state it keeps | operations |
|---|---|---|---|
| chunk-parallel writer | `gpzip-codec-cpu/src/parallel.rs` | chunk being filled, indices, reorder map, `in_flight`, stashed error, channel of results | `write`, `flush`, `finalize`, drop, the rayon job of a chunk |
| chunk compressors | `gpzip-codec-cpu/src/compress.rs` | none | `chunk_fn` of gzip and zstd |
| gzip reading | `gpzip-codec-cpu/src/parallel_decompress.rs`, `decompress.rs` | starts found, decoded slices | scan, decode slices, fall back |
| hybrid backend | `gpzip-cli/src/hybrid.rs` | chunk counter, GPU permits, cell with the GPU chunk function | the composed chunk function |
| GPU backend | `gpzip-codec-gpu/src/gpu.rs` | lazily initialised device | `try_get`, `gzip_chunk_fn` |
| GPU batching | `gpzip-codec-gpu/src/gpu/batch.rs` | job channel, channel of batches, two threads | `submit`, submitter, completer, drop |
| GPU LZ77 pipeline | `.../gpu/lz77_hash.rs`, two shaders | pool of buffer sets, GPU queue | `acquire`, `release`, `submit_batch_async`, `collect_async` |
| walk | `.../gpu/lz77.rs`, `walk.rs`, shaders | none between calls | greedy walk, block-parallel walk |
| Huffman and deflate | `.../gpu/huffman.rs`, `deflate.rs` | none | code lengths, canonical codes, block writers, `gzip_wrap` |
| GPU Huffman emission | `.../gpu/huffman_emit*.rs`, shader | buffer pool | scan of bit lengths, emission by atomic OR |
| packing | `gpzip-core/src/archive/pack.rs` | the archive file and the stream over it | `pack`, `pack_zip`, `pack_tar`, the two walks |
| unpacking | `gpzip-core/src/archive/unpack.rs`, `rar.rs`, `sevenz.rs` | the files extracted | `unpack` and its four loops; listing |
| registry | `gpzip-core/src/registry.rs` | ordered backends | `pick_compressor`, `pick_decompressor` |
| progress | `gpzip-core/src/progress.rs`, `gpzip-cli/src/progress.rs` | channel, consumer thread | `send`, `finish` |
| command line | `gpzip-cli/src/app.rs` | none | `build_registry`, `run`, argument handling |

How they interact.  `pack` opens the file, asks the registry for a backend and
wraps the file in a `ParallelChunkedWriter`, to which the tar builder writes.
The writer hands each full chunk to rayon, whose worker runs the backend's
chunk function: flate2 on the CPU, or, in the hybrid backend, the GPU path if
the worker gets a permit.  On the GPU path a chunk is cut into pieces, and for
each piece the worker blocks in `BatchedLz77::submit` while a submitter thread
collects pieces of all workers into one GPU submission and a completer thread
reads the tokens back.  Results go through a bounded channel to the writer,
which puts them in order.  From the tokens of a piece the worker makes a
DEFLATE block, on the host or, where that is switched on, by a second dispatch
that scans bit lengths and places the codes.  `unpack` reads the file back; for
gzip it looks for the members and decodes them in parallel, and the entries of
a zip archive are extracted by rayon.  Both report to the progress display, a
thread that ends when every sender of its channel is gone.

What is hard: results out of order in three receiving loops; errors that are
stashed, taken, returned or swallowed; blocking on both sides of a bounded
channel; racing initialisation and a weak compare-and-exchange; buffers reused
while other submissions run; threads that die while others wait for them;
shutdown by dropping senders; archives cut short, and archives whose members
come from two encoders.  `PROJECT.json` lists each as a hazard at its line.

What makes each component correct:

* writer — the output is the members of a prefix of the input at every moment;
  success means completeness; every job is accounted for and waited for; calls
  return;
* batching — everyone gets their own tokens; a buffer set has one user at a
  time; no job is lost when a thread dies; `submit` and drop return;
* tokens — every repetition is found, and is one; the three walks lose nothing,
  and the one in blocks is the serial one;
* blocks — each decodes, by RFC 1951, to the tokens it was made of, whichever of
  the four encoders made it; the encoders agree bit for bit;
* GPU emission — the bits are those of one writer going through the tokens in
  order, whatever the order of the invocations and the last use of the buffers;
* hybrid — permits are conserved; one initialisation; small inputs never pay
  for it; every chunk is compressed;
* gzip reading — what was written is read back, and what remains of a cut
  archive reads as the serial decoder reads it;
* packing — what is on disk is the beginning of the archive asked for; `Ok`
  means all of it; every call returns, also over links in a circle;
* unpacking — an entry reported finished is whole; a call that succeeds has
  made the tree and nothing else; the display ends, and shows what the call
  returned.

## 2. Modules

| module | models | kind |
|---|---|---|
| `ChunkStream` | what the writer promises | abstract specification |
| `ParallelWriter` | `parallel.rs` | detailed; implements `ChunkStream` |
| `DataInduction` | | lemmas the proofs share: least elements, induction over the naturals, recursive functions, flattened sequences, counting, sums, powers of two and bits |
| `ParallelWriterProof` | | theorems about `ParallelWriter` and `GzipMembers` |
| `BatchedLz77` | `batch.rs` over the asynchronous half of `lz77_hash.rs` | detailed |
| `BatchedLz77Proof` | | theorems |
| `GpuPermits` | a counting semaphore | abstract specification |
| `HybridChunk` | `hybrid.rs` and the lazy cell of `gpu.rs` | detailed; implements `GpuPermits` |
| `Lz77Hash` | build and lookup pass of a submission, `lz77_hash*.wgsl` | detailed |
| `Lz77Walk` | `greedy_walk`, `walk.wgsl`, `walk_block.wgsl`, `reconstruct` | extends `Lz77Hash` with the walks over its tokens |
| `Lz77Proof` | | theorems about both |
| `HuffmanCode` | `huffman.rs` | operators |
| `DeflateTables` | the tables of lengths and distances in their three forms, the fixed codes | operators |
| `LengthRle` | the run-length coding of code lengths, `deflate.rs` and `huffman_emit_v2.rs` | detailed, a step per entry |
| `Inflate` | a decoder of one block, from RFC 1951 | reference definition, external |
| `DeflateBlock` | the four encoders of a block | composes the five above |
| `MCDeflateBlock` | | token streams for TLC |
| `WorkgroupScan` | the prefix sum one workgroup computes, `huffman_emit_v2.wgsl` | operators, one per segment between barriers |
| `HuffmanEmit` | `emit_dynamic_block_v3` and its three passes | detailed; a `WorkgroupScan` per workgroup |
| `HuffmanEmitProof` | | theorems |
| `MCHuffmanEmit` | | blocks for TLC |
| `GzipMembers` | `parallel_decompress.rs`, `decompress.rs`, headers written by both encoders | detailed |
| `FormatProof` | | theorems about `LengthRle` and `DeflateBlock` |
| `PackSession` | `pack.rs`, `registry.rs`, the capabilities of the backends | detailed, over the actions of `ChunkStream` |
| `MCPackSession` | | a small tree and requests for TLC |
| `PackProof` | | theorems about `PackSession` and `HybridChunk` |
| `Unpack` | `unpack.rs`, `rar.rs`, `sevenz.rs`, both `progress.rs`, `run` | detailed |
| `UnpackProof` | | theorems |
| `MCUnpack` | | archives for TLC |

Operators whose names end in `Fault` are not part of a model.  Each stands right
before the operator it is a mistaken form of — a dropped guard, a missing
update, a wrong turn — and is what `PROJECT.json` substitutes to see that a
property notices.

### ParallelWriter

State: the fields of the struct under their own names (`current`,
`next_index`, `write_index`, `pending`, `in_flight`, `finalized`,
`sticky_err`), the owner's place in the code (`pc`, `resume`, `todo`), the
result channel `chan`, the jobs that have not sent (`spawned`), the output
(`out`, `torn`), and history variables that only properties read (`offered`,
`dispatched`, `failed`, `reported`, `outcome`).

* The owner is one thread; it takes a step per operation on the channel or the
  output, because nothing it does in between is visible to a job.
* A job computes and sends in one step: before it sends, the other threads see
  nothing of it.  Any spawned job may be next, which covers every pool size and
  schedule, and a job may fail.  A panic in a chunk function aborts the process
  (rayon's default for spawned jobs), after which only `OutputIsPrefix` says
  anything, and it holds in every state.
* `recv` cannot fail while the writer holds its own sender, so those two
  branches are unreachable and left out.
* A chunk is the interval of the input it holds and its member is identified
  with it.  Errors are not told apart: one in `sticky_err` is as good as another.
* `write` may be called with any length up to `MaxWrite`, until `MaxBytes` have
  been offered; `finalize` and drop may come at any call boundary.  Nothing but
  drop follows `finalize`, as in every caller: a `write` behind it, which the code
  does not refuse (`parallel.rs:195`), and a second `finalize`, which returns at
  once (155-158), are left out.

### BatchedLz77

`call`, `answer` and `lost` are a client's side of `submit` (its job, the
content of its response channel, a response channel without sender); `job_q`
and `pending` the channels; `sub` and `comp` the threads; `gpu`, `done` and
`staging` the GPU's queue, in order, and what each staging buffer holds;
`pool` the vector of buffer sets, with `swap_remove`.  A job's tokens are
identified with the job, so `OwnTokens` asks whose tokens a buffer held when
it was read.  `acquire` and `release` are a step per set, as the pool is locked
for one at a time; a new set is created outside the lock, which nobody can tell
from inside, as creating it depends on nothing in the pool.  The only failure
the code names is the failed mapping (`expect("buffer map failed")`): it kills
the completer, and with it the receiver; the submitter then fails to send and
leaves, with the queued jobs.  The client's `expect` panics in a rayon job and
aborts the process (`aborted`).  Only the batch path is modelled; other users
of the GPU queue (the optional Huffman emission) hold other buffers.

### HybridChunk

One step per operation on `chunk_counter`, `cell` and `permits`, so that the
load and the weak exchange of `try_acquire` interleave with those of other
workers; `ExchangeFails` covers the genuine and the spurious failure.  The two
nested `OnceLock`s — the writer's cell and that of `LazyGpuBackend` — are
entered and left by the same worker in a process with one writer, and are one
cell.  The initialisation may find no adapter.  `Encode` is a step per piece,
and an error ends it early: the permit is held over all of them.  The writer is
reduced to what `ParallelWriter` says of it: at most `Total` chunks are out.

### HuffmanCode, DeflateTables, LengthRle and DeflateBlock

The code has four ways to make a block of tokens: the masked writer of
`deflate.rs` ("slow"), the one with direct tables that `encode_one` calls
("fast"), the host half of the GPU path ("gpu"), and the atoms of
`huffman_emit.rs` ("atoms").  `DeflateBlock` is one machine of stages —
frequencies, the three codes, the header, the bits — that the four go through,
with what differs between them as operators of the encoder: the table a length
is looked up in, the masking, the order of the writes, the fallback.
`try_build_code_lengths` is a step per round of its halving loop, and `LengthRle`
a step per entry.

A tree node carries the depth of each leaf under it, so the recursive walk over
the finished tree is a set comprehension.  A bit string is the set of the
positions that hold a one, with a length, and a write an OR at its end; that is
what tells a masked writer from an unmasked one.  `Inflate` is not code of the
repository but the reference its output is measured by: it takes the bits
apart by the formulas of RFC 1951 3.2.5, not by tables, and refuses a code that is
over- or under-full as zlib does.  `MCDeflateBlock` assumes, and TLC evaluates,
that the three forms of the tables are one function on all 256 lengths and all
32768 distances.

### WorkgroupScan and HuffmanEmit

The scan is Hillis and Steele's with a stored partial sum per lane: a lane
stores, waits at the barrier, reads its neighbour at distance 2^s, waits, adds.
Each of these segments is a step of its lane, so that every order the hardware
may choose between two barriers happens; the barrier opens when all lanes of the
workgroup have reached it, and different workgroups are not ordered at all.
`HuffmanEmit` runs the three passes over the buffers of one pooled set.  The
set is used for one block after another: tokens, offsets, totals and bases
keep what the block before has left, and the output is cleared as far as
`LiveWords` says.  A token is the one to four writes its codes and extra bits
are, each an OR of its low and one of its high part; the invocation behind the
last token writes the end of the block.  The bits a block needs come from the
host's own running sum, so the offsets of the GPU are compared with something
computed another way.  Concurrent callers each take a set of their own from
`acquire` (as in `BatchedLz77`), so one set is enough.

### PackSession

A request is a format, a choice of `--backend`, whether there is an adapter, the
inputs, and the nodes of the tree that cannot be read.  The machine creates the
file, picks a backend as the registry does, walks the tree in the way of the
format — the tar walk stores links and sorts, the zip walk follows links, up to
the kernel's limit, and takes directories as they come — and writes units: a
header, the pieces of a file, an end mark.  The writer below is `ChunkStream`,
which `ParallelWriter` implements: a full chunk is handed on, members come out
in order, and at one moment it may break.  For the formats that go through a
`BufWriter` the same actions stand for its buffer; it differs in `flush`, which
writes what is held and says whether it could, where the chunk-parallel writer
does nothing.  A failed call drops its builder, and the dropped builder ends the
archive (`tar::Builder`, `ZipWriter`, external).  Assumed: the inputs do not
change while they are packed, the archive is not among them, and they have names,
no two the same.  A node is a directory, a file, a link or a socket.  A socket
stands for what `stat` finds and `open` refuses: the tar walk passes it over, and
the zip walk takes it for a file, writes its header (`pack.rs:98`) and fails (99), so
that the archive keeps a header without content.  The progress events are sent as in `Unpack` and are modelled
there.

The archive asked for is a definition of its own (`Archive`, `Packed`): an item,
and behind it what is below it.  It is a recursive function of the number of
levels, and an item has fewer than `Levels` below it, because directories end
(`Height`) and links are followed `LinkLimit` times.  `Height` and `TreeHeight`
describe the tree; no action reads them.

### Unpack

Entries go through steps — name, directories, file, pieces, report — and the
formats differ in who takes them (any of rayon's workers for zip, the caller for
the others), in what a name with `..` does (dropped, refused, passed over) and
in the events sent.  An entry that fails stops the handing out of others, and those at
work go on.  Two entries of one path write to one file, each at its own offset;
a unit written past the end leaves a `Hole`.  `create_dir_all` is one step when it
succeeds, and the destination is new.  An entry may fail at any of its steps, for a
reason the model does not have (permissions, a full disk) as well as for one it has (a
file where a directory is needed); when it fails at its directories it leaves any
of them that could be made from the top, and for rar the skip of an entry may fail too.  A call may fail before it has sent anything: the format
is unknown, or the destination cannot be made.  The display is a thread that receives from
an unbounded channel; the sender handed to `unpack`, the one of `run` and the
one of the `Progress` itself (`"call"`, `"session"`, `"progress"`) keep it alive.

### GzipMembers

The file is a sequence of tokens: headers equal to `GPZIP_HEADER` (`gz`) or
not (`hdr`), data, data that happens to spell the header (`dz`), ends of
members, and a header cut in two.  The writer appends CPU members, whose header
depends on the level, and GPU members, whose header does not; it closes the
file or a crash cuts it anywhere.  The reader is the code: scan, fall back with
fewer than two starts, decode slices in any order, fall back when one fails,
fall back again to a streaming decoder in `wrap_reader`.  flate2 is external:
`MultiGzDecoder` reads every member and reports what is no member,
`GzDecoder` reads the first member of a slice and nothing after it, and data
mistaken for a header does not survive the CRC; `GzEncoder` writes XFL 2 at
level 9, 4 at levels 0 and 1, and 0 between.

### Lz77Hash and Lz77Walk

`BatchedLz77` says whose tokens a client gets, these two say what they are.  The
state is that of one buffer set: the chunk, the tables `seg_oldest` and
`seg_newest`, and the tokens.  Chunks go through it one after another; `Upload`
resets the tables as far as the chunk's own layout reaches, and leaves the rest
as the last chunk left it.  An invocation of the build pass is a step, in any
order; its two atomics are one step because they are on two tables nobody reads
before the pass ends.  The lookup pass is one step: its invocations read tables
that do not change and write apart.  `hash3` is the code's multiplicative hash
with its width as a parameter, so that it wraps and collides.

`Lz77Walk` adds the walks: the lazy one of the host, which the compressors use,
the serial one of the GPU, and the one in three passes over blocks.  The blocks
of the first and the last pass go in any order, those of the last a token at a
time; `chain_blocks` is one thread.  `Reconstruct`, the decoder of
`lz77.rs:288-304`, and `StrictGreedy` (`walk.rs:512-525`) are what the results
are compared with.  The brute-force pipeline of `lz77.rs` is only used by tests
and not modelled.

## 3. Runs

| run | instance | shows |
|---|---|---|
| `ParallelWriter` | chunk 2 bytes, 3 in flight, 11 bytes, writes of 1–3, fair | order, accounting, back-pressure, nothing left behind, no silent loss, refinement of `ChunkStream`, every call returns |
| `ParallelWriterSticky` | 2 / 2 / 8 / 2 | a disagreement, section 6 |
| `BatchedLz77` | 3 clients, 1 call each, 2 sizes, batches of 2, depth 1, pool of 2, failing map, fair | own tokens, exclusive and quiet sets, no job lost, `submit` and drop return |
| `HybridChunk` | 3 workers, 2 CPU, 2 permits, warm-up 1, 2 pieces, 4 chunks, fair | permits, one initialisation, warm-up, refinement of `GpuPermits`, every chunk is compressed |
| `Lz77Walk` | 2 chunks of 1–8 one-bit bytes, segments and blocks of 2, window 4, matches up to 5, 2 buckets | exact tables, no repeat missed, lossless walks, block walk equal to the serial one, slots written once |
| `MCDeflateBlock` | 81 streams in five families, four encoders, codes up to 4 bits, header codes up to 7 | blocks decode, codes complete, encoders agree, announced bits exact, run-length coding reads back, halving ends |
| `MCHuffmanEmit` | workgroups of 4, words of 4 bits, bytes of 2, 2 blocks of 1, 4 or 5 tokens | offsets of the GPU are the host's, output is sequential |
| `GzipMembersUniform` | levels 1, 5, 9, pieces 2, 4 data tokens | what was written is read back, cut archives read as prefixes |
| `GzipMembersMixed` | the same | a disagreement |
| `MCPackSession` | five formats, three choices with and without an adapter, a tree with a circular link, a socket and unreadable nodes, 2 links, chunks of 2, fair | the disk holds a prefix, `Ok` is complete, every call returns |
| `PackGpuFallback` | the same | a disagreement |
| `MCUnpack` | 2 workers, every format with five listings, fair | reported entries are whole, the tree is right, the bar tells the result, the session ends |

Why the bounds are enough.  The writer's loops have three regimes — room, a
full queue, the trailing chunk — and 11 bytes make five full chunks and a short
one, so that the queue of 3 fills, overtakes and drains with members missing at
the front.  Writes of 1 to 3 bytes end before, at and after a chunk boundary.
Three clients with batches of one or two and a pool of two reuse sets, leave
them in the pool for a larger request, drop them at a full pool, and have
batches in the queue when a map fails.  A second call of a client would add no
case: each call makes its own response channel, so a client that comes back is a
new one.  Three workers and two permits are the smallest instance in which a
permit count changes twice between a load and an exchange.  Eight one-bit bytes
are all inputs with up to four segments and four blocks: matches overlap
themselves, end at the input's end, jump over a whole block, and two triples
share each bucket.  The first of two chunks leaves its tables in a layout of
more or fewer segments than the second uses.  Four data tokens allow four
members of one piece or two chunks of two pieces around each other, which is
what it takes for a member to be dropped in front, behind or between.

The encoders have the real alphabets, tables and run lengths; only the limit of
a code is small (4 for 15), because a tree deeper than 15 takes more than
fifteen hundred tokens.  The families put each boundary in reach: `Gaps` the
runs of zeros at 2, 3, 10, 11, 138 and past it, `Rows` repeats of every
length and an alphabet too large for any code, `Deep` trees that have to be
halved, `Bounds` the first and last value of every row of the tables, `Dists`
zero to three distances with and without the first.  A workgroup of four lanes
makes two rounds of the scan, so there is a barrier between rounds, and a lane
may be a round behind another; blocks of fewer tokens than a workgroup, of exactly
one, and of one more cover the partial workgroup, the end-of-block invocation in
the last workgroup and in one of its own, and a second block shorter than the
first reads buffers with old contents behind its own.  Writes cross
a word boundary at every position.

The tree of `MCPackSession` has each kind of node, directories that are reached
through links, and chunks of two units, so that entries begin, end and lie across a chunk; links
allowed twice are followed to a file, and round a circle until they fail.  The
listings of `MCUnpack` hold a file and a directory twice, a name that leaves the destination, a
file where a directory is needed, and nothing; two workers are enough for two
entries to be written at once.

`CHECK_DEADLOCK FALSE` is set where a system stops: the writer is dropped, the
pipeline is shut down, the command ends, the chunks or bytes of the instance run
out; that nobody waits for ever is what the liveness properties check.
`MCDeflateBlock` and `MCHuffmanEmit` have a last step that repeats
(`Finished`) and do check deadlock: for the scan that says no lane waits at a
barrier for one that has left.  The type invariants of `ParallelWriter` and
`HybridChunk` are proved (section 4) and not run again.

### Fairness

* `ParallelWriter`: the owner inside a call and the spawned jobs go on, as the
  operating system and rayon run them and chunk functions return.  No call has
  to be made: the property is about calls that were begun.
* `BatchedLz77`: both threads are scheduled, the GPU executes what is queued,
  and a client whose answer is there returns.  Nobody has to submit or drop.
* `HybridChunk`: each worker goes on, and initialisation and encoding return.
  A spurious failure with an unchanged counter is a stuttering step, so
  weak fairness also says that it does not happen for ever, which is what
  `compare_exchange_weak` is meant for.
* `PackSession`: the caller's thread runs, and so do the writer's jobs.  Nothing
  has to break.
* `Unpack`: the caller, the display and each worker run.

## 4. Proofs

`ParallelWriterProof`, for every chunk size, queue length, input and write size:

* `TypeCorrect`, `OutputOrdered`, `InFlightCorrect`: `TypeOK`,
  `OutputIsPrefix` and `InFlightExact` are invariants.
* The inductive invariant `IInv` joins to `TypeOK` that every member wherever it
  is — spawned, in the channel, in the map — carries the index of the chunk it
  is (`MembersTagged`), that `write_index` counts the output
  (`OutputCounted`), and that `in_flight` counts jobs and results
  (`JobsCounted`).  `OutputIsPrefix` is not inductive without the tags: a state
  in which `pending` holds a foreign member under the index asked for satisfies
  it, and its next step does not.
* The lemmas follow the actions: dispatching, a job sending, receiving (shared
  by the three loops), emitting, and the steps that touch none of this.

Its second half, on top of `IInv`:

* `NothingIsLeft`, `OkMeansAll`: `NothingLeftBehind` and `NoSilentLoss`.  `IInv`
  says where a member that is there belongs; `LInv` adds the converse, that none
  disappears without a trace: each index handed out is written, on its way or
  lost (`Accounted`), a loss is told or its failure still in the channel
  (`FailuresTold`), outside the emitting loop no member whose turn it is waits
  (`TurnTaken`), and the chunk being filled is empty when `finalize` has
  dispatched it (`Cutting`).
* `StreamImplemented`: the writer implements `ChunkStream`.  Dispatch maps to
  `Submit` because of `Cutting`, emission to `Emit` because of the tags, and
  closing with `Ok` to `Close` because of `LInv`.
* `QueueIsBounded`: `BackPressure`.  A write that fails in `drain_ready` leaves
  `dispatch_current` before it has waited for a slot, so the bound is exceeded
  by one.  It happens once: no two members share an index (`Apart`), so none has
  that of the member that was lost, and its turn never comes again
  (`LostForGood`).

and of `GzipMembers`, for every archive, every set of levels and every amount of data:

* `ArchivesReadBack`, `CutArchivesReadAsPrefix`: `RoundTrip` and `CutReadsAsPrefix`.
  They relate the end of the reading to the input; `FInv` says what holds on the
  way.  While it is written the file decodes to the numbers of the data so far
  (`WriteInv`: `MemberReads` and `PiecesRead` for the two encoders, `ReadsAppend` for
  what follows what).  What a crash leaves decodes to a prefix and without an
  error up to a header cut at the very end (`Left`, `CutIsLeft`).  `AllStarts` says
  that the starts are all the positions before the scan that look like a
  header, and `PartsInv` that a part is what its slice decodes to, whichever was
  decoded first.  `Assembled` closes the argument: when every slice decodes, every
  start is a real header, so no data looked like one and, the archive being
  `Uniform`, there is no other kind of header; behind the member a slice begins
  with there can then be nothing but the next start or the cut (`SliceIsMember`), so
  the parts in the order of the starts are the data of the stream.  Without
  `Uniform` this step fails, and that is what `GzipMembersMixed` finds.

`BatchedLz77Proof`, for any number of clients, any sizes, length of a batch, of
the channel and of the pool:

* `TokensAreOwn`, `SetsAreExclusive`, `PoolStaysQuiet`: `OwnTokens`,
  `SetsExclusive` and `PoolIsQuiet`.
* `OwnTokens` follows from three facts that hold each other up in `PInv`.  No
  two places hold the same job or the same set (`JobsApart`, `SetsApart`), so a
  client has one job on its way and a submission overwrites no other's buffers.
  A submission the GPU has not executed shares a set with no batch but its own
  (`GpuOwns`); a set number is new when it is given out.  And a batch submitted
  and not read is in the GPU's queue at the place its index says, or the staging
  buffers of its sets hold its tokens (`Served`).  `Asked` carries the identity of
  the call from the queue to the reply.
* The GPU's queue keeps submissions whose batch was dropped by a dying thread;
  `GpuOwns` is about these as well, so the theorem covers the panics.
* `JobsAreKept`: `NoJobLost`.  `Asked` says that a job anywhere belongs to a client that
  waits; `LossInv` is the converse, a waiting client whose job is nowhere
  (`Nowhere`) has its answer or a closed channel.  A batch that is formed takes its
  jobs from the queue and leaves none behind, the one job carried over to the
  next batch among them (`CarriedOnce`, `CarriedWaits`; `FreeFlat` about the
  flattened batches), and a dying thread closes the channel of every job it
  held (`LossThrows`).  `JobsApart` makes "somewhere" one place.

`PackProof`, for every tree, request, limit of links and chunk size:

* `DiskHoldsPrefix`: `DiskIsPrefix`.  The property is about the file; the invariant
  `PackInv` is about the log.  While the inputs are walked, the log, the rest of the
  file being copied (`Remaining`) and what the items still to be walked will become
  are together the archive that was asked for (`LogInv`).  A visit moves units from
  the last part to the first.  That is `PackedIs`, an item is packed as its own
  units and then what is below it, and it holds because the levels suffice
  (`LevelsSuffice`: more of them change nothing).  `StreamInv` takes it to the
  file: what was emitted is the beginning of what was submitted, and that of what was
  logged.
* For zip the listings come in any order, so "the archive asked for" means the
  same units, none twice.  A listing may be exchanged for another (`Exchange`)
  because the items of a listing have different paths, and so has everything
  below them (`Siblings`, `ItemsAreNeat`): the paths of what is packed begin with
  the path of the item (`Under`).  `ContentInv` keeps the pieces of a file behind
  their header.
* `OkMeansComplete`: `OkIsComplete`.  `Ok` comes with the end mark, behind a log that
  is the whole archive (`LogInv`), and a stream that is closed has written all of it
  or is broken (`ClosedInv`); for a plain tar `flush` has made sure that it has.

Its second half is about `HybridChunk`, for every number of workers, permits and
chunks (the definitions a specification always has carry a prefix there,
`HybridSpec`, `HybridInit`, because the module extends both):

* `PermitsAlwaysConserved`: permits in the counter and in hand add up.
* `SemaphoreImplemented`: every step maps to a step or a stutter of
  `GpuPermits`.  The exchange is the step that matters: it succeeds on a counter
  equal to the local copy and positive, so by conservation fewer workers than
  permits are in the GPU path.

* `InitialisedOnce`: `InitOnce`.  The property counts finished
  initialisations; what carries it is `CellInv`, that nobody is inside while the
  cell is empty or full, and one worker while it is busy.
* `WarmupIsFree`: `WarmupAvoidsInit`.  The counter of chunks, the chunks that are
  queued and the workers that have not counted theirs add up to the chunks sent
  (`CountInv`), so a worker that reads a number past the warm-up has a stream
  behind it that is longer than that.
* `TypeCorrect`: `TypeOK`.

`FormatProof`, for every sequence of code lengths and every block:

* `RleIsLossless`: `RleReadsBack`, what the entries stand for is the part of the
  sequence they cover, and in the end all of it.  The invariant `RleInv` says
  so element by element (`Covered`), that the run at hand is a run of equal
  lengths of the input (`RunHolds`), and that a code 16 is only written behind
  a length it can repeat (`AtRepeats`) — the one thing a decoder has to know
  that is not in the entry.
* `RleEntriesFit`: each extra value fits its bits and each entry covers as many
  lengths as its code may, at 3, 6, 10, 11 and 138.
* `HalvingAlwaysEnds`: `HalvingEnds`.  Halving changes nothing once every used
  frequency is one.  The tree over equal frequencies is even: at any time its
  heap holds trees of two neighbouring depths, the deeper ones last (`Even`,
  `Level`, kept by `EvenMerge`), so it is no taller than the logarithm that
  `TooMany` compares with the cap.
* `CodesAreComplete`: `CodesComplete`.  Each node of the heap has leaves whose shares
  2^-depth add up to one (`IsTree`, kept by `JoinedIsTree`), so a tree within the cap
  leaves no slack (`TreeComplete`); one or no distance is padded to two codes of one
  bit (`PadsDist`), and the end of the block makes two literals of one (`PadsLit`).
  The third code has no padding and needs it only if all its entries were one
  code: then all lengths of the literals would be equal (`OneCode`), and 257 to
  286 equal lengths are no complete code, not being a power of two in number
  (`NoPower`, `ManyCodes`).  Its 19 symbols fit 7 bits, so it never falls back (`FewMeta`).
* `EncodersAreInterchangeable`: `EncodersAgree`.  The three forms of the tables agree
  on every length and distance (`LengthsAgree`, `DistancesAgree`: the rows ascend,
  and a row has fewer values than its extra bits tell apart), every piece fits its
  bits (`TokenPiecesFit`, `HeaderFits`), so masking changes nothing (`WrittenPlain`), and
  atoms at the running offsets make what is written in order (`PlacedIs`).
  `PathTaken` keeps track of which block an encoder is to write.
* `AnnouncedBitsAreExact`: `AnnouncedBitsExact`, as the lengths of what is written add
  up (`WrittenConcat`) and a token is as long as the host's tables say (`AnnouncedIs`).
  The four on tables and bits follow from `BlockInv`: what the tables of each phase are (`Counted`,
  `HasCodes`), that the lengths are run-length coded without their zeros at the
  ends (`RunLengths`, with `RleInv`), and what is written from what (`Ready`, `Emitted`).
* `BlocksDecode`: `BlockDecodes`, what a decoder of RFC 1951 makes of the bits, which
  it reads from the first on and of which it knows nothing else.  A write changes
  no bit in front of it, so each piece is found where it was put (`At`, `WrittenAt`,
  `ReadIs`).  Codes given out in canonical order cut the numbers of fifteen bits
  into stretches, one per symbol, side by side and without a gap when the code is
  complete (`Stretches`, `CanonicalAligned`, `SlackFills`); the decoder takes the next
  fifteen bits, reversed, for such a number, finds the one stretch it lies in and
  has the symbol and the length (`AheadIs`, `StretchTable`, `SymbolReads`).  The fixed codes
  are the canonical codes of the fixed lengths (`FixedStretches`).  The decoder's rows
  of lengths and distances are the encoder's (`LenRowsDecode`, `DistRowsDecode`), so a
  token is read as it was written (`ReferenceReads`) and so is a stream of them
  (`TokensRead`).  In the header, the entries read so far and those still to come
  stand for all the code lengths (`History`, `LengthsRead`), and the code they are
  written with has every symbol they use.  `ReadBackInv` adds to `BlockInv` what
  `BlockDecodes` alone lacks: that the symbols of every token and of every entry are
  counted, so that each has a code (`Tallied`, kept by halving, which never makes a
  count zero), and that the entries pushed tell that `History` (`Recorded`).

`HuffmanEmitProof`, for every size of a workgroup and every block whose workgroups
one workgroup can scan:

* `OffsetsAreExact`: `OffsetsExact`.  Of one workgroup, `GroupInv` says that in
  round *s* a lane that has added holds the sum of the 2^(*s*+1) inputs that end
  at it, one that has not the sum of 2^*s*, and that what it has read is the
  window in front of its own (`WindowGrows` puts the two together); nothing about
  the order of lanes enters it.  `HInv` joins the passes: totals are those of
  finished workgroups, bases the sums of the totals in front, and the host's sum
  the sum over the tokens.
* `OutputIsOneWriters`: `OutputIsSequential`.  `OInv` says, for the words that are
  read back, that a bit is set exactly if the header has it or some invocation has
  written it (`EmitsOK`); what an invocation has written is known from what it has
  still to do (`Tracks`, `HasWritten`): an OR of a low part, a high part or both adds
  the bits of one write (`LowStep`, `HighStep`, with `WordArith` for the boundary).
  An OR commutes, so the order of the invocations does not enter.  At the end
  all have written all of theirs (`EveryTask`), from where the host's sum puts them
  (`DoneExact`), and the reference writer's output is the same union
  (`SequentialIs`, by induction on the tokens: `WriterAppends`, `UptoStep`).  Nothing
  of the block before is left, because the words read back were cleared.

`UnpackProof`, for every set of archives and any number of workers:

* `BarIsRight`: `BarTellsResult`.  The event that says how the call ended is the
  last of all (`Told`: the caller sends it when every worker is idle), the thread of
  the display ends only when nobody can send and everything is received
  (`Listening`), and what the bar shows is the last such event it has received
  (`Shows`).  `finish` waits for that thread, so the three meet at `done`.
* `ReportedStaysWhole`: `ReportedIsWhole`.  The workers of `unpack_zip` share the
  file system, not entries (`Once`).  While one copies an entry that has its path
  for itself, the file holds the units up to its offset (`Progress`, with
  `WrittenNext` for one write); no other worker is at that path, so neither a
  truncation nor a write of an offset further on reaches it (`OthersStay`).
* `TreeIsMade`: `TreeIsRight`.  `TInv` says, on top of `UInv`, that until an entry
  fails the files are those of the entries made so far, and that each holds the data
  of its newest entry (`Settled`) — of the one it has, or in the loops of tar, 7z and
  rar of the last begun, which is the one at hand (`InOrder`), so that nobody
  writes behind it (`NoRival`).  That a path is not a directory and a file at once
  (`Apart`) settles entries that disagree about it: one of them fails.  For zip
  entries that share a path what remains is `Units`: no write moves a unit.  The
  directories are those that an entry at work or made has asked for (`DirsAre`, from
  `Needed`), and every entry has got its own before it goes on (`Listed`, `Awaits`).

`Lz77Proof`, for every chunk, alphabet, segment, block, window, longest match and
number of buckets:

* `WalkIsLossless`: `LosslessSoFar`.  What carries it is `TrueTokens`: whatever the
  tables hold, a token of the lookup pass is the byte at its own position or a
  repetition that was compared byte by byte (`TokenIsTrue`, from `BestIsTrue` about
  the choice among candidates).  `ExpandTrue` says that such a token, expanded
  behind the input up to its position, gives the input up to its end, also when
  the match overlaps what it copies.
* `BuiltTablesExact`: `TablesExact`.  `TablesRight` says of every slot of the current
  layout that it holds the least or greatest of the positions whose invocation has
  run, or its reset value; what another chunk left is outside the layout.
* `RepeatsAreFound`: `NoRepeatMissed` (`RepeatFound`): the oldest entry of the
  segment is the repetition or one before it with the same three bytes, or
  beyond the window, where the newest takes its place.
* `BlocksWalkStrictly`, `SlotsAreKept`: `BlockWalkIsStrict` and `SlotsWrittenOnce`.
  The serial walk is a path of positions (`IsPath`); a summary holds where the path
  leaves a block and how many tokens it has there (`SummaryIs`), the chain adds
  them up (`ChainInv`), and a lane writes the part of the path in its block
  (`LaneInv`, `WalkedInv`), so no two write one slot and at the end all are
  written (`AllEmitted`).

The functions of these modules are recursive over positions and lengths.  The
induction the proofs need is the well-foundedness of < on the naturals, used
as a least element (`Least`, `Induction` of `DataInduction`): a recursive function
is its unfolding because an approximation exists on each interval (`Recursion`,
`Descent`) and CHOOSE picks one that unfolds.  `BatchedLz77Proof`, `FormatProof` and
`PackProof` use the same for `FlattenSeq`, `FormatProof` for the rounds of the Huffman
heap, Kraft sums, written bits and the three loops of the decoder, `PackProof` for the levels of a tree,
`UnpackProof` for the last of several entries.

Assumed: `WriterAssumption`, `BatchAssumption` and `HybridAssumption` (positive
sizes, finitely many workers), which the code asserts (`parallel.rs:52-53`), has
as constants or gets from rayon; `WgSizeAssumption`, the size written into the
shader; `BlocksAssumption`, the host's own assertion that one workgroup can scan
the totals, and that a write has no bit above those it counts, which
`FormatProof` proves of the pieces of every block (`HuffmanFits`, `CodesOfToken`); `LiveAssumption`, that a block takes no
more bits than the 32 for each token, 16 and the header that the host clears and
copies (`huffman_emit_v2.rs:411-416`).  The code does not test this one: a fixed
token takes at most 31 bits, and a Huffman code takes, per token, at most
log2(513) + 1 bits for the length with its extra bits and log2(32768) + 1 for the
distance with its own, 26 in all, which leaves room for what halving the counts
costs; a single token may take more, so it is a property of the block.
Further: `MainAssumption` and `ContentAssumption`, that the caller is one of
the workers and an archive a sequence of entries with a name, a kind and data;
`TreeAssumption` and `CallAssumption`, that a node is a directory, a file, a link or a
socket, that a directory lists a name once and is not
below itself (a link may point anywhere), and that a call names an input once.  `HashAssumption`
and `BlockAssumption` are the sizes written into the LZ77 shaders, and
`PowersAssumption` is arithmetic the provers lack: powers of two are positive, and
exponents add.  `MembersAssumption` gives levels, pieces and data their ranges; `ArchivesReadBack`
uses nothing of it but that levels are numbers.  `DeflateAssumption` bounds the two
caps, 15 and 7 in the code, and `StreamsAssumption` says that a token is a byte or a
match of 3 to 258 at a distance of 1 to 32768, which is what `WalkIsLossless` and the
window give.  TLC evaluates all of them in the
runs.

Only model-checked: liveness everywhere (`PackReturns` and its like), which is
beyond the provers.  Every invariant of a passing run is a theorem.

## 5. Not modelled

* GPU context, device setup and the identity kernel; `plan_chunks`, which no
  compressor calls.
* The brute-force shader `lz77.wgsl` and its pipeline, and the synchronous
  `match_find`: only tests use them.
* Listing (a loop that collects names), argument parsing, environment
  variables, `pick_decompressor` (the same search as `pick_compressor`, with one
  candidate).
* FIFOs and devices below the inputs of `pack`.  `File::open` of the zip walk
  (`pack.rs:99`) waits on a FIFO until somebody writes to it, and a device is copied
  (100) as if it were a file, for ever if it has no end; `PackReturns` says nothing
  of either.
* That an older archive survives a `pack` that fails: it is truncated at once
  (`pack.rs:50`, 152), as `disk` shows, and nothing in the repository says otherwise.
* What zstd frames and single-stream codecs contain: a call of a library.

## 6. Where code and comments disagree

Three are runs that TLC violates; `PROJECT.json` quotes the text.

* A chunk error that `write` has returned is forgotten: `finalize` then
  succeeds (`ParallelWriterSticky`).  The path of `pack` does not call
  `finalize`, and its tar builder fails on the error of `write`.
* A gzip archive written by both encoders at level 0, 1 or 9 loses its CPU
  chunks when read back, without an error (`GzipMembersMixed`).  The default
  level is 5, at which both write the same header.
* `--backend gpu` is said to fall back to the CPU (`gpzip-cli/src/app.rs:157-161`).
  The lazy GPU backend says it can compress gzip before it knows of an adapter,
  so it is picked, its `compressor()` then fails with `NoBackend`, and the CPU
  entry behind it is not asked (`PackGpuFallback`).

Without a run, as they change no result or are what another property states as
its exception:

* Errors in the `finalize` of drop are only logged (`parallel.rs:222`, against
  line 41), and `pack_tar` relies on drop: `OkIsComplete` says where `Ok` is
  returned over an incomplete file, and that plain tar never is.
* `pending` has no bound (`parallel.rs:120`, against lines 5-6).
* The GPU queue holds two batches more than `PIPELINE_DEPTH` (`batch.rs:8-10`, 38).
* The pool is not the stack of most recently used sets that
  `lz77_hash.rs:90-91` describes: `acquire` takes the first set that is large
  enough.
* `--threads 1` compresses two chunks at once with the default backend
  (`app.rs:23`).
* The branch of `chain_blocks` its comment says should not happen
  (`walk_block.wgsl:110-117`) is the one every match longer than a block takes,
  and the one said to handle skipped blocks (`cur < block_start`) is never taken;
  the lookup pass visits every segment back to the first
  (`lz77_hash_lookup.wgsl:85-86`), not the eight of a window that
  `lz77_hash.rs:24-25` and `gpu.rs:155-156` describe.
* The fallbacks said to be for a tree that is too tall (`huffman_emit_v2.rs:276`,
  `deflate.rs:201`) are not reached by one, since the loop halves until it fits
  (`HalvingEnds`); only an alphabet too large for the limit takes them.
* Bit-identical output is not promised of the fast encoder (`deflate.rs:749`), and
  holds (`EncodersAgree`).
* The bar is said to be left standing when the channel closes without a terminal
  event (`gpzip-cli/src/progress.rs:86-87`), and the code below clears it (88-90).
  Only a call that fails before its first event gets there; `BarTellsResult` asks
  that such a bar claims neither success nor an error, not which of the two it is.
* The shader is said to write the header of three bits and to bias offsets by it
  (`huffman_emit_v2.wgsl:22-26`, 170-173); the host writes the header and
  hands over its length (31-35), and the pass writes none.
* The limit of 65 536 tokens in `huffman_emit_v2.wgsl:133` is that of
  workgroups of 256; the shader has 1024.
