----------------------------- MODULE BatchedLz77 -----------------------------
(***************************************************************************)
(* The two-stage GPU pipeline of gpzip-codec-gpu: BatchedLz77 (batch.rs)   *)
(* over the asynchronous half of Lz77HashPipeline (lz77_hash.rs).  Client  *)
(* threads submit chunks and block; the submitter groups waiting jobs into *)
(* a batch, takes a buffer set per job from a shared pool, submits to the  *)
(* GPU and passes the batch on; the completer waits for the submission,    *)
(* reads the tokens, gives the buffers back and answers the clients.       *)
(*                                                                         *)
(* A job's tokens are identified with the job: what matters here is whose  *)
(* tokens a buffer holds when it is read.                                  *)
(*                                                                         *)
(* Operators named after a fault are not part of the model: each is the    *)
(* operator that follows it with a plausible mistake in it.                *)
(***************************************************************************)
EXTENDS Integers, Sequences, FiniteSets, SequencesExt

CONSTANTS Clients,      \* threads that call submit
          Sizes,        \* lengths of the chunks they submit
          MaxBatch,     \* MAX_BATCH
          Depth,        \* PIPELINE_DEPTH
          PoolCap,      \* buffer sets the pool keeps
          MapMayFail,   \* whether mapping a staging buffer may fail
          MaxRounds     \* bound: calls of submit per client

ASSUME BatchAssumption == /\ MaxBatch \in Nat \ {0} /\ Depth \in Nat \ {0}
                          /\ PoolCap \in Nat /\ MaxRounds \in Nat
                          /\ Sizes \subseteq Nat \ {0} /\ MapMayFail \in BOOLEAN

VARIABLES
  call,       \* the job each client waits for, <<>> while it is not in submit
  rounds,     \* bound: calls of submit each client has made
  answer,     \* what is in the response channel of each client's call
  lost,       \* the clients whose response channel has lost its sender
  open,       \* job_tx has not been dropped
  job_q,      \* the unbounded channel of jobs
  sub,        \* the submitter: its place, its batch, the sets acquired for it
  pending,    \* the bounded channel of submitted batches
  comp,       \* the completer: its place and the batch it collects
  gpu,        \* submissions the GPU has not executed, in queue order
  done,       \* the number of submissions the GPU has executed
  staging,    \* for each buffer set, the job whose tokens it holds, if any
  pool,       \* the released buffer sets
  aborted     \* a client has panicked, which ends the process

clientVars == <<call, rounds, answer, lost>>
gpuVars    == <<gpu, done, staging>>
vars == <<clientVars, open, job_q, sub, pending, comp, gpuVars, pool, aborted>>

(* Buffer sets are numbered as they are created.                           *)
Created == Len(staging)

(* A batch: its jobs, [from, round, size], the buffer set [id, capacity]   *)
(* of each, and its submission index.                                      *)
Nothing == [jobs |-> <<>>, sets |-> <<>>, index |-> 0]

Init ==
  /\ call = [c \in Clients |-> <<>>]
  /\ rounds = [c \in Clients |-> 0]
  /\ answer = [c \in Clients |-> <<>>] /\ lost = {}
  /\ open = TRUE /\ job_q = <<>>
  /\ sub = [at |-> "recv", batch |-> Nothing]
  /\ pending = <<>>
  /\ comp = [at |-> "recv", batch |-> Nothing]
  /\ gpu = <<>> /\ done = 0 /\ staging = <<>>
  /\ pool = <<>>
  /\ aborted = FALSE
-----------------------------------------------------------------------------
(* submit: send the job with a fresh response channel, block on the answer. *)
Submit(c, s) ==
  /\ call[c] = <<>> /\ open /\ sub.at # "exited"
  /\ rounds[c] < MaxRounds
  /\ LET job == [from |-> c, round |-> rounds[c] + 1, size |-> s]
     IN  /\ call' = [call EXCEPT ![c] = <<job>>]
         /\ job_q' = Append(job_q, job)
  /\ rounds' = [rounds EXCEPT ![c] = @ + 1]
  /\ UNCHANGED <<answer, lost, open, sub, pending, comp, gpuVars, pool, aborted>>

SubmitReturns(c) ==
  /\ answer[c] # <<>>
  /\ call' = [call EXCEPT ![c] = <<>>]
  /\ answer' = [answer EXCEPT ![c] = <<>>]
  /\ UNCHANGED <<rounds, lost, open, job_q, sub, pending, comp, gpuVars, pool, aborted>>

(* submit panics when the submitter is gone or its response was dropped:   *)
(* the clients are rayon jobs, and rayon aborts the process.               *)
SubmitPanics(c) ==
  /\ \/ call[c] = <<>> /\ open /\ sub.at = "exited" /\ rounds[c] < MaxRounds
     \/ c \in lost
  /\ aborted' = TRUE
  /\ UNCHANGED <<clientVars, open, job_q, sub, pending, comp, gpuVars, pool>>

(* The last owner drops the pipeline: no client is inside submit. *)
Drop ==
  /\ open /\ \A c \in Clients : call[c] = <<>>
  /\ open' = FALSE
  /\ UNCHANGED <<clientVars, job_q, sub, pending, comp, gpuVars, pool, aborted>>

(* The clients whose jobs are thrown away unanswered. *)
Abandoned(jobs) == {jobs[k].from : k \in DOMAIN jobs}

Throw(jobs) == lost' = lost \cup Abandoned(jobs)
-----------------------------------------------------------------------------
RecvJobFault ==
  /\ sub.at \in {"recv", "gather"}
  /\ job_q # <<>>
  /\ sub' = [at |-> "gather",
             batch |-> IF Len(sub.batch.jobs) < MaxBatch
                         THEN [sub.batch EXCEPT !.jobs = Append(@, Head(job_q))]
                         ELSE sub.batch]
  /\ job_q' = Tail(job_q)
  /\ UNCHANGED <<clientVars, open, pending, comp, gpuVars, pool, aborted>>

(* The submitter blocks for a first job, and takes those already queued. *)
RecvJob ==
  /\ \/ sub.at = "recv"
     \/ sub.at = "gather" /\ Len(sub.batch.jobs) < MaxBatch
  /\ job_q # <<>>
  /\ sub' = [at |-> "gather", batch |-> [sub.batch EXCEPT !.jobs = Append(@, Head(job_q))]]
  /\ job_q' = Tail(job_q)
  /\ UNCHANGED <<clientVars, open, pending, comp, gpuVars, pool, aborted>>

GatherEndsFault ==
  /\ sub.at = "gather"
  /\ Len(sub.batch.jobs) = MaxBatch
  /\ sub' = [sub EXCEPT !.at = "acquire"]
  /\ UNCHANGED <<clientVars, open, job_q, pending, comp, gpuVars, pool, aborted>>

GatherEnds ==
  /\ sub.at = "gather"
  /\ Len(sub.batch.jobs) = MaxBatch \/ job_q = <<>>
  /\ sub' = [sub EXCEPT !.at = "acquire"]
  /\ UNCHANGED <<clientVars, open, job_q, pending, comp, gpuVars, pool, aborted>>

(* swap_remove: the last element takes the place of the one removed. *)
SwapRemove(s, k) == SubSeq([s EXCEPT ![k] = s[Len(s)]], 1, Len(s) - 1)

PoolWithoutFault(k) == pool

(* The pool after its k-th set is taken. *)
PoolWithout(k) == SwapRemove(pool, k)

Fits(k, size) == pool[k].capacity >= size

NextSize == sub.batch.jobs[Len(sub.batch.sets) + 1].size

Acquiring == sub.at = "acquire" /\ Len(sub.batch.sets) < Len(sub.batch.jobs)

Holds(set) == sub' = [sub EXCEPT !.batch.sets = Append(@, set)]

(* acquire, once per job of the batch: the first set of the pool that is   *)
(* large enough, or a new one.  The pool is locked for one acquire only.   *)
AcquirePooled ==
  /\ Acquiring
  /\ \E k \in DOMAIN pool :
       /\ Fits(k, NextSize) /\ \A i \in 1 .. k - 1 : ~ Fits(i, NextSize)
       /\ Holds(pool[k])
       /\ pool' = PoolWithout(k)
  /\ UNCHANGED <<clientVars, open, job_q, pending, comp, gpuVars, aborted>>

AcquireNew ==
  /\ Acquiring
  /\ \A k \in DOMAIN pool : ~ Fits(k, NextSize)
  /\ Holds([id |-> Created + 1, capacity |-> NextSize])
  /\ staging' = Append(staging, <<>>)
  /\ UNCHANGED <<clientVars, open, job_q, pending, comp, gpu, done, pool, aborted>>

(* One submission covers the whole batch. *)
SubmitBatch ==
  /\ sub.at = "acquire" /\ Len(sub.batch.sets) = Len(sub.batch.jobs)
  /\ gpu' = Append(gpu, sub.batch)
  /\ sub' = [at |-> "send", batch |-> [sub.batch EXCEPT !.index = done + Len(gpu) + 1]]
  /\ UNCHANGED <<clientVars, open, job_q, pending, comp, done, staging, pool, aborted>>

Room == Len(pending) < Depth

(* The bounded send blocks while Depth batches wait for the completer. *)
SendBatch ==
  /\ sub.at = "send" /\ comp.at # "panicked" /\ Room
  /\ pending' = Append(pending, sub.batch)
  /\ sub' = [at |-> "recv", batch |-> Nothing]
  /\ UNCHANGED <<clientVars, open, job_q, comp, gpuVars, pool, aborted>>

(* Without its completer the submitter returns: its batch and, with the    *)
(* receiver, the queued jobs are dropped.                                  *)
SendFails ==
  /\ sub.at = "send" /\ comp.at = "panicked"
  /\ Throw(sub.batch.jobs \o job_q)
  /\ job_q' = <<>>
  /\ sub' = [at |-> "exited", batch |-> Nothing]
  /\ UNCHANGED <<call, rounds, answer, open, pending, comp, gpuVars, pool, aborted>>

SubmitterExitsFault == sub.at = "recv" /\ job_q = <<>> /\ ~ open /\ UNCHANGED vars

SubmitterExits ==
  /\ sub.at = "recv" /\ job_q = <<>> /\ ~ open
  /\ sub' = [sub EXCEPT !.at = "exited"]
  /\ UNCHANGED <<clientVars, open, job_q, pending, comp, gpuVars, pool, aborted>>
-----------------------------------------------------------------------------
(* The GPU executes the submissions in order; each writes the tokens of    *)
(* its jobs to the staging buffers of their sets.                          *)
Execute ==
  /\ gpu # <<>>
  /\ LET batch == Head(gpu)
         Used(id) == {k \in DOMAIN batch.sets : batch.sets[k].id = id}
     IN  staging' = [id \in 1 .. Created |->
           IF Used(id) = {} THEN staging[id]
                            ELSE <<batch.jobs[CHOOSE k \in Used(id) : TRUE]>>]
  /\ gpu' = Tail(gpu)
  /\ done' = done + 1
  /\ UNCHANGED <<clientVars, open, job_q, sub, pending, comp, pool, aborted>>
-----------------------------------------------------------------------------
RecvBatch ==
  /\ comp.at = "recv" /\ pending # <<>>
  /\ comp' = [at |-> "collect", batch |-> Head(pending)]
  /\ pending' = Tail(pending)
  /\ UNCHANGED <<clientVars, open, job_q, sub, gpuVars, pool, aborted>>

ExecutedFault(index) == TRUE

(* poll(WaitForSubmissionIndex(index)) returns. *)
Executed(index) == done >= index

(* collect_async waits for its own submission and reads every buffer; what *)
(* it read is kept with the batch.                                         *)
Collect ==
  /\ comp.at = "collect" /\ Executed(comp.batch.index)
  /\ comp' = [at |-> "release",
              batch |-> [comp.batch EXCEPT
                           !.jobs = [k \in DOMAIN @ |->
                             [from |-> @[k].from, tokens |-> staging[comp.batch.sets[k].id]]]]]
  /\ UNCHANGED <<clientVars, open, job_q, sub, pending, gpuVars, pool, aborted>>

(* expect("buffer map failed"): the completer thread dies with its batch,  *)
(* and with its receiver the batches still in the channel.                 *)
CompleterPanics ==
  /\ MapMayFail
  /\ comp.at = "collect" /\ Executed(comp.batch.index)
  /\ Throw(comp.batch.jobs \o FlattenSeq([k \in DOMAIN pending |-> pending[k].jobs]))
  /\ pending' = <<>>
  /\ comp' = [at |-> "panicked", batch |-> Nothing]
  /\ UNCHANGED <<call, rounds, answer, open, job_q, sub, gpuVars, pool, aborted>>

(* release, once per set: a full pool lets the set go. *)
Release ==
  /\ comp.at = "release" /\ comp.batch.sets # <<>>
  /\ LET set == Head(comp.batch.sets)
     IN  IF Len(pool) < PoolCap
           THEN pool' = Append(pool, set)
           ELSE UNCHANGED pool
  /\ comp' = [comp EXCEPT !.batch.sets = Tail(@)]
  /\ UNCHANGED <<clientVars, open, job_q, sub, pending, gpuVars, aborted>>

(* The tokens go to the clients of the batch, in turn. *)
Answer ==
  /\ comp.at = "release" /\ comp.batch.sets = <<>> /\ comp.batch.jobs # <<>>
  /\ LET a == Head(comp.batch.jobs)
     IN  answer' = [answer EXCEPT ![a.from] = a.tokens]
  /\ comp' = [comp EXCEPT !.batch.jobs = Tail(@)]
  /\ UNCHANGED <<call, rounds, lost, open, job_q, sub, pending, gpuVars, pool, aborted>>

AnswersEnd ==
  /\ comp.at = "release" /\ comp.batch.jobs = <<>>
  /\ comp' = [at |-> "recv", batch |-> Nothing]
  /\ UNCHANGED <<clientVars, open, job_q, sub, pending, gpuVars, pool, aborted>>

CompleterExits ==
  /\ comp.at = "recv" /\ pending = <<>> /\ sub.at = "exited"
  /\ comp' = [comp EXCEPT !.at = "exited"]
  /\ UNCHANGED <<clientVars, open, job_q, sub, pending, gpuVars, pool, aborted>>
-----------------------------------------------------------------------------
Submitter == RecvJob \/ GatherEnds \/ AcquirePooled \/ AcquireNew \/ SubmitBatch
             \/ SendBatch \/ SendFails \/ SubmitterExits

Completer == RecvBatch \/ Collect \/ CompleterPanics \/ Release \/ Answer
             \/ AnswersEnd \/ CompleterExits

ClientReturns(c) == SubmitReturns(c) \/ SubmitPanics(c)

Next ==
  /\ ~ aborted
  /\ \/ \E c \in Clients, s \in Sizes : Submit(c, s)
     \/ \E c \in Clients : ClientReturns(c)
     \/ Drop \/ Submitter \/ Execute \/ Completer

(* The two threads are scheduled, the GPU makes progress, and a client     *)
(* whose answer is there returns.  Nobody has to submit or to drop.        *)
Fairness ==
  /\ WF_vars(~ aborted /\ Submitter)
  /\ WF_vars(~ aborted /\ Execute)
  /\ WF_vars(~ aborted /\ Completer)
  /\ \A c \in Clients : WF_vars(~ aborted /\ ClientReturns(c))

Spec == Init /\ [][Next]_vars

FairSpec == Spec /\ Fairness
-----------------------------------------------------------------------------
(* A client is given the tokens of the chunk it submitted, although the    *)
(* buffer they travel in serves one chunk after another and the next       *)
(* submission is under way while they are read: batch.rs:134-141 with      *)
(* lz77_hash.rs:638-664.                                                   *)
OwnTokens == \A c \in Clients : answer[c] # <<>> => answer[c] = call[c]

(* The batches between the threads, in the order they were submitted. *)
Batches == <<comp.batch>> \o pending \o <<sub.batch>>

(* The buffer sets of the pool, then those of each batch. *)
Held == <<pool>> \o [k \in DOMAIN Batches |-> Batches[k].sets]

(* A buffer set belongs to the pool, once, or to one chunk of one batch:   *)
(* two chunks that shared a set would overwrite each other's input on the  *)
(* GPU (lz77_hash.rs:281-297, 475-478, 660-662).                           *)
SetsExclusive ==
  \A m, n \in DOMAIN Held : \A i \in DOMAIN Held[m], j \in DOMAIN Held[n] :
    Held[m][i].id = Held[n][j].id => m = n /\ i = j

(* A set returns to the pool only after the GPU has executed the           *)
(* submission that used it, so nothing is uploaded over a chunk in         *)
(* progress (lz77_hash.rs:646-662).                                        *)
PoolIsQuiet ==
  \A b \in ToSet(gpu), set \in ToSet(pool) : set \notin ToSet(b.sets)

(* The places where the job of client c is waiting to be answered. *)
Carriers(c) ==
  {k \in DOMAIN job_q : job_q[k].from = c}
  \cup {p \in (DOMAIN Batches) \X (1 .. MaxBatch) :
          p[2] \in DOMAIN Batches[p[1]].jobs /\ Batches[p[1]].jobs[p[2]].from = c}

(* While a client waits, its job is in exactly one place, or its answer    *)
(* is there, or its response channel is closed: it never waits for a job   *)
(* nobody has, whatever the greedy gathering, the bounded channel and the  *)
(* death of a thread do with it (batch.rs:107-130).                        *)
NoJobLost ==
  \A c \in Clients :
    Cardinality(Carriers(c)) + Len(answer[c]) + Cardinality(lost \cap {c})
      = Len(call[c])

(* Every submit returns, or the process is aborted: nobody waits for a     *)
(* batch to fill, and a dead thread does not leave its clients hanging     *)
(* (batch.rs:19-22, 74-86, 125-131).                                       *)
SubmitsReturn == \A c \in Clients : call[c] # <<>> ~> call[c] = <<>> \/ aborted

(* Once the pipeline is dropped both threads end, so drop's joins return   *)
(* (batch.rs:88-99).                                                       *)
ShutdownCompletes ==
  ~ open ~> aborted \/ (sub.at = "exited" /\ comp.at \in {"exited", "panicked"})
=============================================================================
