--------------------------- MODULE BatchedLz77Proof ---------------------------
(***************************************************************************)
(* Every client of the GPU pipeline is given the tokens of its own chunk,  *)
(* no buffer set is in two hands, and none is free before the GPU is done  *)
(* with it; and no job is lost.  For any number of clients, any sizes, any *)
(* length of a batch, of the channel and of the pool.                      *)
(*                                                                         *)
(* Jobs and buffer sets go from hand to hand: the first from the queue     *)
(* through the submitter's batch, the channel and the completer's batch to *)
(* the answers, the second round between the pool and the same batches.    *)
(* That no two places hold the same job, or the same set, is stated once   *)
(* for a field of what a place holds, "from" or "id".                      *)
(***************************************************************************)
EXTENDS BatchedLz77, SequenceTheorems, FiniteSetTheorems, DataInduction

Job     == [from : Clients, round : Nat, size : Nat]
Reply   == [from : Clients, tokens : Seq(Job)]
Set     == [id : Nat \ {0}, capacity : Nat]
Batch   == [jobs : Seq(Job), sets : Seq(Set), index : Nat]
Replied == [jobs : Seq(Reply), sets : Seq(Set), index : Nat]

TypeInv ==
  /\ call \in [Clients -> Seq(Job)] /\ rounds \in [Clients -> Nat]
  /\ answer \in [Clients -> Seq(Job)]
  /\ job_q \in Seq(Job)
  /\ sub \in [at : {"recv", "gather", "acquire", "send", "exited"}, batch : Batch]
  /\ pending \in Seq(Batch)
  /\ comp \in [at : {"recv", "collect", "exited", "panicked"}, batch : Batch]
              \cup [at : {"release"}, batch : Replied]
  /\ gpu \in Seq(Batch) /\ done \in Nat /\ staging \in Seq(Seq(Job))
  /\ pool \in Seq(Set)

(* Who has nothing has an empty batch, and a batch has its index from      *)
(* SubmitBatch on.                                                         *)
Empty ==
  /\ sub.at \in {"recv", "exited"} => sub.batch = Nothing
  /\ sub.at # "send" => sub.batch.index = 0
  /\ comp.at \in {"recv", "exited", "panicked"} => comp.batch = Nothing
  /\ comp.at = "release" => comp.batch.index <= done

(* No element of t has the value x in field f, and the elements of s       *)
(* differ from each other, and from those of t, in it.                     *)
Free(f, x, t)  == \A j \in 1 .. Len(t) : t[j][f] # x
Apart(f, s, t) == \A i \in 1 .. Len(s) : Free(f, s[i][f], t)
Differ(f, s)   == \A i, j \in 1 .. Len(s) : s[i][f] = s[j][f] => i = j

Pending == 1 .. Len(pending)

JobsApart ==
  /\ Differ("from", job_q) /\ Differ("from", sub.batch.jobs) /\ Differ("from", comp.batch.jobs)
  /\ \A n \in Pending : Differ("from", pending[n].jobs)
  /\ Apart("from", job_q, sub.batch.jobs) /\ Apart("from", job_q, comp.batch.jobs)
  /\ Apart("from", sub.batch.jobs, comp.batch.jobs)
  /\ \A n \in Pending : /\ Apart("from", job_q, pending[n].jobs)
                        /\ Apart("from", sub.batch.jobs, pending[n].jobs)
                        /\ Apart("from", comp.batch.jobs, pending[n].jobs)
  /\ \A m, n \in Pending : m # n => Apart("from", pending[m].jobs, pending[n].jobs)

SetsApart ==
  /\ Differ("id", pool) /\ Differ("id", sub.batch.sets) /\ Differ("id", comp.batch.sets)
  /\ \A n \in Pending : Differ("id", pending[n].sets)
  /\ Apart("id", pool, sub.batch.sets) /\ Apart("id", pool, comp.batch.sets)
  /\ Apart("id", sub.batch.sets, comp.batch.sets)
  /\ \A n \in Pending : /\ Apart("id", pool, pending[n].sets)
                        /\ Apart("id", sub.batch.sets, pending[n].sets)
                        /\ Apart("id", comp.batch.sets, pending[n].sets)
  /\ \A m, n \in Pending : m # n => Apart("id", pending[m].sets, pending[n].sets)

(* A job that waits is the one its client is in submit with, and the       *)
(* client has no answer yet; a reply is for that client.                   *)
Waits(job)  == call[job.from] = <<job>> /\ answer[job.from] = <<>>
AllWait(s)  == \A i \in 1 .. Len(s) : Waits(s[i])
Replies(r)    == r.tokens = call[r.from] /\ r.tokens # <<>> /\ answer[r.from] = <<>>

Asked ==
  /\ AllWait(job_q) /\ AllWait(sub.batch.jobs)
  /\ \A n \in Pending : AllWait(pending[n].jobs)
  /\ comp.at = "collect" => AllWait(comp.batch.jobs)
  /\ comp.at = "release" => \A i \in 1 .. Len(comp.batch.jobs) : Replies(comp.batch.jobs[i])

(* The batches that may hold buffer sets, and those of them that were      *)
(* submitted and not read.                                                 *)
Flying == {comp.batch, sub.batch} \cup {pending[n] : n \in Pending}
Out == {b \in {comp.batch} : comp.at = "collect"} \cup {b \in {sub.batch} : sub.at = "send"}
       \cup {pending[n] : n \in Pending}

(* A submission the GPU has not executed is still with the batch its sets  *)
(* are in; sets are numbered up to the last one created.                   *)
Claims(b) == \A q \in 1 .. Len(gpu) : Apart("id", b.sets, gpu[q].sets) \/ b.index = done + q
Numbered(s) == \A i \in 1 .. Len(s) : s[i].id <= Len(staging)

GpuOwns ==
  /\ \A q \in 1 .. Len(gpu) : /\ Differ("id", gpu[q].sets) /\ Numbered(gpu[q].sets)
                              /\ Len(gpu[q].jobs) = Len(gpu[q].sets)
                              /\ Apart("id", pool, gpu[q].sets)
  /\ \A b \in Flying : Claims(b) /\ Numbered(b.sets)
  /\ Numbered(pool)

(* A batch that was submitted and not read waits on the GPU, or its tokens *)
(* are in its staging buffers.                                             *)
Queued(b) == b.index - done \in 1 .. Len(gpu) /\ gpu[b.index - done].jobs = b.jobs
             /\ gpu[b.index - done].sets = b.sets
Ready(b)  == b.index <= done /\ \A i \in 1 .. Len(b.sets) : staging[b.sets[i].id] = <<b.jobs[i]>>

Served == \A b \in Out : Len(b.jobs) = Len(b.sets) /\ (Queued(b) \/ Ready(b))

PInv == TypeInv /\ Empty /\ JobsApart /\ SetsApart /\ Asked /\ GpuOwns /\ Served /\ OwnTokens
-----------------------------------------------------------------------------
LEMMA Initially == Init => PInv
<1> SUFFICES ASSUME Init PROVE PInv
  OBVIOUS
<1>1. Nothing \in Batch /\ Nothing.jobs = <<>> /\ Nothing.sets = <<>> /\ Nothing.index = 0
  BY DEF Nothing, Batch
<1>2. TypeInv /\ Empty
  BY <1>1 DEF Init, TypeInv, Empty
<1>3. /\ sub.batch = Nothing /\ comp.batch = Nothing /\ comp.at = "recv" /\ sub.at = "recv"
      /\ pending = <<>> /\ gpu = <<>> /\ pool = <<>> /\ job_q = <<>>
  BY DEF Init
<1>4. JobsApart /\ SetsApart
  BY <1>1, <1>3 DEF JobsApart, SetsApart, Differ, Apart, Pending
<1>5. Asked
  BY <1>1, <1>3 DEF Asked, AllWait, Pending
<1>6. GpuOwns /\ Served
  BY <1>1, <1>3 DEF GpuOwns, Numbered, Claims, Flying, Served, Out, Pending
<1>7. OwnTokens
  BY DEF Init, OwnTokens
<1> QED BY <1>2, <1>4, <1>5, <1>6, <1>7 DEF PInv

LEMMA SubTypes ==
  ASSUME TypeInv
  PROVE  /\ sub.batch \in Batch /\ sub.batch.jobs \in Seq(Job) /\ sub.batch.sets \in Seq(Set)
         /\ sub.batch.index \in Nat
BY DEF TypeInv, Batch

LEMMA CompTypes ==
  ASSUME TypeInv
  PROVE  /\ comp.batch.sets \in Seq(Set) /\ comp.batch.index \in Nat
         /\ comp.at # "release" => comp.batch \in Batch /\ comp.batch.jobs \in Seq(Job)
         /\ comp.at = "release" => comp.batch \in Replied /\ comp.batch.jobs \in Seq(Reply)
         /\ comp.batch.jobs \in Seq(Job) \/ comp.batch.jobs \in Seq(Reply)
BY DEF TypeInv, Batch, Replied

LEMMA PendingTypes ==
  ASSUME TypeInv
  PROVE  /\ Len(pending) \in Nat
         /\ \A n \in Pending : /\ pending[n] \in Batch /\ pending[n].jobs \in Seq(Job)
                               /\ pending[n].sets \in Seq(Set) /\ pending[n].index \in Nat
<1>1. pending \in Seq(Batch)
  BY DEF TypeInv
<1>2. \A n \in Pending : pending[n] \in Batch
  BY <1>1 DEF Pending
<1> QED BY <1>1, <1>2 DEF Batch

LEMMA GpuTypes ==
  ASSUME TypeInv
  PROVE  /\ Len(gpu) \in Nat /\ done \in Nat /\ Len(staging) \in Nat
         /\ \A n \in 1 .. Len(gpu) : /\ gpu[n] \in Batch /\ gpu[n].jobs \in Seq(Job)
                                      /\ gpu[n].sets \in Seq(Set)
<1>1. gpu \in Seq(Batch) /\ done \in Nat /\ staging \in Seq(Seq(Job))
  BY DEF TypeInv
<1>2. \A n \in 1 .. Len(gpu) : gpu[n] \in Batch
  BY <1>1
<1> QED BY <1>1, <1>2 DEF Batch

(* What each action does to the batch a thread holds.                      *)
LEMMA TakesJob ==
  ASSUME TypeInv, RecvJob
  PROVE  /\ job_q # <<>> /\ Head(job_q) \in Job /\ job_q' = Tail(job_q)
         /\ sub' \in [at : {"gather"}, batch : Batch] /\ sub'.batch \in Batch
         /\ sub'.batch.jobs = Append(sub.batch.jobs, Head(job_q))
         /\ sub'.batch.sets = sub.batch.sets /\ sub'.batch.index = sub.batch.index
<1>1. job_q \in Seq(Job) /\ job_q # <<>>
  BY DEF TypeInv, RecvJob
<1>2. Head(job_q) \in Job
  BY <1>1
<1>3. /\ sub.batch \in Batch
      /\ sub' = [at |-> "gather", batch |-> [sub.batch EXCEPT !.jobs = Append(@, Head(job_q))]]
  BY SubTypes DEF RecvJob
<1>4. sub'.batch = [sub.batch EXCEPT !.jobs = Append(sub.batch.jobs, Head(job_q))]
  BY <1>3
<1>5. Append(sub.batch.jobs, Head(job_q)) \in Seq(Job)
  BY <1>2, SubTypes
<1>6. /\ sub'.batch \in Batch
      /\ sub'.batch.jobs = Append(sub.batch.jobs, Head(job_q))
      /\ sub'.batch.sets = sub.batch.sets /\ sub'.batch.index = sub.batch.index
  BY <1>3, <1>4, <1>5 DEF Batch
<1>7. sub' \in [at : {"gather"}, batch : Batch]
  BY <1>3, <1>4, <1>6
<1> QED BY <1>1, <1>2, <1>6, <1>7 DEF RecvJob

LEMMA TakesSet ==
  ASSUME TypeInv, NEW set \in Set, Holds(set)
  PROVE  /\ sub' = [at |-> sub.at, batch |-> sub'.batch] /\ sub'.batch \in Batch
         /\ sub'.batch.sets = Append(sub.batch.sets, set)
         /\ sub'.batch.jobs = sub.batch.jobs /\ sub'.batch.index = sub.batch.index
<1>1. sub \in [at : {"recv", "gather", "acquire", "send", "exited"}, batch : Batch]
  BY DEF TypeInv
<1>2. sub' = [at |-> sub.at, batch |-> [sub.batch EXCEPT !.sets = Append(sub.batch.sets, set)]]
  BY <1>1 DEF Holds, Batch
<1>3. Append(sub.batch.sets, set) \in Seq(Set)
  BY SubTypes
<1> QED BY <1>2, <1>3, SubTypes DEF Batch

LEMMA SubmitsIt ==
  ASSUME TypeInv, SubmitBatch
  PROVE  /\ sub.at = "acquire" /\ Len(sub.batch.sets) = Len(sub.batch.jobs)
         /\ sub' \in [at : {"send"}, batch : Batch]
         /\ sub'.batch.jobs = sub.batch.jobs /\ sub'.batch.sets = sub.batch.sets
         /\ sub'.batch.index = done + Len(gpu) + 1
         /\ gpu' = Append(gpu, sub.batch)
<1>1. done + Len(gpu) + 1 \in Nat
  BY GpuTypes
<1>2. sub' = [at |-> "send", batch |-> [sub.batch EXCEPT !.index = done + Len(gpu) + 1]]
  BY DEF SubmitBatch
<1> QED BY <1>1, <1>2, SubTypes DEF SubmitBatch, Batch

LEMMA Sends ==
  ASSUME TypeInv, SendBatch
  PROVE  /\ sub.at = "send" /\ sub' = [at |-> "recv", batch |-> Nothing]
         /\ pending' = Append(pending, sub.batch) /\ Len(pending') = Len(pending) + 1
         /\ pending'[Len(pending) + 1] = sub.batch
         /\ \A n \in Pending : pending'[n] = pending[n]
         /\ \A n \in Pending' : n \in Pending \/ n = Len(pending) + 1
<1>1. pending' = Append(pending, sub.batch) /\ sub' = [at |-> "recv", batch |-> Nothing]
      /\ sub.at = "send"
  BY DEF SendBatch
<1>2. pending \in Seq(Batch) /\ sub.batch \in Batch
  BY SubTypes DEF TypeInv
<1> QED BY <1>1, <1>2 DEF Pending

LEMMA Receives ==
  ASSUME TypeInv, RecvBatch
  PROVE  /\ comp.at = "recv" /\ comp'.at = "collect" /\ comp'.batch = pending[1]
         /\ comp' = [at |-> "collect", batch |-> comp'.batch] /\ comp'.batch \in Batch
         /\ pending' = Tail(pending) /\ pending' \in Seq(Batch) /\ 1 \in Pending
         /\ \A n \in Pending' : n + 1 \in Pending /\ n + 1 # 1 /\ pending'[n] = pending[n + 1]
<1>1. pending \in Seq(Batch) /\ pending # <<>>
  BY DEF TypeInv, RecvBatch
<1>2. Head(pending) = pending[1] /\ pending[1] \in Batch
  BY <1>1
<1>3. comp' = [at |-> "collect", batch |-> pending[1]]
  BY <1>2 DEF RecvBatch
<1> QED BY <1>1, <1>2, <1>3 DEF RecvBatch, Pending

LEMMA Collects ==
  ASSUME TypeInv, Served, GpuOwns, Collect
  PROVE  /\ comp.at = "collect" /\ comp.batch.index <= done /\ comp' \in [at : {"release"}, batch : Replied]
         /\ comp'.batch.sets = comp.batch.sets /\ comp'.batch.index = comp.batch.index
         /\ Len(comp'.batch.jobs) = Len(comp.batch.jobs)
         /\ \A k \in 1 .. Len(comp.batch.jobs) :
              /\ comp'.batch.jobs[k].from = comp.batch.jobs[k].from
              /\ comp'.batch.jobs[k].tokens = <<comp.batch.jobs[k]>>
<1> DEFINE b == comp.batch
           replies == [k \in DOMAIN b.jobs |-> [from |-> b.jobs[k].from,
                                                tokens |-> staging[b.sets[k].id]]]
<1>1. comp.at = "collect" /\ b.index <= done /\ b \in Batch /\ b.jobs \in Seq(Job)
      /\ Len(b.jobs) \in Nat /\ DOMAIN b.jobs = 1 .. Len(b.jobs)
  BY CompTypes, GpuTypes DEF Collect, Executed
<1>2. comp' = [at |-> "release", batch |-> [b EXCEPT !.jobs = replies]]
  BY DEF Collect
<1>3. Ready(b) /\ Len(b.jobs) = Len(b.sets)
  BY <1>1, GpuTypes DEF Served, Out, Queued, Batch
<1>4. ASSUME NEW k \in 1 .. Len(b.jobs)
      PROVE  /\ replies[k] \in Reply
             /\ replies[k].from = b.jobs[k].from /\ replies[k].tokens = <<b.jobs[k]>>
  <2>1. b.jobs[k] \in Job
    BY <1>1
  <2>2. staging[b.sets[k].id] = <<b.jobs[k]>>
    BY <1>3 DEF Ready
  <2>3. replies[k] = [from |-> b.jobs[k].from, tokens |-> <<b.jobs[k]>>]
    BY <1>1, <2>2
  <2>4. <<b.jobs[k]>> \in Seq(Job) /\ b.jobs[k].from \in Clients
    BY <2>1 DEF Job
  <2> HIDE DEF replies, b
  <2> QED BY <2>3, <2>4 DEF Reply
<1>5. replies \in [1 .. Len(b.jobs) -> Reply]
  BY <1>1, <1>4
<1>6. replies \in Seq(Reply) /\ Len(replies) = Len(b.jobs)
  BY <1>1, <1>5, SeqDef
<1> HIDE DEF replies
<1>7. comp'.batch = [b EXCEPT !.jobs = replies] /\ comp'.at = "release"
  BY <1>2
<1>8. comp'.batch.jobs = replies /\ comp'.batch.sets = b.sets /\ comp'.batch.index = b.index
      /\ comp' \in [at : {"release"}, batch : Replied]
  BY <1>1, <1>2, <1>6, <1>7 DEF Batch, Replied
<1>9. \A k \in 1 .. Len(b.jobs) : /\ comp'.batch.jobs[k].from = b.jobs[k].from
                                  /\ comp'.batch.jobs[k].tokens = <<b.jobs[k]>>
  BY <1>4, <1>8
<1> QED BY <1>1, <1>6, <1>8, <1>9

LEMMA Gives ==
  ASSUME TypeInv, Release
  PROVE  /\ comp.at = "release" /\ comp.batch.sets # <<>>
         /\ comp' \in [at : {"release"}, batch : Replied]
         /\ comp'.batch.sets = Tail(comp.batch.sets) /\ comp'.batch.jobs = comp.batch.jobs
         /\ comp'.batch.index = comp.batch.index
         /\ Head(comp.batch.sets) \in Set
         /\ pool' = pool \/ pool' = Append(pool, Head(comp.batch.sets))
<1>1. comp.at = "release" /\ comp \in [at : {"release"}, batch : Replied]
      /\ comp.batch \in Replied /\ comp.batch.sets \in Seq(Set) /\ comp.batch.sets # <<>>
  BY CompTypes DEF TypeInv, Release
<1>2. comp' = [at |-> "release", batch |-> [comp.batch EXCEPT !.sets = Tail(comp.batch.sets)]]
  BY <1>1 DEF Release, Replied
<1>3. Tail(comp.batch.sets) \in Seq(Set) /\ Head(comp.batch.sets) \in Set
  BY <1>1
<1>4. pool' = pool \/ pool' = Append(pool, Head(comp.batch.sets))
  BY DEF Release
<1> QED BY <1>1, <1>2, <1>3, <1>4 DEF Replied

LEMMA Answers ==
  ASSUME TypeInv, Answer
  PROVE  /\ comp.at = "release" /\ comp.batch.sets = <<>> /\ comp.batch.jobs # <<>>
         /\ comp.batch.jobs \in Seq(Reply) /\ Head(comp.batch.jobs) \in Reply
         /\ comp' \in [at : {"release"}, batch : Replied]
         /\ comp'.batch.jobs = Tail(comp.batch.jobs) /\ comp'.batch.sets = comp.batch.sets
         /\ comp'.batch.index = comp.batch.index
         /\ answer' = [answer EXCEPT ![Head(comp.batch.jobs).from] = Head(comp.batch.jobs).tokens]
<1>1. comp.at = "release" /\ comp \in [at : {"release"}, batch : Replied] /\ comp.batch.sets = <<>>
      /\ comp.batch \in Replied /\ comp.batch.jobs \in Seq(Reply) /\ comp.batch.jobs # <<>>
  BY CompTypes DEF TypeInv, Answer
<1>2. comp' = [at |-> "release", batch |-> [comp.batch EXCEPT !.jobs = Tail(comp.batch.jobs)]]
  BY <1>1 DEF Answer, Replied
<1>3. Tail(comp.batch.jobs) \in Seq(Reply) /\ Head(comp.batch.jobs) \in Reply
  BY <1>1
<1>4. answer' = [answer EXCEPT ![Head(comp.batch.jobs).from] = Head(comp.batch.jobs).tokens]
  BY DEF Answer
<1> QED BY <1>1, <1>2, <1>3, <1>4 DEF Replied

(* The set acquire takes out of the pool. *)
LEMMA Swaps ==
  ASSUME NEW E, NEW s \in Seq(E), NEW k \in DOMAIN s
  PROVE  /\ SwapRemove(s, k) \in Seq(E) /\ Len(SwapRemove(s, k)) = Len(s) - 1
         /\ \A i \in 1 .. Len(s) - 1 : SwapRemove(s, k)[i] = s[IF i = k THEN Len(s) ELSE i]
<1> DEFINE moved == [s EXCEPT ![k] = s[Len(s)]]
<1>1. Len(s) \in Nat /\ DOMAIN s = 1 .. Len(s) /\ Len(s) >= 1 /\ s[Len(s)] \in E
  BY DEF SwapRemove
<1>2. moved \in Seq(E) /\ Len(moved) = Len(s)
  BY <1>1
<1>3. \A i \in 1 .. Len(s) : moved[i] = IF i = k THEN s[Len(s)] ELSE s[i]
  BY <1>1
<1> HIDE DEF moved
<1>4. SwapRemove(s, k) = SubSeq(moved, 1, Len(s) - 1)
  BY DEF SwapRemove, moved
<1>5. \A i \in 1 .. Len(s) - 1 : moved[i] \in E
  BY <1>1, <1>2
<1>6. SubSeq(moved, 1, Len(s) - 1) = [i \in 1 .. Len(s) - 1 |-> moved[i]]
  BY <1>1, <1>2
<1>7. [i \in 1 .. Len(s) - 1 |-> moved[i]] \in [1 .. Len(s) - 1 -> E]
  BY <1>5
<1>8. SwapRemove(s, k) \in Seq(E) /\ Len(SwapRemove(s, k)) = Len(s) - 1
  BY <1>1, <1>4, <1>6, <1>7, SeqDef
<1>9. ASSUME NEW i \in 1 .. Len(s) - 1 PROVE SwapRemove(s, k)[i] = s[IF i = k THEN Len(s) ELSE i]
  BY <1>1, <1>3, <1>4, <1>6
<1> QED BY <1>8, <1>9

(* What the GPU leaves in the staging buffers: those of the submission it  *)
(* has executed hold its jobs, the others what they held.                  *)
LEMMA Stages ==
  ASSUME TypeInv, GpuOwns, Execute
  PROVE  /\ 1 \in 1 .. Len(gpu) /\ gpu' = Tail(gpu) /\ done' = done + 1
         /\ Len(gpu') = Len(gpu) - 1 /\ \A n \in 1 .. Len(gpu') : gpu'[n] = gpu[n + 1]
         /\ DOMAIN staging' = 1 .. Len(staging)
         /\ \A k \in 1 .. Len(gpu[1].sets) : staging'[gpu[1].sets[k].id] = <<gpu[1].jobs[k]>>
         /\ \A id \in 1 .. Len(staging) : Free("id", id, gpu[1].sets) => staging'[id] = staging[id]
<1> DEFINE b == Head(gpu)
           Used(id) == {k \in DOMAIN b.sets : b.sets[k].id = id}
<1>1. gpu \in Seq(Batch) /\ gpu # <<>> /\ Head(gpu) = gpu[1] /\ 1 \in 1 .. Len(gpu)
      /\ Len(staging) \in Nat /\ gpu' = Tail(gpu) /\ done' = done + 1
  BY GpuTypes DEF TypeInv, Execute
<1>2. b \in Batch /\ b.sets \in Seq(Set) /\ DOMAIN b.sets = 1 .. Len(b.sets)
      /\ Numbered(b.sets) /\ Differ("id", b.sets)
  BY <1>1, GpuTypes DEF GpuOwns
<1>3. staging' = [id \in 1 .. Len(staging) |->
                   IF Used(id) = {} THEN staging[id] ELSE <<b.jobs[CHOOSE k \in Used(id) : TRUE]>>]
  BY <1>1 DEF Execute, Created
<1> HIDE DEF b
<1>4. ASSUME NEW k \in 1 .. Len(b.sets) PROVE staging'[b.sets[k].id] = <<b.jobs[k]>>
  <2>1. b.sets[k].id \in 1 .. Len(staging)
    <3>1. b.sets[k] \in Set /\ b.sets[k].id <= Len(staging)
      BY <1>2 DEF Numbered
    <3> QED BY <1>1, <3>1 DEF Set
  <2>2. Used(b.sets[k].id) = {k}
    BY <1>2 DEF Differ
  <2> QED BY <1>3, <2>1, <2>2
<1>5. ASSUME NEW id \in 1 .. Len(staging), Free("id", id, b.sets) PROVE staging'[id] = staging[id]
  <2>1. Used(id) = {}
    BY <1>2, <1>5 DEF Free, Set
  <2> QED BY <1>3, <2>1
<1>6. Len(gpu') = Len(gpu) - 1 /\ \A n \in 1 .. Len(gpu') : gpu'[n] = gpu[n + 1]
  BY <1>1
<1>7. DOMAIN staging' = 1 .. Len(staging)
  BY <1>3
<1>8. b = gpu[1]
  BY <1>1 DEF b
<1> QED BY <1>1, <1>4, <1>5, <1>6, <1>7, <1>8

LEMMA StagedTypes ==
  ASSUME TypeInv, GpuOwns, Execute
  PROVE  staging' \in Seq(Seq(Job))
<1>1. staging \in Seq(Seq(Job)) /\ gpu[1].sets \in Seq(Set) /\ gpu[1].jobs \in Seq(Job)
      /\ Len(gpu[1].jobs) = Len(gpu[1].sets) /\ Len(staging) \in Nat
  BY Stages, GpuTypes DEF TypeInv, GpuOwns
<1>6. /\ \A k \in 1 .. Len(gpu[1].sets) : staging'[gpu[1].sets[k].id] = <<gpu[1].jobs[k]>>
      /\ \A id \in 1 .. Len(staging) : Free("id", id, gpu[1].sets) => staging'[id] = staging[id]
  BY Stages
<1>2. ASSUME NEW id \in 1 .. Len(staging) PROVE staging'[id] \in Seq(Job)
  <2>1. CASE Free("id", id, gpu[1].sets)
    <3>1. staging[id] \in Seq(Job)
      BY <1>1
    <3> QED BY <1>6, <2>1, <3>1
  <2>2. CASE ~ Free("id", id, gpu[1].sets)
    <3>1. PICK k \in 1 .. Len(gpu[1].sets) : gpu[1].sets[k].id = id
      BY <1>1, <2>2 DEF Free, Set
    <3>2. staging'[id] = <<gpu[1].jobs[k]>>
      BY <1>6, <3>1
    <3>3. gpu[1].jobs[k] \in Job
      BY <1>1
    <3> QED BY <3>2, <3>3
  <2> QED BY <2>1, <2>2
<1>3. staging' = [id \in 1 .. Len(staging) |-> staging'[id]]
  BY DEF Execute, Created
<1>4. staging' \in [1 .. Len(staging) -> Seq(Job)]
  BY <1>2, <1>3
<1>5. \E n \in Nat : staging' \in [1 .. n -> Seq(Job)]
  BY <1>1, <1>4
<1> QED BY <1>5, SeqDef
-----------------------------------------------------------------------------
LEMMA TypeStep ==
  ASSUME PInv, Next
  PROVE  TypeInv'
<1>1. TypeInv /\ Served /\ GpuOwns
  BY DEF PInv
<1>2. /\ job_q \in Seq(Job) /\ pending \in Seq(Batch) /\ pool \in Seq(Set)
      /\ gpu \in Seq(Batch) /\ done \in Nat /\ staging \in Seq(Seq(Job))
      /\ call \in [Clients -> Seq(Job)] /\ answer \in [Clients -> Seq(Job)]
      /\ rounds \in [Clients -> Nat]
  BY <1>1 DEF TypeInv
<1>3. [at |-> "recv", batch |-> Nothing] \in [at : {"recv"}, batch : Batch] /\ Nothing \in Batch
  BY DEF Nothing, Batch
<1> USE DEF clientVars, gpuVars
<1>4. ASSUME NEW c \in Clients, NEW s \in Sizes, Submit(c, s) PROVE TypeInv'
  <2>1. PICK job \in Job : call' = [call EXCEPT ![c] = <<job>>] /\ job_q' = Append(job_q, job)
    <3>1. [from |-> c, round |-> rounds[c] + 1, size |-> s] \in Job
      BY <1>2, BatchAssumption DEF Job
    <3> QED BY <1>4, <3>1 DEF Submit
  <2>2. <<job>> \in Seq(Job) /\ rounds' \in [Clients -> Nat]
    BY <1>2, <1>4 DEF Submit
  <2>3. call' \in [Clients -> Seq(Job)] /\ job_q' \in Seq(Job)
    BY <1>2, <2>1, <2>2
  <2> QED BY <1>1, <1>4, <2>2, <2>3 DEF Submit, TypeInv
<1>5. ASSUME NEW c \in Clients, SubmitReturns(c) PROVE TypeInv'
  BY <1>1, <1>5 DEF SubmitReturns, TypeInv
<1>6. ASSUME NEW c \in Clients, SubmitPanics(c) PROVE TypeInv'
  BY <1>1, <1>6 DEF SubmitPanics, TypeInv
<1>22. CASE Drop
  BY <1>1, <1>22 DEF Drop, TypeInv
<1>7. CASE RecvJob
  BY <1>1, <1>2, <1>7, TakesJob DEF RecvJob, TypeInv
<1>8. CASE GatherEnds \/ SubmitterExits
  <2>1. sub' = [at |-> sub'.at, batch |-> sub.batch] /\ sub'.at \in {"acquire", "exited"}
    BY <1>1, <1>8 DEF GatherEnds, SubmitterExits, TypeInv
  <2>2. sub' \in [at : {"recv", "gather", "acquire", "send", "exited"}, batch : Batch]
    BY <1>1, <2>1, SubTypes
  <2> QED BY <1>1, <1>8, <2>2 DEF GatherEnds, SubmitterExits, TypeInv
<1>9. CASE AcquirePooled
  <2>1. PICK k \in DOMAIN pool : Holds(pool[k]) /\ pool' = SwapRemove(pool, k)
    BY <1>9 DEF AcquirePooled, PoolWithout
  <2>2. pool[k] \in Set /\ pool' \in Seq(Set)
    BY <1>2, <2>1, Swaps
  <2>3. sub' \in [at : {"acquire"}, batch : Batch]
    BY <1>1, <1>9, <2>1, <2>2, TakesSet DEF AcquirePooled, Acquiring
  <2> QED BY <1>1, <1>9, <2>2, <2>3 DEF AcquirePooled, TypeInv
<1>10. CASE AcquireNew
  <2>1. PICK set \in Set : Holds(set)
    <3>1. sub.batch.jobs[Len(sub.batch.sets) + 1] \in Job
      BY <1>1, <1>10, SubTypes DEF AcquireNew, Acquiring
    <3>2. [id |-> Created + 1, capacity |-> NextSize] \in Set
      BY <1>1, <3>1, GpuTypes DEF Created, NextSize, Set, Job
    <3> QED BY <1>10, <3>2 DEF AcquireNew
  <2>2. sub' \in [at : {"acquire"}, batch : Batch]
    BY <1>1, <1>10, <2>1, TakesSet DEF AcquireNew, Acquiring
  <2>3. staging' \in Seq(Seq(Job))
    BY <1>2, <1>10 DEF AcquireNew
  <2> QED BY <1>1, <1>10, <2>2, <2>3 DEF AcquireNew, TypeInv
<1>11. CASE SubmitBatch
  <2>1. gpu' \in Seq(Batch)
    <3>1. gpu' = Append(gpu, sub.batch) /\ sub.batch \in Batch
      BY <1>1, <1>11, SubmitsIt, SubTypes
    <3> QED BY <1>2, <3>1
  <2> QED BY <1>1, <1>11, <2>1, SubmitsIt DEF SubmitBatch, TypeInv
<1>12. CASE SendBatch
  <2>1. pending' \in Seq(Batch)
    <3>1. pending' = Append(pending, sub.batch) /\ sub.batch \in Batch
      BY <1>1, <1>12, Sends, SubTypes
    <3> QED BY <1>2, <3>1
  <2> QED BY <1>1, <1>3, <1>12, <2>1, Sends DEF SendBatch, TypeInv
<1>13. CASE SendFails
  <2>1. sub' \in [at : {"exited"}, batch : Batch] /\ job_q' \in Seq(Job)
    BY <1>3, <1>13 DEF SendFails
  <2> QED BY <1>1, <1>13, <2>1 DEF SendFails, TypeInv
<1>14. CASE Execute
  <2>1. gpu # <<>> /\ Head(gpu) \in Batch /\ gpu' = Tail(gpu) /\ gpu' \in Seq(Batch)
        /\ done' = done + 1
    BY <1>2, <1>14 DEF Execute
  <2>2. staging' \in Seq(Seq(Job))
    BY <1>1, <1>14, StagedTypes
  <2>3. done' \in Nat
    BY <1>2, <2>1
  <2>4. UNCHANGED <<call, rounds, answer, job_q, sub, pending, comp, pool>>
    BY <1>14 DEF Execute
  <2> QED BY <1>1, <2>1, <2>2, <2>3, <2>4 DEF TypeInv
<1>15. CASE RecvBatch
  <2>1. comp' \in [at : {"collect"}, batch : Batch] /\ pending' \in Seq(Batch)
    BY <1>1, <1>15, Receives
  <2> QED BY <1>1, <1>15, <2>1 DEF RecvBatch, TypeInv
<1>16. CASE Collect
  BY <1>1, <1>16, Collects DEF Collect, TypeInv
<1>17. CASE CompleterPanics
  <2>1. comp' \in [at : {"panicked"}, batch : Batch] /\ pending' \in Seq(Batch)
    BY <1>3, <1>17 DEF CompleterPanics
  <2> QED BY <1>1, <1>17, <2>1 DEF CompleterPanics, TypeInv
<1>18. CASE Release
  <2>1. pool' \in Seq(Set)
    <3>1. Head(comp.batch.sets) \in Set /\ (pool' = pool \/ pool' = Append(pool, Head(comp.batch.sets)))
      BY <1>1, <1>18, Gives
    <3>2. CASE pool' = pool
      BY <1>2, <3>2
    <3>3. CASE pool' = Append(pool, Head(comp.batch.sets))
      BY <1>2, <3>1, <3>3
    <3> QED BY <3>1, <3>2, <3>3
  <2> QED BY <1>1, <1>18, <2>1, Gives DEF Release, TypeInv
<1>19. CASE Answer
  <2>1. answer' \in [Clients -> Seq(Job)]
    BY <1>1, <1>2, <1>19, Answers DEF Reply
  <2> QED BY <1>1, <1>19, <2>1, Answers DEF Answer, TypeInv
<1>20. CASE AnswersEnd
  BY <1>1, <1>3, <1>20 DEF AnswersEnd, TypeInv
<1>21. CASE CompleterExits
  <2>1. comp' \in [at : {"exited"}, batch : Batch]
    BY <1>1, <1>21 DEF CompleterExits, TypeInv
  <2> QED BY <1>1, <1>21, <2>1 DEF CompleterExits, TypeInv
<1> QED
  BY <1>4, <1>5, <1>6, <1>7, <1>8, <1>9, <1>10, <1>11, <1>12, <1>13, <1>14, <1>15, <1>16, <1>17,
     <1>18, <1>19, <1>20, <1>21, <1>22 DEF Next, ClientReturns, Submitter, Completer
-----------------------------------------------------------------------------
(* Apart and Differ while an element joins a sequence or leaves it.        *)
LEMMA Joins ==
  ASSUME NEW f, NEW E, NEW s \in Seq(E), NEW x \in E
  PROVE  /\ \A t : Apart(f, Append(s, x), t) <=> Apart(f, s, t) /\ Free(f, x[f], t)
         /\ \A t : Apart(f, t, Append(s, x)) <=> Apart(f, t, s) /\ Free(f, x[f], t)
         /\ Differ(f, Append(s, x)) <=> Differ(f, s) /\ Free(f, x[f], s)
<1>1. /\ Len(Append(s, x)) = Len(s) + 1 /\ Len(s) \in Nat
      /\ Append(s, x)[Len(s) + 1] = x /\ \A i \in 1 .. Len(s) : Append(s, x)[i] = s[i]
  OBVIOUS
<1>2. \A i \in 1 .. Len(Append(s, x)) : i = Len(s) + 1 \/ i \in 1 .. Len(s)
  BY <1>1
<1>3. 1 .. Len(s) \subseteq 1 .. Len(Append(s, x)) /\ Len(s) + 1 \in 1 .. Len(Append(s, x))
      /\ Len(s) + 1 \notin 1 .. Len(s)
  BY <1>1
<1>4. \A t : Apart(f, Append(s, x), t) <=> Apart(f, s, t) /\ Free(f, x[f], t)
  BY <1>1, <1>2, <1>3 DEF Apart
<1>5. \A t : Apart(f, t, Append(s, x)) <=> Apart(f, t, s) /\ Free(f, x[f], t)
  <2> TAKE t
  <2>1. \A v : Free(f, v, Append(s, x)) <=> Free(f, v, s) /\ x[f] # v
    BY <1>1, <1>2, <1>3 DEF Free
  <2>2. Free(f, x[f], t) <=> \A i \in 1 .. Len(t) : x[f] # t[i][f]
    BY DEF Free
  <2> QED BY <2>1, <2>2 DEF Apart
<1>6. Differ(f, Append(s, x)) <=> Differ(f, s) /\ Free(f, x[f], s)
  BY <1>1, <1>2, <1>3 DEF Differ, Free
<1> QED BY <1>4, <1>5, <1>6

LEMMA Leaves ==
  ASSUME NEW f, NEW E, NEW s \in Seq(E), s # <<>>
  PROVE  /\ \A t : Apart(f, s, t) => Apart(f, Tail(s), t) /\ Free(f, Head(s)[f], t)
         /\ \A t : Apart(f, t, s) => Apart(f, t, Tail(s)) /\ Free(f, Head(s)[f], t)
         /\ Differ(f, s) => Differ(f, Tail(s)) /\ Free(f, Head(s)[f], Tail(s))
<1>1. /\ Len(Tail(s)) \in Nat /\ Head(s) = s[1] /\ 1 \in 1 .. Len(s)
      /\ \A i \in 1 .. Len(Tail(s)) : Tail(s)[i] = s[i + 1] /\ i + 1 \in 1 .. Len(s) /\ i + 1 # 1
  OBVIOUS
<1>2. \A t : Apart(f, s, t) => Apart(f, Tail(s), t) /\ Free(f, Head(s)[f], t)
  BY <1>1 DEF Apart
<1>3. \A t : Apart(f, t, s) => Apart(f, t, Tail(s)) /\ Free(f, Head(s)[f], t)
  BY <1>1 DEF Apart, Free
<1>4. Differ(f, s) => Differ(f, Tail(s)) /\ Free(f, Head(s)[f], Tail(s))
  BY <1>1 DEF Differ, Free
<1> QED BY <1>2, <1>3, <1>4

LEMMA Swapped ==
  ASSUME NEW f, NEW E, NEW s \in Seq(E), NEW k \in DOMAIN s
  PROVE  /\ \A t : Apart(f, s, t) => Apart(f, SwapRemove(s, k), t) /\ Free(f, s[k][f], t)
         /\ Differ(f, s) => Differ(f, SwapRemove(s, k)) /\ Free(f, s[k][f], SwapRemove(s, k))
<1> DEFINE rest == SwapRemove(s, k)
           At(i) == IF i = k THEN Len(s) ELSE i
<1>1. Len(s) \in Nat /\ k \in 1 .. Len(s) /\ DOMAIN s = 1 .. Len(s)
  OBVIOUS
<1>2. Len(rest) = Len(s) - 1 /\ \A i \in 1 .. Len(s) - 1 : rest[i] = s[At(i)]
  BY Swaps
<1>3. \A i \in 1 .. Len(rest) : /\ rest[i] = s[At(i)] /\ At(i) \in 1 .. Len(s) /\ At(i) # k
                               /\ \A j \in 1 .. Len(rest) : At(i) = At(j) => i = j
  BY <1>1, <1>2
<1> HIDE DEF rest, At
<1>4. \A t : Apart(f, s, t) => Apart(f, rest, t) /\ Free(f, s[k][f], t)
  BY <1>1, <1>3 DEF Apart
<1>5. Differ(f, s) => Differ(f, rest) /\ Free(f, s[k][f], rest)
  BY <1>1, <1>3 DEF Differ, Free
<1> QED BY <1>4, <1>5 DEF rest

LEMMA Mirrored ==
  ASSUME NEW f, NEW s, NEW t, Apart(f, s, t)
  PROVE  Apart(f, t, s)
BY DEF Apart, Free

LEMMA NothingApart ==
  ASSUME NEW f
  PROVE  /\ \A t : Apart(f, <<>>, t) /\ Apart(f, t, <<>>)
         /\ Differ(f, <<>>) /\ Nothing.jobs = <<>> /\ Nothing.sets = <<>> /\ Nothing.index = 0
BY DEF Apart, Free, Differ, Nothing

(* Apart and Differ see the field only. *)
LEMMA SameField ==
  ASSUME NEW f, NEW s, NEW r, Len(r) = Len(s), \A k \in 1 .. Len(s) : r[k][f] = s[k][f]
  PROVE  /\ \A t : Apart(f, s, t) => Apart(f, r, t)
         /\ \A t : Apart(f, t, s) => Apart(f, t, r)
         /\ Differ(f, s) => Differ(f, r)
BY DEF Apart, Free, Differ
-----------------------------------------------------------------------------
LEMMA SetsStep ==
  ASSUME PInv, Next
  PROVE  SetsApart'
<1>1. TypeInv /\ Empty /\ SetsApart /\ Served /\ GpuOwns
  BY DEF PInv
<1>2. pool \in Seq(Set) /\ sub.batch.sets \in Seq(Set) /\ comp.batch.sets \in Seq(Set)
  BY <1>1, SubTypes, CompTypes DEF TypeInv
<1> USE DEF clientVars, gpuVars
<1>3. ASSUME UNCHANGED <<pool, pending>>,
             sub'.batch.sets \in {sub.batch.sets, <<>>}, comp'.batch.sets \in {comp.batch.sets, <<>>}
      PROVE  SetsApart'
  BY <1>1, <1>3, NothingApart DEF SetsApart, Pending
<1>4. CASE \E c \in Clients : ClientReturns(c) \/ \E s \in Sizes : Submit(c, s)
  BY <1>3, <1>4 DEF ClientReturns, SubmitReturns, SubmitPanics, Submit
<1>5. CASE RecvJob
  BY <1>1, <1>3, <1>5, TakesJob DEF RecvJob
<1>6. CASE SubmitBatch
  BY <1>1, <1>3, <1>6, SubmitsIt DEF SubmitBatch
<1>7. CASE Drop \/ Execute
  BY <1>3, <1>7 DEF Drop, Execute
<1>8. CASE GatherEnds \/ SubmitterExits \/ CompleterExits
  <2>1. sub'.batch = sub.batch /\ comp'.batch = comp.batch
    BY <1>1, <1>8 DEF GatherEnds, SubmitterExits, CompleterExits, TypeInv
  <2> QED BY <1>3, <1>8, <2>1 DEF GatherEnds, SubmitterExits, CompleterExits
<1>9. CASE SendFails \/ AnswersEnd
  BY <1>3, <1>9, NothingApart DEF SendFails, AnswersEnd
<1>10. CASE Collect
  BY <1>1, <1>3, <1>10, Collects DEF Collect
<1>11. CASE Answer
  BY <1>1, <1>3, <1>11, Answers DEF Answer
<1>12. CASE CompleterPanics
  <2>1. comp'.batch.sets = <<>> /\ pending' = <<>> /\ UNCHANGED <<pool, sub>>
    BY <1>12, NothingApart DEF CompleterPanics
  <2>2. Pending' = {}
    BY <2>1 DEF Pending
  <2>3. Differ("id", comp'.batch.sets) /\ Apart("id", pool, comp'.batch.sets)
        /\ Apart("id", sub.batch.sets, comp'.batch.sets)
    BY <2>1, NothingApart
  <2> QED BY <1>1, <2>1, <2>2, <2>3 DEF SetsApart
<1>13. CASE AcquirePooled
  <2>1. PICK k \in DOMAIN pool : Holds(pool[k]) /\ pool' = SwapRemove(pool, k)
    BY <1>13 DEF AcquirePooled, PoolWithout
  <2>2. pool[k] \in Set
    BY <1>2
  <2>3. sub'.batch.sets = Append(sub.batch.sets, pool[k]) /\ UNCHANGED <<pending, comp>>
    BY <1>1, <1>13, <2>1, <2>2, TakesSet DEF AcquirePooled
  <2>4. /\ Differ("id", pool') /\ Apart("id", pool', comp.batch.sets)
        /\ Free("id", pool[k].id, pool') /\ Apart("id", pool', sub.batch.sets)
        /\ Free("id", pool[k].id, sub.batch.sets) /\ Free("id", pool[k].id, comp.batch.sets)
        /\ \A n \in Pending : /\ Apart("id", pool', pending[n].sets)
                              /\ Free("id", pool[k].id, pending[n].sets)
    <3>1. pool[k].id = pool[k]["id"]
      BY <2>2 DEF Set
    <3> QED BY <1>1, <1>2, <2>1, <3>1, Swapped DEF SetsApart
  <2>5. pool[k].id = pool[k]["id"]
    BY <2>2 DEF Set
  <2>6. /\ Differ("id", sub'.batch.sets) /\ Apart("id", pool', sub'.batch.sets)
        /\ Apart("id", sub'.batch.sets, comp.batch.sets)
        /\ \A n \in Pending : Apart("id", sub'.batch.sets, pending[n].sets)
    BY <1>1, <1>2, <2>2, <2>3, <2>4, <2>5, Joins DEF SetsApart
  <2> QED BY <1>1, <2>3, <2>4, <2>6 DEF SetsApart, Pending
<1>14. CASE AcquireNew
  <2> DEFINE set == [id |-> Created + 1, capacity |-> NextSize]
  <2>1. Holds(set) /\ UNCHANGED <<pending, comp, pool>>
    BY <1>14 DEF AcquireNew
  <2>2. set \in Set
    <3>1. sub.batch.jobs[Len(sub.batch.sets) + 1] \in Job
      BY <1>1, <1>14, SubTypes DEF AcquireNew, Acquiring
    <3> QED BY <1>1, <3>1, GpuTypes DEF Created, NextSize, Set, Job
  <2>3. set["id"] = Len(staging) + 1
    BY DEF Created
  <2> HIDE DEF set
  <2>4. sub'.batch.sets = Append(sub.batch.sets, set)
    BY <1>1, <2>1, <2>2, TakesSet
  <2>5. ASSUME NEW s \in Seq(Set), Numbered(s) PROVE Free("id", set["id"], s)
    <3>1. \A i \in 1 .. Len(s) : s[i] \in Set /\ s[i].id <= Len(staging)
      BY <2>5 DEF Numbered
    <3> QED BY <1>1, <2>3, <3>1, GpuTypes DEF Free, Set
  <2>6. /\ Free("id", set["id"], sub.batch.sets) /\ Free("id", set["id"], comp.batch.sets)
        /\ Free("id", set["id"], pool) /\ \A n \in Pending : Free("id", set["id"], pending[n].sets)
    BY <1>1, <1>2, <2>5, PendingTypes DEF GpuOwns, Flying
  <2> QED BY <1>1, <1>2, <2>1, <2>2, <2>4, <2>6, Joins DEF SetsApart, Pending
<1>15. CASE SendBatch
  <2>1. sub'.batch.sets = <<>> /\ UNCHANGED <<comp, pool>>
    BY <1>15, NothingApart DEF SendBatch
  <2>2. \A m, n \in Pending' : m # n => Apart("id", pending'[m].sets, pending'[n].sets)
    BY <1>1, <1>15, Sends, Mirrored DEF SetsApart
  <2>3. \A n \in Pending' : Differ("id", pending'[n].sets) /\ Apart("id", pool, pending'[n].sets)
                           /\ Apart("id", comp.batch.sets, pending'[n].sets)
    BY <1>1, <1>15, Sends, Mirrored DEF SetsApart
  <2> QED BY <1>1, <2>1, <2>2, <2>3, NothingApart DEF SetsApart
<1>16. CASE RecvBatch
  <2>1. comp'.batch.sets = pending[1].sets /\ UNCHANGED <<sub, pool>> /\ 1 \in Pending
        /\ \A n \in Pending' : n + 1 \in Pending /\ n + 1 # 1 /\ pending'[n] = pending[n + 1]
    BY <1>1, <1>16, Receives DEF RecvBatch
  <2>2. \A m, n \in Pending' : m # n => Apart("id", pending'[m].sets, pending'[n].sets)
    <3>1. \A m, n \in Pending' : m + 1 = n + 1 => m = n
      BY DEF Pending
    <3> QED BY <1>1, <2>1, <3>1 DEF SetsApart
  <2> QED BY <1>1, <2>1, <2>2 DEF SetsApart
<1>17. CASE Release
  <2> DEFINE set == Head(comp.batch.sets)
  <2>1. /\ comp.batch.sets # <<>> /\ comp'.batch.sets = Tail(comp.batch.sets) /\ set \in Set
        /\ pool' = pool \/ pool' = Append(pool, set)
        /\ UNCHANGED <<pending, sub>>
    BY <1>1, <1>17, Gives DEF Release
  <2>2. /\ Differ("id", comp'.batch.sets) /\ Free("id", set["id"], comp'.batch.sets)
        /\ Apart("id", pool, comp'.batch.sets) /\ Free("id", set["id"], pool)
        /\ Apart("id", sub.batch.sets, comp'.batch.sets) /\ Free("id", set["id"], sub.batch.sets)
        /\ \A n \in Pending : /\ Apart("id", comp'.batch.sets, pending[n].sets)
                              /\ Free("id", set["id"], pending[n].sets)
    BY <1>1, <1>2, <2>1, Leaves DEF SetsApart
  <2> HIDE DEF set
  <2>3. /\ Differ("id", pool') /\ Apart("id", pool', comp'.batch.sets)
        /\ Apart("id", pool', sub.batch.sets)
        /\ \A n \in Pending : Apart("id", pool', pending[n].sets)
    <3>1. CASE pool' = pool
      BY <1>1, <2>2, <3>1 DEF SetsApart
    <3>2. CASE pool' = Append(pool, set)
      BY <1>1, <1>2, <2>1, <2>2, <3>2, Joins DEF SetsApart
    <3> QED BY <2>1, <3>1, <3>2
  <2> QED BY <1>1, <2>1, <2>2, <2>3 DEF SetsApart, Pending
<1> QED
  BY <1>4, <1>5, <1>6, <1>7, <1>8, <1>9, <1>10, <1>11, <1>12, <1>13, <1>14, <1>15, <1>16, <1>17
  DEF Next, Submitter, Completer
-----------------------------------------------------------------------------
(* A client that begins or ends a call is not the one of a job that waits. *)
LEMMA BeginsCall ==
  ASSUME PInv, NEW c \in Clients, NEW s \in Sizes, Submit(c, s)
  PROVE  \E job \in Job :
           /\ job.from = c /\ call' = [call EXCEPT ![c] = <<job>>] /\ job_q' = Append(job_q, job)
           /\ answer[c] = <<>> /\ call[c] = <<>>
           /\ Free("from", c, job_q) /\ Free("from", c, sub.batch.jobs)
           /\ Free("from", c, comp.batch.jobs)
           /\ \A n \in Pending : Free("from", c, pending[n].jobs)
<1> DEFINE job == [from |-> c, round |-> rounds[c] + 1, size |-> s]
<1>1. TypeInv /\ Asked /\ OwnTokens /\ Empty
  BY DEF PInv
<1>2. job \in Job
  BY <1>1, BatchAssumption DEF Job, TypeInv
<1>3. call[c] = <<>> /\ call' = [call EXCEPT ![c] = <<job>>] /\ job_q' = Append(job_q, job)
  BY DEF Submit
<1>4. answer[c] = <<>>
  BY <1>1, <1>3 DEF OwnTokens
<1>5. ASSUME NEW q \in Seq(Job), AllWait(q) PROVE Free("from", c, q)
  <2>1. \A i \in 1 .. Len(q) : q[i] \in Job /\ call[q[i].from] = <<q[i]>>
    BY <1>5 DEF AllWait, Waits
  <2>2. \A i \in 1 .. Len(q) : <<q[i]>> # <<>>
    OBVIOUS
  <2>3. \A i \in 1 .. Len(q) : q[i].from # c
    BY <1>3, <2>1, <2>2
  <2> QED BY <2>1, <2>3 DEF Free, Job
<1>6. Free("from", c, comp.batch.jobs)
  <2>1. CASE comp.at = "collect"
    BY <1>1, <1>5, <2>1, CompTypes DEF Asked
  <2>2. CASE comp.at = "release"
    <3>1. \A i \in 1 .. Len(comp.batch.jobs) : /\ comp.batch.jobs[i] \in Reply
                                              /\ call[comp.batch.jobs[i].from] # <<>>
      BY <1>1, <2>2, CompTypes DEF Asked, Replies
    <3> QED BY <1>3, <3>1 DEF Free, Reply
  <2>3. CASE comp.at \notin {"collect", "release"}
    BY <1>1, <2>3 DEF Empty, TypeInv, Nothing, Free
  <2> QED BY <2>1, <2>2, <2>3
<1>7. /\ Free("from", c, job_q) /\ Free("from", c, sub.batch.jobs)
      /\ \A n \in Pending : Free("from", c, pending[n].jobs)
  BY <1>1, <1>5, SubTypes, PendingTypes DEF Asked, TypeInv
<1> QED BY <1>2, <1>3, <1>4, <1>6, <1>7

LEMMA JobsStep ==
  ASSUME PInv, Next
  PROVE  JobsApart'
<1>1. TypeInv /\ Empty /\ JobsApart /\ Served /\ GpuOwns
  BY DEF PInv
<1>2. job_q \in Seq(Job) /\ sub.batch.jobs \in Seq(Job)
  BY <1>1, SubTypes DEF TypeInv
<1> USE DEF clientVars, gpuVars
<1>3. ASSUME UNCHANGED pending, job_q' \in {job_q, <<>>},
             sub'.batch.jobs \in {sub.batch.jobs, <<>>}, comp'.batch.jobs \in {comp.batch.jobs, <<>>}
      PROVE  JobsApart'
  BY <1>1, <1>3, NothingApart DEF JobsApart, Pending
<1>4. CASE \E c \in Clients : ClientReturns(c)
  BY <1>3, <1>4 DEF ClientReturns, SubmitReturns, SubmitPanics
<1>5. ASSUME NEW c \in Clients, NEW s \in Sizes, Submit(c, s) PROVE JobsApart'
  <2>1. PICK job \in Job :
          /\ job.from = c /\ job_q' = Append(job_q, job)
          /\ Free("from", c, job_q) /\ Free("from", c, sub.batch.jobs)
          /\ Free("from", c, comp.batch.jobs)
          /\ \A n \in Pending : Free("from", c, pending[n].jobs)
    BY <1>5, BeginsCall
  <2>2. job["from"] = c /\ UNCHANGED <<sub, comp, pending>>
    BY <1>5, <2>1 DEF Submit, Job
  <2> QED BY <1>1, <1>2, <2>1, <2>2, Joins DEF JobsApart, Pending
<1>6. CASE RecvJob
  <2> DEFINE job == Head(job_q)
  <2>1. /\ job_q # <<>> /\ job \in Job /\ job_q' = Tail(job_q)
        /\ sub'.batch.jobs = Append(sub.batch.jobs, job) /\ UNCHANGED <<comp, pending>>
    BY <1>1, <1>6, TakesJob DEF RecvJob
  <2>2. /\ Differ("from", job_q') /\ Free("from", job["from"], job_q')
        /\ Apart("from", job_q', sub.batch.jobs) /\ Free("from", job["from"], sub.batch.jobs)
        /\ Apart("from", job_q', comp.batch.jobs) /\ Free("from", job["from"], comp.batch.jobs)
        /\ \A n \in Pending : /\ Apart("from", job_q', pending[n].jobs)
                              /\ Free("from", job["from"], pending[n].jobs)
    BY <1>1, <1>2, <2>1, Leaves DEF JobsApart
  <2> HIDE DEF job
  <2>3. /\ Differ("from", sub'.batch.jobs) /\ Apart("from", job_q', sub'.batch.jobs)
        /\ Apart("from", sub'.batch.jobs, comp.batch.jobs)
        /\ \A n \in Pending : Apart("from", sub'.batch.jobs, pending[n].jobs)
    BY <1>1, <1>2, <2>1, <2>2, Joins DEF JobsApart
  <2> QED BY <1>1, <2>1, <2>2, <2>3 DEF JobsApart, Pending
<1>7. CASE AcquirePooled \/ AcquireNew
  <2>1. PICK set : Holds(set)
    BY <1>7 DEF AcquirePooled, AcquireNew
  <2>2. sub'.batch.jobs = sub.batch.jobs
    BY <1>1, <2>1 DEF Holds, TypeInv, Batch
  <2> QED BY <1>3, <1>7, <2>2 DEF AcquirePooled, AcquireNew
<1>8. CASE SubmitBatch
  BY <1>1, <1>3, <1>8, SubmitsIt DEF SubmitBatch
<1>9. CASE Drop \/ Execute
  BY <1>3, <1>9 DEF Drop, Execute
<1>10. CASE GatherEnds \/ SubmitterExits \/ CompleterExits
  <2>1. sub'.batch = sub.batch /\ comp'.batch = comp.batch
    BY <1>1, <1>10 DEF GatherEnds, SubmitterExits, CompleterExits, TypeInv
  <2> QED BY <1>3, <1>10, <2>1 DEF GatherEnds, SubmitterExits, CompleterExits
<1>11. CASE SendFails \/ AnswersEnd
  BY <1>3, <1>11, NothingApart DEF SendFails, AnswersEnd
<1>12. CASE Release
  BY <1>1, <1>3, <1>12, Gives DEF Release
<1>13. CASE CompleterPanics
  <2>1. comp'.batch.jobs = <<>> /\ pending' = <<>> /\ UNCHANGED <<job_q, sub>>
    BY <1>13, NothingApart DEF CompleterPanics
  <2>2. Pending' = {}
    BY <2>1 DEF Pending
  <2>3. Differ("from", comp'.batch.jobs) /\ Apart("from", job_q, comp'.batch.jobs)
        /\ Apart("from", sub.batch.jobs, comp'.batch.jobs)
    BY <2>1, NothingApart
  <2> QED BY <1>1, <2>1, <2>2, <2>3 DEF JobsApart
<1>14. CASE SendBatch
  <2>1. sub'.batch.jobs = <<>> /\ UNCHANGED <<comp, job_q>>
    BY <1>14, NothingApart DEF SendBatch
  <2>2. \A m, n \in Pending' : m # n => Apart("from", pending'[m].jobs, pending'[n].jobs)
    BY <1>1, <1>14, Sends, Mirrored DEF JobsApart
  <2>3. \A n \in Pending' : Differ("from", pending'[n].jobs) /\ Apart("from", job_q, pending'[n].jobs)
                           /\ Apart("from", comp.batch.jobs, pending'[n].jobs)
    BY <1>1, <1>14, Sends, Mirrored DEF JobsApart
  <2> QED BY <1>1, <2>1, <2>2, <2>3, NothingApart DEF JobsApart
<1>15. CASE RecvBatch
  <2>1. comp'.batch.jobs = pending[1].jobs /\ UNCHANGED <<sub, job_q>> /\ 1 \in Pending
        /\ \A n \in Pending' : n + 1 \in Pending /\ n + 1 # 1 /\ pending'[n] = pending[n + 1]
    BY <1>1, <1>15, Receives DEF RecvBatch
  <2>2. \A m, n \in Pending' : m # n => Apart("from", pending'[m].jobs, pending'[n].jobs)
    <3>1. \A m, n \in Pending' : m + 1 = n + 1 => m = n
      BY DEF Pending
    <3> QED BY <1>1, <2>1, <3>1 DEF JobsApart
  <2> QED BY <1>1, <2>1, <2>2 DEF JobsApart
<1>16. CASE Collect
  <2>1. /\ UNCHANGED <<job_q, sub, pending>> /\ Len(comp'.batch.jobs) = Len(comp.batch.jobs)
        /\ \A k \in 1 .. Len(comp.batch.jobs) : comp'.batch.jobs[k].from = comp.batch.jobs[k].from
    BY <1>1, <1>16, Collects DEF Collect
  <2>2. \A k \in 1 .. Len(comp.batch.jobs) : comp'.batch.jobs[k]["from"] = comp.batch.jobs[k]["from"]
    <3>1. \A k \in 1 .. Len(comp.batch.jobs) : comp'.batch.jobs[k] \in Reply /\ comp.batch.jobs[k] \in Job
      <4>1. comp.batch.jobs \in Seq(Job)
        BY <1>1, <1>16, CompTypes DEF Collect
      <4>2. comp'.batch.jobs \in Seq(Reply)
        BY <1>1, <1>16, Collects DEF Replied
      <4> QED BY <2>1, <4>1, <4>2
    <3> QED BY <2>1, <3>1 DEF Reply, Job
  <2>3. /\ Differ("from", comp'.batch.jobs) /\ Apart("from", job_q, comp'.batch.jobs)
        /\ Apart("from", sub.batch.jobs, comp'.batch.jobs)
        /\ \A n \in Pending : Apart("from", comp'.batch.jobs, pending[n].jobs)
    <3>1. /\ \A t : Apart("from", comp.batch.jobs, t) => Apart("from", comp'.batch.jobs, t)
          /\ \A t : Apart("from", t, comp.batch.jobs) => Apart("from", t, comp'.batch.jobs)
          /\ Differ("from", comp.batch.jobs) => Differ("from", comp'.batch.jobs)
      BY <2>1, <2>2, SameField
    <3> QED BY <1>1, <3>1 DEF JobsApart
  <2> QED BY <1>1, <2>1, <2>3 DEF JobsApart, Pending
<1>17. CASE Answer
  <2>1. /\ comp.batch.jobs \in Seq(Reply) /\ comp.batch.jobs # <<>>
        /\ comp'.batch.jobs = Tail(comp.batch.jobs) /\ UNCHANGED <<job_q, sub, pending>>
    BY <1>1, <1>17, Answers DEF Answer
  <2> QED BY <1>1, <2>1, Leaves DEF JobsApart, Pending
<1> QED
  BY <1>4, <1>5, <1>6, <1>7, <1>8, <1>9, <1>10, <1>11, <1>12, <1>13, <1>14, <1>15, <1>16, <1>17
  DEF Next, Submitter, Completer
-----------------------------------------------------------------------------
LEMMA EmptyStep ==
  ASSUME PInv, Next
  PROVE  Empty'
<1>1. TypeInv /\ Empty /\ Served /\ GpuOwns
  BY DEF PInv
<1>2. sub \in [at : {"recv", "gather", "acquire", "send", "exited"}, batch : Batch]
      /\ comp.batch.index \in Nat /\ done \in Nat
  BY <1>1, CompTypes, GpuTypes DEF TypeInv
<1> USE DEF clientVars, gpuVars
<1>3. ASSUME UNCHANGED <<sub, comp, done>> PROVE Empty'
  BY <1>1, <1>3 DEF Empty
<1>4. CASE \E c \in Clients : ClientReturns(c) \/ \E s \in Sizes : Submit(c, s)
  BY <1>3, <1>4 DEF ClientReturns, SubmitReturns, SubmitPanics, Submit
<1>5. CASE Drop
  BY <1>3, <1>5 DEF Drop
<1>6. CASE RecvJob
  <2>1. sub'.at = "gather" /\ sub'.batch.index = 0 /\ UNCHANGED <<comp, done>>
    BY <1>1, <1>2, <1>6, TakesJob DEF Empty, RecvJob
  <2> QED BY <1>1, <2>1 DEF Empty
<1>7. CASE GatherEnds \/ SubmitterExits
  <2>1. sub'.batch = sub.batch /\ (sub'.at = "acquire" \/ (sub'.at = "exited" /\ sub.at = "recv"))
        /\ sub.at # "send" /\ UNCHANGED <<comp, done>>
    BY <1>2, <1>7 DEF GatherEnds, SubmitterExits
  <2> QED BY <1>1, <2>1 DEF Empty
<1>8. CASE AcquirePooled \/ AcquireNew
  <2>1. PICK set : Holds(set)
    BY <1>8 DEF AcquirePooled, AcquireNew
  <2>2. sub'.batch.index = sub.batch.index /\ sub'.at = "acquire" /\ sub.at = "acquire"
        /\ UNCHANGED <<comp, done>>
    BY <1>2, <1>8, <2>1 DEF Holds, Batch, AcquirePooled, AcquireNew, Acquiring
  <2> QED BY <1>1, <2>2 DEF Empty
<1>9. CASE SubmitBatch
  <2>1. sub'.at = "send" /\ UNCHANGED <<comp, done>>
    BY <1>9 DEF SubmitBatch
  <2> QED BY <1>1, <2>1 DEF Empty
<1>10. CASE SendBatch \/ SendFails
  <2>1. sub'.batch = Nothing /\ UNCHANGED <<comp, done>>
    BY <1>10 DEF SendBatch, SendFails
  <2> QED BY <1>1, <2>1, NothingApart DEF Empty
<1>11. CASE Execute
  <2>1. done' = done + 1 /\ UNCHANGED <<sub, comp>>
    BY <1>11 DEF Execute
  <2> QED BY <1>1, <1>2, <2>1 DEF Empty
<1>12. CASE RecvBatch
  <2>1. comp'.at = "collect" /\ UNCHANGED <<sub, done>>
    BY <1>12 DEF RecvBatch
  <2> QED BY <1>1, <2>1 DEF Empty
<1>13. CASE Collect \/ Release \/ Answer
  <2>1. comp'.at = "release" /\ comp'.batch.index = comp.batch.index /\ comp.batch.index <= done
        /\ UNCHANGED <<sub, done>>
    BY <1>1, <1>13, Collects, Gives, Answers DEF Empty, Collect, Release, Answer
  <2> QED BY <1>1, <2>1 DEF Empty
<1>14. CASE CompleterPanics \/ AnswersEnd
  <2>1. comp'.batch = Nothing /\ comp'.at # "release" /\ UNCHANGED <<sub, done>>
    BY <1>14 DEF CompleterPanics, AnswersEnd
  <2> QED BY <1>1, <2>1 DEF Empty
<1>15. CASE CompleterExits
  <2>1. comp.at = "recv" /\ comp'.batch = comp.batch /\ comp'.at = "exited" /\ UNCHANGED <<sub, done>>
    BY <1>1, <1>15 DEF CompleterExits, TypeInv
  <2> QED BY <1>1, <2>1 DEF Empty
<1> QED
  BY <1>4, <1>5, <1>6, <1>7, <1>8, <1>9, <1>10, <1>11, <1>12, <1>13, <1>14, <1>15
  DEF Next, Submitter, Completer
-----------------------------------------------------------------------------
(* Only client c begins a call, gets an answer, or returns.                *)
Only(c) == \A d \in Clients : d # c => call'[d] = call[d] /\ answer'[d] = answer[d]

WaitsNow(job) == call'[job.from] = <<job>> /\ answer'[job.from] = <<>>
WaitNow(s)    == \A i \in 1 .. Len(s) : WaitsNow(s[i])
ReplyNow(s) ==
  \A i \in 1 .. Len(s) : /\ s[i].tokens = call'[s[i].from] /\ s[i].tokens # <<>>
                         /\ answer'[s[i].from] = <<>>

LEMMA OthersWait ==
  ASSUME NEW c, Only(c)
  PROVE  /\ \A s \in Seq(Job) : AllWait(s) /\ Free("from", c, s) => WaitNow(s)
         /\ \A s \in Seq(Reply) :
              (\A i \in 1 .. Len(s) : Replies(s[i])) /\ Free("from", c, s) => ReplyNow(s)
<1>1. ASSUME NEW s \in Seq(Job), AllWait(s), Free("from", c, s) PROVE WaitNow(s)
  <2>1. ASSUME NEW i \in 1 .. Len(s)
        PROVE  WaitsNow(s[i])
    <3>1. s[i] \in Job /\ Waits(s[i]) /\ s[i]["from"] # c
      BY <1>1 DEF AllWait, Free
    <3>2. s[i].from \in Clients /\ s[i].from # c
      BY <3>1 DEF Job
    <3> QED BY <3>1, <3>2 DEF Only, Waits, WaitsNow
  <2> QED BY <2>1 DEF WaitNow
<1>2. ASSUME NEW s \in Seq(Reply), \A i \in 1 .. Len(s) : Replies(s[i]), Free("from", c, s)
      PROVE  ReplyNow(s)
  <2>1. ASSUME NEW i \in 1 .. Len(s)
        PROVE  /\ s[i].tokens = call'[s[i].from] /\ s[i].tokens # <<>>
               /\ answer'[s[i].from] = <<>>
    <3>1. s[i] \in Reply /\ Replies(s[i]) /\ s[i]["from"] # c
      BY <1>2 DEF Free
    <3>2. s[i].from \in Clients /\ s[i].from # c
      BY <3>1 DEF Reply
    <3> QED BY <3>1, <3>2 DEF Only, Replies
  <2> QED BY <2>1 DEF ReplyNow
<1> QED BY <1>1, <1>2

(* A client that has its answer has no job and no reply on its way.        *)
LEMMA ReturnsCall ==
  ASSUME PInv, NEW c \in Clients, answer[c] # <<>>
  PROVE  /\ Free("from", c, job_q) /\ Free("from", c, sub.batch.jobs)
         /\ Free("from", c, comp.batch.jobs)
         /\ \A n \in Pending : Free("from", c, pending[n].jobs)
<1>1. TypeInv /\ Asked /\ Empty
  BY DEF PInv
<1>2. ASSUME NEW q \in Seq(Job), AllWait(q) PROVE Free("from", c, q)
  BY <1>2 DEF AllWait, Waits, Free, Job
<1>3. Free("from", c, comp.batch.jobs)
  <2>1. CASE comp.at = "collect"
    BY <1>1, <1>2, <2>1, CompTypes DEF Asked
  <2>2. CASE comp.at = "release"
    <3>1. \A i \in 1 .. Len(comp.batch.jobs) : /\ comp.batch.jobs[i] \in Reply
                                              /\ answer[comp.batch.jobs[i].from] = <<>>
      BY <1>1, <2>2, CompTypes DEF Asked, Replies
    <3> QED BY <3>1 DEF Free, Reply
  <2>3. CASE comp.at \notin {"collect", "release"}
    BY <1>1, <2>3 DEF Empty, TypeInv, Nothing, Free
  <2> QED BY <2>1, <2>2, <2>3
<1> QED BY <1>1, <1>2, <1>3, SubTypes, PendingTypes DEF Asked, TypeInv

LEMMA WaitMoves ==
  /\ WaitNow(<<>>)
  /\ \A s \in Seq(Job) : s # <<>> /\ WaitNow(s) => WaitNow(Tail(s)) /\ WaitsNow(Head(s))
  /\ \A s \in Seq(Job), job \in Job : WaitNow(s) /\ WaitsNow(job) => WaitNow(Append(s, job))
<1>1. WaitNow(<<>>)
  BY DEF WaitNow
<1>2. ASSUME NEW s \in Seq(Job), s # <<>>, WaitNow(s) PROVE WaitNow(Tail(s)) /\ WaitsNow(Head(s))
  <2>1. /\ Head(s) = s[1] /\ 1 \in 1 .. Len(s)
        /\ \A i \in 1 .. Len(Tail(s)) : Tail(s)[i] = s[i + 1] /\ i + 1 \in 1 .. Len(s)
    BY <1>2
  <2> QED BY <1>2, <2>1 DEF WaitNow
<1>3. ASSUME NEW s \in Seq(Job), NEW job \in Job, WaitNow(s), WaitsNow(job)
      PROVE  WaitNow(Append(s, job))
  <2>1. \A i \in 1 .. Len(Append(s, job)) :
          Append(s, job)[i] = job \/ (i \in 1 .. Len(s) /\ Append(s, job)[i] = s[i])
    OBVIOUS
  <2> QED BY <1>3, <2>1 DEF WaitNow
<1> QED BY <1>1, <1>2, <1>3

LEMMA AskedFrom ==
  ASSUME WaitNow(job_q'), WaitNow(sub'.batch.jobs), \A n \in Pending' : WaitNow(pending'[n].jobs),
         comp'.at = "collect" => WaitNow(comp'.batch.jobs),
         comp'.at = "release" => ReplyNow(comp'.batch.jobs)
  PROVE  Asked'
BY DEF Asked, AllWait, Waits, Replies, WaitNow, WaitsNow, ReplyNow

LEMMA StillAsked ==
  ASSUME Asked, UNCHANGED <<call, answer>>
  PROVE  /\ WaitNow(job_q) /\ WaitNow(sub.batch.jobs) /\ \A n \in Pending : WaitNow(pending[n].jobs)
         /\ comp.at = "collect" => WaitNow(comp.batch.jobs)
         /\ comp.at = "release" => ReplyNow(comp.batch.jobs)
BY DEF Asked, AllWait, Waits, Replies, WaitNow, WaitsNow, ReplyNow

LEMMA OthersAsked ==
  ASSUME TypeInv, Asked, NEW c, Only(c),
         Free("from", c, job_q), Free("from", c, sub.batch.jobs),
         \A n \in Pending : Free("from", c, pending[n].jobs)
  PROVE  /\ WaitNow(job_q) /\ WaitNow(sub.batch.jobs) /\ \A n \in Pending : WaitNow(pending[n].jobs)
         /\ Free("from", c, comp.batch.jobs) =>
              /\ comp.at = "collect" => WaitNow(comp.batch.jobs)
              /\ comp.at = "release" => ReplyNow(comp.batch.jobs)
BY OthersWait, SubTypes, PendingTypes, CompTypes DEF Asked, TypeInv

LEMMA AskedStep ==
  ASSUME PInv, Next
  PROVE  Asked'
<1>1. TypeInv /\ Empty /\ JobsApart /\ Asked /\ Served /\ GpuOwns
  BY DEF PInv
<1>2. job_q \in Seq(Job) /\ sub.batch.jobs \in Seq(Job)
  BY <1>1, SubTypes DEF TypeInv
<1> USE DEF clientVars, gpuVars
<1>3. ASSUME UNCHANGED <<call, answer, pending>>, job_q' \in {job_q, <<>>},
             sub'.batch.jobs \in {sub.batch.jobs, <<>>},
             \/ comp'.at = comp.at /\ comp'.batch.jobs = comp.batch.jobs
             \/ comp'.at \notin {"collect", "release"}
      PROVE  Asked'
  BY <1>1, <1>3, StillAsked, WaitMoves, AskedFrom DEF Pending
<1>4. ASSUME NEW c \in Clients, SubmitReturns(c) PROVE Asked'
  <2>1. Only(c) /\ UNCHANGED <<job_q, sub, pending, comp>>
    BY <1>1, <1>4 DEF SubmitReturns, Only, TypeInv
  <2>2. answer[c] # <<>>
    BY <1>4 DEF SubmitReturns
  <2>3. /\ WaitNow(job_q) /\ WaitNow(sub.batch.jobs) /\ \A n \in Pending : WaitNow(pending[n].jobs)
        /\ comp.at = "collect" => WaitNow(comp.batch.jobs)
        /\ comp.at = "release" => ReplyNow(comp.batch.jobs)
    BY <1>1, <2>1, <2>2, ReturnsCall, OthersAsked
  <2> QED BY <2>1, <2>3, AskedFrom DEF Pending
<1>5. ASSUME NEW c \in Clients, NEW s \in Sizes, Submit(c, s) PROVE Asked'
  <2>1. PICK job \in Job :
          /\ job.from = c /\ call' = [call EXCEPT ![c] = <<job>>] /\ job_q' = Append(job_q, job)
          /\ answer[c] = <<>>
          /\ Free("from", c, job_q) /\ Free("from", c, sub.batch.jobs)
          /\ Free("from", c, comp.batch.jobs)
          /\ \A n \in Pending : Free("from", c, pending[n].jobs)
    BY <1>5, BeginsCall
  <2>2. Only(c) /\ UNCHANGED <<sub, pending, comp, answer>> /\ call'[c] = <<job>> /\ answer'[c] = <<>>
    BY <1>1, <1>5, <2>1 DEF Submit, Only, TypeInv
  <2>3. /\ WaitNow(job_q) /\ WaitNow(sub.batch.jobs) /\ \A n \in Pending : WaitNow(pending[n].jobs)
        /\ comp.at = "collect" => WaitNow(comp.batch.jobs)
        /\ comp.at = "release" => ReplyNow(comp.batch.jobs)
    BY <1>1, <2>1, <2>2, OthersAsked
  <2>4. WaitNow(job_q')
    <3>1. WaitsNow(job)
      BY <2>1, <2>2 DEF WaitsNow
    <3> QED BY <1>2, <2>1, <2>3, <3>1, WaitMoves
  <2> QED BY <2>2, <2>3, <2>4, AskedFrom DEF Pending
<1>6. ASSUME NEW c \in Clients, SubmitPanics(c) PROVE Asked'
  BY <1>3, <1>6 DEF SubmitPanics
<1>7. CASE Drop \/ Execute
  BY <1>3, <1>7 DEF Drop, Execute
<1>8. CASE RecvJob
  <2>1. /\ job_q # <<>> /\ job_q' = Tail(job_q) /\ sub'.batch.jobs = Append(sub.batch.jobs, Head(job_q))
        /\ UNCHANGED <<call, answer, comp, pending>>
    BY <1>1, <1>8, TakesJob DEF RecvJob
  <2>2. Head(job_q) \in Job
    BY <1>2, <2>1
  <2>3. WaitNow(job_q') /\ WaitNow(sub'.batch.jobs)
    BY <1>1, <1>2, <2>1, <2>2, StillAsked, WaitMoves
  <2> QED BY <1>1, <2>1, <2>3, StillAsked, AskedFrom DEF Pending
<1>9. CASE AcquirePooled \/ AcquireNew
  <2>1. PICK set : Holds(set)
    BY <1>9 DEF AcquirePooled, AcquireNew
  <2>2. sub'.batch.jobs = sub.batch.jobs
    BY <1>1, <2>1 DEF Holds, TypeInv, Batch
  <2> QED BY <1>3, <1>9, <2>2 DEF AcquirePooled, AcquireNew
<1>10. CASE SubmitBatch
  BY <1>1, <1>3, <1>10, SubmitsIt DEF SubmitBatch
<1>11. CASE GatherEnds \/ SubmitterExits
  <2>1. sub'.batch = sub.batch
    BY <1>1, <1>11 DEF GatherEnds, SubmitterExits, TypeInv
  <2> QED BY <1>3, <1>11, <2>1 DEF GatherEnds, SubmitterExits
<1>12. CASE SendFails
  BY <1>3, <1>12, NothingApart DEF SendFails
<1>13. CASE SendBatch
  <2>1. sub'.batch.jobs = <<>> /\ UNCHANGED <<comp, job_q, call, answer>>
    BY <1>13, NothingApart DEF SendBatch
  <2>2. \A n \in Pending' : (n \in Pending /\ pending'[n] = pending[n]) \/ pending'[n] = sub.batch
    BY <1>1, <1>13, Sends
  <2> QED BY <1>1, <2>1, <2>2, StillAsked, WaitMoves, AskedFrom
<1>14. CASE RecvBatch
  <2>1. comp'.at = "collect" /\ comp'.batch.jobs = pending[1].jobs
        /\ UNCHANGED <<sub, job_q, call, answer>> /\ 1 \in Pending
        /\ \A n \in Pending' : n + 1 \in Pending /\ pending'[n] = pending[n + 1]
    BY <1>1, <1>14, Receives DEF RecvBatch
  <2> QED BY <1>1, <2>1, StillAsked, AskedFrom
<1>15. CASE Collect
  <2>1. /\ comp.at = "collect" /\ comp'.at = "release" /\ Len(comp'.batch.jobs) = Len(comp.batch.jobs)
        /\ \A k \in 1 .. Len(comp.batch.jobs) :
             /\ comp'.batch.jobs[k].from = comp.batch.jobs[k].from
             /\ comp'.batch.jobs[k].tokens = <<comp.batch.jobs[k]>>
        /\ UNCHANGED <<call, answer, job_q, sub, pending>>
    BY <1>1, <1>15, Collects DEF Collect
  <2>2. WaitNow(comp.batch.jobs)
    BY <1>1, <2>1, StillAsked
  <2>3. ReplyNow(comp'.batch.jobs)
    <3>1. ASSUME NEW k \in 1 .. Len(comp.batch.jobs)
          PROVE  /\ comp'.batch.jobs[k].tokens = call'[comp'.batch.jobs[k].from]
                 /\ comp'.batch.jobs[k].tokens # <<>> /\ answer'[comp'.batch.jobs[k].from] = <<>>
      <4>1. WaitsNow(comp.batch.jobs[k])
        BY <2>2 DEF WaitNow
      <4>2. \A x : <<x>> # <<>>
        OBVIOUS
      <4> QED BY <2>1, <4>1, <4>2 DEF WaitsNow
    <3> QED BY <2>1, <3>1 DEF ReplyNow
  <2> QED BY <1>1, <2>1, <2>3, StillAsked, AskedFrom DEF Pending
<1>16. CASE Release
  BY <1>1, <1>3, <1>16, Gives DEF Release
<1>17. CASE Answer
  <2> DEFINE c == Head(comp.batch.jobs).from
  <2>1. /\ comp.batch.jobs \in Seq(Reply) /\ comp.batch.jobs # <<>> /\ comp.at = "release"
        /\ comp'.at = "release" /\ comp'.batch.jobs = Tail(comp.batch.jobs)
        /\ UNCHANGED <<call, job_q, sub, pending>> /\ c = Head(comp.batch.jobs)["from"]
    BY <1>1, <1>17, Answers DEF Answer, Reply
  <2>2. Only(c)
    BY <1>1, <1>17, Answers DEF Answer, Only, TypeInv
  <2>3. /\ Free("from", c, job_q) /\ Free("from", c, sub.batch.jobs)
        /\ Free("from", c, Tail(comp.batch.jobs)) /\ \A n \in Pending : Free("from", c, pending[n].jobs)
    BY <1>1, <2>1, Leaves DEF JobsApart
  <2>4. ReplyNow(Tail(comp.batch.jobs))
    <3>1. /\ Tail(comp.batch.jobs) \in Seq(Reply)
          /\ \A i \in 1 .. Len(Tail(comp.batch.jobs)) : Replies(Tail(comp.batch.jobs)[i])
      BY <1>1, <2>1 DEF Asked
    <3> QED BY <2>2, <2>3, <3>1, OthersWait
  <2>5. /\ WaitNow(job_q) /\ WaitNow(sub.batch.jobs) /\ \A n \in Pending : WaitNow(pending[n].jobs)
    BY <1>1, <2>2, <2>3, OthersAsked
  <2> QED BY <2>1, <2>4, <2>5, AskedFrom DEF Pending
<1>18. CASE AnswersEnd
  BY <1>3, <1>18 DEF AnswersEnd
<1>19. CASE CompleterExits
  <2>1. comp'.at = "exited"
    BY <1>1, <1>19 DEF CompleterExits, TypeInv
  <2> QED BY <1>3, <1>19, <2>1 DEF CompleterExits
<1>20. CASE CompleterPanics
  <2>1. comp'.at = "panicked" /\ pending' = <<>> /\ UNCHANGED <<call, answer, job_q, sub>>
    BY <1>20 DEF CompleterPanics
  <2>2. Pending' = {}
    BY <2>1 DEF Pending
  <2> QED BY <1>1, <2>1, <2>2, StillAsked, AskedFrom
<1> QED
  BY <1>4, <1>5, <1>6, <1>7, <1>8, <1>9, <1>10, <1>11, <1>12, <1>13, <1>14, <1>15, <1>16, <1>17,
     <1>18, <1>19, <1>20 DEF Next, ClientReturns, Submitter, Completer
-----------------------------------------------------------------------------
LEMMA OwnStep ==
  ASSUME PInv, Next
  PROVE  OwnTokens'
<1>1. TypeInv /\ Asked /\ OwnTokens
  BY DEF PInv
<1> USE DEF clientVars, gpuVars
<1>2. ASSUME NEW c \in Clients, SubmitReturns(c) PROVE OwnTokens'
  BY <1>1, <1>2 DEF SubmitReturns, OwnTokens, TypeInv
<1>3. ASSUME NEW c \in Clients, NEW s \in Sizes, Submit(c, s) PROVE OwnTokens'
  <2>1. answer[c] = <<>>
    BY <1>1, <1>3 DEF OwnTokens, Submit
  <2> QED BY <1>1, <1>3, <2>1 DEF Submit, OwnTokens, TypeInv
<1>4. CASE Answer
  <2> DEFINE r == Head(comp.batch.jobs)
  <2>1. /\ comp.at = "release" /\ comp.batch.jobs \in Seq(Reply) /\ comp.batch.jobs # <<>>
        /\ answer' = [answer EXCEPT ![r.from] = r.tokens] /\ UNCHANGED call
    BY <1>1, <1>4, Answers DEF Answer
  <2>2. Replies(r)
    BY <1>1, <2>1 DEF Asked
  <2> HIDE DEF r
  <2> QED BY <1>1, <2>1, <2>2 DEF OwnTokens, Replies, TypeInv
<1>5. ASSUME UNCHANGED <<call, answer>> PROVE OwnTokens'
  BY <1>1, <1>5 DEF OwnTokens
<1>6. CASE Drop \/ Execute \/ \E c \in Clients : SubmitPanics(c)
  BY <1>5, <1>6 DEF Drop, Execute, SubmitPanics
<1>7. CASE Submitter
  BY <1>5, <1>7 DEF Submitter, RecvJob, GatherEnds, AcquirePooled, AcquireNew, SubmitBatch,
                    SendBatch, SendFails, SubmitterExits
<1>8. CASE RecvBatch \/ Collect \/ CompleterPanics \/ Release \/ AnswersEnd \/ CompleterExits
  BY <1>5, <1>8 DEF RecvBatch, Collect, CompleterPanics, Release, AnswersEnd, CompleterExits
<1> QED BY <1>2, <1>3, <1>4, <1>6, <1>7, <1>8 DEF Next, ClientReturns, Completer
-----------------------------------------------------------------------------
(* Batches that keep their sets, or have none, leave the GPU's alone.      *)
LEMMA HandedOn ==
  ASSUME GpuOwns, UNCHANGED <<gpu, done, staging, pool>>,
         \A b \in Flying' : \/ b.sets = <<>>
                            \/ \E a \in Flying : b.sets = a.sets /\ b.index = a.index
  PROVE  GpuOwns'
<1>1. ASSUME NEW b \in Flying' PROVE Claims(b)' /\ Numbered(b.sets)'
  <2>1. CASE b.sets = <<>>
    BY <2>1, NothingApart DEF Claims, Numbered
  <2>2. ASSUME NEW a \in Flying, b.sets = a.sets, b.index = a.index
        PROVE  Claims(b)' /\ Numbered(b.sets)'
    BY <2>2 DEF GpuOwns, Claims, Numbered
  <2> QED BY <2>1, <2>2
<1>2. /\ \A q \in 1 .. Len(gpu) : Numbered(gpu[q].sets)'
      /\ Numbered(pool)'
  BY DEF GpuOwns, Numbered
<1> QED BY <1>1, <1>2 DEF GpuOwns, Numbered

LEMMA GpuStep ==
  ASSUME PInv, Next
  PROVE  GpuOwns'
<1>1. TypeInv /\ Empty /\ SetsApart /\ GpuOwns /\ Served
  BY DEF PInv
<1>2. pool \in Seq(Set) /\ sub.batch.sets \in Seq(Set) /\ comp.batch.sets \in Seq(Set)
      /\ sub.batch.index \in Nat /\ comp.batch.index \in Nat /\ done \in Nat
      /\ Len(gpu) \in Nat /\ Len(staging) \in Nat
  BY <1>1, SubTypes, CompTypes, GpuTypes DEF TypeInv
<1> USE DEF clientVars, gpuVars
<1>3. ASSUME UNCHANGED <<gpu, done, staging, pool, pending>>,
             \/ sub'.batch.sets = <<>>
             \/ sub'.batch.sets = sub.batch.sets /\ sub'.batch.index = sub.batch.index,
             \/ comp'.batch.sets = <<>>
             \/ comp'.batch.sets = comp.batch.sets /\ comp'.batch.index = comp.batch.index
      PROVE  GpuOwns'
  <2>1. /\ sub.batch \in Flying /\ comp.batch \in Flying /\ \A n \in Pending : pending[n] \in Flying
        /\ \A b \in Flying' : b = sub'.batch \/ b = comp'.batch \/ \E n \in Pending : b = pending[n]
    BY <1>3 DEF Flying, Pending
  <2> QED BY <1>1, <1>3, <2>1, HandedOn
<1>4. CASE \E c \in Clients : ClientReturns(c) \/ \E s \in Sizes : Submit(c, s)
  BY <1>3, <1>4 DEF ClientReturns, SubmitReturns, SubmitPanics, Submit
<1>5. CASE Drop
  BY <1>3, <1>5 DEF Drop
<1>6. CASE RecvJob
  BY <1>1, <1>3, <1>6, TakesJob DEF RecvJob
<1>7. CASE GatherEnds \/ SubmitterExits \/ CompleterExits
  <2>1. sub'.batch = sub.batch /\ comp'.batch = comp.batch
    BY <1>1, <1>7 DEF GatherEnds, SubmitterExits, CompleterExits, TypeInv
  <2> QED BY <1>3, <1>7, <2>1 DEF GatherEnds, SubmitterExits, CompleterExits
<1>8. CASE SendFails \/ AnswersEnd
  BY <1>3, <1>8, NothingApart DEF SendFails, AnswersEnd
<1>9. CASE Collect
  BY <1>1, <1>3, <1>9, Collects DEF Collect
<1>10. CASE Answer
  BY <1>1, <1>3, <1>10, Answers DEF Answer
<1>11. CASE CompleterPanics
  <2>1. comp'.batch.sets = <<>> /\ pending' = <<>> /\ UNCHANGED <<gpu, done, staging, pool, sub>>
    BY <1>11, NothingApart DEF CompleterPanics
  <2>2. \A b \in Flying' : b = comp'.batch \/ b = sub.batch
    BY <2>1 DEF Flying, Pending
  <2> QED BY <1>1, <2>1, <2>2, HandedOn DEF Flying
<1>12. CASE SendBatch
  <2>1. sub'.batch.sets = <<>> /\ UNCHANGED <<gpu, done, staging, pool, comp>>
    BY <1>12, NothingApart DEF SendBatch
  <2>2. \A b \in Flying' : b = comp.batch \/ b = sub'.batch \/ b = sub.batch \/ \E n \in Pending : b = pending[n]
    BY <1>1, <1>12, <2>1, Sends DEF Flying
  <2> QED BY <1>1, <2>1, <2>2, HandedOn DEF Flying
<1>13. CASE RecvBatch
  <2>1. UNCHANGED <<gpu, done, staging, pool, sub>>
    BY <1>13 DEF RecvBatch
  <2>2. \A b \in Flying' : b = sub.batch \/ \E n \in Pending : b = pending[n]
    BY <1>1, <1>13, <2>1, Receives DEF Flying
  <2> QED BY <1>1, <2>1, <2>2, HandedOn DEF Flying
<1>14. CASE AcquirePooled
  <2>1. PICK k \in DOMAIN pool : Holds(pool[k]) /\ pool' = SwapRemove(pool, k)
    BY <1>14 DEF AcquirePooled, PoolWithout
  <2>2. pool[k] \in Set /\ sub.at = "acquire" /\ UNCHANGED <<gpu, done, staging, pending, comp>>
    BY <1>2, <1>14, <2>1 DEF AcquirePooled, Acquiring
  <2>3. sub'.batch.sets = Append(sub.batch.sets, pool[k]) /\ sub'.batch.index = sub.batch.index
    BY <1>1, <2>1, <2>2, TakesSet
  <2>4. pool[k].id = pool[k]["id"] /\ pool[k].id <= Len(staging)
    <3>1. Numbered(pool) /\ k \in 1 .. Len(pool)
      BY <1>1, <1>2, <2>1 DEF GpuOwns
    <3> QED BY <2>2, <3>1 DEF Numbered, Set
  <2>5. \A q \in 1 .. Len(gpu) : Apart("id", pool', gpu[q].sets) /\ Free("id", pool[k]["id"], gpu[q].sets)
    BY <1>1, <1>2, <2>1, Swapped DEF GpuOwns
  <2>6. Claims(sub'.batch) /\ Claims(comp.batch) /\ \A n \in Pending : Claims(pending[n])
    <3>1. ASSUME NEW q \in 1 .. Len(gpu) PROVE Apart("id", sub'.batch.sets, gpu[q].sets)
      <4>1. Apart("id", sub.batch.sets, gpu[q].sets)
        BY <1>1, <1>2, <2>2 DEF GpuOwns, Flying, Claims, Empty
      <4>2. \A x \in Set : \A t : Apart("id", sub.batch.sets, t) /\ Free("id", x["id"], t)
                                => Apart("id", Append(sub.batch.sets, x), t)
        BY <1>2, Joins
      <4> QED BY <2>2, <2>3, <2>5, <4>1, <4>2
    <3> QED BY <1>1, <3>1 DEF GpuOwns, Flying, Claims
  <2>7. Numbered(sub'.batch.sets) /\ Numbered(comp.batch.sets) /\ \A n \in Pending : Numbered(pending[n].sets)
    <3>1. \A i \in 1 .. Len(sub'.batch.sets) :
            \/ sub'.batch.sets[i] = pool[k]
            \/ i \in 1 .. Len(sub.batch.sets) /\ sub'.batch.sets[i] = sub.batch.sets[i]
      <4>1. ASSUME NEW t \in Seq(Set), NEW x \in Set, NEW i \in 1 .. Len(Append(t, x))
            PROVE  Append(t, x)[i] = x \/ (i \in 1 .. Len(t) /\ Append(t, x)[i] = t[i])
        OBVIOUS
      <4>2. sub.batch.sets \in Seq(Set)
        BY <1>2
      <4> QED BY <2>2, <2>3, <4>1, <4>2
    <3>2. /\ Numbered(sub.batch.sets) /\ Numbered(comp.batch.sets)
          /\ \A n \in Pending : Numbered(pending[n].sets)
      BY <1>1 DEF GpuOwns, Flying
    <3> QED BY <2>4, <3>1, <3>2 DEF Numbered
  <2>8. Numbered(pool')
    <3>1. /\ Len(pool') = Len(pool) - 1 /\ Len(pool) \in Nat
          /\ \A i \in 1 .. Len(pool) - 1 : pool'[i] = pool[IF i = k THEN Len(pool) ELSE i]
      <4>1. /\ Len(SwapRemove(pool, k)) = Len(pool) - 1
            /\ \A i \in 1 .. Len(pool) - 1 :
                 SwapRemove(pool, k)[i] = pool[IF i = k THEN Len(pool) ELSE i]
        BY <1>2, Swaps
      <4> QED BY <1>2, <2>1, <4>1
    <3>2. Numbered(pool)
      BY <1>1 DEF GpuOwns
    <3>3. \A i \in 1 .. Len(pool') : \E j \in 1 .. Len(pool) : pool'[i] = pool[j]
      BY <3>1
    <3> QED BY <3>2, <3>3 DEF Numbered
  <2> QED BY <1>1, <2>2, <2>5, <2>6, <2>7, <2>8 DEF GpuOwns, Flying, Claims, Numbered, Pending
<1>15. CASE AcquireNew
  <2> DEFINE set == [id |-> Created + 1, capacity |-> NextSize]
  <2>1. Holds(set) /\ sub.at = "acquire" /\ UNCHANGED <<pending, comp, pool, gpu, done>>
        /\ Len(staging') = Len(staging) + 1
    <3>1. staging \in Seq(Seq(Job)) /\ staging' = Append(staging, <<>>)
      BY <1>1, <1>15 DEF AcquireNew, TypeInv
    <3> QED BY <1>15, <3>1 DEF AcquireNew, Acquiring
  <2>2. set \in Set
    <3>1. sub.batch.jobs[Len(sub.batch.sets) + 1] \in Job
      BY <1>1, <1>15, SubTypes DEF AcquireNew, Acquiring
    <3> QED BY <1>1, <3>1, GpuTypes DEF Created, NextSize, Set, Job
  <2>3. set["id"] = Len(staging) + 1 /\ set.id = Len(staging) + 1
    BY DEF Created
  <2> HIDE DEF set
  <2>4. sub'.batch.sets = Append(sub.batch.sets, set) /\ sub'.batch.index = sub.batch.index
    BY <1>1, <2>1, <2>2, TakesSet
  <2>5. ASSUME NEW s \in Seq(Set), Numbered(s)
        PROVE  Free("id", set["id"], s) /\ \A i \in 1 .. Len(s) : s[i].id <= Len(staging')
    <3>1. \A i \in 1 .. Len(s) : s[i] \in Set /\ s[i].id <= Len(staging)
      BY <2>5 DEF Numbered
    <3>2. \A i \in 1 .. Len(s) : s[i].id <= Len(staging') /\ s[i]["id"] = s[i].id
      <4> SUFFICES ASSUME NEW x \in Set, x.id <= Len(staging)
                   PROVE  x.id <= Len(staging') /\ x["id"] = x.id
        BY <3>1
      <4>1. x.id \in Nat /\ Len(staging) \in Nat
        BY <1>2 DEF Set
      <4> QED BY <2>1, <4>1
    <3>3. \A i \in 1 .. Len(s) : s[i]["id"] # set["id"]
      BY <1>2, <2>3, <3>1, <3>2 DEF Set
    <3> QED BY <3>2, <3>3 DEF Free
  <2>6. Claims(sub'.batch) /\ Claims(comp.batch) /\ \A n \in Pending : Claims(pending[n])
    <3>1. ASSUME NEW q \in 1 .. Len(gpu) PROVE Apart("id", sub'.batch.sets, gpu[q].sets)
      <4>1. Apart("id", sub.batch.sets, gpu[q].sets)
        BY <1>1, <1>2, <2>1 DEF GpuOwns, Flying, Claims, Empty
      <4>2. Free("id", set["id"], gpu[q].sets)
        BY <1>1, <2>5, GpuTypes DEF GpuOwns
      <4>3. \A t : Apart("id", Append(sub.batch.sets, set), t)
                    <=> Apart("id", sub.batch.sets, t) /\ Free("id", set["id"], t)
        BY <1>2, <2>2, Joins
      <4> QED BY <2>4, <4>1, <4>2, <4>3
    <3> QED BY <1>1, <3>1 DEF GpuOwns, Flying, Claims
  <2>7. Numbered(sub.batch.sets)' /\ Numbered(comp.batch.sets)' /\ \A n \in Pending : Numbered(pending[n].sets)'
    <3>1. \A i \in 1 .. Len(sub'.batch.sets) :
            \/ sub'.batch.sets[i] = set
            \/ i \in 1 .. Len(sub.batch.sets) /\ sub'.batch.sets[i] = sub.batch.sets[i]
      BY <1>2, <2>2, <2>4
    <3>2. Numbered(sub.batch.sets)'
      <4>1. Numbered(sub.batch.sets)
        BY <1>1 DEF GpuOwns, Flying
      <4>2. \A i \in 1 .. Len(sub.batch.sets) : sub.batch.sets[i].id <= Len(staging')
        BY <1>2, <2>5, <4>1
      <4>3. set.id <= Len(staging')
        BY <1>2, <2>1, <2>3
      <4> QED BY <3>1, <4>2, <4>3 DEF Numbered
    <3>3. Numbered(comp.batch.sets) /\ \A n \in Pending : Numbered(pending[n].sets)
      BY <1>1 DEF GpuOwns, Flying
    <3>4. Numbered(comp.batch.sets)'
      BY <1>2, <2>1, <2>5, <3>3 DEF Numbered
    <3>5. \A n \in Pending : Numbered(pending[n].sets)'
      BY <1>1, <2>1, <2>5, <3>3, PendingTypes DEF Numbered
    <3> QED BY <3>2, <3>4, <3>5
  <2>8. Numbered(pool)' /\ \A q \in 1 .. Len(gpu) : Numbered(gpu[q].sets)'
    BY <1>1, <1>2, <2>1, <2>5, GpuTypes DEF GpuOwns, Numbered
  <2> QED BY <1>1, <2>1, <2>6, <2>7, <2>8 DEF GpuOwns, Flying, Claims, Numbered, Pending
<1>16. CASE SubmitBatch
  <2>1. /\ sub'.batch.sets = sub.batch.sets /\ sub'.batch.index = done + Len(gpu) + 1
        /\ sub.at = "acquire" /\ Len(sub.batch.sets) = Len(sub.batch.jobs)
        /\ gpu' = Append(gpu, sub.batch) /\ UNCHANGED <<pending, comp, pool, done, staging>>
    BY <1>1, <1>16, SubmitsIt DEF SubmitBatch
  <2>2. /\ Len(gpu') = Len(gpu) + 1 /\ gpu'[Len(gpu) + 1] = sub.batch
        /\ \A q \in 1 .. Len(gpu') : q = Len(gpu) + 1 \/ (q \in 1 .. Len(gpu) /\ gpu'[q] = gpu[q])
    <3>1. gpu \in Seq(Batch) /\ sub.batch \in Batch
      BY <1>1, SubTypes DEF TypeInv
    <3> QED BY <2>1, <3>1
  <2>3. /\ \A b \in {comp.batch} \cup {pending[n] : n \in Pending} : Apart("id", b.sets, sub.batch.sets)
        /\ Apart("id", pool, sub.batch.sets) /\ Differ("id", sub.batch.sets)
    BY <1>1, Mirrored DEF SetsApart
  <2>4. \A q \in 1 .. Len(gpu) : Apart("id", sub.batch.sets, gpu[q].sets)
    BY <1>1, <1>2, <2>1 DEF GpuOwns, Flying, Claims, Empty
  <2>5. \A b \in Flying' : Claims(b)' /\ Numbered(b.sets)'
    <3>1. \A b \in {comp.batch} \cup {pending[n] : n \in Pending} : Claims(b)' /\ Numbered(b.sets)'
      BY <1>1, <2>1, <2>2, <2>3 DEF GpuOwns, Flying, Claims, Numbered
    <3>2. \A q \in 1 .. Len(gpu') : Apart("id", sub'.batch.sets, gpu'[q].sets) \/ sub'.batch.index = done + q
      BY <1>2, <2>1, <2>2, <2>4
    <3>3. Numbered(sub.batch.sets)'
      BY <1>1, <2>1 DEF GpuOwns, Flying, Numbered
    <3> QED BY <2>1, <3>1, <3>2, <3>3 DEF Flying, Claims, Pending
  <2>6. Numbered(sub.batch.sets)
    BY <1>1 DEF GpuOwns, Flying
  <2> QED BY <1>1, <2>1, <2>2, <2>3, <2>5, <2>6 DEF GpuOwns, Numbered
<1>17. CASE Execute
  <2>1. /\ done' = done + 1 /\ Len(gpu') = Len(gpu) - 1
        /\ \A q \in 1 .. Len(gpu') : gpu'[q] = gpu[q + 1] /\ q + 1 \in 1 .. Len(gpu)
        /\ Len(staging') = Len(staging) /\ UNCHANGED <<pool, sub, pending, comp>>
    <3>1. staging' \in Seq(Seq(Job))
      BY <1>1, <1>17, StagedTypes
    <3>2. /\ done' = done + 1 /\ Len(gpu') = Len(gpu) - 1 /\ DOMAIN staging' = 1 .. Len(staging)
          /\ \A q \in 1 .. Len(gpu') : gpu'[q] = gpu[q + 1]
      BY <1>1, <1>17, Stages
    <3>3. Len(staging') = Len(staging)
      BY <1>2, <3>1, <3>2
    <3>4. \A q \in 1 .. Len(gpu') : q + 1 \in 1 .. Len(gpu)
      BY <1>2, <3>2
    <3> QED BY <1>17, <3>2, <3>3, <3>4 DEF Execute
  <2>2. \A b \in Flying' : Claims(b)' /\ Numbered(b.sets)'
    <3>1. ASSUME NEW b \in Flying, NEW q \in 1 .. Len(gpu')
          PROVE  Apart("id", b.sets, gpu'[q].sets) \/ b.index = done' + q
      <4>1. Apart("id", b.sets, gpu[q + 1].sets) \/ b.index = done + (q + 1)
        BY <1>1, <2>1, <3>1 DEF GpuOwns, Claims
      <4>2. done + (q + 1) = done' + q
        BY <1>2, <2>1
      <4> QED BY <2>1, <4>1, <4>2
    <3>2. \A b \in Flying : Numbered(b.sets)'
      BY <1>1, <2>1 DEF GpuOwns, Numbered
    <3>3. Flying' = Flying
      BY <2>1 DEF Flying, Pending
    <3> QED BY <3>1, <3>2, <3>3 DEF Claims
  <2> QED BY <1>1, <2>1, <2>2 DEF GpuOwns, Numbered
<1>18. CASE Release
  <2> DEFINE set == Head(comp.batch.sets)
  <2>1. /\ comp.batch.sets # <<>> /\ comp'.batch.sets = Tail(comp.batch.sets) /\ set \in Set
        /\ (pool' = pool \/ pool' = Append(pool, set)) /\ comp'.batch.index = comp.batch.index
        /\ comp.batch.index <= done
        /\ UNCHANGED <<pending, sub, gpu, done, staging>>
    BY <1>1, <1>18, Gives DEF Release, Empty
  <2>2. \A q \in 1 .. Len(gpu) : Apart("id", comp.batch.sets, gpu[q].sets)
    BY <1>1, <1>2, <2>1 DEF GpuOwns, Flying, Claims
  <2>3. /\ \A q \in 1 .. Len(gpu) : /\ Apart("id", comp'.batch.sets, gpu[q].sets)
                                    /\ Free("id", set["id"], gpu[q].sets)
    BY <1>2, <2>1, <2>2, Leaves
  <2>4. /\ \A i \in 1 .. Len(comp'.batch.sets) : i + 1 \in 1 .. Len(comp.batch.sets)
                                                /\ comp'.batch.sets[i] = comp.batch.sets[i + 1]
        /\ set = comp.batch.sets[1] /\ 1 \in 1 .. Len(comp.batch.sets)
    BY <1>2, <2>1
  <2>5. Numbered(comp.batch.sets)
    BY <1>1 DEF GpuOwns, Flying
  <2>6. Numbered(comp'.batch.sets) /\ set.id <= Len(staging)
    BY <2>4, <2>5 DEF Numbered
  <2> HIDE DEF set
  <2>7. Numbered(pool') /\ \A q \in 1 .. Len(gpu) : Apart("id", pool', gpu[q].sets)
    <3>1. CASE pool' = pool
      BY <1>1, <3>1 DEF GpuOwns
    <3>2. CASE pool' = Append(pool, set)
      <4>1. \A i \in 1 .. Len(pool') : pool'[i] = set \/ (i \in 1 .. Len(pool) /\ pool'[i] = pool[i])
        BY <1>2, <2>1, <3>2
      <4>2. Numbered(pool')
        BY <1>1, <2>6, <4>1 DEF GpuOwns, Numbered
      <4>3. \A q \in 1 .. Len(gpu) : Apart("id", pool', gpu[q].sets)
        BY <1>1, <1>2, <2>1, <2>3, <3>2, Joins DEF GpuOwns
      <4> QED BY <4>2, <4>3
    <3> QED BY <2>1, <3>1, <3>2
  <2>8. Claims(comp'.batch)
    BY <2>3 DEF Claims
  <2>9. \A b \in Flying' : Claims(b) /\ Numbered(b.sets)
    <3>1. \A b \in Flying' : b = comp'.batch \/ b \in Flying
      BY <2>1 DEF Flying, Pending
    <3> QED BY <1>1, <2>6, <2>8, <3>1 DEF GpuOwns
  <2> QED BY <1>1, <2>1, <2>7, <2>9 DEF GpuOwns, Claims, Numbered
<1> QED
  BY <1>4, <1>5, <1>6, <1>7, <1>8, <1>9, <1>10, <1>11, <1>12, <1>13, <1>14, <1>15, <1>16, <1>17,
     <1>18 DEF Next, Submitter, Completer
-----------------------------------------------------------------------------
(* A step that hands a batch on, or reads it, serves the others as before. *)
LEMMA OutStays ==
  ASSUME Served, UNCHANGED <<gpu, done, staging>>,
         \A b \in Out' : \E a \in Out : b.jobs = a.jobs /\ b.sets = a.sets /\ b.index = a.index
  PROVE  Served'
<1>1. ASSUME NEW b \in Out' PROVE Len(b.jobs) = Len(b.sets) /\ (Queued(b)' \/ Ready(b)')
  <2>1. PICK a \in Out : b.jobs = a.jobs /\ b.sets = a.sets /\ b.index = a.index
    OBVIOUS
  <2>2. Len(a.jobs) = Len(a.sets) /\ (Queued(a) \/ Ready(a))
    BY DEF Served
  <2>3. Queued(a) => Queued(b)'
    BY <2>1 DEF Queued
  <2>4. Ready(a) => Ready(b)'
    BY <2>1 DEF Ready
  <2> QED BY <2>1, <2>2, <2>3, <2>4
<1> QED BY <1>1 DEF Served

LEMMA ServedStep ==
  ASSUME PInv, Next
  PROVE  Served'
<1>1. TypeInv /\ Empty /\ SetsApart /\ GpuOwns /\ Served
  BY DEF PInv
<1>2. sub.batch.sets \in Seq(Set) /\ comp.batch.sets \in Seq(Set)
      /\ sub.batch.index \in Nat /\ comp.batch.index \in Nat /\ done \in Nat
      /\ Len(gpu) \in Nat /\ Len(staging) \in Nat
  BY <1>1, SubTypes, CompTypes, GpuTypes
<1> USE DEF clientVars, gpuVars
<1>3. ASSUME UNCHANGED <<gpu, done, staging, pending>>,
             sub'.at # "send" \/ UNCHANGED sub, comp'.at # "collect" \/ UNCHANGED comp
      PROVE  Served'
  <2>1. \A b \in Out' : b \in Out
    BY <1>3 DEF Out, Pending
  <2> QED BY <1>1, <1>3, <2>1, OutStays
<1>4. CASE Drop \/ \E c \in Clients : ClientReturns(c) \/ \E s \in Sizes : Submit(c, s)
  BY <1>3, <1>4 DEF Drop, ClientReturns, SubmitReturns, SubmitPanics, Submit
<1>5. CASE RecvJob \/ SendFails
  BY <1>3, <1>5 DEF RecvJob, SendFails
<1>6. CASE GatherEnds \/ SubmitterExits
  <2>1. sub'.at # "send"
    BY <1>1, <1>6 DEF GatherEnds, SubmitterExits, TypeInv
  <2> QED BY <1>3, <1>6, <2>1 DEF GatherEnds, SubmitterExits
<1>7. CASE AcquirePooled
  <2>1. sub'.at # "send"
    BY <1>1, <1>7 DEF AcquirePooled, Acquiring, Holds, TypeInv
  <2> QED BY <1>3, <1>7, <2>1 DEF AcquirePooled
<1>8. CASE AcquireNew
  <2>1. sub'.at # "send" /\ sub.at # "send" /\ UNCHANGED <<gpu, done, pending, comp>>
    BY <1>1, <1>8 DEF AcquireNew, Acquiring, Holds, TypeInv
  <2>2. \A id \in 1 .. Len(staging) : staging'[id] = staging[id]
    <3>1. staging \in Seq(Seq(Job)) /\ staging' = Append(staging, <<>>)
      BY <1>1, <1>8 DEF AcquireNew, TypeInv
    <3> QED BY <3>1
  <2>3. Out' = Out /\ Out \subseteq Flying
    BY <2>1 DEF Out, Flying, Pending
  <2>4. ASSUME NEW b \in Out, Ready(b) PROVE Ready(b)'
    <3>1. Numbered(b.sets) /\ b.sets \in Seq(Set)
      BY <1>1, <1>2, <2>3, PendingTypes DEF GpuOwns, Flying
    <3>2. \A i \in 1 .. Len(b.sets) : b.sets[i].id \in 1 .. Len(staging)
      <4>1. \A i \in 1 .. Len(b.sets) : b.sets[i] \in Set /\ b.sets[i].id <= Len(staging)
        BY <3>1 DEF Numbered
      <4> QED BY <1>2, <4>1 DEF Set
    <3> QED BY <2>1, <2>2, <2>4, <3>2 DEF Ready
  <2> QED BY <1>1, <2>1, <2>3, <2>4 DEF Served, Queued
<1>9. CASE SubmitBatch
  <2>1. /\ sub'.batch.sets = sub.batch.sets /\ sub'.batch.jobs = sub.batch.jobs
        /\ sub'.batch.index = done + Len(gpu) + 1 /\ Len(sub.batch.sets) = Len(sub.batch.jobs)
        /\ gpu' = Append(gpu, sub.batch) /\ UNCHANGED <<pending, comp, done, staging>>
    BY <1>1, <1>9, SubmitsIt DEF SubmitBatch
  <2>2. /\ Len(gpu') = Len(gpu) + 1 /\ gpu'[Len(gpu) + 1] = sub.batch
        /\ \A q \in 1 .. Len(gpu) : q \in 1 .. Len(gpu') /\ gpu'[q] = gpu[q]
    <3>1. gpu \in Seq(Batch) /\ sub.batch \in Batch
      BY <1>1, SubTypes DEF TypeInv
    <3> QED BY <2>1, <3>1
  <2>3. \A b \in Out' : b = sub'.batch \/ b \in Out
    BY <2>1 DEF Out, Pending
  <2>4. Queued(sub.batch)'
    <3>1. sub'.batch.index - done = Len(gpu) + 1
      BY <1>2, <2>1
    <3> QED BY <1>2, <2>1, <2>2, <3>1 DEF Queued
  <2>5. ASSUME NEW b \in Out
        PROVE  Len(b.jobs) = Len(b.sets) /\ (Queued(b)' \/ Ready(b)')
    BY <1>1, <2>1, <2>2 DEF Served, Queued, Ready
  <2> QED BY <2>1, <2>3, <2>4, <2>5 DEF Served, Queued, Ready
<1>10. CASE SendBatch
  <2>1. sub.batch \in Out /\ UNCHANGED <<gpu, done, staging, comp>> /\ sub'.at # "send"
    BY <1>10 DEF SendBatch, Out
  <2>2. \A n \in Pending' : pending'[n] = sub.batch \/ (n \in Pending /\ pending'[n] = pending[n])
    BY <1>1, <1>10, Sends
  <2>3. \A b \in Out' : b \in Out
    BY <2>1, <2>2 DEF Out
  <2> QED BY <1>1, <2>1, <2>3, OutStays
<1>11. CASE RecvBatch
  <2>1. UNCHANGED <<gpu, done, staging, sub>> /\ comp'.batch = pending[1] /\ 1 \in Pending
        /\ \A n \in Pending' : n + 1 \in Pending /\ pending'[n] = pending[n + 1]
    BY <1>1, <1>11, Receives DEF RecvBatch
  <2>2. \A b \in Out' : b \in Out
    BY <2>1 DEF Out
  <2> QED BY <1>1, <2>1, <2>2, OutStays
<1>12. CASE Collect \/ Release \/ Answer
  <2>1. comp'.at = "release" /\ UNCHANGED <<gpu, done, staging, pending, sub>>
    BY <1>1, <1>12, Collects, Gives, Answers DEF Collect, Release, Answer
  <2> QED BY <1>3, <2>1
<1>13. CASE CompleterPanics
  <2>1. comp'.at # "collect" /\ pending' = <<>> /\ UNCHANGED <<gpu, done, staging, sub>>
    BY <1>13 DEF CompleterPanics
  <2>2. \A b \in Out' : b \in Out
    BY <2>1 DEF Out, Pending
  <2> QED BY <1>1, <2>1, <2>2, OutStays
<1>14. CASE AnswersEnd \/ CompleterExits
  <2>1. comp'.at # "collect"
    BY <1>1, <1>14 DEF AnswersEnd, CompleterExits, TypeInv
  <2> QED BY <1>3, <1>14, <2>1 DEF AnswersEnd, CompleterExits
<1>15. CASE Execute
  <2>1. /\ done' = done + 1 /\ Len(gpu') = Len(gpu) - 1 /\ 1 \in 1 .. Len(gpu)
        /\ \A q \in 1 .. Len(gpu') : gpu'[q] = gpu[q + 1]
        /\ \A k \in 1 .. Len(gpu[1].sets) : staging'[gpu[1].sets[k].id] = <<gpu[1].jobs[k]>>
        /\ \A id \in 1 .. Len(staging) : Free("id", id, gpu[1].sets) => staging'[id] = staging[id]
    BY <1>1, <1>15, Stages
  <2>2. Out' = Out /\ Out \subseteq Flying
    BY <1>15 DEF Execute, Out, Flying, Pending
  <2>3. ASSUME NEW b \in Out PROVE Queued(b)' \/ Ready(b)'
    <3>1. b.index \in Nat /\ b.sets \in Seq(Set) /\ Numbered(b.sets) /\ Claims(b)
      BY <1>1, <1>2, <2>2, PendingTypes DEF GpuOwns, Flying
    <3>2. CASE Queued(b) /\ b.index = done + 1
      <4>1. gpu[1].jobs = b.jobs /\ gpu[1].sets = b.sets
        BY <1>2, <3>2 DEF Queued
      <4> QED BY <1>2, <2>1, <3>2, <4>1 DEF Ready
    <3>3. CASE Queued(b) /\ b.index # done + 1
      <4>1. b.index - done' \in 1 .. Len(gpu') /\ (b.index - done') + 1 = b.index - done
        BY <1>2, <2>1, <3>1, <3>3 DEF Queued
      <4> QED BY <2>1, <3>3, <4>1 DEF Queued
    <3>4. CASE Ready(b)
      <4>1. Apart("id", b.sets, gpu[1].sets)
        BY <1>2, <2>1, <3>1, <3>4 DEF Claims, Ready
      <4>2. ASSUME NEW i \in 1 .. Len(b.sets) PROVE staging'[b.sets[i].id] = staging[b.sets[i].id]
        <5>1. b.sets[i] \in Set /\ b.sets[i].id <= Len(staging)
          BY <3>1 DEF Numbered
        <5>2. b.sets[i].id \in 1 .. Len(staging) /\ b.sets[i]["id"] = b.sets[i].id
          BY <1>2, <5>1 DEF Set
        <5>3. Free("id", b.sets[i].id, gpu[1].sets)
          BY <4>1, <5>2 DEF Apart
        <5> QED BY <2>1, <5>2, <5>3
      <4>3. b.index <= done'
        BY <1>2, <2>1, <3>1, <3>4 DEF Ready
      <4> QED BY <3>4, <4>2, <4>3 DEF Ready
    <3> QED BY <1>1, <3>2, <3>3, <3>4 DEF Served
  <2> QED BY <1>1, <2>2, <2>3 DEF Served
<1> QED
  BY <1>4, <1>5, <1>6, <1>7, <1>8, <1>9, <1>10, <1>11, <1>12, <1>13, <1>14, <1>15
  DEF Next, Submitter, Completer
-----------------------------------------------------------------------------
LEMMA Inductive == Spec => []PInv
<1>1. PInv /\ [Next]_vars => PInv'
  <2> SUFFICES ASSUME PInv, [Next]_vars PROVE PInv'
    OBVIOUS
  <2>1. CASE Next
    BY <2>1, TypeStep, EmptyStep, JobsStep, SetsStep, AskedStep, GpuStep, ServedStep, OwnStep DEF PInv
  <2>2. CASE UNCHANGED vars
    <3>1. Flying' = Flying /\ Out' = Out
      BY <2>2 DEF vars, clientVars, gpuVars, Flying, Out, Pending
    <3>2. TypeInv' /\ Empty' /\ OwnTokens'
      BY <2>2 DEF PInv, vars, clientVars, gpuVars, TypeInv, Empty, OwnTokens
    <3>3. JobsApart' /\ SetsApart'
      BY <2>2 DEF PInv, vars, clientVars, gpuVars, JobsApart, SetsApart, Pending
    <3>4. Asked'
      BY <2>2 DEF PInv, vars, clientVars, gpuVars, Asked, AllWait, Waits, Replies, Pending
    <3>5. GpuOwns' /\ Served'
      BY <2>2, <3>1 DEF PInv, vars, clientVars, gpuVars, GpuOwns, Claims, Numbered, Served, Queued, Ready
    <3> QED BY <3>2, <3>3, <3>4, <3>5 DEF PInv
  <2> QED BY <2>1, <2>2
<1> QED BY Initially, <1>1, PTL DEF Spec

(* A client is given the tokens of its own chunk, whoever shares its batch *)
(* and whichever buffers they travel in.                                   *)
THEOREM TokensAreOwn == Spec => []OwnTokens
<1>1. PInv => OwnTokens
  BY DEF PInv
<1> QED BY Inductive, <1>1, PTL

(* Batches as the places they are made of.                                 *)
LEMMA BatchesAre ==
  ASSUME TypeInv
  PROVE  /\ Len(Batches) = Len(pending) + 2 /\ Len(pending) \in Nat
         /\ Batches[1] = comp.batch /\ Batches[Len(pending) + 2] = sub.batch
         /\ \A n \in Pending : Batches[n + 1] = pending[n]
         /\ DOMAIN Batches = 1 .. Len(pending) + 2
         /\ \A m \in DOMAIN Batches : m = 1 \/ m = Len(pending) + 2 \/ \E n \in Pending : m = n + 1
<1>1. pending \in Seq(Batch \cup {comp.batch}) /\ sub.batch \in Batch \cup {comp.batch}
  <2>1. pending \in Seq(Batch) /\ sub.batch \in Batch
    BY SubTypes DEF TypeInv
  <2> QED BY <2>1
<1>2. /\ Len(Batches) = Len(pending) + 2 /\ Len(pending) \in Nat
      /\ Batches[1] = comp.batch /\ Batches[Len(pending) + 2] = sub.batch
      /\ \A n \in Pending : Batches[n + 1] = pending[n]
      /\ DOMAIN Batches = 1 .. Len(pending) + 2
  BY <1>1 DEF Batches, Pending
<1>3. ASSUME NEW m \in 1 .. Len(pending) + 2, m # 1, m # Len(pending) + 2
      PROVE  m - 1 \in Pending /\ m = (m - 1) + 1
  BY <1>2, <1>3 DEF Pending
<1> QED BY <1>2, <1>3

(* No buffer set is in two hands.                                          *)
THEOREM SetsAreExclusive == Spec => []SetsExclusive
<1>1. ASSUME PInv PROVE SetsExclusive
  <2>1. TypeInv /\ SetsApart
    BY <1>1 DEF PInv
  <2>2. /\ Len(Batches) = Len(pending) + 2 /\ Len(pending) \in Nat
        /\ Batches[1] = comp.batch /\ Batches[Len(pending) + 2] = sub.batch
        /\ \A n \in Pending : Batches[n + 1] = pending[n]
        /\ DOMAIN Batches = 1 .. Len(pending) + 2
    BY <2>1, BatchesAre
  <2> DEFINE last == Len(pending) + 3
             held == [k \in DOMAIN Batches |-> Batches[k].sets]
  <2>3. \A k \in DOMAIN Batches : Batches[k].sets \in Seq(Set)
    <3>1. \A k \in DOMAIN Batches : k = 1 \/ k = Len(pending) + 2 \/ (k - 1 \in Pending /\ k = (k - 1) + 1)
      BY <2>2 DEF Pending
    <3>2. \A k \in DOMAIN Batches : k - 1 \in Pending => Batches[k] = pending[k - 1]
      BY <2>2, <3>1
    <3> QED BY <2>1, <2>2, <3>1, <3>2, SubTypes, CompTypes, PendingTypes
  <2>4. held \in Seq(Seq(Set)) /\ Len(held) = Len(pending) + 2
    <3>1. held \in [1 .. Len(pending) + 2 -> Seq(Set)] /\ Len(pending) + 2 \in Nat
      BY <2>2, <2>3
    <3> QED BY <3>1, SeqDef
  <2>5. /\ DOMAIN Held = 1 .. last /\ Held[1] = pool
        /\ \A k \in DOMAIN Batches : Held[k + 1] = Batches[k].sets
    <3> HIDE DEF held
    <3>1. pool \in Seq(Set) /\ Held = <<pool>> \o held
      BY <2>1 DEF Held, TypeInv, held
    <3>2. <<pool>> \in Seq(Seq(Set)) /\ Len(<<pool>>) = 1
      BY <3>1
    <3>3. /\ DOMAIN Held = 1 .. last /\ Held[1] = pool
          /\ \A k \in 1 .. Len(pending) + 2 : Held[k + 1] = held[k]
      BY <2>2, <2>4, <3>1, <3>2
    <3> QED BY <2>2, <3>3 DEF held
  <2> HIDE DEF held
  <2>6. /\ Held[2] = comp.batch.sets /\ Held[last] = sub.batch.sets
        /\ \A n \in Pending : Held[n + 2] = pending[n].sets
    <3>1. Held[1 + 1] = comp.batch.sets
      BY <2>2, <2>5
    <3>2. Held[(Len(pending) + 2) + 1] = sub.batch.sets
      BY <2>2, <2>5
    <3>3. ASSUME NEW n \in Pending PROVE Held[n + 2] = pending[n].sets
      <4>1. n + 1 \in DOMAIN Batches /\ (n + 1) + 1 = n + 2
        BY <2>2 DEF Pending
      <4>2. Held[(n + 1) + 1] = Batches[n + 1].sets
        BY <2>5, <4>1
      <4> QED BY <2>2, <4>1, <4>2
    <3>4. (Len(pending) + 2) + 1 = last
      BY <2>2
    <3> QED BY <3>1, <3>2, <3>3, <3>4
  <2>7. \A m \in DOMAIN Held : m = 1 \/ m = 2 \/ m = last \/ \E k \in Pending : m = k + 2
    <3>1. ASSUME NEW m \in 1 .. last, m # 1, m # 2, m # last PROVE m - 2 \in Pending /\ m = (m - 2) + 2
      BY <2>2, <3>1 DEF Pending
    <3> QED BY <2>5, <3>1
  <2>8. \A m \in DOMAIN Held : Held[m] \in Seq(Set) /\ Differ("id", Held[m])
    BY <2>1, <2>5, <2>6, <2>7, SubTypes, CompTypes, PendingTypes DEF SetsApart, TypeInv
  <2>9. \A m, n \in DOMAIN Held : m # n => Apart("id", Held[m], Held[n])
    <3>1. \A j, k \in Pending : j + 2 = k + 2 => j = k
      BY DEF Pending
    <3> HIDE DEF last
    <3> QED BY <2>1, <2>5, <2>6, <2>7, <3>1, Mirrored DEF SetsApart
  <2>10. ASSUME NEW m \in DOMAIN Held, NEW n \in DOMAIN Held,
                NEW i \in DOMAIN Held[m], NEW j \in DOMAIN Held[n], Held[m][i].id = Held[n][j].id
         PROVE  m = n /\ i = j
    <3>1. /\ i \in 1 .. Len(Held[m]) /\ j \in 1 .. Len(Held[n])
          /\ Held[m][i] \in Set /\ Held[n][j] \in Set
      BY <2>8
    <3>2. Held[m][i]["id"] = Held[n][j]["id"]
      BY <2>10, <3>1 DEF Set
    <3>3. m = n
      BY <2>9, <3>1, <3>2 DEF Apart, Free
    <3> QED BY <2>8, <3>1, <3>2, <3>3 DEF Differ
  <2> QED BY <2>10 DEF SetsExclusive
<1> QED BY Inductive, <1>1, PTL

(* What the GPU has not executed is not in the pool.                       *)
THEOREM PoolStaysQuiet == Spec => []PoolIsQuiet
<1>1. ASSUME PInv PROVE PoolIsQuiet
  <2>1. TypeInv /\ GpuOwns
    BY <1>1 DEF PInv
  <2>2. ASSUME NEW b \in ToSet(gpu), NEW set \in ToSet(pool), set \in ToSet(b.sets) PROVE FALSE
    <3>1. PICK q \in 1 .. Len(gpu) : b = gpu[q]
      BY <2>1 DEF ToSet, TypeInv
    <3>2. PICK i \in 1 .. Len(pool) : set = pool[i]
      <4>1. pool \in Seq(Set)
        BY <2>1 DEF TypeInv
      <4>2. DOMAIN pool = 1 .. Len(pool) /\ set \in ToSet(pool)
        BY <4>1
      <4> QED BY <4>2 DEF ToSet
    <3>3. PICK j \in 1 .. Len(b.sets) : set = b.sets[j]
      BY <2>1, <2>2, <3>1, GpuTypes DEF ToSet
    <3> QED BY <2>1, <3>1, <3>2, <3>3 DEF GpuOwns, Apart, Free
  <2> QED BY <2>2 DEF PoolIsQuiet
<1> QED BY Inductive, <1>1, PTL
-----------------------------------------------------------------------------
(* No job is lost.  A client in submit whose job is nowhere has its answer *)
(* or a closed channel; and a batch holds at most MaxBatch jobs.           *)
Nowhere(c) ==
  /\ Free("from", c, job_q) /\ Free("from", c, sub.batch.jobs) /\ Free("from", c, comp.batch.jobs)
  /\ \A n \in Pending : Free("from", c, pending[n].jobs)

LossInv ==
  /\ \A c \in Clients : call[c] = <<>> \/ Len(call[c]) = 1
  /\ \A c \in Clients : call[c] # <<>> /\ Nowhere(c) => answer[c] # <<>> \/ c \in lost
  /\ lost \subseteq Clients
  /\ \A c \in lost : call[c] # <<>> /\ answer[c] = <<>> /\ Nowhere(c)

Small(batch) == Len(batch.jobs) <= MaxBatch

SizesInv ==
  /\ Small(sub.batch) /\ Small(comp.batch) /\ \A n \in Pending : Small(pending[n])

(* Free while sequences are joined. *)
LEMMA FreeJoins ==
  ASSUME NEW s \in Seq(Job), NEW t \in Seq(Job), NEW c
  PROVE  Free("from", c, s \o t) <=> Free("from", c, s) /\ Free("from", c, t)
<1>1. /\ Len(s) \in Nat /\ Len(t) \in Nat /\ Len(s \o t) = Len(s) + Len(t)
      /\ \A i \in 1 .. Len(s) : (s \o t)[i] = s[i]
      /\ \A i \in 1 .. Len(t) : (s \o t)[Len(s) + i] = t[i]
  OBVIOUS
<1> DEFINE r == s \o t
<1> HIDE DEF r
<1>2. \A i \in 1 .. Len(r) : i \in 1 .. Len(s) \/ (i - Len(s) \in 1 .. Len(t) /\ i = Len(s) + (i - Len(s)))
  BY <1>1 DEF r
<1>3. \A i \in 1 .. Len(s) : i \in 1 .. Len(r)
  BY <1>1 DEF r
<1>4. \A i \in 1 .. Len(t) : Len(s) + i \in 1 .. Len(r)
  BY <1>1 DEF r
<1>5. ASSUME Free("from", c, r) PROVE Free("from", c, s) /\ Free("from", c, t)
  BY <1>1, <1>3, <1>4, <1>5 DEF Free, r
<1>6. ASSUME Free("from", c, s), Free("from", c, t) PROVE Free("from", c, r)
  <2> SUFFICES ASSUME NEW i \in 1 .. Len(r) PROVE r[i]["from"] # c
    BY DEF Free
  <2>1. CASE i \in 1 .. Len(s)
    BY <1>1, <1>6, <2>1 DEF Free, r
  <2>2. CASE i - Len(s) \in 1 .. Len(t) /\ i = Len(s) + (i - Len(s))
    BY <1>1, <1>6, <2>2 DEF Free, r
  <2> QED BY <1>2, <2>1, <2>2
<1> QED BY <1>5, <1>6 DEF r

LEMMA FreeFlat ==
  ASSUME NEW s \in Seq(Seq(Job)), NEW c
  PROVE  /\ FlattenSeq(s) \in Seq(Job)
         /\ Free("from", c, FlattenSeq(s)) <=> \A n \in 1 .. Len(s) : Free("from", c, s[n])
<1> DEFINE top == Len(s)
           F == CHOOSE h : h = [i \in 1 .. top |-> IF i = 1 THEN s[i] ELSE h[i - 1] \o s[i]]
           G == [k \in Nat |-> [v \in Seq(Job) |-> IF k \in 1 .. top THEN v \o s[k] ELSE v]]
<1>1. top \in Nat /\ \A k \in 1 .. top : s[k] \in Seq(Job)
  OBVIOUS
<1>2. CASE top = 0
  <2>1. s = <<>>
    BY <1>2
  <2>2. FlattenSeq(s) = <<>>
    BY <1>2, <2>1 DEF FlattenSeq
  <2>3. <<>> \in Seq(Job) /\ Len(<<>>) = 0
    OBVIOUS
  <2>4. Free("from", c, <<>>)
    BY <2>3 DEF Free
  <2>5. \A n \in 1 .. Len(s) : Free("from", c, s[n])
    BY <1>2
  <2> QED BY <2>2, <2>3, <2>4, <2>5
<1>3. CASE top # 0
  <2>1. FlattenSeq(s) = F[top]
    BY <1>3 DEF FlattenSeq
  <2> HIDE DEF top
  <2>2. G \in [Nat -> [Seq(Job) -> Seq(Job)]]
    <3> SUFFICES ASSUME NEW k \in Nat, NEW v \in Seq(Job)
                 PROVE  (IF k \in 1 .. top THEN v \o s[k] ELSE v) \in Seq(Job)
      OBVIOUS
    <3>1. CASE k \in 1 .. top
      <4>1. s[k] \in Seq(Job)
        BY <1>1, <3>1
      <4> QED BY <3>1, <4>1
    <3> QED BY <3>1
  <2>3. <<>> \in Seq(Job)
    OBVIOUS
  <2>4. PICK f \in [0 .. top -> Seq(Job)] : Iterates(f, <<>>, G, top)
    <3> HIDE DEF G
    <3> QED BY <1>1, <2>2, <2>3, Recursion
  <2>5. f[0] = <<>> /\ \A k \in 1 .. top : f[k] = f[k - 1] \o s[k] /\ f[k - 1] \in Seq(Job)
    <3>1. \A k \in 1 .. top : k \in Nat /\ k - 1 \in 0 .. top
      BY <1>1
    <3>2. \A k \in 1 .. top : f[k - 1] \in Seq(Job) /\ f[k] = G[k][f[k - 1]]
      BY <2>4, <3>1 DEF Iterates
    <3> QED BY <2>4, <3>1, <3>2 DEF Iterates
  <2> DEFINE g == [i \in 1 .. top |-> f[i]]
  <2>6. \A i \in 1 .. top : g[i] = IF i = 1 THEN s[i] ELSE g[i - 1] \o s[i]
    <3> SUFFICES ASSUME NEW i \in 1 .. top PROVE g[i] = IF i = 1 THEN s[i] ELSE g[i - 1] \o s[i]
      OBVIOUS
    <3>1. CASE i = 1
      <4>1. f[1] = f[0] \o s[1] /\ s[1] \in Seq(Job)
        <5>1. 1 \in 1 .. top /\ 1 - 1 = 0
          BY <3>1
        <5>2. f[1] = f[1 - 1] \o s[1]
          BY <2>5, <5>1
        <5> QED BY <1>1, <5>1, <5>2
      <4>2. f[1] = s[1]
        BY <2>5, <4>1
      <4> QED BY <3>1, <4>2
    <3>2. CASE i # 1
      <4>1. i - 1 \in 1 .. top
        BY <1>1, <3>2
      <4> QED BY <2>5, <3>2, <4>1
    <3> QED BY <3>1, <3>2
  <2>7. g = [i \in 1 .. top |-> IF i = 1 THEN s[i] ELSE g[i - 1] \o s[i]]
    <3>1. g = [i \in 1 .. top |-> g[i]]
      OBVIOUS
    <3> HIDE DEF g
    <3> QED BY <2>6, <3>1
  <2> HIDE DEF g
  <2>8. F = [i \in 1 .. top |-> IF i = 1 THEN s[i] ELSE F[i - 1] \o s[i]]
    <3>1. \E h : h = [i \in 1 .. top |-> IF i = 1 THEN s[i] ELSE h[i - 1] \o s[i]]
      BY <2>7
    <3> QED BY <3>1, Zenon
  <2> HIDE DEF F, G
  <2> DEFINE Good(k) == /\ F[k] \in Seq(Job)
                        /\ Free("from", c, F[k]) <=> \A n \in 1 .. k : Free("from", c, s[n])
             S == {m \in Nat : m + 1 <= top => Good(m + 1)}
  <2>9. 0 \in S
    <3>1. F[1] = s[1] /\ s[1] \in Seq(Job)
      BY <1>1, <1>3, <2>8
    <3>2. \A n \in 1 .. 1 : n = 1
      OBVIOUS
    <3>3. Good(1)
      BY <3>1, <3>2
    <3> HIDE DEF Good
    <3> QED BY <3>3
  <2>10. ASSUME NEW m \in Nat, m \in S PROVE m + 1 \in S
    <3> SUFFICES ASSUME (m + 1) + 1 <= top PROVE Good((m + 1) + 1)
      OBVIOUS
    <3>1. Good(m + 1)
      BY <1>1, <2>10
    <3> DEFINE k == (m + 1) + 1
    <3>2. k \in 1 .. top /\ k # 1 /\ k - 1 = m + 1 /\ k \in Nat
      BY <1>1
    <3> HIDE DEF k
    <3>3. F[k] = F[m + 1] \o s[k] /\ s[k] \in Seq(Job)
      BY <1>1, <2>8, <3>2
    <3>4. F[k] \in Seq(Job)
      BY <3>1, <3>3
    <3>5. Free("from", c, F[k]) <=> Free("from", c, F[m + 1]) /\ Free("from", c, s[k])
      BY <3>1, <3>3, FreeJoins
    <3>6. \A n \in 1 .. k : n \in 1 .. m + 1 \/ n = k
      BY <3>2
    <3>7. k \in 1 .. k /\ \A n \in 1 .. m + 1 : n \in 1 .. k
      BY <3>2
    <3>8. Good(k)
      BY <3>1, <3>4, <3>5, <3>6, <3>7
    <3> QED BY <3>8 DEF k
  <2> HIDE DEF S
  <2>11. top - 1 \in S
    <3>1. Nat \subseteq S
      BY <2>9, <2>10, Induction
    <3> QED BY <1>1, <1>3, <3>1
  <2>12. Good(top)
    <3>1. top - 1 \in Nat /\ (top - 1) + 1 = top
      BY <1>1, <1>3
    <3> HIDE DEF Good
    <3>2. Good((top - 1) + 1)
      BY <2>11, <3>1 DEF S
    <3> QED BY <3>1, <3>2
  <2> QED BY <2>1, <2>12 DEF top
<1> QED BY <1>2, <1>3

(* Free while the head of one sequence moves to the end of another.        *)
LEMMA TailFree ==
  ASSUME NEW E, NEW s \in Seq(E), s # <<>>
  PROVE  \A c : Free("from", c, s) <=> Head(s)["from"] # c /\ Free("from", c, Tail(s))
<1>1. /\ Len(Tail(s)) = Len(s) - 1 /\ Len(s) \in Nat /\ Head(s) = s[1] /\ 1 \in 1 .. Len(s)
      /\ \A i \in 1 .. Len(Tail(s)) : Tail(s)[i] = s[i + 1] /\ i + 1 \in 1 .. Len(s)
  OBVIOUS
<1>2. \A i \in 1 .. Len(s) : i = 1 \/ (i - 1 \in 1 .. Len(Tail(s)) /\ (i - 1) + 1 = i)
  BY <1>1
<1>3. \A i \in 1 .. Len(s) : i = 1 \/ (i - 1 \in 1 .. Len(Tail(s)) /\ Tail(s)[i - 1] = s[i])
  BY <1>1, <1>2
<1> QED BY <1>1, <1>3 DEF Free

LEMMA AppendFree ==
  ASSUME NEW E, NEW s \in Seq(E), NEW x \in E
  PROVE  \A c : Free("from", c, Append(s, x)) <=> Free("from", c, s) /\ x["from"] # c
<1> DEFINE r == Append(s, x)
<1>1. /\ Len(r) = Len(s) + 1 /\ Len(s) \in Nat /\ r[Len(s) + 1] = x
      /\ \A i \in 1 .. Len(s) : r[i] = s[i]
  OBVIOUS
<1> HIDE DEF r
<1>2. \A i \in 1 .. Len(r) : i = Len(s) + 1 \/ i \in 1 .. Len(s)
  BY <1>1
<1>3. Len(s) + 1 \in 1 .. Len(r) /\ \A i \in 1 .. Len(s) : i \in 1 .. Len(r)
  BY <1>1
<1>4. \A c : Free("from", c, r) <=> Free("from", c, s) /\ x["from"] # c
  BY <1>1, <1>2, <1>3 DEF Free
<1> QED BY <1>4 DEF r

LEMMA AbandonedClients ==
  ASSUME NEW s \in Seq(Job)
  PROVE  Abandoned(s) \subseteq Clients
<1>1. \A k \in DOMAIN s : s[k] \in Job
  OBVIOUS
<1> QED BY <1>1 DEF Abandoned, Job

LEMMA AbandonedAre ==
  ASSUME NEW s \in Seq(Job)
  PROVE  \A c : c \in Abandoned(s) <=> ~ Free("from", c, s)
<1>1. DOMAIN s = 1 .. Len(s)
  OBVIOUS
<1> QED BY <1>1 DEF Abandoned, Free
-----------------------------------------------------------------------------
LEMMA InitLoss == Init => LossInv /\ SizesInv
<1> SUFFICES ASSUME Init PROVE LossInv /\ SizesInv
  OBVIOUS
<1>1. /\ Nothing.jobs = <<>> /\ Len(<<>>) = 0 /\ sub.batch = Nothing /\ comp.batch = Nothing
      /\ pending = <<>> /\ Pending = {}
  BY DEF Init, Nothing, Pending
<1>2. LossInv
  BY DEF Init, LossInv
<1>3. SizesInv
  BY <1>1, BatchAssumption DEF SizesInv, Small
<1> QED BY <1>2, <1>3

(* The jobs of a batch stay within MaxBatch.                               *)
LEMMA SizesStep ==
  ASSUME PInv, SizesInv, Next
  PROVE  SizesInv'
<1>1. TypeInv /\ Empty /\ GpuOwns /\ Served
  BY DEF PInv
<1> USE DEF clientVars, gpuVars
<1>2. ASSUME UNCHANGED pending, sub'.batch.jobs = sub.batch.jobs,
             Small(comp'.batch)
      PROVE  SizesInv'
  BY <1>2 DEF SizesInv, Small, Pending
<1>3. Small(Nothing)
  BY BatchAssumption DEF Small, Nothing
<1>4. CASE UNCHANGED <<pending, sub, comp>>
  BY <1>2, <1>4 DEF SizesInv
<1>5. CASE RecvJob
  <2>1. sub'.batch.jobs = Append(sub.batch.jobs, Head(job_q)) /\ sub'.at = "gather"
    BY <1>1, <1>5, TakesJob
  <2>2. Len(sub.batch.jobs) < MaxBatch
    <3>1. CASE sub.at = "recv"
      <4>1. Len(sub.batch.jobs) = 0
        BY <1>1, <3>1 DEF Empty, Nothing
      <4> QED BY <4>1, BatchAssumption
    <3> QED BY <1>5, <3>1 DEF RecvJob
  <2>3. sub.batch.jobs \in Seq(Job) /\ Len(sub'.batch.jobs) = Len(sub.batch.jobs) + 1
    BY <1>1, <2>1, SubTypes
  <2>4. Small(sub'.batch)
    BY <2>2, <2>3, BatchAssumption DEF Small
  <2>5. UNCHANGED <<pending, comp>>
    BY <1>5 DEF RecvJob
  <2> QED BY <2>1, <2>4, <2>5 DEF SizesInv, Small, Pending
<1>6. CASE AcquirePooled \/ AcquireNew
  <2>1. PICK set : Holds(set)
    BY <1>6 DEF AcquirePooled, AcquireNew
  <2>2. sub'.batch.jobs = sub.batch.jobs /\ sub'.at = "acquire"
    BY <1>1, <1>6, <2>1 DEF Holds, TypeInv, Batch, AcquirePooled, AcquireNew, Acquiring
  <2> QED BY <1>2, <1>6, <2>2 DEF AcquirePooled, AcquireNew, SizesInv
<1>7. CASE SubmitBatch
  BY <1>1, <1>2, <1>7, SubmitsIt DEF SubmitBatch, SizesInv
<1>8. CASE GatherEnds
  <2>1. sub'.batch = sub.batch /\ sub'.at = "acquire"
    BY <1>1, <1>8 DEF GatherEnds, TypeInv
  <2> QED BY <1>2, <1>8, <2>1 DEF GatherEnds, SizesInv
<1>9. CASE SubmitterExits
  <2>1. sub'.batch = sub.batch /\ sub'.at = "exited"
    BY <1>1, <1>9 DEF SubmitterExits, TypeInv
  <2> QED BY <1>2, <1>9, <2>1 DEF SubmitterExits, SizesInv
<1>10. CASE SendFails
  BY <1>3, <1>10 DEF SendFails, SizesInv, Pending
<1>11. CASE SendBatch
  <2>1. \A n \in Pending' : (n \in Pending /\ pending'[n] = pending[n]) \/ pending'[n] = sub.batch
    BY <1>1, <1>11, Sends
  <2> QED BY <1>3, <1>11, <2>1 DEF SendBatch, SizesInv
<1>12. CASE RecvBatch
  <2>1. comp'.batch = pending[1] /\ 1 \in Pending
        /\ \A n \in Pending' : n + 1 \in Pending /\ pending'[n] = pending[n + 1]
    BY <1>1, <1>12, Receives
  <2>2. Small(comp'.batch) /\ \A n \in Pending' : Small(pending'[n])
    BY <2>1 DEF SizesInv
  <2> QED BY <1>12, <2>2 DEF RecvBatch, SizesInv, Small
<1>13. CASE Collect
  <2>1. Len(comp'.batch.jobs) = Len(comp.batch.jobs)
    BY <1>1, <1>13, Collects
  <2> QED BY <1>2, <1>13, <2>1 DEF Collect, SizesInv, Small
<1>14. CASE CompleterPanics
  <2>1. Pending' = {} /\ comp'.batch = Nothing /\ sub' = sub
    BY <1>14 DEF CompleterPanics, Pending
  <2> QED BY <1>3, <2>1 DEF SizesInv, Small
<1>15. CASE Release
  <2>1. comp'.batch.jobs = comp.batch.jobs
    BY <1>1, <1>15, Gives
  <2> QED BY <1>2, <1>15, <2>1 DEF Release, SizesInv, Small
<1>16. CASE Answer
  <2>1. comp'.batch.jobs = Tail(comp.batch.jobs) /\ comp.batch.jobs \in Seq(Reply) /\ comp.batch.jobs # <<>>
    BY <1>1, <1>16, Answers
  <2>2. Len(comp'.batch.jobs) <= Len(comp.batch.jobs) /\ Len(comp'.batch.jobs) \in Nat
        /\ Len(comp.batch.jobs) \in Nat
    BY <2>1
  <2>3. Small(comp'.batch)
    BY <2>2, BatchAssumption DEF SizesInv, Small
  <2> QED BY <1>2, <1>16, <2>3 DEF Answer
<1>17. CASE AnswersEnd
  BY <1>2, <1>3, <1>17 DEF AnswersEnd
<1>18. CASE CompleterExits
  <2>1. comp'.batch = comp.batch
    BY <1>1, <1>18 DEF CompleterExits, TypeInv
  <2> QED BY <1>2, <1>18, <2>1 DEF CompleterExits, SizesInv
<1>19. CASE \E c \in Clients : ClientReturns(c)
  BY <1>4, <1>19 DEF ClientReturns, SubmitReturns, SubmitPanics
<1>20. CASE (\E c \in Clients, s \in Sizes : Submit(c, s)) \/ Drop \/ Execute
  BY <1>4, <1>20 DEF Submit, Drop, Execute
<1> QED
  BY <1>5, <1>6, <1>7, <1>8, <1>9, <1>10, <1>11, <1>12, <1>13, <1>14, <1>15, <1>16, <1>17, <1>18,
     <1>19, <1>20 DEF Next, Submitter, Completer

(* A client whose job is in a place waits for its answer.                  *)
LEMMA CarriedWaits ==
  ASSUME PInv, NEW c \in Clients, ~ Nowhere(c)
  PROVE  call[c] # <<>> /\ answer[c] = <<>>
<1>1. TypeInv /\ Asked /\ Empty
  BY DEF PInv
<1>2. ASSUME NEW q \in Seq(Job), AllWait(q), ~ Free("from", c, q) PROVE call[c] # <<>> /\ answer[c] = <<>>
  <2>1. PICK i \in 1 .. Len(q) : q[i]["from"] = c
    BY <1>2 DEF Free
  <2>2. q[i] \in Job /\ q[i].from = c
    <3>1. q[i] \in Job
      BY <2>1
    <3> QED BY <2>1, <3>1 DEF Job
  <2>3. <<q[i]>> # <<>>
    OBVIOUS
  <2> QED BY <1>2, <2>1, <2>2, <2>3 DEF AllWait, Waits
<1>3. ASSUME ~ Free("from", c, comp.batch.jobs) PROVE call[c] # <<>> /\ answer[c] = <<>>
  <2>1. CASE comp.at = "collect"
    BY <1>1, <1>2, <1>3, <2>1, CompTypes DEF Asked
  <2>2. CASE comp.at = "release"
    <3>1. PICK i \in 1 .. Len(comp.batch.jobs) : comp.batch.jobs[i]["from"] = c
      BY <1>3 DEF Free
    <3>2. comp.batch.jobs[i] \in Reply /\ Replies(comp.batch.jobs[i])
      BY <1>1, <2>2, <3>1, CompTypes DEF Asked
    <3>3. comp.batch.jobs[i].from = c
      BY <3>1, <3>2 DEF Reply
    <3> QED BY <3>2, <3>3 DEF Replies
  <2>3. CASE comp.at \notin {"collect", "release"}
    BY <1>1, <1>3, <2>3 DEF Empty, TypeInv, Nothing, Free
  <2> QED BY <2>1, <2>2, <2>3
<1> QED BY <1>1, <1>2, <1>3, SubTypes, PendingTypes DEF Nowhere, Asked, TypeInv

(* Whoever's job stays on its way, or is on none, is as well off as before. *)
LEMMA LossMoves ==
  ASSUME LossInv, UNCHANGED <<call, answer, lost>>,
         \A c \in Clients : Nowhere(c)' <=> Nowhere(c)
  PROVE  LossInv'
BY DEF LossInv

(* The same, when the jobs of some clients are thrown away.                *)
LEMMA LossThrows ==
  ASSUME PInv, LossInv, UNCHANGED <<call, answer>>, NEW gone, lost' = lost \cup gone,
         \A c \in gone : c \in Clients /\ ~ Nowhere(c) /\ Nowhere(c)',
         \A c \in Clients \ gone : Nowhere(c)' <=> Nowhere(c)
  PROVE  LossInv'
<1>1. \A c \in gone : call[c] # <<>> /\ answer[c] = <<>>
  BY CarriedWaits
<1>2. \A c \in lost : Nowhere(c)'
  BY DEF LossInv
<1> QED BY <1>1, <1>2 DEF LossInv

LEMMA LossStep ==
  ASSUME PInv, LossInv, Next
  PROVE  LossInv'
<1>1. TypeInv /\ Empty /\ JobsApart /\ Served /\ GpuOwns
  BY DEF PInv
<1>2. job_q \in Seq(Job) /\ sub.batch.jobs \in Seq(Job) /\ Nothing.jobs = <<>>
      /\ \A c : Free("from", c, <<>>)
  <2>1. Len(<<>>) = 0
    OBVIOUS
  <2> QED BY <1>1, <2>1, SubTypes DEF TypeInv, Nothing, Free
<1> USE DEF clientVars, gpuVars
<1>3. ASSUME UNCHANGED <<call, answer, lost, pending, job_q>>,
             sub'.batch.jobs = sub.batch.jobs, comp'.batch.jobs = comp.batch.jobs
      PROVE  LossInv'
  BY <1>3, LossMoves DEF Nowhere, Pending
<1>4. ASSUME NEW c \in Clients, SubmitReturns(c) PROVE LossInv'
  <2>1. /\ call' = [call EXCEPT ![c] = <<>>] /\ answer' = [answer EXCEPT ![c] = <<>>]
        /\ answer[c] # <<>> /\ \A a : Nowhere(a)' <=> Nowhere(a)
        /\ lost' = lost
    BY <1>4 DEF SubmitReturns, Nowhere, Pending
  <2>2. c \notin lost
    BY <2>1 DEF LossInv
  <2>3. call \in [Clients -> Seq(Job)] /\ answer \in [Clients -> Seq(Job)]
    BY <1>1 DEF TypeInv
  <2> QED BY <2>1, <2>2, <2>3 DEF LossInv
<1>5. ASSUME NEW c \in Clients, SubmitPanics(c) PROVE LossInv'
  BY <1>3, <1>5 DEF SubmitPanics
<1>6. ASSUME NEW c \in Clients, NEW s \in Sizes, Submit(c, s) PROVE LossInv'
  <2>1. PICK job \in Job :
          /\ job.from = c /\ call' = [call EXCEPT ![c] = <<job>>] /\ job_q' = Append(job_q, job)
          /\ answer[c] = <<>> /\ call[c] = <<>> /\ Nowhere(c)
    BY <1>6, BeginsCall DEF Nowhere
  <2>2. UNCHANGED <<answer, lost, sub, pending, comp>>
    BY <1>6 DEF Submit
  <2>3. c \notin lost
    BY <2>1 DEF LossInv
  <2>4. \A a : Free("from", a, job_q') <=> Free("from", a, job_q) /\ a # c
    <3>1. job["from"] = c
      BY <2>1 DEF Job
    <3> QED BY <1>2, <2>1, <3>1, AppendFree
  <2>5. \A a : Nowhere(a)' <=> Nowhere(a) /\ a # c
    BY <2>2, <2>4 DEF Nowhere, Pending
  <2>6. call \in [Clients -> Seq(Job)] /\ Len(<<job>>) = 1 /\ <<job>> # <<>>
    BY <1>1 DEF TypeInv
  <2>7. call'[c] = <<job>> /\ \A a \in Clients \ {c} : call'[a] = call[a]
    BY <2>1, <2>6
  <2> QED BY <2>2, <2>3, <2>5, <2>6, <2>7 DEF LossInv
<1>7. CASE Drop \/ Execute
  BY <1>3, <1>7 DEF Drop, Execute
<1>8. CASE RecvJob
  <2>1. /\ job_q # <<>> /\ job_q' = Tail(job_q) /\ sub'.batch.jobs = Append(sub.batch.jobs, Head(job_q))
        /\ UNCHANGED <<call, answer, lost, comp, pending>>
    BY <1>1, <1>8, TakesJob DEF RecvJob
  <2>2. \A a : Free("from", a, job_q') /\ Free("from", a, sub'.batch.jobs)
               <=> Free("from", a, job_q) /\ Free("from", a, sub.batch.jobs)
    <3>1. Head(job_q) \in Job
      BY <1>2, <2>1
    <3> QED BY <1>2, <2>1, <3>1, AppendFree, TailFree
  <2>3. \A a : Nowhere(a)' <=> Nowhere(a)
    BY <2>1, <2>2 DEF Nowhere, Pending
  <2> QED BY <2>1, <2>3, LossMoves
<1>9. CASE AcquirePooled \/ AcquireNew
  <2>1. PICK set : Holds(set)
    BY <1>9 DEF AcquirePooled, AcquireNew
  <2>2. sub'.batch.jobs = sub.batch.jobs
    BY <1>1, <2>1 DEF Holds, TypeInv, Batch
  <2> QED BY <1>3, <1>9, <2>2 DEF AcquirePooled, AcquireNew
<1>10. CASE SubmitBatch
  BY <1>1, <1>3, <1>10, SubmitsIt DEF SubmitBatch
<1>11. CASE GatherEnds \/ SubmitterExits
  <2>1. sub'.batch = sub.batch
    BY <1>1, <1>11 DEF GatherEnds, SubmitterExits, TypeInv
  <2> QED BY <1>3, <1>11, <2>1 DEF GatherEnds, SubmitterExits
<1>12. CASE SendFails
  <2> DEFINE gone == Abandoned(sub.batch.jobs \o job_q)
  <2>1. /\ lost' = lost \cup gone /\ job_q' = <<>> /\ sub'.batch.jobs = <<>>
        /\ UNCHANGED <<call, answer, comp, pending>>
    BY <1>2, <1>12 DEF SendFails, Throw
  <2>2. sub.batch.jobs \o job_q \in Seq(Job)
    BY <1>2
  <2>3. \A c : c \in gone <=> ~ Free("from", c, sub.batch.jobs) \/ ~ Free("from", c, job_q)
    <3>1. \A c : c \in gone <=> ~ Free("from", c, sub.batch.jobs \o job_q)
      BY <2>2, AbandonedAre
    <3>2. \A c : Free("from", c, sub.batch.jobs \o job_q)
                 <=> Free("from", c, sub.batch.jobs) /\ Free("from", c, job_q)
      BY <1>2, FreeJoins
    <3> QED BY <3>1, <3>2
  <2>4. ASSUME NEW c \in gone PROVE c \in Clients
    BY <2>2, AbandonedClients
  <2>5. ASSUME NEW c \in gone
        PROVE  Free("from", c, comp.batch.jobs) /\ \A n \in Pending : Free("from", c, pending[n].jobs)
    <3>1. CASE ~ Free("from", c, sub.batch.jobs)
      BY <1>1, <3>1 DEF JobsApart, Apart, Free
    <3>2. CASE ~ Free("from", c, job_q)
      BY <1>1, <3>2 DEF JobsApart, Apart, Free
    <3> QED BY <2>3, <3>1, <3>2
  <2> HIDE DEF gone
  <2>6. \A c \in gone : ~ Nowhere(c) /\ Nowhere(c)'
    BY <1>2, <2>1, <2>3, <2>5 DEF Nowhere, Pending
  <2>7. \A c \in Clients \ gone : Nowhere(c)' <=> Nowhere(c)
    BY <1>2, <2>1, <2>3 DEF Nowhere, Pending
  <2> QED BY <2>1, <2>4, <2>6, <2>7, LossThrows
<1>13. CASE SendBatch
  <2>1. /\ sub'.batch.jobs = <<>> /\ UNCHANGED <<comp, job_q, call, answer, lost>>
        /\ pending'[Len(pending) + 1] = sub.batch /\ Len(pending') = Len(pending) + 1
        /\ \A n \in Pending : pending'[n] = pending[n]
        /\ \A n \in Pending' : n \in Pending \/ n = Len(pending) + 1
    BY <1>1, <1>2, <1>13, Sends DEF SendBatch
  <2>2. Len(pending) + 1 \in Pending' /\ \A n \in Pending : n \in Pending'
    BY <1>1, <2>1, PendingTypes DEF Pending
  <2>3. \A a : (\A n \in Pending' : Free("from", a, pending'[n].jobs))
               <=> Free("from", a, sub.batch.jobs) /\ \A n \in Pending : Free("from", a, pending[n].jobs)
    BY <2>1, <2>2
  <2>4. \A a : Nowhere(a)' <=> Nowhere(a)
    BY <1>2, <2>1, <2>3 DEF Nowhere
  <2> QED BY <2>1, <2>4, LossMoves
<1>14. CASE RecvBatch
  <2>1. /\ comp.batch = Nothing /\ comp'.batch.jobs = pending[1].jobs
        /\ UNCHANGED <<sub, job_q, call, answer, lost>> /\ 1 \in Pending
        /\ \A n \in Pending' : n + 1 \in Pending /\ pending'[n] = pending[n + 1]
    BY <1>1, <1>14, Receives DEF RecvBatch, Empty
  <2>2. \A n \in Pending : n = 1 \/ (n - 1 \in Pending' /\ pending'[n - 1] = pending[n])
    <3>1. pending' = Tail(pending) /\ pending \in Seq(Batch) /\ pending # <<>>
      BY <1>1, <1>14 DEF RecvBatch, TypeInv
    <3>2. Len(pending') = Len(pending) - 1 /\ Len(pending) \in Nat
      BY <3>1
    <3>3. ASSUME NEW n \in Pending, n # 1 PROVE n - 1 \in Pending' /\ (n - 1) + 1 = n
      BY <3>2, <3>3 DEF Pending
    <3>4. ASSUME NEW n \in Pending, n # 1 PROVE pending'[n - 1] = pending[n]
      <4>1. pending'[n - 1] = pending[(n - 1) + 1]
        BY <2>1, <3>3, <3>4
      <4> QED BY <3>3, <3>4, <4>1
    <3> QED BY <3>3, <3>4
  <2>3. \A a : (\A n \in Pending : Free("from", a, pending[n].jobs))
               <=> /\ Free("from", a, pending[1].jobs)
                   /\ \A n \in Pending' : Free("from", a, pending'[n].jobs)
    BY <2>1, <2>2
  <2>4. \A a : Nowhere(a)' <=> Nowhere(a)
    BY <1>2, <2>1, <2>3 DEF Nowhere
  <2> QED BY <2>1, <2>4, LossMoves
<1>15. CASE Collect
  <2>1. /\ Len(comp'.batch.jobs) = Len(comp.batch.jobs) /\ comp.at = "collect" /\ comp'.at = "release"
        /\ \A k \in 1 .. Len(comp.batch.jobs) : comp'.batch.jobs[k].from = comp.batch.jobs[k].from
        /\ UNCHANGED <<call, answer, lost, job_q, sub, pending>>
    BY <1>1, <1>15, Collects DEF Collect
  <2>2. /\ comp.batch.jobs \in Seq(Job) /\ comp'.batch.jobs \in Seq(Reply)
    <3>1. TypeInv'
      BY TypeStep
    <3>2. comp' \in [at : {"release"}, batch : Replied]
      BY <1>1, <1>15, Collects
    <3> QED BY <1>1, <2>1, <3>2, CompTypes DEF Replied
  <2>3. \A k \in 1 .. Len(comp.batch.jobs) : comp'.batch.jobs[k]["from"] = comp.batch.jobs[k]["from"]
    <3> SUFFICES ASSUME NEW k \in 1 .. Len(comp.batch.jobs)
                 PROVE  comp'.batch.jobs[k]["from"] = comp.batch.jobs[k]["from"]
      OBVIOUS
    <3>1. comp.batch.jobs[k] \in Job /\ comp'.batch.jobs[k] \in Reply
      BY <2>1, <2>2
    <3> QED BY <2>1, <3>1 DEF Job, Reply
  <2>4. \A a : Free("from", a, comp'.batch.jobs) <=> Free("from", a, comp.batch.jobs)
    BY <2>1, <2>3 DEF Free
  <2>5. \A a : Nowhere(a)' <=> Nowhere(a)
    BY <2>1, <2>4 DEF Nowhere, Pending
  <2> QED BY <2>1, <2>5, LossMoves
<1>16. CASE CompleterPanics
  <2> DEFINE flying == [k \in DOMAIN pending |-> pending[k].jobs]
             gone == Abandoned(comp.batch.jobs \o FlattenSeq(flying))
  <2>1. /\ lost' = lost \cup gone /\ pending' = <<>> /\ Pending' = {} /\ comp'.batch.jobs = <<>>
        /\ UNCHANGED <<call, answer, job_q, sub>> /\ comp.at = "collect"
    BY <1>2, <1>16 DEF CompleterPanics, Throw, Pending
  <2>2. comp.batch.jobs \in Seq(Job) /\ pending \in Seq(Batch)
    BY <1>1, <2>1, CompTypes DEF TypeInv
  <2>3. flying \in Seq(Seq(Job)) /\ Len(flying) = Len(pending) /\ \A n \in Pending : flying[n] = pending[n].jobs
    <3>1. DOMAIN pending = Pending /\ Len(pending) \in Nat
      BY <2>2 DEF Pending
    <3>2. flying \in [1 .. Len(pending) -> Seq(Job)]
      BY <1>1, <3>1, PendingTypes DEF Pending
    <3> QED BY <3>1, <3>2, SeqDef DEF Pending
  <2> HIDE DEF flying
  <2>4. FlattenSeq(flying) \in Seq(Job)
        /\ \A c : Free("from", c, FlattenSeq(flying)) <=> \A n \in Pending : Free("from", c, pending[n].jobs)
    BY <2>3, FreeFlat DEF Pending
  <2>5. comp.batch.jobs \o FlattenSeq(flying) \in Seq(Job)
    BY <2>2, <2>4
  <2>6. \A c : c \in gone <=> \/ ~ Free("from", c, comp.batch.jobs)
                              \/ \E n \in Pending : ~ Free("from", c, pending[n].jobs)
    BY <2>2, <2>4, <2>5, AbandonedAre, FreeJoins
  <2>7. ASSUME NEW c \in gone PROVE c \in Clients
    BY <2>5, AbandonedClients
  <2>8. ASSUME NEW c \in gone PROVE Free("from", c, job_q) /\ Free("from", c, sub.batch.jobs)
    <3>1. CASE ~ Free("from", c, comp.batch.jobs)
      BY <1>1, <3>1 DEF JobsApart, Apart, Free
    <3>2. ASSUME NEW n \in Pending, ~ Free("from", c, pending[n].jobs)
          PROVE  Free("from", c, job_q) /\ Free("from", c, sub.batch.jobs)
      BY <1>1, <3>2 DEF JobsApart, Apart, Free
    <3> QED BY <2>6, <3>1, <3>2
  <2> HIDE DEF gone
  <2>9. \A c \in gone : ~ Nowhere(c) /\ Nowhere(c)'
    BY <1>2, <2>1, <2>6, <2>8 DEF Nowhere
  <2>10. \A c \in Clients \ gone : Nowhere(c)' <=> Nowhere(c)
    BY <1>2, <2>1, <2>6 DEF Nowhere
  <2> QED BY <2>1, <2>7, <2>9, <2>10, LossThrows
<1>17. CASE Release
  <2>1. comp'.batch.jobs = comp.batch.jobs
    BY <1>1, <1>17, Gives
  <2> QED BY <1>3, <1>17, <2>1 DEF Release
<1>18. CASE Answer
  <2> DEFINE c == Head(comp.batch.jobs).from
  <2>1. /\ comp.batch.jobs \in Seq(Reply) /\ comp.batch.jobs # <<>> /\ comp.at = "release"
        /\ comp'.batch.jobs = Tail(comp.batch.jobs) /\ Head(comp.batch.jobs) \in Reply
        /\ answer' = [answer EXCEPT ![c] = Head(comp.batch.jobs).tokens]
        /\ UNCHANGED <<call, lost, job_q, sub, pending>> /\ c = Head(comp.batch.jobs)["from"]
        /\ c \in Clients
    BY <1>1, <1>18, Answers DEF Answer, Reply
  <2>2. Head(comp.batch.jobs).tokens # <<>> /\ ~ Nowhere(c)
    <3>1. Head(comp.batch.jobs) = comp.batch.jobs[1] /\ 1 \in 1 .. Len(comp.batch.jobs)
      BY <2>1
    <3>2. Replies(comp.batch.jobs[1])
      BY <2>1, <3>1 DEF PInv, Asked
    <3>3. ~ Free("from", c, comp.batch.jobs)
      BY <2>1, <3>1 DEF Free
    <3> QED BY <3>1, <3>2, <3>3 DEF Replies, Nowhere
  <2>3. \A a : a # c => (Free("from", a, comp'.batch.jobs) <=> Free("from", a, comp.batch.jobs))
    BY <2>1, TailFree
  <2>4. \A a : a # c => (Nowhere(a)' <=> Nowhere(a))
    BY <2>1, <2>3 DEF Nowhere, Pending
  <2>5. answer \in [Clients -> Seq(Job)]
    BY <1>1 DEF TypeInv
  <2>6. answer'[c] # <<>> /\ \A a \in Clients \ {c} : answer'[a] = answer[a]
    BY <2>1, <2>2, <2>5
  <2>7. c \notin lost
    BY <2>2 DEF LossInv
  <2> HIDE DEF c
  <2> QED BY <2>1, <2>4, <2>6, <2>7 DEF LossInv
<1>19. CASE AnswersEnd
  BY <1>2, <1>3, <1>19 DEF AnswersEnd
<1>20. CASE CompleterExits
  <2>1. comp'.batch = comp.batch
    BY <1>1, <1>20 DEF CompleterExits, TypeInv
  <2> QED BY <1>3, <1>20, <2>1 DEF CompleterExits
<1> QED
  BY <1>4, <1>5, <1>6, <1>7, <1>8, <1>9, <1>10, <1>11, <1>12, <1>13, <1>14, <1>15, <1>16, <1>17,
     <1>18, <1>19, <1>20 DEF Next, ClientReturns, Submitter, Completer

(* A client's job is in one place at most.                                 *)
LEMMA CarriedOnce ==
  ASSUME PInv, SizesInv, NEW c \in Clients
  PROVE  Cardinality(Carriers(c)) = IF Nowhere(c) THEN 0 ELSE 1
<1>1. TypeInv /\ JobsApart
  BY DEF PInv
<1> DEFINE J(m) == Batches[m].jobs
           B == DOMAIN Batches
<1>2. /\ \A m \in B : m = 1 \/ m = Len(pending) + 2 \/ \E n \in Pending : m = n + 1
      /\ J(1) = comp.batch.jobs /\ J(Len(pending) + 2) = sub.batch.jobs
      /\ \A n \in Pending : J(n + 1) = pending[n].jobs
  BY <1>1, BatchesAre
<1>3. 1 \in B /\ Len(pending) + 2 \in B /\ \A n \in Pending : n + 1 \in B
  BY <1>1, BatchesAre DEF Pending
<1>4. \A m \in B : J(m) \in Seq(Job) \/ J(m) \in Seq(Reply)
  BY <1>1, <1>2, SubTypes, CompTypes, PendingTypes
<1>5. \A m \in B : Len(J(m)) <= MaxBatch
  BY <1>2 DEF SizesInv, Small
<1>6. \A m \in B : Differ("from", J(m)) /\ Apart("from", job_q, J(m))
  BY <1>1, <1>2 DEF JobsApart
<1>7. \A m, n \in B : m # n => Apart("from", J(m), J(n))
  <2>1. \A j, k \in Pending : j + 1 = k + 1 => j = k
    BY DEF Pending
  <2> HIDE DEF J, B
  <2> QED BY <1>1, <1>2, <2>1, Mirrored DEF JobsApart
<1>8. Nowhere(c) <=> Free("from", c, job_q) /\ \A m \in B : Free("from", c, J(m))
  <2> HIDE DEF J, B
  <2> QED BY <1>2, <1>3 DEF Nowhere
<1>9. \A m \in B : DOMAIN J(m) = 1 .. Len(J(m)) /\ Len(J(m)) \in Nat
  <2> HIDE DEF J, B
  <2> QED BY <1>4
<1>10. ASSUME NEW m \in B, NEW i \in 1 .. Len(J(m)) PROVE J(m)[i]["from"] = J(m)[i].from
  <2> HIDE DEF J, B
  <2>1. J(m)[i] \in Job \/ J(m)[i] \in Reply
    BY <1>4
  <2> QED BY <2>1 DEF Job, Reply
<1> DEFINE Q == {k \in DOMAIN job_q : job_q[k].from = c}
           P == {p \in B \X (1 .. MaxBatch) : p[2] \in DOMAIN J(p[1]) /\ J(p[1])[p[2]].from = c}
<1>11. Carriers(c) = Q \cup P
  BY DEF Carriers
<1> HIDE DEF J, B
<1>12. \A k \in 1 .. Len(job_q) : k \in Q <=> job_q[k]["from"] = c
  <2>1. job_q \in Seq(Job) /\ \A j \in Job : j["from"] = j.from
    BY <1>1 DEF TypeInv, Job
  <2> QED BY <2>1
<1>13. Q \subseteq 1 .. Len(job_q)
  <2>1. job_q \in Seq(Job)
    BY <1>1 DEF TypeInv
  <2> QED BY <2>1
<1>14. \A p \in P : /\ p = <<p[1], p[2]>> /\ p[1] \in B /\ p[2] \in 1 .. Len(J(p[1]))
                    /\ J(p[1])[p[2]]["from"] = c
  BY <1>9, <1>10
<1>15. ASSUME NEW m \in B, NEW i \in 1 .. Len(J(m)), J(m)[i]["from"] = c PROVE <<m, i>> \in P
  <2>1. i \in 1 .. MaxBatch
    BY <1>5, <1>9, BatchAssumption
  <2> QED BY <1>9, <1>10, <1>15, <2>1
<1> HIDE DEF Q, P
<1>16. \A x, y \in Q : x = y
  BY <1>1, <1>12, <1>13 DEF JobsApart, Differ
<1>17. \A x \in Q, y \in P : FALSE
  BY <1>6, <1>12, <1>13, <1>14 DEF Apart, Free
<1>18. ASSUME NEW x \in P, NEW y \in P PROVE x = y
  <2>1. x[1] = y[1]
    BY <1>7, <1>14 DEF Apart, Free
  <2>2. x[2] = y[2]
    BY <1>6, <1>14, <2>1 DEF Differ
  <2> QED BY <1>14, <2>1, <2>2
<1>19. CASE Nowhere(c)
  <2>1. Q = {} /\ P = {}
    BY <1>8, <1>12, <1>13, <1>14, <1>19 DEF Free
  <2> QED BY <1>11, <1>19, <2>1, FS_EmptySet
<1>20. CASE ~ Nowhere(c)
  <2>1. Q \cup P # {}
    BY <1>8, <1>12, <1>15, <1>20 DEF Free
  <2>2. PICK x : x \in Q \cup P
    BY <2>1
  <2>3. Q \cup P = {x}
    BY <1>16, <1>17, <1>18, <2>2
  <2> QED BY <1>11, <1>20, <2>3, FS_Singleton
<1> QED BY <1>19, <1>20

(* While a client waits, its job is in one place, or its answer is there,  *)
(* or its response channel is closed, whatever thread dies.                *)
THEOREM JobsAreKept == Spec => []NoJobLost
<1>1. PInv /\ LossInv /\ SizesInv /\ [Next]_vars => LossInv' /\ SizesInv'
  <2> SUFFICES ASSUME PInv, LossInv, SizesInv, [Next]_vars PROVE LossInv' /\ SizesInv'
    OBVIOUS
  <2>1. CASE Next
    BY <2>1, LossStep, SizesStep
  <2>2. CASE UNCHANGED vars
    <3>1. LossInv'
      BY <2>2, LossMoves DEF vars, clientVars, Nowhere, Pending
    <3>2. SizesInv'
      BY <2>2 DEF vars, SizesInv, Small, Pending
    <3> QED BY <3>1, <3>2
  <2> QED BY <2>1, <2>2
<1>2. ASSUME PInv, LossInv, SizesInv PROVE NoJobLost
  <2> SUFFICES ASSUME NEW c \in Clients
               PROVE  Cardinality(Carriers(c)) + Len(answer[c]) + Cardinality(lost \cap {c}) = Len(call[c])
    BY DEF NoJobLost
  <2>1. Cardinality(Carriers(c)) = IF Nowhere(c) THEN 0 ELSE 1
    BY <1>2, CarriedOnce
  <2>2. Cardinality(lost \cap {c}) = IF c \in lost THEN 1 ELSE 0
    <3>1. lost \cap {c} = IF c \in lost THEN {c} ELSE {}
      OBVIOUS
    <3> QED BY <3>1, FS_EmptySet, FS_Singleton
  <2>3. ~ Nowhere(c) => call[c] # <<>> /\ answer[c] = <<>>
    BY <1>2, CarriedWaits
  <2>4. answer[c] # <<>> => answer[c] = call[c]
    BY <1>2 DEF PInv, OwnTokens
  <2>5. answer[c] # <<>> => Nowhere(c)
    BY <2>3
  <2>6. Len(<<>>) = 0 /\ (call[c] = <<>> \/ Len(call[c]) = 1)
    BY <1>2 DEF LossInv
  <2>7. c \in lost => call[c] # <<>> /\ answer[c] = <<>> /\ Nowhere(c)
    BY <1>2 DEF LossInv
  <2>8. call[c] # <<>> /\ Nowhere(c) => answer[c] # <<>> \/ c \in lost
    BY <1>2 DEF LossInv
  <2>9. call[c] # <<>> => Len(call[c]) = 1
    BY <2>6
  <2>10. CASE call[c] = <<>>
    <3>1. answer[c] = <<>> /\ Nowhere(c) /\ c \notin lost
      BY <2>3, <2>4, <2>7, <2>10
    <3> QED BY <2>1, <2>2, <2>6, <2>10, <3>1
  <2>11. CASE call[c] # <<>>
    <3>1. Len(call[c]) = 1
      BY <2>9, <2>11
    <3>2. CASE ~ Nowhere(c)
      <4>1. Cardinality(Carriers(c)) = 1
        BY <2>1, <3>2
      <4>2. Len(answer[c]) = 0
        BY <2>3, <2>6, <3>2
      <4>3. Cardinality(lost \cap {c}) = 0
        BY <2>2, <2>7, <3>2
      <4> QED BY <3>1, <4>1, <4>2, <4>3
    <3>3. CASE Nowhere(c) /\ c \in lost
      <4>1. Cardinality(Carriers(c)) = 0 /\ Cardinality(lost \cap {c}) = 1
        BY <2>1, <2>2, <3>3
      <4>2. Len(answer[c]) = 0
        BY <2>6, <2>7, <3>3
      <4> QED BY <3>1, <4>1, <4>2
    <3>4. CASE Nowhere(c) /\ c \notin lost
      <4>1. Cardinality(Carriers(c)) = 0 /\ Cardinality(lost \cap {c}) = 0
        BY <2>1, <2>2, <3>4
      <4>2. answer[c] = call[c]
        BY <2>4, <2>8, <2>11, <3>4
      <4> QED BY <3>1, <4>1, <4>2
    <3> QED BY <3>2, <3>3, <3>4
  <2> QED BY <2>10, <2>11
<1> QED BY Inductive, InitLoss, <1>1, <1>2, PTL DEF Spec
=============================================================================
