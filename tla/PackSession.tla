---------------------------- MODULE PackSession ----------------------------
(***************************************************************************)
(* One call of pack (gpzip a): the archive file is created, a backend is   *)
(* picked, the inputs are walked, and the archive is closed, by finish or, *)
(* on an error, by the destructors.                                        *)
(*                                                                         *)
(* Below the archive builder is a stream that takes units and writes them  *)
(* to the file in pieces.  For tar.gz and tar.zst it is the chunk-parallel *)
(* writer and for the other formats a BufWriter; both behave as            *)
(* ChunkStream, whose actions are used here (ParallelWriter implements     *)
(* it).  A unit is the header of an entry, a piece of the content of a     *)
(* file, or the mark that ends an archive.                                 *)
(***************************************************************************)
EXTENDS Integers, Sequences, FiniteSets, SequencesExt

CONSTANTS
  Tree,       \* what is below the inputs: node -> [kind, children, size, target]
  Height,     \* node -> how deep directories are nested below it
  TreeHeight, \* the greatest of these
  Requests,   \* calls: [format, choice, adapter, inputs, unreadable]
  LinkLimit,  \* how many symbolic links the kernel follows in a path (40)
  ChunkSize   \* units of a chunk, or of the buffer

Node == DOMAIN Tree

(* A directory lists a name once and is not below itself; a link may point *)
(* anywhere.  A socket stands for a node that stat finds and open refuses. *)
(* Left out are the nodes that open does not refuse: a FIFO, on which the  *)
(* zip walk waits in File::open for a writer, and a device, which it       *)
(* copies as if it were a file, for ever if the device has no end.         *)
ASSUME TreeAssumption ==
  /\ TreeHeight \in Nat /\ Height \in [Node -> 0 .. TreeHeight]
  /\ \A n \in Node :
       /\ Tree[n].kind \in {"dir", "file", "link", "socket"}
       /\ Tree[n].size \in Nat
       /\ Tree[n].children \in Seq(Node) /\ IsInjective(Tree[n].children)
       /\ Tree[n].kind = "dir" => \A k \in DOMAIN Tree[n].children : Height[Tree[n].children[k]] < Height[n]
       /\ Tree[n].kind = "link" => Tree[n].target \in Node

(* A call names each of its inputs once.                                   *)
ASSUME CallAssumption ==
  /\ LinkLimit \in Nat /\ ChunkSize \in Nat \ {0}
  /\ \A r \in Requests : r.inputs \in Seq(Node) /\ IsInjective(r.inputs)

VARIABLES
  request,
  phase,   \* "start" | "create" | "pick" | "walk" | "finish" | "flush" | "abandon" | "close"
           \*   | "report" | "done"
  disk,    \* "old" | "new": whether the archive path still has what it had before
  todo,    \* the items to be walked, the next one first: [path, node, links]
  file,    \* the file being copied, [path, part, node], or <<>>
  log,     \* the units given to the stream
  broken,  \* a chunk or a write of the file has failed
  result,  \* "none" | "ok" | "err"
  failure, \* the error returned: "none" | "NoBackend" | "Other"
  submitted, emitted, warned, verdict  \* the stream

stream == <<submitted, emitted, warned, verdict>>
vars == <<request, phase, disk, todo, file, log, broken, result, failure, stream>>

S == INSTANCE ChunkStream WITH accepted <- Len(log)

Init ==
  /\ request \in Requests
  /\ phase = "start" /\ disk = "old" /\ todo = <<>> /\ file = <<>> /\ log = <<>>
  /\ broken = FALSE /\ result = "none" /\ failure = "none"
  /\ S!Init
-----------------------------------------------------------------------------
(* The registry of a choice of --backend, and what its backends can do.    *)
Registry(choice) ==
  CASE choice = "cpu" -> <<"cpu">> [] choice = "gpu" -> <<"gpu", "cpu">> [] choice = "auto" -> <<"hybrid">>

CanCompress(backend, algo) ==
  IF backend = "gpu" THEN algo = "gzip" ELSE algo \in {"deflate", "gzip", "zstd"}

(* The first backend that can compress, or none.                           *)
PickCompressor(reg, algo) ==
  {reg[k] : k \in {j \in DOMAIN reg : /\ CanCompress(reg[j], algo)
                                      /\ \A i \in 1 .. j - 1 : ~ CanCompress(reg[i], algo)}}

(* compressor(): the lazy backend initialises the device first.            *)
Compressor(backend) == backend # "gpu" \/ request.adapter

Writable(format) == format \in {"zip", "tar", "tar.gz", "tar.zst"}
PayloadAlgorithm(format) == IF format = "tar.gz" THEN "gzip" ELSE "zstd"
Compressed(format) == format \in {"tar.gz", "tar.zst"}

(* An error of the call; the builder that is dropped goes on to close the  *)
(* archive if there is one.                                                *)
Fail(next, why) == phase' = next /\ result' = "err" /\ failure' = why

(* detect_format and is_writable.                                          *)
Refuse ==
  /\ phase = "start" /\ ~ Writable(request.format)
  /\ Fail("done", "Other")
  /\ UNCHANGED <<request, disk, todo, file, log, broken, stream>>

Begin ==
  /\ phase = "start" /\ Writable(request.format)
  /\ phase' = "create"
  /\ UNCHANGED <<request, disk, todo, file, log, broken, result, failure, stream>>

Items(nodes, path, links) ==
  [k \in DOMAIN nodes |-> [path |-> Append(path, nodes[k]), node |-> nodes[k], links |-> links]]

(* File::create: the old archive is gone.                                  *)
Create ==
  /\ phase = "create"
  /\ disk' = "new"
  /\ todo' = Items(request.inputs, <<>>, 0)
  /\ phase' = IF Compressed(request.format) THEN "pick" ELSE "walk"
  /\ UNCHANGED <<request, file, log, broken, result, failure, stream>>

CreateFails ==
  /\ phase = "create"
  /\ Fail("report", "Other")
  /\ UNCHANGED <<request, disk, todo, file, log, broken, stream>>

Pick ==
  /\ phase = "pick"
  /\ LET picked == PickCompressor(Registry(request.choice), PayloadAlgorithm(request.format))
     IN  IF \E b \in picked : Compressor(b)
         THEN phase' = "walk" /\ UNCHANGED <<result, failure>>
         ELSE Fail("report", "NoBackend")
  /\ UNCHANGED <<request, disk, todo, file, log, broken, stream>>
-----------------------------------------------------------------------------
(* A full chunk is handed on before more is taken.                         *)
Full == Len(log) - S!StreamEnd(submitted) = ChunkSize

Put(u) == ~ Full /\ log' = Append(log, u) /\ S!Accept

(* A write that returns an error of the stream.                            *)
WriteFails ==
  /\ phase \in {"walk", "finish"} /\ broken
  /\ UNCHANGED <<request, disk, todo, file, log, broken>>
  /\ S!Warn
  /\ Fail("abandon", "Other")

Unit(path, part) == [path |-> path, part |-> part]
EndMark == Unit(<<>>, 0)

IsZip == request.format = "zip"
Top == Head(todo)
Kind(node) == Tree[node].kind

(* The orders in which read_dir may list a directory; the tar code sorts.  *)
ListingsFault(node) == {Tree[node].children, [k \in DOMAIN Tree[node].children |->
                           Tree[node].children[Len(Tree[node].children) + 1 - k]]}
Listings(node) ==
  LET sorted == Tree[node].children
  IN  IF IsZip THEN {s \in [DOMAIN sorted -> Range(sorted)] : IsInjective(s) /\ Range(s) = Range(sorted)}
      ELSE {sorted}

Walking == phase = "walk" /\ file = <<>> /\ todo # <<>>
Unreadable == Top.node \in request.unreadable \/ Kind(Top.node) = "socket"

VisitDir ==
  /\ Walking /\ Kind(Top.node) = "dir"
  /\ Put(Unit(Top.path, 0))
  /\ IF Unreadable
     THEN Fail("abandon", "Other") /\ UNCHANGED todo
     ELSE /\ \E s \in Listings(Top.node) : todo' = Items(s, Top.path, Top.links) \o Tail(todo)
          /\ UNCHANGED <<phase, result, failure>>
  /\ UNCHANGED <<request, disk, file, broken>>

(* A zip entry is started before the file is opened, a tar entry after;    *)
(* the zip code takes what is no directory for a file.                     *)
VisitFile ==
  /\ Walking
  /\ \/ IsZip /\ Kind(Top.node) \in {"file", "socket"}
     \/ ~ IsZip /\ Kind(Top.node) = "file" /\ ~ Unreadable
  /\ Put(Unit(Top.path, 0))
  /\ IF Unreadable
     THEN Fail("abandon", "Other") /\ UNCHANGED <<todo, file>>
     ELSE /\ file' = [path |-> Top.path, part |-> 1, node |-> Top.node]
          /\ todo' = Tail(todo)
          /\ UNCHANGED <<phase, result, failure>>
  /\ UNCHANGED <<request, disk, broken>>

(* What the link points to, under the path of the link.                    *)
Followed(item) == [item EXCEPT !.node = Tree[item.node].target, !.links = @ + 1]

(* The tar code stores a link, the zip code goes where it points.          *)
VisitLink ==
  /\ Walking /\ Kind(Top.node) = "link"
  /\ \/ ~ IsZip /\ Put(Unit(Top.path, 0)) /\ todo' = Tail(todo)
     \/ /\ IsZip /\ Top.links < LinkLimit
        /\ todo' = <<Followed(Top)>> \o Tail(todo)
        /\ UNCHANGED <<log, stream>>
  /\ UNCHANGED <<request, phase, disk, file, broken, result, failure>>

(* Neither directory, file nor link: the tar code passes it over.          *)
VisitSocket ==
  /\ Walking /\ Kind(Top.node) = "socket" /\ ~ IsZip
  /\ todo' = Tail(todo)
  /\ UNCHANGED <<request, phase, disk, file, log, broken, result, failure, stream>>

(* A tar entry that cannot be opened, and a link with too many behind it.  *)
VisitFails ==
  /\ Walking
  /\ \/ Kind(Top.node) = "file" /\ ~ IsZip /\ Unreadable
     \/ Kind(Top.node) = "link" /\ IsZip /\ Top.links >= LinkLimit
  /\ Fail("abandon", "Other")
  /\ UNCHANGED <<request, disk, todo, file, log, broken, stream>>

Size(node) == Tree[node].size

Copy ==
  /\ phase = "walk" /\ file # <<>> /\ file.part <= Size(file.node)
  /\ Put(Unit(file.path, file.part))
  /\ file' = [file EXCEPT !.part = @ + 1]
  /\ UNCHANGED <<request, phase, disk, todo, broken, result, failure>>

CopyFails ==
  /\ phase = "walk" /\ file # <<>> /\ file.part <= Size(file.node)
  /\ Fail("abandon", "Other")
  /\ UNCHANGED <<request, disk, todo, file, log, broken, stream>>

CopyEnds ==
  /\ phase = "walk" /\ file # <<>> /\ file.part > Size(file.node)
  /\ file' = <<>>
  /\ UNCHANGED <<request, phase, disk, todo, log, broken, result, failure, stream>>

WalkEnds ==
  /\ phase = "walk" /\ file = <<>> /\ todo = <<>>
  /\ phase' = "finish"
  /\ UNCHANGED <<request, disk, todo, file, log, broken, result, failure, stream>>
-----------------------------------------------------------------------------
(* into_inner of the tar builder, finish of the zip writer.                *)
Finish ==
  /\ phase = "finish"
  /\ Put(EndMark)
  /\ IF IsZip THEN phase' = "close" /\ result' = "ok" ELSE phase' = "flush" /\ UNCHANGED result
  /\ UNCHANGED <<request, disk, todo, file, broken, failure>>

(* flush: a BufWriter writes what it holds and says whether it could, the  *)
(* chunk-parallel writer does nothing.                                     *)
FlushedFault == TRUE
Flushed == Compressed(request.format) \/ S!Complete

Flush ==
  /\ phase = "flush" /\ Flushed
  /\ phase' = "close" /\ result' = "ok"
  /\ UNCHANGED <<request, disk, todo, file, log, broken, failure, stream>>

FlushFails ==
  /\ phase = "flush" /\ ~ Compressed(request.format) /\ broken
  /\ Fail("close", "Other")
  /\ UNCHANGED <<request, disk, todo, file, log, broken, stream>>

(* The builder of a call that failed is dropped, and ends the archive.     *)
Abandon ==
  /\ phase = "abandon"
  /\ \/ Put(EndMark)
     \/ broken /\ UNCHANGED <<log, stream>>
  /\ phase' = "close"
  /\ UNCHANGED <<request, disk, todo, file, broken, result, failure>>

(* The stream is dropped: it writes what it has, or gives up on an error,  *)
(* of which the caller hears nothing.                                      *)
Close ==
  /\ phase = "close" /\ (broken \/ S!Complete)
  /\ UNCHANGED <<request, disk, todo, file, log, broken, result, failure>>
  /\ S!Close /\ verdict' = "dropped"
  /\ phase' = "report"

(* The terminal event, and the return of pack.                             *)
Report ==
  /\ phase = "report"
  /\ phase' = "done"
  /\ UNCHANGED <<request, disk, todo, file, log, broken, result, failure, stream>>
-----------------------------------------------------------------------------
(* The stream on its own: a piece is cut, written, or fails.  After a       *)
(* failure chunks are still cut when they are full, but never written.     *)
Own == UNCHANGED <<request, phase, disk, todo, file, log, result, failure>>

MayCutFault == Full
MayCut ==
  Full \/ (~ broken /\ (phase = "close" \/ (phase = "flush" /\ ~ Compressed(request.format))))

Cut == MayCut /\ Own /\ S!Submit /\ UNCHANGED broken
Emit == ~ broken /\ Own /\ S!Emit /\ UNCHANGED broken
Break ==
  /\ ~ broken /\ verdict = "none" /\ Len(emitted) < Len(submitted)
  /\ broken' = TRUE
  /\ UNCHANGED stream /\ Own

Session ==
  \/ Refuse \/ Begin \/ Create \/ CreateFails \/ Pick
  \/ WriteFails \/ VisitDir \/ VisitFile \/ VisitLink \/ VisitSocket \/ VisitFails
  \/ Copy \/ CopyFails \/ CopyEnds \/ WalkEnds
  \/ Finish \/ Flush \/ FlushFails \/ Abandon \/ Close \/ Report

Stream == Cut \/ Emit \/ Break

Next == Session \/ Stream

(* The thread of the caller runs, and the writer's jobs do.                *)
Fairness == WF_vars(Session) /\ WF_vars(Cut \/ Emit)

Spec == Init /\ [][Next]_vars /\ Fairness
-----------------------------------------------------------------------------
(* The archive of a tree: an item is followed by what is below it, in the  *)
(* order of the listings.  In a zip archive a link stands for what it      *)
(* points to, and a socket has the header of a file and no content.        *)
Item == [path : Seq(Node), node : Node, links : 0 .. LinkLimit]

OwnUnits(item, zip) ==
  CASE Kind(item.node) = "dir" -> <<Unit(item.path, 0)>>
    [] Kind(item.node) = "file" -> [k \in 1 .. Size(item.node) + 1 |-> Unit(item.path, k - 1)]
    [] Kind(item.node) = "link" /\ ~ zip -> <<Unit(item.path, 0)>>
    [] Kind(item.node) = "socket" /\ zip -> <<Unit(item.path, 0)>>
    [] OTHER -> <<>>

Below(item, zip) ==
  CASE Kind(item.node) = "dir" -> Items(Tree[item.node].children, item.path, item.links)
    [] Kind(item.node) = "link" /\ zip /\ item.links < LinkLimit -> <<Followed(item)>>
    [] OTHER -> <<>>

(* Directories end, and links are followed so often: an item has fewer     *)
(* levels below it than this.                                              *)
Levels(item) == (LinkLimit - item.links) * (TreeHeight + 1) + Height[item.node] + 1
MostLevels == (LinkLimit + 1) * (TreeHeight + 1)

Archived(zip) ==
  LET units[level \in 0 .. MostLevels] ==
        [item \in Item |->
           IF level = 0 THEN <<>>
           ELSE OwnUnits(item, zip) \o
                FlattenSeq([k \in DOMAIN Below(item, zip) |-> units[level - 1][Below(item, zip)[k]]])]
  IN  units

Packed(item, zip) == Archived(zip)[Levels(item)][item]

Archive(items, zip) == FlattenSeq([k \in DOMAIN items |-> Packed(items[k], zip)])

Wanted == Archive(Items(request.inputs, <<>>, 0), IsZip)

(* The units in front of the end mark.                                     *)
Entries(units) == IF units # <<>> /\ Last(units) = EndMark THEN Front(units) ELSE units
OnDisk == SubSeq(log, 1, S!StreamEnd(emitted))

(* Content follows its own header, piece by piece.                         *)
InOrder(units) ==
  \A k \in DOMAIN units : units[k].part > 0 =>
    k > 1 /\ units[k - 1] = Unit(units[k].path, units[k].part - 1)

(* What has reached the file is, but for the end mark, the beginning of    *)
(* the archive that was asked for, however the call fails: no entry is     *)
(* out of place, twice, or there without those before it.  Only the last   *)
(* may be short.                                                           *)
DiskIsPrefix ==
  LET entries == Entries(OnDisk)
  IN  IF IsZip THEN Range(entries) \subseteq Range(Wanted) /\ IsInjective(entries) /\ InOrder(entries)
      ELSE IsPrefix(entries, Wanted)

(* pack returns Ok only over a complete archive with its end mark; except  *)
(* for a stream that has broken, at any time, and of which no call was     *)
(* told: the chunk-parallel writer may run ahead of an error of its jobs,  *)
(* and what the buffer of a zip file holds is written when it is dropped.  *)
(* A plain tar is flushed, and has no exception.                           *)
Whole ==
  /\ OnDisk # <<>> /\ OnDisk[Len(OnDisk)] = EndMark
  /\ IF IsZip THEN Range(Entries(OnDisk)) = Range(Wanted) ELSE Entries(OnDisk) = Wanted

OkIsComplete ==
  phase = "done" /\ result = "ok" => Whole \/ (broken /\ request.format # "tar")

(* Every call of pack over directories, files, links and sockets returns,  *)
(* also over links that form a cycle.                                      *)
PackReturns == <>(phase = "done")

(* A compressor that is there is used: no call fails for want of a backend *)
(* while a backend of its registry could have compressed.                  *)
GpuFallsBack ==
  failure = "NoBackend" =>
    \A k \in DOMAIN Registry(request.choice) :
      LET b == Registry(request.choice)[k]
      IN  ~ (CanCompress(b, PayloadAlgorithm(request.format)) /\ Compressor(b))
=============================================================================
