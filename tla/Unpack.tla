------------------------------- MODULE Unpack -------------------------------
(***************************************************************************)
(* Extraction (gpzip x), with the progress display it reports to.  The     *)
(* entries of a zip archive are extracted by rayon's workers, those of     *)
(* tar, 7z and rar archives by the caller, one after the other; all go     *)
(* through the same steps, in which the formats differ a little.  Events   *)
(* go through an unbounded channel to the thread of the display, which     *)
(* ends when every sender is gone.                                         *)
(*                                                                         *)
(* A path is a sequence of names, relative to the destination.  The        *)
(* content of a file is a sequence of units; a unit nobody has written,    *)
(* before one that was, is a Hole.                                         *)
(***************************************************************************)
EXTENDS Integers, Sequences, FiniteSets

CONSTANTS
  Archives,  \* what may be extracted: [format, entries], an entry is [name, dir, data]
  Workers,   \* rayon's worker threads
  Main,      \* the worker that stands for the caller
  Hole

ASSUME MainAssumption == Main \in Workers

ASSUME ContentAssumption ==
  \A a \in Archives : a.entries \in Seq([name : Seq(STRING), dir : BOOLEAN, data : Seq(Nat)])

VARIABLES
  archive,
  phase,     \* of the caller: "start" | "open" | "extract" | "report" | "return" | "drop" | "finish"
             \*   | "join" | "done"
  todo,      \* the entries nobody has begun
  job,       \* worker -> the entry it is at, its step, and how much of it is written
  stop,      \* an entry has failed
  dirs, files,  \* what there is below the destination
  result,    \* "none" | "ok" | "err"
  events,    \* all events sent
  senders,   \* who holds a sender: "call", "session", "progress"
  shown,     \* how many events the display has received
  bar,       \* "spinning" | "done" | "error" | "cleared"
  display    \* "runs" | "ended"

tree == <<dirs, files>>
channel == <<senders, shown, bar, display>>
vars == <<archive, phase, todo, job, stop, dirs, files, result, events, senders, shown, bar, display>>

Format == archive.format
Entry(i) == archive.entries[i]
Indices == DOMAIN archive.entries
Idle == [at |-> 0, step |-> "idle", off |-> 0]

Event(kind, i) == [kind |-> kind, entry |-> i]
Send(kind, i) == events' = Append(events, Event(kind, i))

Init ==
  /\ archive \in Archives
  /\ phase = "start" /\ todo = {} /\ job = [w \in Workers |-> Idle] /\ stop = FALSE
  /\ dirs = {} /\ files = <<>> /\ result = "none" /\ events = <<>>
  /\ senders = {"session", "progress"} /\ shown = 0 /\ bar = "spinning" /\ display = "runs"
-----------------------------------------------------------------------------
(* Names: zip drops what leads out of the destination, 7z refuses it, and  *)
(* tar passes the entry over without an error.                             *)
Normal(name) == SelectSeq(name, LAMBDA c : c # "..")
Safe(i) == Entry(i).name = Normal(Entry(i).name)
Target(i) == Normal(Entry(i).name)

Refused(i) == Format = "7z" /\ ~ Safe(i)
PassedOver(i) == (Format = "tar" /\ ~ Safe(i)) \/ (Format = "rar" /\ Entry(i).dir)
Silent(i) == Format = "7z" /\ Entry(i).dir

WithParents(path) == {path} \cup {SubSeq(path, 1, k) : k \in 0 .. Len(path) - 1}
Parent(path) == SubSeq(path, 1, Len(path) - 1)

(* The call of an unknown format fails before anything is sent, and so     *)
(* does one whose destination cannot be made.  The caller hands a sender   *)
(* of its own to unpack, which owns it; the extractors of rar and 7z       *)
(* borrow the session's.                                                   *)
Start ==
  /\ phase = "start"
  /\ \/ phase' = "drop" /\ result' = "err" /\ UNCHANGED <<dirs, senders, events>>
     \/ /\ Format # "unknown"
        /\ phase' = "open" /\ dirs' = {<<>>}
        /\ senders' = senders \cup (IF Format \in {"zip", "tar"} THEN {"call"} ELSE {})
        /\ Send("Started", 0)
        /\ UNCHANGED result
  /\ UNCHANGED <<archive, todo, job, stop, files, shown, bar, display>>

Open ==
  /\ phase = "open"
  /\ phase' = "extract" /\ todo' = Indices
  /\ UNCHANGED <<archive, job, stop, tree, result, events, channel>>

OpenFails ==
  /\ phase = "open"
  /\ phase' = "report" /\ result' = "err"
  /\ UNCHANGED <<archive, todo, job, stop, tree, events, channel>>
-----------------------------------------------------------------------------
Same == UNCHANGED <<archive, phase, result, channel>>

Goes(w, step) == job' = [job EXCEPT ![w].step = step]
At(w, step) == phase = "extract" /\ job[w].step = step
In(w) == job[w].at

(* try_for_each_init stops handing out entries after an error; the loops   *)
(* of the other formats end there.  An entry is refused for its name, or   *)
(* because its header cannot be read.                                      *)
Mine(w, i) == Format = "zip" \/ (w = Main /\ \A j \in todo : i <= j)

Take(w, i) ==
  /\ At(w, "idle") /\ ~ stop /\ i \in todo /\ Mine(w, i)
  /\ todo' = todo \ {i}
  /\ \/ stop' = TRUE /\ UNCHANGED <<job, events>>
     \/ /\ ~ Refused(i)
        /\ job' = [job EXCEPT ![w] = [at |-> i, off |-> 0,
                     step |-> IF PassedOver(i) THEN "report" ELSE "make"]]
        /\ IF Silent(i) THEN UNCHANGED events ELSE Send("FileStarted", i)
        /\ UNCHANGED stop
  /\ Same /\ UNCHANGED tree

(* create_dir_all, of the entry or of its parent.                          *)
Needed(i) == WithParents(IF Entry(i).dir THEN Target(i) ELSE Parent(Target(i)))

MakeDirs(w) ==
  /\ At(w, "make")
  /\ Needed(In(w)) \cap DOMAIN files = {}
  /\ dirs' = dirs \cup Needed(In(w))
  /\ Goes(w, IF Entry(In(w)).dir THEN "report" ELSE "create")
  /\ Same /\ UNCHANGED <<todo, stop, files, events>>

(* File::create truncates what is there.                                   *)
Create(w) ==
  /\ At(w, "create") /\ Target(In(w)) \notin dirs
  /\ files' = [p \in DOMAIN files \cup {Target(In(w))} |->
                 IF p = Target(In(w)) THEN <<>> ELSE files[p]]
  /\ Goes(w, "copy")
  /\ Same /\ UNCHANGED <<todo, stop, dirs, events>>

Greater(a, b) == IF a > b THEN a ELSE b

(* A write at the writer's own offset.                                     *)
Written(content, off, unit) ==
  [k \in 1 .. Greater(Len(content), off) |->
     IF k = off THEN unit ELSE IF k <= Len(content) THEN content[k] ELSE Hole]

LeftFault(w) == job[w].off + 1 < Len(Entry(In(w)).data)
Left(w) == job[w].off < Len(Entry(In(w)).data)

Copy(w) ==
  /\ At(w, "copy") /\ Left(w)
  /\ LET off == job[w].off + 1
     IN  /\ files' = [files EXCEPT ![Target(In(w))] = Written(@, off, Entry(In(w)).data[off])]
         /\ job' = [job EXCEPT ![w].off = off]
  /\ Same /\ UNCHANGED <<todo, stop, dirs, events>>

CopyEnds(w) ==
  /\ At(w, "copy") /\ ~ Left(w)
  /\ Goes(w, "report")
  /\ Same /\ UNCHANGED <<todo, stop, tree, events>>

ReportEntry(w) ==
  /\ At(w, "report")
  /\ IF Silent(In(w)) THEN UNCHANGED events ELSE Send("FileFinished", In(w))
  /\ job' = [job EXCEPT ![w] = Idle]
  /\ Same /\ UNCHANGED <<todo, stop, tree>>

(* An entry fails: its directory, of whose path a part may have been made, *)
(* or its file cannot be made, it cannot be read or written to its end, or *)
(* the rar entry cannot be skipped.                                        *)
EntryFails(w) ==
  /\ \/ /\ At(w, "make")
        /\ \E made \in SUBSET Needed(In(w)) :
             /\ made \cap DOMAIN files = {}
             /\ \A path \in made : WithParents(path) \subseteq made
             /\ dirs' = dirs \cup made
     \/ /\ \/ At(w, "create") \/ At(w, "copy")
           \/ At(w, "report") /\ Format = "rar" /\ PassedOver(In(w))
        /\ UNCHANGED dirs
  /\ stop' = TRUE
  /\ job' = [job EXCEPT ![w] = Idle]
  /\ Same /\ UNCHANGED <<todo, files, events>>

AllIdleFault == TRUE
AllIdle == \A w \in Workers : job[w].step = "idle"

ExtractEnds ==
  /\ phase = "extract" /\ AllIdle /\ (stop \/ todo = {})
  /\ result' = IF stop THEN "err" ELSE "ok"
  /\ phase' = "report"
  /\ UNCHANGED <<archive, todo, job, stop, tree, events, channel>>
-----------------------------------------------------------------------------
Report ==
  /\ phase = "report"
  /\ Send(IF result = "ok" THEN "Finished" ELSE "Error", 0)
  /\ phase' = "return"
  /\ UNCHANGED <<archive, todo, job, stop, tree, result, channel>>

(* A holder of a sender drops it, and the caller goes on.                  *)
Drops(from, holder, to) ==
  /\ phase = from
  /\ senders' = senders \ {holder}
  /\ phase' = to
  /\ UNCHANGED <<archive, todo, job, stop, tree, result, events, shown, bar, display>>

Return == Drops("return", "call", "drop")

(* drop(sink) of run, then finish.                                         *)
DroppedFault == {}
Dropped == {"session"}
DropSink ==
  /\ phase = "drop"
  /\ senders' = senders \ Dropped
  /\ phase' = "finish"
  /\ UNCHANGED <<archive, todo, job, stop, tree, result, events, shown, bar, display>>

Finish == Drops("finish", "progress", "join")

Join ==
  /\ phase = "join" /\ display = "ended"
  /\ phase' = "done"
  /\ UNCHANGED <<archive, todo, job, stop, tree, result, events, channel>>

(* The thread of the display.                                              *)
BarAfter(event) ==
  CASE event.kind = "Finished" -> "done" [] event.kind = "Error" -> "error" [] OTHER -> bar

Receive ==
  /\ display = "runs" /\ shown < Len(events)
  /\ shown' = shown + 1
  /\ bar' = BarAfter(events[shown + 1])
  /\ UNCHANGED <<archive, phase, todo, job, stop, tree, result, events, senders, display>>

HungUpFault == senders = {}
HungUp == senders = {} /\ shown = Len(events)

DisplayEnds ==
  /\ display = "runs" /\ HungUp
  /\ display' = "ended"
  /\ bar' = IF bar = "spinning" THEN "cleared" ELSE bar
  /\ UNCHANGED <<archive, phase, todo, job, stop, tree, result, events, senders, shown>>

Caller == Start \/ Open \/ OpenFails \/ ExtractEnds \/ Report \/ Return \/ DropSink \/ Finish \/ Join
Worker(w) ==
  \/ \E i \in Indices : Take(w, i)
  \/ MakeDirs(w) \/ Create(w) \/ Copy(w) \/ CopyEnds(w) \/ ReportEntry(w) \/ EntryFails(w)
Display == Receive \/ DisplayEnds

Next == Caller \/ Display \/ \E w \in Workers : Worker(w)

(* The threads run.                                                        *)
Fairness == WF_vars(Caller) /\ WF_vars(Display) /\ \A w \in Workers : WF_vars(Worker(w))

Spec == Init /\ [][Next]_vars /\ Fairness
-----------------------------------------------------------------------------
Reported(i) == Event("FileFinished", i) \in {events[k] : k \in DOMAIN events}

(* Entries that are extracted to one path, i among them.                   *)
Rivals(i) == {j \in Indices : Target(j) = Target(i) /\ ~ PassedOver(j)}

OnDisk(i) ==
  IF Entry(i).dir THEN Target(i) \in dirs
  ELSE Target(i) \in DOMAIN files /\ files[Target(i)] = Entry(i).data

(* An entry that was reported finished, and has its path for itself, is    *)
(* whole on disk: while the others are extracted, after one of them has    *)
(* failed, and after the call.                                             *)
ReportedIsWhole ==
  \A i \in Indices : Reported(i) /\ ~ PassedOver(i) /\ Rivals(i) = {i} => OnDisk(i)

(* A call that returns Ok has made the files and the directories of the    *)
(* entries, and nothing else.  Where several entries have one path, the    *)
(* last of them wins, except for files in zip archives: of those no more   *)
(* is said than that a unit is at a place where one of them has it, for    *)
(* what is there depends on how the workers happened to run.               *)
LastOf(s) == CHOOSE j \in s : \A k \in s : k <= j

TreeIsRight ==
  phase = "done" /\ result = "ok" =>
    /\ DOMAIN files = {Target(i) : i \in {j \in Indices : ~ Entry(j).dir /\ ~ PassedOver(j)}}
    /\ dirs = {<<>>} \cup UNION {Needed(i) : i \in {j \in Indices : ~ PassedOver(j)}}
    /\ \A i \in Indices : ~ PassedOver(i) =>
         IF Format # "zip" \/ Rivals(i) = {i} \/ Entry(i).dir THEN OnDisk(LastOf(Rivals(i)))
         ELSE \A k \in DOMAIN files[Target(i)] :
                files[Target(i)][k] \in {Hole} \cup
                  {Entry(j).data[k] : j \in {r \in Rivals(i) : k <= Len(Entry(r).data)}}

(* When the command ends, the display has received everything and shows    *)
(* what the call returned; the event that says so came after all others.   *)
(* The bar of a call that failed before its first event does not say how   *)
(* the call ended.                                                         *)
BarTellsResult ==
  phase = "done" =>
    /\ shown = Len(events)
    /\ IF events = <<>> THEN bar \notin {"done", "error"} /\ result = "err"
       ELSE bar = IF result = "ok" THEN "done" ELSE "error"
    /\ \A k \in DOMAIN events : events[k].kind \in {"Finished", "Error"} <=> k = Len(events)

(* The command ends: finish joins a thread that waits for every sender.    *)
SessionEnds == <>(phase = "done")
=============================================================================
