----------------------------- MODULE UnpackProof -----------------------------
(***************************************************************************)
(* When the command ends, the progress bar says what the call returned;    *)
(* an entry that was reported finished is whole on disk; and a call that   *)
(* returns Ok has made the tree of the archive: for any set of archives    *)
(* and any number of workers.                                              *)
(*                                                                         *)
(* For the bar: the event that says how the call ended is the last of all  *)
(* (Told), the display ends only when nobody can send and all is received  *)
(* (Listening), and shows the last event it has received (Shows).  For     *)
(* the files: no two workers are at one entry (Once), and what a worker    *)
(* has written of an entry that has its path for itself is a prefix of the *)
(* entry's data (Progress), which no other worker touches.  For the tree:  *)
(* until an entry fails, the files are those of the entries made so far,   *)
(* each as its newest entry has it (Settled), which in the loops of tar,   *)
(* 7z and rar is the one at hand (InOrder); no path is both a directory    *)
(* and a file (Apart); a unit is where an entry has it (Units); and the    *)
(* directories are those the entries need (DirsAre).                       *)
(***************************************************************************)
EXTENDS Unpack, DataInduction, TLAPS

AnyEvent == [kind : {"Started", "FileStarted", "FileFinished", "Finished", "Error"},
        entry : Indices \cup {0}]
Places == [at : Indices \cup {0}, off : Nat,
           step : {"idle", "make", "create", "copy", "report"}]

Phases == {"start", "open", "extract", "report", "return", "drop", "finish", "join", "done"}

TypeInv ==
  /\ archive \in Archives /\ phase \in Phases /\ todo \subseteq Indices
  /\ job \in [Workers -> Places] /\ stop \in BOOLEAN /\ result \in {"none", "ok", "err"}
  /\ events \in Seq(AnyEvent) /\ shown \in 0 .. Len(events) /\ display \in {"runs", "ended"}
  /\ senders \subseteq {"call", "session", "progress"}

(* The event that says how the call ended.                                 *)
IsLast(e) == e.kind \in {"Finished", "Error"}

(* The phases in which something may be sent. *)
Sending == {"start", "open", "extract", "report"}

Told ==
  /\ phase = "start" => events = <<>>
  /\ phase \in Sending => \A k \in 1 .. Len(events) : ~ IsLast(events[k])
  /\ phase \notin Sending =>
       \/ events = <<>> /\ result = "err"
       \/ /\ events # <<>> /\ \A k \in 1 .. Len(events) : IsLast(events[k]) <=> k = Len(events)
          /\ events[Len(events)].kind = IF result = "ok" THEN "Finished" ELSE "Error"
  /\ phase \notin {"start", "open", "extract"} => result \in {"ok", "err"}

Listening ==
  /\ phase \notin {"join", "done"} => "progress" \in senders
  /\ display = "ended" => senders = {} /\ shown = Len(events)
  /\ phase = "done" => display = "ended"

Shows ==
  bar = IF shown > 0 /\ IsLast(events[shown])
          THEN IF events[shown].kind = "Finished" THEN "done" ELSE "error"
          ELSE IF display = "ended" THEN "cleared" ELSE "spinning"

(* Nobody is at an entry that waits or was reported, and no two workers    *)
(* are at one.                                                             *)
Busy(w) == job[w].step # "idle"

Once ==
  /\ \A w \in Workers : Busy(w) => In(w) \in Indices \ todo /\ ~ Reported(In(w))
  /\ \A w, v \in Workers : Busy(w) /\ Busy(v) /\ In(w) = In(v) => w = v
  /\ \A i \in todo : ~ Reported(i)
  /\ phase \in {"start", "open"} =>
       (\A w \in Workers : ~ Busy(w)) /\ \A i \in Indices : ~ Reported(i)

(* An entry that has its path for itself. *)
Alone(i) == Rivals(i) = {i} /\ ~ PassedOver(i)

(* How far a worker is with its entry, on disk.                            *)
Far(w, i) ==
  /\ job[w].step \in {"make", "create", "copy"} => ~ PassedOver(i)
  /\ job[w].step \in {"create", "copy"} => ~ Entry(i).dir
  /\ job[w].step \in {"make", "create"} => job[w].off = 0
  /\ job[w].step = "copy" /\ Alone(i) =>
       /\ job[w].off <= Len(Entry(i).data)
       /\ Target(i) \in DOMAIN files
       /\ files[Target(i)] = SubSeq(Entry(i).data, 1, job[w].off)
  /\ job[w].step = "report" /\ Alone(i) => OnDisk(i)

Progress == \A w \in Workers, i \in Indices : In(w) = i => Far(w, i)

UInv == TypeInv /\ Told /\ Listening /\ Shows /\ Once /\ Progress /\ ReportedIsWhole
-----------------------------------------------------------------------------
LEMMA Initially == Init => UInv
<1> SUFFICES ASSUME Init PROVE UInv
  OBVIOUS
<1>1. /\ events = <<>> /\ phase = "start" /\ shown = 0 /\ todo = {} /\ bar = "spinning"
      /\ display = "runs" /\ senders = {"session", "progress"}
      /\ \A w \in Workers : job[w] = Idle
  BY DEF Init
<1>2. Idle \in Places /\ Idle.step = "idle"
  BY DEF Idle, Places
<1>3. TypeInv
  <2>1. events \in Seq(AnyEvent) /\ shown \in 0 .. Len(events)
    BY <1>1
  <2>2. job \in [Workers -> Places]
    BY <1>2 DEF Init
  <2> QED BY <1>1, <2>1, <2>2 DEF Init, TypeInv, Phases
<1>4. Told /\ Listening /\ Shows
  BY <1>1 DEF Told, Listening, Shows, Sending
<1>5. \A i : ~ Reported(i)
  BY <1>1 DEF Reported
<1>6. Once /\ Progress /\ ReportedIsWhole
  BY <1>1, <1>2, <1>5 DEF Once, Busy, Progress, Far, ReportedIsWhole
<1> QED BY <1>3, <1>4, <1>6 DEF UInv

(* A step of a worker that goes on to the next step of its entry.          *)
LEMMA Moves ==
  ASSUME TypeInv, NEW w \in Workers, NEW step \in {"idle", "make", "create", "copy", "report"},
         Goes(w, step)
  PROVE  /\ job' \in [Workers -> Places]
         /\ job'[w].step = step /\ job'[w].at = job[w].at /\ job'[w].off = job[w].off
         /\ \A v \in Workers \ {w} : job'[v] = job[v]
BY DEF Goes, TypeInv, Places

LEMMA EventTypes ==
  ASSUME TypeInv
  PROVE  /\ \A i \in Indices \cup {0} :
              \A kind \in {"Started", "FileStarted", "FileFinished", "Finished", "Error"} :
                Event(kind, i) \in AnyEvent /\ Event(kind, i).kind = kind
         /\ Len(events) \in Nat /\ shown \in Nat
<1>1. events \in Seq(AnyEvent) /\ shown \in 0 .. Len(events)
  BY DEF TypeInv
<1>2. Len(events) \in Nat /\ shown \in Nat
  BY <1>1
<1>3. ASSUME NEW i \in Indices \cup {0},
             NEW kind \in {"Started", "FileStarted", "FileFinished", "Finished", "Error"}
      PROVE  Event(kind, i) \in AnyEvent /\ Event(kind, i).kind = kind
  <2>2. Event(kind, i) = [kind |-> kind, entry |-> i]
    BY DEF Event
  <2> QED BY <2>2 DEF AnyEvent
<1> QED BY <1>2, <1>3

LEMMA ArchiveStays ==
  ASSUME Next
  PROVE  archive' = archive /\ Indices' = Indices /\ AnyEvent' = AnyEvent /\ Places' = Places
<1>1. archive' = archive
  <2>1. CASE Caller
    BY <2>1 DEF Caller, Start, Open, OpenFails, ExtractEnds, Report, Return, DropSink, Finish, Join, Drops
  <2>2. CASE Display
    BY <2>2 DEF Display, Receive, DisplayEnds
  <2>3. ASSUME NEW w \in Workers, Worker(w) PROVE archive' = archive
    BY <2>3 DEF Worker, Take, MakeDirs, Create, Copy, CopyEnds, ReportEntry, EntryFails, Same
  <2> QED BY <2>1, <2>2, <2>3 DEF Next
<1> QED BY <1>1 DEF Indices, AnyEvent, Places

LEMMA TypeStep ==
  ASSUME TypeInv, Next
  PROVE  TypeInv'
<1>0. archive' = archive /\ Indices' = Indices /\ AnyEvent' = AnyEvent /\ Places' = Places
  BY ArchiveStays
<1>1. /\ job \in [Workers -> Places] /\ events \in Seq(AnyEvent) /\ Len(events) \in Nat
      /\ shown \in 0 .. Len(events) /\ phase \in Phases /\ result \in {"none", "ok", "err"}
      /\ archive \in Archives /\ todo \subseteq Indices /\ stop \in BOOLEAN
      /\ display \in {"runs", "ended"} /\ senders \subseteq {"call", "session", "progress"}
  BY DEF TypeInv
<1>2. Idle \in Places
  BY DEF Idle, Places
<1>3. ASSUME NEW e \in AnyEvent, events' = Append(events, e), shown' = shown
      PROVE  events' \in Seq(AnyEvent) /\ shown' \in 0 .. Len(events')
  BY <1>1, <1>0, <1>3
<1> USE DEF channel, tree, Same, Phases
<1>4. CASE Start
  <2>1. senders' \subseteq {"call", "session", "progress"}
    BY <1>1, <1>0, <1>4 DEF Start
  <2>2. events' \in Seq(AnyEvent) /\ shown' \in 0 .. Len(events')
    BY <1>1, <1>0, <1>3, <1>4, EventTypes DEF Start, Send
  <2> QED BY <1>1, <1>0, <1>4, <2>1, <2>2 DEF Start, TypeInv
<1>5. CASE Open \/ OpenFails \/ ExtractEnds \/ Join
  BY <1>1, <1>0, <1>5 DEF Open, OpenFails, ExtractEnds, Join, TypeInv
<1>6. CASE Report
  <2>1. events' \in Seq(AnyEvent) /\ shown' \in 0 .. Len(events')
    BY <1>1, <1>0, <1>3, <1>6, EventTypes DEF Report, Send
  <2> QED BY <1>1, <1>0, <1>6, <2>1 DEF Report, TypeInv
<1>7. CASE Return \/ DropSink \/ Finish
  BY <1>1, <1>0, <1>7 DEF Return, DropSink, Finish, Drops, TypeInv
<1>8. CASE Receive
  BY <1>1, <1>0, <1>8 DEF Receive, TypeInv
<1>9. CASE DisplayEnds
  BY <1>1, <1>0, <1>9 DEF DisplayEnds, TypeInv
<1>10. ASSUME NEW w \in Workers, NEW i \in Indices, Take(w, i) PROVE TypeInv'
  <2>1. job' \in [Workers -> Places]
    <3>1. \A step \in {"make", "report"} : [at |-> i, off |-> 0, step |-> step] \in Places
      BY DEF Places
    <3> QED BY <1>1, <1>0, <1>10, <3>1 DEF Take
  <2>2. events' \in Seq(AnyEvent) /\ shown' \in 0 .. Len(events')
    BY <1>1, <1>0, <1>3, <1>10, EventTypes DEF Take, Send
  <2> QED BY <1>1, <1>0, <1>10, <2>1, <2>2 DEF Take, TypeInv
<1>11. ASSUME NEW w \in Workers, MakeDirs(w) \/ Create(w) \/ CopyEnds(w) PROVE TypeInv'
  <2>1. job' \in [Workers -> Places]
    BY <1>11, Moves DEF MakeDirs, Create, CopyEnds
  <2> QED BY <1>1, <1>0, <1>11, <2>1 DEF MakeDirs, Create, CopyEnds, TypeInv
<1>12. ASSUME NEW w \in Workers, Copy(w) PROVE TypeInv'
  <2>1. job' \in [Workers -> Places]
    <3>1. job[w].off + 1 \in Nat /\ job' = [job EXCEPT ![w].off = job[w].off + 1]
      BY <1>1, <1>12 DEF Copy, Places
    <3> QED BY <1>1, <3>1 DEF Places
  <2> QED BY <1>1, <1>0, <1>12, <2>1 DEF Copy, TypeInv
<1>13. ASSUME NEW w \in Workers, ReportEntry(w) \/ EntryFails(w) PROVE TypeInv'
  <2>1. job' \in [Workers -> Places]
    BY <1>1, <1>0, <1>2, <1>13 DEF ReportEntry, EntryFails
  <2>2. events' \in Seq(AnyEvent) /\ shown' \in 0 .. Len(events')
    <3>1. In(w) \in Indices \cup {0}
      BY <1>1 DEF In, Places
    <3> QED BY <1>1, <1>0, <1>3, <1>13, <3>1, EventTypes DEF ReportEntry, EntryFails, Send
  <2> QED BY <1>1, <1>0, <1>13, <2>1, <2>2 DEF ReportEntry, EntryFails, TypeInv
<1> QED
  BY <1>4, <1>5, <1>6, <1>7, <1>8, <1>9, <1>10, <1>11, <1>12, <1>13 DEF Next, Caller, Display, Worker

LEMMA Appended ==
  ASSUME TypeInv, NEW e \in AnyEvent, events' = Append(events, e)
  PROVE  /\ Len(events') = Len(events) + 1
         /\ \A k \in 1 .. Len(events) : events'[k] = events[k]
         /\ events'[Len(events) + 1] = e /\ events' # <<>>
BY DEF TypeInv

(* A worker sends nothing or an event of its entry, and leaves the rest of *)
(* the session alone.                                                      *)
LEMMA WorkerStep ==
  ASSUME TypeInv, NEW w \in Workers, Worker(w)
  PROVE  /\ phase = "extract" /\ phase' = phase /\ result' = result
         /\ senders' = senders /\ shown' = shown /\ bar' = bar /\ display' = display
         /\ \/ events' = events
            \/ \E i \in Indices \cup {0} : \E kind \in {"FileStarted", "FileFinished"} :
                 events' = Append(events, Event(kind, i))
<1> USE DEF Same, channel, At
<1>1. ASSUME NEW i \in Indices, Take(w, i)
      PROVE  events' = events \/ events' = Append(events, Event("FileStarted", i))
  BY <1>1 DEF Take, Send
<1>2. ASSUME ReportEntry(w)
      PROVE  /\ events' = events \/ events' = Append(events, Event("FileFinished", In(w)))
             /\ In(w) \in Indices \cup {0}
  BY <1>2 DEF ReportEntry, Send, TypeInv, In, Places
<1>3. ASSUME MakeDirs(w) \/ Create(w) \/ Copy(w) \/ CopyEnds(w) \/ EntryFails(w)
      PROVE  events' = events
  BY <1>3 DEF MakeDirs, Create, Copy, CopyEnds, EntryFails
<1>4. /\ phase = "extract" /\ phase' = phase /\ result' = result
      /\ senders' = senders /\ shown' = shown /\ bar' = bar /\ display' = display
  BY DEF Worker, Take, MakeDirs, Create, Copy, CopyEnds, ReportEntry, EntryFails
<1>5. \/ events' = events
      \/ \E i \in Indices \cup {0} : \E kind \in {"FileStarted", "FileFinished"} :
            events' = Append(events, Event(kind, i))
  BY <1>1, <1>2, <1>3 DEF Worker
<1> QED BY <1>4, <1>5

LEMMA ToldStep ==
  ASSUME TypeInv, Told, Next
  PROVE  Told'
<1>1. events \in Seq(AnyEvent) /\ Len(events) \in Nat
  BY DEF TypeInv
<1> USE DEF Sending, IsLast, channel
<1>2. CASE Start
  <2>1. events = <<>>
    BY <1>2 DEF Start, Told
  <2>2. CASE phase' = "drop" /\ result' = "err" /\ events' = events
    BY <2>1, <2>2 DEF Told
  <2>3. CASE phase' = "open" /\ events' = Append(events, Event("Started", 0))
    <3>1. Event("Started", 0) \in AnyEvent /\ Event("Started", 0).kind = "Started"
      BY EventTypes
    <3>2. Len(events') = 1 /\ events'[1] = Event("Started", 0)
      BY <2>1, <2>3
    <3> QED BY <2>3, <3>1, <3>2 DEF Told
  <2> QED BY <1>2, <2>2, <2>3 DEF Start, Send
<1>3. CASE Open \/ OpenFails \/ ExtractEnds
  BY <1>1, <1>3 DEF Open, OpenFails, ExtractEnds, Told
<1>4. CASE Report
  <2> DEFINE kind == IF result = "ok" THEN "Finished" ELSE "Error"
  <2>1. Event(kind, 0) \in AnyEvent /\ Event(kind, 0).kind = kind
    BY EventTypes
  <2>2. events' = Append(events, Event(kind, 0)) /\ result' = result /\ phase = "report"
        /\ phase' = "return"
    BY <1>4 DEF Report, Send
  <2> HIDE DEF kind
  <2>3. /\ Len(events') = Len(events) + 1 /\ events' # <<>>
        /\ \A k \in 1 .. Len(events) : events'[k] = events[k]
        /\ events'[Len(events) + 1] = Event(kind, 0)
    BY <2>1, <2>2, Appended
  <2>4. \A k \in 1 .. Len(events) : ~ IsLast(events[k])
    BY <2>2 DEF Told
  <2>5. IsLast(Event(kind, 0)) /\ result' \in {"ok", "err"}
    BY <2>1, <2>2 DEF kind, Told
  <2>6. \A k \in 1 .. Len(events') : IsLast(events'[k]) <=> k = Len(events')
    <3> SUFFICES ASSUME NEW k \in 1 .. Len(events) + 1
                 PROVE  IsLast(events'[k]) <=> k = Len(events) + 1
      BY <2>3
    <3> QED BY <1>1, <2>3, <2>4, <2>5
  <2>7. events'[Len(events')].kind = IF result' = "ok" THEN "Finished" ELSE "Error"
    BY <2>1, <2>2, <2>3 DEF kind
  <2> QED BY <2>2, <2>3, <2>5, <2>6, <2>7 DEF Told
<1>5. CASE Return \/ DropSink \/ Finish \/ Join
  BY <1>5 DEF Return, DropSink, Finish, Join, Drops, Told
<1>6. CASE Display
  BY <1>6 DEF Display, Receive, DisplayEnds, Told
<1>7. ASSUME NEW w \in Workers, Worker(w) PROVE Told'
  <2>1. CASE events' = events
    BY <1>7, <2>1, WorkerStep DEF Told
  <2>2. ASSUME NEW i \in Indices \cup {0}, NEW kind \in {"FileStarted", "FileFinished"},
               events' = Append(events, Event(kind, i))
        PROVE  Told'
    <3>1. Event(kind, i) \in AnyEvent /\ ~ IsLast(Event(kind, i))
      BY EventTypes
    <3>2. /\ Len(events') = Len(events) + 1
          /\ \A k \in 1 .. Len(events) : events'[k] = events[k]
          /\ events'[Len(events) + 1] = Event(kind, i)
      BY <2>2, <3>1, Appended
    <3>3. phase = "extract" /\ phase' = phase
      BY <1>7, WorkerStep
    <3>4. \A k \in 1 .. Len(events') : ~ IsLast(events'[k])
      <4>1. \A k \in 1 .. Len(events) : ~ IsLast(events[k])
        BY <3>3 DEF Told
      <4> QED BY <1>1, <3>1, <3>2, <4>1
    <3> QED BY <3>3, <3>4 DEF Told
  <2> QED BY <1>7, <2>1, <2>2, WorkerStep
<1> QED BY <1>2, <1>3, <1>4, <1>5, <1>6, <1>7 DEF Next, Caller

(* The events that were sent stay as they are. *)
LEMMA EventsStay ==
  ASSUME TypeInv, Next
  PROVE  \A k \in 1 .. Len(events) : events'[k] = events[k]
<1>1. ASSUME NEW e \in AnyEvent, events' = Append(events, e)
      PROVE  \A k \in 1 .. Len(events) : events'[k] = events[k]
  BY <1>1, Appended
<1>2. CASE Start
  BY <1>1, <1>2, EventTypes DEF Start, Send
<1>3. CASE Report
  BY <1>1, <1>3, EventTypes DEF Report, Send
<1>4. CASE Open \/ OpenFails \/ ExtractEnds \/ Return \/ DropSink \/ Finish \/ Join
  BY <1>4 DEF Open, OpenFails, ExtractEnds, Return, DropSink, Finish, Join, Drops
<1>5. CASE Display
  BY <1>5 DEF Display, Receive, DisplayEnds
<1>6. ASSUME NEW w \in Workers, Worker(w)
      PROVE  \A k \in 1 .. Len(events) : events'[k] = events[k]
  BY <1>1, <1>6, WorkerStep, EventTypes
<1> QED BY <1>2, <1>3, <1>4, <1>5, <1>6 DEF Next, Caller

LEMMA ListeningStep ==
  ASSUME TypeInv, Listening, Next
  PROVE  Listening'
<1> USE DEF channel
<1>1. "progress" \in senders => display # "ended"
  BY DEF Listening
<1>2. CASE Start \/ Open \/ OpenFails \/ ExtractEnds \/ Report
  BY <1>1, <1>2 DEF Start, Open, OpenFails, ExtractEnds, Report, Listening
<1>3. CASE Return \/ DropSink \/ Finish \/ Join
  BY <1>3 DEF Return, DropSink, Dropped, Finish, Join, Drops, Listening
<1>4. CASE Display
  BY <1>4 DEF Display, Receive, DisplayEnds, HungUp, Listening
<1>5. ASSUME NEW w \in Workers, Worker(w) PROVE Listening'
  BY <1>1, <1>5, WorkerStep DEF Listening
<1> QED BY <1>2, <1>3, <1>4, <1>5 DEF Next, Caller

LEMMA ShowsStep ==
  ASSUME TypeInv, Told, Listening, Shows, Next
  PROVE  Shows'
<1>1. /\ \A k \in 1 .. Len(events) : events'[k] = events[k]
      /\ shown \in 0 .. Len(events) /\ Len(events) \in Nat
  BY EventsStay DEF TypeInv
<1>2. ASSUME shown' = shown, bar' = bar, display' = display PROVE Shows'
  <2>1. shown > 0 => events'[shown] = events[shown]
    BY <1>1
  <2> QED BY <1>2, <2>1 DEF Shows, IsLast
<1>3. CASE Caller
  BY <1>2, <1>3 DEF Caller, Start, Open, OpenFails, ExtractEnds, Report, Return, DropSink, Finish,
                    Join, Drops, channel
<1>4. CASE Receive
  <2>1. /\ shown' = shown + 1 /\ shown < Len(events) /\ events' = events /\ display' = "runs"
        /\ display = "runs" /\ bar' = BarAfter(events[shown + 1])
    BY <1>4 DEF Receive
  <2>2. shown > 0 => ~ IsLast(events[shown])
    <3>1. CASE phase \in Sending
      BY <1>1, <2>1, <3>1 DEF Told
    <3>2. CASE phase \notin Sending
      <4>1. events # <<>>
        BY <2>1, <1>1
      <4>2. \A k \in 1 .. Len(events) : IsLast(events[k]) <=> k = Len(events)
        BY <3>2, <4>1 DEF Told
      <4> QED BY <1>1, <2>1, <4>2
    <3> QED BY <3>1, <3>2
  <2>3. bar = "spinning"
    BY <2>1, <2>2 DEF Shows
  <2>4. shown + 1 > 0
    BY <1>1
  <2> QED BY <2>1, <2>3, <2>4 DEF Shows, BarAfter, IsLast
<1>5. CASE DisplayEnds
  BY <1>5 DEF DisplayEnds, Shows, IsLast
<1>6. ASSUME NEW w \in Workers, Worker(w) PROVE Shows'
  BY <1>2, <1>6, WorkerStep
<1> QED BY <1>3, <1>4, <1>5, <1>6 DEF Next, Display
-----------------------------------------------------------------------------
(* What the archive says of an entry stays. *)
LEMMA EntriesStay ==
  ASSUME Next
  PROVE  /\ Indices' = Indices
         /\ \A i : /\ Entry(i)' = Entry(i) /\ Target(i)' = Target(i) /\ Rivals(i)' = Rivals(i)
                  /\ (PassedOver(i)' <=> PassedOver(i)) /\ (Silent(i)' <=> Silent(i))
                  /\ (Alone(i)' <=> Alone(i))
<1>1. archive' = archive /\ Indices' = Indices
  BY ArchiveStays
<1>2. Format' = Format /\ \A i : Entry(i)' = Entry(i)
  BY <1>1 DEF Format, Entry
<1>3. \A i : /\ Target(i)' = Target(i) /\ (PassedOver(i)' <=> PassedOver(i))
            /\ (Silent(i)' <=> Silent(i))
  BY <1>2 DEF Target, PassedOver, Silent, Safe
<1>4. \A i : Rivals(i)' = Rivals(i)
  BY <1>1, <1>3 DEF Rivals
<1> QED BY <1>1, <1>2, <1>3, <1>4 DEF Alone

(* Only a worker that reports an entry adds to what is reported. *)
LEMMA ReportedAfter ==
  ASSUME TypeInv, NEW e \in AnyEvent, events' = Append(events, e)
  PROVE  \A i : Reported(i)' <=> Reported(i) \/ e = Event("FileFinished", i)
<1>1. /\ Len(events') = Len(events) + 1 /\ DOMAIN events = 1 .. Len(events)
      /\ DOMAIN events' = 1 .. Len(events') /\ Len(events) \in Nat
      /\ \A k \in 1 .. Len(events) : events'[k] = events[k]
      /\ events'[Len(events) + 1] = e
  BY Appended DEF TypeInv
<1> SUFFICES ASSUME NEW i
             PROVE  Reported(i)' <=> Reported(i) \/ e = Event("FileFinished", i)
  OBVIOUS
<1> DEFINE told == Event("FileFinished", i)
<1>2. Reported(i)' <=> \E k \in DOMAIN events' : events'[k] = told
  BY DEF Reported, Event
<1>3. Reported(i) <=> \E k \in DOMAIN events : events[k] = told
  BY DEF Reported
<1> HIDE DEF told
<1>4. (\E k \in DOMAIN events' : events'[k] = told)
        <=> (\E k \in DOMAIN events : events[k] = told) \/ e = told
  BY <1>1
<1> QED BY <1>2, <1>3, <1>4 DEF told

LEMMA ReportedStays ==
  ASSUME TypeInv, Next
  PROVE  \/ \A i : Reported(i)' <=> Reported(i)
         \/ \E w \in Workers : /\ ReportEntry(w) /\ In(w) \in Indices \cup {0}
                              /\ \A i \in Indices : Reported(i)' => Reported(i) \/ i = In(w)
<1> USE DEF channel, Same
<1>1. ASSUME events' = events PROVE \A i : Reported(i)' <=> Reported(i)
  BY <1>1 DEF Reported
<1>2. ASSUME NEW i \in Indices \cup {0},
             NEW kind \in {"Started", "FileStarted", "Finished", "Error"},
             events' = Append(events, Event(kind, i))
      PROVE  \A j : Reported(j)' <=> Reported(j)
  <2>1. Event(kind, i) \in AnyEvent
    BY EventTypes
  <2>2. \A j : Event(kind, i) # Event("FileFinished", j)
    BY DEF Event
  <2> QED BY <1>2, <2>1, <2>2, ReportedAfter
<1>3. CASE Start \/ Report
  BY <1>1, <1>2, <1>3 DEF Start, Report, Send
<1>4. CASE Open \/ OpenFails \/ ExtractEnds \/ Return \/ DropSink \/ Finish \/ Join
  BY <1>1, <1>4 DEF Open, OpenFails, ExtractEnds, Return, DropSink, Finish, Join, Drops
<1>5. CASE Display
  BY <1>1, <1>5 DEF Display, Receive, DisplayEnds
<1>6. ASSUME NEW w \in Workers, NEW i \in Indices, Take(w, i)
      PROVE  \A j : Reported(j)' <=> Reported(j)
  BY <1>1, <1>2, <1>6 DEF Take, Send
<1>7. ASSUME NEW w \in Workers,
             MakeDirs(w) \/ Create(w) \/ Copy(w) \/ CopyEnds(w) \/ EntryFails(w)
      PROVE  \A j : Reported(j)' <=> Reported(j)
  BY <1>1, <1>7 DEF MakeDirs, Create, Copy, CopyEnds, EntryFails
<1>8. ASSUME NEW w \in Workers, ReportEntry(w)
      PROVE  /\ In(w) \in Indices \cup {0}
             /\ \A i \in Indices : Reported(i)' => Reported(i) \/ i = In(w)
  <2>1. In(w) \in Indices \cup {0}
    BY DEF TypeInv, In, Places
  <2>2. Event("FileFinished", In(w)) \in AnyEvent
    BY <2>1, EventTypes
  <2>3. \A i : Event("FileFinished", In(w)) = Event("FileFinished", i) => i = In(w)
    BY DEF Event
  <2>4. events' = events \/ events' = Append(events, Event("FileFinished", In(w)))
    BY <1>8 DEF ReportEntry, Send
  <2> QED BY <1>1, <2>1, <2>2, <2>3, <2>4, ReportedAfter
<1>9. ASSUME NEW w \in Workers, Worker(w)
      PROVE  (\A i : Reported(i)' <=> Reported(i)) \/ ReportEntry(w)
  BY <1>6, <1>7, <1>9 DEF Worker
<1> QED BY <1>3, <1>4, <1>5, <1>8, <1>9 DEF Next, Caller

(* What a step of a worker does to its own entry and to the others'. *)
LEMMA OnceStep ==
  ASSUME TypeInv, Once, Next
  PROVE  Once'
<1> USE DEF channel, tree, Same, In, Busy
<1>0. Indices' = Indices /\ job \in [Workers -> Places]
  BY ArchiveStays DEF TypeInv
<1>1. ASSUME \A i : Reported(i)' <=> Reported(i),
             \A w \in Workers : job'[w] = job[w] \/ job'[w].step = "idle"
                                \/ (Busy(w) /\ job'[w].at = job[w].at),
             todo' \subseteq todo, phase' \in {"start", "open"} => phase \in {"start", "open"} /\ job' = job
      PROVE  Once'
  <2>1. \A w \in Workers : Busy(w)' => Busy(w) /\ In(w)' = In(w)
    BY <1>1
  <2>2. \A w \in Workers : Busy(w)' => In(w)' \in Indices' \ todo' /\ ~ Reported(In(w))'
    BY <1>0, <1>1, <2>1 DEF Once
  <2>3. \A w, v \in Workers : Busy(w)' /\ Busy(v)' /\ In(w)' = In(v)' => w = v
    BY <2>1 DEF Once
  <2>4. \A i \in todo' : ~ Reported(i)'
    BY <1>1 DEF Once
  <2>5. phase' \in {"start", "open"} =>
          (\A w \in Workers : ~ Busy(w)') /\ \A i \in Indices' : ~ Reported(i)'
    BY <1>0, <1>1 DEF Once
  <2> QED BY <2>2, <2>3, <2>4, <2>5 DEF Once
<1>2. ASSUME \A w \in Workers : ~ ReportEntry(w) PROVE \A i : Reported(i)' <=> Reported(i)
  BY <1>2, ReportedStays
<1>3. CASE Start \/ OpenFails \/ ExtractEnds \/ Report \/ Return \/ DropSink \/ Finish \/ Join
  <2>1. /\ job' = job /\ todo' = todo
        /\ phase' \in {"start", "open"} => phase \in {"start", "open"}
    BY <1>3 DEF Start, OpenFails, ExtractEnds, Report, Return, DropSink, Finish, Join, Drops
  <2>2. \A w \in Workers : ~ ReportEntry(w)
    BY <1>3, <2>1 DEF ReportEntry, Start, OpenFails, ExtractEnds, Report, Return, DropSink, Finish,
                      Join, Drops, At
  <2> QED BY <1>1, <1>2, <2>1, <2>2
<1>4. CASE Open
  <2>1. /\ job' = job /\ todo' = Indices /\ phase = "open" /\ phase' = "extract"
        /\ events' = events
    BY <1>4 DEF Open
  <2>2. \A i : Reported(i)' <=> Reported(i)
    BY <2>1 DEF Reported
  <2> QED BY <1>0, <2>1, <2>2 DEF Once
<1>5. CASE Display
  <2>1. job' = job /\ todo' = todo /\ phase' = phase /\ events' = events
    BY <1>5 DEF Display, Receive, DisplayEnds
  <2>2. \A i : Reported(i)' <=> Reported(i)
    BY <2>1 DEF Reported
  <2> QED BY <1>1, <2>1, <2>2
<1>6. ASSUME NEW w \in Workers, NEW i \in Indices, Take(w, i) PROVE Once'
  <2>1. /\ phase' = phase /\ phase = "extract" /\ todo' = todo \ {i} /\ i \in todo
        /\ \/ job' = job
           \/ /\ \A v \in Workers \ {w} : job'[v] = job[v]
              /\ job'[w].at = i
    BY <1>0, <1>6 DEF Take, At
  <2>2. \A j : Reported(j)' <=> Reported(j)
    <3>1. \A v \in Workers : ~ ReportEntry(v)
      BY <1>0, <1>6 DEF Take, ReportEntry
    <3> QED BY <1>2, <3>1
  <2>3. CASE job' = job
    BY <1>1, <2>1, <2>2, <2>3
  <2>4. CASE /\ \A v \in Workers \ {w} : job'[v] = job[v]
             /\ job'[w].at = i
    <3>1. \A v \in Workers : Busy(v)' => In(v)' \in Indices' \ todo' /\ ~ Reported(In(v))'
      BY <1>0, <2>1, <2>2, <2>4 DEF Once
    <3>2. \A v \in Workers \ {w} : Busy(v)' => In(v)' # i
      BY <2>1, <2>4 DEF Once
    <3>3. \A u, v \in Workers : Busy(u)' /\ Busy(v)' /\ In(u)' = In(v)' => u = v
      BY <2>4, <3>2 DEF Once
    <3>4. \A j \in todo' : ~ Reported(j)'
      BY <2>1, <2>2 DEF Once
    <3> QED BY <2>1, <3>1, <3>3, <3>4 DEF Once
  <2> QED BY <2>1, <2>3, <2>4
<1>7. ASSUME NEW w \in Workers,
             MakeDirs(w) \/ Create(w) \/ Copy(w) \/ CopyEnds(w) \/ EntryFails(w)
      PROVE  Once'
  <2>1. /\ phase' = phase /\ phase = "extract" /\ todo' = todo /\ Busy(w)
    BY <1>7 DEF MakeDirs, Create, Copy, CopyEnds, EntryFails, At
  <2>2. /\ \A v \in Workers \ {w} : job'[v] = job[v]
        /\ job'[w].step = "idle" \/ job'[w].at = job[w].at
    <3>1. CASE MakeDirs(w) \/ Create(w) \/ CopyEnds(w)
      BY <3>1, Moves DEF MakeDirs, Create, CopyEnds
    <3>2. CASE Copy(w)
      BY <1>0, <3>2 DEF Copy, Places
    <3>3. CASE EntryFails(w)
      BY <1>0, <3>3 DEF EntryFails, Idle
    <3> QED BY <1>7, <3>1, <3>2, <3>3
  <2>3. events' = events
    BY <1>7 DEF MakeDirs, Create, Copy, CopyEnds, EntryFails
  <2>4. \A i : Reported(i)' <=> Reported(i)
    BY <2>3 DEF Reported
  <2> QED BY <1>1, <2>1, <2>2, <2>4
<1>8. ASSUME NEW w \in Workers, ReportEntry(w) PROVE Once'
  <2>1. /\ phase' = phase /\ phase = "extract" /\ todo' = todo /\ Busy(w)
        /\ \A v \in Workers \ {w} : job'[v] = job[v]
        /\ job'[w].step = "idle"
    BY <1>0, <1>8 DEF ReportEntry, At, Idle
  <2>2. \A i \in Indices : Reported(i)' => Reported(i) \/ i = In(w)
    <3>1. ASSUME NEW v \in Workers, ReportEntry(v) PROVE v = w
      <4>1. job'[v].step = "idle" /\ job[v].step # "idle"
        BY <1>0, <3>1 DEF ReportEntry, At, Idle
      <4> QED BY <2>1, <4>1
    <3> QED BY <3>1, ReportedStays
  <2>3. \A v \in Workers : Busy(v)' => v # w /\ Busy(v) /\ In(v)' = In(v) /\ In(v) # In(w)
    BY <2>1 DEF Once
  <2>4. \A v \in Workers : Busy(v)' => In(v)' \in Indices' \ todo' /\ ~ Reported(In(v))'
    BY <1>0, <2>1, <2>2, <2>3 DEF Once
  <2>5. \A u, v \in Workers : Busy(u)' /\ Busy(v)' /\ In(u)' = In(v)' => u = v
    BY <2>3 DEF Once
  <2>6. \A i \in todo' : ~ Reported(i)'
    <3>1. In(w) \notin todo /\ todo \subseteq Indices
      BY <2>1 DEF Once, TypeInv
    <3> QED BY <2>1, <2>2, <3>1 DEF Once
  <2> QED BY <2>1, <2>4, <2>5, <2>6 DEF Once
<1> QED BY <1>3, <1>4, <1>5, <1>6, <1>7, <1>8 DEF Next, Caller, Worker
-----------------------------------------------------------------------------
(* One more unit in its place is one more unit of the content. *)
LEMMA WrittenNext ==
  ASSUME NEW data \in Seq(Nat), NEW off \in Nat, off < Len(data)
  PROVE  Written(SubSeq(data, 1, off), off + 1, data[off + 1]) = SubSeq(data, 1, off + 1)
<1> DEFINE part == SubSeq(data, 1, off)
<1>1. off \in 0 .. Len(data) /\ off + 1 \in 1 .. Len(data) /\ Len(data) \in Nat
  OBVIOUS
<1>2. Len(part) = off /\ \A k \in 1 .. off : part[k] = data[k]
  BY <1>1
<1>3. SubSeq(data, 1, off + 1) = [k \in 1 .. off + 1 |-> data[k]]
  BY <1>1
<1>4. Written(part, off + 1, data[off + 1]) = [k \in 1 .. off + 1 |-> data[k]]
  <2> HIDE DEF part
  <2>1. Greater(Len(part), off + 1) = off + 1
    BY <1>2 DEF Greater
  <2>2. \A k \in 1 .. off + 1 :
          (IF k = off + 1 THEN data[off + 1] ELSE IF k <= Len(part) THEN part[k] ELSE Hole) = data[k]
    BY <1>1, <1>2
  <2> QED BY <2>1, <2>2 DEF Written
<1> QED BY <1>3, <1>4

LEMMA EntryTypes ==
  ASSUME TypeInv
  PROVE  /\ Indices \subseteq Nat
         /\ \A i \in Indices : /\ Entry(i).dir \in BOOLEAN
                             /\ Entry(i).data \in Seq(Nat) /\ Len(Entry(i).data) \in Nat
<1>1. archive.entries \in Seq([name : Seq(STRING), dir : BOOLEAN, data : Seq(Nat)])
  BY ContentAssumption DEF TypeInv
<1>2. Indices = 1 .. Len(archive.entries) /\ Len(archive.entries) \in Nat
  BY <1>1 DEF Indices
<1>3. \A i \in Indices : Entry(i) \in [name : Seq(STRING), dir : BOOLEAN, data : Seq(Nat)]
  <2>1. ASSUME NEW S, NEW s \in Seq(S), NEW i \in 1 .. Len(s) PROVE s[i] \in S
    BY <2>1
  <2>2. \A i \in Indices : archive.entries[i] \in [name : Seq(STRING), dir : BOOLEAN, data : Seq(Nat)]
    BY <1>1, <1>2, <2>1
  <2> QED BY <2>2 DEF Entry
<1> QED BY <1>2, <1>3

LEMMA DataTypes ==
  ASSUME TypeInv, NEW i \in Indices
  PROVE  Entry(i).data \in Seq(Nat) /\ Len(Entry(i).data) \in Nat
BY EntryTypes

(* What is on disk for an entry stays when nobody else is at its path. *)
LEMMA OthersStay ==
  ASSUME TypeInv, Once, Progress, NEW w \in Workers, Worker(w), NEW i \in Indices, Alone(i),
         job[w].step \in {"create", "copy"} => In(w) # i
  PROVE  /\ Target(i) \in DOMAIN files =>
              Target(i) \in DOMAIN files' /\ files'[Target(i)] = files[Target(i)]
         /\ OnDisk(i) => OnDisk(i)'
<1> USE DEF tree, At
<1>0. Next /\ Entry(i)' = Entry(i) /\ Target(i)' = Target(i)
  BY EntriesStay DEF Next
<1>1. dirs \subseteq dirs'
  BY DEF Worker, Take, MakeDirs, Create, Copy, CopyEnds, ReportEntry, EntryFails
<1>2. ASSUME job[w].step \in {"create", "copy"} PROVE Target(In(w)) # Target(i)
  <2>1. In(w) \in Indices /\ In(w) # i /\ ~ PassedOver(In(w))
    BY <1>2 DEF Once, Busy, Progress, Far
  <2> QED BY <2>1 DEF Alone, Rivals
<1>3. Target(i) \in DOMAIN files =>
        Target(i) \in DOMAIN files' /\ files'[Target(i)] = files[Target(i)]
  <2>1. CASE Create(w)
    BY <1>2, <2>1 DEF Create
  <2>2. CASE Copy(w)
    BY <1>2, <2>2 DEF Copy
  <2>3. CASE ~ Create(w) /\ ~ Copy(w)
    <3>1. files' = files
      BY <2>3 DEF Worker, Take, MakeDirs, CopyEnds, ReportEntry, EntryFails
    <3> QED BY <3>1
  <2> QED BY <2>1, <2>2, <2>3
<1> QED BY <1>0, <1>1, <1>3 DEF OnDisk

LEMMA OthersFar ==
  ASSUME TypeInv, Once, Progress, NEW w \in Workers, Worker(w), NEW v \in Workers, job'[v] = job[v],
         v # w, NEW i \in Indices, In(v)' = i
  PROVE  Far(v, i)'
<1>1. Far(v, i) /\ In(v) = i
  BY DEF Progress, In
<1>2. CASE job[v].step = "idle"
  BY <1>2 DEF Far
<1>3. CASE job[v].step # "idle"
  <2>1. job[w].step \in {"create", "copy"} => In(w) # i
    BY <1>1, <1>3 DEF Once, Busy
  <2>2. Alone(i) => /\ Target(i) \in DOMAIN files =>
                         Target(i) \in DOMAIN files' /\ files'[Target(i)] = files[Target(i)]
                    /\ OnDisk(i) => OnDisk(i)'
    BY <2>1, OthersStay
  <2>3. /\ Entry(i)' = Entry(i) /\ Target(i)' = Target(i)
        /\ (PassedOver(i)' <=> PassedOver(i)) /\ (Alone(i)' <=> Alone(i))
    BY EntriesStay DEF Next
  <2> QED BY <1>1, <2>2, <2>3 DEF Far
<1> QED BY <1>2, <1>3

LEMMA ProgressStep ==
  ASSUME TypeInv, Once, Progress, Next
  PROVE  Progress'
<1> USE DEF channel, tree, Same, At
<1>0. /\ Indices' = Indices /\ job \in [Workers -> Places]
      /\ \A i : /\ Entry(i)' = Entry(i) /\ Target(i)' = Target(i)
               /\ (PassedOver(i)' <=> PassedOver(i)) /\ (Alone(i)' <=> Alone(i))
  BY EntriesStay DEF TypeInv
<1>1. ASSUME job' = job, files' = files, dirs' = dirs PROVE Progress'
  <2>1. \A i : OnDisk(i)' <=> OnDisk(i)
    BY <1>0, <1>1 DEF OnDisk
  <2> QED BY <1>0, <1>1, <2>1 DEF Progress, Far, In
<1>2. CASE Start
  <2>1. job' = job /\ \A w \in Workers : job[w].step = "idle"
    BY <1>2 DEF Start, Once, Busy
  <2> QED BY <2>1 DEF Progress, Far
<1>3. CASE Open \/ OpenFails \/ ExtractEnds \/ Report \/ Return \/ DropSink \/ Finish \/ Join
  BY <1>1, <1>3 DEF Open, OpenFails, ExtractEnds, Report, Return, DropSink, Finish, Join, Drops
<1>4. CASE Display
  BY <1>1, <1>4 DEF Display, Receive, DisplayEnds
<1>5. ASSUME NEW w \in Workers, Worker(w),
             \A v \in Workers \ {w} : job'[v] = job[v],
             \A i \in Indices : In(w)' = i => Far(w, i)'
      PROVE  Progress'
  BY <1>0, <1>5, OthersFar DEF Progress
<1>6. ASSUME NEW w \in Workers, NEW j \in Indices, Take(w, j) PROVE Progress'
  <2>1. CASE job' = job
    BY <1>1, <1>6, <2>1 DEF Take
  <2>2. CASE job' = [job EXCEPT ![w] = [at |-> j, off |-> 0,
                       step |-> IF PassedOver(j) THEN "report" ELSE "make"]]
    <3>1. /\ \A v \in Workers \ {w} : job'[v] = job[v]
          /\ job'[w].at = j /\ job'[w].off = 0
          /\ job'[w].step = IF PassedOver(j) THEN "report" ELSE "make"
      BY <1>0, <2>2
    <3>2. \A i \in Indices : In(w)' = i => Far(w, i)'
      BY <1>0, <3>1 DEF Far, In, Alone
    <3> QED BY <1>5, <1>6, <3>1, <3>2 DEF Worker
  <2> QED BY <1>6, <2>1, <2>2 DEF Take
<1>7. ASSUME NEW w \in Workers, MakeDirs(w) PROVE Progress'
  <2>1. /\ job'[w].step = (IF Entry(In(w)).dir THEN "report" ELSE "create")
        /\ job'[w].at = job[w].at /\ job'[w].off = job[w].off
        /\ \A v \in Workers \ {w} : job'[v] = job[v]
        /\ job[w].step = "make"
    BY <1>7, Moves DEF MakeDirs
  <2>2. ASSUME NEW i \in Indices, In(w)' = i PROVE Far(w, i)'
    <3>1. In(w) = i /\ ~ PassedOver(i) /\ job[w].off = 0
      BY <2>1, <2>2 DEF In, Progress, Far
    <3>2. Entry(i).dir => OnDisk(i)'
      <4>1. Target(i) \in WithParents(Target(i))
        BY DEF WithParents
      <4>2. Entry(i).dir => Target(i) \in dirs'
        BY <1>7, <3>1, <4>1 DEF MakeDirs, Needed
      <4> QED BY <1>0, <4>2 DEF OnDisk
    <3> QED BY <1>0, <2>1, <3>1, <3>2 DEF Far
  <2> QED BY <1>5, <1>7, <2>1, <2>2 DEF Worker
<1>8. ASSUME NEW w \in Workers, Create(w) PROVE Progress'
  <2>1. /\ job'[w].step = "copy" /\ job'[w].at = job[w].at /\ job'[w].off = job[w].off
        /\ \A v \in Workers \ {w} : job'[v] = job[v]
        /\ job[w].step = "create"
    BY <1>8, Moves DEF Create
  <2>2. ASSUME NEW i \in Indices, In(w)' = i PROVE Far(w, i)'
    <3>1. In(w) = i /\ ~ PassedOver(i) /\ ~ Entry(i).dir /\ job[w].off = 0
      BY <2>1, <2>2 DEF In, Progress, Far
    <3>2. Target(i) \in DOMAIN files' /\ files'[Target(i)] = <<>>
      BY <1>8, <3>1 DEF Create
    <3>3. SubSeq(Entry(i).data, 1, 0) = <<>> /\ 0 <= Len(Entry(i).data)
      BY DataTypes
    <3> QED BY <1>0, <2>1, <3>1, <3>2, <3>3 DEF Far
  <2> QED BY <1>5, <1>8, <2>1, <2>2 DEF Worker
<1>9. ASSUME NEW w \in Workers, Copy(w) PROVE Progress'
  <2>1. /\ job'[w].step = "copy" /\ job'[w].at = job[w].at /\ job'[w].off = job[w].off + 1
        /\ \A v \in Workers \ {w} : job'[v] = job[v]
        /\ job[w].step = "copy" /\ job[w].off \in Nat
    BY <1>0, <1>9 DEF Copy, Places
  <2>2. ASSUME NEW i \in Indices, In(w)' = i PROVE Far(w, i)'
    <3>1. In(w) = i /\ ~ PassedOver(i) /\ ~ Entry(i).dir
      BY <2>1, <2>2 DEF In, Progress, Far
    <3>2. job[w].off < Len(Entry(i).data)
      BY <1>9, <3>1 DEF Copy, Left
    <3>3. ASSUME Alone(i)
          PROVE  /\ job[w].off + 1 <= Len(Entry(i).data) /\ Target(i) \in DOMAIN files'
                 /\ files'[Target(i)] = SubSeq(Entry(i).data, 1, job[w].off + 1)
      <4>1. /\ Target(i) \in DOMAIN files
            /\ files[Target(i)] = SubSeq(Entry(i).data, 1, job[w].off)
        BY <2>1, <3>1, <3>3 DEF Progress, Far
      <4>2. files' = [files EXCEPT ![Target(i)] =
                        Written(@, job[w].off + 1, Entry(i).data[job[w].off + 1])]
        BY <1>9, <3>1 DEF Copy
      <4>3. files'[Target(i)] = Written(SubSeq(Entry(i).data, 1, job[w].off), job[w].off + 1,
                                        Entry(i).data[job[w].off + 1])
        BY <4>1, <4>2
      <4>4. Entry(i).data \in Seq(Nat) /\ Len(Entry(i).data) \in Nat
        BY DataTypes
      <4>5. files'[Target(i)] = SubSeq(Entry(i).data, 1, job[w].off + 1)
        BY <2>1, <3>2, <4>3, <4>4, WrittenNext
      <4> QED BY <2>1, <3>2, <4>1, <4>2, <4>4, <4>5
    <3> QED BY <1>0, <2>1, <3>1, <3>3 DEF Far
  <2> QED BY <1>5, <1>9, <2>1, <2>2 DEF Worker
<1>10. ASSUME NEW w \in Workers, CopyEnds(w) PROVE Progress'
  <2>1. /\ job'[w].step = "report" /\ job'[w].at = job[w].at
        /\ \A v \in Workers \ {w} : job'[v] = job[v]
        /\ job[w].step = "copy" /\ job[w].off \in Nat
    BY <1>0, <1>10, Moves DEF CopyEnds, Places
  <2>2. ASSUME NEW i \in Indices, In(w)' = i PROVE Far(w, i)'
    <3>1. In(w) = i /\ ~ Entry(i).dir /\ Far(w, i)
      BY <2>1, <2>2 DEF In, Progress, Far
    <3>2. ASSUME Alone(i) PROVE OnDisk(i)'
      <4>1. Entry(i).data \in Seq(Nat) /\ Len(Entry(i).data) \in Nat
        BY DataTypes
      <4>2. job[w].off = Len(Entry(i).data)
        BY <1>10, <2>1, <3>1, <3>2, <4>1 DEF CopyEnds, Left, Far
      <4>3. SubSeq(Entry(i).data, 1, job[w].off) = Entry(i).data
        BY <4>1, <4>2
      <4>4. Target(i) \in DOMAIN files /\ files[Target(i)] = Entry(i).data /\ files' = files
        BY <1>10, <2>1, <3>1, <3>2, <4>3 DEF Far, CopyEnds
      <4> QED BY <1>0, <3>1, <4>4 DEF OnDisk
    <3> QED BY <1>0, <2>1, <3>2 DEF Far
  <2> QED BY <1>5, <1>10, <2>1, <2>2 DEF Worker
<1>11. ASSUME NEW w \in Workers, ReportEntry(w) \/ EntryFails(w) PROVE Progress'
  <2>1. job'[w].step = "idle" /\ \A v \in Workers \ {w} : job'[v] = job[v]
    BY <1>0, <1>11 DEF ReportEntry, EntryFails, Idle
  <2>2. \A i \in Indices : In(w)' = i => Far(w, i)'
    BY <2>1 DEF Far
  <2> QED BY <1>5, <1>11, <2>1, <2>2 DEF Worker
<1> QED
  BY <1>2, <1>3, <1>4, <1>6, <1>7, <1>8, <1>9, <1>10, <1>11 DEF Next, Caller, Worker

LEMMA WholeStep ==
  ASSUME TypeInv, Once, Progress, ReportedIsWhole, Next
  PROVE  ReportedIsWhole'
<1>0. Indices' = Indices /\ \A i : Alone(i)' <=> Alone(i)
  BY EntriesStay
<1>1. SUFFICES ASSUME NEW i \in Indices, Reported(i)', Alone(i) PROVE OnDisk(i)'
  BY <1>0 DEF ReportedIsWhole, Alone
<1>2. Entry(i)' = Entry(i) /\ Target(i)' = Target(i)
  BY EntriesStay
<1>3. CASE Reported(i)
  <2>1. OnDisk(i)
    BY <1>1, <1>3 DEF ReportedIsWhole, Alone
  <2>2. ASSUME NEW w \in Workers, Worker(w) PROVE OnDisk(i)'
    <3>1. job[w].step \in {"create", "copy"} => In(w) # i
      BY <1>3 DEF Once, Busy
    <3> QED BY <1>1, <2>1, <2>2, <3>1, OthersStay
  <2>3. CASE Start
    BY <1>3, <2>3 DEF Start, Once
  <2>4. CASE Open \/ OpenFails \/ ExtractEnds \/ Report \/ Return \/ DropSink \/ Finish \/ Join
             \/ Display
    <3>1. files' = files /\ dirs' = dirs
      BY <2>4 DEF Open, OpenFails, ExtractEnds, Report, Return, DropSink, Finish, Join, Drops,
                  Display, Receive, DisplayEnds, tree
    <3> QED BY <1>2, <2>1, <3>1 DEF OnDisk
  <2> QED BY <2>2, <2>3, <2>4 DEF Next, Caller
<1>4. CASE ~ Reported(i)
  <2>1. PICK w \in Workers : ReportEntry(w) /\ i = In(w)
    BY <1>1, <1>4, ReportedStays
  <2>2. OnDisk(i)
    BY <1>1, <2>1 DEF ReportEntry, At, Progress, Far
  <2>3. files' = files /\ dirs' = dirs
    BY <2>1 DEF ReportEntry, tree
  <2> QED BY <1>2, <2>2, <2>3 DEF OnDisk
<1> QED BY <1>3, <1>4
-----------------------------------------------------------------------------
LEMMA Inductive == UInv /\ [Next]_vars => UInv'
<1>1. ASSUME UInv, Next PROVE UInv'
  BY <1>1, TypeStep, ToldStep, ListeningStep, ShowsStep, OnceStep, ProgressStep, WholeStep DEF UInv
<1>2. ASSUME UInv, UNCHANGED vars PROVE UInv'
  <2> USE <1>2 DEF vars
  <2>0. Indices' = Indices /\ AnyEvent' = AnyEvent /\ Places' = Places /\ \A i : Entry(i)' = Entry(i)
    BY DEF Indices, AnyEvent, Places, Entry
  <2>1. TypeInv'
    BY <2>0 DEF UInv, TypeInv
  <2>2. Told' /\ Listening' /\ Shows'
    BY DEF UInv, Told, Listening, Shows
  <2>3. \A i : Reported(i)' <=> Reported(i)
    BY DEF Reported
  <2>4. Once'
    BY <2>0, <2>3 DEF UInv, Once, Busy, In
  <2>5. \A i : /\ Target(i)' = Target(i) /\ (PassedOver(i)' <=> PassedOver(i))
    BY <2>0 DEF Target, PassedOver, Safe, Format
  <2>6. \A i : Rivals(i)' = Rivals(i) /\ (OnDisk(i)' <=> OnDisk(i))
    BY <2>0, <2>5 DEF Rivals, OnDisk
  <2>7. Progress' /\ ReportedIsWhole'
    BY <2>0, <2>3, <2>5, <2>6 DEF UInv, Progress, Far, Alone, In, ReportedIsWhole
  <2> QED BY <2>1, <2>2, <2>4, <2>7 DEF UInv
<1> QED BY <1>1, <1>2

LEMMA Holds == Spec => []UInv
<1> QED BY Initially, Inductive, PTL DEF Spec

(* When gpzip x ends, the progress bar says what unpack returned: run      *)
(* drops its sender, and finish waits for the thread of the bar, which has *)
(* received the Finished or Error event, the last of all, by then.         *)
THEOREM BarIsRight == Spec => []BarTellsResult
<1>1. UInv => BarTellsResult
  <2> SUFFICES ASSUME UInv, phase = "done" PROVE BarTellsResult
    BY DEF BarTellsResult
  <2>1. /\ display = "ended" /\ shown = Len(events) /\ result \in {"ok", "err"}
        /\ events \in Seq(AnyEvent) /\ Len(events) \in Nat
    BY DEF UInv, Listening, Told, TypeInv
  <2>2. \/ events = <<>> /\ result = "err"
        \/ /\ events # <<>> /\ \A k \in 1 .. Len(events) : IsLast(events[k]) <=> k = Len(events)
           /\ events[Len(events)].kind = IF result = "ok" THEN "Finished" ELSE "Error"
    BY DEF UInv, Told, Sending
  <2>3. CASE events = <<>> /\ result = "err"
    BY <2>1, <2>3 DEF UInv, Shows, BarTellsResult
  <2>4. CASE /\ events # <<>> /\ \A k \in 1 .. Len(events) : IsLast(events[k]) <=> k = Len(events)
             /\ events[Len(events)].kind = IF result = "ok" THEN "Finished" ELSE "Error"
    <3>1. Len(events) > 0 /\ DOMAIN events = 1 .. Len(events)
      BY <2>1, <2>4
    <3>2. bar = IF result = "ok" THEN "done" ELSE "error"
      BY <2>1, <2>4, <3>1 DEF UInv, Shows
    <3> QED BY <2>1, <2>4, <3>1, <3>2 DEF BarTellsResult, IsLast
  <2> QED BY <2>2, <2>3, <2>4
<1> QED BY <1>1, Holds, PTL

(* An entry that was reported finished, and has its path for itself, is    *)
(* whole on disk from then on, whatever the other workers of unpack_zip do *)
(* and whichever of them fails.                                            *)
THEOREM ReportedStaysWhole == Spec => []ReportedIsWhole
<1>1. UInv => ReportedIsWhole
  BY DEF UInv
<1> QED BY <1>1, Holds, PTL
-----------------------------------------------------------------------------
(* An entry whose directory or file has been made and not given up.        *)
Made(i) ==
  /\ i \in Indices \ todo /\ ~ PassedOver(i)
  /\ \A w \in Workers : Busy(w) /\ In(w) = i => job[w].step \in {"copy", "report"}

(* No entry has failed, of those that were begun. *)
Good == ~ stop /\ phase \notin {"start", "open"} /\ result # "err"

(* What is at the path of the entry is its own, if anything is.            *)
Newest(i) ==
  /\ Format # "zip" \/ Alone(i)
  /\ \A j \in Rivals(i) : Made(j) => j <= i

Copying(w, i) == job[w].step = "copy" /\ In(w) = i

(* The file holds what has been copied of the entry, in the end all of it. *)
HasData(i) ==
  /\ \A w \in Workers : Copying(w, i) =>
       /\ job[w].off <= Len(Entry(i).data)
       /\ files[Target(i)] = SubSeq(Entry(i).data, 1, job[w].off)
  /\ (\A w \in Workers : ~ Copying(w, i)) => files[Target(i)] = Entry(i).data

Settled ==
  Good =>
    /\ DOMAIN files = {Target(i) : i \in {j \in Indices : Made(j) /\ ~ Entry(j).dir}}
    /\ \A i \in Indices : Made(i) /\ Entry(i).dir => Target(i) \in dirs
    /\ \A i \in Indices : Made(i) /\ ~ Entry(i).dir /\ Newest(i) => HasData(i)

Ends ==
  /\ phase \in {"start", "open", "extract"} => result = "none"
  /\ phase \in {"start", "open"} => files = <<>>
  /\ result = "ok" => ~ stop /\ todo = {} /\ \A w \in Workers : ~ Busy(w)

(* The loops of tar, 7z and rar are at the last entry they have begun.     *)
InOrder ==
  Format # "zip" =>
    /\ \A a \in Indices \ todo, b \in todo : a < b
    /\ \A w \in Workers : Busy(w) => w = Main /\ \A a \in Indices \ todo : a <= In(w)

(* No path is a directory and a file. *)
Apart == dirs \cap DOMAIN files = {}

(* The units that belong at a place of a file. *)
Fitting(p, k) ==
  {Entry(j).data[k] :
     j \in {r \in Indices : Target(r) = p /\ ~ PassedOver(r) /\ k <= Len(Entry(r).data)}}

Units ==
  \A p \in DOMAIN files :
    /\ files[p] \in Seq(Nat \cup {Hole})
    /\ \A k \in 1 .. Len(files[p]) : files[p][k] \in {Hole} \cup Fitting(p, k)

(* The directories of the entries, and those that have been made.          *)
Listed == {j \in Indices : ~ PassedOver(j)}
Awaits(i) == \E w \in Workers : In(w) = i /\ job[w].step = "make"

DirsAre ==
  /\ dirs \subseteq {<<>>} \cup UNION {Needed(i) : i \in Listed}
  /\ phase = "open" \/ Good => <<>> \in dirs
  /\ Good => \A i \in Listed \ todo : Awaits(i) \/ Needed(i) \subseteq dirs

TInv == Ends /\ InOrder /\ Apart /\ Units /\ Settled /\ DirsAre
-----------------------------------------------------------------------------
(* The caller and the display leave the jobs and the files alone. *)
LEMMA OthersLeave ==
  ASSUME Caller \/ Display
  PROVE  /\ job' = job /\ files' = files /\ stop' = stop
         /\ dirs' = dirs \/ Start
         /\ todo' = todo \/ Open
<1> USE DEF tree, channel
<1>1. CASE Caller
  BY <1>1 DEF Caller, Start, Open, OpenFails, ExtractEnds, Report, Return, DropSink, Finish, Join, Drops
<1>2. CASE Display
  BY <1>2 DEF Display, Receive, DisplayEnds
<1> QED BY <1>1, <1>2

(* What a worker leaves alone. *)
LEMMA WorkerLeaves ==
  ASSUME TypeInv, NEW w \in Workers, Worker(w)
  PROVE  /\ phase = "extract" /\ phase' = "extract" /\ result' = result
         /\ \A v \in Workers \ {w} : job'[v] = job[v]
         /\ stop => stop'
         /\ dirs \subseteq dirs'
         /\ \/ \E i \in Indices : Take(w, i)
            \/ todo' = todo /\ Busy(w) /\ (job'[w].step = "idle" \/ job'[w].at = job[w].at)
<1> USE DEF Same, tree, At, Busy
<1>1. job \in [Workers -> Places]
  BY DEF TypeInv
<1>2. ASSUME NEW i \in Indices, Take(w, i)
      PROVE  /\ \A v \in Workers \ {w} : job'[v] = job[v]
             /\ stop => stop' /\ dirs' = dirs
  BY <1>1, <1>2 DEF Take
<1>3. CASE MakeDirs(w) \/ Create(w) \/ CopyEnds(w)
  <2>1. /\ \A v \in Workers \ {w} : job'[v] = job[v]
        /\ job'[w].at = job[w].at
    BY <1>3, Moves DEF MakeDirs, Create, CopyEnds
  <2>2. todo' = todo /\ stop' = stop /\ job[w].step # "idle" /\ dirs \subseteq dirs'
    BY <1>3 DEF MakeDirs, Create, CopyEnds
  <2> QED BY <2>1, <2>2, WorkerStep
<1>4. CASE Copy(w)
  <2>1. job'[w].at = job[w].at /\ \A v \in Workers \ {w} : job'[v] = job[v]
    BY <1>1, <1>4 DEF Copy, Places
  <2> QED BY <1>4, <2>1 DEF Copy
<1>5. CASE ReportEntry(w) \/ EntryFails(w)
  <2>1. job'[w].step = "idle" /\ \A v \in Workers \ {w} : job'[v] = job[v]
    BY <1>1, <1>5 DEF ReportEntry, EntryFails, Idle
  <2> QED BY <1>5, <2>1 DEF ReportEntry, EntryFails
<1>6. \/ \E i \in Indices : Take(w, i)
      \/ MakeDirs(w) \/ Create(w) \/ CopyEnds(w) \/ Copy(w) \/ ReportEntry(w) \/ EntryFails(w)
  BY DEF Worker
<1>7. phase = "extract" /\ phase' = "extract" /\ result' = result
  BY WorkerStep
<1>8. CASE \E i \in Indices : Take(w, i)
  <2>1. PICK i \in Indices : Take(w, i)
    BY <1>8
  <2>2. /\ \A v \in Workers \ {w} : job'[v] = job[v]
        /\ stop => stop' /\ dirs' = dirs
    BY <1>2, <2>1
  <2>3. dirs \subseteq dirs'
    BY <2>1 DEF Take
  <2> QED BY <1>7, <1>8, <2>2, <2>3, Zenon
<1> QED BY <1>3, <1>4, <1>5, <1>6, <1>7, <1>8

LEMMA EndsStep ==
  ASSUME TypeInv, Ends, Next
  PROVE  Ends'
<1> USE DEF channel, tree
<1>1. CASE Start \/ Open \/ OpenFails \/ Report \/ Return \/ DropSink \/ Finish \/ Join
  BY <1>1 DEF Start, Open, OpenFails, Report, Return, DropSink, Finish, Join, Drops, Ends, Busy
<1>2. CASE ExtractEnds
  BY <1>2 DEF ExtractEnds, AllIdle, Ends, Busy
<1>3. CASE Display
  BY <1>3 DEF Display, Receive, DisplayEnds, Ends, Busy
<1>4. ASSUME NEW w \in Workers, Worker(w) PROVE Ends'
  <2>1. phase = "extract" /\ phase' = "extract" /\ result' = result
    BY <1>4, WorkerLeaves
  <2>2. result = "none"
    BY <2>1 DEF Ends
  <2> QED BY <2>1, <2>2 DEF Ends
<1> QED BY <1>1, <1>2, <1>3, <1>4 DEF Next, Caller

LEMMA InOrderStep ==
  ASSUME TypeInv, Once, InOrder, Next
  PROVE  InOrder'
<1> USE DEF Busy, In
<1>0. /\ Indices' = Indices /\ Format' = Format /\ Indices \subseteq Nat
      /\ job \in [Workers -> Places] /\ todo \subseteq Indices
  BY ArchiveStays, EntryTypes DEF Format, TypeInv
<1>1. CASE Caller \/ Display
  <2>1. job' = job /\ (todo' = todo \/ Open)
    BY <1>1, OthersLeave
  <2>2. CASE Open
    <3>1. todo' = Indices /\ \A w \in Workers : ~ Busy(w)
      BY <2>2 DEF Open, Once
    <3> QED BY <1>0, <2>1, <3>1 DEF InOrder
  <2> QED BY <1>0, <2>1, <2>2 DEF InOrder
<1>2. ASSUME NEW w \in Workers, NEW i \in Indices, Take(w, i) PROVE InOrder'
  <2> SUFFICES ASSUME Format # "zip"
               PROVE  /\ \A a \in Indices \ todo', b \in todo' : a < b
                      /\ \A v \in Workers : job'[v].step # "idle" =>
                           v = Main /\ \A a \in Indices \ todo' : a <= job'[v].at
    BY <1>0 DEF InOrder
  <2>1. /\ w = Main /\ i \in todo /\ \A j \in todo : i <= j
        /\ todo' = todo \ {i} /\ job[w].step = "idle"
    BY <1>2 DEF Take, Mine, At
  <2>2. \A a \in Indices \ todo : a < i
    BY <2>1 DEF InOrder
  <2>3. \A a \in Indices \ todo' : a <= i
    BY <1>0, <2>1, <2>2
  <2>4. \A a \in Indices \ todo', b \in todo' : a < b
    <3> SUFFICES ASSUME NEW a \in Indices \ todo', NEW b \in todo' PROVE a < b
      OBVIOUS
    <3>1. i <= b /\ b # i /\ a <= i /\ a \in Nat /\ b \in Nat /\ i \in Nat
      BY <1>0, <2>1, <2>3
    <3> QED BY <3>1
  <2>5. \A v \in Workers : job[v].step = "idle"
    BY <2>1 DEF InOrder
  <2>6. job' = job \/ (job'[w].at = i /\ \A v \in Workers \ {w} : job'[v] = job[v])
    BY <1>0, <1>2 DEF Take
  <2> QED BY <2>1, <2>3, <2>4, <2>5, <2>6
<1>3. ASSUME NEW w \in Workers, Worker(w), todo' = todo, Busy(w),
             job'[w].step = "idle" \/ job'[w].at = job[w].at
      PROVE  InOrder'
  <2>1. \A v \in Workers \ {w} : job'[v] = job[v]
    BY <1>3, WorkerLeaves
  <2>2. \A v \in Workers : job'[v].step # "idle" => job[v].step # "idle" /\ job'[v].at = job[v].at
    BY <1>3, <2>1
  <2> QED BY <1>0, <1>3, <2>2 DEF InOrder
<1>4. ASSUME NEW w \in Workers, Worker(w) PROVE InOrder'
  BY <1>2, <1>3, <1>4, WorkerLeaves
<1> QED BY <1>1, <1>4 DEF Next

LEMMA ApartStep ==
  ASSUME TypeInv, Ends, Apart, Next
  PROVE  Apart'
<1> USE DEF tree
<1>1. CASE Caller \/ Display
  <2>1. files' = files /\ (dirs' = dirs \/ Start)
    BY <1>1, OthersLeave
  <2>2. CASE Start
    <3>1. files = <<>>
      BY <2>2 DEF Start, Ends
    <3>2. DOMAIN files' = {}
      BY <2>1, <3>1
    <3> QED BY <3>2 DEF Apart
  <2> QED BY <2>1, <2>2 DEF Apart
<1>2. ASSUME NEW w \in Workers, Worker(w) PROVE Apart'
  <2>1. CASE MakeDirs(w)
    BY <2>1 DEF MakeDirs, Apart
  <2>2. CASE Create(w)
    <3>1. DOMAIN files' = DOMAIN files \cup {Target(In(w))} /\ Target(In(w)) \notin dirs
          /\ dirs' = dirs
      BY <2>2 DEF Create
    <3> QED BY <3>1 DEF Apart
  <2>3. CASE Copy(w)
    <3>1. DOMAIN files' = DOMAIN files /\ dirs' = dirs
      BY <2>3 DEF Copy
    <3> QED BY <3>1 DEF Apart
  <2>4. CASE EntryFails(w)
    <3>1. files' = files /\ \E made : made \cap DOMAIN files = {} /\ dirs' = dirs \cup made
      <4>1. CASE dirs' = dirs
        <5>1. {} \cap DOMAIN files = {} /\ dirs' = dirs \cup {}
          BY <4>1
        <5> QED BY <2>4, <5>1 DEF EntryFails
      <4>2. CASE \E made \in SUBSET Needed(In(w)) : made \cap DOMAIN files = {} /\ dirs' = dirs \cup made
        BY <2>4, <4>2 DEF EntryFails
      <4> QED BY <2>4, <4>1, <4>2 DEF EntryFails
    <3> QED BY <3>1 DEF Apart
  <2>5. CASE ~ MakeDirs(w) /\ ~ Create(w) /\ ~ Copy(w) /\ ~ EntryFails(w)
    <3>1. files' = files /\ dirs' = dirs
      BY <1>2, <2>5 DEF Worker, Take, CopyEnds, ReportEntry
    <3> QED BY <3>1 DEF Apart
  <2> QED BY <2>1, <2>2, <2>3, <2>4, <2>5
<1> QED BY <1>1, <1>2 DEF Next
-----------------------------------------------------------------------------
LEMMA FittingStays ==
  ASSUME Next
  PROVE  \A p, k : Fitting(p, k)' = Fitting(p, k)
<1>1. /\ Indices' = Indices
      /\ \A i : Entry(i)' = Entry(i) /\ Target(i)' = Target(i) /\ (PassedOver(i)' <=> PassedOver(i))
  BY EntriesStay
<1> QED BY <1>1 DEF Fitting

(* A write puts its unit in its place and moves no other. *)
LEMMA WriteFits ==
  ASSUME NEW content \in Seq(Nat \cup {Hole}), NEW off \in Nat \ {0}, NEW unit \in Nat
  PROVE  /\ Written(content, off, unit) \in Seq(Nat \cup {Hole})
         /\ \A k \in 1 .. Len(Written(content, off, unit)) :
              \/ k = off /\ Written(content, off, unit)[k] = unit
              \/ k \in 1 .. Len(content) /\ Written(content, off, unit)[k] = content[k]
              \/ Written(content, off, unit)[k] = Hole
<1> DEFINE n == Greater(Len(content), off)
           unitAt(k) == IF k = off THEN unit ELSE IF k <= Len(content) THEN content[k] ELSE Hole
           w == [k \in 1 .. n |-> unitAt(k)]
<1>1. n \in Nat /\ Written(content, off, unit) = w /\ Len(content) \in Nat
  BY DEF Greater, Written
<1>2. \A k \in 1 .. n : /\ unitAt(k) \in Nat \cup {Hole}
                        /\ \/ k = off /\ unitAt(k) = unit
                           \/ k \in 1 .. Len(content) /\ unitAt(k) = content[k]
                           \/ unitAt(k) = Hole
  BY <1>1
<1> HIDE DEF n, unitAt
<1>3. w \in Seq(Nat \cup {Hole}) /\ Len(w) = n
  BY <1>1, <1>2
<1>4. \A k \in 1 .. n : w[k] = unitAt(k)
  OBVIOUS
<1> HIDE DEF w
<1> QED BY <1>1, <1>2, <1>3, <1>4

LEMMA UnitsStep ==
  ASSUME TypeInv, Once, Progress, Units, Next
  PROVE  Units'
<1> USE DEF tree, At
<1>1. ASSUME files' = files PROVE Units'
  BY <1>1, FittingStays DEF Units
<1>2. CASE Caller \/ Display
  BY <1>1, <1>2, OthersLeave
<1>3. ASSUME NEW w \in Workers, Create(w) PROVE Units'
  <2>1. /\ DOMAIN files' = DOMAIN files \cup {Target(In(w))}
        /\ \A p \in DOMAIN files' :
             files'[p] = IF p = Target(In(w)) THEN <<>> ELSE files[p]
    BY <1>3 DEF Create
  <2>2. <<>> \in Seq(Nat \cup {Hole}) /\ Len(<<>>) = 0
    OBVIOUS
  <2> SUFFICES ASSUME NEW p \in DOMAIN files'
               PROVE  /\ files'[p] \in Seq(Nat \cup {Hole})
                      /\ \A k \in 1 .. Len(files'[p]) : files'[p][k] \in {Hole} \cup Fitting(p, k)
    BY FittingStays DEF Units
  <2>3. CASE p = Target(In(w))
    <3>1. files'[p] = <<>>
      BY <2>1, <2>3
    <3>2. 1 .. Len(files'[p]) = {}
      BY <2>2, <3>1
    <3> QED BY <2>2, <3>1, <3>2
  <2>4. CASE p # Target(In(w))
    BY <2>1, <2>4 DEF Units
  <2> QED BY <2>3, <2>4
<1>4. ASSUME NEW w \in Workers, Copy(w) PROVE Units'
  <2> DEFINE i == In(w)
             off == job[w].off + 1
             t == Target(i)
             unit == Entry(i).data[off]
  <2>1. i \in Indices /\ ~ PassedOver(i) /\ job[w].off \in Nat /\ job[w].off < Len(Entry(i).data)
    BY <1>4 DEF Copy, Left, Once, Busy, Progress, Far, TypeInv, Places
  <2>2. Entry(i).data \in Seq(Nat) /\ Len(Entry(i).data) \in Nat
    BY <2>1, DataTypes
  <2>3. off \in 1 .. Len(Entry(i).data) /\ off \in Nat \ {0}
    BY <2>1, <2>2
  <2>4. unit \in Nat /\ unit \in Fitting(t, off)
    BY <2>1, <2>2, <2>3 DEF Fitting
  <2>5. /\ DOMAIN files' = DOMAIN files
        /\ \A p \in DOMAIN files : files'[p] = IF p = t THEN Written(files[t], off, unit) ELSE files[p]
    BY <1>4 DEF Copy
  <2> HIDE DEF i, off, t, unit
  <2> SUFFICES ASSUME NEW p \in DOMAIN files
               PROVE  /\ files'[p] \in Seq(Nat \cup {Hole})
                      /\ \A k \in 1 .. Len(files'[p]) : files'[p][k] \in {Hole} \cup Fitting(p, k)
    BY <2>5, FittingStays DEF Units
  <2>6. /\ files[p] \in Seq(Nat \cup {Hole})
        /\ \A k \in 1 .. Len(files[p]) : files[p][k] \in {Hole} \cup Fitting(p, k)
    BY DEF Units
  <2>7. CASE p = t
    <3>1. files'[p] = Written(files[p], off, unit)
      BY <2>5, <2>7
    <3>2. /\ Written(files[p], off, unit) \in Seq(Nat \cup {Hole})
          /\ \A k \in 1 .. Len(Written(files[p], off, unit)) :
               \/ k = off /\ Written(files[p], off, unit)[k] = unit
               \/ k \in 1 .. Len(files[p]) /\ Written(files[p], off, unit)[k] = files[p][k]
               \/ Written(files[p], off, unit)[k] = Hole
      BY <2>3, <2>4, <2>6, WriteFits
    <3> QED BY <2>4, <2>6, <2>7, <3>1, <3>2
  <2>8. CASE p # t
    BY <2>5, <2>6, <2>8
  <2> QED BY <2>7, <2>8
<1>5. ASSUME NEW w \in Workers, Worker(w), ~ Create(w), ~ Copy(w) PROVE Units'
  <2>1. files' = files
    BY <1>5 DEF Worker, Take, MakeDirs, CopyEnds, ReportEntry, EntryFails
  <2> QED BY <1>1, <2>1
<1> QED BY <1>2, <1>3, <1>4, <1>5 DEF Next
-----------------------------------------------------------------------------
(* Which entries are made changes only where the worker is. *)
LEMMA MadeAfter ==
  ASSUME TypeInv, Once, NEW w \in Workers, Worker(w), todo' = todo, Busy(w),
         job'[w].step = "idle" \/ job'[w].at = job[w].at, NEW i \in Indices
  PROVE  /\ i # In(w) => (Made(i)' <=> Made(i))
         /\ i = In(w) => (Made(i) <=> ~ PassedOver(i) /\ job[w].step \in {"copy", "report"})
         /\ i = In(w) => (Made(i)' <=> ~ PassedOver(i) /\ job'[w].step \in {"copy", "report", "idle"})
<1>0. Indices' = Indices /\ (PassedOver(i)' <=> PassedOver(i))
  BY EntriesStay DEF Next
<1>1. \A v \in Workers \ {w} : job'[v] = job[v]
  BY WorkerLeaves
<1>2. i # In(w) => (Made(i)' <=> Made(i))
  BY <1>0, <1>1 DEF Made, Busy, In
<1>3. i = In(w) => i \notin todo /\ \A v \in Workers : Busy(v) /\ In(v) = i => v = w
  BY DEF Once
<1>4. i = In(w) => (Made(i) <=> ~ PassedOver(i) /\ job[w].step \in {"copy", "report"})
  BY <1>3 DEF Made, Busy
<1>5. i = In(w) => \A v \in Workers : Busy(v)' /\ In(v)' = i => v = w
  BY <1>1, <1>3 DEF Busy, In
<1>6. i = In(w) => (Made(i)' <=> ~ PassedOver(i) /\ job'[w].step \in {"copy", "report", "idle"})
  BY <1>0, <1>3, <1>5 DEF Made, Busy, In
<1> QED BY <1>2, <1>4, <1>6

NoRivalAt(w, i) == In(w) \in Rivals(i) /\ ~ (In(w) <= i)

(* Nobody writes to a file whose newest entry is another. *)
LEMMA NoRival ==
  ASSUME TypeInv, Once, Progress, InOrder, NEW w \in Workers, job[w].step \in {"create", "copy"},
         NEW i \in Indices, i # In(w), Made(i), Format # "zip" \/ Alone(i),
         Target(i) = Target(In(w))
  PROVE  NoRivalAt(w, i)
<1>1. In(w) \in Indices /\ ~ PassedOver(In(w)) /\ Busy(w)
  BY DEF Once, Busy, Progress, Far
<1>2. In(w) \in Rivals(i)
  BY <1>1 DEF Rivals
<1>3. Format # "zip"
  BY <1>2 DEF Alone
<1>4. i <= In(w) /\ i \in Nat /\ In(w) \in Nat
  BY <1>1, <1>3, EntryTypes DEF InOrder, Made
<1> QED BY <1>2, <1>4 DEF NoRivalAt

(* A step that touches no file, and gives up no entry. *)
LEMMA KeepsSettled ==
  ASSUME TypeInv, Next, Settled, Good' => Good, files' = files, dirs \subseteq dirs',
         \A i \in Indices :
           /\ Made(i) => Made(i)'
           /\ Made(i)' => Made(i) \/ (Entry(i).dir /\ Target(i) \in dirs')
           /\ Made(i) /\ ~ Entry(i).dir /\ HasData(i) => HasData(i)'
  PROVE  Settled'
<1> SUFFICES ASSUME Good, Good' PROVE Settled'
  BY DEF Settled
<1>0. /\ Indices' = Indices /\ Format' = Format
      /\ \A i : Entry(i)' = Entry(i) /\ Target(i)' = Target(i) /\ Rivals(i)' = Rivals(i)
               /\ (Alone(i)' <=> Alone(i))
  BY EntriesStay, ArchiveStays DEF Format
<1>1. \A i \in Indices : ~ Entry(i).dir => (Made(i)' <=> Made(i))
  OBVIOUS
<1>2. DOMAIN files = {Target(i) : i \in {j \in Indices : Made(j) /\ ~ Entry(j).dir}}
  BY DEF Settled
<1>3. {j \in Indices : Made(j) /\ ~ Entry(j).dir}' = {j \in Indices : Made(j) /\ ~ Entry(j).dir}
  BY <1>0, <1>1
<1>4. {Target(i) : i \in {j \in Indices : Made(j) /\ ~ Entry(j).dir}}'
        = {Target(i) : i \in {j \in Indices : Made(j) /\ ~ Entry(j).dir}}
  BY <1>0, <1>3
<1>5. \A i \in Indices : Made(i)' /\ Entry(i).dir => Target(i) \in dirs'
  BY DEF Settled
<1>6. ASSUME NEW i \in Indices, Newest(i)' PROVE Newest(i)
  <2>1. \A j \in Rivals(i) : j \in Indices
    BY DEF Rivals
  <2> QED BY <1>0, <1>6, <2>1 DEF Newest
<1>7. \A i \in Indices : Made(i)' /\ ~ Entry(i).dir /\ Newest(i)' => HasData(i)'
  BY <1>1, <1>6 DEF Settled
<1>8. (DOMAIN files)' = {Target(i) : i \in {j \in Indices : Made(j) /\ ~ Entry(j).dir}}'
  BY <1>2, <1>4
<1> QED BY <1>0, <1>5, <1>7, <1>8 DEF Settled

(* Copying one entry leaves the data of another path as it is. *)
LEMMA DataStays ==
  ASSUME TypeInv, Next, NEW w \in Workers, \A v \in Workers \ {w} : job'[v] = job[v],
         NEW i \in Indices, ~ Copying(w, i), ~ Copying(w, i)',
         files'[Target(i)] = files[Target(i)], HasData(i)
  PROVE  HasData(i)'
<1>1. Entry(i)' = Entry(i) /\ Target(i)' = Target(i)
  BY EntriesStay
<1>2. \A v \in Workers : /\ Copying(v, i)' <=> Copying(v, i)
                         /\ Copying(v, i) => job'[v].off = job[v].off
  BY DEF Copying, In
<1> QED BY <1>1, <1>2 DEF HasData

LEMMA SettledAfterTake ==
  ASSUME TypeInv, Once, Progress, Settled, NEW w \in Workers, NEW i \in Indices, Take(w, i)
  PROVE  Settled'
<1> USE DEF Same, tree, At
<1>0. Next /\ Worker(w)
  BY DEF Next, Worker
<1>1. CASE stop' = TRUE
  BY <1>1 DEF Settled, Good
<1>2. CASE stop' # TRUE
  <2>1. /\ job' = [job EXCEPT ![w] = [at |-> i, off |-> 0,
                      step |-> IF PassedOver(i) THEN "report" ELSE "make"]]
        /\ stop' = stop /\ todo' = todo \ {i} /\ i \in todo /\ files' = files /\ dirs' = dirs
        /\ phase' = phase /\ result' = result /\ job[w].step = "idle"
    BY <1>2 DEF Take
  <2>2. /\ job'[w].at = i /\ job'[w].step = IF PassedOver(i) THEN "report" ELSE "make"
        /\ \A v \in Workers \ {w} : job'[v] = job[v]
    BY <2>1 DEF TypeInv
  <2>3. Good' => Good
    BY <2>1 DEF Good
  <2>4. Indices' = Indices /\ \A j : PassedOver(j)' <=> PassedOver(j)
    BY <1>0, EntriesStay
  <2>5. ~ Made(i) /\ ~ Made(i)'
    BY <2>1, <2>2, <2>4 DEF Made, Busy, In
  <2>6. \A j \in Indices : j # i => (Made(j)' <=> Made(j))
    BY <2>1, <2>2, <2>4 DEF Made, Busy, In
  <2>7. \A j \in Indices : ~ Copying(w, j) /\ ~ Copying(w, j)'
    BY <2>1, <2>2 DEF Copying
  <2>8. \A j \in Indices : HasData(j) => HasData(j)'
    BY <1>0, <2>1, <2>2, <2>7, DataStays
  <2>9. \A j \in Indices : Made(j)' <=> Made(j)
    BY <2>5, <2>6
  <2> QED BY <1>0, <2>1, <2>3, <2>8, <2>9, KeepsSettled
<1> QED BY <1>1, <1>2

LEMMA SettledAfterMove ==
  ASSUME TypeInv, Once, Progress, Settled, NEW w \in Workers,
         MakeDirs(w) \/ CopyEnds(w) \/ ReportEntry(w)
  PROVE  Settled'
<1> USE DEF Same, tree, At
<1>0. Next /\ Worker(w)
  BY DEF Next, Worker
<1>1. /\ files' = files /\ dirs \subseteq dirs' /\ todo' = todo /\ stop' = stop
      /\ phase' = phase /\ result' = result /\ Busy(w)
  BY DEF MakeDirs, CopyEnds, ReportEntry, Busy
<1>2. /\ \A v \in Workers \ {w} : job'[v] = job[v]
      /\ job'[w].step = "idle" \/ job'[w].at = job[w].at
  <2>1. CASE MakeDirs(w) \/ CopyEnds(w)
    BY <2>1, Moves DEF MakeDirs, CopyEnds
  <2>2. CASE ReportEntry(w)
    BY <2>2 DEF ReportEntry, Idle, TypeInv
  <2> QED BY <2>1, <2>2
<1>3. Good' => Good
  BY <1>1 DEF Good
<1>4. In(w) \in Indices
  BY <1>1 DEF Once
<1>5. \A i \in Indices :
        /\ i # In(w) => (Made(i)' <=> Made(i))
        /\ i = In(w) => (Made(i) <=> ~ PassedOver(i) /\ job[w].step \in {"copy", "report"})
        /\ i = In(w) => (Made(i)' <=> ~ PassedOver(i) /\ job'[w].step \in {"copy", "report", "idle"})
  BY <1>0, <1>1, <1>2, MadeAfter
<1>6. ASSUME NEW i \in Indices, i # In(w), HasData(i) PROVE HasData(i)'
  <2>1. ~ Copying(w, i) /\ ~ Copying(w, i)'
    BY <1>2, <1>6 DEF Copying, In
  <2> QED BY <1>0, <1>1, <1>2, <1>6, <2>1, DataStays
<1>7. CASE MakeDirs(w)
  <2>1. /\ job[w].step = "make" /\ job'[w].step = (IF Entry(In(w)).dir THEN "report" ELSE "create")
        /\ dirs' = dirs \cup Needed(In(w))
    BY <1>7, Moves DEF MakeDirs
  <2>4. \A i \in Indices :
          /\ Made(i) => Made(i)'
          /\ Made(i)' => Made(i) \/ (Entry(i).dir /\ Target(i) \in dirs')
          /\ Made(i) /\ ~ Entry(i).dir /\ HasData(i) => HasData(i)'
    <3> SUFFICES ASSUME NEW i \in Indices
                 PROVE  /\ Made(i) => Made(i)'
                        /\ Made(i)' => Made(i) \/ (Entry(i).dir /\ Target(i) \in dirs')
                        /\ Made(i) /\ ~ Entry(i).dir /\ HasData(i) => HasData(i)'
      OBVIOUS
    <3>1. CASE i = In(w)
      <4>1. ~ Made(i) /\ (Made(i)' => job'[w].step \in {"copy", "report", "idle"})
        BY <1>5, <2>1, <3>1
      <4>2. Made(i)' => Entry(i).dir
        BY <2>1, <3>1, <4>1
      <4>3. Entry(i).dir => Target(i) \in dirs'
        <5>1. Target(i) \in WithParents(Target(i))
          BY DEF WithParents
        <5> QED BY <2>1, <3>1, <5>1 DEF Needed
      <4> QED BY <4>1, <4>2, <4>3
    <3>2. CASE i # In(w)
      BY <1>5, <1>6, <3>2
    <3> QED BY <3>1, <3>2
  <2> QED BY <1>0, <1>1, <1>3, <2>4, KeepsSettled
<1>8. CASE CopyEnds(w) \/ ReportEntry(w)
  <2>1. job[w].step \in {"copy", "report"} /\ job'[w].step \in {"report", "idle"}
    <3>1. CASE CopyEnds(w)
      BY <3>1, Moves DEF CopyEnds
    <3>2. CASE ReportEntry(w)
      BY <3>2 DEF ReportEntry, Idle, TypeInv
    <3> QED BY <1>8, <3>1, <3>2
  <2>2. \A i \in Indices : Made(i)' <=> Made(i)
    BY <1>5, <2>1
  <2>3. ASSUME NEW i \in Indices, i = In(w), HasData(i) PROVE HasData(i)'
    <3>1. CASE CopyEnds(w)
      <4>1. Entry(i).data \in Seq(Nat) /\ Len(Entry(i).data) \in Nat /\ job[w].off \in Nat
        BY DataTypes DEF TypeInv, Places
      <4>2. Copying(w, i) /\ ~ (job[w].off < Len(Entry(i).data))
        BY <2>3, <3>1 DEF CopyEnds, Left, Copying
      <4>3. job[w].off <= Len(Entry(i).data) /\ files[Target(i)] = SubSeq(Entry(i).data, 1, job[w].off)
        BY <2>3, <4>2 DEF HasData
      <4>4. files[Target(i)] = Entry(i).data
        <5>1. job[w].off = Len(Entry(i).data)
          BY <4>1, <4>2, <4>3
        <5>2. SubSeq(Entry(i).data, 1, job[w].off) = Entry(i).data
          BY <4>1, <5>1
        <5> QED BY <4>3, <5>2
      <4>5. \A v \in Workers : ~ Copying(v, i)'
        <5>1. job'[w].step = "report"
          BY <3>1, Moves DEF CopyEnds
        <5>2. \A v \in Workers \ {w} : job[v].step = "copy" => In(v) # i
          BY <1>1, <2>3 DEF Once, Busy
        <5> QED BY <1>2, <5>1, <5>2 DEF Copying, In
      <4>6. Entry(i)' = Entry(i) /\ Target(i)' = Target(i)
        BY <1>0, EntriesStay
      <4> QED BY <1>1, <4>4, <4>5, <4>6 DEF HasData
    <3>2. CASE ReportEntry(w)
      <4>1. ~ Copying(w, i) /\ ~ Copying(w, i)'
        BY <2>1, <3>2 DEF ReportEntry, Copying
      <4> QED BY <1>0, <1>1, <1>2, <2>3, <4>1, DataStays
    <3> QED BY <1>8, <3>1, <3>2
  <2>4. \A i \in Indices : HasData(i) => HasData(i)'
    BY <1>6, <2>3
  <2> QED BY <1>0, <1>1, <1>3, <2>2, <2>4, KeepsSettled
<1> QED BY <1>7, <1>8

(* A file that is truncated has no finished entry that is its newest.      *)
LEMMA SettledAfterCreate ==
  ASSUME TypeInv, Once, Progress, InOrder, Settled, NEW w \in Workers, Create(w)
  PROVE  Settled'
<1> USE DEF Same, At
<1> DEFINE t == Target(In(w))
<1>0. Next /\ Worker(w)
  BY DEF Next, Worker
<1>1. /\ todo' = todo /\ dirs' = dirs /\ stop' = stop /\ phase' = phase /\ result' = result
      /\ Busy(w) /\ job[w].step = "create" /\ job'[w].step = "copy" /\ job'[w].at = job[w].at
      /\ job'[w].off = job[w].off /\ \A v \in Workers \ {w} : job'[v] = job[v]
      /\ DOMAIN files' = DOMAIN files \cup {t}
      /\ \A p \in DOMAIN files' : files'[p] = IF p = t THEN <<>> ELSE files[p]
  BY Moves DEF Create, Busy
<1>2. PICK i \in Indices : i = In(w)
  BY <1>1 DEF Once
<1>3. ~ PassedOver(i) /\ ~ Entry(i).dir /\ job[w].off = 0
  BY <1>1, <1>2 DEF Progress, Far
<1>4. Good' => Good
  BY <1>1 DEF Good
<1>5. /\ \A j \in Indices : j # i => (Made(j)' <=> Made(j))
      /\ ~ Made(i) /\ Made(i)'
  BY <1>0, <1>1, <1>2, <1>3, MadeAfter
<1>6. /\ Indices' = Indices /\ Format' = Format
      /\ \A j : /\ Entry(j)' = Entry(j) /\ Target(j)' = Target(j) /\ Rivals(j)' = Rivals(j)
               /\ (Alone(j)' <=> Alone(j))
  BY <1>0, EntriesStay, ArchiveStays DEF Format
<1> SUFFICES ASSUME Good PROVE Settled'
  BY <1>4 DEF Settled
<1> HIDE DEF t
<1>7. t = Target(i)
  BY <1>2 DEF t
<1> DEFINE Files == {j \in Indices : Made(j) /\ ~ Entry(j).dir}
<1>8. (DOMAIN files)' = {Target(j) : j \in Files}'
  <2>1. Files' = Files \cup {i}
    BY <1>3, <1>5, <1>6
  <2>2. {Target(j) : j \in Files}' = {Target(j) : j \in Files'}
    BY <1>6
  <2> HIDE DEF Files
  <2>3. {Target(j) : j \in Files'} = {Target(j) : j \in Files} \cup {t}
    BY <1>7, <2>1
  <2>4. DOMAIN files = {Target(j) : j \in Files}
    BY DEF Settled, Files
  <2> QED BY <1>1, <2>2, <2>3, <2>4
<1>9. \A j \in Indices : Made(j)' /\ Entry(j).dir => Target(j) \in dirs'
  BY <1>1, <1>3, <1>5 DEF Settled
<1>10. ASSUME NEW j \in Indices, Made(j)', ~ Entry(j).dir, Newest(j)' PROVE HasData(j)'
  <2>1. CASE j = i
    <3>1. t \in DOMAIN files' /\ files'[Target(i)'] = <<>>
      BY <1>1, <1>6, <1>7
    <3>2. SubSeq(Entry(i).data, 1, 0) = <<>> /\ 0 <= Len(Entry(i).data)
      BY DataTypes
    <3>3. \A v \in Workers : Copying(v, i)' => v = w
      BY <1>1, <1>2 DEF Once, Busy, Copying, In
    <3>4. Copying(w, i)'
      BY <1>1, <1>2 DEF Copying, In
    <3> QED BY <1>1, <1>3, <1>6, <2>1, <3>1, <3>2, <3>3, <3>4 DEF HasData
  <2>2. CASE j # i
    <3>1. Made(j) /\ Newest(j)
      <4>1. \A k \in Rivals(j) : k \in Indices
        BY DEF Rivals
      <4> QED BY <1>5, <1>6, <1>10, <2>2, <4>1 DEF Newest
    <3>2. HasData(j)
      BY <1>10, <3>1 DEF Settled
    <3>3. Target(j) # Target(i)
      <4> SUFFICES ASSUME Target(j) = Target(i) PROVE FALSE
        OBVIOUS
      <4>1. i \in Rivals(j) /\ ~ (i <= j)
        <5>1. Made(j) /\ (Format # "zip" \/ Alone(j))
          BY <3>1 DEF Newest
        <5>2. i # j
          BY <2>2
        <5>3. NoRivalAt(w, j)
          BY <1>1, <1>2, <5>1, <5>2, NoRival DEF NoRivalAt
        <5> QED BY <1>2, <5>3 DEF NoRivalAt
      <4>2. Made(i)' /\ i \in Rivals(j)'
        BY <1>5, <1>6, <4>1
      <4> QED BY <1>10, <4>1, <4>2 DEF Newest
    <3>4. files'[Target(j)] = files[Target(j)]
      <4>1. Target(j) \in DOMAIN files
        BY <1>10, <3>1 DEF Settled
      <4> QED BY <1>1, <1>7, <3>3, <4>1
    <3>5. ~ Copying(w, j) /\ ~ Copying(w, j)'
      BY <1>1, <1>2, <2>2 DEF Copying, In
    <3> QED BY <1>0, <1>1, <3>2, <3>4, <3>5, DataStays
  <2> QED BY <2>1, <2>2
<1> QED BY <1>6, <1>8, <1>9, <1>10 DEF Settled

LEMMA SettledAfterCopy ==
  ASSUME TypeInv, Once, Progress, InOrder, Settled, NEW w \in Workers, Copy(w)
  PROVE  Settled'
<1> USE DEF Same, At
<1> DEFINE t == Target(In(w))
<1>0. Next /\ Worker(w)
  BY DEF Next, Worker
<1>1. /\ todo' = todo /\ dirs' = dirs /\ stop' = stop /\ phase' = phase /\ result' = result
      /\ Busy(w) /\ job[w].step = "copy" /\ job'[w].step = "copy" /\ job'[w].at = job[w].at
      /\ job'[w].off = job[w].off + 1 /\ \A v \in Workers \ {w} : job'[v] = job[v]
      /\ DOMAIN files' = DOMAIN files
      /\ \A p \in DOMAIN files : p # t => files'[p] = files[p]
  BY DEF Copy, Busy, TypeInv, Places
<1>2. PICK i \in Indices : i = In(w)
  BY <1>1 DEF Once
<1>3. /\ ~ PassedOver(i) /\ ~ Entry(i).dir
      /\ job[w].off \in Nat /\ job[w].off < Len(Entry(i).data)
  BY <1>1, <1>2 DEF Progress, Far, Copy, Left, TypeInv, Places
<1>4. Good' => Good
  BY <1>1 DEF Good
<1>5. /\ \A j \in Indices : Made(j)' <=> Made(j)
      /\ Made(i)
  BY <1>0, <1>1, <1>2, <1>3, MadeAfter
<1>6. /\ Indices' = Indices /\ Format' = Format
      /\ \A j : /\ Entry(j)' = Entry(j) /\ Target(j)' = Target(j) /\ Rivals(j)' = Rivals(j)
               /\ (Alone(j)' <=> Alone(j))
  BY <1>0, EntriesStay, ArchiveStays DEF Format
<1> SUFFICES ASSUME Good PROVE Settled'
  BY <1>4 DEF Settled
<1> HIDE DEF t
<1>7. t = Target(i)
  BY <1>2 DEF t
<1> DEFINE Files == {j \in Indices : Made(j) /\ ~ Entry(j).dir}
<1>8. (DOMAIN files)' = {Target(j) : j \in Files}'
  <2>1. Files' = Files
    BY <1>5, <1>6
  <2>2. {Target(j) : j \in Files}' = {Target(j) : j \in Files'}
    BY <1>6
  <2>3. DOMAIN files = {Target(j) : j \in Files}
    BY DEF Settled
  <2> QED BY <1>1, <2>1, <2>2, <2>3
<1>9. \A j \in Indices : Made(j)' /\ Entry(j).dir => Target(j) \in dirs'
  BY <1>1, <1>5 DEF Settled
<1>10. ASSUME NEW j \in Indices, Made(j)', ~ Entry(j).dir, Newest(j)' PROVE HasData(j)'
  <2>0. Made(j) /\ Newest(j)
    <3>1. \A k \in Rivals(j) : k \in Indices
      BY DEF Rivals
    <3> QED BY <1>5, <1>6, <1>10, <3>1 DEF Newest
  <2>1. HasData(j)
    BY <1>10, <2>0 DEF Settled
  <2>2. Target(j) \in DOMAIN files
    BY <1>10, <2>0 DEF Settled
  <2>3. CASE j = i
    <3> DEFINE off == job[w].off + 1
    <3>1. files[t] = SubSeq(Entry(i).data, 1, job[w].off)
      BY <1>1, <1>2, <1>7, <2>1, <2>3 DEF HasData, Copying
    <3>2. files'[t] = Written(files[t], off, Entry(i).data[off])
      BY <1>2, <1>7, <2>2, <2>3 DEF Copy
    <3>3. Entry(i).data \in Seq(Nat) /\ Len(Entry(i).data) \in Nat
      BY DataTypes
    <3>4. files'[t] = SubSeq(Entry(i).data, 1, off)
      BY <1>3, <3>1, <3>2, <3>3, WrittenNext
    <3>5. \A v \in Workers : Copying(v, i)' => v = w
      BY <1>1, <1>2 DEF Once, Busy, Copying, In
    <3>6. Copying(w, i)' /\ off <= Len(Entry(i).data)
      BY <1>1, <1>2, <1>3, <3>3 DEF Copying, In
    <3> QED BY <1>1, <1>6, <1>7, <2>3, <3>4, <3>5, <3>6 DEF HasData
  <2>4. CASE j # i
    <3>1. Target(j) # Target(i)
      <4> SUFFICES ASSUME Target(j) = Target(i) PROVE FALSE
        OBVIOUS
      <4>1. NoRivalAt(w, j)
        BY <1>1, <1>2, <2>0, <2>4, NoRival DEF Newest
      <4> QED BY <1>2, <1>5, <2>0, <4>1 DEF NoRivalAt, Newest
    <3>2. files'[Target(j)] = files[Target(j)]
      BY <1>1, <1>7, <2>2, <3>1
    <3>3. ~ Copying(w, j) /\ ~ Copying(w, j)'
      BY <1>1, <1>2, <2>4 DEF Copying, In
    <3> QED BY <1>0, <1>1, <2>1, <3>2, <3>3, DataStays
  <2> QED BY <2>3, <2>4
<1> QED BY <1>6, <1>8, <1>9, <1>10 DEF Settled

LEMMA SettledStep ==
  ASSUME TypeInv, Once, Progress, Ends, InOrder, Settled, Next
  PROVE  Settled'
<1> USE DEF tree, channel
<1>1. CASE Start
  BY <1>1 DEF Start, Settled, Good
<1>2. CASE Open
  <2>1. files' = <<>> /\ todo' = Indices /\ Indices' = Indices
    BY <1>2, ArchiveStays DEF Open, Ends
  <2>2. \A i \in Indices : ~ Made(i)'
    BY <2>1 DEF Made
  <2>3. DOMAIN files' = {}
    BY <2>1
  <2>4. {j \in Indices : Made(j) /\ ~ Entry(j).dir}' = {}
    BY <2>1, <2>2
  <2>5. {Target(i) : i \in {j \in Indices : Made(j) /\ ~ Entry(j).dir}}' = {}
    BY <2>4
  <2> QED BY <2>1, <2>2, <2>3, <2>5 DEF Settled
<1>3. CASE (Caller \/ Display) /\ ~ Start /\ ~ Open
  <2>1. job' = job /\ files' = files /\ stop' = stop /\ dirs' = dirs /\ todo' = todo
    BY <1>3, OthersLeave
  <2>2. Good' => Good
    BY <1>3 DEF Caller, OpenFails, ExtractEnds, Report, Return, DropSink, Finish, Join, Drops, Display,
                Receive, DisplayEnds, Good, Ends
  <2>3. /\ Indices' = Indices
        /\ \A i : /\ Entry(i)' = Entry(i) /\ Target(i)' = Target(i)
                 /\ (PassedOver(i)' <=> PassedOver(i))
    BY EntriesStay
  <2>4. \A i \in Indices : Made(i)' <=> Made(i)
    BY <2>1, <2>3 DEF Made, Busy, In
  <2>5. \A i \in Indices : HasData(i)' <=> HasData(i)
    BY <2>1, <2>3 DEF HasData, Copying, In
  <2> QED BY <2>1, <2>2, <2>4, <2>5, KeepsSettled
<1>4. ASSUME NEW w \in Workers, EntryFails(w) PROVE Settled'
  BY <1>4 DEF EntryFails, Settled, Good
<1>5. ASSUME NEW w \in Workers, Worker(w) PROVE Settled'
  BY <1>4, <1>5, SettledAfterTake, SettledAfterMove, SettledAfterCreate, SettledAfterCopy DEF Worker
<1> QED BY <1>1, <1>2, <1>3, <1>5 DEF Next
-----------------------------------------------------------------------------
LEMMA NeedsStay ==
  ASSUME Next
  PROVE  Listed' = Listed /\ \A i : Needed(i)' = Needed(i)
<1>1. /\ Indices' = Indices
      /\ \A i : Entry(i)' = Entry(i) /\ Target(i)' = Target(i) /\ (PassedOver(i)' <=> PassedOver(i))
  BY EntriesStay
<1>2. Listed' = Listed
  BY <1>1 DEF Listed
<1>3. \A i : Needed(i)' = Needed(i)
  BY <1>1 DEF Needed
<1> QED BY <1>2, <1>3

(* A directory is made for an entry, and stays.                            *)
LEMMA DirsStep ==
  ASSUME TypeInv, Once, Progress, Ends, DirsAre, Next
  PROVE  DirsAre'
<1> USE DEF tree, channel
<1> DEFINE All == {<<>>} \cup UNION {Needed(i) : i \in Listed}
<1>1. All' = All /\ Listed' = Listed /\ \A i : Needed(i)' = Needed(i)
  <2>1. Listed' = Listed /\ \A i : Needed(i)' = Needed(i)
    BY NeedsStay
  <2>2. {Needed(i) : i \in Listed}' = {Needed(i) : i \in Listed}
    BY <2>1
  <2> QED BY <2>1, <2>2
<1>2. dirs \subseteq All
  BY DEF DirsAre
<1> HIDE DEF All
<1>3. ASSUME dirs' \subseteq All,
             phase' = "open" \/ Good' => <<>> \in dirs',
             ASSUME Good', NEW i \in Listed \ todo' PROVE Awaits(i)' \/ Needed(i) \subseteq dirs'
      PROVE  DirsAre'
  <2>1. dirs' \subseteq ({<<>>} \cup UNION {Needed(i) : i \in Listed})'
    BY <1>1, <1>3 DEF All
  <2> QED BY <1>1, <1>3, <2>1 DEF DirsAre
<1>4. CASE Start
  <2>1. ~ Good'
    BY <1>4 DEF Start, Good
  <2>2. dirs' \subseteq All /\ (phase' = "open" => <<>> \in dirs')
    BY <1>2, <1>4 DEF Start, All
  <2> QED BY <1>3, <2>1, <2>2
<1>5. CASE Open
  <2>1. dirs' = dirs /\ <<>> \in dirs /\ todo' = Indices
    BY <1>5 DEF Open, DirsAre
  <2>2. Listed \ todo' = {}
    BY <2>1 DEF Listed
  <2> QED BY <1>2, <1>3, <2>1, <2>2
<1>6. CASE (Caller \/ Display) /\ ~ Start /\ ~ Open
  <2>1. job' = job /\ dirs' = dirs /\ todo' = todo
    BY <1>6, OthersLeave
  <2>2. phase' # "open" \/ phase' = phase
    BY <1>6 DEF Caller, OpenFails, ExtractEnds, Report, Return, DropSink, Finish, Join, Drops, Display,
                Receive, DisplayEnds, Good, Ends
  <2>3. Good' => Good
    BY <1>6 DEF Caller, OpenFails, ExtractEnds, Report, Return, DropSink, Finish, Join, Drops, Display,
                Receive, DisplayEnds, Good, Ends
  <2>4. \A i : Awaits(i)' <=> Awaits(i)
    BY <2>1 DEF Awaits, In
  <2> QED BY <1>2, <1>3, <2>1, <2>2, <2>3, <2>4 DEF DirsAre
<1>7. ASSUME NEW w \in Workers, Worker(w) PROVE DirsAre'
  <2>1. /\ phase = "extract" /\ phase' = "extract" /\ result' = result /\ dirs \subseteq dirs'
        /\ \A v \in Workers \ {w} : job'[v] = job[v]
        /\ stop => stop'
    BY <1>7, WorkerLeaves
  <2>2. Good' => Good
    BY <2>1 DEF Good
  <2>3. ASSUME NEW i, Awaits(i) PROVE Awaits(i)' \/ (In(w) = i /\ job[w].step = "make")
    BY <2>1, <2>3 DEF Awaits, In
  <2>4. ASSUME NEW i \in Listed \ todo, Good' PROVE Awaits(i) \/ Needed(i) \subseteq dirs'
    BY <2>1, <2>2, <2>4 DEF DirsAre
  <2>5. Good' => <<>> \in dirs'
    BY <2>1, <2>2 DEF DirsAre
  <2>6. job[w].step = "make" => In(w) \in Listed
    BY DEF Listed, Once, Busy, Progress, Far
  <2>7. ASSUME NEW i \in Indices, Take(w, i) PROVE DirsAre'
    <3>1. dirs' = dirs /\ todo' = todo \ {i} /\ job[w].step = "idle"
      BY <2>7 DEF Take, At
    <3>2. Good' /\ ~ PassedOver(i) => In(w)' = i /\ job'[w].step = "make"
      BY <2>7 DEF Take, Good, In, TypeInv
    <3>3. ASSUME Good', NEW j \in Listed \ todo' PROVE Awaits(j)' \/ Needed(j) \subseteq dirs'
      <4>1. CASE j = i
        BY <3>2, <3>3, <4>1 DEF Awaits, Listed
      <4>2. CASE j # i
        BY <2>3, <2>4, <3>1, <3>3, <4>2
      <4> QED BY <4>1, <4>2
    <3> QED BY <1>2, <1>3, <2>1, <2>5, <3>1, <3>3
  <2>8. CASE MakeDirs(w)
    <3>1. dirs' = dirs \cup Needed(In(w)) /\ todo' = todo /\ job[w].step = "make"
      BY <2>8 DEF MakeDirs, At
    <3>2. dirs' \subseteq All
      BY <1>2, <2>6, <3>1 DEF All
    <3>3. ASSUME Good', NEW j \in Listed \ todo' PROVE Awaits(j)' \/ Needed(j) \subseteq dirs'
      BY <2>3, <2>4, <3>1, <3>3
    <3> QED BY <1>3, <2>1, <2>5, <3>2, <3>3
  <2>9. CASE Create(w) \/ Copy(w) \/ CopyEnds(w) \/ ReportEntry(w)
    <3>1. dirs' = dirs /\ todo' = todo /\ job[w].step # "make"
      BY <2>9 DEF Create, Copy, CopyEnds, ReportEntry, At
    <3>2. ASSUME Good', NEW j \in Listed \ todo' PROVE Awaits(j)' \/ Needed(j) \subseteq dirs'
      BY <2>3, <2>4, <3>1, <3>2
    <3> QED BY <1>2, <1>3, <2>1, <2>5, <3>1, <3>2
  <2>10. CASE EntryFails(w)
    <3>1. ~ Good'
      BY <2>10 DEF EntryFails, Good
    <3>2. dirs' \subseteq All
      <4>1. CASE dirs' = dirs
        BY <1>2, <4>1
      <4>2. CASE job[w].step = "make" /\ \E made \in SUBSET Needed(In(w)) : dirs' = dirs \cup made
        BY <1>2, <2>6, <4>2 DEF All
      <4> QED BY <2>10, <4>1, <4>2 DEF EntryFails, At
    <3> QED BY <1>3, <2>1, <3>1, <3>2
  <2> QED BY <1>7, <2>7, <2>8, <2>9, <2>10 DEF Worker
<1> QED BY <1>4, <1>5, <1>6, <1>7 DEF Next
-----------------------------------------------------------------------------
LEMMA TreeInitially == Init => TInv
<1> SUFFICES ASSUME Init PROVE TInv
  OBVIOUS
<1>1. /\ phase = "start" /\ result = "none" /\ files = <<>> /\ dirs = {} /\ todo = {}
      /\ \A w \in Workers : ~ Busy(w)
  BY DEF Init, Busy, Idle
<1>2. DOMAIN files = {}
  BY <1>1
<1>3. Ends /\ InOrder /\ Settled
  BY <1>1 DEF Ends, InOrder, Settled, Good
<1>4. Apart /\ Units /\ DirsAre
  BY <1>1, <1>2 DEF Apart, Units, DirsAre, Good
<1> QED BY <1>3, <1>4 DEF TInv

LEMMA TreeInductive == UInv /\ TInv /\ [Next]_vars => TInv'
<1>1. ASSUME UInv, TInv, Next PROVE TInv'
  BY <1>1, EndsStep, InOrderStep, ApartStep, UnitsStep, SettledStep, DirsStep DEF UInv, TInv
<1>2. ASSUME UInv, TInv, UNCHANGED vars PROVE TInv'
  <2> USE <1>2 DEF vars
  <2>1. /\ Indices' = Indices /\ Format' = Format
        /\ \A i : /\ Entry(i)' = Entry(i) /\ Target(i)' = Target(i)
                 /\ (PassedOver(i)' <=> PassedOver(i))
        /\ \A w : (Busy(w)' <=> Busy(w)) /\ In(w)' = In(w)
    BY DEF Indices, Format, Entry, Target, PassedOver, Safe, Busy, In
  <2>2. \A i : Rivals(i)' = Rivals(i) /\ (Alone(i)' <=> Alone(i)) /\ (Made(i)' <=> Made(i))
    BY <2>1 DEF Rivals, Alone, Made
  <2>3. \A i : (Newest(i)' <=> Newest(i)) /\ (HasData(i)' <=> HasData(i))
    BY <2>1, <2>2 DEF Newest, HasData, Copying
  <2>4. Settled'
    <3>1. {j \in Indices : Made(j) /\ ~ Entry(j).dir}' = {j \in Indices : Made(j) /\ ~ Entry(j).dir}
      BY <2>1, <2>2
    <3>2. {Target(i) : i \in {j \in Indices : Made(j) /\ ~ Entry(j).dir}}'
            = {Target(i) : i \in {j \in Indices : Made(j) /\ ~ Entry(j).dir}}
      BY <2>1, <3>1
    <3>3. Good' <=> Good
      BY DEF Good
    <3> QED BY <2>1, <2>2, <2>3, <3>2, <3>3 DEF TInv, Settled
  <2>5. \A p, k : Fitting(p, k)' = Fitting(p, k)
    BY <2>1 DEF Fitting
  <2>6. Units' /\ Apart' /\ Ends' /\ InOrder'
    BY <2>1, <2>5 DEF TInv, Units, Apart, Ends, InOrder
  <2>7. DirsAre'
    <3>1. Listed' = Listed /\ (\A i : Needed(i)' = Needed(i)) /\ \A i : Awaits(i)' <=> Awaits(i)
      BY <2>1 DEF Listed, Needed, Awaits
    <3>2. {Needed(i) : i \in Listed}' = {Needed(i) : i \in Listed}
      BY <3>1
    <3>3. Good' <=> Good
      BY DEF Good
    <3> QED BY <3>1, <3>2, <3>3 DEF TInv, DirsAre
  <2> QED BY <2>4, <2>6, <2>7 DEF TInv
<1> QED BY <1>1, <1>2

(* Of finitely many entries of one path one is the last. *)
LEMMA LastIsLast ==
  ASSUME TypeInv, NEW S \in SUBSET Indices, NEW i \in S
  PROVE  LastOf(S) \in S /\ \A k \in S : k <= LastOf(S)
<1>1. PICK n \in Nat : Indices = 1 .. n
  <2>1. archive.entries \in Seq([name : Seq(STRING), dir : BOOLEAN, data : Seq(Nat)])
    BY ContentAssumption DEF TypeInv
  <2> QED BY <2>1 DEF Indices
<1> DEFINE Above(m) == \A k \in S : k <= m
<1>2. \E m \in S : Above(m)
  <2> DEFINE T == {m \in Nat : Above(m)}
  <2>1. n \in T
    BY <1>1
  <2>2. PICK m \in T : \A k \in T : m <= k
    <3> HIDE DEF T
    <3>1. T \subseteq Nat
      BY DEF T
    <3> QED BY <2>1, <3>1, Least
  <2>3. CASE m \in S
    BY <2>2, <2>3
  <2>4. CASE m \notin S
    <3>1. \A k \in S : k <= m - 1 /\ m - 1 \in Nat
      BY <1>1, <2>2, <2>4
    <3>2. m - 1 \in T
      BY <3>1
    <3> QED BY <2>2, <3>2
  <2> QED BY <2>3, <2>4
<1>3. LastOf(S) = CHOOSE j \in S : \A k \in S : k <= j
  BY DEF LastOf
<1> QED BY <1>2, <1>3, Zenon

(* A call of unpack that returns Ok has made the files and the directories *)
(* of the entries of the archive, and nothing else: the last entry of a    *)
(* path wins in the loops of tar, 7z and rar, and where rayon's workers    *)
(* write two entries to one path, each unit comes from the place of an     *)
(* entry it belongs to.                                                    *)
THEOREM TreeIsMade == Spec => []TreeIsRight
<1>1. UInv /\ TInv => TreeIsRight
  <2> SUFFICES ASSUME UInv, TInv, phase = "done", result = "ok"
               PROVE  /\ DOMAIN files = {Target(i) : i \in {j \in Indices : ~ Entry(j).dir /\ ~ PassedOver(j)}}
                      /\ dirs = {<<>>} \cup UNION {Needed(i) : i \in {j \in Indices : ~ PassedOver(j)}}
                      /\ \A i \in Indices : ~ PassedOver(i) =>
                           IF Format # "zip" \/ Rivals(i) = {i} \/ Entry(i).dir
                             THEN OnDisk(LastOf(Rivals(i)))
                             ELSE \A k \in DOMAIN files[Target(i)] :
                                    files[Target(i)][k] \in {Hole} \cup
                                      {Entry(j).data[k] : j \in {r \in Rivals(i) : k <= Len(Entry(r).data)}}
    BY DEF TreeIsRight
  <2>1. TypeInv /\ Once /\ Ends /\ Apart /\ Units /\ Settled /\ DirsAre
    BY DEF UInv, TInv
  <2>2. \A i \in Indices : Made(i) <=> ~ PassedOver(i)
    BY <2>1 DEF Ends, Made
  <2>3. Good
    BY <2>1 DEF Ends, Good
  <2>4. DOMAIN files = {Target(i) : i \in {j \in Indices : ~ Entry(j).dir /\ ~ PassedOver(j)}}
    <3>1. {j \in Indices : Made(j) /\ ~ Entry(j).dir}
            = {j \in Indices : ~ Entry(j).dir /\ ~ PassedOver(j)}
      BY <2>2
    <3> QED BY <2>1, <2>3, <3>1 DEF Settled
  <2>5. ASSUME NEW i \in Indices, ~ PassedOver(i),
               Format # "zip" \/ Rivals(i) = {i} \/ Entry(i).dir
        PROVE  OnDisk(LastOf(Rivals(i)))
    <3>1. i \in Rivals(i) /\ Rivals(i) \subseteq Indices
      BY <2>5 DEF Rivals
    <3>2. PICK m \in Rivals(i) : m = LastOf(Rivals(i)) /\ \A k \in Rivals(i) : k <= m
      BY <2>1, <3>1, LastIsLast
    <3>3. m \in Indices /\ ~ PassedOver(m) /\ Target(m) = Target(i) /\ Rivals(m) = Rivals(i) /\ Made(m)
      BY <2>2, <3>2 DEF Rivals
    <3>4. CASE Entry(m).dir
      BY <2>1, <2>3, <3>2, <3>3, <3>4 DEF Settled, OnDisk
    <3>5. CASE ~ Entry(m).dir
      <4>1. Target(m) \in DOMAIN files
        BY <2>1, <2>3, <3>3, <3>5 DEF Settled
      <4>2. ~ Entry(i).dir
        <5>1. Entry(i).dir => Target(i) \in dirs
          BY <2>1, <2>2, <2>3, <2>5 DEF Settled
        <5> QED BY <2>1, <3>3, <4>1, <5>1 DEF Apart
      <4>3. Newest(m)
        <5>1. Format # "zip" \/ Alone(m)
          BY <2>5, <3>2, <3>3, <4>2 DEF Alone
        <5> QED BY <3>2, <3>3, <5>1 DEF Newest
      <4>4. HasData(m)
        BY <2>1, <2>3, <3>3, <3>5, <4>3 DEF Settled
      <4>5. \A w \in Workers : ~ Copying(w, m)
        BY <2>1 DEF Ends, Busy, Copying
      <4> QED BY <3>2, <3>5, <4>1, <4>4, <4>5 DEF HasData, OnDisk
    <3> QED BY <3>4, <3>5
  <2>6. ASSUME NEW i \in Indices, ~ PassedOver(i), ~ Entry(i).dir, NEW k \in DOMAIN files[Target(i)]
        PROVE  files[Target(i)][k] \in {Hole} \cup
                 {Entry(j).data[k] : j \in {r \in Rivals(i) : k <= Len(Entry(r).data)}}
    <3>1. Target(i) \in DOMAIN files
      BY <2>4, <2>6
    <3>2. files[Target(i)] \in Seq(Nat \cup {Hole})
      BY <2>1, <3>1 DEF Units
    <3>3. k \in 1 .. Len(files[Target(i)])
      BY <2>6, <3>2
    <3>4. files[Target(i)][k] \in {Hole} \cup Fitting(Target(i), k)
      BY <2>1, <3>1, <3>3 DEF Units
    <3>5. Fitting(Target(i), k)
            = {Entry(j).data[k] : j \in {r \in Rivals(i) : k <= Len(Entry(r).data)}}
      BY DEF Fitting, Rivals
    <3> QED BY <3>4, <3>5
  <2>7. ASSUME NEW i \in Indices, ~ PassedOver(i)
        PROVE  IF Format # "zip" \/ Rivals(i) = {i} \/ Entry(i).dir
                 THEN OnDisk(LastOf(Rivals(i)))
                 ELSE \A k \in DOMAIN files[Target(i)] :
                        files[Target(i)][k] \in {Hole} \cup
                          {Entry(j).data[k] : j \in {r \in Rivals(i) : k <= Len(Entry(r).data)}}
    BY <2>5, <2>6, <2>7
  <2>8. dirs = {<<>>} \cup UNION {Needed(i) : i \in {j \in Indices : ~ PassedOver(j)}}
    <3>1. \A i : ~ Awaits(i)
      BY <2>1 DEF Ends, Busy, Awaits
    <3>2. <<>> \in dirs /\ \A i \in Listed : Needed(i) \subseteq dirs
      BY <2>1, <2>3, <3>1 DEF DirsAre, Ends
    <3>3. dirs \subseteq {<<>>} \cup UNION {Needed(i) : i \in Listed}
      BY <2>1 DEF DirsAre
    <3> QED BY <3>2, <3>3 DEF Listed
  <2> QED BY <2>4, <2>7, <2>8
<1>2. Spec => []UInv
  BY Holds
<1>3. Spec => []TInv
  BY <1>2, TreeInitially, TreeInductive, PTL DEF Spec
<1> QED BY <1>1, <1>2, <1>3, PTL
=============================================================================
