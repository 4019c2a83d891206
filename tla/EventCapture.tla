---------------------------- MODULE EventCapture ----------------------------
(***************************************************************************)
(* eventcapture: a Recorder, whose flusher takes events from a bounded     *)
(* channel, over the JSON lines Sink, a size-rotated file.                 *)
(*                                                                         *)
(* Events are numbered as they are recorded. A file is a sequence of       *)
(* bytes, <<e, i>> being byte i of the line of event e: what reaches it    *)
(* may end anywhere in a line. Rotated files carry the time of their       *)
(* rotation: the clock is taken never to step back, so that names sort by  *)
(* age. The transform, the observer and the records of onFlush are left    *)
(* out.                                                                    *)
(***************************************************************************)
EXTENDS Naturals, Sequences, FiniteSets, SequencesExt

CONSTANTS Closer,      \* callers of Close
          BufferSize, MaxBytes, MaxFiles,
          Large,       \* events whose line alone exceeds MaxBytes
          Unencodable, \* events json.Marshal fails on
          MaxEvents,   \* bound
          MaxCrashes   \* bound

ASSUME CaptureAssumption ==
    /\ BufferSize \in Nat \ {0} /\ MaxBytes \in Nat \ {0} /\ MaxFiles \in Nat \ {0}
    /\ MaxEvents \in Nat /\ MaxCrashes \in Nat /\ Large \subseteq 1..MaxEvents
    /\ Unencodable \subseteq 1..MaxEvents

VARIABLES recorded,    \* how many events Record was called with
          events,      \* r.events
          droppedEvs,  \* those r.dropped counts
          flusher,     \* where Run is
          stopAsked,   \* r.stop is closed
          accepted,    \* events Write took, those a crash took back excepted
          refused,     \* events Write answered with an error
          fresh,       \* ghost: nothing was accepted since a restart
          firsts,      \* ghost: the first events accepted after a restart
          closerPc,    \* where a Close is, and its answer
          stopSaw,     \* ghost: recorded, when r.stop was closed
          disk,        \* "sound", or "failing": any operation on it may fail
          file,        \* s.f: "open"; "dead", closed though not nil; "nil"
          lineBuf,     \* s.w: the bytes it holds
          bufErr,      \* s.w failed once, and fails ever since
          size,        \* s.written
          liveFile, rotated,  \* the files, the rotated ones oldest first
          pruned,      \* events in files that were pruned
          crashes

recorderVars == <<recorded, events, droppedEvs, flusher, stopAsked, closerPc, stopSaw>>
outcomeVars == <<accepted, refused, fresh, firsts>>
sinkVars == <<file, lineBuf, bufErr, size, liveFile, rotated, pruned>>
captureVars == <<recorderVars, outcomeVars, sinkVars, disk, crashes>>

Event == 1..MaxEvents

\* The bytes of a line, the last of them its newline.
LineSize(e) == IF e \in Large THEN MaxBytes + 1 ELSE 2
Line(e) == [i \in 1..LineSize(e) |-> <<e, i>>]
Byte == Event \X (Nat \ {0})

CaptureTypeOK ==
    /\ recorded \in 0..MaxEvents /\ events \in Seq(Event) /\ Len(events) <= BufferSize
    /\ flusher \in {"runs", "drains", "swept", "done"} /\ stopAsked \in BOOLEAN
    /\ droppedEvs \subseteq Event /\ accepted \subseteq Event /\ refused \subseteq Event
    /\ closerPc \in [Closer -> {"idle", "waits", "nil", "expired"}]
    /\ stopSaw \in 0..MaxEvents
    /\ disk \in {"sound", "failing"} /\ file \in {"open", "dead", "nil"}
    /\ fresh \in BOOLEAN /\ firsts \subseteq Event
    /\ lineBuf \in Seq(Byte) /\ bufErr \in BOOLEAN /\ size \in Nat
    /\ liveFile \in Seq(Byte) /\ rotated \in Seq(Seq(Byte)) /\ pruned \subseteq Event
    /\ crashes \in 0..MaxCrashes

CaptureInit ==
    /\ recorded = 0 /\ events = <<>> /\ droppedEvs = {} /\ flusher = "runs"
    /\ stopAsked = FALSE /\ accepted = {} /\ refused = {}
    /\ fresh = FALSE /\ firsts = {}
    /\ closerPc = [k \in Closer |-> "idle"] /\ stopSaw = 0
    /\ disk \in {"sound", "failing"} /\ file = "open" /\ lineBuf = <<>>
    /\ bufErr = FALSE /\ size = 0 /\ liveFile = <<>> /\ rotated = <<>>
    /\ pruned = {} /\ crashes = 0

-----------------------------------------------------------------------------
(* The Sink. Each operation runs under its mutex.                          *)
Reached(k) == /\ liveFile' = liveFile \o SubSeq(lineBuf, 1, k)
              /\ lineBuf' = SubSeq(lineBuf, k + 1, Len(lineBuf))

FlushOK == /\ ~bufErr /\ (file = "dead" => lineBuf = <<>>)
           /\ Reached(Len(lineBuf)) /\ UNCHANGED bufErr
FlushBroken == bufErr /\ UNCHANGED <<lineBuf, liveFile, bufErr>>
FlushFails ==
    \/ FlushBroken
    \/ /\ disk = "failing" /\ ~bufErr /\ lineBuf # <<>> /\ bufErr' = TRUE
       /\ \E k \in 0..Len(lineBuf) - 1 : (file = "dead" => k = 0) /\ Reached(k)

(* Variant: the byte count starts from zero.                               *)
OpenSizeForgotten(bytes) == 0

\* openLocked: the byte count is resumed from the file's size.
OpenSize(bytes) == Len(bytes)

EventsIn(bytes) == {b[1] : b \in ToSet(bytes)}

\* pruneLocked: the oldest files beyond MaxFiles go; a removal may fail. The
\* others stay in their order.
Surplus(files) == IF Len(files) > MaxFiles THEN Len(files) - MaxFiles ELSE 0
Oldest(files) == 1..Surplus(files)
InOrder(kept) ==
    {at \in [1..Cardinality(kept) -> kept] :
        Range(at) = kept /\ \A i, j \in DOMAIN at : i < j => at[i] < at[j]}

Prunes(files) ==
    \E gone \in SUBSET Oldest(files) :
        /\ disk = "sound" => gone = Oldest(files)
        /\ \E at \in InOrder(DOMAIN files \ gone) : rotated' = [i \in DOMAIN at |-> files[at[i]]]
        /\ pruned' = pruned \cup UNION {EventsIn(files[i]) : i \in gone}

NeedsRotation(e) == size > 0 /\ size + LineSize(e) > MaxBytes

Refuses(e) == refused' = refused \cup {e} /\ UNCHANGED <<accepted, fresh, firsts>>
Accepts(e) == /\ accepted' = accepted \cup {e} /\ UNCHANGED refused
              /\ fresh' = FALSE /\ firsts' = firsts \cup IF fresh THEN {e} ELSE {}

(* The bufio.Writer, holding buf, takes n bytes of the line, and writes to *)
(* the file, behind what that has, any number of those it holds by then.   *)
Takes(e, n, buf, bytes) ==
    LET all == buf \o SubSeq(Line(e), 1, n)
    IN  \E k \in 0..Len(all) :
           /\ file = "dead" => k = 0
           /\ liveFile' = bytes \o SubSeq(all, 1, k)
           /\ lineBuf' = SubSeq(all, k + 1, Len(all))

(* s.w.Write. One that fails leaves the line cut short.                    *)
WriteLine(e, buf, bytes, count) ==
    \/ /\ Accepts(e) /\ Takes(e, LineSize(e), buf, bytes)
       /\ size' = count + LineSize(e) /\ UNCHANGED bufErr
    \/ /\ disk = "failing" /\ Refuses(e) /\ bufErr' = TRUE
       /\ \E n \in 0..LineSize(e) - 1 : Takes(e, n, buf, bytes) /\ size' = count + n

WriteFitting(e) ==
    \/ bufErr /\ Refuses(e) /\ UNCHANGED sinkVars
    \/ /\ ~bufErr /\ WriteLine(e, lineBuf, liveFile, size)
       /\ UNCHANGED <<file, rotated, pruned>>

(* Write after rotateLocked, which may fail at each of its steps. A failed *)
(* rename or open leaves the Sink closed.                                  *)
WriteRotating(e) ==
    \/ /\ FlushFails /\ Refuses(e)
       /\ UNCHANGED <<file, size, rotated, pruned>>
    \/ /\ FlushOK /\ (disk = "failing" \/ file = "dead") /\ file' = "dead" /\ Refuses(e)
       /\ UNCHANGED <<size, rotated, pruned>>
    \/ /\ ~bufErr /\ file = "open" /\ disk = "failing" /\ file' = "nil" /\ Refuses(e)
       /\ lineBuf' = <<>> /\ UNCHANGED <<bufErr, size, pruned>>
       /\ LET flushed == liveFile \o lineBuf
          IN  \/ liveFile' = flushed /\ UNCHANGED rotated
              \/ liveFile' = <<>> /\ rotated' = Append(rotated, flushed)
    \/ /\ ~bufErr /\ file = "open" /\ UNCHANGED file
       /\ Prunes(Append(rotated, liveFile \o lineBuf))
       /\ WriteLine(e, <<>>, <<>>, OpenSize(<<>>))

Write(e) ==
    \/ (e \in Unencodable \/ file = "nil") /\ Refuses(e) /\ UNCHANGED sinkVars
    \/ /\ e \notin Unencodable /\ file # "nil"
       /\ \/ ~NeedsRotation(e) /\ WriteFitting(e)
          \/ NeedsRotation(e) /\ WriteRotating(e)

Flush == \/ file = "nil" /\ UNCHANGED sinkVars
         \/ /\ file # "nil" /\ (FlushOK \/ FlushFails)
            /\ UNCHANGED <<file, size, rotated, pruned>>

\* Called after a Flush, which left nothing, or what cannot be written.
SinkCloses ==
    \/ file = "nil" /\ UNCHANGED sinkVars
    \/ /\ file # "nil" /\ (FlushOK \/ FlushBroken) /\ file' = "nil"
       /\ UNCHANGED <<size, rotated, pruned>>

-----------------------------------------------------------------------------
(* The Recorder.                                                           *)
RecordEvent ==
    /\ recorded < MaxEvents /\ recorded' = recorded + 1
    /\ \/ Len(events) < BufferSize /\ events' = Append(events, recorded + 1)
          /\ UNCHANGED droppedEvs
       \/ Len(events) = BufferSize /\ droppedEvs' = droppedEvs \cup {recorded + 1}
          /\ UNCHANGED events
    /\ UNCHANGED <<flusher, stopAsked, closerPc, stopSaw, outcomeVars, sinkVars,
                   disk, crashes>>

\* Of Run's loop, and of drain's.
Consume ==
    /\ flusher \in {"runs", "drains"} /\ events # <<>>
    /\ events' = Tail(events) /\ Write(Head(events))
    /\ UNCHANGED <<recorded, droppedEvs, flusher, stopAsked, closerPc, stopSaw, disk,
                   crashes>>

TickFlush ==
    /\ flusher = "runs" /\ Flush
    /\ UNCHANGED <<recorderVars, outcomeVars, disk, crashes>>

StopSeen ==
    /\ flusher = "runs" /\ stopAsked /\ flusher' = "drains"
    /\ UNCHANGED <<recorded, events, droppedEvs, stopAsked, closerPc, stopSaw,
                   outcomeVars, sinkVars, disk, crashes>>

(* Variant: the events that are left are not consumed.                     *)
FinalSweepAtOnce ==
    /\ flusher = "drains" /\ flusher' = "swept" /\ Flush
    /\ UNCHANGED <<recorded, events, droppedEvs, stopAsked, closerPc, stopSaw,
                   outcomeVars, disk, crashes>>

\* The channel is empty: the final flush, and then the Sink is closed.
FinalSweep ==
    /\ flusher = "drains" /\ events = <<>> /\ flusher' = "swept" /\ Flush
    /\ UNCHANGED <<recorded, events, droppedEvs, stopAsked, closerPc, stopSaw,
                   outcomeVars, disk, crashes>>

RunDone ==
    /\ flusher = "swept" /\ flusher' = "done" /\ SinkCloses
    /\ UNCHANGED <<recorded, events, droppedEvs, stopAsked, closerPc, stopSaw,
                   outcomeVars, disk, crashes>>

CloseRecorder(k) ==
    /\ closerPc[k] = "idle" /\ stopAsked' = TRUE
    /\ closerPc' = [closerPc EXCEPT ![k] = "waits"]
    /\ stopSaw' = IF stopAsked THEN stopSaw ELSE recorded
    /\ UNCHANGED <<recorded, events, droppedEvs, flusher, outcomeVars, sinkVars, disk,
                   crashes>>

CloseRecorderReturns(k) ==
    /\ closerPc[k] = "waits"
    /\ \E answer \in {"nil", "expired"} :
          /\ answer = "nil" => flusher = "done"
          /\ closerPc' = [closerPc EXCEPT ![k] = answer]
    /\ UNCHANGED <<recorded, events, droppedEvs, flusher, stopAsked, stopSaw, outcomeVars,
                   sinkVars, disk, crashes>>

(* The process dies, and another opens the same files, NewSink and         *)
(* NewRecorder, to append to what is there: the live file may end anywhere *)
(* in a line.                                                              *)
CrashAndReopen ==
    /\ crashes < MaxCrashes /\ crashes' = crashes + 1
    /\ events' = <<>> /\ flusher' = "runs" /\ stopAsked' = FALSE
    /\ accepted' = accepted \ EventsIn(lineBuf) /\ fresh' = TRUE
    /\ file' = "open" /\ lineBuf' = <<>> /\ bufErr' = FALSE /\ size' = OpenSize(liveFile)
    /\ closerPc' = [k \in Closer |-> "idle"] /\ stopSaw' = 0
    /\ UNCHANGED <<recorded, droppedEvs, refused, firsts, disk, liveFile, rotated, pruned>>

CaptureNext ==
    \/ RecordEvent \/ Consume \/ TickFlush \/ StopSeen \/ FinalSweep \/ RunDone \/ CrashAndReopen
    \/ \E k \in Closer : CloseRecorder(k) \/ CloseRecorderReturns(k)

CaptureSpec == CaptureInit /\ [][CaptureNext]_captureVars

-----------------------------------------------------------------------------
Files == Append(rotated, liveFile)

\* The lines a file has in full; those of them that begin behind a line that
\* was cut short, which no reader can tell apart; those that can be read.
Complete(bytes) == {e \in Event : ToSet(Line(e)) \subseteq ToSet(bytes)}
CutShort(b) == b[2] # LineSize(b[1])
Glued(bytes) ==
    {e \in Complete(bytes) :
        \E i \in DOMAIN bytes : i > 1 /\ bytes[i] = <<e, 1>> /\ CutShort(bytes[i - 1])}

Stored == UNION {Complete(f) \ Glued(f) : f \in ToSet(Files)}
Spoilt == UNION {Glued(f) : f \in ToSet(Files)}

(* When a Close has returned nil, every event recorded before the first    *)
(* Close was dropped and counted, was refused and counted, or is in the    *)
(* files, unless its file was pruned; on a sound disk only what cannot be  *)
(* encoded was refused (recorder.go, Close: "waits for it to drain         *)
(* buffered events and close the sink").                                   *)
CloseMeansOnDisk ==
    crashes = 0 /\ (\E k \in Closer : closerPc[k] = "nil") =>
        /\ 1..stopSaw \subseteq droppedEvs \cup accepted \cup refused
        /\ disk = "sound" => 1..stopSaw \subseteq droppedEvs \cup Unencodable \cup Stored \cup pruned

(* The files hold events in the order they were recorded and none twice;   *)
(* what they lack of the accepted events is newer than all they hold,      *)
(* except that a restart may spoil one in the middle: openLocked appends   *)
(* to a file that ends in part of a line, so that the first event accepted *)
(* after a restart may share its line, and no other ever does; pruning     *)
(* takes the oldest, if no removal fails; no file outgrows MaxBytes unless *)
(* it holds a single line, restarts or not (jsonl.go: "rotation thresholds *)
(* survive a restart"; recorder.go, drain: "not lost silently mid-file").  *)
FilesAreSound ==
    /\ \A f \in DOMAIN Files :
          /\ \A i, j \in DOMAIN Files[f] :
                i < j => \/ Files[f][i][1] < Files[f][j][1]
                         \/ Files[f][i][1] = Files[f][j][1] /\ Files[f][i][2] < Files[f][j][2]
          /\ Len(Files[f]) <= MaxBytes \/ Cardinality(EventsIn(Files[f])) = 1
    /\ \A f, g \in DOMAIN Files :
          f < g => \A d \in EventsIn(Files[f]), e \in EventsIn(Files[g]) : d < e
    /\ \A e \in accepted \ (Stored \cup Spoilt \cup pruned), d \in Stored : d < e
    /\ Spoilt \subseteq firsts
    /\ disk = "sound" => \A e \in pruned, d \in Stored : e < d
=============================================================================
