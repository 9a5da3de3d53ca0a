---------------------------- MODULE BufferWriter ----------------------------
(***************************************************************************)
(* The single writer of the on-disk event buffer (atlas-buffer): segment   *)
(* files, the ack cursor file, the in-memory backlog, and what an I/O      *)
(* error, a process crash or a power cut does to them.                     *)
(*                                                                         *)
(* Records are the numbers 1..MaxRecs in append order.  A segment file     *)
(* holds a sequence of frames: r > 0 is record r whole and valid, -r is    *)
(* record r with a bad CRC, 0 is a torn tail.  The reader and any other    *)
(* process see the files between two I/O calls of the writer, so every     *)
(* I/O call is a step of its own; wpc says which call comes next.          *)
(***************************************************************************)
EXTENDS Integers, Sequences, FiniteSets, Functions, FiniteSetsExt

CONSTANTS
  MaxRecs,       \* records the event source produces in one behaviour
  RecLen,        \* framed length of each record
  MaxFrame,      \* RECORD_HEADER + MAX_PAYLOAD: append rejects a longer one
  HeaderLen,     \* SEGMENT_HEADER
  SegmentBytes,  \* Config.segment_bytes
  CapBytes,      \* Config.cap_bytes
  BacklogBytes,  \* Config.backlog_bytes
  Policy,        \* Config.overflow
  MaxSeg,        \* the largest segment number, u64::MAX in the code
  MaxFaults,     \* bound: I/O calls that fail
  MaxCrashes,    \* bound: ends of the process, clean or not, and power cuts
  MaxRot         \* bound: frames, headers or cursors damaged on the disk

Recs == 1..MaxRecs
SegIds == 1..MaxSeg
Policies == {"Retention", "HeadTail", "DropOldest", "DropNewest"}

\* What Config::validate demands, and that records have a length.
ASSUME CountsAssumption ==
  /\ MaxRecs \in Nat /\ MaxSeg \in Nat /\ MaxFaults \in Nat
  /\ MaxCrashes \in Nat /\ MaxRot \in Nat
ASSUME ConfigAssumption ==
  /\ RecLen \in [Recs -> Nat \ {0}]
  /\ MaxFrame \in Nat /\ HeaderLen \in Nat \ {0} /\ SegmentBytes \in Nat
  /\ CapBytes \in Nat /\ BacklogBytes \in Nat
  /\ SegmentBytes > HeaderLen
  /\ CapBytes >= 4 * SegmentBytes
  /\ BacklogBytes >= MaxFrame
  /\ Policy \in Policies

VARIABLES
  disk,      \* the segment files
  cursor,    \* the cursor file
  wpc,       \* the writer's next I/O call; "down" when no process runs
  segs,      \* Writer.segments: the numbers the writer knows
  len,       \* Segment.len of each, in whole frames; -1 while it has no header
  active,    \* the last of segs
  fileOpen,  \* Writer.file is Some
  unsynced,  \* Writer.unsynced
  pending,   \* Writer.pending: framed records not yet written
  acked,     \* Writer.acked
  failing,   \* Writer.retry_at is Some
  closing,   \* this flush is the one of close()
  gaps,      \* records in Writer.gaps and drop_gap
  todo,      \* segments a loop of open or ack has still to visit
  undel,     \* make_room's undeletable
  nrec,      \* records the event source has offered so far
  fate,      \* history: what became of each record
  faults, crashes, rot  \* faults spent, against their bounds

diskVars == <<disk, cursor>>
memVars == <<segs, len, active, fileOpen, unsynced, pending, acked, failing, closing, gaps>>
loopVars == <<wpc, todo, undel>>
envVars == <<nrec, faults, crashes, rot>>
vars == <<diskVars, memVars, loopVars, envVars, fate>>

-----------------------------------------------------------------------------
(* Files, frames and cursors.                                              *)

Frames == (-MaxRecs)..MaxRecs
Torn == 0

\* st: "gone" is deleted, but still readable through a handle opened before.
\* hdr: "none" is missing or torn, "foreign" is anything else but the magic.
\* dur: frames a power cut cannot take; -1 when not even the header is safe.
Files == [st: {"absent", "live", "gone"}, hdr: {"none", "ok", "foreign"},
          recs: Seq(Frames), dur: Int]

Absent == [st |-> "absent", hdr |-> "none", recs |-> <<>>, dur |-> -1]

FrameLen(f) == IF f = Torn THEN 1 ELSE RecLen[IF f > 0 THEN f ELSE -f]

Bytes(s) == SumFunction([i \in DOMAIN s |-> FrameLen(s[i])])

\* record::scan: the frames before the first one that is not whole and valid.
ValidCount(s) == Max({k \in 0..Len(s) : \A i \in 1..k : s[i] > 0})
Scan(s) == SubSeq(s, 1, ValidCount(s))

\* set_len: the first n frames stay.  A mutant leaves the file as it is.
Uncut(s, n) == s
CutAt(s, n) == IF n >= Len(s) THEN s ELSE SubSeq(s, 1, n)

\* fsx::segment_len, as the writer remembers it.
FrameCount(f) == IF f.hdr = "none" THEN -1 ELSE Len(f.recs)

Oldest(s, S) == s \in S /\ \A t \in S : s <= t

\* fsx::list_segments
Listing == {s \in SegIds : disk[s].st = "live"}

\* A cursor is <<segment, frame>>: the next frame to read; frame 0 is offset
\* 0, before the header.  Segments start at 1, so <<0, 0>> is None.
NoAck == <<0, 0>>
CorruptCursor == <<-1, 0>>
Before(a, b) == a[1] < b[1] \/ (a[1] = b[1] /\ a[2] < b[2])

\* The records a reader finds in file f, and in the log d.
Readable(f) ==
  IF f.st = "live" /\ f.hdr = "ok" THEN {f.recs[i] : i \in 1..ValidCount(f.recs)} ELSE {}
OnDisk(d) == UNION {Readable(d[s]) : s \in SegIds}

Mark(S, v) == [r \in Recs |-> IF r \in S THEN v ELSE fate[r]]
With(vs) == {r \in Recs : fate[r] \in vs}

\* Bytes in all segments, including the active one.
SegLen == [s \in SegIds |-> IF len[s] < 0 THEN 0
                           ELSE HeaderLen + Bytes(CutAt(disk[s].recs, len[s]))]
DiskBytes == SumFunctionOnSet(SegLen, segs)
Sealed == segs \ {active}

-----------------------------------------------------------------------------
(* The end of a process.                                                   *)

\* What is left of the writer's memory: nothing.
NoWriter ==
  /\ wpc' = "down" /\ segs' = {} /\ len' = [s \in SegIds |-> -1] /\ active' = 0
  /\ fileOpen' = FALSE /\ unsynced' = FALSE /\ pending' = <<>> /\ acked' = NoAck
  /\ failing' = FALSE /\ closing' = FALSE /\ gaps' = 0 /\ todo' = {} /\ undel' = {}

\* The process ends with the files as they are.  A record that reached its
\* file but no flush is an orphan: no later flush is due for it.
AfterExit(was) ==
  [r \in Recs |->
     CASE was[r] \in {"queued", "written"} -> IF r \in OnDisk(disk) THEN "orphan" ELSE "lost"
       [] was[r] \in {"evicted", "dropped"} -> "unreported"
       [] OTHER -> was[r]]

Init ==
  /\ disk = [s \in SegIds |-> Absent] /\ cursor = NoAck
  /\ wpc = "down" /\ segs = {} /\ len = [s \in SegIds |-> -1] /\ active = 0
  /\ fileOpen = FALSE /\ unsynced = FALSE /\ pending = <<>> /\ acked = NoAck
  /\ failing = FALSE /\ closing = FALSE /\ gaps = 0 /\ todo = {} /\ undel = {}
  /\ nrec = 0 /\ fate = [r \in Recs |-> "new"]
  /\ faults = 0 /\ crashes = 0 /\ rot = 0

Fault == faults < MaxFaults /\ faults' = faults + 1
NoFault == faults' = faults

-----------------------------------------------------------------------------
(* Writer::open                                                            *)

\* recover_newest
Recover(f) ==
  CASE f.hdr = "ok" /\ ValidCount(f.recs) < Len(f.recs) ->
         [f EXCEPT !.recs = Scan(f.recs), !.dur = ValidCount(f.recs)]
    [] f.hdr = "none" -> [f EXCEPT !.hdr = "ok", !.recs = <<>>, !.dur = 0]
    [] OTHER -> f

\* next: the number after seq; 0 is the error at the largest number.
WrappingSeq(seq) == (seq % MaxSeg) + 1
NextSeq(seq) == IF seq < MaxSeg THEN seq + 1 ELSE 0

UncheckedCursor == cursor
LoadCursor == IF cursor = CorruptCursor THEN NoAck ELSE cursor

\* The new segment sorts after every segment there is and after the cursor.
AfterListing(seq) == \E last \in Listing \cup {0} :
  (\A t \in Listing : t <= last) /\ seq = NextSeq(last)
AfterListingAndCursor(seq) == \E last \in Listing \cup {LoadCursor[1]} :
  (\A t \in Listing \cup {LoadCursor[1]} : t <= last) /\ seq = NextSeq(last)

\* Loads the cursor, lists the segments and numbers the new one.  Without a
\* number left it refuses to open.
OpenLoad ==
  /\ wpc = "down"
  /\ acked' = LoadCursor
  /\ \E seq \in SegIds :
       /\ AfterListingAndCursor(seq)
       /\ active' = seq
       /\ segs' = {seq}
  /\ todo' = Listing
  /\ wpc' = IF Listing = {} THEN "idle" ELSE "opening"
  /\ UNCHANGED <<diskVars, len, fileOpen, unsynced, pending, failing, closing, gaps, undel,
                 envVars, fate>>

\* The next segment is wholly behind the cursor and is deleted.
OpenDelete ==
  /\ wpc = "opening"
  /\ \E s \in SegIds :
       /\ Oldest(s, todo)
       /\ s < acked[1]
       /\ disk' = [disk EXCEPT ![s].st = "gone"]
       /\ fate' = Mark(Readable(disk[s]), "acked")
       /\ todo' = todo \ {s}
  /\ wpc' = IF todo' = {} THEN "idle" ELSE "opening"
  /\ UNCHANGED <<cursor, memVars, undel, envVars>>

\* Only the newest segment is repaired.
RepairEvery(s) == Recover(disk[s])
Repair(s) == IF todo = {s} THEN Recover(disk[s]) ELSE disk[s]

\* The next segment stays (a delivered one because its deletion failed).
OpenKeep ==
  /\ wpc = "opening"
  /\ \E s \in SegIds :
       /\ Oldest(s, todo)
       /\ IF s < acked[1] THEN Fault ELSE NoFault
       /\ disk' = [disk EXCEPT ![s] = Repair(s)]
       /\ segs' = segs \cup {s}
       /\ len' = [len EXCEPT ![s] = FrameCount(Repair(s))]
       /\ todo' = todo \ {s}
  /\ wpc' = IF todo' = {} THEN "idle" ELSE "opening"
  /\ UNCHANGED <<cursor, active, fileOpen, unsynced, pending, acked, failing, closing, gaps,
                 undel, nrec, crashes, rot, fate>>

\* An I/O error ends open; the agent does not start.
OpenFails ==
  /\ wpc = "opening" /\ Fault
  /\ NoWriter
  /\ UNCHANGED <<diskVars, nrec, crashes, rot, fate>>

-----------------------------------------------------------------------------
(* Writer::append and the start of tick and close                          *)

AppendRecord ==
  /\ wpc = "idle" /\ nrec < MaxRecs
  /\ nrec' = nrec + 1
  /\ LET r == nrec + 1
     IN IF RecLen[r] > MaxFrame \/ Bytes(pending) + RecLen[r] > BacklogBytes
        THEN fate' = Mark({r}, "refused") /\ UNCHANGED pending
        ELSE fate' = Mark({r}, "queued") /\ pending' = Append(pending, r)
  /\ UNCHANGED <<diskVars, segs, len, active, fileOpen, unsynced, acked, failing, closing, gaps,
                 loopVars, faults, crashes, rot>>

NeedIOQueued == pending # <<>>
NeedIO == pending # <<>> \/ unsynced

\* The first I/O call of flush_now.
FlushStep == IF ~fileOpen THEN "active" ELSE IF pending # <<>> THEN "write" ELSE "sync"

\* tick is due: the flush interval, half the backlog, or the retry interval.
Tick ==
  /\ wpc = "idle" /\ NeedIO
  /\ wpc' = FlushStep
  /\ UNCHANGED <<diskVars, memVars, todo, undel, envVars, fate>>

\* A tick with nothing to write or to flush does no I/O.
IdleTick ==
  /\ wpc = "idle" /\ ~NeedIO
  /\ failing' = FALSE
  /\ UNCHANGED <<diskVars, segs, len, active, fileOpen, unsynced, pending, acked, closing, gaps,
                 loopVars, envVars, fate>>

\* A clean stop: one last flush, whatever the retry interval.
Close ==
  /\ wpc = "idle" /\ crashes < MaxCrashes
  /\ crashes' = crashes + 1
  /\ IF NeedIO
     THEN /\ wpc' = FlushStep /\ closing' = TRUE
          /\ UNCHANGED <<segs, len, active, fileOpen, unsynced, pending, acked, failing, gaps,
                         todo, undel, fate>>
     ELSE NoWriter /\ fate' = AfterExit(fate)
  /\ UNCHANGED <<diskVars, nrec, faults, rot>>

-----------------------------------------------------------------------------
(* flush_now: open_active, write_from, rotate, make_room, sync             *)

AfterOpen == IF pending # <<>> THEN "write" ELSE "sync"

\* Opens or creates the active file and cuts it at its last good length.
OpenActive ==
  /\ wpc = "active"
  /\ disk' = [disk EXCEPT ![active] =
                IF len[active] < 0
                THEN [st |-> "live", hdr |-> "none", recs |-> <<>>, dur |-> -1]
                ELSE [disk[active] EXCEPT !.recs = CutAt(disk[active].recs, len[active])]]
  /\ wpc' = IF len[active] < 0 THEN "header" ELSE AfterOpen
  /\ fileOpen' = (len[active] >= 0)
  /\ UNCHANGED <<cursor, segs, len, active, unsynced, pending, acked, failing, closing, gaps,
                 todo, undel, envVars, fate>>

\* Writes the magic into a new segment.
WriteHeader ==
  /\ wpc = "header"
  /\ disk' = [disk EXCEPT ![active].hdr = "ok"]
  /\ len' = [len EXCEPT ![active] = 0]
  /\ unsynced' = TRUE /\ fileOpen' = TRUE
  /\ wpc' = AfterOpen
  /\ UNCHANGED <<cursor, segs, active, pending, acked, failing, closing, gaps, todo, undel,
                 envVars, fate>>

\* Whole records that fit; an empty segment always takes at least one.
Fits(k) == SegLen[active] + Bytes(SubSeq(pending, 1, k)) <= SegmentBytes
BatchOfFits == Max({k \in 0..Len(pending) : k = 0 \/ Fits(k)})
Batch ==
  LET fits == Max({k \in 0..Len(pending) : k = 0 \/ Fits(k)})
  IN IF fits = 0 /\ len[active] = 0 THEN 1 ELSE fits

WriteAt(frames) == CutAt(disk[active].recs, len[active]) \o frames

\* write_all has written part of the batch: whole records and a torn one.
WritePart ==
  /\ wpc = "write" /\ Batch > 0
  /\ \E k \in 0..(Batch - 1) :
       disk' = [disk EXCEPT ![active].recs = WriteAt(SubSeq(pending, 1, k) \o <<Torn>>)]
  /\ wpc' = "writing"
  /\ UNCHANGED <<cursor, memVars, todo, undel, envVars, fate>>

\* write_all returns Ok.
WriteBatch ==
  /\ wpc \in {"write", "writing"} /\ Batch > 0
  /\ LET batch == SubSeq(pending, 1, Batch)
         rest == SubSeq(pending, Batch + 1, Len(pending))
     IN /\ disk' = [disk EXCEPT ![active].recs = WriteAt(batch)]
        /\ len' = [len EXCEPT ![active] = @ + Len(batch)]
        /\ pending' = rest
        /\ fate' = Mark(Range(batch), "written")
        /\ wpc' = IF rest = <<>> THEN "sync" ELSE "write"
  /\ unsynced' = TRUE
  /\ UNCHANGED <<cursor, segs, active, fileOpen, acked, failing, closing, gaps, todo, undel,
                 envVars>>

\* Nothing fits: rotate, which first makes room.
StartRotate ==
  /\ wpc = "write" /\ Batch = 0
  /\ wpc' = "room" /\ undel' = {}
  /\ UNCHANGED <<diskVars, memVars, todo, envVars, fate>>

NeedRoomLate == DiskBytes > CapBytes
NeedRoom == DiskBytes + SegmentBytes > CapBytes

\* victim: the sealed segments the policy may delete; HeadTail pins the
\* oldest ones, up to and with the one that reaches a quarter of the bytes.
PinnedShort ==
  {s \in Sealed : SumFunctionOnSet(SegLen, {t \in Sealed : t <= s}) < DiskBytes \div 4}
Pinned ==
  {s \in Sealed : SumFunctionOnSet(SegLen, {t \in Sealed : t < s}) < DiskBytes \div 4}
Victims ==
  CASE Policy = "DropNewest" -> {}
    [] Policy = "HeadTail" -> Sealed \ (Pinned \cup undel)
    [] OTHER -> Sealed \ undel

\* segment_gap: the records a scan of the segment finds.
GapRecords(s) == IF disk[s].hdr = "ok" THEN ValidCount(disk[s].recs) ELSE 0

\* make_room deletes the oldest victim.  Its records make a gap, except under
\* Retention; a segment that cannot be read counts none.
Evict ==
  /\ wpc = "room" /\ NeedRoom
  /\ \E v \in SegIds :
       /\ Oldest(v, Victims)
       /\ disk' = [disk EXCEPT ![v].st = "gone"]
       /\ segs' = segs \ {v}
       /\ \/ /\ Policy = "Retention" /\ NoFault
             /\ fate' = Mark(Readable(disk[v]), "retired") /\ UNCHANGED gaps
          \/ /\ Policy # "Retention" /\ NoFault
             /\ fate' = Mark(Readable(disk[v]), "evicted") /\ gaps' = gaps + GapRecords(v)
          \/ /\ Policy # "Retention" /\ Fault
             /\ fate' = Mark(Readable(disk[v]), "unread") /\ UNCHANGED gaps
  /\ UNCHANGED <<cursor, len, active, fileOpen, unsynced, pending, acked, failing, closing,
                 loopVars, nrec, crashes, rot>>

\* The deletion fails: the segment is skipped in this make_room.
EvictFailsCounted ==
  /\ wpc = "room" /\ NeedRoom /\ Fault
  /\ \E v \in SegIds : Oldest(v, Victims) /\ undel' = undel \cup {v} /\ gaps' = gaps + GapRecords(v)
  /\ UNCHANGED <<diskVars, segs, len, active, fileOpen, unsynced, pending, acked, failing, closing,
                 wpc, todo, nrec, crashes, rot, fate>>
EvictFails ==
  /\ wpc = "room" /\ NeedRoom /\ Fault
  /\ \E v \in SegIds : Oldest(v, Victims) /\ undel' = undel \cup {v}
  /\ UNCHANGED <<diskVars, memVars, wpc, todo, nrec, crashes, rot, fate>>

\* Room::Full: nothing the policy may delete, so what is queued is dropped.
DropPending ==
  /\ wpc = "room" /\ NeedRoom /\ Victims = {} /\ undel = {}
  /\ fate' = Mark(Range(pending), "dropped")
  /\ gaps' = gaps + Len(pending)
  /\ pending' = <<>>
  /\ wpc' = "sync"
  /\ UNCHANGED <<diskVars, segs, len, active, fileOpen, unsynced, acked, failing, closing,
                 todo, undel, envVars>>

\* Room::Made: the new segment fits, or nothing more can be deleted.
RoomMade ==
  /\ wpc = "room" /\ (NeedRoom => Victims = {} /\ undel # {})
  /\ wpc' = "seal"
  /\ UNCHANGED <<diskVars, memVars, todo, undel, envVars, fate>>

\* sync_data on file f: every frame in it is durable.
UnsyncedFile(s) == disk
SyncFile(s) == [disk EXCEPT ![s].dur = Len(disk[s].recs)]
Flushed == Mark(With({"written"}), "durable")

\* rotate flushes and closes the old segment and starts the next one.
Seal ==
  /\ wpc = "seal" /\ NextSeq(active) # 0
  /\ disk' = SyncFile(active)
  /\ fate' = Flushed
  /\ unsynced' = FALSE /\ fileOpen' = FALSE
  /\ active' = NextSeq(active)
  /\ segs' = segs \cup {NextSeq(active)}
  /\ len' = [len EXCEPT ![NextSeq(active)] = -1]
  /\ wpc' = "active"
  /\ UNCHANGED <<cursor, pending, acked, failing, closing, gaps, todo, undel, envVars>>

\* What an Err from flush_now leaves: tick closes the file and retries later;
\* close gives up, and the process ends.
FlushFailedForgets ==
  IF closing
  THEN NoWriter /\ fate' = AfterExit(fate)
  ELSE /\ wpc' = "idle" /\ fileOpen' = FALSE /\ failing' = TRUE /\ pending' = <<>>
       /\ UNCHANGED <<segs, len, active, unsynced, acked, closing, gaps, todo, undel, fate>>
FlushFailed ==
  IF closing
  THEN NoWriter /\ fate' = AfterExit(fate)
  ELSE /\ wpc' = "idle" /\ fileOpen' = FALSE /\ failing' = TRUE
       /\ UNCHANGED <<segs, len, active, unsynced, pending, acked, closing, gaps, todo, undel,
                      fate>>

\* rotate has flushed, but segment numbers are exhausted.
SealExhausted ==
  /\ wpc = "seal" /\ NextSeq(active) = 0
  /\ disk' = SyncFile(active)
  /\ IF closing
     THEN NoWriter /\ fate' = AfterExit(Flushed)
     ELSE /\ wpc' = "idle" /\ fileOpen' = FALSE /\ failing' = TRUE /\ unsynced' = FALSE
          /\ fate' = Flushed
          /\ UNCHANGED <<segs, len, active, pending, acked, closing, gaps, todo, undel>>
  /\ UNCHANGED <<cursor, envVars>>

IoFails ==
  /\ wpc \in {"active", "header", "write", "writing", "seal", "sync"}
  /\ (wpc = "write" => Batch > 0) /\ (wpc = "sync" => unsynced)
  /\ Fault /\ FlushFailed
  /\ UNCHANGED <<diskVars, nrec, crashes, rot>>

\* The end of flush_now and of the tick or close that called it.
Finish ==
  /\ wpc = "sync"
  /\ disk' = IF unsynced THEN SyncFile(active) ELSE disk
  /\ IF closing
     THEN NoWriter /\ fate' = AfterExit(Flushed)
     ELSE /\ wpc' = "idle" /\ unsynced' = FALSE /\ failing' = FALSE
          /\ fate' = Flushed
          /\ UNCHANGED <<segs, len, active, fileOpen, pending, acked, closing, gaps, todo, undel>>
  /\ UNCHANGED <<cursor, envVars>>

-----------------------------------------------------------------------------
(* Writer::ack and take_gaps                                               *)

\* The segments wholly before a cursor.
BehindInclusive(c) == {s \in segs : s <= c[1] /\ s # active}
Behind(c) == {s \in segs : s < c[1] /\ s # active}

\* Persists a newer cursor, then deletes what is behind it.  An older cursor,
\* one past the newest segment, and a failed store change nothing.
Ack(c) ==
  /\ wpc = "idle" /\ Before(acked, c) /\ c[1] <= active
  /\ cursor' = c /\ acked' = c
  /\ todo' = Behind(c)
  /\ wpc' = IF todo' = {} THEN "idle" ELSE "acking"
  /\ UNCHANGED <<disk, segs, len, active, fileOpen, unsynced, pending, failing, closing, gaps,
                 undel, envVars, fate>>

AckDelete ==
  /\ wpc = "acking"
  /\ \E s \in SegIds :
       /\ Oldest(s, todo)
       /\ disk' = [disk EXCEPT ![s].st = "gone"]
       /\ fate' = Mark(Readable(disk[s]), "acked")
       /\ segs' = segs \ {s}
       /\ todo' = todo \ {s}
  /\ wpc' = IF todo' = {} THEN "idle" ELSE "acking"
  /\ UNCHANGED <<cursor, len, active, fileOpen, unsynced, pending, acked, failing, closing, gaps,
                 undel, envVars>>

\* A segment that cannot be deleted is kept for the next ack.
AckDeleteFails ==
  /\ wpc = "acking" /\ Fault
  /\ \E s \in SegIds : Oldest(s, todo) /\ todo' = todo \ {s}
  /\ wpc' = IF todo' = {} THEN "idle" ELSE "acking"
  /\ UNCHANGED <<diskVars, memVars, undel, nrec, crashes, rot, fate>>

\* The gaps so far go into a Sensor Health report.
TakeGaps ==
  /\ wpc = "idle" /\ gaps > 0
  /\ gaps' = 0
  /\ fate' = Mark(With({"evicted", "dropped"}), "reported")
  /\ UNCHANGED <<diskVars, segs, len, active, fileOpen, unsynced, pending, acked, failing,
                 closing, loopVars, envVars>>

-----------------------------------------------------------------------------
(* The machine                                                             *)

\* The process ends at any point; the operating system keeps what it wrote.
Crash ==
  /\ wpc # "down" /\ crashes < MaxCrashes
  /\ crashes' = crashes + 1
  /\ NoWriter
  /\ fate' = AfterExit(fate)
  /\ UNCHANGED <<diskVars, nrec, faults, rot>>

\* What a power cut can leave of a file: not even its name (k = -2), no
\* whole header (k = -1), or k frames, at least the durable ones, and
\* perhaps a torn one.
CutFile(f, k, torn) ==
  CASE k = -2 -> Absent
    [] k = -1 -> [f EXCEPT !.hdr = "none", !.recs = <<>>]
    [] OTHER -> LET kept == SubSeq(f.recs, 1, k) \o (IF torn THEN <<Torn>> ELSE <<>>)
                IN [f EXCEPT !.recs = kept, !.dur = Len(kept)]
MayCut(f, k, torn) ==
  /\ k <= Len(f.recs) /\ (torn => k \in 0..(Len(f.recs) - 1))
  /\ IF f.dur >= 0 THEN k >= f.dur ELSE (f.hdr = "none" => k < 0)

Unflushed == {s \in Listing : disk[s].dur < Len(disk[s].recs)}

PowerCut ==
  /\ crashes < MaxCrashes /\ crashes' = crashes + 1
  /\ \E keep \in [Unflushed -> (-2)..MaxRecs], torn \in [Unflushed -> BOOLEAN] :
       /\ \A s \in Unflushed : MayCut(disk[s], keep[s], torn[s])
       /\ disk' = [s \in SegIds |-> IF s \in Unflushed THEN CutFile(disk[s], keep[s], torn[s])
                                    ELSE disk[s]]
  /\ NoWriter
  /\ fate' = [r \in Recs |->
                CASE fate[r] \in {"queued", "written", "orphan", "durable"} ->
                       IF r \in OnDisk(disk') THEN "durable" ELSE "lost"
                  [] fate[r] \in {"evicted", "dropped"} -> "unreported"
                  [] OTHER -> fate[r]]
  /\ UNCHANGED <<cursor, nrec, faults, rot>>

\* Damage at rest, in a segment that is not being written: a frame, a
\* header, the cursor.  The frames after a bad one are out of reach.
AtRest(s) == s \in Listing /\ (wpc = "down" \/ \E t \in Listing : t > s)

RotFrame ==
  /\ rot < MaxRot /\ rot' = rot + 1
  /\ \E s \in SegIds : \E i \in 1..ValidCount(disk[s].recs) :
       /\ AtRest(s) /\ disk[s].hdr = "ok"
       /\ disk' = [disk EXCEPT ![s].recs[i] = -disk[s].recs[i]]
       /\ fate' = Mark({disk[s].recs[j] : j \in i..ValidCount(disk[s].recs)}, "rotten")
  /\ UNCHANGED <<cursor, memVars, loopVars, nrec, faults, crashes>>

RotHeader ==
  /\ rot < MaxRot /\ rot' = rot + 1
  /\ \E s \in SegIds :
       /\ AtRest(s) /\ disk[s].hdr = "ok"
       /\ disk' = [disk EXCEPT ![s].hdr = "foreign"]
       /\ fate' = Mark(Readable(disk[s]), "rotten")
  /\ UNCHANGED <<cursor, memVars, loopVars, nrec, faults, crashes>>

RotCursor ==
  /\ rot < MaxRot /\ rot' = rot + 1
  /\ cursor \notin {NoAck, CorruptCursor}
  /\ cursor' = CorruptCursor
  /\ UNCHANGED <<disk, memVars, loopVars, nrec, faults, crashes, fate>>

-----------------------------------------------------------------------------
\* The positions a delivered record's `next` can have.
Delivered == {<<s, i + 1>> : s \in segs, i \in Recs}
AckStep ==
  \E c \in Delivered : c[2] - 1 <= ValidCount(disk[c[1]].recs) /\ Ack(c)

Opening == OpenLoad \/ OpenDelete \/ OpenKeep \/ OpenFails
Flushing ==
  \/ OpenActive \/ WriteHeader \/ WritePart \/ WriteBatch \/ StartRotate
  \/ Evict \/ EvictFails \/ DropPending \/ RoomMade \/ Seal \/ SealExhausted \/ Finish
Acking == AckDelete \/ AckDeleteFails
Environment == Crash \/ PowerCut \/ RotFrame \/ RotHeader \/ RotCursor

Next ==
  \/ Opening \/ AppendRecord \/ Tick \/ IdleTick \/ Close \/ Flushing \/ IoFails
  \/ AckStep \/ Acking \/ TakeGaps \/ Environment

Spec == Init /\ [][Next]_vars

-----------------------------------------------------------------------------
(* Properties                                                              *)

Fates == {"new", "refused", "queued", "written", "durable", "orphan", "lost", "evicted",
          "dropped", "reported", "unreported", "retired", "unread", "acked", "rotten"}

TypeDisk == disk \in [SegIds -> Files] /\ cursor \in ((0..MaxSeg) \X Nat) \cup {CorruptCursor}
TypeMem ==
  /\ segs \subseteq SegIds /\ todo \subseteq SegIds /\ undel \subseteq SegIds
  /\ len \in [SegIds -> Int] /\ active \in 0..MaxSeg
  /\ pending \in Seq(Recs) /\ acked \in (0..MaxSeg) \X Nat /\ gaps \in Nat
TypeFlags ==
  /\ wpc \in {"down", "opening", "idle", "acking", "active", "header", "write", "writing",
              "room", "seal", "sync"}
  /\ fileOpen \in BOOLEAN /\ unsynced \in BOOLEAN /\ failing \in BOOLEAN /\ closing \in BOOLEAN
TypeHistory ==
  /\ nrec \in 0..MaxRecs /\ fate \in [Recs -> Fates]
  /\ faults \in 0..MaxFaults /\ crashes \in 0..MaxCrashes /\ rot \in 0..MaxRot

\* Every variable stays in its type.
TypeOK == TypeDisk /\ TypeMem /\ TypeFlags /\ TypeHistory

\* Across all segment files, in number order, records are in append order and
\* none is there twice: retries after a failed or partial write_all neither
\* repeat nor reorder (writer.rs write_from, open_active).
LogInOrder ==
  \A s, t \in Listing : \A i \in DOMAIN disk[s].recs, j \in DOMAIN disk[t].recs :
    /\ disk[s].recs[i] > 0 /\ disk[t].recs[j] > 0
    /\ s < t \/ (s = t /\ i < j)
    => disk[s].recs[i] < disk[t].recs[j]

\* Nothing vanishes: a record the writer took is queued, or a reader can find
\* it in a segment file, until it is deleted, dropped or lost on the record.
NothingVanishes ==
  /\ With({"queued"}) = Range(pending)
  /\ With({"written", "durable", "orphan"}) \subseteq OnDisk(disk)

\* A power cut or a crash never takes a record that a finished flush covered
\* (flush_now, rotate: sync_data before the next segment).
FlushedSurvive ==
  [][\A r \in Recs : fate[r] = "durable" => fate'[r] # "lost"]_vars

\* Gap counts match the records they stand for: each record deleted or
\* dropped since the last report, once, and only when it is gone (make_room,
\* drop_pending, take_gaps).
GapsExact == gaps = Cardinality(With({"evicted", "dropped"}))

\* A segment with a newer one after it never changes again, except by damage:
\* readers rely on it to move on (reader.rs next_record).
SealedFinal ==
  [][\A s \in Listing :
       (\E t \in Listing : t > s) /\ crashes' = crashes /\ rot' = rot
       => disk'[s].recs = disk[s].recs /\ disk'[s].hdr = disk[s].hdr]_vars

\* What records larger than a segment take beyond it.
Excess == SumFunctionOnSet([s \in SegIds |-> Max({0, SegLen[s] - SegmentBytes})], segs)

\* While every deletion succeeds, the segments total at most the cap (rotate
\* makes room for a whole segment first), what records larger than a segment
\* take beyond one, and one segment more for each restart, because open
\* starts a segment without make_room.
CapAfterRestarts ==
  faults = 0 => DiskBytes <= CapBytes + Excess + crashes * SegmentBytes

\* Under HeadTail an eviction leaves, older than what it deletes, at least a
\* quarter of the bytes on disk, so the beginning of a flood survives
\* however many segments later evictions take (victim).
HeadKept ==
  [][Policy = "HeadTail" /\ wpc = "room" /\ wpc' = "room" /\ segs' # segs =>
       \A v \in segs \ segs' :
         4 * SumFunctionOnSet(SegLen, {s \in segs' : s < v}) >= DiskBytes - 3]_vars

\* Once errors stop, the queue empties: retries reopen the file, and neither a
\* large record nor make_room can keep a rotation from ending (write_from).
QueueDrains == pending # <<>> ~> pending = <<>>

\* Once errors stop, every write is flushed, even when no more records come
\* (flush_now with an empty backlog and unsynced set).
WritesAreFlushed == With({"written"}) # {} ~> With({"written"}) = {}
=============================================================================
