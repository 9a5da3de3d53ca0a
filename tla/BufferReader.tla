---------------------------- MODULE BufferReader ----------------------------
(***************************************************************************)
(* A reader of the event buffer beside the live writer.  It shares only    *)
(* the files with the writer, so every directory listing, open and read is *)
(* a step, and the writer may do anything between two of them.             *)
(*                                                                         *)
(* An external reader is `dump --follow`: another process, which starts    *)
(* from the oldest record, outlives a crash of the agent and never acks.   *)
(* The other kind is a transport in the agent: it starts from              *)
(* Writer::acked, dies with the agent, and acks what it delivered.         *)
(***************************************************************************)
EXTENDS BufferWriter

CONSTANT Kinds  \* the kinds of reader a behaviour may have, as values of external
ASSUME KindsAssumption == Kinds \subseteq BOOLEAN

VARIABLES
  external, \* which kind of reader this behaviour has
  rpc,      \* the reader's next call; "off" when there is no reader
  pos,      \* Reader.pos
  rsealed,  \* enter_segment's sealed: a newer segment was listed
  rnext,    \* Record.next of the last record delivered
  rlast,    \* history: the last record this reader delivered, 0 if none
  seen,     \* history: every record ever delivered
  rcorrupt  \* ReaderStats.corrupt_segments is not 0

readerVars == <<external, rpc, pos, rsealed, rnext, rlast, seen, rcorrupt>>
rvars == <<vars, readerVars>>

\* The reader's file is the one at pos[1], open in these steps and between
\* two calls of next_record after the first record.
NoReader ==
  /\ rpc' = "off" /\ pos' = <<0, 0>> /\ rsealed' = FALSE /\ rnext' = NoAck /\ rlast' = 0
  /\ rcorrupt' = FALSE /\ UNCHANGED <<external, seen>>

RInit ==
  /\ Init
  /\ external \in Kinds
  /\ rpc = "off" /\ pos = <<0, 0>> /\ rsealed = FALSE /\ rnext = NoAck /\ rlast = 0
  /\ rcorrupt = FALSE /\ seen = {}

\* Reader::open.
StartReader ==
  /\ rpc = "off"
  /\ external \/ wpc \notin {"down", "opening"}
  /\ rpc' = "list"
  /\ pos' = IF external THEN <<0, 0>> ELSE acked
  /\ UNCHANGED <<vars, external, rsealed, rnext, rlast, seen, rcorrupt>>

\* enter_segment: the first existing segment at or after the position.  None
\* yet: next_record returns None, and the caller polls again.
ListSegments ==
  /\ rpc = "list"
  /\ \E t \in Listing : t >= pos[1]
  /\ LET s == Min({t \in Listing : t >= pos[1]})
     IN /\ pos' = IF s > pos[1] THEN <<s, 0>> ELSE pos
        /\ rsealed' = (\E t \in Listing : t > s)
  /\ rpc' = "open"
  /\ UNCHANGED <<vars, external, rnext, rlast, seen, rcorrupt>>

RestartSegment == pos' = <<pos[1], 1>>
NextSegment == pos' = <<pos[1] + 1, 0>>

OpenFile ==
  /\ rpc = "open" /\ disk[pos[1]].st = "live"
  /\ rpc' = "header"
  /\ UNCHANGED <<vars, external, pos, rsealed, rnext, rlast, seen, rcorrupt>>

\* Deleted since the listing.  A sealed segment is skipped; for the newest
\* one the error is returned, and the caller (dump) ends.
OpenDeleted ==
  /\ rpc = "open" /\ disk[pos[1]].st # "live"
  /\ IF rsealed THEN rpc' = "list" /\ NextSegment
                ELSE rpc' = "err" /\ UNCHANGED pos
  /\ UNCHANGED <<vars, external, rsealed, rnext, rlast, seen, rcorrupt>>

\* Any other header than the magic: being created, or, if sealed, corrupt.
ReadHeader ==
  /\ rpc = "header"
  /\ IF disk[pos[1]].hdr = "ok"
     THEN /\ rpc' = "read"
          /\ pos' = IF pos[2] = 0 THEN <<pos[1], 1>> ELSE pos
          /\ UNCHANGED rcorrupt
     ELSE /\ rpc' = "list"
          /\ IF rsealed THEN NextSegment ELSE UNCHANGED pos
          /\ rcorrupt' = (rcorrupt \/ rsealed)
  /\ UNCHANGED <<vars, external, rsealed, rnext, rlast, seen>>

\* read_at: At::Record, At::End or At::Bad.
AtAnyFrame == pos[2] \in DOMAIN disk[pos[1]].recs
AtRecord == pos[2] \in DOMAIN disk[pos[1]].recs /\ disk[pos[1]].recs[pos[2]] > 0
AtBad == pos[2] \in DOMAIN disk[pos[1]].recs /\ disk[pos[1]].recs[pos[2]] <= 0

Deliver ==
  LET r == disk[pos[1]].recs[pos[2]]
  IN /\ pos' = <<pos[1], pos[2] + 1>> /\ rnext' = pos'
     /\ rlast' = r /\ seen' = seen \cup {r}
     /\ rpc' = "read"
     /\ UNCHANGED <<vars, external, rsealed, rcorrupt>>

ReadRecord == rpc = "read" /\ AtRecord /\ Deliver

\* Not there: is there a newer segment?
ReadNothing ==
  /\ rpc = "read" /\ ~AtRecord
  /\ rpc' = "newer"
  /\ UNCHANGED <<vars, external, pos, rsealed, rnext, rlast, seen, rcorrupt>>

\* newer_segment_exists.  If not, None: the caller polls again.
AssumeNewer ==
  /\ rpc = "newer"
  /\ rpc' = "again"
  /\ UNCHANGED <<vars, external, pos, rsealed, rnext, rlast, seen, rcorrupt>>
NeverNewer ==
  /\ rpc = "newer"
  /\ rpc' = "read"
  /\ UNCHANGED <<vars, external, pos, rsealed, rnext, rlast, seen, rcorrupt>>
CheckNewer ==
  /\ rpc = "newer"
  /\ rpc' = IF \E t \in Listing : t > pos[1] THEN "again" ELSE "read"
  /\ UNCHANGED <<vars, external, pos, rsealed, rnext, rlast, seen, rcorrupt>>

\* Sealed now: one more read before moving on.
ReadAgain == rpc = "again" /\ AtRecord /\ Deliver

LeaveUnread ==
  /\ rpc = "again"
  /\ rpc' = "list" /\ NextSegment
  /\ UNCHANGED <<vars, external, rsealed, rnext, rlast, seen, rcorrupt>>
LeaveSegment ==
  /\ rpc = "again" /\ ~AtRecord
  /\ rpc' = "list" /\ NextSegment
  /\ rcorrupt' = (rcorrupt \/ AtBad)
  /\ UNCHANGED <<vars, external, rsealed, rnext, rlast, seen>>

\* The transport acks the last record it delivered.
AckDelivered ==
  /\ ~external /\ rnext # NoAck
  /\ Ack(rnext)
  /\ UNCHANGED readerVars

-----------------------------------------------------------------------------
\* A step of the agent or of the disk.  A transport ends with the agent,
\* another process does not.
AgentStep ==
  /\ \/ Opening \/ AppendRecord \/ Tick \/ IdleTick \/ Close \/ Flushing \/ IoFails
     \/ Acking \/ TakeGaps \/ Crash \/ RotFrame \/ RotHeader \/ RotCursor
  /\ IF wpc' = "down" /\ wpc # "down" /\ ~external THEN NoReader ELSE UNCHANGED readerVars

MachineEnds == PowerCut /\ NoReader

Reading ==
  \/ ListSegments \/ OpenFile \/ OpenDeleted \/ ReadHeader \/ ReadRecord \/ ReadNothing
  \/ CheckNewer \/ ReadAgain \/ LeaveSegment

RNext == AgentStep \/ MachineEnds \/ StartReader \/ Reading \/ AckDelivered

RSpec == RInit /\ [][RNext]_rvars

\* The writer's thread runs, the reader's caller keeps polling, and a
\* transport acks in the end.
RFairSpec ==
  /\ RSpec
  /\ WF_rvars(AgentStep /\ (Tick \/ Flushing \/ Acking))
  /\ WF_rvars(StartReader) /\ WF_rvars(Reading)

-----------------------------------------------------------------------------
(* Properties                                                              *)

RTypeOK ==
  /\ TypeOK
  /\ rpc \in {"off", "list", "open", "header", "read", "newer", "again", "err"}
  /\ pos \in (0..MaxSeg + 1) \X Nat /\ rnext \in (0..MaxSeg) \X Nat
  /\ external \in BOOLEAN /\ rsealed \in BOOLEAN /\ rcorrupt \in BOOLEAN
  /\ rlast \in 0..MaxRecs /\ seen \subseteq Recs

\* Where a record can be read from.
ReadableAt(s, i) == s \in Listing /\ disk[s].hdr = "ok" /\ i \in 1..ValidCount(disk[s].recs)

\* A reader never moves past a record it could still read: not when it reads
\* a torn tail, not when the segment is sealed between its read and its
\* listing, not when the writer cuts and rewrites a failed batch under it
\* (next_record: "read once more before moving on").
NoSkip ==
  \A s \in SegIds : \A i \in DOMAIN disk[s].recs :
    ReadableAt(s, i) /\ Before(<<s, i>>, pos) => disk[s].recs[i] \in seen

\* At least once: every record behind the persisted cursor was delivered, even
\* when the ack was ahead of what a power cut kept and new records were
\* written since (open: a new segment after the cursor).
AckedWereDelivered ==
  \A s \in SegIds : \A i \in DOMAIN disk[s].recs :
    ReadableAt(s, i) /\ cursor # CorruptCursor /\ Before(<<s, i>>, cursor)
    => disk[s].recs[i] \in seen

\* One reader delivers in append order, each record once, over every skip,
\* rotation and eviction (next_record, next_segment).
ReadInOrder ==
  [][rpc' = "read" /\ rpc \in {"read", "again"} /\ pos' # pos => rlast' > rlast]_rvars

\* Evictions keep the cap and take neither the head of a flood nor, under a
\* reader, the order of what it delivers (make_room, victim, next_segment).
EvictionSafe == []CapAfterRestarts /\ HeadKept /\ ReadInOrder

\* A write in progress, a failed write or one end of the agent is never taken
\* for corruption: a reader skips part of a segment only after damage at rest,
\* or after a second end, whose power cut tears what the first left unflushed.
NoFalseCorruption == rcorrupt => rot > 0 \/ crashes > 1

\* A running reader gets every record that stays in the log: it cannot wait
\* for ever at a torn tail or in a segment that was sealed or deleted.
CatchesUp ==
  \A r \in Recs : fate[r] = "durable" ~>
    (r \in seen \/ fate[r] # "durable" \/ rpc = "err" \/ wpc = "down")

\* What a reader shows of the log is right, and so are its acks (next_record,
\* ack): all four.
ReaderOK == RTypeOK /\ NoSkip /\ NoFalseCorruption /\ AckedWereDelivered

\* The files, the queue and the cursor are the log EventLog describes, at every
\* step of the writer, the reader and the machine: while the agent runs nothing
\* leaves it but what was delivered, counted or damaged, and its end takes
\* nothing a flush covered (the promise of lib.rs).
Log == INSTANCE EventLog WITH
  up <- wpc # "down",
  n <- nrec,
  held <- OnDisk(disk) \cup Range(pending),
  safe <- With({"durable"}),
  given <- seen,
  owed <- gaps,
  errors <- faults,
  damage <- rot,
  Counted <- Policy # "Retention"
IsEventLog == Log!Spec

\* What must happen does, once errors stop: records are written, flushed and
\* delivered (tick, next_record).
Progress == QueueDrains /\ WritesAreFlushed /\ CatchesUp
=============================================================================
