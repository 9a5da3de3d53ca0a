-------------------------- MODULE BufferReaderProofs --------------------------
(***************************************************************************)
(* That a reader of BufferReader passes no record it could read, that what *)
(* is acked was delivered, and that no write in progress and no single     *)
(* crash is taken for corruption.  RInv is the invariant on top of the     *)
(* writer's; there is one lemma for each kind of step and each part of it. *)
(***************************************************************************)
EXTENDS BufferReader, BufferWriterProofs

-----------------------------------------------------------------------------
(* The inductive invariant.                                                *)

\* The reader holds the file at pos[1] open.
InFile == rpc \in {"header", "read", "newer", "again"}

\* Segment s is sealed, as this reader can know: another process from the
\* files, a transport because its writer has left s behind.
Past(s) == IF external THEN \E t \in Listing : t > s ELSE s < active

ReaderControl ==
  /\ rpc = "off" => pos = <<0, 0>> /\ rnext = NoAck
  /\ external => acked = NoAck /\ cursor = NoAck /\ wpc # "acking"
  /\ ~external /\ rpc # "off" => wpc \notin {"down", "opening"}
  /\ InFile \/ rpc = "open" => pos[1] \in SegIds
  /\ rpc \in {"read", "newer", "again"} => pos[2] >= 1

\* The position against the files: a segment is left, skipped or read after its
\* deletion only when it is sealed.
Position ==
  /\ external /\ pos[1] # 0 => \E t \in Listing : t >= pos[1]
  /\ rpc = "again" \/ (rsealed /\ rpc \in {"open", "header"}) => Past(pos[1])
  /\ InFile /\ pos[1] \notin Listing => Past(pos[1])

\* Frame j of the active file is past the writer's length, and the next
\* write will put a record there: Rewritten(j).
InBatch(j) ==
  /\ len[active] >= 0 /\ j - len[active] \in 1..Len(pending) /\ j - len[active] <= Batch
Rewritten(j) == pending[j - len[active]]

\* What a failed or running write has left is what the next one writes again.
Remains ==
  wpc # "down" /\ len[active] >= 0 =>
    \A j \in DOMAIN disk[active].recs :
      j > len[active] /\ disk[active].recs[j] > 0
      => InBatch(j) /\ disk[active].recs[j] = Rewritten(j)

\* A rotation starts only when no queued record fits.
NoneFits == wpc = "room" => Batch = 0

\* What a reader can read before c was delivered.
Covered(c) ==
  \A s \in SegIds : \A i \in DOMAIN disk[s].recs :
    ReadableAt(s, i) /\ Before(<<s, i>>, c) => disk[s].recs[i] \in seen

\* So it will be after every later write: the writer is not behind c, but for
\* records of the next batch that were delivered from a partial write.
MarkOK(c) ==
  /\ Covered(c)
  /\ wpc # "down" => c[1] <= active
  /\ wpc # "down" /\ c[1] = active =>
       \A j \in 1..(c[2] - 1) : j > len[active] => InBatch(j) /\ Rewritten(j) \in seen

\* The reader's position, the cursor in memory and on disk, and what a transport
\* may ack.
MarkSet == {pos, acked, LoadCursor} \cup (IF external THEN {} ELSE {rnext})
Marks == \A c \in MarkSet : MarkOK(c)

\* A segment no reader takes for corrupt.
Clean(s) == disk[s].hdr = "ok" /\ \A i \in DOMAIN disk[s].recs : disk[s].recs[i] > 0

\* Without damage, and with one end of the agent at most, only the newest
\* segment may be torn; the first power cut takes nothing from the others.
Mended == rot = 0 /\ crashes <= 1
CleanFiles ==
  /\ \A s \in Listing : disk[s].hdr # "foreign"
  /\ \A s, t \in Listing : s < t => Clean(s)
  /\ wpc \notin {"down", "opening"} => \A s \in Listing : s < active => Clean(s)
  /\ wpc = "opening" => \A s \in Listing \ todo : Clean(s)
FirstLife ==
  crashes = 0 =>
    /\ wpc # "opening" /\ ~closing /\ (wpc = "down" => Listing = {})
    /\ \A s \in Listing \ {active} : disk[s].dur >= Len(disk[s].recs)
OpenClean == InFile /\ pos[1] \notin Listing => Clean(pos[1])
CleanInv == Mended => CleanFiles /\ FirstLife /\ OpenClean /\ ~rcorrupt

\* Everything but the part on corruption, and all of it.
Sound ==
  /\ IInv /\ Keeps /\ RTypeOK
  /\ ReaderControl /\ Position /\ Remains /\ NoneFits /\ Marks
RInv == Sound /\ CleanInv

-----------------------------------------------------------------------------
(* Lemmas on what can be read and on the next batch.                       *)

\* record::scan reaches a frame when every frame up to it is whole and valid.
LEMMA ScanReaches ==
  ASSUME NEW q \in Seq(Frames), NEW i \in Nat \ {0}
  PROVE  i \in 1..ValidCount(q) <=> i \in DOMAIN q /\ \A j \in 1..i : q[j] > 0
<1>1. /\ Len(q) \in Nat /\ DOMAIN q = 1..Len(q)
      /\ ValidCount(q) \in 0..Len(q) /\ \A j \in 1..ValidCount(q) : q[j] > 0
  BY ValidCountType
<1>2. i \in 1..ValidCount(q) => i \in DOMAIN q /\ \A j \in 1..i : q[j] > 0
  BY <1>1
<1>3. ASSUME i \in DOMAIN q, \A j \in 1..i : q[j] > 0
      PROVE  i \in 1..ValidCount(q)
  <2>1. i \in 0..Len(q)
    BY <1>1, <1>3
  <2>2. i <= ValidCount(q)
    BY <1>1, <1>3, <2>1, ValidCountMax
  <2> QED BY <1>1, <2>1, <2>2
<1> QED BY <1>2, <1>3

\* Where a record can be read, in frames.
ReadableIn(s, i) ==
  /\ s \in Listing /\ disk[s].hdr = "ok" /\ i \in DOMAIN disk[s].recs
  /\ \A j \in 1..i : disk[s].recs[j] > 0

\* What a reader can read is what the reader's scan reaches.
LEMMA ReadableAtIs ==
  ASSUME IInv, NEW s \in SegIds, NEW i \in Nat \ {0}
  PROVE  ReadableAt(s, i) <=> ReadableIn(s, i)
<1>1. disk[s].recs \in Seq(Frames)
  BY FileFacts
<1> QED BY <1>1, ScanReaches DEF ReadableAt, ReadableIn

\* So it is after a step.
LEMMA ReadableAtNext ==
  ASSUME IInv', NEW s \in SegIds, NEW i \in Nat \ {0}
  PROVE  ReadableAt(s, i)' <=> ReadableIn(s, i)'
<1>1. disk'[s].recs \in Seq(Frames)
  BY DEF IInv, TypeOK, TypeDisk, Files
<1> QED BY <1>1, ScanReaches DEF ReadableAt, ReadableIn

\* Nothing more can be read of segment s than before.
Shrunk(s) ==
  s \in Listing' /\ disk'[s].hdr = "ok" =>
    \A i \in DOMAIN disk'[s].recs : (\A j \in 1..i : disk'[s].recs[j] > 0) =>
      /\ s \in Listing /\ disk[s].hdr = "ok"
      /\ \A j \in 1..i : j \in DOMAIN disk[s].recs /\ disk'[s].recs[j] = disk[s].recs[j]
AllShrunk == \A s \in SegIds : Shrunk(s)

\* What is covered stays so when files shrink.
LEMMA CoveredKept ==
  ASSUME IInv, IInv', AllShrunk, seen \subseteq seen', NEW c, Covered(c)
  PROVE  Covered(c)'
<1> SUFFICES ASSUME NEW s \in SegIds, NEW i \in DOMAIN disk'[s].recs,
                    ReadableAt(s, i)', Before(<<s, i>>, c)
             PROVE  disk'[s].recs[i] \in seen'
  BY DEF Covered, Before
<1>1. i \in Nat \ {0}
  <2>1. disk'[s].recs \in Seq(Frames)
    BY DEF IInv, TypeOK, TypeDisk, Files
  <2> QED BY <2>1
<1>2. /\ s \in Listing' /\ disk'[s].hdr = "ok" /\ \A j \in 1..i : disk'[s].recs[j] > 0
  BY <1>1, ReadableAtNext DEF ReadableIn
<1>3. /\ s \in Listing /\ disk[s].hdr = "ok"
      /\ \A j \in 1..i : j \in DOMAIN disk[s].recs /\ disk'[s].recs[j] = disk[s].recs[j]
  BY <1>2 DEF AllShrunk, Shrunk
<1>4. i \in DOMAIN disk[s].recs /\ disk'[s].recs[i] = disk[s].recs[i]
      /\ \A j \in 1..i : disk[s].recs[j] > 0
  BY <1>1, <1>2, <1>3
<1>5. ReadableAt(s, i)
  BY <1>1, <1>3, <1>4, ReadableAtIs DEF ReadableIn
<1> QED BY <1>4, <1>5 DEF Covered

\* A step that leaves the writer at the same place of the same active file,
\* with at least the records queued before.
Calm ==
  /\ wpc # "down" /\ wpc' # "down" /\ active' = active /\ len'[active] = len[active]
  /\ Len(pending) <= Len(pending') /\ \A k \in 1..Len(pending) : pending'[k] = pending[k]
  /\ len[active] >= 0 => CutAt(disk'[active].recs, len[active]) = CutAt(disk[active].recs, len[active])

\* What is in the active file past that place was there before.
NoneAdded ==
  len[active] >= 0 =>
    \A j \in DOMAIN disk'[active].recs : j > len[active] =>
      j \in DOMAIN disk[active].recs /\ disk'[active].recs[j] = disk[active].recs[j]

\* What fits of the queue still fits after such a step, and only that.
SameFits(k) == Fits(k)' <=> Fits(k)
SamePrefix(k) == SubSeq(pending', 1, k) = SubSeq(pending, 1, k)
SameLength ==
  /\ active \in SegIds /\ active' = active /\ len'[active] = len[active] /\ len[active] \in Int
  /\ len[active] >= 0 => CutAt(disk'[active].recs, len[active]) = CutAt(disk[active].recs, len[active])

\* A record fits as before when what is in front of it is the same.
LEMMA FitsKept ==
  ASSUME SameLength, NEW k, SamePrefix(k)
  PROVE  SameFits(k)
<1>1. SegLen'[active'] = SegLen[active]
  <2>1. SegLen[active] = IF len[active] < 0 THEN 0
                         ELSE HeaderLen + Bytes(CutAt(disk[active].recs, len[active]))
    BY DEF SegLen, SameLength
  <2>2. SegLen'[active] = IF len'[active] < 0 THEN 0
                          ELSE HeaderLen + Bytes(CutAt(disk'[active].recs, len'[active]))
    BY DEF SegLen, SameLength
  <2> QED BY <2>1, <2>2 DEF SameLength
<1>2. Bytes(SubSeq(pending', 1, k)) = Bytes(SubSeq(pending, 1, k))
  BY DEF SamePrefix
<1> QED BY <1>1, <1>2 DEF SameFits, Fits

\* The numbers of queued records that fit, and the largest of them.
FitSet == {k \in 0..Len(pending) : k = 0 \/ Fits(k)}

\* The batch is the most queued records that fit, or one in an empty segment.
LEMMA BatchIs ==
  ASSUME pending \in Seq(Recs)
  PROVE  /\ Max(FitSet) \in FitSet /\ \A k \in FitSet : k <= Max(FitSet)
         /\ FitSet \subseteq 0..Len(pending)
         /\ Batch = IF Max(FitSet) = 0 /\ len[active] = 0 THEN 1 ELSE Max(FitSet)
<1>1. 0 \in FitSet /\ FitSet \in SUBSET (0..Len(pending)) /\ Len(pending) \in Nat
  BY DEF FitSet
<1>2. Max(FitSet) \in FitSet /\ \A k \in FitSet : k <= Max(FitSet)
  BY <1>1, MaxOfInterval
<1> QED BY <1>1, <1>2 DEF Batch, FitSet

\* So it is after a step.
LEMMA BatchNextIs ==
  ASSUME pending' \in Seq(Recs)
  PROVE  /\ \A k \in FitSet' : k <= Max(FitSet')
         /\ Max(FitSet') \in FitSet' /\ FitSet' \subseteq 0..Len(pending')
         /\ Batch' = IF Max(FitSet') = 0 /\ len'[active'] = 0 THEN 1 ELSE Max(FitSet')
<1>1. 0 \in FitSet' /\ FitSet' \in SUBSET (0..Len(pending')) /\ Len(pending') \in Nat
  BY DEF FitSet
<1>2. Max(FitSet') \in FitSet' /\ \A k \in FitSet' : k <= Max(FitSet')
  BY <1>1, MaxOfInterval
<1> QED BY <1>1, <1>2 DEF Batch, FitSet

\* The next batch takes at least the records it took.
LEMMA BatchGrows ==
  ASSUME IInv, IInv', Calm
  PROVE  Batch <= Batch' /\ Batch \in Nat /\ Batch' \in Nat
<1>1. /\ pending \in Seq(Recs) /\ pending' \in Seq(Recs) /\ active \in SegIds /\ len[active] \in Int
      /\ Len(pending) \in Nat /\ Len(pending') \in Nat
  BY DEF IInv, TypeOK, TypeMem, Control, Calm
<1>2. SameLength
  BY <1>1 DEF Calm, SameLength
<1>3. ASSUME NEW k \in FitSet PROVE k \in FitSet'
  <2>1. k \in 0..Len(pending) /\ k \in 0..Len(pending') /\ (k = 0 \/ Fits(k))
    BY <1>1, <1>3 DEF FitSet, Calm
  <2>2. SubSeq(pending', 1, k) = SubSeq(pending, 1, k)
    <3>1. PICK n \in Nat : n = k /\ n <= Len(pending) /\ n <= Len(pending')
      BY <1>1, <2>1
    <3>2. SubSeq(pending, 1, n) \in Seq(Recs) /\ Len(SubSeq(pending, 1, n)) = n
          /\ \A i \in 1..n : SubSeq(pending, 1, n)[i] = pending[i]
      BY <1>1, <3>1, HeadAndRest
    <3>3. SubSeq(pending', 1, n) \in Seq(Recs) /\ Len(SubSeq(pending', 1, n)) = n
          /\ \A i \in 1..n : SubSeq(pending', 1, n)[i] = pending'[i]
      BY <1>1, <3>1, HeadAndRest
    <3>4. \A i \in 1..n : pending'[i] = pending[i]
      BY <1>1, <3>1 DEF Calm
    <3> QED BY <3>1, <3>2, <3>3, <3>4, SeqEqual
  <2>3. k = 0 \/ Fits(k)'
    BY <1>2, <2>1, <2>2, FitsKept DEF SamePrefix, SameFits
  <2> QED BY <2>1, <2>3 DEF FitSet
<1>4. /\ Max(FitSet) \in FitSet' /\ Max(FitSet) \in Nat /\ Max(FitSet') \in Nat
      /\ Max(FitSet) <= Max(FitSet')
  BY <1>1, <1>3, BatchIs, BatchNextIs
<1>5. /\ Batch = IF Max(FitSet) = 0 /\ len[active] = 0 THEN 1 ELSE Max(FitSet)
      /\ Batch' = IF Max(FitSet') = 0 /\ len'[active'] = 0 THEN 1 ELSE Max(FitSet')
  BY <1>1, BatchIs, BatchNextIs
<1>6. len'[active'] = len[active]
  BY DEF Calm
<1> QED BY <1>4, <1>5, <1>6

\* So what the next write rewrites is still rewritten.
LEMMA InBatchKept ==
  ASSUME IInv, IInv', Calm, NEW j \in Nat, InBatch(j)
  PROVE  InBatch(j)' /\ Rewritten(j)' = Rewritten(j)
<1>1. Batch <= Batch' /\ Batch \in Nat /\ Batch' \in Nat
  BY BatchGrows
<1>2. /\ len[active] \in Int /\ len'[active'] = len[active]
      /\ Len(pending) \in Nat /\ Len(pending') \in Nat
  BY DEF IInv, TypeOK, TypeMem, Control, Calm
<1>3. PICK k \in Nat : k = j - len[active] /\ k \in 1..Len(pending) /\ k <= Batch
  BY <1>2 DEF InBatch
<1>4. k \in 1..Len(pending') /\ k <= Batch' /\ pending'[k] = pending[k]
  BY <1>1, <1>2, <1>3 DEF Calm
<1> QED BY <1>2, <1>3, <1>4 DEF InBatch, Rewritten

Cursors == (0..MaxSeg + 1) \X Nat

\* After such a step a mark is as good as before.
LEMMA CalmBehind ==
  ASSUME IInv, IInv', Calm, seen \subseteq seen', NEW c \in Cursors, MarkOK(c), Covered(c)'
  PROVE  MarkOK(c)'
<1>1. wpc # "down" /\ active' = active /\ len'[active'] = len[active]
  BY DEF Calm
<1>2. c[1] <= active'
  BY <1>1 DEF MarkOK
<1>3. ASSUME c[1] = active', NEW j \in 1..(c[2] - 1), j > len'[active']
      PROVE  (InBatch(j) /\ Rewritten(j) \in seen)'
  <2>1. InBatch(j) /\ Rewritten(j) \in seen
    BY <1>1, <1>3 DEF MarkOK
  <2>2. j \in Nat
    BY DEF Cursors
  <2> QED BY <2>1, <2>2, InBatchKept
<1> QED BY <1>2, <1>3 DEF MarkOK

\* So it is when the files only shrink.
LEMMA CalmMark ==
  ASSUME IInv, IInv', Calm, AllShrunk, seen \subseteq seen', NEW c \in Cursors, MarkOK(c)
  PROVE  MarkOK(c)'
<1>1. Covered(c)'
  BY CoveredKept DEF MarkOK
<1> QED BY <1>1, CalmBehind

\* The end of a process leaves what is covered covered.
LEMMA EndMark ==
  ASSUME IInv, IInv', wpc' = "down", AllShrunk, seen \subseteq seen', NEW c, MarkOK(c)
  PROVE  MarkOK(c)'
<1>1. Covered(c)'
  BY CoveredKept DEF MarkOK
<1> QED BY <1>1 DEF MarkOK

\* A new active segment is after every mark.
LEMMA AheadMark ==
  ASSUME IInv, IInv', AllShrunk, seen \subseteq seen', NEW c \in Cursors, Covered(c), c[1] < active'
  PROVE  MarkOK(c)'
<1>1. Covered(c)'
  BY CoveredKept
<1>2. c[1] \in Int /\ active' \in Int
  BY CountsAssumption DEF Cursors, IInv, TypeOK, TypeMem
<1> QED BY <1>1, <1>2 DEF MarkOK

\* A segment that only stays, or goes, has shrunk.
LEMMA SameFrames ==
  ASSUME IInv, \A s \in SegIds : disk'[s].recs = disk[s].recs /\ disk'[s].hdr = disk[s].hdr,
         Listing' \subseteq Listing
  PROVE  AllShrunk
<1> SUFFICES ASSUME NEW s \in SegIds, s \in Listing', disk'[s].hdr = "ok",
                    NEW i \in DOMAIN disk'[s].recs
             PROVE  /\ s \in Listing /\ disk[s].hdr = "ok"
                    /\ \A j \in 1..i : j \in DOMAIN disk[s].recs /\ disk'[s].recs[j] = disk[s].recs[j]
  BY DEF AllShrunk, Shrunk
<1>1. DOMAIN disk[s].recs = 1..Len(disk[s].recs) /\ Len(disk[s].recs) \in Nat
  BY FileFacts
<1> QED BY <1>1

\* Steps that change neither the files nor what the writer knows of the active one.
LEMMA StillCalm ==
  ASSUME IInv, UNCHANGED <<active, pending>>, wpc # "down", wpc' # "down",
         len'[active] = len[active], disk'[active].recs = disk[active].recs
  PROVE  Calm /\ NoneAdded
<1>1. pending \in Seq(Recs)
  BY DEF IInv, TypeOK, TypeMem
<1> QED BY <1>1 DEF Calm, NoneAdded

\* What the next write rewrites is kept too.
LEMMA CalmRemains ==
  ASSUME IInv, IInv', Calm, NoneAdded, Remains
  PROVE  Remains'
<1> SUFFICES ASSUME len'[active'] >= 0, NEW j \in DOMAIN disk'[active'].recs,
                    j > len'[active'], disk'[active'].recs[j] > 0
             PROVE  (InBatch(j) /\ disk[active].recs[j] = Rewritten(j))'
  BY DEF Remains
<1>1. wpc # "down" /\ active' = active /\ len'[active'] = len[active]
  BY DEF Calm
<1>2. j \in DOMAIN disk[active].recs /\ disk'[active].recs[j] = disk[active].recs[j]
  BY <1>1 DEF NoneAdded
<1>3. InBatch(j) /\ disk[active].recs[j] = Rewritten(j)
  BY <1>1, <1>2 DEF Remains
<1>4. j \in Nat
  <2>1. active \in SegIds
    BY <1>1 DEF IInv, Control
  <2> QED BY <1>2, <2>1, FileFacts
<1> QED BY <1>1, <1>2, <1>3, <1>4, InBatchKept

\* The same queue beside the same file makes the same batch.
LEMMA SameBatch ==
  ASSUME IInv, UNCHANGED <<active, pending>>, wpc # "down",
         len'[active] = len[active], disk'[active].recs = disk[active].recs
  PROVE  Batch' = Batch
<1>1. SameLength /\ pending' = pending
  BY DEF SameLength, IInv, TypeOK, TypeMem, Control
<1>2. \A k : SameFits(k)
  BY <1>1, FitsKept DEF SamePrefix
<1>3. FitSet' = FitSet
  BY <1>1, <1>2 DEF FitSet, SameFits
<1>4. len'[active'] = len[active]
  BY <1>1 DEF SameLength
<1> QED BY <1>3, <1>4 DEF Batch, FitSet

-----------------------------------------------------------------------------
(* Steps of the agent and the marks.                                       *)

MarksStay == \A c \in Cursors : MarkOK(c) => MarkOK(c)'
WriterKeeps == MarksStay /\ Remains' /\ NoneFits'

\* Steps that leave frames, headers and the active segment alone.
LEMMA StillKeeps ==
  ASSUME IInv, IInv', Remains, NoneFits, seen' = seen, UNCHANGED <<active, pending>>,
         wpc # "down", wpc' # "down", len'[active] = len[active],
         \A s \in SegIds : disk'[s].recs = disk[s].recs /\ disk'[s].hdr = disk[s].hdr,
         Listing' \subseteq Listing, wpc' = "room" => Batch = 0
  PROVE  WriterKeeps
<1>1. active \in SegIds
  BY DEF IInv, Control
<1>2. Calm /\ NoneAdded
  BY <1>1, StillCalm
<1>3. AllShrunk
  BY SameFrames
<1>4. Remains'
  BY <1>2, CalmRemains
<1>5. Batch' = Batch
  BY <1>1, SameBatch
<1>6. NoneFits'
  BY <1>5 DEF NoneFits
<1>7. MarksStay
  BY <1>2, <1>3, CalmMark DEF MarksStay
<1> QED BY <1>4, <1>6, <1>7 DEF WriterKeeps

\* Steps of the writer that change no file.
LEMMA QuietWriter ==
  ASSUME IInv, IInv', Remains, NoneFits, seen' = seen,
         \/ Tick \/ IdleTick \/ (Close /\ NeedIO) \/ StartRotate \/ RoomMade \/ EvictFails
         \/ (IoFails /\ ~closing) \/ AckDeleteFails \/ TakeGaps
  PROVE  WriterKeeps
<1>1. UNCHANGED <<disk, active, pending, len>> /\ wpc # "down" /\ wpc' # "down"
  BY DEF Tick, IdleTick, Close, FlushStep, StartRotate, RoomMade, EvictFails, IoFails, FlushFailed,
     AckDeleteFails, TakeGaps, diskVars, memVars, loopVars
<1>2. wpc' = "room" => Batch = 0
  BY DEF NoneFits, Tick, IdleTick, Close, FlushStep, StartRotate, RoomMade, EvictFails, IoFails,
     FlushFailed, AckDeleteFails, TakeGaps, loopVars
<1>3. Listing' = Listing
  BY <1>1 DEF Listing
<1> QED BY <1>1, <1>2, <1>3, StillKeeps

\* Deletions of segments.
LEMMA DeletionWriter ==
  ASSUME IInv, IInv', Remains, NoneFits, seen' = seen, OpenDelete \/ Evict \/ AckDelete
  PROVE  WriterKeeps
<1>1. /\ UNCHANGED <<active, pending, len>> /\ wpc # "down" /\ wpc' # "down"
      /\ wpc' = "room" => wpc = "room"
      /\ \E s \in SegIds : disk' = [disk EXCEPT ![s].st = "gone"]
  BY DEF OpenDelete, Evict, AckDelete, memVars, loopVars
<1>2. PICK s \in SegIds : disk' = [disk EXCEPT ![s].st = "gone"]
  BY <1>1
<1>3. disk \in [SegIds -> Files]
  BY DEF IInv, TypeOK, TypeDisk
<1>4. \A t \in SegIds : disk'[t].recs = disk[t].recs /\ disk'[t].hdr = disk[t].hdr
  BY <1>2, <1>3 DEF Files
<1>5. Listing' \subseteq Listing
  BY <1>2, <1>3 DEF Listing, Files
<1> QED BY <1>1, <1>4, <1>5, StillKeeps DEF NoneFits

\* open keeps a segment, and repairs the newest one.
LEMMA OpenKeepWriter ==
  ASSUME IInv, IInv', Remains, NoneFits, seen' = seen, OpenKeep
  PROVE  WriterKeeps
<1>1. PICK s \in SegIds : /\ Oldest(s, todo) /\ disk' = [disk EXCEPT ![s] = Repair(s)]
                          /\ len' = [len EXCEPT ![s] = FrameCount(Repair(s))]
  BY DEF OpenKeep
<1>2. /\ UNCHANGED <<active, pending>> /\ wpc = "opening" /\ wpc' \in {"idle", "opening"}
      /\ disk \in [SegIds -> Files] /\ len \in [SegIds -> Int] /\ active \in SegIds
  BY DEF OpenKeep, IInv, TypeOK, TypeDisk, TypeMem, Control
<1>3. s # active /\ s \in Listing
  BY <1>1, <1>2 DEF IInv, Numbers, Oldest, SegIds
<1>4. len'[active] = len[active] /\ disk'[active] = disk[active]
  BY <1>1, <1>2, <1>3
<1>5. Calm /\ NoneAdded
  BY <1>2, <1>4, StillCalm
<1>6. AllShrunk
  <2>1. ASSUME NEW t \in SegIds, t # s PROVE Shrunk(t)
    <3>1. disk'[t] = disk[t] /\ (t \in Listing' => t \in Listing)
      BY <1>1, <1>2, <2>1 DEF Listing
    <3>2. DOMAIN disk[t].recs = 1..Len(disk[t].recs) /\ Len(disk[t].recs) \in Nat
      BY FileFacts
    <3> QED BY <3>1, <3>2 DEF Shrunk
  <2>2. disk'[s] = Repair(s)
    BY <1>1, <1>2
  <2>3. \A i \in DOMAIN Repair(s).recs :
          i \in DOMAIN disk[s].recs /\ Repair(s).recs[i] = disk[s].recs[i]
    BY <1>2, RepairType
  <2>4. Repair(s).hdr = "ok" => disk[s].hdr = "ok" \/ Repair(s).recs = <<>>
    BY <1>2 DEF Repair, Recover, Files
  <2>5. Repair(s).recs \in Seq(Frames)
    BY <1>2, RepairType DEF Files
  <2>6. \A i \in DOMAIN Repair(s).recs : \A j \in 1..i : j \in DOMAIN Repair(s).recs
    BY <2>5
  <2>7. Shrunk(s)
    BY <1>3, <2>2, <2>3, <2>4, <2>6 DEF Shrunk
  <2> QED BY <2>1, <2>7 DEF AllShrunk
<1>7. Remains' /\ NoneFits'
  BY <1>2, <1>5, CalmRemains DEF NoneFits
<1>8. MarksStay
  BY <1>5, <1>6, CalmMark DEF MarksStay
<1> QED BY <1>7, <1>8 DEF WriterKeeps

\* append: the queue grows at its end.
LEMMA AppendWriter ==
  ASSUME IInv, IInv', Remains, NoneFits, seen' = seen, AppendRecord
  PROVE  WriterKeeps
<1>1. /\ UNCHANGED <<disk, len, active, wpc>> /\ wpc = "idle"
      /\ pending \in Seq(Recs) /\ nrec + 1 \in Recs /\ active \in SegIds
      /\ pending' = pending \/ pending' = Append(pending, nrec + 1)
  BY CountsAssumption DEF AppendRecord, diskVars, loopVars, IInv, TypeOK, TypeMem, TypeHistory,
     Control, Recs
<1>2. Len(pending) <= Len(pending') /\ \A k \in 1..Len(pending) : pending'[k] = pending[k]
  BY <1>1
<1>3. Calm /\ NoneAdded
  BY <1>1, <1>2 DEF Calm, NoneAdded
<1>4. AllShrunk
  BY <1>1, SameFrames DEF Listing
<1>5. Remains' /\ NoneFits'
  BY <1>1, <1>3, CalmRemains DEF NoneFits
<1>6. MarksStay
  BY <1>3, <1>4, CalmMark DEF MarksStay
<1> QED BY <1>5, <1>6 DEF WriterKeeps

\* open_active creates the file, or cuts it at the writer's length.
LEMMA OpenActiveWriter ==
  ASSUME IInv, IInv', Remains, NoneFits, seen' = seen, OpenActive
  PROVE  WriterKeeps
<1> DEFINE recs == disk[active].recs
           n == len[active]
<1>1. /\ disk \in [SegIds -> Files] /\ active \in SegIds /\ n \in Int
      /\ disk[active] \in Files /\ recs \in Seq(Frames) /\ pending \in Seq(Recs)
  BY DEF IInv, OpenActive, TypeOK, TypeDisk, TypeMem, Control, Files
<1>2. /\ UNCHANGED <<len, active, pending>> /\ wpc # "down" /\ wpc' # "down" /\ wpc' # "room"
      /\ \A s \in SegIds \ {active} : disk'[s] = disk[s]
  BY <1>1 DEF OpenActive, AfterOpen
<1>3. n < 0 => disk'[active].recs = <<>>
  BY <1>1 DEF OpenActive
<1>4. n >= 0 => /\ disk'[active].recs = CutAt(recs, n) /\ disk'[active].hdr = disk[active].hdr
                /\ active \in Listing /\ n \in 0..Len(recs)
  BY <1>1 DEF OpenActive, IInv, ActiveFile, Files
<1>5. CutAt(recs, n) \in Seq(Frames) /\ (n \in 0..Len(recs) => Len(CutAt(recs, n)) = n)
      /\ Len(CutAt(recs, n)) <= Len(recs) /\ \A i \in 1..Len(CutAt(recs, n)) : CutAt(recs, n)[i] = recs[i]
  BY <1>1, CutAtType
<1>6. n >= 0 => CutAt(disk'[active].recs, n) = CutAt(recs, n)
  <2>1. \A q \in Seq(Frames) : Len(q) = n => CutAt(q, n) = q
    BY <1>1 DEF CutAt
  <2> QED BY <1>4, <1>5, <2>1
<1>7. NoneAdded
  BY <1>4, <1>5 DEF NoneAdded
<1>8. Calm
  BY <1>1, <1>2, <1>6 DEF Calm
<1>9. AllShrunk
  <2>1. ASSUME NEW t \in SegIds, t # active PROVE Shrunk(t)
    <3>1. disk'[t] = disk[t] /\ (t \in Listing' => t \in Listing)
      BY <1>2, <2>1 DEF Listing
    <3>2. DOMAIN disk[t].recs = 1..Len(disk[t].recs) /\ Len(disk[t].recs) \in Nat
      BY FileFacts
    <3> QED BY <3>1, <3>2 DEF Shrunk
  <2>2. CASE n < 0
    <3>1. DOMAIN disk'[active].recs = {}
      BY <1>3, <2>2
    <3>2. Shrunk(active)
      BY <3>1 DEF Shrunk
    <3> QED BY <2>1, <3>2 DEF AllShrunk
  <2>3. CASE n >= 0
    <3>1. \A i \in DOMAIN disk'[active].recs : \A j \in 1..i :
            j \in DOMAIN recs /\ disk'[active].recs[j] = recs[j]
      BY <1>1, <1>4, <1>5, <2>3
    <3>2. Shrunk(active)
      BY <1>4, <2>3, <3>1 DEF Shrunk
    <3> QED BY <2>1, <3>2 DEF AllShrunk
  <2> QED BY <1>1, <2>2, <2>3
<1>10. Remains' /\ NoneFits'
  BY <1>2, <1>7, <1>8, CalmRemains DEF NoneFits
<1>11. MarksStay
  BY <1>8, <1>9, CalmMark DEF MarksStay
<1> QED BY <1>10, <1>11 DEF WriterKeeps

\* The header of a new segment: no mark is past its first frame.
LEMMA WriteHeaderWriter ==
  ASSUME IInv, IInv', Remains, NoneFits, seen' = seen, WriteHeader
  PROVE  WriterKeeps
<1>1. /\ disk \in [SegIds -> Files] /\ active \in SegIds /\ len \in [SegIds -> Int]
      /\ active \in Listing /\ len[active] < 0 /\ disk[active].recs = <<>> /\ active' = active
      /\ wpc = "header" /\ wpc' # "room" /\ len'[active] = 0 /\ disk' = [disk EXCEPT ![active].hdr = "ok"]
  BY DEF IInv, WriteHeader, AfterOpen, TypeOK, TypeDisk, TypeMem, Control, ActiveFile
<1>2. /\ \A s \in SegIds : disk'[s].recs = disk[s].recs /\ disk'[s].st = disk[s].st
      /\ \A s \in SegIds \ {active} : disk'[s].hdr = disk[s].hdr
  BY <1>1 DEF Files
<1>3. AllShrunk
  <2>1. ASSUME NEW t \in SegIds, t # active PROVE Shrunk(t)
    <3>1. /\ disk'[t].recs = disk[t].recs /\ disk'[t].hdr = disk[t].hdr
          /\ (t \in Listing' => t \in Listing)
      BY <1>2, <2>1 DEF Listing
    <3>2. DOMAIN disk[t].recs = 1..Len(disk[t].recs) /\ Len(disk[t].recs) \in Nat
      BY FileFacts
    <3> QED BY <3>1, <3>2 DEF Shrunk
  <2>2. DOMAIN disk'[active].recs = {}
    BY <1>1, <1>2
  <2>3. Shrunk(active)
    BY <2>2 DEF Shrunk
  <2> QED BY <2>1, <2>3 DEF AllShrunk
<1>4. Remains' /\ NoneFits'
  <2>1. DOMAIN disk'[active'].recs = {}
    BY <1>1, <1>2
  <2> QED BY <1>1, <2>1 DEF Remains, NoneFits
<1>5. ASSUME NEW c \in Cursors, MarkOK(c) PROVE MarkOK(c)'
  <2>1. Covered(c)'
    BY <1>3, <1>5, CoveredKept DEF MarkOK
  <2>2. c[1] <= active'
    BY <1>1, <1>5 DEF MarkOK
  <2>3. c[2] \in Nat
    BY DEF Cursors
  <2>4. ASSUME c[1] = active, NEW j \in 1..(c[2] - 1) PROVE FALSE
    <3>1. j > len[active]
      BY <1>1, <2>3, <2>4
    <3>2. InBatch(j)
      BY <1>1, <1>5, <2>4, <3>1 DEF MarkOK
    <3> QED BY <1>1, <3>2 DEF InBatch
  <2> QED BY <1>1, <2>1, <2>2, <2>4 DEF MarkOK
<1> QED BY <1>4, <1>5 DEF WriterKeeps, MarksStay

\* Nothing fits, so no mark is in a batch, and the queue may go.
LEMMA DropPendingWriter ==
  ASSUME IInv, IInv', Remains, NoneFits, seen' = seen, DropPending
  PROVE  WriterKeeps
<1>1. /\ UNCHANGED <<disk, len, active>> /\ wpc = "room" /\ wpc' = "sync" /\ fileOpen /\ Batch = 0
      /\ active \in SegIds /\ Len(disk[active].recs) <= len[active] /\ len[active] \in Int
  BY DEF DropPending, diskVars, IInv, Control, ActiveFile, NoneFits, TypeOK, TypeMem
<1>2. AllShrunk
  BY <1>1, SameFrames DEF Listing
<1>3. Remains' /\ NoneFits'
  <2>1. DOMAIN disk[active].recs = 1..Len(disk[active].recs) /\ Len(disk[active].recs) \in Nat
    BY <1>1, FileFacts
  <2>2. \A j \in DOMAIN disk'[active'].recs : ~(j > len'[active'])
    BY <1>1, <2>1
  <2> QED BY <1>1, <2>2 DEF Remains, NoneFits
<1>4. ASSUME NEW c \in Cursors, MarkOK(c) PROVE MarkOK(c)'
  <2>1. Covered(c)'
    BY <1>2, <1>4, CoveredKept DEF MarkOK
  <2>2. c[1] <= active'
    BY <1>1, <1>4 DEF MarkOK
  <2>3. ASSUME c[1] = active, NEW j \in 1..(c[2] - 1), j > len[active] PROVE FALSE
    <3>1. InBatch(j) /\ j \in Int
      BY <1>1, <1>4, <2>3 DEF MarkOK, Cursors
    <3> QED BY <1>1, <3>1 DEF InBatch
  <2> QED BY <1>1, <2>1, <2>2, <2>3 DEF MarkOK
<1> QED BY <1>3, <1>4 DEF WriterKeeps, MarksStay

\* The end of the process, with the files as they are but for a flush.
LEMMA ExitWriter ==
  ASSUME IInv, IInv', seen' = seen, wpc' = "down",
         \A s \in SegIds : disk'[s].recs = disk[s].recs /\ disk'[s].hdr = disk[s].hdr,
         Listing' \subseteq Listing
  PROVE  WriterKeeps
<1>1. AllShrunk
  BY SameFrames
<1>2. MarksStay
  BY <1>1, EndMark DEF MarksStay
<1> QED BY <1>2 DEF WriterKeeps, Remains, NoneFits

\* What a flush leaves of the files.
LEMMA SyncedFiles ==
  ASSUME IInv, wpc # "down", disk' = SyncFile(active) \/ disk' = disk
  PROVE  /\ Listing' = Listing /\ active \in SegIds
         /\ \A s \in SegIds : /\ disk'[s].recs = disk[s].recs /\ disk'[s].hdr = disk[s].hdr
                              /\ s # active => disk'[s] = disk[s]
<1>1. disk \in [SegIds -> Files] /\ active \in SegIds
  BY DEF IInv, TypeOK, TypeDisk, Control
<1>2. \A s \in SegIds : /\ disk'[s].recs = disk[s].recs /\ disk'[s].hdr = disk[s].hdr
                        /\ disk'[s].st = disk[s].st /\ (s # active => disk'[s] = disk[s])
  BY <1>1 DEF SyncFile, Files
<1> QED BY <1>1, <1>2 DEF Listing

\* The steps by which the writer ends without a power cut.
LEMMA ExitsWriter ==
  ASSUME IInv, IInv', seen' = seen,
         Crash \/ OpenFails \/ (Close /\ ~NeedIO) \/ (IoFails /\ closing)
  PROVE  WriterKeeps
<1>1. disk' = disk /\ wpc' = "down"
  BY DEF Crash, OpenFails, Close, IoFails, FlushFailed, NoWriter, diskVars
<1> QED BY <1>1, ExitWriter DEF Listing

\* The end of a flush.
LEMMA FinishWriter ==
  ASSUME IInv, IInv', Remains, NoneFits, seen' = seen, Finish \/ SealExhausted
  PROVE  WriterKeeps
<1>1. /\ wpc # "down" /\ (disk' = SyncFile(active) \/ disk' = disk)
      /\ \/ wpc' = "down"
         \/ wpc' = "idle" /\ UNCHANGED <<len, active, pending>>
  BY DEF Finish, SealExhausted, NoWriter
<1>2. /\ Listing' = Listing
      /\ \A s \in SegIds : disk'[s].recs = disk[s].recs /\ disk'[s].hdr = disk[s].hdr
  BY <1>1, SyncedFiles
<1>3. CASE wpc' = "down"
  BY <1>2, <1>3, ExitWriter
<1>4. CASE wpc' # "down"
  <2>1. wpc' # "room" /\ UNCHANGED <<len, active, pending>>
    BY <1>1, <1>4
  <2> QED BY <1>1, <1>2, <1>4, <2>1, StillKeeps
<1> QED BY <1>3, <1>4

\* rotate: the next segment is after every mark.
LEMMA SealWriter ==
  ASSUME IInv, IInv', Remains, NoneFits, seen' = seen, Seal
  PROVE  WriterKeeps
<1>1. /\ wpc = "seal" /\ wpc' = "active" /\ disk' = SyncFile(active) /\ active \in SegIds
      /\ active' = active + 1 /\ len \in [SegIds -> Int] /\ len' = [len EXCEPT ![active'] = -1]
      /\ active' \in SegIds
  BY CountsAssumption DEF Seal, NextSeq, IInv, Control, TypeOK, TypeMem, SegIds
<1>2. AllShrunk
  BY <1>1, SyncedFiles, SameFrames
<1>3. Remains' /\ NoneFits'
  BY <1>1 DEF Remains, NoneFits
<1>4. ASSUME NEW c \in Cursors, MarkOK(c) PROVE MarkOK(c)'
  <2>1. Covered(c) /\ c[1] <= active /\ c[1] \in Int /\ active \in Int
    BY <1>1, <1>4 DEF MarkOK, Cursors, SegIds
  <2>2. c[1] < active'
    BY <1>1, <2>1
  <2> QED BY <1>2, <2>1, <2>2, AheadMark
<1> QED BY <1>3, <1>4 DEF WriterKeeps, MarksStay

\* What a write puts into the active file before a mark was delivered from an
\* earlier attempt at the same batch.
LEMMA WriteCovers ==
  ASSUME IInv, IInv', wpc \in {"write", "writing"}, NEW frames \in Seq(Frames),
         \A i \in DOMAIN frames :
           frames[i] = 0 \/ (i \in DOMAIN pending /\ frames[i] = pending[i]),
         disk' = [disk EXCEPT ![active].recs = WriteAt(frames)],
         seen' = seen, NEW c \in Cursors, MarkOK(c)
  PROVE  Covered(c)'
<1>1. /\ Listing' = Listing /\ active \in Listing /\ len[active] \in Nat
      /\ \A s \in SegIds \ {active} : disk'[s].recs = disk[s].recs
      /\ Len(disk'[active].recs) = len[active] + Len(frames)
      /\ \A i \in DOMAIN disk'[active].recs :
           \/ /\ i <= len[active] /\ i \in DOMAIN disk[active].recs
              /\ disk'[active].recs[i] = disk[active].recs[i]
           \/ /\ i - len[active] \in DOMAIN frames
              /\ disk'[active].recs[i] = frames[i - len[active]]
  BY WriteAtFacts
<1>2. \A s \in SegIds : disk'[s].hdr = disk[s].hdr
  BY DEF IInv, TypeOK, TypeDisk, Files
<1>3. active \in SegIds /\ wpc # "down" /\ c[1] <= active /\ c[1] \in Int /\ c[2] \in Nat /\ active \in Int
  BY DEF IInv, Control, MarkOK, Cursors, SegIds
<1>4. SUFFICES ASSUME NEW s \in SegIds, NEW i \in DOMAIN disk'[s].recs,
                      ReadableAt(s, i)', Before(<<s, i>>, c)
               PROVE  disk'[s].recs[i] \in seen
  BY DEF Covered, Before
<1>5. i \in Nat \ {0} /\ \A j \in 1..i : j \in DOMAIN disk'[s].recs
  <2>1. disk'[s].recs \in Seq(Frames)
    BY DEF IInv, TypeOK, TypeDisk, Files
  <2> QED BY <2>1
<1>6. s \in Listing /\ disk[s].hdr = "ok" /\ \A j \in 1..i : disk'[s].recs[j] > 0
  BY <1>1, <1>2, <1>4, <1>5, ReadableAtNext DEF ReadableIn
<1>7. ASSUME \A j \in 1..i : j \in DOMAIN disk[s].recs /\ disk'[s].recs[j] = disk[s].recs[j]
      PROVE  disk'[s].recs[i] \in seen
  <2>1. i \in DOMAIN disk[s].recs /\ \A j \in 1..i : disk[s].recs[j] > 0
    BY <1>5, <1>6, <1>7
  <2>2. ReadableAt(s, i)
    BY <1>5, <1>6, <2>1, ReadableAtIs DEF ReadableIn
  <2>3. disk'[s].recs[i] = disk[s].recs[i]
    BY <1>5, <1>7
  <2> QED BY <1>4, <2>1, <2>2, <2>3 DEF MarkOK, Covered
<1>8. CASE s # active
  <2>1. disk'[s].recs = disk[s].recs
    BY <1>1, <1>8
  <2> QED BY <1>5, <1>7, <2>1
<1>9. CASE s = active /\ i <= len[active]
  <2>1. len[active] \in 0..Len(disk[active].recs)
    BY <1>1, <1>3 DEF IInv, ActiveFile
  <2>2. ASSUME NEW j \in 1..i
        PROVE  j \in DOMAIN disk[active].recs /\ disk'[active].recs[j] = disk[active].recs[j]
    <3>1. j <= len[active] /\ j \in DOMAIN disk'[active].recs /\ ~(j - len[active] \in DOMAIN frames)
      BY <1>1, <1>5, <1>9, <2>2
    <3> QED BY <1>1, <3>1
  <2> QED BY <1>7, <1>9, <2>2
<1>10. CASE s = active /\ i > len[active]
  <2>1. c[1] = active /\ i < c[2]
    BY <1>3, <1>4, <1>10 DEF Before
  <2>2. i \in 1..(c[2] - 1)
    BY <1>3, <1>5, <2>1
  <2>3. Rewritten(i) \in seen
    BY <1>3, <1>10, <2>1, <2>2 DEF MarkOK
  <2>4. i \in 1..i
    BY <1>5
  <2>5. disk'[active].recs[i] > 0
    BY <1>6, <1>10, <2>4
  <2>6. i - len[active] \in DOMAIN frames /\ disk'[active].recs[i] = frames[i - len[active]]
    BY <1>1, <1>4, <1>5, <1>10
  <2>7. disk'[active].recs[i] = Rewritten(i)
    BY <2>5, <2>6 DEF Rewritten
  <2> QED BY <1>10, <2>3, <2>7
<1>11. i <= len[active] \/ i > len[active]
  BY <1>1, <1>5
<1> QED BY <1>8, <1>9, <1>10, <1>11

\* A partial write: what it leaves past the length is rewritten by the next.
LEMMA WritePartWriter ==
  ASSUME IInv, IInv', Remains, NoneFits, seen' = seen, WritePart
  PROVE  WriterKeeps
<1>1. /\ pending \in Seq(Recs) /\ pending # <<>> /\ MaxRecs \in Nat /\ wpc = "write" /\ wpc' = "writing"
      /\ UNCHANGED <<len, active, pending>> /\ active \in SegIds /\ len[active] \in Int
  BY CountsAssumption DEF IInv, WritePart, TypeOK, TypeMem, Control, memVars
<1>2. PICK k \in 0..(Batch - 1) :
        disk' = [disk EXCEPT ![active].recs = WriteAt(SubSeq(pending, 1, k) \o <<Torn>>)]
  BY DEF WritePart
<1>3. k \in 0..Len(pending) /\ k <= Batch /\ Batch \in Nat /\ Len(pending) \in Nat
  BY <1>1, <1>2, BatchType
<1>4. PICK head \in Seq(Recs) : /\ head = SubSeq(pending, 1, k) /\ Len(head) = k
                                /\ \A i \in 1..k : head[i] = pending[i] /\ i \in DOMAIN pending
  BY <1>1, <1>3, HeadAndRest
<1>5. PICK frames \in Seq(Frames) :
        /\ disk' = [disk EXCEPT ![active].recs = WriteAt(frames)]
        /\ \A i \in DOMAIN frames :
             frames[i] = 0 \/ (i \in DOMAIN pending /\ i <= k /\ frames[i] = pending[i])
  <2>1. \A r \in Recs : r \in Frames
    BY <1>1 DEF Frames, Recs
  <2>2. head \in Seq(Frames) /\ <<Torn>> \in Seq(Frames)
    BY <1>1, <1>4, <2>1 DEF Torn, Frames
  <2>3. head \o <<Torn>> \in Seq(Frames)
    BY <2>2
  <2>4. \A i \in DOMAIN (head \o <<Torn>>) :
          \/ (head \o <<Torn>>)[i] = 0
          \/ i \in DOMAIN pending /\ i <= k /\ (head \o <<Torn>>)[i] = pending[i]
    BY <1>3, <1>4 DEF Torn
  <2> QED BY <1>2, <1>4, <2>3, <2>4
<1>6. \A i \in DOMAIN frames : frames[i] = 0 \/ (i \in DOMAIN pending /\ frames[i] = pending[i])
  BY <1>5
<1>7. /\ active \in Listing /\ len[active] \in Nat
      /\ Len(disk'[active].recs) = len[active] + Len(frames) /\ disk'[active].recs \in Seq(Frames)
      /\ \A i \in DOMAIN disk'[active].recs :
           \/ /\ i <= len[active] /\ i \in DOMAIN disk[active].recs
              /\ disk'[active].recs[i] = disk[active].recs[i]
           \/ /\ i - len[active] \in DOMAIN frames
              /\ disk'[active].recs[i] = frames[i - len[active]]
  BY <1>1, <1>5, <1>6, WriteAtFacts
<1>8. Calm
  <2>1. disk[active].recs \in Seq(Frames) /\ len[active] \in 0..Len(disk[active].recs)
    BY <1>1, <1>7, FileFacts DEF IInv, ActiveFile
  <2>2. PICK old \in Seq(Frames) : old = disk[active].recs
    BY <2>1
  <2>3. PICK new \in Seq(Frames) : new = disk'[active].recs
    BY <1>7
  <2>4. len[active] \in 0..Len(new)
    BY <1>7, <2>3
  <2>5. ASSUME NEW i \in 1..len[active] PROVE new[i] = old[i]
    <3>1. i \in DOMAIN new /\ ~(i - len[active] \in DOMAIN frames)
      BY <1>7, <2>3, <2>4, <2>5
    <3> QED BY <1>7, <2>2, <2>3, <3>1
  <2>6. /\ CutAt(old, len[active]) \in Seq(Frames) /\ Len(CutAt(old, len[active])) = len[active]
        /\ \A i \in 1..len[active] : CutAt(old, len[active])[i] = old[i]
    BY <1>1, <2>1, <2>2, CutAtType
  <2>7. /\ CutAt(new, len[active]) \in Seq(Frames) /\ Len(CutAt(new, len[active])) = len[active]
        /\ \A i \in 1..len[active] : CutAt(new, len[active])[i] = new[i]
    BY <1>1, <2>4, CutAtType
  <2>8. CutAt(new, len[active]) = CutAt(old, len[active])
    <3>1. PICK a \in Seq(Frames) : a = CutAt(new, len[active])
      BY <2>7
    <3>2. PICK b \in Seq(Frames) : b = CutAt(old, len[active])
      BY <2>6
    <3>3. Len(a) = len[active] /\ Len(b) = len[active]
      BY <2>6, <2>7, <3>1, <3>2
    <3>4. ASSUME NEW i \in 1..Len(a) PROVE a[i] = b[i]
      BY <2>5, <2>6, <2>7, <3>1, <3>2, <3>3
    <3>5. a = b
      BY ONLY <3>3, <3>4, SeqEqual
    <3> QED BY <3>1, <3>2, <3>5
  <2> QED BY <1>1, <2>2, <2>3, <2>8 DEF Calm
<1>9. ASSUME NEW j \in DOMAIN disk'[active].recs, j > len[active], disk'[active].recs[j] > 0
      PROVE  InBatch(j) /\ disk'[active].recs[j] = Rewritten(j) /\ j \in Nat
  <2>1. j \in Nat
    BY <1>7
  <2>2. j - len[active] \in DOMAIN frames /\ disk'[active].recs[j] = frames[j - len[active]]
    <3>1. len[active] \in Nat /\ ~(j <= len[active])
      BY <1>7, <1>9, <2>1
    <3>2. \A i \in DOMAIN disk'[active].recs : i <= len[active] \/
            (i - len[active] \in DOMAIN frames /\ disk'[active].recs[i] = frames[i - len[active]])
      BY <1>7
    <3> QED BY <1>9, <3>1, <3>2
  <2>3. /\ j - len[active] \in DOMAIN pending /\ j - len[active] <= k
        /\ disk'[active].recs[j] = pending[j - len[active]]
    BY <1>5, <1>9, <2>2
  <2>4. PICK n \in Int : n = j - len[active]
    BY <1>7, <2>1
  <2>5. n \in 1..Len(pending) /\ n <= Batch
    BY <1>1, <1>3, <2>3, <2>4
  <2> QED BY <1>7, <2>1, <2>3, <2>4, <2>5 DEF InBatch, Rewritten
<1>10. Remains'
  <2>1. ASSUME NEW j \in DOMAIN disk'[active].recs, j > len[active], disk'[active].recs[j] > 0
        PROVE  InBatch(j)' /\ disk'[active].recs[j] = Rewritten(j)'
    BY <1>8, <1>9, <2>1, InBatchKept
  <2> QED BY <1>1, <2>1 DEF Remains
<1>11. MarksStay
  <2>1. ASSUME NEW c \in Cursors, MarkOK(c) PROVE Covered(c)'
    BY <1>1, <1>5, <1>6, <2>1, WriteCovers
  <2> QED BY <1>8, <2>1, CalmBehind DEF MarksStay
<1> QED BY <1>1, <1>10, <1>11 DEF WriterKeeps, NoneFits

\* A whole batch: the length is past what it wrote, and every mark with it.
LEMMA WriteBatchWriter ==
  ASSUME IInv, IInv', Remains, NoneFits, seen' = seen, WriteBatch
  PROVE  WriterKeeps
<1>0. wpc \in {"write", "writing"} /\ active' = active
  BY DEF WriteBatch
<1>1. /\ pending \in Seq(Recs) /\ pending # <<>> /\ MaxRecs \in Nat
      /\ active' = active /\ active \in SegIds /\ len \in [SegIds -> Int] /\ Len(pending) \in Nat
  BY <1>0, CountsAssumption DEF IInv, TypeOK, TypeMem, Control
<1>2. PICK b \in 1..Len(pending) : b = Batch
  BY <1>1, BatchType DEF WriteBatch
<1>3. PICK frames \in Seq(Recs) : /\ frames = SubSeq(pending, 1, b) /\ Len(frames) = b
                                  /\ \A i \in 1..b : frames[i] = pending[i] /\ i \in DOMAIN pending
  <2>1. b \in 0..Len(pending)
    BY <1>1
  <2> QED BY <1>1, <2>1, HeadAndRest
<1>4. /\ disk' = [disk EXCEPT ![active].recs = WriteAt(frames)]
      /\ len' = [len EXCEPT ![active] = len[active] + b]
      /\ wpc \in {"write", "writing"} /\ wpc' # "room" /\ wpc' # "down"
  BY <1>2, <1>3 DEF WriteBatch
<1>5. frames \in Seq(Frames) /\ \A i \in DOMAIN frames : i \in DOMAIN pending /\ frames[i] = pending[i]
  <2>1. \A r \in Recs : r \in Frames
    BY <1>1 DEF Frames, Recs
  <2> QED BY <1>3, <2>1
<1>6. /\ len[active] \in Nat /\ Len(disk'[active].recs) = len[active] + Len(frames)
      /\ disk'[active].recs \in Seq(Frames)
  BY <1>4, <1>5, WriteAtFacts
<1>7. len'[active'] = len[active] + b
  BY <1>1, <1>4
<1>8. Remains' /\ NoneFits'
  <2>1. \A j \in DOMAIN disk'[active'].recs : ~(j > len'[active'])
    BY <1>1, <1>3, <1>6, <1>7
  <2> QED BY <1>4, <2>1 DEF Remains, NoneFits
<1>9. ASSUME NEW c \in Cursors, MarkOK(c) PROVE MarkOK(c)'
  <2>1. Covered(c)'
    BY <1>4, <1>5, <1>9, WriteCovers
  <2>2. c[1] <= active'
    BY <1>1, <1>4, <1>9 DEF MarkOK
  <2>3. ASSUME c[1] = active', NEW j \in 1..(c[2] - 1), j > len'[active'] PROVE FALSE
    <3>1. j \in Int /\ j > len[active]
      BY <1>2, <1>6, <1>7, <2>3
    <3>2. j - len[active] <= Batch
      BY <1>1, <1>4, <1>9, <2>3, <3>1 DEF MarkOK, InBatch
    <3> QED BY <1>2, <1>6, <1>7, <2>3, <3>1, <3>2
  <2> QED BY <2>1, <2>2, <2>3 DEF MarkOK
<1> QED BY <1>8, <1>9 DEF WriterKeeps, MarksStay

\* open takes a number after every mark that is not past it.
LEMMA LoadWriter ==
  ASSUME IInv, IInv', seen' = seen, OpenLoad
  PROVE  /\ Remains' /\ NoneFits' /\ disk' = disk /\ Listing' = Listing /\ active' \in SegIds
         /\ \A t \in Listing : t < active'
         /\ LoadCursor[1] < active' /\ acked' = LoadCursor /\ cursor' = cursor
         /\ \A c \in Cursors : MarkOK(c) /\ c[1] < active' => MarkOK(c)'
<1>1. PICK seq \in SegIds : AfterListingAndCursor(seq) /\ active' = seq
  BY DEF OpenLoad
<1>2. /\ disk' = disk /\ Listing' = Listing /\ UNCHANGED len /\ wpc = "down"
      /\ wpc' \in {"idle", "opening"} /\ acked' = LoadCursor /\ cursor' = cursor
  BY DEF OpenLoad, diskVars, Listing
<1>3. seq \in Int /\ LoadCursor[1] \in Int /\ \A t \in Listing : t \in Int
  BY CountsAssumption DEF SegIds, LoadCursor, IInv, TypeOK, TypeDisk, NoAck, CorruptCursor, Listing
<1>4. (\A t \in Listing : t < seq) /\ LoadCursor[1] < seq
  BY <1>1, <1>3, CountsAssumption DEF AfterListingAndCursor, NextSeq, SegIds
<1>5. len'[active'] < 0
  BY <1>1, <1>2 DEF IInv, Control
<1>6. Remains' /\ NoneFits'
  <2>1. len'[active'] \in Int
    BY <1>1, <1>2 DEF IInv, TypeOK, TypeMem
  <2> QED BY <1>2, <1>5, <2>1 DEF Remains, NoneFits
<1>7. AllShrunk
  BY <1>2, SameFrames
<1>8. \A c \in Cursors : MarkOK(c) /\ c[1] < active' => MarkOK(c)'
  BY <1>7, AheadMark DEF MarkOK
<1> QED BY <1>1, <1>2, <1>4, <1>6, <1>8

\* A power cut adds nothing to a file.
LEMMA CutFileShrinks ==
  ASSUME NEW f, NEW k \in Int, NEW torn, f \in Files
  PROVE  CutFile(f, k, torn).hdr \in {"none", f.hdr}
<1>1. CASE k = -2
  BY <1>1 DEF CutFile, Absent
<1>2. CASE k = -1
  <2>1. CutFile(f, k, torn) = [f EXCEPT !.hdr = "none", !.recs = <<>>]
    BY <1>2 DEF CutFile
  <2>2. [f EXCEPT !.hdr = "none", !.recs = <<>>].hdr = "none"
    BY DEF Files
  <2> QED BY <2>1, <2>2
<1>3. CASE k # -2 /\ k # -1
  <2>1. PICK kept : CutFile(f, k, torn) = [f EXCEPT !.recs = kept, !.dur = Len(kept)]
    BY <1>3 DEF CutFile
  <2>2. [f EXCEPT !.recs = kept, !.dur = Len(kept)].hdr = f.hdr
    BY DEF Files
  <2> QED BY <2>1, <2>2
<1> QED BY <1>1, <1>2, <1>3

\* A power cut: files that were not flushed are cut or vanish.
LEMMA PowerCutWriter ==
  ASSUME IInv, IInv', seen' = seen, PowerCut
  PROVE  WriterKeeps /\ Listing' \subseteq Listing
<1>1. disk \in [SegIds -> Files] /\ Unflushed \subseteq SegIds /\ wpc' = "down"
  BY DEF IInv, TypeOK, TypeDisk, Unflushed, Listing, PowerCut, NoWriter
<1>2. PICK keep \in [Unflushed -> (-2)..MaxRecs], torn \in [Unflushed -> BOOLEAN] :
        /\ \A u \in Unflushed : MayCut(disk[u], keep[u], torn[u])
        /\ disk' = [u \in SegIds |-> IF u \in Unflushed THEN CutFile(disk[u], keep[u], torn[u])
                                     ELSE disk[u]]
  BY DEF PowerCut
<1>3. ASSUME NEW s \in SegIds
      PROVE  /\ s \in Listing' => s \in Listing
             /\ disk'[s].hdr = "ok" => disk[s].hdr = "ok"
             /\ \A i \in DOMAIN disk'[s].recs :
                  \/ disk'[s].recs[i] <= 0
                  \/ i \in DOMAIN disk[s].recs /\ disk'[s].recs[i] = disk[s].recs[i]
  <2>1. CASE s \in Unflushed
    <3>1. PICK f \in Files, k \in Int : f = disk[s] /\ k = keep[s] /\ k >= -2
      <4>1. disk[s] \in Files /\ keep[s] \in (-2)..MaxRecs
        BY <1>1, <1>2, <2>1
      <4> QED BY <4>1, CountsAssumption
    <3>2. disk'[s] = CutFile(f, k, torn[s]) /\ MayCut(f, k, torn[s])
      BY <1>1, <1>2, <2>1, <3>1
    <3>3. CutFile(f, k, torn[s]).st = "live" => f.st = "live"
      BY <3>1, <3>2, CutFileFacts
    <3> QED BY <3>1, <3>2, <3>3, CutFileFacts, CutFileShrinks DEF Listing
  <2>2. CASE s \notin Unflushed
    <3>1. disk'[s] = disk[s]
      BY <1>2, <2>2
    <3> QED BY <3>1 DEF Listing
  <2> QED BY <2>1, <2>2
<1>4. ASSUME NEW s \in SegIds PROVE Shrunk(s)
  <2> SUFFICES ASSUME s \in Listing', disk'[s].hdr = "ok", NEW i \in DOMAIN disk'[s].recs,
                      \A j \in 1..i : disk'[s].recs[j] > 0, NEW j \in 1..i
               PROVE  j \in DOMAIN disk[s].recs /\ disk'[s].recs[j] = disk[s].recs[j]
    BY <1>3 DEF Shrunk
  <2>1. disk'[s].recs \in Seq(Frames)
    BY DEF IInv, TypeOK, TypeDisk, Files
  <2>2. j \in DOMAIN disk'[s].recs
    BY <2>1
  <2>3. disk'[s].recs[j] \in Int
    BY <2>1, <2>2, CountsAssumption DEF Frames
  <2> QED BY <1>3, <2>2, <2>3
<1>5. MarksStay
  BY <1>1, <1>4, EndMark DEF MarksStay, AllShrunk
<1>6. Listing' \subseteq Listing
  BY <1>3 DEF Listing
<1> QED BY <1>1, <1>5, <1>6 DEF WriterKeeps, Remains, NoneFits

\* Damage makes less readable, and spares the active segment.
LEMMA RotWriter ==
  ASSUME IInv, IInv', Remains, NoneFits, seen' = seen, RotFrame \/ RotHeader \/ RotCursor
  PROVE  WriterKeeps /\ Listing' = Listing
<1>1. disk \in [SegIds -> Files] /\ UNCHANGED <<len, active, pending, wpc>>
  BY DEF IInv, TypeOK, TypeDisk, RotFrame, RotHeader, RotCursor, memVars, loopVars
<1>2. ASSUME NEW s \in SegIds, AtRest(s), Shrunk(s), \A t \in SegIds \ {s} : disk'[t] = disk[t],
             disk'[s].st = disk[s].st
      PROVE  WriterKeeps /\ Listing' = Listing
  <2>1. \A t \in SegIds : disk'[t].st = disk[t].st
    BY <1>2
  <2>2. Listing' = Listing
    BY <2>1 DEF Listing
  <2>3. ASSUME NEW t \in SegIds, t # s PROVE Shrunk(t)
    <3>1. disk'[t] = disk[t] /\ (t \in Listing' => t \in Listing)
      BY <1>2, <2>2, <2>3
    <3>2. DOMAIN disk[t].recs = 1..Len(disk[t].recs) /\ Len(disk[t].recs) \in Nat
      BY FileFacts
    <3> QED BY <3>1, <3>2 DEF Shrunk
  <2>4. AllShrunk
    BY <1>2, <2>3 DEF AllShrunk
  <2>5. CASE wpc = "down"
    <3>1. MarksStay
      BY <1>1, <2>4, <2>5, EndMark DEF MarksStay
    <3> QED BY <1>1, <2>2, <2>5, <3>1 DEF WriterKeeps, Remains, NoneFits
  <2>6. CASE wpc # "down"
    <3>1. active \in SegIds /\ s # active
      BY <1>2, <2>6, AtRestFacts DEF IInv, Control
    <3>2. disk'[active].recs = disk[active].recs
      BY <1>2, <3>1
    <3>3. Calm /\ NoneAdded /\ Batch' = Batch
      BY <1>1, <2>6, <3>2, StillCalm, SameBatch
    <3>4. Remains' /\ NoneFits'
      BY <1>1, <3>3, CalmRemains DEF NoneFits
    <3>5. MarksStay
      BY <2>4, <3>3, CalmMark DEF MarksStay
    <3> QED BY <2>2, <3>4, <3>5 DEF WriterKeeps
  <2> QED BY <2>5, <2>6
<1>3. CASE RotCursor
  <2>1. disk' = disk /\ Listing' = Listing
    BY <1>3 DEF RotCursor, Listing
  <2>2. CASE wpc = "down"
    BY <1>1, <2>1, <2>2, ExitWriter
  <2>3. CASE wpc # "down"
    BY <1>1, <2>1, <2>3, StillKeeps DEF NoneFits
  <2> QED BY <2>1, <2>2, <2>3
<1>4. CASE RotHeader
  <2>1. PICK s \in SegIds : AtRest(s) /\ disk' = [disk EXCEPT ![s].hdr = "foreign"]
    BY <1>4 DEF RotHeader
  <2>2. disk'[s].hdr = "foreign" /\ disk'[s].st = disk[s].st /\ \A t \in SegIds \ {s} : disk'[t] = disk[t]
    BY <1>1, <2>1 DEF Files
  <2>3. Shrunk(s)
    BY <2>2 DEF Shrunk
  <2> QED BY <1>2, <2>1, <2>2, <2>3
<1>5. CASE RotFrame
  <2>0. PICK s \in SegIds : \E i \in 1..ValidCount(disk[s].recs) :
          AtRest(s) /\ disk[s].hdr = "ok" /\ disk' = [disk EXCEPT ![s].recs[i] = -disk[s].recs[i]]
    BY <1>5 DEF RotFrame
  <2>1. PICK i \in 1..ValidCount(disk[s].recs) :
          AtRest(s) /\ disk[s].hdr = "ok" /\ disk' = [disk EXCEPT ![s].recs[i] = -disk[s].recs[i]]
    BY <2>0
  <2>2. /\ disk[s].recs \in Seq(Frames) /\ DOMAIN disk[s].recs = 1..Len(disk[s].recs)
        /\ Len(disk[s].recs) \in Nat
    BY FileFacts
  <2>3. i \in DOMAIN disk[s].recs /\ disk[s].recs[i] > 0 /\ disk[s].recs[i] \in Int
    BY <2>2, ValidCountType, FileFacts
  <2>4. /\ disk'[s].recs = [disk[s].recs EXCEPT ![i] = -disk[s].recs[i]]
        /\ disk'[s].st = disk[s].st /\ \A t \in SegIds \ {s} : disk'[t] = disk[t]
    BY <1>1, <2>1 DEF Files
  <2>5. /\ DOMAIN disk'[s].recs = DOMAIN disk[s].recs /\ ~(disk'[s].recs[i] > 0)
        /\ \A j \in DOMAIN disk[s].recs : j # i => disk'[s].recs[j] = disk[s].recs[j]
    BY <2>3, <2>4
  <2>6. Shrunk(s)
    <3> SUFFICES ASSUME s \in Listing', NEW n \in DOMAIN disk'[s].recs,
                        \A j \in 1..n : disk'[s].recs[j] > 0
                 PROVE  /\ s \in Listing
                        /\ \A j \in 1..n : j \in DOMAIN disk[s].recs /\ disk'[s].recs[j] = disk[s].recs[j]
      BY <2>1 DEF Shrunk
    <3>1. s \in Listing
      BY <2>1 DEF AtRest
    <3>2. \A j \in 1..n : j \in DOMAIN disk[s].recs
      BY <2>2, <2>5
    <3> QED BY <2>5, <3>1, <3>2
  <2> QED BY <1>2, <2>1, <2>4, <2>6
<1> QED BY <1>3, <1>4, <1>5

\* Every step of the agent and of the disk but the start keeps the marks.
AgentOnly ==
  \/ Opening \/ AppendRecord \/ Tick \/ IdleTick \/ Close \/ Flushing \/ IoFails
  \/ Acking \/ TakeGaps \/ Crash \/ RotFrame \/ RotHeader \/ RotCursor

\* All these steps but the start: one lemma above for each.
LEMMA AgentWriter ==
  ASSUME IInv, IInv', Remains, NoneFits, seen' = seen, AgentOnly, ~OpenLoad
  PROVE  WriterKeeps
<1>1. CASE Opening
  BY <1>1, DeletionWriter, OpenKeepWriter, ExitsWriter DEF Opening
<1>2. CASE AppendRecord \/ Tick \/ IdleTick \/ Close
  BY <1>2, AppendWriter, QuietWriter, ExitsWriter
<1>3. CASE Flushing
  BY <1>3, OpenActiveWriter, WriteHeaderWriter, WritePartWriter, WriteBatchWriter, QuietWriter,
     DeletionWriter, DropPendingWriter, SealWriter, FinishWriter DEF Flushing
<1>4. CASE IoFails \/ Acking \/ TakeGaps
  BY <1>4, QuietWriter, ExitsWriter, DeletionWriter DEF Acking
<1>5. CASE Crash \/ RotFrame \/ RotHeader \/ RotCursor
  BY <1>5, ExitsWriter, RotWriter
<1> QED BY <1>1, <1>2, <1>3, <1>4, <1>5 DEF AgentOnly

-----------------------------------------------------------------------------
(* Steps of the agent and the reader's position.                           *)

\* How far a step of the agent moves the writer and the cursor.
LEMMA AgentMoves ==
  ASSUME IInv, AgentOnly
  PROVE  /\ wpc' = "acking" => wpc = "acking"
         /\ wpc' = "opening" => wpc \in {"down", "opening"}
         /\ acked' \in {acked, NoAck, LoadCursor}
         /\ cursor' # cursor => cursor # NoAck /\ cursor' = CorruptCursor
         /\ wpc # "down" /\ wpc' # "down" => active' = active \/ active' = active + 1
<1>1. CASE Opening
  BY <1>1 DEF Opening, OpenLoad, OpenDelete, OpenKeep, OpenFails, NoWriter, diskVars, memVars
<1>2. CASE AppendRecord \/ Tick \/ IdleTick \/ Close
  BY <1>2 DEF AppendRecord, Tick, IdleTick, Close, FlushStep, NoWriter, diskVars, memVars, loopVars
<1>3. CASE OpenActive \/ WriteHeader \/ WritePart \/ WriteBatch
  BY <1>3 DEF OpenActive, AfterOpen, WriteHeader, WritePart, WriteBatch, memVars
<1>4. CASE StartRotate \/ Evict \/ EvictFails \/ DropPending \/ RoomMade
  BY <1>4 DEF StartRotate, Evict, EvictFails, DropPending, RoomMade, diskVars, memVars, loopVars
<1>5. CASE Seal \/ SealExhausted \/ Finish
  BY <1>5 DEF Seal, NextSeq, SealExhausted, Finish, NoWriter
<1>6. CASE IoFails \/ Acking \/ TakeGaps
  BY <1>6 DEF IoFails, FlushFailed, NoWriter, Acking, AckDelete, AckDeleteFails, TakeGaps, diskVars,
     memVars, loopVars
<1>7. CASE Crash \/ RotFrame \/ RotHeader \/ RotCursor
  BY <1>7 DEF Crash, RotFrame, RotHeader, RotCursor, NoWriter, diskVars, memVars, loopVars
<1> QED BY <1>1, <1>2, <1>3, <1>4, <1>5, <1>6, <1>7 DEF AgentOnly, Flushing

\* Why segment t may leave the listing: open or ack deletes it behind the
\* cursor, or make_room deletes it, and the active one stays.
Leaves(t) ==
  /\ wpc' # "down" /\ active' = active /\ t < active
  /\ \/ wpc = "opening" /\ t < acked[1]
     \/ wpc = "acking"
     \/ wpc = "room" /\ active \in Listing'

\* What one deletion does to the listing.
LEMMA DeletedOne ==
  ASSUME IInv, NEW s \in SegIds, disk' = [disk EXCEPT ![s].st = "gone"]
  PROVE  Listing' = Listing \ {s}
<1>1. disk \in [SegIds -> Files]
  BY DEF IInv, TypeOK, TypeDisk
<1>2. \A t \in SegIds \ {s} : disk'[t] = disk[t]
  BY <1>1
<1>3. disk'[s].st = "gone"
  BY <1>1 DEF Files
<1> QED BY <1>2, <1>3 DEF Listing

\* A segment that leaves the listing was deleted behind the active one, by an
\* eviction or an ack, or by open behind the cursor.
LEMMA ListingStep ==
  ASSUME IInv, IInv', AgentOnly
  PROVE  \A t \in Listing : t \in Listing' \/ Leaves(t)
<1> SUFFICES ASSUME NEW t \in Listing, t \notin Listing' PROVE Leaves(t)
  OBVIOUS
<1>0. /\ t \in SegIds /\ disk \in [SegIds -> Files] /\ t \in Int
      /\ wpc # "down" => t <= active /\ active \in SegIds /\ active \in Int
  BY DEF Listing, IInv, TypeOK, TypeDisk, Numbers, Control, SegIds
<1>1. CASE UNCHANGED disk
  BY <1>1 DEF Listing
<1>2. CASE OpenDelete
  <2>1. PICK s \in SegIds : /\ Oldest(s, todo) /\ s < acked[1]
                            /\ disk' = [disk EXCEPT ![s].st = "gone"]
    BY <1>2 DEF OpenDelete
  <2>2. t = s
    BY <2>1, DeletedOne
  <2>3. wpc = "opening" /\ wpc' # "down" /\ active' = active
    BY <1>2 DEF OpenDelete, memVars
  <2>4. t < active
    BY <2>3 DEF IInv, Numbers
  <2> QED BY <2>1, <2>2, <2>3, <2>4 DEF Leaves
<1>3. CASE Evict
  <2>1. PICK s \in SegIds : Oldest(s, Victims) /\ disk' = [disk EXCEPT ![s].st = "gone"]
    BY <1>3 DEF Evict
  <2>2. Listing' = Listing \ {s} /\ t = s
    BY <2>1, DeletedOne
  <2>3. wpc = "room" /\ wpc' # "down" /\ active' = active
    BY <1>3 DEF Evict, loopVars
  <2>4. active \in Listing
    BY <2>3 DEF IInv, Control, ActiveFile
  <2>5. s # active
    BY <2>1 DEF Oldest, Victims, Sealed
  <2>6. t < active /\ active \in Listing'
    BY <1>0, <2>2, <2>3, <2>4, <2>5
  <2> QED BY <2>3, <2>6 DEF Leaves
<1>4. CASE AckDelete
  <2>1. PICK s \in SegIds : Oldest(s, todo) /\ disk' = [disk EXCEPT ![s].st = "gone"]
    BY <1>4 DEF AckDelete
  <2>2. t = s
    BY <2>1, DeletedOne
  <2>3. wpc = "acking" /\ wpc' # "down" /\ active' = active
    BY <1>4 DEF AckDelete
  <2>4. s # active
    BY <2>1, <2>3 DEF IInv, Control, Oldest
  <2>5. t < active
    BY <1>0, <2>2, <2>3, <2>4
  <2> QED BY <2>3, <2>5 DEF Leaves
<1>5. CASE OpenKeep
  <2>1. PICK s \in SegIds : disk' = [disk EXCEPT ![s] = Repair(s)]
    BY <1>5 DEF OpenKeep
  <2>2. disk'[t].st = disk[t].st
    BY <1>0, <2>1, RepairType
  <2> QED BY <1>0, <2>2 DEF Listing
<1>6. CASE OpenActive \/ WriteHeader \/ WritePart \/ WriteBatch
  <2>1. disk[t].st = "live" /\ disk[t] \in Files /\ active \in SegIds
    BY <1>0, <1>6 DEF Listing, OpenActive, WriteHeader, WritePart, WriteBatch
  <2>2. PICK f : disk' = [disk EXCEPT ![active] = f] /\ (disk[active].st = "live" => f.st = "live")
    <3>1. ASSUME NEW q, disk[active] \in Files
          PROVE  [disk[active] EXCEPT !.recs = q].st = disk[active].st
      BY <3>1 DEF Files
    <3>2. disk[active] \in Files
      BY <1>0, <2>1
    <3>3. CASE OpenActive
      <4>1. CASE len[active] < 0
        <5>1. PICK f : f = [st |-> "live", hdr |-> "none", recs |-> <<>>, dur |-> -1]
          OBVIOUS
        <5>2. disk' = [disk EXCEPT ![active] = f] /\ f.st = "live"
          BY <3>3, <4>1, <5>1 DEF OpenActive
        <5> QED BY <5>2
      <4>2. CASE ~(len[active] < 0)
        BY <3>1, <3>2, <3>3, <4>2 DEF OpenActive
      <4> QED BY <4>1, <4>2
    <3>4. CASE WriteHeader
      <4>1. [disk[active] EXCEPT !.hdr = "ok"].st = disk[active].st
        BY <3>2 DEF Files
      <4>2. disk' = [disk EXCEPT ![active] = [disk[active] EXCEPT !.hdr = "ok"]]
        BY <3>4 DEF WriteHeader
      <4> QED BY <4>1, <4>2
    <3>5. CASE WritePart \/ WriteBatch
      <4>1. PICK q : disk' = [disk EXCEPT ![active].recs = q]
        BY <3>5, Zenon DEF WritePart, WriteBatch
      <4>2. disk' = [disk EXCEPT ![active] = [disk[active] EXCEPT !.recs = q]]
        BY <4>1
      <4> QED BY <3>1, <3>2, <4>2
    <3> QED BY <1>6, <3>3, <3>4, <3>5
  <2>3. disk'[t].st = "live"
    BY <1>0, <2>1, <2>2
  <2> QED BY <1>0, <2>3 DEF Listing
<1>7. CASE Seal \/ SealExhausted \/ Finish
  <2>1. wpc # "down" /\ (disk' = SyncFile(active) \/ disk' = disk)
    BY <1>7 DEF Seal, SealExhausted, Finish
  <2> QED BY <2>1, SyncedFiles
<1>8. CASE RotFrame \/ RotHeader
  <2>1. disk'[t].st = disk[t].st
    BY ZenonT(30), <1>0, <1>8 DEF RotFrame, RotHeader, Files
  <2> QED BY <1>0, <2>1 DEF Listing
<1>9. AgentOnly => \/ UNCHANGED disk \/ OpenDelete \/ Evict \/ AckDelete \/ OpenKeep
                   \/ OpenActive \/ WriteHeader \/ WritePart \/ WriteBatch
                   \/ Seal \/ SealExhausted \/ Finish \/ RotFrame \/ RotHeader
  BY DEF AgentOnly, Opening, OpenLoad, OpenFails, AppendRecord, Tick, IdleTick, Close, Flushing,
     StartRotate, EvictFails, DropPending, RoomMade, IoFails, Acking, AckDeleteFails, TakeGaps,
     Crash, RotCursor, diskVars
<1> QED BY <1>1, <1>2, <1>3, <1>4, <1>5, <1>6, <1>7, <1>8, <1>9

\* What the reader knows to be sealed stays sealed.
LEMMA PastKept ==
  ASSUME IInv, IInv', AgentOnly, ReaderControl, rpc # "off", external' = external,
         ~external => wpc' # "down", NEW s \in SegIds
  PROVE  /\ Past(s) => Past(s)'
         /\ s \in Listing /\ s \notin Listing' => Past(s)'
<1>1. s \in Int /\ \A t \in Listing : t \in SegIds /\ t \in Int
  BY DEF SegIds, Listing
<1>2. CASE external
  <2>1. ASSUME NEW t \in Listing, t \notin Listing'
        PROVE  active \in Listing' /\ t < active /\ active \in Int
    <3>1. Leaves(t)
      BY <2>1, ListingStep
    <3>2. acked[1] = 0 /\ wpc # "acking"
      BY <1>2 DEF ReaderControl, NoAck
    <3>3. wpc = "room" /\ active \in Listing' /\ t < active
      BY <1>1, <3>1, <3>2 DEF Leaves, SegIds
    <3> QED BY <3>3 DEF IInv, TypeOK, TypeMem
  <2>2. Past(s) => Past(s)'
    BY <1>1, <1>2, <2>1 DEF Past
  <2>3. s \in Listing /\ s \notin Listing' => Past(s)'
    BY <1>1, <1>2, <2>1 DEF Past
  <2> QED BY <2>2, <2>3
<1>3. CASE ~external
  <2>1. wpc # "down" /\ wpc' # "down"
    BY <1>3 DEF ReaderControl
  <2>2. active' = active \/ active' = active + 1
    BY <2>1, AgentMoves
  <2>3. active \in Int
    BY DEF IInv, TypeOK, TypeMem
  <2>4. s \in Listing /\ s \notin Listing' => s < active
    BY ListingStep DEF Leaves
  <2> QED BY <1>1, <1>3, <2>2, <2>3, <2>4 DEF Past
<1> QED BY <1>2, <1>3

\* The agent's steps leave the reader's position sound, or end a transport.
LEMMA AgentPosition ==
  ASSUME IInv, IInv', RTypeOK, ReaderControl, Position, AgentStep
  PROVE  ReaderControl' /\ Position'
<1>1. AgentOnly
  BY DEF AgentStep, AgentOnly
<1>2. CASE NoReader /\ ~external
  <2>1. rpc' = "off" /\ pos' = <<0, 0>> /\ rnext' = NoAck /\ ~external' /\ ~rsealed'
    BY <1>2 DEF NoReader
  <2> QED BY <2>1 DEF ReaderControl, Position, InFile
<1>3. CASE UNCHANGED readerVars /\ (wpc' = "down" /\ wpc # "down" => external)
  <2>1. UNCHANGED <<external, rpc, pos, rsealed, rnext>>
    BY <1>3 DEF readerVars
  <2>2. external => acked' = NoAck /\ cursor' = NoAck /\ wpc' # "acking"
    BY <1>1, AgentMoves DEF ReaderControl, LoadCursor, CorruptCursor, NoAck
  <2>3. ~external /\ rpc # "off" => wpc' \notin {"down", "opening"}
    BY <1>1, <1>3, AgentMoves DEF ReaderControl
  <2>4. ReaderControl'
    BY <2>1, <2>2, <2>3 DEF ReaderControl, InFile
  <2>5. ASSUME rpc # "off", NEW s \in SegIds
        PROVE  /\ Past(s) => Past(s)'
               /\ s \in Listing /\ s \notin Listing' => Past(s)'
    BY <1>1, <2>1, <2>3, <2>5, PastKept
  <2>0. PICK p \in Int : p = pos[1] /\ p = pos'[1]
    BY <2>1, CountsAssumption DEF RTypeOK
  <2>6. InFile \/ rpc = "open" => p \in SegIds /\ rpc # "off"
    BY <2>0 DEF ReaderControl, InFile
  <2>7. rpc = "again" \/ (rsealed /\ rpc \in {"open", "header"}) => Past(p)'
    BY <2>0, <2>5, <2>6 DEF Position, InFile
  <2>8. InFile /\ p \notin Listing' => Past(p)'
    BY <2>0, <2>5, <2>6 DEF Position
  <2>9. external /\ p # 0 => \E t \in Listing' : t >= p
    <3> SUFFICES ASSUME external, p # 0 PROVE \E t \in Listing' : t >= p
      OBVIOUS
    <3>1. PICK t \in Listing : t >= p
      BY <2>0 DEF Position
    <3>2. rpc # "off"
      <4>1. rpc = "off" => pos = <<0, 0>>
        BY DEF ReaderControl
      <4>2. pos = <<0, 0>> => pos[1] = 0
        OBVIOUS
      <4> QED BY <2>0, <4>1, <4>2
    <3>3. t \in SegIds
      BY DEF Listing
    <3>4. CASE t \in Listing'
      BY <3>1, <3>4
    <3>5. CASE t \notin Listing'
      <4>1. Past(t)'
        BY <2>5, <3>2, <3>3, <3>5
      <4>2. PICK u \in Listing' : u > t
        BY <2>1, <4>1 DEF Past
      <4>3. u \in Int /\ t \in Int
        BY <3>3 DEF Listing, SegIds
      <4> QED BY <3>1, <4>2, <4>3
    <3> QED BY <3>4, <3>5
  <2>10. Position'
    <3>1. Past(pos[1])' <=> Past(p)'
      BY <2>0, Zenon DEF Past
    <3> QED BY <2>0, <2>1, <2>7, <2>8, <2>9, <3>1 DEF Position, InFile
  <2> QED BY <2>4, <2>10
<1> QED BY <1>2, <1>3 DEF AgentStep

-----------------------------------------------------------------------------
(* Steps of the agent and the reader's marks.                              *)

\* The marks are cursors.
LEMMA MarkTypes ==
  ASSUME IInv, RTypeOK
  PROVE  MarkSet \subseteq Cursors /\ NoAck \in Cursors
<1>1. MaxSeg \in Nat /\ NoAck \in Cursors
  BY CountsAssumption DEF NoAck, Cursors
<1>2. pos \in Cursors
  BY DEF RTypeOK, Cursors
<1>3. ASSUME NEW c \in (0..MaxSeg) \X Nat PROVE c \in Cursors
  BY <1>1 DEF Cursors
<1>4. rnext \in (0..MaxSeg) \X Nat /\ acked \in (0..MaxSeg) \X Nat
  BY DEF RTypeOK, IInv, TypeOK, TypeMem
<1>5. LoadCursor \in (0..MaxSeg) \X Nat
  BY <1>1 DEF LoadCursor, NoAck, IInv, TypeOK, TypeDisk
<1> QED BY <1>1, <1>2, <1>3, <1>4, <1>5 DEF MarkSet

\* Nothing is before the start.
LEMMA NoAckMark ==
  ASSUME IInv'
  PROVE  MarkOK(NoAck)'
<1>1. ASSUME NEW s \in SegIds, NEW i PROVE ~Before(<<s, i>>, NoAck)
  <2>1. s \in Int /\ s > 0
    BY DEF SegIds
  <2> QED BY <2>1 DEF Before, NoAck
<1>2. Covered(NoAck)'
  BY <1>1 DEF Covered
<1>3. wpc' # "down" => active' \in SegIds
  BY DEF IInv, Control
<1>4. wpc' # "down" => active' \in Int /\ active' > 0
  BY <1>3 DEF SegIds
<1>5. wpc' # "down" => 0 <= active' /\ 0 # active'
  BY <1>4
<1>6. NoAck[1] = 0
  BY DEF NoAck
<1> QED BY <1>2, <1>5, <1>6 DEF MarkOK

\* The agent moves no mark but back to the start or to the cursor.
LEMMA AgentMarkSet ==
  ASSUME IInv, RTypeOK, AgentOnly, \/ UNCHANGED <<external, pos, rnext>>
                                   \/ UNCHANGED external /\ pos' = NoAck /\ rnext' = NoAck
  PROVE  MarkSet' \subseteq MarkSet \cup {NoAck}
<1>1. acked' \in {acked, NoAck, LoadCursor} /\ (cursor' = cursor \/ cursor' = CorruptCursor)
  BY AgentMoves
<1>2. LoadCursor' \in {LoadCursor, NoAck}
  BY <1>1 DEF LoadCursor
<1> QED BY <1>1, <1>2 DEF MarkSet

\* Every step of the agent keeps the marks and the remains.
LEMMA AgentMarks ==
  ASSUME IInv, IInv', RTypeOK, ReaderControl, Position, Remains, NoneFits, Marks, AgentStep
  PROVE  Marks' /\ Remains' /\ NoneFits'
<1>1. AgentOnly
  BY DEF AgentStep, AgentOnly
<1>2. \/ UNCHANGED readerVars
      \/ NoReader
  BY DEF AgentStep
<1>3. /\ seen' = seen
      /\ \/ UNCHANGED <<external, pos, rnext>>
         \/ UNCHANGED external /\ pos' = NoAck /\ rnext' = NoAck
  BY <1>2 DEF NoReader, readerVars, NoAck
<1>4. MarkSet' \subseteq MarkSet \cup {NoAck} /\ MarkSet \subseteq Cursors /\ MarkOK(NoAck)'
  BY <1>1, <1>3, AgentMarkSet, MarkTypes, NoAckMark
<1>5. CASE ~OpenLoad
  <2>1. WriterKeeps
    BY <1>1, <1>3, <1>5, AgentWriter
  <2>2. ASSUME NEW c \in MarkSet' PROVE MarkOK(c)'
    BY <1>4, <2>1, <2>2 DEF Marks, WriterKeeps, MarksStay
  <2> QED BY <2>1, <2>2 DEF Marks, WriterKeeps
<1>6. CASE OpenLoad
  <2>1. /\ Remains' /\ NoneFits' /\ active' \in SegIds
        /\ \A t \in Listing : t < active'
        /\ LoadCursor[1] < active' /\ acked' = LoadCursor /\ cursor' = cursor
        /\ \A c \in Cursors : MarkOK(c) /\ c[1] < active' => MarkOK(c)'
    BY <1>3, <1>6, LoadWriter
  <2>2. wpc = "down" /\ active' > 0 /\ active' \in Int
    BY <1>6, <2>1 DEF OpenLoad, SegIds
  <2>3. ASSUME external PROVE pos[1] < active'
    <3>1. CASE pos[1] = 0
      BY <2>2, <3>1
    <3>2. CASE pos[1] # 0
      <4>1. PICK t \in Listing : t >= pos[1]
        BY <2>3, <3>2 DEF Position
      <4>2. t \in Int /\ pos[1] \in Int /\ t < active'
        BY <2>1, CountsAssumption DEF Listing, SegIds, RTypeOK
      <4> QED BY <2>2, <4>1, <4>2
    <3> QED BY <3>1, <3>2
  <2>4. ASSUME ~external PROVE pos = NoAck /\ rnext = NoAck
    <3>1. rpc = "off"
      BY <2>2, <2>4 DEF ReaderControl
    <3> QED BY <3>1 DEF ReaderControl, NoAck
  <2>5. NoAck[1] < active'
    BY <2>2 DEF NoAck
  <2>6. LoadCursor' = LoadCursor
    BY <2>1 DEF LoadCursor
  <2>7. ASSUME NEW c \in MarkSet' PROVE c = NoAck \/ (c \in MarkSet /\ c[1] < active')
    <3>1. c = NoAck \/ c = LoadCursor \/ c = pos \/ (~external /\ c = rnext)
      BY <1>3, <2>1, <2>6, <2>7 DEF MarkSet
    <3> QED BY <2>1, <2>3, <2>4, <2>5, <3>1 DEF MarkSet
  <2>8. ASSUME NEW c \in MarkSet' PROVE MarkOK(c)'
    <3>1. CASE c = NoAck
      BY <1>4, <3>1
    <3>2. CASE c \in MarkSet /\ c[1] < active'
      BY <1>4, <2>1, <3>2 DEF Marks
    <3> QED BY <2>7, <2>8, <3>1, <3>2
  <2> QED BY <2>1, <2>8 DEF Marks
<1> QED BY <1>5, <1>6

-----------------------------------------------------------------------------
(* The end of the machine, and steps of the reader.                        *)

\* A power cut ends the reader too and keeps the persisted cursor's mark.
LEMMA MachineEndsReader ==
  ASSUME IInv, IInv', RTypeOK, ReaderControl, Marks, MachineEnds
  PROVE  ReaderControl' /\ Position' /\ Remains' /\ NoneFits' /\ Marks'
<1>1. /\ rpc' = "off" /\ pos' = NoAck /\ rnext' = NoAck /\ ~rsealed' /\ UNCHANGED <<external, seen>>
      /\ wpc' = "down" /\ acked' = NoAck /\ cursor' = cursor
  BY DEF MachineEnds, NoReader, PowerCut, NoWriter, NoAck
<1>2. WriterKeeps
  BY <1>1, PowerCutWriter DEF MachineEnds
<1>3. ReaderControl'
  BY <1>1 DEF ReaderControl, NoAck, InFile
<1>4. pos'[1] = 0
  BY <1>1 DEF NoAck
<1>5. Position'
  BY <1>1, <1>4 DEF Position, InFile
<1>6. LoadCursor' = LoadCursor
  BY <1>1 DEF LoadCursor
<1>7. MarkSet' \subseteq MarkSet \cup {NoAck} /\ MarkSet \subseteq Cursors /\ MarkOK(NoAck)'
  BY <1>1, <1>6, MarkTypes, NoAckMark DEF MarkSet
<1>8. ASSUME NEW c \in MarkSet' PROVE MarkOK(c)'
  BY <1>2, <1>7, <1>8 DEF WriterKeeps, MarksStay, Marks
<1> QED BY <1>2, <1>3, <1>5, <1>8 DEF WriterKeeps, Marks

\* A step of the reader leaves the writer's part of the invariant alone.
LEMMA StillWriter ==
  ASSUME IInv, Keeps, Remains, NoneFits, UNCHANGED vars, seen \subseteq seen'
  PROVE  /\ IInv' /\ Keeps' /\ Remains' /\ NoneFits' /\ Listing' = Listing
         /\ \A c \in Cursors : MarkOK(c) => MarkOK(c)'
<1>1. IInv' /\ Keeps'
  BY NextInv, QuietStepsKeep
<1>2. /\ UNCHANGED <<disk, wpc, len, active, pending>> /\ Listing' = Listing
  BY DEF vars, diskVars, memVars, loopVars, Listing
<1>3. AllShrunk
  BY <1>2, SameFrames
<1>4. CASE wpc = "down"
  <2>1. \A c \in Cursors : MarkOK(c) => MarkOK(c)'
    BY <1>1, <1>2, <1>3, <1>4, EndMark
  <2> QED BY <1>1, <1>2, <1>4, <2>1 DEF Remains, NoneFits
<1>5. CASE wpc # "down"
  <2>1. Calm /\ NoneAdded /\ Batch' = Batch
    BY <1>2, <1>5, StillCalm, SameBatch
  <2>2. Remains' /\ NoneFits'
    BY <1>1, <1>2, <2>1, CalmRemains DEF NoneFits
  <2>3. \A c \in Cursors : MarkOK(c) => MarkOK(c)'
    BY <1>1, <1>3, <2>1, CalmMark
  <2> QED BY <1>1, <1>2, <2>2, <2>3
<1> QED BY <1>4, <1>5

\* Reader::open starts at the oldest segment, or at the cursor in memory.
LEMMA StartReaderStep ==
  ASSUME IInv, Keeps, RTypeOK, ReaderControl, Position, Remains, NoneFits, Marks, StartReader
  PROVE  ReaderControl' /\ Position' /\ Marks'
<1>1. /\ rpc' = "list" /\ UNCHANGED <<external, rsealed, rnext, seen, acked, cursor, wpc>>
      /\ UNCHANGED vars
      /\ pos' = IF external THEN NoAck ELSE acked
      /\ external \/ wpc \notin {"down", "opening"}
  BY DEF StartReader, NoAck, vars, diskVars, memVars, loopVars
<1>2. /\ IInv' /\ Listing' = Listing /\ \A c \in Cursors : MarkOK(c) => MarkOK(c)'
  BY <1>1, StillWriter
<1>3. ReaderControl'
  BY <1>1 DEF ReaderControl, InFile
<1>4. external => pos'[1] = 0
  BY <1>1 DEF NoAck
<1>5. Position'
  BY <1>1, <1>4 DEF Position, InFile
<1>6. LoadCursor' = LoadCursor
  BY <1>1 DEF LoadCursor
<1>7. MarkSet' \subseteq MarkSet \cup {NoAck} /\ MarkSet \subseteq Cursors /\ MarkOK(NoAck)'
  BY <1>1, <1>2, <1>6, MarkTypes, NoAckMark DEF MarkSet
<1>8. ASSUME NEW c \in MarkSet' PROVE MarkOK(c)'
  BY <1>2, <1>7, <1>8 DEF Marks
<1> QED BY <1>3, <1>5, <1>8 DEF Marks

\* A step that moves the position and nothing else keeps the marks when the
\* new position is one.
LEMMA PositionMarks ==
  ASSUME IInv, Keeps, RTypeOK, Remains, NoneFits, Marks, UNCHANGED <<vars, external>>, seen \subseteq seen',
         \/ UNCHANGED rnext \/ rnext' = pos', pos' \in Cursors, NEW c, c = pos', MarkOK(c)'
  PROVE  Marks'
<1>1. \A d \in Cursors : MarkOK(d) => MarkOK(d)'
  BY StillWriter
<1>2. acked' = acked /\ LoadCursor' = LoadCursor /\ UNCHANGED external
  BY DEF vars, diskVars, memVars, LoadCursor
<1>3. MarkSet' \subseteq MarkSet \cup {c} /\ MarkSet \subseteq Cursors
  BY <1>2, MarkTypes DEF MarkSet
<1>4. ASSUME NEW d \in MarkSet' PROVE MarkOK(d)'
  BY <1>1, <1>3, <1>4 DEF Marks
<1> QED BY <1>4 DEF Marks

\* The smallest number of a set, as enter_segment takes it.
LEMMA MinOfNumbers ==
  ASSUME NEW S \in SUBSET Nat, S # {}
  PROVE  Min(S) \in S /\ \A x \in S : Min(S) <= x
<1>1. IsWellFoundedOn(OpToRel(<, Nat), Nat)
  BY NatLessThanWellFounded
<1>2. PICK x \in S : TRUE
  OBVIOUS
<1>3. PICK m \in S : \A y \in S : ~(<<y, m>> \in OpToRel(<, Nat))
  BY <1>1, <1>2, WFMin
<1>4. \A y \in S : m <= y
  <2> SUFFICES ASSUME NEW y \in S PROVE m <= y
    OBVIOUS
  <2>1. ~(y < m)
    BY <1>3 DEF OpToRel
  <2> QED BY <2>1
<1> QED BY <1>4 DEF Min

\* Seen from the files or from the writer, a sealed segment is not the active one.
LEMMA SealedPast ==
  ASSUME IInv, ReaderControl, rpc # "off", NEW s \in SegIds
  PROVE  /\ Past(s) /\ wpc # "down" => s < active
         /\ (\E t \in Listing : t > s) => Past(s)
<1>1. s \in Int /\ \A t \in Listing : t \in Int /\ t \in SegIds
  BY DEF SegIds, Listing
<1>2. wpc # "down" => active \in Int /\ \A t \in Listing : t <= active
  BY DEF IInv, TypeOK, TypeMem, Numbers
<1>3. ~external => wpc # "down"
  BY DEF ReaderControl
<1> QED BY <1>1, <1>2, <1>3 DEF Past

\* The position after a sealed segment with nothing left to read.
LEMMA SkipMark ==
  ASSUME IInv, ReaderControl, rpc # "off", NEW p \in SegIds, NEW n \in Nat, MarkOK(<<p, n>>), Past(p),
         \A i \in Nat : i >= n => ~ReadableAt(p, i)
  PROVE  MarkOK(<<p + 1, 0>>)
<1>1. p \in Int /\ p + 1 \in Int
  BY DEF SegIds
<1>2. ASSUME NEW s \in SegIds, NEW i \in DOMAIN disk[s].recs, ReadableAt(s, i),
             Before(<<s, i>>, <<p + 1, 0>>)
      PROVE  disk[s].recs[i] \in seen
  <2>1. i \in Nat /\ i > 0 /\ s \in Int
    BY FileFacts DEF SegIds
  <2>2. s < p + 1 \/ (s = p + 1 /\ i < 0)
    BY <1>2 DEF Before
  <2>3. s < p \/ (s = p /\ i < n)
    BY <1>1, <1>2, <2>1, <2>2
  <2>4. Before(<<s, i>>, <<p, n>>)
    BY <2>3 DEF Before
  <2> QED BY <1>2, <2>4 DEF MarkOK, Covered
<1>3. ASSUME wpc # "down" PROVE p + 1 <= active
  <2>1. p < active /\ active \in Int
    BY <1>3, SealedPast DEF IInv, TypeOK, TypeMem
  <2> QED BY <1>1, <2>1
<1> QED BY <1>2, <1>3 DEF MarkOK, Covered

\* The first segment after a position has only deleted ones before it.
LEMMA EnterMark ==
  ASSUME IInv, NEW p \in Int, NEW n \in Nat, MarkOK(<<p, n>>), NEW s \in Listing, s > p,
         \A t \in Listing : t >= p => t >= s
  PROVE  MarkOK(<<s, 0>>)
<1>1. s \in SegIds /\ s \in Int
  BY DEF SegIds, Listing
<1>2. ASSUME NEW t \in SegIds, NEW i \in DOMAIN disk[t].recs, ReadableAt(t, i),
             Before(<<t, i>>, <<s, 0>>)
      PROVE  disk[t].recs[i] \in seen
  <2>1. i \in Nat /\ i > 0 /\ t \in Int /\ t \in Listing
    BY <1>2, FileFacts DEF SegIds, ReadableAt
  <2>2. t < s \/ (t = s /\ i < 0)
    BY <1>2 DEF Before
  <2>3. t < s
    BY <2>1, <2>2
  <2>4. t < p
    BY <1>1, <2>1, <2>3
  <2>5. Before(<<t, i>>, <<p, n>>)
    BY <2>4 DEF Before
  <2> QED BY <1>2, <2>5 DEF MarkOK, Covered
<1>3. wpc # "down" => s <= active
  BY DEF IInv, Numbers
<1> QED BY <1>2, <1>3 DEF MarkOK, Covered

\* Past the header there is still nothing delivered.
LEMMA HeaderMark ==
  ASSUME IInv, NEW p \in Int, MarkOK(<<p, 0>>)
  PROVE  MarkOK(<<p, 1>>)
<1>1. ASSUME NEW s \in SegIds, NEW i \in DOMAIN disk[s].recs, ReadableAt(s, i),
             Before(<<s, i>>, <<p, 1>>)
      PROVE  disk[s].recs[i] \in seen
  <2>1. i \in Nat /\ i > 0 /\ s \in Int
    BY FileFacts DEF SegIds
  <2>2. s < p \/ (s = p /\ i < 1)
    BY <1>1 DEF Before
  <2>3. s < p
    BY <2>1, <2>2
  <2>4. Before(<<s, i>>, <<p, 0>>)
    BY <2>3 DEF Before
  <2> QED BY <1>1, <2>4 DEF MarkOK, Covered
<1> QED BY <1>1 DEF MarkOK, Covered

\* What is delivered past the writer's length is what the next write puts there.
LEMMA DeliverMark ==
  ASSUME IInv, ReaderControl, Position, Remains, InFile, NEW p \in SegIds, NEW n \in Nat \ {0},
         pos = <<p, n>>, MarkOK(pos), AtRecord
  PROVE  /\ wpc # "down" => p <= active
         /\ wpc # "down" /\ p = active =>
              \A j \in 1..n : j > len[active] =>
                InBatch(j) /\ (Rewritten(j) \in seen \/ Rewritten(j) = disk[p].recs[n])
<1>1. n \in DOMAIN disk[p].recs /\ disk[p].recs[n] > 0 /\ pos[1] = p /\ pos[2] = n
  BY DEF AtRecord
<1>2. wpc # "down" => p <= active
  BY <1>1 DEF MarkOK
<1>3. ASSUME wpc # "down", p = active, NEW j \in 1..n, j > len[active]
      PROVE  InBatch(j) /\ (Rewritten(j) \in seen \/ Rewritten(j) = disk[p].recs[n])
  <2>1. CASE j # n
    <3>1. j \in 1..(n - 1)
      BY <2>1
    <3> QED BY <1>1, <1>3, <3>1 DEF MarkOK
  <2>2. CASE j = n
    <3>1. p \in Listing
      <4>1. ASSUME Past(p), p \notin Listing PROVE FALSE
        <5>1. rpc # "off"
          BY DEF InFile
        <5> QED BY <1>3, <4>1, <5>1, SealedPast DEF SegIds
      <4> QED BY <1>1, <4>1 DEF Position
    <3>2. len[active] >= 0
      <4>1. len[active] \in Int
        BY <1>3 DEF IInv, TypeOK, TypeMem
      <4>2. len[active] < 0 => disk[active].recs = <<>>
        BY <1>3, <3>1 DEF IInv, ActiveFile
      <4> QED BY <1>1, <1>3, <4>1, <4>2
    <3> QED BY <1>1, <1>3, <2>2, <3>2 DEF Remains
  <2> QED BY <2>1, <2>2
<1> QED BY <1>2, <1>3

-----------------------------------------------------------------------------
(* The steps of next_record.                                               *)

\* The position as a pair.
LEMMA PositionForm ==
  ASSUME RTypeOK
  PROVE  \E p \in 0..MaxSeg + 1 : \E n \in Nat : pos = <<p, n>>
BY DEF RTypeOK

\* When a new position is sound.
LEMMA NewPosition ==
  ASSUME NEW p, pos'[1] = p, UNCHANGED <<vars, external>>,
         external /\ p # 0 => \E t \in Listing : t >= p,
         rpc' = "again" \/ (rsealed' /\ rpc' \in {"open", "header"}) => Past(p),
         InFile' /\ p \notin Listing => Past(p)
  PROVE  Position'
<1>1. Listing' = Listing /\ active' = active /\ external' = external
  BY DEF Listing, vars, diskVars, memVars
<1>2. Past(p)' <=> Past(p)
  BY <1>1 DEF Past
<1>3. Past(pos[1])' <=> Past(p)'
  BY Zenon DEF Past
<1>4. external' /\ p # 0 => \E t \in Listing' : t >= p
  BY <1>1
<1> QED BY <1>1, <1>2, <1>3, <1>4 DEF Position

\* enter_segment moves to the first segment at or after the position.
LEMMA ListStep ==
  ASSUME Sound, ListSegments
  PROVE  ReaderControl' /\ Position' /\ Marks' /\ RTypeOK'
<1>0. /\ IInv /\ Keeps /\ RTypeOK /\ ReaderControl /\ Position /\ Remains /\ NoneFits /\ Marks
      /\ rpc = "list" /\ rpc' = "open"
      /\ UNCHANGED <<vars, external, rnext, rlast, seen, rcorrupt>>
  BY DEF Sound, ListSegments
<1>1. PICK p \in 0..MaxSeg + 1 : \E n \in Nat : pos = <<p, n>>
  BY <1>0, PositionForm
<1>2. PICK n \in Nat : pos = <<p, n>>
  BY <1>1
<1>3. PICK s : s = Min({t \in Listing : t >= p})
  OBVIOUS
<1>4. /\ pos[1] = p /\ \E t \in Listing : t >= p
      /\ pos' = IF s > p THEN <<s, 0>> ELSE pos
      /\ rsealed' = (\E t \in Listing : t > s)
  BY <1>2, <1>3 DEF ListSegments
<1>5. s \in Listing /\ s >= p /\ \A t \in Listing : t >= p => t >= s
  <2>1. {t \in Listing : t >= p} \in SUBSET Nat
    BY DEF Listing, SegIds
  <2>2. {t \in Listing : t >= p} # {}
    BY <1>4
  <2>3. s \in {t \in Listing : t >= p} /\ \A x \in {t \in Listing : t >= p} : s <= x
    BY <1>3, <2>1, <2>2, MinOfNumbers
  <2>4. s \in Int /\ \A t \in Listing : t \in Int
    BY <2>3 DEF Listing, SegIds
  <2> QED BY <2>3, <2>4
<1>6. s \in SegIds /\ s \in Int /\ p \in Int /\ MaxSeg \in Nat
  BY <1>1, <1>5, CountsAssumption DEF Listing, SegIds
<1>7. PICK c \in Cursors : c = pos' /\ c[1] = s /\ MarkOK(c)
  <2>1. MarkOK(<<p, n>>)
    BY <1>0, <1>2 DEF Marks, MarkSet
  <2>2. CASE s > p
    <3>1. MarkOK(<<s, 0>>)
      BY <1>0, <1>5, <1>6, <2>1, <2>2, EnterMark
    <3>2. <<s, 0>> \in Cursors
      BY <1>6 DEF Cursors, SegIds
    <3> QED BY <1>4, <2>2, <3>1, <3>2
  <2>3. CASE ~(s > p)
    <3>1. s = p /\ <<p, n>> \in Cursors
      BY <1>1, <1>5, <1>6, <2>3 DEF Cursors
    <3> QED BY <1>2, <1>4, <2>1, <2>3, <3>1
  <2> QED BY <2>2, <2>3
<1>8. Marks'
  <2>1. MarkOK(c)'
    BY <1>0, <1>7, StillWriter
  <2> QED BY <1>0, <1>7, <2>1, PositionMarks
<1>9. Position'
  <2>1. rsealed' => Past(s)
    BY <1>0, <1>4, <1>6, SealedPast
  <2>2. external /\ s # 0 => \E t \in Listing : t >= s
    BY <1>5, <1>6
  <2>3. pos'[1] = s /\ ~InFile' /\ rpc' # "again" /\ UNCHANGED <<vars, external>>
    BY <1>0, <1>7 DEF InFile
  <2> QED BY <2>1, <2>2, <2>3, NewPosition
<1>10. ReaderControl'
  <2>1. UNCHANGED <<acked, cursor, wpc, external>> /\ pos'[1] \in SegIds
    BY <1>0, <1>6, <1>7 DEF vars, diskVars, memVars, loopVars
  <2> QED BY <1>0, <2>1 DEF ReaderControl, InFile
<1>11. RTypeOK'
  <2>1. TypeOK' /\ rsealed' \in BOOLEAN
    BY <1>0, <1>4, StillWriter DEF IInv
  <2>2. pos' \in (0..MaxSeg + 1) \X Nat
    BY <1>7 DEF Cursors
  <2> QED BY <1>0, <2>1, <2>2 DEF RTypeOK
<1> QED BY <1>8, <1>9, <1>10, <1>11

\* Steps that leave the position where it is.
LEMMA StayStep ==
  ASSUME Sound, OpenFile \/ ReadNothing \/ CheckNewer \/ (OpenDeleted /\ ~rsealed)
                \/ (ReadHeader /\ disk[pos[1]].hdr # "ok" /\ ~rsealed)
  PROVE  ReaderControl' /\ Position' /\ Marks' /\ RTypeOK'
<1>0. IInv /\ Keeps /\ RTypeOK /\ ReaderControl /\ Position /\ Remains /\ NoneFits /\ Marks
  BY DEF Sound
<1>1. /\ UNCHANGED <<vars, external, rsealed, rnext, rlast, seen, pos>>
      /\ rcorrupt' \in BOOLEAN
      /\ rpc' \in {"header", "newer", "again", "read", "err", "list"} /\ rpc # "off"
      /\ \/ rpc' \in {"newer", "read"} /\ rpc \in {"read", "newer"}
         \/ rpc' = "again" /\ rpc = "newer" /\ \E t \in Listing : t > pos[1]
         \/ rpc' \in {"err", "list"}
         \/ rpc' = "header" /\ rpc = "open" /\ disk[pos[1]].st = "live"
  BY <1>0 DEF OpenFile, ReadNothing, CheckNewer, OpenDeleted, ReadHeader, RTypeOK
<1>2. PICK p \in 0..MaxSeg + 1 : \E n \in Nat : pos = <<p, n>>
  BY <1>0, PositionForm
<1>3. PICK n \in Nat : pos = <<p, n>>
  BY <1>2
<1>4. pos[1] = p /\ pos[2] = n /\ pos \in Cursors
  BY <1>2, <1>3 DEF Cursors
<1>5. Marks'
  <2>1. PICK c \in Cursors : c = pos
    BY <1>4
  <2>2. MarkOK(c)
    BY <1>0, <2>1 DEF Marks, MarkSet
  <2>3. MarkOK(c)'
    BY <1>0, <1>1, <2>2, StillWriter
  <2> QED BY <1>0, <1>1, <2>1, <2>3, PositionMarks
<1>6. InFile \/ rpc = "open" => p \in SegIds
  BY <1>0, <1>4 DEF ReaderControl
<1>7. Position'
  <2>1. InFile' => InFile \/ (rpc = "open" /\ p \in Listing)
    BY <1>1, <1>4, <1>6 DEF InFile, Listing
  <2>2. external /\ p # 0 => \E t \in Listing : t >= p
    BY <1>0, <1>4 DEF Position
  <2>3. InFile' /\ p \notin Listing => Past(p)
    BY <1>0, <1>4, <2>1 DEF Position
  <2>4. rpc' = "again" => Past(p)
    <3>1. rpc' = "again" => InFile /\ rpc # "off" /\ \E t \in Listing : t > p
      BY <1>1, <1>4 DEF InFile
    <3> QED BY <1>0, <1>6, <3>1, SealedPast
  <2>5. rsealed' /\ rpc' \in {"open", "header"} => Past(p)
    BY <1>0, <1>1, <1>4 DEF Position
  <2>6. pos'[1] = p /\ UNCHANGED <<vars, external>>
    BY <1>1, <1>4
  <2> QED BY <2>2, <2>3, <2>4, <2>5, <2>6, NewPosition
<1>8. ReaderControl'
  <2>1. UNCHANGED <<acked, cursor, wpc, external, pos, rnext>>
    BY <1>1 DEF vars, diskVars, memVars, loopVars
  <2> QED BY <1>0, <1>1, <2>1 DEF ReaderControl, InFile
<1>9. RTypeOK'
  <2>1. TypeOK'
    BY <1>0, <1>1, StillWriter DEF IInv
  <2> QED BY <1>0, <1>1, <2>1 DEF RTypeOK
<1> QED BY <1>5, <1>7, <1>8, <1>9

\* A whole header: the first frame is next.
LEMMA HeaderStep ==
  ASSUME Sound, ReadHeader, disk[pos[1]].hdr = "ok"
  PROVE  ReaderControl' /\ Position' /\ Marks' /\ RTypeOK'
<1>0. /\ IInv /\ Keeps /\ RTypeOK /\ ReaderControl /\ Position /\ Remains /\ NoneFits /\ Marks
      /\ rpc = "header" /\ rpc' = "read"
      /\ UNCHANGED <<vars, external, rsealed, rnext, rlast, seen, rcorrupt>>
      /\ pos' = IF pos[2] = 0 THEN <<pos[1], 1>> ELSE pos
  BY DEF Sound, ReadHeader
<1>1. PICK p \in 0..MaxSeg + 1 : \E n \in Nat : pos = <<p, n>>
  BY <1>0, PositionForm
<1>2. PICK n \in Nat : pos = <<p, n>>
  BY <1>1
<1>3. p \in SegIds /\ pos[1] = p /\ pos[2] = n /\ p \in Int
  BY <1>0, <1>2 DEF ReaderControl, InFile, SegIds
<1>4. PICK m \in Nat : m > 0 /\ pos' = <<p, m>> /\ MarkOK(<<p, m>>)
  <2>1. MarkOK(<<p, n>>)
    BY <1>0, <1>2 DEF Marks, MarkSet
  <2>2. CASE n = 0
    BY <1>0, <1>3, <2>1, <2>2, HeaderMark
  <2>3. CASE n # 0
    BY <1>0, <1>2, <1>3, <2>1, <2>3
  <2> QED BY <2>2, <2>3
<1>5. <<p, m>> \in Cursors /\ pos'[1] = p /\ pos'[2] = m
  BY <1>1, <1>4 DEF Cursors
<1>6. Marks'
  <2>1. PICK c \in Cursors : c = <<p, m>>
    BY <1>5
  <2>2. MarkOK(c)'
    BY <1>0, <1>4, <2>1, StillWriter
  <2> QED BY <1>0, <1>4, <2>1, <2>2, PositionMarks
<1>7. Position'
  <2>1. external /\ p # 0 => \E t \in Listing : t >= p
    BY <1>0, <1>3 DEF Position
  <2>2. p \notin Listing => Past(p)
    BY <1>0, <1>3 DEF Position, InFile
  <2> QED BY <1>0, <1>5, <2>1, <2>2, NewPosition
<1>8. ReaderControl'
  <2>1. UNCHANGED <<acked, cursor, wpc, external, rnext>> /\ pos'[1] \in SegIds /\ pos'[2] >= 1
    BY <1>0, <1>3, <1>4, <1>5 DEF vars, diskVars, memVars, loopVars
  <2> QED BY <1>0, <2>1 DEF ReaderControl, InFile
<1>9. RTypeOK'
  <2>1. TypeOK'
    BY <1>0, StillWriter DEF IInv
  <2>2. pos' \in (0..MaxSeg + 1) \X Nat
    BY <1>4, <1>5 DEF Cursors
  <2> QED BY <1>0, <2>1, <2>2 DEF RTypeOK
<1> QED BY <1>6, <1>7, <1>8, <1>9

\* The next segment: the one left was deleted, has no header or has nothing
\* more to read, and it is sealed.
LEMMA SkipStep ==
  ASSUME Sound, \/ OpenDeleted /\ rsealed
                \/ ReadHeader /\ disk[pos[1]].hdr # "ok" /\ rsealed
                \/ LeaveSegment
  PROVE  ReaderControl' /\ Position' /\ Marks' /\ RTypeOK'
<1>0. /\ IInv /\ Keeps /\ RTypeOK /\ ReaderControl /\ Position /\ Remains /\ NoneFits /\ Marks
      /\ rpc # "off" /\ rpc' = "list" /\ pos' = <<pos[1] + 1, 0>>
      /\ UNCHANGED <<vars, external, rsealed, rnext, rlast, seen>> /\ rcorrupt' \in BOOLEAN
      /\ rpc \in {"open", "header", "again"} /\ (rpc = "again" \/ rsealed)
  BY DEF Sound, OpenDeleted, ReadHeader, LeaveSegment, NextSegment, RTypeOK
<1>1. PICK p \in 0..MaxSeg + 1 : \E n \in Nat : pos = <<p, n>>
  BY <1>0, PositionForm
<1>2. PICK n \in Nat : pos = <<p, n>>
  BY <1>1
<1>3. p \in SegIds /\ pos[1] = p /\ pos[2] = n /\ p \in Int /\ p <= MaxSeg /\ MaxSeg \in Nat
  BY <1>0, <1>2, CountsAssumption DEF ReaderControl, InFile, SegIds
<1>4. Past(p)
  BY <1>0, <1>3 DEF Position
<1>5. \A i \in Nat : i >= n => ~ReadableAt(p, i)
  <2>1. CASE OpenDeleted
    BY <1>3, <2>1 DEF OpenDeleted, ReadableAt, Listing
  <2>2. CASE ReadHeader /\ disk[pos[1]].hdr # "ok"
    BY <1>3, <2>2 DEF ReadableAt
  <2>3. CASE LeaveSegment
    <3>1. n >= 1 /\ ~(n \in DOMAIN disk[p].recs /\ disk[p].recs[n] > 0)
      BY <1>0, <1>3, <2>3 DEF LeaveSegment, AtRecord, ReaderControl
    <3>2. ASSUME NEW i \in Nat, i >= n, ReadableAt(p, i) PROVE FALSE
      <4>1. i \in Nat \ {0}
        BY <3>1, <3>2
      <4>2. i \in DOMAIN disk[p].recs /\ \A j \in 1..i : disk[p].recs[j] > 0
        BY <1>0, <1>3, <3>2, <4>1, ReadableAtIs DEF ReadableIn
      <4>3. n \in 1..i /\ n \in DOMAIN disk[p].recs
        <5>1. DOMAIN disk[p].recs = 1..Len(disk[p].recs) /\ Len(disk[p].recs) \in Nat
          BY <1>0, <1>3, FileFacts
        <5> QED BY <3>1, <3>2, <4>2, <5>1
      <4> QED BY <3>1, <4>2, <4>3
    <3> QED BY <3>2
  <2> QED BY <1>0, <2>1, <2>2, <2>3
<1>6. MarkOK(<<p + 1, 0>>)
  <2>1. MarkOK(<<p, n>>)
    BY <1>0, <1>2 DEF Marks, MarkSet
  <2> QED BY <1>0, <1>3, <1>4, <1>5, <2>1, SkipMark
<1>7. PICK c \in Cursors : c = <<p + 1, 0>>
  <2>1. PICK q \in 0..MaxSeg + 1 : q = p + 1
    BY <1>3 DEF SegIds
  <2>2. <<q, 0>> \in Cursors
    BY DEF Cursors
  <2> QED BY <2>1, <2>2
<1>8. Marks'
  <2>1. MarkOK(c)'
    BY <1>0, <1>6, <1>7, StillWriter
  <2> QED BY <1>0, <1>3, <1>7, <2>1, PositionMarks
<1>9. Position'
  <2>1. external => \E t \in Listing : t >= p + 1
    <3>1. external => \E t \in Listing : t > p
      BY <1>4 DEF Past
    <3>2. \A t \in Listing : t \in Int
      BY DEF Listing, SegIds
    <3> QED BY <1>3, <3>1, <3>2
  <2>2. pos'[1] = p + 1 /\ ~InFile' /\ rpc' \notin {"again", "open", "header"} /\ UNCHANGED <<vars, external>>
    BY <1>0, <1>3 DEF InFile
  <2> QED BY <2>1, <2>2, NewPosition
<1>10. ReaderControl'
  <2>1. UNCHANGED <<acked, cursor, wpc, external, rnext>>
    BY <1>0 DEF vars, diskVars, memVars, loopVars
  <2> QED BY <1>0, <2>1 DEF ReaderControl, InFile
<1>11. RTypeOK'
  <2>1. TypeOK'
    BY <1>0, StillWriter DEF IInv
  <2>2. pos' \in (0..MaxSeg + 1) \X Nat
    BY <1>0, <1>3, <1>7 DEF Cursors
  <2> QED BY <1>0, <2>1, <2>2 DEF RTypeOK
<1> QED BY <1>8, <1>9, <1>10, <1>11

\* A record is delivered.
LEMMA DeliverStep ==
  ASSUME Sound, ReadRecord \/ ReadAgain
  PROVE  ReaderControl' /\ Position' /\ Marks' /\ RTypeOK'
<1>0. /\ IInv /\ Keeps /\ RTypeOK /\ ReaderControl /\ Position /\ Remains /\ NoneFits /\ Marks
      /\ InFile /\ rpc \in {"read", "again"} /\ rpc' = "read" /\ AtRecord
      /\ pos' = <<pos[1], pos[2] + 1>> /\ rnext' = pos'
      /\ rlast' = disk[pos[1]].recs[pos[2]]
      /\ seen' = seen \cup {disk[pos[1]].recs[pos[2]]}
      /\ UNCHANGED <<vars, external, rsealed, rcorrupt>>
  BY DEF Sound, ReadRecord, ReadAgain, Deliver, InFile
<1>1. PICK p \in 0..MaxSeg + 1 : \E n \in Nat : pos = <<p, n>>
  BY <1>0, PositionForm
<1>2. PICK n \in Nat : pos = <<p, n>>
  BY <1>1
<1>3. p \in SegIds /\ pos[1] = p /\ pos[2] = n /\ n \in Nat \ {0} /\ p \in Int /\ p \in 0..MaxSeg
  BY <1>0, <1>2, CountsAssumption DEF ReaderControl, SegIds
<1>4. n \in DOMAIN disk[p].recs /\ disk[p].recs[n] > 0 /\ disk[p].recs[n] \in Recs
  <2>1. n \in DOMAIN disk[p].recs /\ disk[p].recs[n] > 0
    BY <1>0, <1>3 DEF AtRecord
  <2>2. disk[p].recs \in Seq(Frames) /\ MaxRecs \in Nat
    BY <1>0, <1>3, FileFacts, CountsAssumption
  <2>3. disk[p].recs[n] \in Frames
    BY <2>1, <2>2
  <2> QED BY <2>1, <2>2, <2>3 DEF Frames, Recs
<1>5. PICK c \in Cursors : c = <<p, n + 1>>
  <2>1. PICK m \in Nat : m = n + 1
    BY <1>3
  <2>2. <<p, m>> \in Cursors
    BY DEF Cursors
  <2> QED BY <2>1, <2>2
<1>6. /\ pos' = c /\ c[1] = p /\ c[2] = n + 1
      /\ seen' = seen \cup {disk[p].recs[n]}
  BY <1>0, <1>3, <1>5
<1>7. UNCHANGED <<disk, active, wpc, len, pending, acked, cursor>> /\ IInv' /\ Listing' = Listing
  BY <1>0, StillWriter DEF vars, diskVars, memVars, loopVars
<1>8. Covered(c)'
  <2> SUFFICES ASSUME NEW s \in SegIds, NEW i \in DOMAIN disk'[s].recs, ReadableAt(s, i)', Before(<<s, i>>, c)
               PROVE  disk'[s].recs[i] \in seen'
    BY DEF Covered, Before
  <2>1. i \in Nat /\ s \in Int
    BY <1>0, <1>7, FileFacts DEF SegIds
  <2>2. s < p \/ (s = p /\ i < n + 1)
    BY <1>6 DEF Before
  <2>3. CASE s = p /\ i = n
    BY <1>6, <1>7, <2>3
  <2>4. CASE ~(s = p /\ i = n)
    <3>1. s < p \/ (s = p /\ i < n)
      BY <1>3, <2>1, <2>2, <2>4
    <3>2. Before(<<s, i>>, pos)
      BY <1>3, <3>1 DEF Before
    <3>3. ReadableAt(s, i)
      BY <1>7 DEF ReadableAt
    <3> QED BY <1>0, <1>6, <1>7, <3>2, <3>3 DEF Marks, MarkSet, MarkOK, Covered
  <2> QED BY <2>3, <2>4
<1>9. MarkOK(c)'
  <2>1. MarkOK(pos) /\ pos = <<p, n>>
    BY <1>0, <1>2 DEF Marks, MarkSet
  <2>2. /\ wpc # "down" => p <= active
        /\ wpc # "down" /\ p = active =>
             \A j \in 1..n : j > len[active] =>
               InBatch(j) /\ (Rewritten(j) \in seen \/ Rewritten(j) = disk[p].recs[n])
    BY <1>0, <1>3, <2>1, DeliverMark
  <2>3. ASSUME wpc' # "down", c[1] = active', NEW j \in 1..(c[2] - 1), j > len'[active']
        PROVE  InBatch(j)' /\ Rewritten(j)' \in seen'
    <3>1. j \in 1..n /\ wpc # "down" /\ p = active /\ j > len[active]
      BY <1>3, <1>6, <1>7, <2>3
    <3>2. InBatch(j) /\ (Rewritten(j) \in seen \/ Rewritten(j) = disk[p].recs[n])
      BY <2>2, <3>1
    <3>3. active \in SegIds /\ Calm
      <4>1. active \in SegIds
        BY <1>0, <3>1 DEF IInv, Control
      <4> QED BY <1>0, <1>7, <3>1, <4>1, StillCalm
    <3>4. InBatch(j)' /\ Rewritten(j)' = Rewritten(j)
      <4>1. j \in Nat
        BY <3>1
      <4> QED BY <1>0, <1>7, <3>2, <3>3, <4>1, InBatchKept
    <3> QED BY <1>6, <3>2, <3>4
  <2> QED BY <1>6, <1>7, <1>8, <2>2, <2>3 DEF MarkOK
<1>10. Marks'
  BY <1>0, <1>6, <1>9, PositionMarks
<1>11. Position'
  <2>1. external /\ p # 0 => \E t \in Listing : t >= p
    BY <1>0, <1>3 DEF Position
  <2>2. p \notin Listing => Past(p)
    BY <1>0, <1>3 DEF Position
  <2>3. pos'[1] = p
    BY <1>6
  <2> QED BY <1>0, <2>1, <2>2, <2>3, NewPosition
<1>12. ReaderControl'
  <2>1. pos'[1] \in SegIds /\ pos'[2] >= 1
    BY <1>3, <1>6
  <2> QED BY <1>0, <1>7, <2>1 DEF ReaderControl, InFile
<1>13. RTypeOK'
  <2>1. TypeOK'
    BY <1>7 DEF IInv
  <2>2. pos' \in (0..MaxSeg + 1) \X Nat /\ rnext' \in (0..MaxSeg) \X Nat
    BY <1>0, <1>3, <1>5, <1>6 DEF Cursors
  <2>3. rlast' \in 0..MaxRecs /\ seen' \subseteq Recs
    BY <1>0, <1>3, <1>4, CountsAssumption DEF RTypeOK, Recs
  <2> QED BY <1>0, <2>1, <2>2, <2>3 DEF RTypeOK
<1> QED BY <1>10, <1>11, <1>12, <1>13

\* A transport acks the last record it delivered.
LEMMA AckDeliveredStep ==
  ASSUME Sound, AckDelivered
  PROVE  Sound' /\ UNCHANGED <<disk, rot, crashes, closing, active, readerVars>> /\ wpc \notin {"down", "opening"}
         /\ wpc' \in {"idle", "acking"}
<1>0. /\ IInv /\ Keeps /\ RTypeOK /\ ReaderControl /\ Position /\ Remains /\ NoneFits /\ Marks
      /\ ~external /\ rnext # NoAck /\ UNCHANGED readerVars
  BY DEF Sound, AckDelivered
<1>1. PICK c \in (0..MaxSeg) \X Nat : c = rnext /\ Ack(c)
  BY <1>0 DEF AckDelivered, RTypeOK
<1>2. /\ wpc = "idle" /\ wpc' \in {"idle", "acking"} /\ cursor' = c /\ acked' = c /\ todo' = Behind(c)
      /\ UNCHANGED <<disk, segs, len, active, fileOpen, unsynced, pending, failing, closing, gaps,
                     undel, envVars, fate>>
  BY <1>1 DEF Ack
<1>3. UNCHANGED <<nrec, faults, crashes, rot>>
  BY <1>2 DEF envVars
<1>4. TypeOK'
  BY <1>0, <1>1, <1>2, <1>3 DEF IInv, Behind, TypeOK, TypeDisk, TypeMem, TypeFlags, TypeHistory
<1>5. IInv'
  <2>1. Control'
    BY <1>0, <1>2 DEF IInv, Behind, Control
  <2> QED BY <1>0, <1>2, <1>3, <1>4, <2>1, QuietStep DEF Listing
<1>6. Keeps'
  BY <1>0, <1>2, <1>3, QuietKeeps
<1>7. /\ UNCHANGED <<external, rpc, pos, rsealed, rnext, rlast, seen, rcorrupt>>
  BY <1>0 DEF readerVars
<1>8. RTypeOK'
  BY <1>0, <1>4, <1>7 DEF RTypeOK
<1>9. Listing' = Listing
  BY <1>2 DEF Listing
<1>10. ReaderControl'
  BY <1>0, <1>2, <1>7 DEF ReaderControl, InFile
<1>11. Position'
  BY <1>0, <1>2, <1>7, <1>9 DEF Position, InFile, Past
<1>12. active \in SegIds
  BY <1>0, <1>2 DEF IInv, Control
<1>13. WriterKeeps
  BY <1>0, <1>2, <1>5, <1>7, <1>9, <1>12, StillKeeps
<1>14. Marks'
  <2>1. LoadCursor' \in {c, NoAck} /\ acked' = c
    BY <1>2 DEF LoadCursor
  <2>2. MarkSet' \subseteq MarkSet \cup {NoAck} /\ MarkSet \subseteq Cursors
    BY <1>0, <1>1, <1>7, <2>1, MarkTypes DEF MarkSet
  <2>3. ASSUME NEW d \in MarkSet' PROVE MarkOK(d)'
    <3>1. CASE d = NoAck
      BY <1>5, <3>1, NoAckMark
    <3>2. CASE d # NoAck
      BY <1>0, <1>13, <2>2, <2>3, <3>2 DEF Marks, WriterKeeps, MarksStay
    <3> QED BY <3>1, <3>2
  <2> QED BY <2>3 DEF Marks
<1>15. Sound'
  BY <1>5, <1>6, <1>8, <1>10, <1>11, <1>13, <1>14 DEF Sound, WriterKeeps
<1> QED BY <1>0, <1>2, <1>3, <1>15

-----------------------------------------------------------------------------
(* What no reader takes for corrupt.                                       *)

\* A segment that keeps its frames and its header is as clean as before.
Same(s) == disk'[s].recs = disk[s].recs /\ disk'[s].hdr = disk[s].hdr

\* Its own frames and header alone make a segment clean.
LEMMA SameClean ==
  ASSUME NEW s, Same(s)
  PROVE  Clean(s)' <=> Clean(s)
BY DEF Same, Clean

\* A step of a running writer, which changes at most its active file.
LEMMA UsualClean ==
  ASSUME IInv, IInv', CleanFiles, FirstLife, wpc \notin {"down", "opening"},
         wpc' \notin {"down", "opening"}, active' = active,
         \A s \in Listing' \ {active} : s \in Listing /\ Same(s) /\ disk'[s].dur = disk[s].dur,
         active \in Listing' => disk'[active].hdr # "foreign",
         UNCHANGED <<crashes, closing>> \/ crashes' # 0
  PROVE  CleanFiles' /\ FirstLife'
<1>1. active \in Int /\ \A s \in Listing' : s \in Int /\ s <= active
  BY DEF IInv, TypeOK, TypeMem, Numbers, Listing, SegIds
<1>2. ASSUME NEW s \in Listing', s < active PROVE Clean(s)'
  <2>1. s # active
    BY <1>1, <1>2
  <2>2. s \in Listing /\ Same(s)
    BY <2>1
  <2> QED BY <1>2, <2>2, SameClean DEF CleanFiles
<1>3. \A s \in Listing' : disk'[s].hdr # "foreign"
  BY DEF CleanFiles, Same
<1>4. \A s, t \in Listing' : s < t => Clean(s)'
  <2> SUFFICES ASSUME NEW s \in Listing', NEW t \in Listing', s < t PROVE Clean(s)'
    OBVIOUS
  <2>1. s < active
    BY <1>1
  <2> QED BY <1>2, <2>1
<1>5. CleanFiles'
  BY <1>2, <1>3, <1>4 DEF CleanFiles
<1>6. FirstLife'
  BY DEF FirstLife, Same
<1> QED BY <1>5, <1>6

\* The process ends, with the files as they are.
LEMMA ExitClean ==
  ASSUME CleanFiles, wpc' = "down", crashes' # 0, Listing' \subseteq Listing,
         \A s \in Listing' : Same(s)
  PROVE  CleanFiles' /\ FirstLife'
<1>1. \A s \in Listing' : Clean(s)' <=> Clean(s)
  BY SameClean
<1>2. CleanFiles'
  BY <1>1 DEF CleanFiles, Same
<1> QED BY <1>2 DEF FirstLife

\* Writer::open starts with every file still to be looked at.
LEMMA LoadClean ==
  ASSUME IInv, IInv', CleanFiles, FirstLife, OpenLoad
  PROVE  CleanFiles' /\ FirstLife'
<1>1. /\ disk' = disk /\ Listing' = Listing /\ UNCHANGED <<crashes, closing>> /\ wpc = "down"
      /\ todo' = Listing /\ wpc' = IF Listing = {} THEN "idle" ELSE "opening"
  BY DEF OpenLoad, diskVars, envVars, Listing
<1>2. \A s \in Listing : Clean(s)' <=> Clean(s)
  BY <1>1, SameClean DEF Same
<1>3. CleanFiles'
  BY <1>1, <1>2 DEF CleanFiles
<1>4. FirstLife'
  BY <1>1 DEF FirstLife
<1> QED BY <1>3, <1>4

\* A deletion behind the cursor at the start.
LEMMA OpenDeleteClean ==
  ASSUME IInv, IInv', CleanFiles, FirstLife, OpenDelete
  PROVE  CleanFiles' /\ FirstLife'
<1>1. PICK s \in SegIds : Oldest(s, todo) /\ disk' = [disk EXCEPT ![s].st = "gone"]
                          /\ todo' = todo \ {s}
  BY DEF OpenDelete
<1>2. /\ wpc = "opening" /\ wpc' = (IF todo' = {} THEN "idle" ELSE "opening")
      /\ crashes' = crashes /\ Listing' = Listing \ {s}
  BY <1>1, DeletedOne DEF OpenDelete, envVars
<1>3. ASSUME NEW t \in Listing' PROVE Same(t) /\ (Clean(t)' <=> Clean(t)) /\ t \in Listing /\ t # s
  <2>1. disk \in [SegIds -> Files] /\ t \in SegIds /\ t # s /\ t \in Listing
    BY <1>2, <1>3 DEF IInv, TypeOK, TypeDisk, Listing
  <2>2. Same(t)
    BY <1>1, <2>1 DEF Same
  <2> QED BY <2>1, <2>2, SameClean
<1>4. \A t \in Listing' \ todo' : Clean(t)'
  BY <1>1, <1>2, <1>3 DEF CleanFiles
<1>5. CleanFiles'
  BY <1>2, <1>3, <1>4 DEF CleanFiles, Same
<1> QED BY <1>2, <1>5 DEF FirstLife

\* open repairs the newest segment, and the others need none.
LEMMA OpenKeepClean ==
  ASSUME IInv, IInv', CleanFiles, FirstLife, OpenKeep
  PROVE  CleanFiles' /\ FirstLife'
<1>1. PICK s \in SegIds : /\ Oldest(s, todo) /\ disk' = [disk EXCEPT ![s] = Repair(s)]
                          /\ todo' = todo \ {s}
  BY DEF OpenKeep
<1>2. /\ wpc = "opening" /\ wpc' = (IF todo' = {} THEN "idle" ELSE "opening")
      /\ crashes' = crashes /\ disk \in [SegIds -> Files] /\ s \in Listing /\ todo \subseteq Listing
      /\ s \in todo
  BY <1>1 DEF OpenKeep, IInv, TypeOK, TypeDisk, Numbers, Oldest
<1>3. disk'[s] = Repair(s) /\ disk[s] \in Files /\ disk[s].hdr # "foreign" /\ disk[s].recs \in Seq(Frames)
  BY <1>1, <1>2 DEF CleanFiles, Files
<1>4. Repair(s).st = disk[s].st
  BY <1>2, RepairType
<1>5. Listing' = Listing
  <2>1. \A t \in SegIds \ {s} : disk'[t] = disk[t]
    BY <1>1, <1>2
  <2> QED BY <1>3, <1>4, <2>1 DEF Listing
<1>6. ASSUME NEW t \in Listing, t # s PROVE Same(t) /\ (Clean(t)' <=> Clean(t))
  <2>1. Same(t)
    BY <1>1, <1>2, <1>6 DEF Same, Listing
  <2> QED BY <2>1, SameClean
<1>7. Repair(s).hdr # "foreign"
  <2>1. disk[s].hdr = "ok" \/ disk[s].hdr = "none"
    BY <1>3 DEF Files
  <2>2. [disk[s] EXCEPT !.hdr = "ok", !.recs = <<>>, !.dur = 0].hdr = "ok"
    BY <1>3 DEF Files
  <2>3. [disk[s] EXCEPT !.recs = Scan(disk[s].recs), !.dur = ValidCount(disk[s].recs)].hdr = disk[s].hdr
    BY <1>3 DEF Files
  <2> QED BY <2>1, <2>2, <2>3 DEF Repair, Recover
<1>8. todo = {s} => Clean(s)'
  <2> SUFFICES ASSUME todo = {s} PROVE Clean(s)'
    OBVIOUS
  <2>1. disk'[s] = Recover(disk[s])
    BY <1>3 DEF Repair
  <2>2. PICK q \in Seq(Frames) : q = disk[s].recs
    BY <1>3
  <2>3. /\ ValidCount(q) \in 0..Len(q) /\ \A i \in 1..ValidCount(q) : q[i] > 0
        /\ Len(q) \in Nat /\ DOMAIN q = 1..Len(q)
    BY ValidCountType
  <2>4. CASE disk[s].hdr = "ok" /\ ValidCount(q) < Len(q)
    <3>1. disk'[s] = [disk[s] EXCEPT !.recs = Scan(q), !.dur = ValidCount(q)]
      BY <2>1, <2>2, <2>4 DEF Recover
    <3>2. disk'[s].recs = Scan(q) /\ disk'[s].hdr = "ok"
      BY <1>3, <2>4, <3>1 DEF Files
    <3>3. \A i \in DOMAIN Scan(q) : Scan(q)[i] > 0
      BY <2>3 DEF Scan
    <3> QED BY <3>2, <3>3 DEF Clean
  <2>5. CASE disk[s].hdr = "ok" /\ ~(ValidCount(q) < Len(q))
    <3>1. disk'[s] = disk[s]
      BY <2>1, <2>2, <2>5 DEF Recover
    <3>2. \A i \in DOMAIN q : q[i] > 0
      BY <2>3, <2>5
    <3> QED BY <2>2, <2>5, <3>1, <3>2 DEF Clean
  <2>6. CASE disk[s].hdr = "none"
    <3>1. disk'[s] = [disk[s] EXCEPT !.hdr = "ok", !.recs = <<>>, !.dur = 0]
      BY <2>1, <2>6 DEF Recover
    <3>2. disk'[s].recs = <<>> /\ disk'[s].hdr = "ok"
      BY <1>3, <3>1 DEF Files
    <3> QED BY <3>2 DEF Clean
  <2> QED BY <1>3, <2>4, <2>5, <2>6 DEF Files
<1>9. todo # {s} => Clean(s) /\ disk'[s] = disk[s]
  <2> SUFFICES ASSUME todo # {s} PROVE Clean(s) /\ disk'[s] = disk[s]
    OBVIOUS
  <2>1. PICK t \in todo : t # s
    BY <1>2
  <2>2. t \in Listing /\ s <= t /\ t \in Int /\ s \in Int
    BY <1>1, <1>2 DEF Oldest, Listing, SegIds
  <2>3. Clean(s)
    BY <1>2, <2>1, <2>2 DEF CleanFiles
  <2> QED BY <1>3, <2>3 DEF Repair
<1>10. Clean(s)'
  BY <1>8, <1>9, SameClean DEF Same
<1>11. \A t \in Listing' : disk'[t].hdr # "foreign"
  BY <1>3, <1>5, <1>6, <1>7 DEF CleanFiles, Same
<1>12. \A t \in Listing' \ todo' : Clean(t)'
  BY <1>1, <1>2, <1>5, <1>6, <1>10 DEF CleanFiles
<1>13. \A t, u \in Listing' : t < u => Clean(t)'
  BY <1>5, <1>6, <1>10 DEF CleanFiles
<1>14. CleanFiles'
  BY <1>2, <1>11, <1>12, <1>13 DEF CleanFiles
<1> QED BY <1>2, <1>14 DEF FirstLife

\* rotate seals a file that is good to its end.
LEMMA SealClean ==
  ASSUME IInv, IInv', Keeps, CleanFiles, FirstLife, Seal
  PROVE  CleanFiles' /\ FirstLife'
<1>1. /\ wpc = "seal" /\ wpc' = "active" /\ disk' = SyncFile(active) /\ active \in SegIds
      /\ active' = active + 1 /\ UNCHANGED <<crashes, closing>> /\ fileOpen /\ active \in Int
  BY DEF Seal, NextSeq, IInv, Control, SegIds, envVars
<1>2. /\ Listing' = Listing /\ \A s \in Listing : Same(s) /\ s \in Int /\ s <= active
      /\ \A s \in Listing \ {active} : disk'[s] = disk[s]
  BY <1>1, SyncedFiles DEF Same, Listing, IInv, Numbers, SegIds
<1>3. Clean(active)
  <2>1. len[active] >= 0 /\ Len(disk[active].recs) <= len[active] /\ len[active] \in Int
    BY <1>1 DEF IInv, ActiveFile, TypeOK, TypeMem
  <2>2. DOMAIN disk[active].recs = 1..Len(disk[active].recs) /\ Len(disk[active].recs) \in Nat
    BY <1>1, FileFacts
  <2>3. disk[active].hdr = "ok" /\ \A i \in 1..len[active] : disk[active].recs[i] > 0
    BY <1>1, <2>1 DEF Keeps, GoodPrefix
  <2> QED BY <2>1, <2>2, <2>3 DEF Clean
<1>4. \A s \in Listing : Clean(s)' <=> Clean(s)
  BY <1>2, SameClean
<1>5. \A s \in Listing : Clean(s)
  <2> SUFFICES ASSUME NEW s \in Listing PROVE Clean(s)
    OBVIOUS
  <2>1. s = active \/ s < active
    BY <1>1, <1>2
  <2> QED BY <1>1, <1>3, <2>1 DEF CleanFiles
<1>6. CleanFiles'
  BY <1>1, <1>2, <1>4, <1>5 DEF CleanFiles, Same
<1>7. disk'[active].dur = Len(disk'[active].recs)
  <2>1. disk \in [SegIds -> Files]
    BY DEF IInv, TypeOK, TypeDisk
  <2>2. [disk[active] EXCEPT !.dur = Len(disk[active].recs)].dur = Len(disk[active].recs)
    BY <1>1, <2>1 DEF Files
  <2>3. disk'[active] = [disk[active] EXCEPT !.dur = Len(disk[active].recs)]
    BY <1>1, <2>1 DEF SyncFile
  <2>4. disk'[active].recs = disk[active].recs
    BY <1>1, SyncedFiles
  <2> QED BY <2>2, <2>3, <2>4
<1>8. Len(disk'[active].recs) \in Int
  BY <1>1, FileFacts, SyncedFiles
<1>9. FirstLife'
  BY <1>1, <1>2, <1>7, <1>8 DEF FirstLife
<1> QED BY <1>6, <1>9

\* What the steps that write the active file do to the files.
LEMMA ActiveWrites ==
  ASSUME IInv, OpenActive \/ WriteHeader \/ WritePart \/ WriteBatch
  PROVE  /\ active \in SegIds /\ active \in Listing' /\ active' = active /\ UNCHANGED <<crashes, closing, rot>>
         /\ wpc \notin {"down", "opening"} /\ wpc' \notin {"down", "opening"}
         /\ \A s \in SegIds \ {active} : disk'[s] = disk[s]
         /\ \/ disk'[active].hdr \in {"none", "ok"}
            \/ disk'[active].hdr = disk[active].hdr /\ active \in Listing
<1>1. /\ active \in SegIds /\ active' = active /\ UNCHANGED <<crashes, closing, rot>>
      /\ wpc \notin {"down", "opening"} /\ wpc' \notin {"down", "opening"}
  BY DEF OpenActive, AfterOpen, WriteHeader, WritePart, WriteBatch, envVars, memVars, IInv, Control
<1>2. disk \in [SegIds -> Files] /\ disk[active] \in Files
  BY <1>1 DEF IInv, TypeOK, TypeDisk
<1>3. ASSUME NEW f, disk' = [disk EXCEPT ![active] = f], f.st = "live",
             f.hdr \in {"none", "ok"} \/ (f.hdr = disk[active].hdr /\ active \in Listing)
      PROVE  /\ active \in Listing' /\ \A s \in SegIds \ {active} : disk'[s] = disk[s]
             /\ \/ disk'[active].hdr \in {"none", "ok"}
                \/ disk'[active].hdr = disk[active].hdr /\ active \in Listing
  <2>1. disk'[active] = f
    BY <1>1, <1>2, <1>3
  <2>2. \A s \in SegIds \ {active} : disk'[s] = disk[s]
    BY <1>1, <1>2, <1>3
  <2> QED BY <1>1, <1>3, <2>1, <2>2 DEF Listing
<1>4. CASE OpenActive
  <2>1. CASE len[active] < 0
    <3>1. PICK f : f = [st |-> "live", hdr |-> "none", recs |-> <<>>, dur |-> -1]
      OBVIOUS
    <3>2. disk' = [disk EXCEPT ![active] = f] /\ f.st = "live" /\ f.hdr = "none"
      BY <1>4, <2>1, <3>1 DEF OpenActive
    <3> QED BY <1>1, <1>3, <3>2
  <2>2. CASE ~(len[active] < 0)
    <3>1. PICK f : f = [disk[active] EXCEPT !.recs = CutAt(disk[active].recs, len[active])]
      OBVIOUS
    <3>2. f.st = disk[active].st /\ f.hdr = disk[active].hdr
      BY <1>2, <3>1 DEF Files
    <3>3. active \in Listing
      BY <1>1, <2>2 DEF IInv, ActiveFile, TypeOK, TypeMem
    <3>4. f.st = "live"
      BY <3>2, <3>3 DEF Listing
    <3>5. disk' = [disk EXCEPT ![active] = f]
      BY <1>4, <2>2, <3>1 DEF OpenActive
    <3> QED BY <1>1, <1>3, <3>2, <3>3, <3>4, <3>5
  <2> QED BY <2>1, <2>2
<1>5. CASE WriteHeader
  <2>1. PICK f : f = [disk[active] EXCEPT !.hdr = "ok"]
    OBVIOUS
  <2>2. f.st = disk[active].st /\ f.hdr = "ok"
    BY <1>2, <2>1 DEF Files
  <2>3. active \in Listing
    BY <1>1, <1>5 DEF IInv, ActiveFile, WriteHeader
  <2>4. f.st = "live" /\ disk' = [disk EXCEPT ![active] = f]
    BY <1>5, <2>1, <2>2, <2>3 DEF WriteHeader, Listing
  <2> QED BY <1>1, <1>3, <2>2, <2>4
<1>6. CASE WritePart \/ WriteBatch
  <2>1. PICK q : disk' = [disk EXCEPT ![active].recs = q]
    BY <1>6, Zenon DEF WritePart, WriteBatch
  <2>2. PICK f : f = [disk[active] EXCEPT !.recs = q]
    OBVIOUS
  <2>3. f.st = disk[active].st /\ f.hdr = disk[active].hdr
    BY <1>2, <2>2 DEF Files
  <2>4. active \in Listing
    <3>1. wpc \in {"write", "writing"}
      BY <1>6 DEF WritePart, WriteBatch
    <3>2. fileOpen /\ len[active] >= 0
      BY <1>1, <3>1 DEF IInv, Control, ActiveFile
    <3> QED BY <1>1, <3>2 DEF IInv, ActiveFile
  <2>5. f.st = "live" /\ disk' = [disk EXCEPT ![active] = f]
    BY <2>1, <2>2, <2>3, <2>4 DEF Listing
  <2> QED BY <1>1, <1>3, <2>3, <2>4, <2>5
<1> QED BY <1>1, <1>4, <1>5, <1>6

\* The steps that write to the active file.
LEMMA WritesClean ==
  ASSUME IInv, IInv', CleanFiles, FirstLife, OpenActive \/ WriteHeader \/ WritePart \/ WriteBatch
  PROVE  CleanFiles' /\ FirstLife'
<1>1. /\ active' = active /\ UNCHANGED <<crashes, closing>> /\ active \in SegIds
      /\ wpc \notin {"down", "opening"} /\ wpc' \notin {"down", "opening"}
      /\ \A s \in SegIds \ {active} : disk'[s] = disk[s]
      /\ \/ disk'[active].hdr \in {"none", "ok"}
         \/ disk'[active].hdr = disk[active].hdr /\ active \in Listing
  BY ActiveWrites
<1>2. disk'[active].hdr # "foreign"
  BY <1>1 DEF CleanFiles
<1>3. \A s \in Listing' \ {active} : s \in Listing /\ Same(s) /\ disk'[s].dur = disk[s].dur
  BY <1>1 DEF Listing, Same
<1> QED BY <1>1, <1>2, <1>3, UsualClean

\* Deletions by make_room and ack.
LEMMA DeletionClean ==
  ASSUME IInv, IInv', CleanFiles, FirstLife, Evict \/ AckDelete
  PROVE  CleanFiles' /\ FirstLife'
<1>1. PICK s \in SegIds : disk' = [disk EXCEPT ![s].st = "gone"]
  BY DEF Evict, AckDelete
<1>2. /\ active' = active /\ UNCHANGED <<crashes, closing>>
      /\ wpc \notin {"down", "opening"} /\ wpc' \notin {"down", "opening"}
  BY DEF Evict, AckDelete, loopVars, envVars
<1>3. Listing' = Listing \ {s}
  BY <1>1, DeletedOne
<1>4. \A t \in SegIds \ {s} : disk'[t] = disk[t]
  BY <1>1 DEF IInv, TypeOK, TypeDisk
<1>5. \A t \in Listing' : t \in Listing /\ Same(t) /\ disk'[t].dur = disk[t].dur
  BY <1>3, <1>4 DEF Same, Listing
<1>6. active \in Listing' => disk'[active].hdr # "foreign"
  BY <1>5 DEF CleanFiles, Same
<1> QED BY <1>2, <1>5, <1>6, UsualClean

\* Steps that leave the files alone while the writer runs, and the end of one.
LEMMA QuietClean ==
  ASSUME IInv, IInv', CleanFiles, FirstLife,
         \/ AppendRecord \/ Tick \/ IdleTick \/ Close \/ StartRotate \/ EvictFails \/ DropPending
         \/ RoomMade \/ SealExhausted \/ Finish \/ IoFails \/ AckDeleteFails \/ TakeGaps \/ Crash
         \/ OpenFails
  PROVE  CleanFiles' /\ FirstLife'
<1>1. /\ wpc # "down" /\ (disk' = disk \/ disk' = SyncFile(active))
      /\ \/ /\ wpc' = "down" /\ (crashes' = crashes + 1 \/ crashes' = crashes)
            /\ crashes' = crashes => closing \/ wpc = "opening"
         \/ /\ wpc \notin {"down", "opening"} /\ wpc' \notin {"down", "opening"} /\ active' = active
            /\ UNCHANGED <<crashes, closing>> \/ crashes' = crashes + 1
  <2>1. CASE AppendRecord \/ Tick \/ IdleTick \/ TakeGaps \/ AckDeleteFails
    BY <2>1 DEF AppendRecord, Tick, FlushStep, IdleTick, TakeGaps, AckDeleteFails, diskVars, memVars,
       loopVars, envVars
  <2>2. CASE Close
    BY <2>2 DEF Close, FlushStep, NoWriter, diskVars
  <2>3. CASE StartRotate \/ EvictFails \/ DropPending \/ RoomMade
    BY <2>3 DEF StartRotate, EvictFails, DropPending, RoomMade, diskVars, memVars, loopVars, envVars
  <2>4. CASE SealExhausted \/ Finish
    BY <2>4 DEF SealExhausted, Finish, NoWriter, envVars
  <2>5. CASE IoFails
    <3>1. /\ disk' = disk /\ crashes' = crashes /\ FlushFailed
          /\ wpc \in {"active", "header", "write", "writing", "seal", "sync"}
      BY <2>5 DEF IoFails, diskVars
    <3>2. CASE closing
      BY <3>1, <3>2 DEF FlushFailed, NoWriter
    <3>3. CASE ~closing
      BY <3>1, <3>3 DEF FlushFailed
    <3> QED BY <3>2, <3>3
  <2>6. CASE Crash \/ OpenFails
    <3>1. crashes \in Int
      BY CountsAssumption DEF IInv, TypeOK, TypeHistory
    <3> QED BY <2>6, <3>1 DEF Crash, OpenFails, NoWriter, diskVars
  <2> QED BY <2>1, <2>2, <2>3, <2>4, <2>5, <2>6
<1>2. /\ Listing' = Listing /\ active \in SegIds
      /\ \A s \in SegIds : Same(s) /\ (s # active => disk'[s] = disk[s])
  BY <1>1, SyncedFiles DEF Same
<1>3. crashes \in Nat
  BY CountsAssumption DEF IInv, TypeOK, TypeHistory
<1>4. \A s \in Listing' : s \in SegIds
  BY DEF Listing
<1>5. CASE wpc' = "down"
  <2>1. crashes' # 0
    BY <1>1, <1>3, <1>5 DEF FirstLife
  <2> QED BY <1>2, <1>4, <1>5, <2>1, ExitClean
<1>6. CASE wpc' # "down"
  <2>1. active \in Listing' => disk'[active].hdr # "foreign"
    BY <1>2 DEF CleanFiles, Same
  <2>2. UNCHANGED <<crashes, closing>> \/ crashes' # 0
    BY <1>1, <1>3, <1>6
  <2> QED BY <1>1, <1>2, <1>4, <1>6, <2>1, <2>2, UsualClean
<1> QED BY <1>5, <1>6

\* Every step of the agent, in a run without damage.
LEMMA AgentClean ==
  ASSUME IInv, IInv', Keeps, CleanFiles, FirstLife, AgentOnly, Mended'
  PROVE  CleanFiles' /\ FirstLife'
<1>1. ~(RotFrame \/ RotHeader \/ RotCursor)
  <2>1. rot \in Nat /\ rot' = 0
    BY CountsAssumption DEF Mended, IInv, TypeOK, TypeHistory
  <2> QED BY <2>1 DEF RotFrame, RotHeader, RotCursor
<1>2. CASE Opening
  BY <1>2, LoadClean, OpenDeleteClean, OpenKeepClean, QuietClean DEF Opening
<1>3. CASE Flushing
  BY <1>3, WritesClean, DeletionClean, SealClean, QuietClean DEF Flushing
<1>4. CASE Acking
  BY <1>4, DeletionClean, QuietClean DEF Acking
<1>5. CASE \/ AppendRecord \/ Tick \/ IdleTick \/ Close \/ IoFails \/ TakeGaps \/ Crash
  BY <1>5, QuietClean
<1> QED BY <1>1, <1>2, <1>3, <1>4, <1>5 DEF AgentOnly

\* A power cut in the first life tears the active file only.
LEMMA PowerCutClean ==
  ASSUME IInv, IInv', CleanFiles, FirstLife, PowerCut, Mended'
  PROVE  CleanFiles' /\ FirstLife'
<1>1. /\ crashes = 0 /\ crashes' # 0 /\ wpc' = "down" /\ Listing' \subseteq Listing
  <2>1. crashes \in Nat /\ crashes' = crashes + 1 /\ crashes' <= 1 /\ wpc' = "down"
    BY CountsAssumption DEF Mended, IInv, TypeOK, TypeHistory, PowerCut, NoWriter
  <2>2. Listing' \subseteq Listing
    <3>1. PICK keep \in [Unflushed -> (-2)..MaxRecs], torn \in [Unflushed -> BOOLEAN] :
            disk' = [u \in SegIds |-> IF u \in Unflushed THEN CutFile(disk[u], keep[u], torn[u])
                                      ELSE disk[u]]
      BY DEF PowerCut
    <3> QED BY <3>1 DEF Listing, Unflushed
  <2> QED BY <2>1, <2>2
<1>2. PICK keep \in [Unflushed -> (-2)..MaxRecs], torn \in [Unflushed -> BOOLEAN] :
        disk' = [u \in SegIds |-> IF u \in Unflushed THEN CutFile(disk[u], keep[u], torn[u])
                                  ELSE disk[u]]
  BY DEF PowerCut
<1>3. Unflushed \subseteq Listing /\ Listing \subseteq SegIds
  BY DEF Unflushed, Listing
<1>4. ASSUME NEW s \in Listing, s # active PROVE disk'[s] = disk[s]
  <2>1. disk[s].dur >= Len(disk[s].recs) /\ disk[s].dur \in Int /\ Len(disk[s].recs) \in Int
    BY <1>1, <1>3, <1>4, FileFacts DEF FirstLife
  <2>2. s \notin Unflushed
    BY <2>1 DEF Unflushed
  <2> QED BY <1>2, <1>3, <1>4, <2>2
<1>5. ASSUME NEW s \in Listing' PROVE disk'[s].hdr # "foreign"
  <2>1. s \in Listing /\ s \in SegIds /\ disk[s].hdr # "foreign"
    BY <1>1, <1>3, <1>5 DEF CleanFiles
  <2>2. CASE s \notin Unflushed
    BY <1>2, <2>1, <2>2
  <2>3. CASE s \in Unflushed
    <3>1. PICK f \in Files, k \in Int : f = disk[s] /\ k = keep[s]
      <4>1. disk[s] \in Files /\ keep[s] \in (-2)..MaxRecs
        BY <1>2, <2>1, <2>3, FileFacts
      <4> QED BY <4>1, CountsAssumption
    <3>2. disk'[s] = CutFile(f, k, torn[s])
      BY <1>2, <2>1, <2>3, <3>1
    <3>3. CutFile(f, k, torn[s]).hdr \in {"none", f.hdr}
      BY CutFileShrinks
    <3> QED BY <2>1, <3>1, <3>2, <3>3
  <2> QED BY <2>2, <2>3
<1>6. ASSUME NEW s \in Listing', NEW t \in Listing', s < t PROVE Clean(s)'
  <2>1. s \in Listing /\ t \in Listing /\ s \in Int /\ t \in Int
    BY <1>1, <1>3 DEF SegIds
  <2>2. wpc # "down"
    BY <1>1, <2>1 DEF FirstLife
  <2>3. t <= active /\ active \in Int
    BY <2>1, <2>2 DEF IInv, Numbers, TypeOK, TypeMem
  <2>4. s # active
    BY <1>6, <2>1, <2>3
  <2>5. Same(s) /\ Clean(s)
    BY <1>4, <1>6, <2>1, <2>4 DEF Same, CleanFiles
  <2> QED BY <2>5, SameClean
<1>7. CleanFiles'
  BY <1>1, <1>5, <1>6 DEF CleanFiles
<1> QED BY <1>1, <1>7 DEF FirstLife

-----------------------------------------------------------------------------
(* The reader and corruption.                                              *)

\* A file outside the listing keeps its frames.
LEMMA GoneSame ==
  ASSUME IInv, AgentOnly, rot' = rot, NEW s \in SegIds, s \notin Listing'
  PROVE  Same(s)
<1>0. disk \in [SegIds -> Files] /\ disk[s] \in Files
  BY DEF IInv, TypeOK, TypeDisk
<1>1. CASE disk' = disk
  BY <1>1 DEF Same
<1>2. CASE OpenDelete \/ Evict \/ AckDelete
  <2>1. PICK t \in SegIds : disk' = [disk EXCEPT ![t].st = "gone"]
    BY <1>2 DEF OpenDelete, Evict, AckDelete
  <2>2. CASE s = t
    <3>1. disk'[s] = [disk[s] EXCEPT !.st = "gone"]
      BY <1>0, <2>1, <2>2
    <3>2. /\ [disk[s] EXCEPT !.st = "gone"].recs = disk[s].recs
          /\ [disk[s] EXCEPT !.st = "gone"].hdr = disk[s].hdr
      BY <1>0 DEF Files
    <3> QED BY <3>1, <3>2 DEF Same
  <2>3. CASE s # t
    BY <1>0, <2>1, <2>3 DEF Same
  <2> QED BY <2>2, <2>3
<1>3. CASE OpenKeep
  <2>1. PICK t \in SegIds : Oldest(t, todo) /\ disk' = [disk EXCEPT ![t] = Repair(t)]
    BY <1>3 DEF OpenKeep
  <2>2. t \in Listing
    BY <1>3, <2>1 DEF OpenKeep, Oldest, IInv, Numbers
  <2>3. disk'[t].st = "live"
    BY <1>0, <2>1, <2>2, RepairType DEF Listing
  <2>4. s # t
    BY <2>3 DEF Listing
  <2> QED BY <1>0, <2>1, <2>4 DEF Same
<1>4. CASE OpenActive \/ WriteHeader \/ WritePart \/ WriteBatch
  BY <1>4, ActiveWrites DEF Same
<1>5. CASE Seal \/ SealExhausted \/ Finish
  <2>1. wpc # "down" /\ (disk' = SyncFile(active) \/ disk' = disk)
    BY <1>5 DEF Seal, SealExhausted, Finish
  <2> QED BY <2>1, SyncedFiles DEF Same
<1>6. ~(RotFrame \/ RotHeader)
  <2>1. rot \in Int
    BY CountsAssumption DEF IInv, TypeOK, TypeHistory
  <2> QED BY <2>1 DEF RotFrame, RotHeader
<1>7. AgentOnly => \/ UNCHANGED disk \/ OpenDelete \/ Evict \/ AckDelete \/ OpenKeep
                   \/ OpenActive \/ WriteHeader \/ WritePart \/ WriteBatch
                   \/ Seal \/ SealExhausted \/ Finish \/ RotFrame \/ RotHeader
  BY DEF AgentOnly, Opening, OpenLoad, OpenFails, AppendRecord, Tick, IdleTick, Close, Flushing,
     StartRotate, EvictFails, DropPending, RoomMade, IoFails, Acking, AckDeleteFails, TakeGaps,
     Crash, RotCursor, diskVars
<1> QED BY <1>1, <1>2, <1>3, <1>4, <1>5, <1>6, <1>7

\* The file a reader holds is clean when it is deleted, and stays so.
LEMMA AgentOpenClean ==
  ASSUME IInv, IInv', ReaderControl, CleanFiles, OpenClean, AgentOnly, rot' = rot,
         UNCHANGED <<rpc, pos, external>>
  PROVE  OpenClean'
<1> SUFFICES ASSUME InFile, NEW p, p = pos[1], p \notin Listing'
             PROVE  Clean(p)'
  BY DEF OpenClean, InFile
<1>1. p \in SegIds /\ rpc # "off"
  BY DEF ReaderControl, InFile
<1>2. Same(p)
  BY <1>1, GoneSame
<1>3. CASE p \notin Listing
  BY <1>2, <1>3, SameClean DEF OpenClean
<1>4. CASE p \in Listing
  <2>1. Leaves(p)
    BY <1>4, ListingStep
  <2>2. ~(wpc = "opening" /\ p < acked[1])
    <3>1. CASE external
      <4>1. acked[1] = 0 /\ p > 0 /\ p \in Int
        BY <1>1, <3>1 DEF ReaderControl, NoAck, SegIds
      <4> QED BY <4>1
    <3>2. CASE ~external
      BY <1>1, <3>2 DEF ReaderControl
    <3> QED BY <3>1, <3>2
  <2>3. wpc \notin {"down", "opening"} /\ p < active
    BY <2>1, <2>2 DEF Leaves
  <2>4. Clean(p)
    BY <1>4, <2>3 DEF CleanFiles
  <2> QED BY <1>2, <2>4, SameClean
<1> QED BY <1>3, <1>4

\* A sealed file that a reader holds is clean.
LEMMA PastClean ==
  ASSUME IInv, ReaderControl, CleanFiles, OpenClean, InFile, NEW p, p = pos[1], Past(p)
  PROVE  Clean(p)
<1>1. p \in SegIds /\ rpc # "off"
  BY DEF ReaderControl, InFile
<1>2. CASE p \notin Listing
  BY <1>2 DEF OpenClean
<1>3. CASE p \in Listing /\ external
  <2>1. \A t \in Listing : t > p => p < t
    BY <1>1 DEF Listing, SegIds
  <2> QED BY <1>3, <2>1 DEF Past, CleanFiles
<1>4. CASE p \in Listing /\ ~external
  BY <1>1, <1>4 DEF Past, ReaderControl, CleanFiles
<1> QED BY <1>2, <1>3, <1>4

\* The steps of the reader.
LEMMA ReadingClean ==
  ASSUME Sound, CleanFiles, FirstLife, OpenClean, ~rcorrupt, Reading \/ StartReader
  PROVE  CleanFiles' /\ FirstLife' /\ OpenClean' /\ ~rcorrupt'
<1>0. IInv /\ ReaderControl /\ Position /\ RTypeOK
  BY DEF Sound
<1>1. UNCHANGED vars
  BY DEF Reading, StartReader, ListSegments, OpenFile, OpenDeleted, ReadHeader, ReadRecord, ReadNothing,
     CheckNewer, ReadAgain, LeaveSegment, Deliver
<1>2. UNCHANGED <<disk, wpc, active, todo, crashes, closing>> /\ Listing' = Listing
  BY <1>1 DEF vars, diskVars, memVars, loopVars, envVars, Listing
<1>3. \A s : Clean(s)' <=> Clean(s)
  BY <1>2 DEF Clean
<1>4. CleanFiles' /\ FirstLife'
  <2>1. CleanFiles'
    BY <1>2, <1>3 DEF CleanFiles
  <2> QED BY <1>2, <2>1 DEF FirstLife
<1>5. InFile' => pos'[1] = pos[1] /\ (InFile \/ (rpc = "open" /\ disk[pos[1]].st = "live"))
  <2>1. CASE StartReader \/ ListSegments \/ OpenFile \/ OpenDeleted \/ ReadNothing \/ CheckNewer
    BY <2>1 DEF StartReader, ListSegments, OpenFile, OpenDeleted, ReadNothing, CheckNewer, InFile
  <2>2. CASE ReadHeader \/ LeaveSegment
    BY <2>2 DEF ReadHeader, LeaveSegment, InFile
  <2>3. CASE ReadRecord \/ ReadAgain
    BY <2>3 DEF ReadRecord, ReadAgain, Deliver, InFile
  <2> QED BY <2>1, <2>2, <2>3 DEF Reading
<1>6. OpenClean'
  <2>1. InFile \/ rpc = "open" => pos[1] \in SegIds
    BY <1>0 DEF ReaderControl
  <2>2. PICK p : p = pos[1]
    OBVIOUS
  <2>3. InFile' /\ p \notin Listing => Clean(p)
    BY <1>5, <2>1, <2>2 DEF OpenClean, Listing
  <2>4. InFile' => pos'[1] = p
    BY <1>5, <2>2
  <2>5. InFile' /\ p \notin Listing' => Clean(p)'
    BY <1>2, <1>3, <2>3
  <2>6. Clean(p)' /\ pos'[1] = p => Clean(pos[1])'
    BY Zenon DEF Clean
  <2> QED BY <2>4, <2>5, <2>6 DEF OpenClean
<1>7. ~rcorrupt'
  <2>1. CASE ReadHeader
    <3>1. PICK p : p = pos[1]
      OBVIOUS
    <3>2. ASSUME disk[p].hdr # "ok", rsealed PROVE FALSE
      <4>1. InFile /\ Past(p)
        BY <1>0, <2>1, <3>1, <3>2 DEF ReadHeader, InFile, Position
      <4>2. Clean(p)
        BY <1>0, <3>1, <4>1, PastClean
      <4> QED BY <3>2, <4>2 DEF Clean
    <3> QED BY <1>0, <2>1, <3>1, <3>2 DEF ReadHeader, RTypeOK
  <2>2. CASE LeaveSegment
    <3>1. PICK p : p = pos[1]
      OBVIOUS
    <3>2. InFile /\ Past(p)
      BY <1>0, <2>2, <3>1 DEF LeaveSegment, InFile, Position
    <3>3. Clean(p) /\ p \in SegIds
      BY <1>0, <3>1, <3>2, PastClean DEF ReaderControl
    <3>4. \A i \in DOMAIN disk[p].recs : disk[p].recs[i] > 0 /\ disk[p].recs[i] \in Int
      BY <1>0, <3>3, FileFacts DEF Clean
    <3>5. ~AtBad
      BY <3>1, <3>4 DEF AtBad
    <3> QED BY <2>2, <3>5 DEF LeaveSegment
  <2>3. CASE ~ReadHeader /\ ~LeaveSegment
    BY <2>3 DEF Reading, StartReader, ListSegments, OpenFile, OpenDeleted, ReadRecord, ReadNothing,
       CheckNewer, ReadAgain, Deliver
  <2> QED BY <2>1, <2>2, <2>3
<1> QED BY <1>4, <1>6, <1>7

-----------------------------------------------------------------------------
(* The invariant.                                                          *)

\* The invariant holds at the start.
LEMMA RInitInv == RInit => RInv
<1> SUFFICES ASSUME RInit PROVE RInv
  OBVIOUS
<1>1. /\ Init /\ external \in BOOLEAN /\ rpc = "off" /\ pos = NoAck /\ rsealed = FALSE /\ rnext = NoAck
      /\ rlast = 0 /\ rcorrupt = FALSE /\ seen = {}
  BY KindsAssumption DEF RInit, NoAck
<1>2. IInv /\ Keeps
  BY <1>1, InitInv, InitKeeps
<1>3. /\ wpc = "down" /\ acked = NoAck /\ cursor = NoAck /\ crashes = 0 /\ rot = 0 /\ ~closing
      /\ \A s \in SegIds : disk[s] = Absent
  BY <1>1 DEF Init
<1>4. Listing = {}
  BY <1>3 DEF Listing, Absent
<1>5. NoAck[1] = 0 /\ NoAck \in (0..MaxSeg) \X Nat /\ NoAck \in (0..MaxSeg + 1) \X Nat
  BY CountsAssumption DEF NoAck
<1>6. RTypeOK
  <2>1. TypeOK
    BY <1>2 DEF IInv
  <2>2. pos \in (0..MaxSeg + 1) \X Nat /\ rnext \in (0..MaxSeg) \X Nat
    BY <1>1, <1>5
  <2>3. rlast \in 0..MaxRecs /\ seen \subseteq Recs
    BY <1>1, CountsAssumption
  <2>4. rsealed \in BOOLEAN /\ rcorrupt \in BOOLEAN
    BY <1>1
  <2> QED BY <1>1, <2>1, <2>2, <2>3, <2>4 DEF RTypeOK
<1>7. ReaderControl /\ Position
  BY <1>1, <1>3, <1>5 DEF ReaderControl, Position, InFile, NoAck
<1>8. \A c : MarkOK(c)
  BY <1>3, <1>4 DEF MarkOK, Covered, ReadableAt
<1>9. Remains /\ NoneFits /\ Marks
  BY <1>3, <1>8 DEF Remains, NoneFits, Marks
<1>10. CleanInv
  BY <1>1, <1>3, <1>4 DEF CleanInv, CleanFiles, FirstLife, OpenClean, InFile
<1> QED BY <1>2, <1>6, <1>7, <1>9, <1>10 DEF RInv, Sound

\* Damage and ends of the agent are counted up only.
LEMMA MendedBefore ==
  ASSUME IInv, Mended', rot' \in {rot, rot + 1}, crashes' \in {crashes, crashes + 1}
  PROVE  Mended /\ rot' = rot
<1>1. rot \in Nat /\ crashes \in Nat
  BY CountsAssumption DEF IInv, TypeOK, TypeHistory
<1> QED BY <1>1 DEF Mended

\* Damage and ends of the process are counted one at a time.
LEMMA AgentCounts ==
  ASSUME AgentOnly \/ PowerCut
  PROVE  rot' \in {rot, rot + 1} /\ crashes' \in {crashes, crashes + 1}
<1>1. CASE Opening
  BY <1>1 DEF Opening, OpenLoad, OpenDelete, OpenKeep, OpenFails, envVars
<1>2. CASE AppendRecord \/ Tick \/ IdleTick \/ Close
  BY <1>2 DEF AppendRecord, Tick, IdleTick, Close, envVars
<1>3. CASE Flushing
  BY <1>3 DEF Flushing, OpenActive, WriteHeader, WritePart, WriteBatch, StartRotate, Evict, EvictFails,
     DropPending, RoomMade, Seal, SealExhausted, Finish, envVars
<1>4. CASE IoFails \/ Acking \/ TakeGaps
  BY <1>4 DEF IoFails, Acking, AckDelete, AckDeleteFails, TakeGaps, envVars
<1>5. CASE Crash \/ PowerCut \/ RotFrame \/ RotHeader \/ RotCursor
  BY <1>5 DEF Crash, PowerCut, RotFrame, RotHeader, RotCursor
<1> QED BY <1>1, <1>2, <1>3, <1>4, <1>5 DEF AgentOnly

\* The end of the reader keeps its types.
LEMMA NoReaderTypes ==
  ASSUME RTypeOK, TypeOK', NoReader
  PROVE  RTypeOK'
<1>1. <<0, 0>> \in (0..MaxSeg + 1) \X Nat /\ NoAck \in (0..MaxSeg) \X Nat
  BY CountsAssumption DEF NoAck
<1>2. pos' \in (0..MaxSeg + 1) \X Nat /\ rnext' \in (0..MaxSeg) \X Nat
  BY <1>1 DEF NoReader
<1>3. rlast' \in 0..MaxRecs /\ seen' \subseteq Recs
  BY CountsAssumption DEF RTypeOK, NoReader
<1>4. external' \in BOOLEAN /\ rsealed' \in BOOLEAN /\ rcorrupt' \in BOOLEAN
  BY DEF RTypeOK, NoReader
<1>5. rpc' = "off"
  BY DEF NoReader
<1> QED BY <1>2, <1>3, <1>4, <1>5 DEF RTypeOK

\* The agent's steps keep the invariant.
LEMMA AgentStepInv == RInv /\ AgentStep => RInv'
<1> SUFFICES ASSUME RInv, AgentStep PROVE RInv'
  OBVIOUS
<1>1. /\ IInv /\ Keeps /\ RTypeOK /\ CleanInv
      /\ ReaderControl /\ Position /\ Remains /\ NoneFits /\ Marks
  BY DEF RInv, Sound
<1>2. AgentOnly
  BY DEF AgentStep, AgentOnly
<1>3. Next
  BY <1>2 DEF AgentOnly, Next, Environment
<1>4. IInv' /\ Keeps'
  BY <1>1, <1>3, NextInv, NextKeeps
<1>5. ReaderControl' /\ Position' /\ Remains' /\ NoneFits' /\ Marks'
  BY <1>1, <1>4, AgentPosition, AgentMarks
<1>6. NoReader \/ UNCHANGED readerVars
  BY DEF AgentStep
<1>7. RTypeOK'
  <2>1. TypeOK'
    BY <1>4 DEF IInv
  <2>2. CASE UNCHANGED readerVars
    BY <1>1, <2>1, <2>2 DEF RTypeOK, readerVars
  <2>3. CASE NoReader
    BY <1>1, <2>1, <2>3, NoReaderTypes
  <2> QED BY <1>6, <2>2, <2>3
<1>8. CleanInv'
  <2> SUFFICES ASSUME Mended' PROVE (CleanFiles /\ FirstLife /\ OpenClean /\ ~rcorrupt)'
    BY DEF CleanInv
  <2>1. Mended /\ rot' = rot
    BY <1>1, <1>2, AgentCounts, MendedBefore
  <2>2. CleanFiles /\ FirstLife /\ OpenClean /\ ~rcorrupt
    BY <1>1, <2>1 DEF CleanInv
  <2>3. CleanFiles' /\ FirstLife'
    BY <1>1, <1>2, <1>4, <2>2, AgentClean
  <2>4. CASE UNCHANGED readerVars
    <3>1. UNCHANGED <<rpc, pos, external, rcorrupt>>
      BY <2>4 DEF readerVars
    <3> QED BY <1>1, <1>2, <1>4, <2>1, <2>2, <2>3, <3>1, AgentOpenClean
  <2>5. CASE NoReader
    BY <2>3, <2>5 DEF NoReader, OpenClean, InFile
  <2> QED BY <1>6, <2>4, <2>5
<1> QED BY <1>4, <1>5, <1>7, <1>8 DEF RInv, Sound

\* So does the end of the machine,
LEMMA MachineEndsInv == RInv /\ MachineEnds => RInv'
<1> SUFFICES ASSUME RInv, MachineEnds PROVE RInv'
  OBVIOUS
<1>1. /\ IInv /\ Keeps /\ RTypeOK /\ CleanInv
      /\ ReaderControl /\ Position /\ Remains /\ NoneFits /\ Marks
  BY DEF RInv, Sound
<1>2. PowerCut /\ NoReader /\ Next
  BY DEF MachineEnds, Next, Environment
<1>3. IInv' /\ Keeps'
  BY <1>1, <1>2, NextInv, NextKeeps
<1>4. ReaderControl' /\ Position' /\ Remains' /\ NoneFits' /\ Marks'
  BY <1>1, <1>3, MachineEndsReader
<1>5. RTypeOK'
  BY <1>1, <1>2, <1>3, NoReaderTypes DEF IInv
<1>6. CleanInv'
  <2> SUFFICES ASSUME Mended' PROVE (CleanFiles /\ FirstLife /\ OpenClean /\ ~rcorrupt)'
    BY DEF CleanInv
  <2>1. Mended
    BY <1>1, <1>2, AgentCounts, MendedBefore
  <2>2. CleanFiles' /\ FirstLife'
    BY <1>1, <1>2, <1>3, <2>1, PowerCutClean DEF CleanInv
  <2> QED BY <1>2, <2>2 DEF NoReader, OpenClean, InFile
<1> QED BY <1>3, <1>4, <1>5, <1>6 DEF RInv, Sound

\* the start of a reader,
LEMMA StartReaderInv == RInv /\ StartReader => RInv'
<1> SUFFICES ASSUME RInv, StartReader PROVE RInv'
  OBVIOUS
<1>1. /\ Sound /\ IInv /\ Keeps /\ RTypeOK /\ CleanInv
      /\ ReaderControl /\ Position /\ Remains /\ NoneFits /\ Marks
  BY DEF RInv, Sound
<1>2. /\ UNCHANGED <<vars, external, rsealed, rnext, rlast, seen, rcorrupt>>
      /\ rpc' = "list" /\ pos' \in {NoAck, acked}
  BY DEF StartReader, NoAck
<1>3. IInv' /\ Keeps' /\ Remains' /\ NoneFits'
  BY <1>1, <1>2, StillWriter
<1>4. ReaderControl' /\ Position' /\ Marks'
  BY <1>1, StartReaderStep
<1>5. pos' \in (0..MaxSeg + 1) \X Nat
  BY <1>1, <1>2, MarkTypes DEF MarkSet, Cursors
<1>6. RTypeOK'
  BY <1>1, <1>2, <1>3, <1>5 DEF RTypeOK, IInv
<1>7. CleanInv'
  <2>1. UNCHANGED <<rot, crashes>>
    BY <1>2 DEF vars, envVars
  <2> QED BY <1>1, <2>1, ReadingClean DEF CleanInv, Mended
<1> QED BY <1>3, <1>4, <1>6, <1>7 DEF RInv, Sound

\* each of its steps,
LEMMA ReadingInv == RInv /\ Reading => RInv'
<1> SUFFICES ASSUME RInv, Reading PROVE RInv'
  OBVIOUS
<1>1. /\ Sound /\ IInv /\ Keeps /\ RTypeOK /\ CleanInv
      /\ ReaderControl /\ Position /\ Remains /\ NoneFits /\ Marks
  BY DEF RInv, Sound
<1>2. UNCHANGED vars /\ seen \subseteq seen'
  BY DEF Reading, ListSegments, OpenFile, OpenDeleted, ReadHeader, ReadRecord, ReadNothing,
     CheckNewer, ReadAgain, LeaveSegment, Deliver
<1>3. IInv' /\ Keeps' /\ Remains' /\ NoneFits'
  BY <1>1, <1>2, StillWriter
<1>4. ReaderControl' /\ Position' /\ Marks' /\ RTypeOK'
  <2>1. rsealed \in BOOLEAN
    BY <1>1 DEF RTypeOK
  <2>2. CASE ListSegments
    BY <1>1, <2>2, ListStep
  <2>3. CASE OpenFile \/ ReadNothing \/ CheckNewer
    BY <1>1, <2>3, StayStep
  <2>4. CASE OpenDeleted
    BY <1>1, <2>1, <2>4, StayStep, SkipStep
  <2>5. CASE ReadHeader
    BY <1>1, <2>1, <2>5, HeaderStep, StayStep, SkipStep
  <2>6. CASE ReadRecord \/ ReadAgain
    BY <1>1, <2>6, DeliverStep
  <2>7. CASE LeaveSegment
    BY <1>1, <2>7, SkipStep
  <2> QED BY <2>2, <2>3, <2>4, <2>5, <2>6, <2>7 DEF Reading
<1>5. CleanInv'
  <2>1. UNCHANGED <<rot, crashes>>
    BY <1>2 DEF vars, envVars
  <2> QED BY <1>1, <2>1, ReadingClean DEF CleanInv, Mended
<1> QED BY <1>3, <1>4, <1>5 DEF RInv, Sound

\* and an ack of what was delivered.
LEMMA AckDeliveredInv == RInv /\ AckDelivered => RInv'
<1> SUFFICES ASSUME RInv, AckDelivered PROVE RInv'
  OBVIOUS
<1>1. /\ Sound' /\ UNCHANGED <<disk, rot, crashes, closing, active, readerVars>>
      /\ wpc \notin {"down", "opening"} /\ wpc' \in {"idle", "acking"} /\ CleanInv /\ IInv /\ IInv'
  BY AckDeliveredStep DEF RInv, Sound
<1>2. UNCHANGED <<rpc, pos, rcorrupt>> /\ Listing' = Listing
  BY <1>1 DEF readerVars, Listing
<1>3. \A s : Clean(s)' <=> Clean(s)
  BY <1>1 DEF Clean
<1>4. CleanInv'
  <2> SUFFICES ASSUME Mended' PROVE (CleanFiles /\ FirstLife /\ OpenClean /\ ~rcorrupt)'
    BY DEF CleanInv
  <2>1. CleanFiles /\ FirstLife /\ OpenClean /\ ~rcorrupt
    BY <1>1 DEF CleanInv, Mended
  <2>2. CleanFiles'
    BY <1>1, <1>2, <1>3, <2>1 DEF CleanFiles
  <2>3. FirstLife'
    BY <1>1, <1>2, <2>1 DEF FirstLife
  <2>4. OpenClean'
    <3>1. InFile' = InFile /\ pos'[1] = pos[1]
      BY <1>2 DEF InFile
    <3>2. PICK p : p = pos[1]
      OBVIOUS
    <3>3. InFile' /\ p \notin Listing' => Clean(p)'
      BY <1>2, <1>3, <2>1, <3>1, <3>2 DEF OpenClean
    <3>4. Clean(p)' /\ pos'[1] = p => Clean(pos[1])'
      BY Zenon DEF Clean
    <3> QED BY <3>1, <3>2, <3>3, <3>4 DEF OpenClean
  <2> QED BY <1>2, <2>1, <2>2, <2>3, <2>4
<1> QED BY <1>1, <1>4 DEF RInv

\* Every step of the composition keeps the invariant.
LEMMA RNextInv == RInv /\ [RNext]_rvars => RInv'
<1> SUFFICES ASSUME RInv, [RNext]_rvars PROVE RInv'
  OBVIOUS
<1>1. CASE RNext
  BY <1>1, AgentStepInv, MachineEndsInv, StartReaderInv, ReadingInv, AckDeliveredInv DEF RNext
<1>2. CASE UNCHANGED rvars
  <2>1. /\ IInv /\ Keeps /\ RTypeOK /\ CleanInv
        /\ ReaderControl /\ Position /\ Remains /\ NoneFits /\ Marks
    BY DEF RInv, Sound
  <2>2. /\ UNCHANGED vars /\ UNCHANGED <<disk, cursor, wpc, active, acked, closing, todo, crashes, rot>>
        /\ UNCHANGED <<external, rpc, pos, rsealed, rnext, rlast, seen, rcorrupt>>
    BY <1>2 DEF rvars, vars, diskVars, memVars, loopVars, envVars, readerVars
  <2>3. /\ IInv' /\ Keeps' /\ Remains' /\ NoneFits' /\ Listing' = Listing
        /\ \A c \in Cursors : MarkOK(c) => MarkOK(c)'
    BY <2>1, <2>2, StillWriter
  <2>4. RTypeOK' /\ ReaderControl'
    BY <2>1, <2>2, <2>3 DEF IInv, RTypeOK, ReaderControl, InFile
  <2>5. Position'
    BY <2>1, <2>2, <2>3 DEF Position, Past, InFile
  <2>6. Marks'
    <3>1. MarkSet' = MarkSet /\ MarkSet \subseteq Cursors
      BY <2>1, <2>2, MarkTypes DEF MarkSet, LoadCursor
    <3> QED BY <2>1, <2>3, <3>1 DEF Marks
  <2>7. CleanInv'
    <3>1. (\A s : Clean(s)' <=> Clean(s)) /\ (Mended' <=> Mended)
      BY <2>2 DEF Clean, Mended
    <3>2. CleanFiles' <=> CleanFiles
      BY <2>2, <2>3, <3>1 DEF CleanFiles
    <3>3. FirstLife' <=> FirstLife
      BY <2>2, <2>3 DEF FirstLife
    <3>4. OpenClean' <=> OpenClean
      BY <2>2, <2>3 DEF OpenClean, Clean, InFile
    <3> QED BY <2>1, <2>2, <3>1, <3>2, <3>3, <3>4 DEF CleanInv
  <2> QED BY <2>3, <2>4, <2>5, <2>6, <2>7 DEF RInv, Sound
<1> QED BY <1>1, <1>2

\* What a reader may rely on follows from the invariant.
LEMMA RInvImplies == RInv => ReaderOK
<1> SUFFICES ASSUME RInv PROVE ReaderOK
  OBVIOUS
<1>1. RTypeOK /\ Marks /\ CleanInv /\ IInv
  BY DEF RInv, Sound
<1>2. NoSkip
  BY <1>1 DEF Marks, MarkSet, MarkOK, Covered, NoSkip
<1>3. AckedWereDelivered
  BY <1>1 DEF Marks, MarkSet, MarkOK, Covered, LoadCursor, AckedWereDelivered
<1>4. NoFalseCorruption
  <2>1. rot \in Nat /\ crashes \in Nat
    BY <1>1, CountsAssumption DEF IInv, TypeOK, TypeHistory
  <2> QED BY <1>1, <2>1 DEF CleanInv, Mended, NoFalseCorruption
<1> QED BY <1>1, <1>2, <1>3, <1>4 DEF ReaderOK

-----------------------------------------------------------------------------
(* Theorem.                                                                *)

\* A reader beside the writer, in this process or another, delivers every
\* record it could read before it moves past it, over every rotation, deletion,
\* failed write and restart; what is behind the persisted cursor was
\* delivered; and it takes nothing for corrupt but damage at rest or what a
\* second end of the agent tore (next_record, next_segment, enter_segment, ack).
THEOREM ReaderAlwaysOK == RSpec => []ReaderOK
<1>1. RInit => RInv
  BY RInitInv
<1>2. RInv /\ [RNext]_rvars => RInv'
  BY RNextInv
<1>3. RInv => ReaderOK
  BY RInvImplies
<1> QED BY <1>1, <1>2, <1>3, PTL DEF RSpec

-----------------------------------------------------------------------------
(***************************************************************************)
(* The files, the queue and the cursor implement the log of EventLog:      *)
(* every step of the writer, the reader and the machine is a step of the   *)
(* log, or leaves all it shows unchanged.  LInv is the invariant on top of *)
(* RInv; then each kind of step has a lemma saying what it does to the     *)
(* records held and to the durable ones, and one saying which step of the  *)
(* log that is.                                                            *)
(***************************************************************************)

(* The inductive invariant.                                                *)

\* What an ack has still to delete is behind the acked position.
AckTodo == wpc = "acking" => \A s \in todo : s < acked[1]

\* What a reader finds, also in a deleted file it holds open, was offered.
AllOffered == \A s \in SegIds : \A i \in DOMAIN disk[s].recs : disk[s].recs[i] <= nrec

LInv == RInv /\ Counts /\ AckTodo /\ AllOffered

\* The records of the log, and those of them a flush covered.
Held == OnDisk(disk) \cup Range(pending)
Durable == With({"durable"})

\* Parts of the invariant the lemmas below name.
LEMMA InvParts ==
  ASSUME RInv
  PROVE  IInv /\ Keeps /\ Remains /\ Marks /\ RTypeOK /\ ReaderControl /\ Position
BY DEF RInv, Sound

-----------------------------------------------------------------------------
(* What is held.                                                           *)

\* A record is on disk when a reader can find it in a file.
LEMMA OnDiskIs ==
  /\ \A r : r \in OnDisk(disk) <=> \E s \in SegIds : r \in Readable(disk[s])
  /\ \A r : r \in OnDisk(disk') <=> \E s \in SegIds : r \in Readable(disk'[s])
BY DEF OnDisk

\* Files that show the same records hold the same log.
LEMMA SameDisk ==
  ASSUME \A s \in SegIds : Readable(disk'[s]) = Readable(disk[s])
  PROVE  OnDisk(disk') = OnDisk(disk)
BY OnDiskIs

\* What a file shows is told by its state, its header and its frames.
LEMMA ReadableSame ==
  ASSUME NEW s, disk'[s].st = disk[s].st, disk'[s].hdr = disk[s].hdr, disk'[s].recs = disk[s].recs
  PROVE  Readable(disk'[s]) = Readable(disk[s])
BY DEF Readable

\* What a flush covered is in a file.
LEMMA DurableOnDisk ==
  ASSUME IInv, Keeps
  PROVE  Durable \subseteq OnDisk(disk)
<1> SUFFICES ASSUME NEW r \in Recs, fate[r] = "durable" PROVE r \in OnDisk(disk)
  BY DEF Durable, With
<1>1. Somewhere(r)
  BY DEF Keeps, Placed, Safe, Somewhere
<1> QED BY <1>1, PlacedReadable

\* The same in the next state.
LEMMA DurableOnDiskNext ==
  ASSUME IInv', Keeps'
  PROVE  Durable' \subseteq OnDisk(disk)'
<1>1. (IInv /\ Keeps => Durable \subseteq OnDisk(disk))'
  BY DurableOnDisk, PTL
<1> QED BY <1>1

\* A record that gets another fate is no longer durable.
LEMMA MarkDurable ==
  ASSUME NEW S, NEW v, v # "durable", fate' = Mark(S, v)
  PROVE  Durable' = Durable \ S
<1>1. \A r \in Recs : fate'[r] = IF r \in S THEN v ELSE fate[r]
  BY DEF Mark
<1> QED BY <1>1 DEF Durable, With

\* The same when none of those marked was durable.
LEMMA MarkOthers ==
  ASSUME NEW S, NEW v, v # "durable", fate' = Mark(S, v), \A r \in S : fate[r] # "durable"
  PROVE  Durable' = Durable
<1>1. Durable' = Durable \ S
  BY MarkDurable
<1> QED BY <1>1 DEF Durable, With

\* A record is in one file only.
LEMMA ReadableOnce ==
  ASSUME IInv, NEW s \in SegIds, NEW t \in SegIds, s # t
  PROVE  Readable(disk[s]) \cap Readable(disk[t]) = {}
<1> SUFFICES ASSUME NEW r, r \in Readable(disk[s]), r \in Readable(disk[t]) PROVE FALSE
  OBVIOUS
<1>1. PICK i \in DOMAIN disk[s].recs :
        /\ i \in 1..ValidCount(disk[s].recs) /\ disk[s].recs[i] = r
        /\ \A j \in 1..i : disk[s].recs[j] > 0
  BY ReadableFacts
<1>2. PICK k \in DOMAIN disk[t].recs :
        /\ k \in 1..ValidCount(disk[t].recs) /\ disk[t].recs[k] = r
        /\ \A j \in 1..k : disk[t].recs[j] > 0
  BY ReadableFacts
<1>3. s \in Listing /\ t \in Listing /\ r \in Recs /\ r \in Int /\ r > 0
  BY ReadableFacts DEF Recs
<1>4. s \in Int /\ t \in Int
  BY DEF SegIds
<1>5. CASE s < t
  BY <1>1, <1>2, <1>3, <1>5 DEF IInv, LogInOrder
<1>6. CASE t < s
  BY <1>1, <1>2, <1>3, <1>6 DEF IInv, LogInOrder
<1> QED BY <1>4, <1>5, <1>6

\* What damage or a deletion takes from a file was in no other place.
LEMMA TakenFrom ==
  ASSUME IInv, NEW s \in SegIds, wpc # "down" => s # active, NEW S \in SUBSET Readable(disk[s]),
         \A t \in SegIds : t # s => Readable(disk'[t]) = Readable(disk[t]),
         Readable(disk'[s]) = Readable(disk[s]) \ S,
         pending' = pending, NEW v, v # "durable", fate' = Mark(S, v)
  PROVE  S \subseteq Held /\ Held' = Held \ S /\ Durable' = Durable \ S
<1>1. \A t \in SegIds : t # s => Readable(disk[s]) \cap Readable(disk[t]) = {}
  BY ReadableOnce
<1>2. OnDisk(disk') = OnDisk(disk) \ S
  BY <1>1, OnDiskIs
<1>3. \A r \in S : r \notin Range(pending)
  BY ReadableNotQueued
<1>4. S \subseteq OnDisk(disk)
  BY OnDiskIs
<1> QED BY <1>2, <1>3, <1>4, MarkDurable DEF Held

\* A deletion takes what was in the file, and nothing else.
LEMMA DeletionTakes ==
  ASSUME IInv, NEW s \in SegIds, s # active, disk' = [disk EXCEPT ![s].st = "gone"],
         pending' = pending, NEW v, v # "durable", fate' = Mark(Readable(disk[s]), v)
  PROVE  /\ Readable(disk[s]) \subseteq Held
         /\ Held' = Held \ Readable(disk[s])
         /\ Durable' = Durable \ Readable(disk[s])
<1>1. disk \in [SegIds -> Files] /\ disk[s] \in Files
  BY DEF IInv, TypeOK, TypeDisk
<1>2. disk'[s].st = "gone"
  <2>1. disk'[s] = [disk[s] EXCEPT !.st = "gone"]
    BY <1>1
  <2> QED BY <1>1, <2>1 DEF Files
<1>3. Readable(disk'[s]) = Readable(disk[s]) \ Readable(disk[s])
  BY <1>2 DEF Readable
<1>4. \A t \in SegIds : t # s => Readable(disk'[t]) = Readable(disk[t])
  BY <1>1
<1> QED BY <1>3, <1>4, TakenFrom

\* Only the frames of one file change, and what it no longer shows, or shows
\* now, is queued.
LEMMA SameHeld ==
  ASSUME NEW a \in SegIds, \A s \in SegIds : s # a => Readable(disk'[s]) = Readable(disk[s]),
         Readable(disk[a]) \subseteq Readable(disk'[a]) \cup Range(pending'),
         Readable(disk'[a]) \subseteq Readable(disk[a]) \cup Range(pending),
         Range(pending') \subseteq Range(pending),
         Range(pending) \subseteq Readable(disk'[a]) \cup Range(pending')
  PROVE  Held' = Held
<1>1. Held = OnDisk(disk) \cup Range(pending) /\ Held' = OnDisk(disk') \cup Range(pending')
  BY DEF Held
<1>2. ASSUME NEW r, r \in Held PROVE r \in Held'
  <2>1. CASE r \in Range(pending)
    BY <1>1, <2>1, OnDiskIs
  <2>2. CASE \E s \in SegIds : r \in Readable(disk[s])
    BY <1>1, <2>2, OnDiskIs
  <2> QED BY <1>1, <1>2, <2>1, <2>2, OnDiskIs
<1>3. ASSUME NEW r, r \in Held' PROVE r \in Held
  <2>1. CASE r \in Range(pending')
    BY <1>1, <2>1
  <2>2. CASE \E s \in SegIds : r \in Readable(disk'[s])
    BY <1>1, <2>2, OnDiskIs
  <2> QED BY <1>1, <1>3, <2>1, <2>2, OnDiskIs
<1> QED BY <1>2, <1>3

-----------------------------------------------------------------------------
(* The writer's own files.                                                 *)

\* What is in the active file past its last good length is queued.
LEMMA TailQueued ==
  ASSUME Remains, wpc # "down", len[active] >= 0, NEW j \in DOMAIN disk[active].recs,
         j > len[active], disk[active].recs[j] > 0
  PROVE  disk[active].recs[j] \in Range(pending)
<1>1. j - len[active] \in 1..Len(pending) /\ disk[active].recs[j] = pending[j - len[active]]
  BY DEF Remains, InBatch, Rewritten
<1>2. j - len[active] \in DOMAIN pending
  BY <1>1
<1> QED BY <1>1, <1>2 DEF Range

\* A write that keeps the good length and puts queued records behind it shows
\* and hides only these.
LEMMA RewriteShows ==
  ASSUME IInv, IInv', Remains, wpc # "down", active \in Listing, len[active] >= 0,
         disk'[active].st = "live", disk'[active].hdr = disk[active].hdr,
         \A j \in 1..len[active] :
           j \in DOMAIN disk'[active].recs /\ disk'[active].recs[j] = disk[active].recs[j],
         \A j \in DOMAIN disk'[active].recs :
           \/ j <= len[active] \/ disk'[active].recs[j] <= 0
           \/ disk'[active].recs[j] \in Range(pending)
  PROVE  /\ Readable(disk[active]) \subseteq Readable(disk'[active]) \cup Range(pending)
         /\ Readable(disk'[active]) \subseteq Readable(disk[active]) \cup Range(pending)
<1>1. /\ disk \in [SegIds -> Files] /\ disk' \in [SegIds -> Files] /\ active \in SegIds
      /\ len[active] \in Int /\ len[active] <= Len(disk[active].recs)
  BY DEF IInv, TypeOK, TypeDisk, TypeMem, Listing, ActiveFile
<1>2. PICK f \in Files, g \in Files : f = disk[active] /\ g = disk'[active]
  BY <1>1
<1>3. /\ DOMAIN f.recs = 1..Len(f.recs) /\ Len(f.recs) \in Nat
      /\ DOMAIN g.recs = 1..Len(g.recs) /\ Len(g.recs) \in Nat
  BY DEF Files
<1>4. f.st = "live" /\ g.st = "live" /\ g.hdr = f.hdr
  BY <1>2 DEF Listing
<1>5. ASSUME NEW r, r \in Readable(f) PROVE r \in Readable(g) \cup Range(pending)
  <2>1. PICK i \in DOMAIN f.recs : f.recs[i] = r /\ \A j \in 1..i : f.recs[j] > 0
    BY <1>5, ReadableOf
  <2>2. f.hdr = "ok"
    BY <1>5, ReadableOf
  <2>3. CASE i <= len[active]
    <3>1. \A j \in 1..i : j \in 1..len[active]
      BY <1>1, <1>3, <2>3
    <3>2. i \in 1..len[active]
      BY <1>3, <2>3
    <3>3. i \in DOMAIN g.recs /\ g.recs[i] = r /\ \A j \in 1..i : g.recs[j] > 0
      BY <1>2, <2>1, <3>1, <3>2
    <3> QED BY <1>4, <2>2, <3>3, ReadableOf
  <2>4. CASE i > len[active]
    <3>1. f.recs[i] > 0
      BY <1>3, <2>1
    <3> QED BY <1>2, <2>1, <2>4, <3>1, TailQueued
  <2> QED BY <1>1, <1>3, <2>3, <2>4
<1>6. ASSUME NEW r, r \in Readable(g) PROVE r \in Readable(f) \cup Range(pending)
  <2>1. PICK i \in DOMAIN g.recs : g.recs[i] = r /\ \A j \in 1..i : g.recs[j] > 0
    BY <1>6, ReadableOf
  <2>2. g.hdr = "ok"
    BY <1>6, ReadableOf
  <2>3. CASE i <= len[active]
    <3>1. \A j \in 1..i : j \in 1..len[active]
      BY <1>1, <1>3, <2>3
    <3>2. i \in 1..len[active] /\ i \in DOMAIN f.recs
      BY <1>1, <1>2, <1>3, <2>3
    <3>3. f.recs[i] = r /\ \A j \in 1..i : f.recs[j] > 0
      BY <1>2, <2>1, <3>1, <3>2
    <3> QED BY <1>4, <2>2, <3>2, <3>3, ReadableOf
  <2>4. CASE i > len[active]
    <3>1. g.recs[i] > 0
      BY <1>3, <2>1
    <3>2. g.recs[i] \in Int
      BY <1>3, CountsAssumption DEF Files, Frames
    <3> QED BY <1>1, <1>2, <1>3, <2>1, <2>4, <3>1, <3>2
  <2> QED BY <1>1, <1>3, <2>3, <2>4
<1> QED BY <1>2, <1>5, <1>6

\* A file of no frames shows nothing.
LEMMA EmptyShows ==
  ASSUME NEW f \in Files, f.recs = <<>> \/ f.st # "live" \/ f.hdr # "ok"
  PROVE  Readable(f) = {}
<1>1. \A r : r \notin Readable(f)
  <2>1. f.recs = <<>> => DOMAIN f.recs = {}
    OBVIOUS
  <2> QED BY <2>1, ReadableOf
<1> QED BY <1>1

\* Cutting the active file at its last good length, or creating it, hides only
\* what is queued.
LEMMA OpenActiveHeld ==
  ASSUME IInv, IInv', Remains, OpenActive
  PROVE  Held' = Held
<1>1. /\ disk \in [SegIds -> Files] /\ disk' \in [SegIds -> Files] /\ active \in SegIds
      /\ wpc # "down" /\ pending' = pending /\ len[active] \in Int
  BY DEF IInv, TypeOK, TypeDisk, TypeMem, Control, OpenActive
<1>2. \A s \in SegIds : s # active => Readable(disk'[s]) = Readable(disk[s])
  BY <1>1 DEF OpenActive
<1>3. CASE len[active] < 0
  <2>1. disk'[active].hdr = "none"
    BY <1>1, <1>3 DEF OpenActive
  <2>2. disk[active].recs = <<>> \/ disk[active].st # "live"
    BY <1>1, <1>3 DEF IInv, ActiveFile, Listing
  <2>3. Readable(disk'[active]) = {} /\ Readable(disk[active]) = {}
    BY <1>1, <2>1, <2>2, EmptyShows
  <2> QED BY <1>1, <1>2, <2>3, SameHeld
<1>4. CASE len[active] >= 0
  <2>1. active \in Listing /\ len[active] \in 0..Len(disk[active].recs)
    BY <1>1, <1>4 DEF IInv, ActiveFile
  <2>2. PICK f \in Files : f = disk[active]
    BY <1>1
  <2>3. PICK q \in Seq(Frames) : q = CutAt(f.recs, len[active])
    BY <1>1, CutAtType DEF Files
  <2>4. disk'[active] = [f EXCEPT !.recs = q]
    BY <1>1, <1>4, <2>2, <2>3 DEF OpenActive
  <2>5. disk'[active].recs = q /\ disk'[active].st = f.st /\ disk'[active].hdr = f.hdr
    BY <2>2, <2>4 DEF Files
  <2>6. /\ Len(q) = len[active] /\ DOMAIN q = 1..Len(q)
        /\ \A i \in 1..Len(q) : q[i] = f.recs[i]
    <3>1. PICK s \in Seq(Frames) : s = f.recs
      BY DEF Files
    <3>2. PICK n \in Int : n = len[active] /\ n \in 0..Len(s) /\ q = CutAt(s, n)
      BY <1>1, <2>1, <2>2, <2>3, <3>1
    <3>3. Len(q) = n /\ \A i \in 1..Len(q) : q[i] = s[i]
      BY <3>2, CutAtType
    <3> QED BY <3>1, <3>2, <3>3
  <2>7. /\ \A j \in 1..len[active] :
             j \in DOMAIN disk'[active].recs /\ disk'[active].recs[j] = disk[active].recs[j]
        /\ \A j \in DOMAIN disk'[active].recs : j <= len[active]
    BY <1>1, <2>2, <2>5, <2>6
  <2>8. disk'[active].st = "live" /\ disk'[active].hdr = disk[active].hdr
    BY <2>1, <2>2, <2>5 DEF Listing
  <2>9. /\ Readable(disk[active]) \subseteq Readable(disk'[active]) \cup Range(pending)
        /\ Readable(disk'[active]) \subseteq Readable(disk[active]) \cup Range(pending)
    BY <1>1, <1>4, <2>1, <2>7, <2>8, RewriteShows
  <2> QED BY <1>1, <1>2, <2>9, SameHeld
<1> QED BY <1>1, <1>3, <1>4

\* A new header shows no record.
LEMMA WriteHeaderHeld ==
  ASSUME IInv, IInv', WriteHeader
  PROVE  Held' = Held
<1>1. /\ disk \in [SegIds -> Files] /\ disk' \in [SegIds -> Files] /\ active \in SegIds
      /\ pending' = pending /\ disk' = [disk EXCEPT ![active].hdr = "ok"]
  BY DEF IInv, TypeOK, TypeDisk, TypeMem, Control, WriteHeader
<1>2. \A s \in SegIds : s # active => Readable(disk'[s]) = Readable(disk[s])
  BY <1>1
<1>3. disk[active].recs = <<>>
  BY DEF IInv, ActiveFile, WriteHeader
<1>4. disk'[active].recs = <<>>
  <2>1. disk'[active] = [disk[active] EXCEPT !.hdr = "ok"]
    BY <1>1
  <2> QED BY <1>1, <1>3, <2>1 DEF Files
<1>5. Readable(disk'[active]) = {} /\ Readable(disk[active]) = {}
  BY <1>1, <1>3, <1>4, EmptyShows
<1> QED BY <1>1, <1>2, <1>5, SameHeld

\* What write_all puts into the active file, in part or whole, was queued.
LEMMA WriteShows ==
  ASSUME IInv, IInv', Remains, wpc \in {"write", "writing"}, NEW frames \in Seq(Frames),
         \A i \in DOMAIN frames :
           frames[i] = 0 \/ (i \in DOMAIN pending /\ frames[i] = pending[i]),
         disk' = [disk EXCEPT ![active].recs = WriteAt(frames)]
  PROVE  /\ active \in SegIds
         /\ \A s \in SegIds : s # active => Readable(disk'[s]) = Readable(disk[s])
         /\ Readable(disk[active]) \subseteq Readable(disk'[active]) \cup Range(pending)
         /\ Readable(disk'[active]) \subseteq Readable(disk[active]) \cup Range(pending)
<1>1. /\ disk \in [SegIds -> Files] /\ disk' \in [SegIds -> Files] /\ active \in SegIds
      /\ wpc # "down"
  BY DEF IInv, TypeOK, TypeDisk, TypeMem, Control
<1>2. /\ active \in Listing /\ len[active] \in Nat
      /\ Len(disk'[active].recs) = len[active] + Len(frames) /\ disk'[active].recs \in Seq(Frames)
      /\ \A i \in DOMAIN disk'[active].recs :
           \/ /\ i <= len[active] /\ i \in DOMAIN disk[active].recs
              /\ disk'[active].recs[i] = disk[active].recs[i]
           \/ /\ i - len[active] \in DOMAIN frames
              /\ disk'[active].recs[i] = frames[i - len[active]]
  BY WriteAtFacts
<1>3. DOMAIN frames = 1..Len(frames) /\ Len(frames) \in Nat
  OBVIOUS
<1>4. DOMAIN disk'[active].recs = 1..(len[active] + Len(frames))
  BY <1>2
<1>5. ASSUME NEW j \in 1..len[active]
      PROVE  j \in DOMAIN disk'[active].recs /\ disk'[active].recs[j] = disk[active].recs[j]
  <2>1. j \in DOMAIN disk'[active].recs /\ ~(j - len[active] \in DOMAIN frames)
    BY <1>2, <1>3, <1>4
  <2> QED BY <1>2, <2>1
<1>6. ASSUME NEW j \in DOMAIN disk'[active].recs
      PROVE  \/ j <= len[active] \/ disk'[active].recs[j] <= 0
             \/ disk'[active].recs[j] \in Range(pending)
  <2>1. CASE j - len[active] \in DOMAIN frames /\ disk'[active].recs[j] = frames[j - len[active]]
    BY <2>1 DEF Range
  <2> QED BY <1>2, <2>1
<1>7. disk'[active].st = "live" /\ disk'[active].hdr = disk[active].hdr
  <2>1. PICK q : q = WriteAt(frames)
    OBVIOUS
  <2>2. disk'[active] = [disk[active] EXCEPT !.recs = q]
    BY <1>1, <2>1
  <2> QED BY <1>1, <1>2, <2>2 DEF Files, Listing
<1>8. \A s \in SegIds : s # active => Readable(disk'[s]) = Readable(disk[s])
  BY <1>1
<1>9. /\ Readable(disk[active]) \subseteq Readable(disk'[active]) \cup Range(pending)
      /\ Readable(disk'[active]) \subseteq Readable(disk[active]) \cup Range(pending)
  <2>1. \A j \in 1..len[active] :
          j \in DOMAIN disk'[active].recs /\ disk'[active].recs[j] = disk[active].recs[j]
    BY <1>5
  <2>2. \A j \in DOMAIN disk'[active].recs :
          \/ j <= len[active] \/ disk'[active].recs[j] <= 0
          \/ disk'[active].recs[j] \in Range(pending)
    BY <1>6
  <2>3. len[active] >= 0
    BY <1>2
  <2> QED BY <1>1, <1>2, <1>7, <2>1, <2>2, <2>3, RewriteShows
<1> QED BY <1>1, <1>8, <1>9

\* A write that is cut short: the queue still holds what it wrote.
LEMMA WritePartHeld ==
  ASSUME IInv, IInv', Remains, WritePart
  PROVE  Held' = Held
<1>1. /\ pending \in Seq(Recs) /\ pending # <<>> /\ MaxRecs \in Nat /\ wpc = "write"
      /\ pending' = pending
  BY CountsAssumption DEF IInv, WritePart, TypeOK, TypeMem, Control, memVars
<1>2. PICK k \in 0..(Batch - 1) :
        disk' = [disk EXCEPT ![active].recs = WriteAt(SubSeq(pending, 1, k) \o <<Torn>>)]
  BY DEF WritePart
<1>3. k \in 0..Len(pending) /\ Len(pending) \in Nat
  BY <1>1, <1>2, BatchType
<1>4. PICK head \in Seq(Recs) : /\ head = SubSeq(pending, 1, k) /\ Len(head) = k
                                /\ \A i \in 1..k : head[i] = pending[i] /\ i \in DOMAIN pending
  BY <1>1, <1>3, HeadAndRest
<1>5. PICK frames \in Seq(Frames) :
        /\ disk' = [disk EXCEPT ![active].recs = WriteAt(frames)]
        /\ \A i \in DOMAIN frames :
             frames[i] = 0 \/ (i \in DOMAIN pending /\ frames[i] = pending[i])
  <2>1. \A r \in Recs : r \in Frames
    BY <1>1 DEF Frames, Recs
  <2>2. head \in Seq(Frames) /\ <<Torn>> \in Seq(Frames)
    BY <1>1, <1>4, <2>1 DEF Torn, Frames
  <2>3. head \o <<Torn>> \in Seq(Frames)
    BY <2>2
  <2>4. \A i \in DOMAIN (head \o <<Torn>>) :
          \/ (head \o <<Torn>>)[i] = 0
          \/ i \in DOMAIN pending /\ (head \o <<Torn>>)[i] = pending[i]
    BY <1>3, <1>4 DEF Torn
  <2> QED BY <1>2, <1>4, <2>3, <2>4
<1>6. /\ active \in SegIds
      /\ \A s \in SegIds : s # active => Readable(disk'[s]) = Readable(disk[s])
      /\ Readable(disk[active]) \subseteq Readable(disk'[active]) \cup Range(pending)
      /\ Readable(disk'[active]) \subseteq Readable(disk[active]) \cup Range(pending)
  BY <1>1, <1>5, WriteShows
<1> QED BY <1>1, <1>6, SameHeld

\* What is written and not flushed is in the active file.
LEMMA WrittenReadable ==
  ASSUME IInv, Keeps
  PROVE  \A r \in Recs : fate[r] = "written" => active \in SegIds /\ r \in Readable(disk[active])
<1> SUFFICES ASSUME NEW r \in Recs, fate[r] = "written"
             PROVE  active \in SegIds /\ r \in Readable(disk[active])
  OBVIOUS
<1>1. wpc # "down" /\ InActive(r)
  BY DEF Keeps, Placed
<1>2. active \in SegIds
  BY <1>1 DEF IInv, Control
<1>3. PICK i \in DOMAIN disk[active].recs : At(r, active, i)
  BY <1>1 DEF InActive
<1> QED BY <1>2, <1>3, AtReadable

\* The same in the next state.
LEMMA WrittenReadableNext ==
  ASSUME IInv', Keeps'
  PROVE  \A r \in Recs : fate'[r] = "written" => r \in Readable(disk[active])'
<1>1. (IInv /\ Keeps
       => \A r \in Recs : fate[r] = "written" => active \in SegIds /\ r \in Readable(disk[active]))'
  BY WrittenReadable, PTL
<1> QED BY <1>1

\* A batch moves from the queue into the active file.
LEMMA WriteBatchHeld ==
  ASSUME IInv, IInv', Keeps, Keeps', Remains, WriteBatch
  PROVE  Held' = Held /\ Durable' = Durable
<1>1. /\ pending \in Seq(Recs) /\ pending # <<>> /\ MaxRecs \in Nat /\ Len(pending) \in Nat
      /\ wpc \in {"write", "writing"} /\ active' = active
  BY CountsAssumption DEF IInv, WriteBatch, TypeOK, TypeMem, Control
<1>2. PICK b \in 1..Len(pending) : b = Batch
  BY <1>1, BatchType DEF WriteBatch
<1>3. b \in 0..Len(pending)
  BY <1>1
<1>4. PICK frames \in Seq(Recs) :
        /\ frames = SubSeq(pending, 1, b) /\ Len(frames) = b
        /\ \A i \in 1..b : frames[i] = pending[i] /\ i \in DOMAIN pending
  BY <1>1, <1>3, HeadAndRest
<1>5. disk' = [disk EXCEPT ![active].recs = WriteAt(frames)] /\ fate' = Mark(Range(frames), "written")
  BY <1>2, <1>4 DEF WriteBatch
<1>6. frames \in Seq(Frames)
  <2>1. \A r \in Recs : r \in Frames
    BY <1>1 DEF Frames, Recs
  <2> QED BY <1>4, <2>1
<1>7. DOMAIN frames = 1..b /\ \A i \in DOMAIN frames : i \in DOMAIN pending /\ frames[i] = pending[i]
  BY <1>4
<1>8. /\ active \in SegIds
      /\ \A s \in SegIds : s # active => Readable(disk'[s]) = Readable(disk[s])
      /\ Readable(disk[active]) \subseteq Readable(disk'[active]) \cup Range(pending)
      /\ Readable(disk'[active]) \subseteq Readable(disk[active]) \cup Range(pending)
  BY <1>1, <1>5, <1>6, <1>7, WriteShows
<1>9. Range(frames) \subseteq Range(pending) /\ Range(pending) \subseteq Recs
  BY <1>1, <1>7 DEF Range
<1>10. \A r \in Recs : fate'[r] = IF r \in Range(frames) THEN "written" ELSE fate[r]
  BY <1>5 DEF Mark
<1>11. Range(pending) = {r \in Recs : fate[r] = "queued"}
  BY DEF Keeps, QueueRight, With
<1>12. Range(pending') = {r \in Recs : fate'[r] = "queued"}
  BY DEF Keeps, QueueRight, With
<1>13. Range(pending') \subseteq Range(pending)
  BY <1>10, <1>11, <1>12
<1>14. Range(pending) \subseteq Readable(disk'[active]) \cup Range(pending')
  <2> SUFFICES ASSUME NEW r \in Range(pending), r \notin Range(pending')
               PROVE  r \in Readable(disk'[active])
    OBVIOUS
  <2>1. r \in Recs /\ fate'[r] = "written"
    BY <1>10, <1>11, <1>12
  <2> QED BY <1>1, <2>1, WrittenReadableNext
<1>15. Readable(disk[active]) \subseteq Readable(disk'[active]) \cup Range(pending')
  BY <1>8, <1>14
<1>16. Held' = Held
  BY <1>8, <1>13, <1>14, <1>15, SameHeld
<1>17. Durable' = Durable
  BY <1>5, <1>9, <1>11, MarkOthers
<1> QED BY <1>16, <1>17

-----------------------------------------------------------------------------
(* Other steps of the writer, and the machine.                             *)

\* A record the source offers is queued or refused.
LEMMA AppendHeld ==
  ASSUME IInv, Keeps, Keeps', AppendRecord
  PROVE  /\ nrec' = nrec + 1 /\ nrec \in Nat
         /\ Held' = Held \/ Held' = Held \cup {nrec'}
         /\ Durable' = Durable
<1>1. /\ disk' = disk /\ nrec' = nrec + 1 /\ nrec \in Nat /\ nrec + 1 \in Recs
  BY CountsAssumption DEF IInv, AppendRecord, diskVars, TypeOK, TypeHistory, Recs
<1>2. PICK v \in {"refused", "queued"} : fate' = Mark({nrec + 1}, v)
  BY DEF AppendRecord
<1>3. /\ fate[nrec + 1] = "new" /\ fate'[nrec + 1] = v
      /\ \A r \in Recs \ {nrec + 1} : fate'[r] = fate[r]
  BY <1>1, <1>2 DEF Keeps, FreshNumbers, Mark
<1>4. Range(pending) = {r \in Recs : fate[r] = "queued"}
  BY DEF Keeps, QueueRight, With
<1>5. Range(pending') = {r \in Recs : fate'[r] = "queued"}
  BY DEF Keeps, QueueRight, With
<1>6. Range(pending') = Range(pending) \/ Range(pending') = Range(pending) \cup {nrec + 1}
  BY <1>1, <1>2, <1>3, <1>4, <1>5
<1>7. Durable' = Durable
  BY <1>1, <1>2, <1>3, MarkOthers
<1> QED BY <1>1, <1>6, <1>7 DEF Held

\* Recovery cuts what no reader finds.
LEMMA RepairShows ==
  ASSUME IInv, NEW s \in SegIds
  PROVE  Repair(s) \in Files /\ Readable(Repair(s)) = Readable(disk[s])
<1>1. PICK f \in Files : f = disk[s]
  BY DEF IInv, TypeOK, TypeDisk
<1>2. PICK q \in Seq(Frames) : q = f.recs /\ Len(q) \in Nat /\ DOMAIN q = 1..Len(q)
  BY DEF Files
<1>3. ValidCount(q) \in 0..Len(q) /\ \A i \in 1..ValidCount(q) : q[i] > 0
  BY ValidCountType
<1>4. CASE Repair(s) = disk[s]
  BY <1>1, <1>4
<1>5. CASE f.hdr = "ok" /\ Repair(s) = [f EXCEPT !.recs = Scan(f.recs), !.dur = ValidCount(f.recs)]
  <2>1. PICK p \in Seq(Frames) :
          p = Scan(q) /\ Len(p) = ValidCount(q) /\ \A i \in 1..Len(p) : p[i] = q[i]
    BY ScanType
  <2>2. PICK d \in Int : d = ValidCount(q)
    BY <1>3
  <2>3. PICK g : g = [f EXCEPT !.recs = p, !.dur = d]
    OBVIOUS
  <2>4. g \in Files /\ g.recs = p /\ g.st = f.st /\ g.hdr = f.hdr /\ Repair(s) = g
    BY <1>2, <1>5, <2>1, <2>2, <2>3 DEF Files
  <2>5. DOMAIN p = 1..ValidCount(q)
    BY <2>1
  <2>6. ASSUME NEW r, r \in Readable(f) PROVE r \in Readable(g)
    <3>1. PICK i \in DOMAIN f.recs : f.recs[i] = r /\ \A j \in 1..i : f.recs[j] > 0
      BY <2>6, ReadableOf
    <3>2. i \in 0..Len(q) /\ \A j \in 1..i : q[j] > 0
      BY <1>2, <3>1
    <3>3. i <= ValidCount(q)
      BY <3>2, ValidCountMax
    <3>4. i \in DOMAIN p /\ \A j \in 1..i : j \in DOMAIN p /\ p[j] = q[j]
      BY <1>2, <1>3, <2>1, <2>5, <3>1, <3>3
    <3>5. p[i] = r
      BY <1>2, <2>1, <2>5, <3>1, <3>4
    <3>6. f.st = "live" /\ f.hdr = "ok"
      BY <2>6, ReadableOf
    <3> QED BY <2>4, <3>2, <3>4, <3>5, <3>6, ReadableOf
  <2>7. ASSUME NEW r, r \in Readable(g) PROVE r \in Readable(f)
    <3>1. PICK i \in DOMAIN g.recs : g.recs[i] = r /\ \A j \in 1..i : g.recs[j] > 0
      BY <2>4, <2>7, ReadableOf
    <3>2. g.st = "live" /\ g.hdr = "ok"
      BY <2>4, <2>7, ReadableOf
    <3>3. i \in DOMAIN q /\ q[i] = r /\ \A j \in 1..i : q[j] = p[j] /\ q[j] > 0
      BY <1>2, <1>3, <2>1, <2>4, <2>5, <3>1
    <3> QED BY <1>2, <2>4, <3>2, <3>3, ReadableOf
  <2> QED BY <1>1, <2>4, <2>6, <2>7
<1>6. CASE f.hdr = "none" /\ Repair(s) = [f EXCEPT !.hdr = "ok", !.recs = <<>>, !.dur = 0]
  <2>1. Repair(s).recs = <<>>
    BY <1>6 DEF Files
  <2>2. Repair(s) \in Files
    BY RepairType DEF IInv, TypeOK, TypeDisk
  <2>3. Readable(Repair(s)) = {} /\ Readable(f) = {}
    BY <1>6, <2>1, <2>2, EmptyShows
  <2> QED BY <1>1, <2>2, <2>3
<1> QED BY <1>1, <1>4, <1>5, <1>6 DEF Repair, Recover

\* A segment that stays at the start still shows the same.
LEMMA OpenKeepHeld ==
  ASSUME IInv, OpenKeep
  PROVE  Held' = Held /\ Durable' = Durable
<1>1. disk \in [SegIds -> Files] /\ UNCHANGED <<pending, fate>>
  BY DEF IInv, TypeOK, TypeDisk, OpenKeep
<1>2. PICK s \in SegIds : disk' = [disk EXCEPT ![s] = Repair(s)]
  BY DEF OpenKeep
<1>3. disk'[s] = Repair(s) /\ \A t \in SegIds : t # s => disk'[t] = disk[t]
  BY <1>1, <1>2
<1>4. \A t \in SegIds : Readable(disk'[t]) = Readable(disk[t])
  BY <1>3, RepairShows
<1> QED BY <1>1, <1>4, SameDisk DEF Held, Durable, With

\* What is dropped was queued: no file shows it, and no flush covered it.
LEMMA DropHeld ==
  ASSUME IInv, Keeps, DropPending
  PROVE  /\ Range(pending) \subseteq Held \ Durable
         /\ Held' = Held \ Range(pending) /\ Durable' = Durable \ Range(pending)
         /\ gaps' = gaps + Cardinality(Range(pending))
<1>1. /\ fate' = Mark(Range(pending), "dropped") /\ gaps' = gaps + Len(pending)
      /\ disk' = disk /\ wpc = "room" /\ pending' = <<>>
  BY DEF DropPending, diskVars
<1>2. pending \in Seq(Recs) /\ Len(pending) \in Nat /\ DOMAIN pending = 1..Len(pending)
  BY DEF IInv, TypeOK, TypeMem
<1>3. \A i \in 1..Len(pending) : pending[i] \in Recs /\ pending[i] \in Int
  BY <1>2, CountsAssumption DEF Recs
<1>4. Cardinality({pending[i] : i \in 1..Len(pending)}) = Len(pending)
  <2>1. \A i, j \in 1..Len(pending) : i < j => pending[i] < pending[j]
    BY <1>2 DEF IInv, Ages
  <2> QED BY <1>2, <1>3, <2>1, IncreasingCount
<1>5. Range(pending) = {pending[i] : i \in 1..Len(pending)} /\ Range(pending') = {}
  BY <1>1, <1>2 DEF Range
<1>6. ASSUME NEW s \in SegIds, NEW r \in Readable(disk[s]) PROVE r \notin Range(pending)
  <2>1. PICK i \in DOMAIN disk[s].recs : disk[s].recs[i] = r
    BY ReadableFacts
  <2>2. s \in Listing
    BY ReadableFacts
  <2>3. /\ DOMAIN disk[s].recs = 1..Len(disk[s].recs) /\ Len(disk[s].recs) \in Nat
        /\ disk[s].recs[i] \in Int
    BY FileFacts
  <2>4. ~(s = active /\ i > len[active])
    <3> SUFFICES ASSUME s = active, i > len[active] PROVE FALSE
      OBVIOUS
    <3>1. Len(disk[active].recs) <= len[active] /\ len[active] \in Int
      BY <1>1 DEF IInv, Control, ActiveFile, TypeOK, TypeMem
    <3> QED BY <2>3, <3>1
  <2>5. \A j \in DOMAIN pending : disk[s].recs[i] < pending[j]
    BY <2>2, <2>4 DEF IInv, Ages
  <2>6. \A j \in 1..Len(pending) : pending[j] # r
    BY <1>2, <1>3, <2>1, <2>3, <2>5
  <2> QED BY <1>5, <2>6
<1>7. OnDisk(disk) \cap Range(pending) = {}
  BY <1>6, OnDiskIs
<1>8. Held' = Held \ Range(pending)
  BY <1>1, <1>5, <1>7 DEF Held
<1>9. Durable \cap Range(pending) = {}
  BY DEF Durable, Keeps, QueueRight, With
<1>10. Durable' = Durable \ Range(pending)
  BY <1>1, MarkDurable
<1>11. Range(pending) \subseteq Held \ Durable
  BY <1>9 DEF Held
<1>12. gaps' = gaps + Cardinality(Range(pending))
  BY <1>1, <1>4, <1>5
<1> QED BY <1>8, <1>10, <1>11, <1>12

\* A flush covers what was written, and changes nothing else.
LEMMA FlushHeld ==
  ASSUME IInv, IInv', Keeps, Keeps', wpc \in {"sync", "seal"},
         disk' = SyncFile(active) \/ (disk' = disk /\ ~unsynced), pending' = pending, fate' = Flushed
  PROVE  Held' = Held /\ Durable \subseteq Durable' /\ Durable' \subseteq Held
<1>1. \A s \in SegIds : /\ disk'[s].recs = disk[s].recs /\ disk'[s].hdr = disk[s].hdr
                        /\ disk'[s].st = disk[s].st
  BY FlushFacts
<1>2. OnDisk(disk') = OnDisk(disk)
  BY <1>1, ReadableSame, SameDisk
<1>3. \A r \in Recs : fate[r] = "durable" => fate'[r] = "durable"
  BY DEF Flushed, Mark
<1>4. Held' = Held /\ Durable \subseteq Durable'
  BY <1>2, <1>3 DEF Held, Durable, With
<1> QED BY <1>2, <1>4, DurableOnDiskNext DEF Held

\* The end of the process takes the queue, and nothing from the files.
LEMMA ExitHeld ==
  ASSUME IInv', Keeps', pending' = <<>>,
         \A s \in SegIds : /\ disk'[s].recs = disk[s].recs /\ disk'[s].hdr = disk[s].hdr
                           /\ disk'[s].st = disk[s].st,
         \A r \in Recs : fate[r] = "durable" => fate'[r] = "durable"
  PROVE  Held' \subseteq Held /\ Durable \subseteq Durable' /\ Durable' \subseteq Held'
<1>1. OnDisk(disk') = OnDisk(disk)
  BY ReadableSame, SameDisk
<1>2. Range(pending') = {}
  BY DEF Range
<1>3. Held' = OnDisk(disk') /\ Held' \subseteq Held
  BY <1>1, <1>2 DEF Held
<1>4. Durable \subseteq Durable'
  BY DEF Durable, With
<1> QED BY <1>3, <1>4, DurableOnDiskNext

\* The end of the power takes only what no flush covered.
LEMMA PowerCutHeld ==
  ASSUME IInv, IInv', Keeps, Keeps', PowerCut
  PROVE  Held' \subseteq Held /\ Durable \subseteq Durable' /\ Durable' \subseteq Held'
<1>1. disk \in [SegIds -> Files] /\ disk' \in [SegIds -> Files] /\ pending' = <<>>
  BY DEF IInv, TypeOK, TypeDisk, PowerCut, NoWriter
<1>2. \A r \in Recs : fate[r] = "durable" => fate'[r] = "durable"
  <2>1. ASSUME NEW r \in Recs, fate[r] = "durable" PROVE fate'[r] = "durable"
    <3>1. r \in OnDisk(disk')
      BY <2>1, PowerCutSpares
    <3> QED BY <2>1, <3>1 DEF PowerCut
  <2> QED BY <2>1
<1>3. ASSUME NEW s \in SegIds, NEW r, r \in Readable(disk'[s]) PROVE r \in Readable(disk[s])
  <2>1. PICK g \in Files : g = disk'[s]
    BY <1>1
  <2>2. PICK i \in DOMAIN g.recs : g.recs[i] = r /\ \A j \in 1..i : g.recs[j] > 0
    BY <1>3, <2>1, ReadableOf
  <2>3. g.st = "live" /\ g.hdr = "ok" /\ s \in Listing'
    BY <1>3, <2>1, ReadableOf DEF Listing
  <2>4. DOMAIN g.recs = 1..Len(g.recs) /\ Len(g.recs) \in Nat /\ i \in 1..i
    BY <2>1 DEF Files
  <2>5. \A j \in 1..i : j \in DOMAIN g.recs /\ g.recs[j] \in Int
    BY <2>4, CountsAssumption DEF Files, Frames
  <2>6. \A j \in 1..i : s \in Listing /\ j \in DOMAIN disk[s].recs /\ g.recs[j] = disk[s].recs[j]
    <3>1. FramesFrom({})
      BY PowerCutFrames
    <3> QED BY <2>1, <2>2, <2>3, <2>5, <3>1 DEF FramesFrom
  <2>7. disk[s].hdr = "ok"
    <3>1. PICK keep \in [Unflushed -> (-2)..MaxRecs], torn \in [Unflushed -> BOOLEAN] :
            disk' = [t \in SegIds |-> IF t \in Unflushed THEN CutFile(disk[t], keep[t], torn[t])
                                      ELSE disk[t]]
      BY DEF PowerCut
    <3>2. CASE s \in Unflushed
      <4>1. PICK k \in Int : k = keep[s]
        BY <3>2, CountsAssumption
      <4>2. PICK f \in Files : f = disk[s]
        BY <1>1
      <4>3. g = CutFile(f, k, torn[s])
        BY <2>1, <3>1, <3>2, <4>1, <4>2
      <4>4. g.hdr \in {"none", f.hdr}
        BY <4>3, CutFileShrinks
      <4> QED BY <2>3, <4>2, <4>4
    <3>3. CASE s \notin Unflushed
      BY <2>1, <2>3, <3>1, <3>3
    <3> QED BY <3>2, <3>3
  <2>8. disk[s].st = "live"
    BY <2>4, <2>6 DEF Listing
  <2>9. /\ i \in DOMAIN disk[s].recs /\ disk[s].recs[i] = r
        /\ \A j \in 1..i : disk[s].recs[j] > 0
    BY <2>2, <2>4, <2>6
  <2> QED BY <1>1, <2>7, <2>8, <2>9, ReadableOf
<1>4. OnDisk(disk') \subseteq OnDisk(disk)
  BY <1>3, OnDiskIs
<1>5. Range(pending') = {}
  BY <1>1 DEF Range
<1> QED BY <1>2, <1>4, <1>5, DurableOnDiskNext DEF Held, Durable, With

\* Damage at rest takes the frame it hits and what is behind it in the file, or
\* the whole file, or no record.
LEMMA RotHeld ==
  ASSUME IInv, RotFrame \/ RotHeader \/ RotCursor
  PROVE  \E S \in SUBSET Held : Held' = Held \ S /\ Durable' = Durable \ S
<1>1. disk \in [SegIds -> Files] /\ pending' = pending
  BY DEF IInv, TypeOK, TypeDisk, RotFrame, RotHeader, RotCursor, memVars
<1>2. CASE RotCursor
  <2>1. disk' = disk /\ fate' = fate
    BY <1>2 DEF RotCursor
  <2>2. Held' = Held /\ Durable' = Durable
    BY <1>1, <2>1 DEF Held, Durable, With
  <2> QED BY <2>2
<1>3. CASE RotHeader
  <2>1. PICK s \in SegIds : /\ AtRest(s) /\ disk' = [disk EXCEPT ![s].hdr = "foreign"]
                            /\ fate' = Mark(Readable(disk[s]), "rotten")
    BY <1>3 DEF RotHeader
  <2>2. disk'[s].hdr = "foreign" /\ \A t \in SegIds : t # s => disk'[t] = disk[t]
    BY <1>1, <2>1 DEF Files
  <2>3. Readable(disk'[s]) = Readable(disk[s]) \ Readable(disk[s])
    BY <2>2 DEF Readable
  <2>4. wpc # "down" => s # active
    BY <2>1, AtRestFacts
  <2>5. /\ Readable(disk[s]) \subseteq Held /\ Held' = Held \ Readable(disk[s])
        /\ Durable' = Durable \ Readable(disk[s])
    BY <1>1, <2>1, <2>2, <2>3, <2>4, TakenFrom
  <2> QED BY <2>5
<1>4. CASE RotFrame
  <2>1. PICK s \in SegIds : \E i \in 1..ValidCount(disk[s].recs) :
          /\ AtRest(s) /\ disk[s].hdr = "ok"
          /\ disk' = [disk EXCEPT ![s].recs[i] = -disk[s].recs[i]]
          /\ fate' = Mark({disk[s].recs[j] : j \in i..ValidCount(disk[s].recs)}, "rotten")
    BY <1>4 DEF RotFrame
  <2>2. PICK q \in Seq(Frames) : q = disk[s].recs /\ DOMAIN q = 1..Len(q) /\ Len(q) \in Nat
    BY FileFacts
  <2>3. PICK i \in 1..ValidCount(q) :
          /\ AtRest(s) /\ disk[s].hdr = "ok"
          /\ disk' = [disk EXCEPT ![s].recs[i] = -disk[s].recs[i]]
          /\ fate' = Mark({disk[s].recs[j] : j \in i..ValidCount(disk[s].recs)}, "rotten")
    <3>1. ValidCount(disk[s].recs) = ValidCount(q)
      BY <2>2
    <3> QED BY <2>1, <3>1
  <2>4. PICK m \in 0..Len(q) : m = ValidCount(q) /\ \A j \in 1..m : q[j] > 0 /\ q[j] \in Int
    <3>1. ValidCount(q) \in 0..Len(q) /\ \A j \in 1..ValidCount(q) : q[j] > 0
      BY ValidCountType
    <3>2. \A j \in 1..ValidCount(q) : q[j] \in Int
      BY <2>2, <3>1, CountsAssumption DEF Frames
    <3> QED BY <3>1, <3>2
  <2>5. PICK p : p = [q EXCEPT ![i] = -q[i]]
    OBVIOUS
  <2>6. disk' = [disk EXCEPT ![s] = [disk[s] EXCEPT !.recs = p]]
    BY <2>2, <2>3, <2>5
  <2>7. /\ disk'[s].recs = p /\ disk'[s].hdr = disk[s].hdr /\ disk'[s].st = disk[s].st
        /\ disk'[s].dur = disk[s].dur /\ \A t \in SegIds : t # s => disk'[t] = disk[t]
    <3>1. disk[s] \in Files
      BY <1>1
    <3> QED BY <1>1, <2>6, <3>1 DEF Files
  <2>8. i \in 1..m /\ i \in DOMAIN q
    BY <2>2, <2>3, <2>4
  <2>9. /\ DOMAIN p = DOMAIN q /\ p[i] <= 0
        /\ \A j \in DOMAIN q : j # i => p[j] = q[j]
    <3>1. p[i] = -q[i] /\ DOMAIN p = DOMAIN q /\ \A j \in DOMAIN q : j # i => p[j] = q[j]
      BY <2>5, <2>8
    <3> QED BY <2>4, <2>8, <3>1
  <2> DEFINE S == {q[j] : j \in i..m}
  <2>10. disk[s].st = "live" /\ disk[s].hdr = "ok" /\ s \in Listing
    BY <2>3 DEF AtRest, Listing
  <2>11. PICK f \in Files : f = disk[s]
    BY <1>1
  <2>12. Readable(f) = {q[j] : j \in 1..m}
    BY <2>2, <2>4, <2>10, <2>11 DEF Readable
  <2>13. \A j, k \in 1..m : j < k => q[j] < q[k]
    <3>1. \A j \in 1..m : j \in DOMAIN q /\ q[j] > 0
      BY <2>2, <2>4
    <3> QED BY <2>2, <2>10, <3>1 DEF IInv, LogInOrder
  <2>14. S \in SUBSET Readable(f)
    <3>1. \A j \in i..m : j \in 1..m
      BY <2>2, <2>4, <2>8
    <3> QED BY <2>12, <3>1
  <2>15. PICK g : g = disk'[s]
    OBVIOUS
  <2>16. g.recs = p /\ g.st = "live" /\ g.hdr = "ok"
    BY <2>7, <2>10, <2>15
  <2>17. ValidCount(p) = i - 1 /\ i - 1 \in Nat
    <3>1. p \in Seq(Frames)
      <4>1. -q[i] \in Frames
        <5>1. q[i] \in Frames
          BY <2>2, <2>8
        <5> QED BY <5>1, CountsAssumption DEF Frames
      <4> QED BY <2>5, <2>8, <4>1
    <3>2. Len(p) = Len(q)
      BY <2>2, <2>9, <3>1
    <3>3. ValidCount(p) \in 0..Len(p) /\ \A j \in 1..ValidCount(p) : p[j] > 0
      BY <3>1, ValidCountType
    <3>4. i \in Int /\ 1 <= i /\ i <= m /\ m <= Len(q)
      BY <2>2, <2>8
    <3>5. ValidCount(p) < i
      <4> SUFFICES ASSUME ~(ValidCount(p) < i) PROVE FALSE
        OBVIOUS
      <4>1. i \in 1..ValidCount(p)
        BY <3>3, <3>4
      <4>2. p[i] > 0 /\ p[i] = -q[i] /\ q[i] > 0 /\ q[i] \in Int
        BY <2>4, <2>5, <2>8, <3>3, <4>1
      <4> QED BY <4>2
    <3>6. i - 1 \in 0..Len(p) /\ \A j \in 1..(i - 1) : j \in 1..m /\ j \in DOMAIN q /\ j # i
      BY <2>2, <3>2, <3>4
    <3>7. \A j \in 1..(i - 1) : p[j] > 0
      BY <2>4, <2>9, <3>6
    <3>8. i - 1 <= ValidCount(p)
      <4>1. PICK k \in 0..Len(p) : k = i - 1
        BY <3>6
      <4>2. \A j \in 1..k : p[j] > 0
        BY <3>7, <4>1
      <4> QED BY <3>1, <4>1, <4>2, ValidCountMax
    <3> QED BY <3>3, <3>4, <3>5, <3>8
  <2>18. Readable(g) = {p[j] : j \in 1..(i - 1)}
    BY <2>16, <2>17 DEF Readable
  <2>19. /\ \A j \in 1..(i - 1) : j \in 1..m /\ p[j] = q[j] /\ j < i
         /\ \A j \in 1..m : j < i => j \in 1..(i - 1)
         /\ \A j \in 1..m : ~(j < i) => j \in i..m
         /\ \A j \in i..m : j \in 1..m /\ ~(j < i)
    <3>1. i \in Int /\ 1 <= i /\ i <= m /\ m \in Int /\ m <= Len(q) /\ Len(q) \in Nat
      BY <2>2, <2>4, <2>8
    <3>2. \A j \in 1..(i - 1) : j \in 1..m /\ j \in DOMAIN q /\ j # i /\ j < i
      BY <2>2, <3>1
    <3> QED BY <2>9, <3>1, <3>2
  <2>20. Readable(g) = Readable(f) \ S
    <3>1. ASSUME NEW j \in 1..(i - 1), NEW k \in i..m PROVE q[j] # q[k]
      <4>1. j \in 1..m /\ k \in 1..m /\ j < k
        BY <2>8, <2>19
      <4> QED BY <2>4, <2>13, <4>1
    <3>2. ASSUME NEW r, r \in Readable(g) PROVE r \in Readable(f) \ S
      <4>1. PICK j \in 1..(i - 1) : r = p[j]
        BY <2>18, <3>2
      <4> QED BY <2>12, <2>19, <3>1, <4>1
    <3>3. ASSUME NEW r, r \in Readable(f), r \notin S PROVE r \in Readable(g)
      <4>1. PICK j \in 1..m : r = q[j]
        BY <2>12, <3>3
      <4>2. j < i
        BY <2>19, <3>3, <4>1
      <4> QED BY <2>18, <2>19, <4>1, <4>2
    <3> QED BY <3>2, <3>3
  <2>21. fate' = Mark(S, "rotten")
    BY <2>2, <2>3, <2>4
  <2>22. wpc # "down" => s # active
    BY <2>3, AtRestFacts
  <2> HIDE DEF S
  <2>23. Readable(disk'[s]) = Readable(disk[s]) \ S /\ S \in SUBSET Readable(disk[s])
    BY <2>11, <2>14, <2>15, <2>20
  <2>24. \A t \in SegIds : t # s => Readable(disk'[t]) = Readable(disk[t])
    BY <2>7
  <2>25. S \subseteq Held /\ Held' = Held \ S /\ Durable' = Durable \ S
    BY <1>1, <2>21, <2>22, <2>23, <2>24, TakenFrom
  <2> QED BY <2>25
<1> QED BY <1>2, <1>3, <1>4

-----------------------------------------------------------------------------
(* The steps of the log, in terms of the buffer.                           *)

LogStep == [Log!Next]_Log!vars

StaysUp == wpc # "down" /\ wpc' # "down"
SameUp == (wpc' # "down") = (wpc # "down")
SameHolds == Held' = Held /\ Durable' = Durable
Takes(S) == Held' = Held \ S /\ Durable' = Durable \ S
SameUsers == UNCHANGED <<nrec, seen>>
SameCounts == UNCHANGED <<gaps, faults, rot>>

\* The log counts records as the buffer does.
LEMMA SameCardinality ==
  ASSUME NEW S
  PROVE  Log!Cardinality(S) = Cardinality(S)
BY Zenon DEF Cardinality, Log!Cardinality

\* Nothing the log shows changes.
LEMMA ToStutter ==
  ASSUME SameUp, SameHolds, SameUsers, SameCounts
  PROVE  LogStep
BY DEF SameUp, SameHolds, SameUsers, SameCounts, LogStep, Held, Durable, Log!vars

\* An I/O error that only counts.
LEMMA ToError ==
  ASSUME SameUp, SameHolds, SameUsers, faults' = faults + 1, UNCHANGED <<gaps, rot>>
  PROVE  LogStep
<1>1. Log!Error
  BY DEF SameUp, SameHolds, SameUsers, Held, Durable, Log!Error
<1> QED BY <1>1 DEF LogStep, Log!Next

\* The process opens the log.
LEMMA ToStart ==
  ASSUME wpc = "down", wpc' # "down", SameHolds, SameUsers, SameCounts
  PROVE  LogStep
<1>1. Log!Start
  BY DEF SameHolds, SameUsers, SameCounts, Held, Durable, Log!Start
<1> QED BY <1>1 DEF LogStep, Log!Next

\* The source offers a record.
LEMMA ToPut ==
  ASSUME StaysUp, nrec' = nrec + 1, Held' = Held \/ Held' = Held \cup {nrec'}, Durable' = Durable,
         seen' = seen, SameCounts
  PROVE  LogStep
<1>1. Log!Put
  BY DEF StaysUp, SameCounts, Held, Durable, Log!Put
<1> QED BY <1>1 DEF LogStep, Log!Next

\* A flush covers records.
LEMMA ToCover ==
  ASSUME StaysUp, Held' = Held, Durable \subseteq Durable', Durable' \subseteq Held, SameUsers,
         SameCounts
  PROVE  LogStep
<1>1. Log!Cover
  BY DEF StaysUp, SameUsers, SameCounts, Held, Durable, Log!Cover
<1> QED BY <1>1 DEF LogStep, Log!Next

\* An eviction.
LEMMA ToEvict ==
  ASSUME StaysUp, NEW S \in SUBSET Held, Takes(S), SameUsers, rot' = rot,
         \/ Policy # "Retention" /\ gaps' = gaps + Cardinality(S) /\ faults' = faults
         \/ Policy = "Retention" /\ UNCHANGED <<gaps, faults>>
         \/ Policy # "Retention" /\ faults' = faults + 1 /\ gaps' = gaps
  PROVE  LogStep
<1>1. Log!Evict
  BY SameCardinality DEF StaysUp, Takes, SameUsers, Held, Durable, Log!Evict, Log!Remove
<1> QED BY <1>1 DEF LogStep, Log!Next

\* A full backlog is dropped.
LEMMA ToDrop ==
  ASSUME StaysUp, NEW S \in SUBSET (Held \ Durable), Takes(S), SameUsers,
         gaps' = gaps + Cardinality(S), UNCHANGED <<faults, rot>>
  PROVE  LogStep
<1>1. Log!Drop
  BY SameCardinality DEF StaysUp, Takes, SameUsers, Held, Durable, Log!Drop, Log!Remove
<1> QED BY <1>1 DEF LogStep, Log!Next

\* Delivered records are deleted.
LEMMA ToRelease ==
  ASSUME SameUp, NEW S \in SUBSET (Held \cap seen), Takes(S), SameUsers, SameCounts
  PROVE  LogStep
<1>1. Log!Release
  BY DEF SameUp, Takes, SameUsers, SameCounts, Held, Durable, Log!Release, Log!Remove
<1> QED BY <1>1 DEF LogStep, Log!Next

\* A record is delivered.
LEMMA ToGive ==
  ASSUME SameUp, SameHolds, nrec' = nrec, SameCounts, NEW r \in 1..nrec, seen' = seen \cup {r}
  PROVE  LogStep
<1>1. Log!Give
  BY DEF SameUp, SameHolds, SameCounts, Held, Durable, Log!Give
<1> QED BY <1>1 DEF LogStep, Log!Next

\* The gaps are reported.
LEMMA ToReport ==
  ASSUME StaysUp, SameHolds, SameUsers, gaps' = 0, UNCHANGED <<faults, rot>>
  PROVE  LogStep
<1>1. Log!Report
  BY DEF StaysUp, SameHolds, SameUsers, Held, Durable, Log!Report
<1> QED BY <1>1 DEF LogStep, Log!Next

\* The process or the power ends.
LEMMA ToEnd ==
  ASSUME wpc' = "down", gaps' = 0, Held' \subseteq Held, Durable \subseteq Durable',
         Durable' \subseteq Held', faults' = faults \/ faults' = faults + 1, SameUsers, rot' = rot
  PROVE  LogStep
<1>1. Log!End
  BY DEF SameUsers, Held, Durable, Log!End
<1> QED BY <1>1 DEF LogStep, Log!Next

\* The disk is damaged.
LEMMA ToDamaged ==
  ASSUME SameUp, NEW S \in SUBSET Held, Takes(S), SameUsers, rot' = rot + 1, UNCHANGED <<gaps, faults>>
  PROVE  LogStep
<1>1. Log!Damaged
  BY DEF SameUp, Takes, SameUsers, Held, Durable, Log!Damaged, Log!Remove
<1> QED BY <1>1 DEF LogStep, Log!Next

-----------------------------------------------------------------------------
(* Each step of the buffer is a step of the log.                           *)

\* Steps that change neither the files nor the queue nor what became of a
\* record; some are an I/O error.
LEMMA QuietLog ==
  ASSUME seen' = seen,
         \/ Tick \/ IdleTick \/ (Close /\ NeedIO) \/ StartRotate \/ RoomMade
         \/ EvictFails \/ AckDeleteFails \/ (IoFails /\ ~closing)
  PROVE  LogStep
<1>1. UNCHANGED <<disk, pending, fate, nrec, gaps, rot>> /\ StaysUp
  <2>1. CASE Tick \/ IdleTick \/ (Close /\ NeedIO) \/ StartRotate \/ RoomMade
    BY <2>1 DEF Tick, IdleTick, Close, StartRotate, RoomMade, FlushStep, diskVars, memVars, loopVars,
       envVars, StaysUp
  <2>2. CASE EvictFails \/ AckDeleteFails \/ (IoFails /\ ~closing)
    BY <2>2 DEF EvictFails, AckDeleteFails, IoFails, FlushFailed, diskVars, memVars, StaysUp
  <2> QED BY <2>1, <2>2
<1>2. SameHolds /\ SameUsers /\ SameUp
  BY <1>1 DEF SameHolds, SameUsers, SameUp, StaysUp, Held, Durable, With
<1>3. faults' = faults \/ faults' = faults + 1
  BY DEF Tick, IdleTick, Close, StartRotate, RoomMade, EvictFails, AckDeleteFails, IoFails, Fault, envVars
<1>4. CASE faults' = faults
  BY <1>1, <1>2, <1>4, ToStutter DEF SameCounts
<1>5. CASE faults' = faults + 1
  BY <1>1, <1>2, <1>5, ToError
<1> QED BY <1>3, <1>4, <1>5

\* The ends of the process.
LEMMA ExitLog ==
  ASSUME IInv, IInv', Keeps', seen' = seen,
         Crash \/ OpenFails \/ (Close /\ ~NeedIO) \/ (IoFails /\ closing)
  PROVE  LogStep
<1>1. /\ disk' = disk /\ nrec' = nrec /\ rot' = rot /\ NoWriter
      /\ fate' = fate \/ fate' = AfterExit(fate)
      /\ faults' = faults \/ faults' = faults + 1
  BY DEF Crash, OpenFails, Close, IoFails, FlushFailed, Fault, diskVars
<1>2. wpc' = "down" /\ gaps' = 0 /\ pending' = <<>>
  BY <1>1 DEF NoWriter
<1>3. \A r \in Recs : fate[r] = "durable" => fate'[r] = "durable"
  BY <1>1 DEF AfterExit
<1>4. Held' \subseteq Held /\ Durable \subseteq Durable' /\ Durable' \subseteq Held'
  BY <1>1, <1>2, <1>3, ExitHeld
<1> QED BY <1>1, <1>2, <1>4, ToEnd DEF SameUsers

\* A flush, of a tick, of a rotation or of the last call.
LEMMA FlushLog ==
  ASSUME IInv, IInv', Keeps, Keeps', seen' = seen, Seal \/ Finish \/ SealExhausted
  PROVE  LogStep
<1>1. /\ wpc \in {"sync", "seal"} /\ UNCHANGED <<nrec, faults, rot>>
      /\ disk' = SyncFile(active) \/ (disk' = disk /\ ~unsynced)
  BY DEF Seal, Finish, SealExhausted, envVars
<1>2. CASE fate' = Flushed /\ UNCHANGED <<pending, gaps>> /\ wpc' # "down"
  <2>1. Held' = Held /\ Durable \subseteq Durable' /\ Durable' \subseteq Held
    BY <1>1, <1>2, FlushHeld
  <2> QED BY <1>1, <1>2, <2>1, ToCover DEF StaysUp, SameUsers, SameCounts
<1>3. CASE fate' = AfterExit(Flushed) /\ NoWriter
  <2>1. \A s \in SegIds : /\ disk'[s].recs = disk[s].recs /\ disk'[s].hdr = disk[s].hdr
                          /\ disk'[s].st = disk[s].st
    BY <1>1, FlushFacts
  <2>2. \A r \in Recs : fate[r] = "durable" => fate'[r] = "durable"
    <3>1. \A r \in Recs : fate[r] = "durable" => Flushed[r] = "durable"
      BY DEF Flushed, Mark
    <3> QED BY <1>3, <3>1 DEF AfterExit
  <2>3. wpc' = "down" /\ gaps' = 0 /\ pending' = <<>>
    BY <1>3 DEF NoWriter
  <2>4. Held' \subseteq Held /\ Durable \subseteq Durable' /\ Durable' \subseteq Held'
    BY <2>1, <2>2, <2>3, ExitHeld
  <2> QED BY <1>1, <2>3, <2>4, ToEnd DEF SameUsers
<1> QED BY <1>2, <1>3 DEF Seal, Finish, SealExhausted

\* Writes of the active file: the log shows nothing of them.
LEMMA WriteLog ==
  ASSUME IInv, IInv', Keeps, Keeps', Remains, seen' = seen,
         OpenActive \/ WriteHeader \/ WritePart \/ WriteBatch
  PROVE  LogStep
<1>1. StaysUp /\ SameUsers /\ SameCounts
  BY DEF OpenActive, WriteHeader, WritePart, WriteBatch, AfterOpen, envVars, memVars, StaysUp,
     SameUsers, SameCounts
<1>2. Held' = Held /\ Durable' = Durable
  <2>1. CASE OpenActive \/ WriteHeader \/ WritePart
    <3>1. Held' = Held
      BY <2>1, OpenActiveHeld, WriteHeaderHeld, WritePartHeld
    <3>2. fate' = fate
      BY <2>1 DEF OpenActive, WriteHeader, WritePart
    <3> QED BY <3>1, <3>2 DEF Durable, With
  <2>2. CASE WriteBatch
    BY <2>2, WriteBatchHeld
  <2> QED BY <2>1, <2>2
<1> QED BY <1>1, <1>2, ToStutter DEF StaysUp, SameUp, SameHolds

\* A segment behind the acked position holds what was delivered.
LEMMA BehindSeen ==
  ASSUME IInv, Marks, NEW s \in SegIds, s < acked[1]
  PROVE  Readable(disk[s]) \subseteq seen
<1> SUFFICES ASSUME NEW r \in Readable(disk[s]) PROVE r \in seen
  OBVIOUS
<1>1. PICK i \in DOMAIN disk[s].recs : i \in 1..ValidCount(disk[s].recs) /\ disk[s].recs[i] = r
  BY ReadableFacts
<1>2. ReadableAt(s, i)
  BY <1>1, ReadableFacts DEF ReadableAt
<1>3. Before(<<s, i>>, acked)
  BY DEF Before
<1>4. Covered(acked)
  BY DEF Marks, MarkSet, MarkOK
<1> QED BY <1>1, <1>2, <1>3, <1>4 DEF Covered

\* Deletions of what was acked.
LEMMA ReleaseLog ==
  ASSUME IInv, Marks, AckTodo, seen' = seen, OpenDelete \/ AckDelete
  PROVE  LogStep
<1>1. PICK s \in SegIds : /\ Oldest(s, todo) /\ (wpc = "opening" => s < acked[1])
                          /\ disk' = [disk EXCEPT ![s].st = "gone"]
                          /\ fate' = Mark(Readable(disk[s]), "acked")
  BY DEF OpenDelete, AckDelete
<1>2. /\ wpc \in {"opening", "acking"} /\ wpc' # "down" /\ UNCHANGED <<pending, gaps, nrec, faults, rot>>
  BY DEF OpenDelete, AckDelete, memVars, envVars
<1>3. s < acked[1]
  BY <1>1, <1>2 DEF AckTodo, Oldest
<1>4. s # active
  <2>1. CASE wpc = "opening"
    <3>1. s \in Listing
      BY <1>1, <2>1 DEF IInv, Numbers, Oldest
    <3>2. s < active /\ s \in Int
      BY <2>1, <3>1 DEF IInv, Numbers, SegIds
    <3> QED BY <3>2
  <2>2. CASE wpc = "acking"
    BY <1>1, <2>2 DEF IInv, Control, Oldest
  <2> QED BY <1>2, <2>1, <2>2
<1>5. /\ Readable(disk[s]) \subseteq Held /\ Held' = Held \ Readable(disk[s])
      /\ Durable' = Durable \ Readable(disk[s])
  BY <1>1, <1>2, <1>4, DeletionTakes
<1>6. Readable(disk[s]) \subseteq Held \cap seen
  BY <1>3, <1>5, BehindSeen
<1>7. SameUp /\ SameUsers /\ SameCounts /\ Takes(Readable(disk[s]))
  BY <1>2, <1>5 DEF SameUp, SameUsers, SameCounts, Takes
<1> QED BY <1>6, <1>7, ToRelease

\* Evictions: the gap is as long as what the segment showed.
LEMMA EvictLog ==
  ASSUME IInv, Counts, seen' = seen, Evict
  PROVE  LogStep
<1>1. PICK s \in SegIds :
        /\ Oldest(s, Victims) /\ disk' = [disk EXCEPT ![s].st = "gone"]
        /\ \/ /\ Policy = "Retention" /\ NoFault
              /\ fate' = Mark(Readable(disk[s]), "retired") /\ UNCHANGED gaps
           \/ /\ Policy # "Retention" /\ NoFault
              /\ fate' = Mark(Readable(disk[s]), "evicted") /\ gaps' = gaps + GapRecords(s)
           \/ /\ Policy # "Retention" /\ Fault
              /\ fate' = Mark(Readable(disk[s]), "unread") /\ UNCHANGED gaps
  BY DEF Evict
<1>2. wpc = "room" /\ wpc' = "room" /\ UNCHANGED <<pending, nrec, rot>>
  BY DEF Evict, loopVars
<1>3. s \in segs /\ s # active
  BY <1>1 DEF Oldest, Victims, Sealed
<1>4. Cardinality(Readable(disk[s])) = GapRecords(s)
  BY <1>3, ReadableCount DEF Counts, SegsLive
<1>5. PICK v : v # "durable" /\ fate' = Mark(Readable(disk[s]), v)
  BY <1>1
<1>6. /\ Readable(disk[s]) \subseteq Held /\ Held' = Held \ Readable(disk[s])
      /\ Durable' = Durable \ Readable(disk[s])
  BY <1>1, <1>2, <1>3, <1>5, DeletionTakes
<1>7. StaysUp /\ SameUsers /\ Takes(Readable(disk[s]))
  BY <1>2, <1>6 DEF StaysUp, SameUsers, Takes
<1>8. \/ Policy # "Retention" /\ gaps' = gaps + Cardinality(Readable(disk[s])) /\ faults' = faults
      \/ Policy = "Retention" /\ UNCHANGED <<gaps, faults>>
      \/ Policy # "Retention" /\ faults' = faults + 1 /\ gaps' = gaps
  BY <1>1, <1>4 DEF NoFault, Fault
<1> QED BY <1>2, <1>6, <1>7, <1>8, ToEvict

\* What a full backlog drops was counted.
LEMMA DropLog ==
  ASSUME IInv, Keeps, seen' = seen, DropPending
  PROVE  LogStep
<1>1. StaysUp /\ SameUsers /\ UNCHANGED <<faults, rot>>
  BY DEF DropPending, StaysUp, SameUsers, envVars
<1>2. /\ Range(pending) \in SUBSET (Held \ Durable) /\ Takes(Range(pending))
      /\ gaps' = gaps + Cardinality(Range(pending))
  BY DropHeld DEF Takes
<1> QED BY <1>1, <1>2, ToDrop

\* A report takes the count.
LEMMA ReportLog ==
  ASSUME seen' = seen, TakeGaps
  PROVE  LogStep
<1>1. StaysUp /\ SameUsers /\ gaps' = 0 /\ UNCHANGED <<disk, pending, faults, rot>>
  BY DEF TakeGaps, diskVars, loopVars, envVars, StaysUp, SameUsers
<1>2. PICK S : S = With({"evicted", "dropped"}) /\ fate' = Mark(S, "reported")
  BY DEF TakeGaps
<1>3. \A r \in S : fate[r] # "durable"
  BY <1>2 DEF With
<1>4. SameHolds
  BY <1>1, <1>2, <1>3, MarkOthers DEF SameHolds, Held
<1> QED BY <1>1, <1>4, ToReport

\* An append offers a record.
LEMMA AppendLog ==
  ASSUME IInv, Keeps, Keeps', seen' = seen, AppendRecord
  PROVE  LogStep
<1>1. StaysUp /\ SameCounts
  BY DEF AppendRecord, loopVars, StaysUp, SameCounts
<1> QED BY <1>1, AppendHeld, ToPut

\* The start loads the cursor and lists the files.
LEMMA LoadLog ==
  ASSUME seen' = seen, OpenLoad
  PROVE  LogStep
<1>1. wpc = "down" /\ wpc' # "down" /\ UNCHANGED <<disk, pending, fate>> /\ SameUsers /\ SameCounts
  BY DEF OpenLoad, diskVars, envVars, SameUsers, SameCounts
<1>2. SameHolds
  BY <1>1 DEF SameHolds, Held, Durable, With
<1> QED BY <1>1, <1>2, ToStart

\* It keeps a segment, repaired if it is the newest one.
LEMMA OpenKeepLog ==
  ASSUME IInv, seen' = seen, OpenKeep
  PROVE  LogStep
<1>1. SameUp /\ SameUsers /\ UNCHANGED <<gaps, rot>> /\ SameHolds
  BY OpenKeepHeld DEF OpenKeep, SameUp, SameUsers, SameHolds
<1>2. faults' = faults \/ faults' = faults + 1
  BY DEF OpenKeep, Fault, NoFault
<1>3. CASE faults' = faults
  BY <1>1, <1>3, ToStutter DEF SameCounts
<1>4. CASE faults' = faults + 1
  BY <1>1, <1>4, ToError
<1> QED BY <1>2, <1>3, <1>4

\* Damage at rest.
LEMMA RotLog ==
  ASSUME IInv, seen' = seen, RotFrame \/ RotHeader \/ RotCursor
  PROVE  LogStep
<1>1. SameUp /\ SameUsers /\ rot' = rot + 1 /\ UNCHANGED <<gaps, faults>>
  BY DEF RotFrame, RotHeader, RotCursor, memVars, loopVars, SameUp, SameUsers
<1>2. PICK S \in SUBSET Held : Takes(S)
  BY RotHeld DEF Takes
<1> QED BY <1>1, <1>2, ToDamaged

\* A power cut.
LEMMA PowerCutLog ==
  ASSUME IInv, IInv', Keeps, Keeps', seen' = seen, PowerCut
  PROVE  LogStep
<1>1. wpc' = "down" /\ gaps' = 0 /\ SameUsers /\ faults' = faults /\ rot' = rot
  BY DEF PowerCut, NoWriter, SameUsers
<1> QED BY <1>1, PowerCutHeld, ToEnd

\* Steps of the agent and of the disk.
LEMMA AgentLog ==
  ASSUME IInv, IInv', Keeps, Keeps', Remains, Marks, Counts, AckTodo, seen' = seen, AgentOnly
  PROVE  LogStep
<1>1. CASE OpenLoad
  BY <1>1, LoadLog
<1>2. CASE OpenDelete \/ AckDelete
  BY <1>2, ReleaseLog
<1>3. CASE OpenKeep
  BY <1>3, OpenKeepLog
<1>4. CASE OpenFails \/ Crash \/ (Close /\ ~NeedIO) \/ (IoFails /\ closing)
  BY <1>4, ExitLog
<1>5. CASE \/ Tick \/ IdleTick \/ (Close /\ NeedIO) \/ StartRotate \/ RoomMade
           \/ EvictFails \/ AckDeleteFails \/ (IoFails /\ ~closing)
  BY <1>5, QuietLog
<1>6. CASE AppendRecord
  BY <1>6, AppendLog
<1>7. CASE OpenActive \/ WriteHeader \/ WritePart \/ WriteBatch
  BY <1>7, WriteLog
<1>8. CASE Evict
  BY <1>8, EvictLog
<1>9. CASE DropPending
  BY <1>9, DropLog
<1>10. CASE Seal \/ Finish \/ SealExhausted
  BY <1>10, FlushLog
<1>11. CASE TakeGaps
  BY <1>11, ReportLog
<1>12. CASE RotFrame \/ RotHeader \/ RotCursor
  BY <1>12, RotLog
<1> QED
  BY <1>1, <1>2, <1>3, <1>4, <1>5, <1>6, <1>7, <1>8, <1>9, <1>10, <1>11, <1>12
     DEF AgentOnly, Opening, Flushing, Acking

\* A reader's steps: it is given what a file shows, or nothing changes.
LEMMA ReaderLog ==
  ASSUME IInv, ReaderControl, AllOffered, UNCHANGED vars, Reading \/ StartReader
  PROVE  LogStep
<1>1. UNCHANGED <<disk, pending, fate, wpc, nrec, gaps, faults, rot>>
  BY DEF vars, diskVars, memVars, loopVars, envVars
<1>2. SameUp /\ SameHolds /\ SameCounts /\ nrec' = nrec
  BY <1>1 DEF SameUp, SameHolds, SameCounts, Held, Durable, With
<1>3. CASE seen' = seen
  BY <1>2, <1>3, ToStutter DEF SameUsers
<1>4. CASE ReadRecord \/ ReadAgain
  <2>1. PICK p \in SegIds : p = pos[1]
    BY <1>4 DEF ReaderControl, InFile, ReadRecord, ReadAgain
  <2>2. PICK r : r = disk[p].recs[pos[2]] /\ r > 0 /\ pos[2] \in DOMAIN disk[p].recs /\ seen' = seen \cup {r}
    BY <1>4, <2>1 DEF ReadRecord, ReadAgain, AtRecord, Deliver
  <2>3. r \in Int /\ r <= nrec /\ nrec \in Nat
    BY <2>2, FileFacts, CountsAssumption DEF AllOffered, IInv, TypeOK, TypeHistory
  <2>4. r \in 1..nrec
    BY <2>2, <2>3
  <2> QED BY <1>2, <2>2, <2>4, ToGive
<1> QED
  BY <1>3, <1>4 DEF Reading, StartReader, ListSegments, OpenFile, OpenDeleted, ReadHeader,
     ReadNothing, CheckNewer, LeaveSegment

\* An ack moves the cursor, which the log does not show.
LEMMA AckLog ==
  ASSUME AckDelivered
  PROVE  LogStep
<1>1. UNCHANGED <<disk, pending, fate, nrec, gaps, faults, rot, seen>> /\ StaysUp
  BY DEF AckDelivered, Ack, envVars, readerVars, StaysUp
<1>2. SameUp /\ SameHolds /\ SameCounts /\ SameUsers
  BY <1>1 DEF SameUp, StaysUp, SameHolds, SameCounts, SameUsers, Held, Durable, With
<1> QED BY <1>2, ToStutter

-----------------------------------------------------------------------------
(* The invariant.                                                          *)

\* The count of what was evicted or dropped, in every step of the composition.
LEMMA RNextCounts ==
  ASSUME RInv, RInv', Counts, AgentOnly \/ PowerCut \/ AckDelivered \/ UNCHANGED vars
  PROVE  Counts'
<1>1. IInv /\ IInv' /\ Keeps
  BY DEF RInv, Sound
<1>2. CASE AgentOnly \/ PowerCut \/ UNCHANGED vars
  <2>1. [Next]_vars
    BY <1>2 DEF Next, AgentOnly, Environment
  <2>2. SegsLive'
    BY <1>1, <2>1, NextSegsLive DEF Counts
  <2>3. GapsExact' /\ NoneMissingOnDisk'
    BY <1>1, <2>1, NextGaps
  <2> QED BY <2>1, <2>2, <2>3, NextUncounted DEF Counts
<1>3. CASE AckDelivered
  <2>1. /\ UNCHANGED <<disk, segs, active, gaps, fate>> /\ wpc' \in {"idle", "acking"}
    BY <1>3 DEF AckDelivered, Ack
  <2>2. SegsLive'
    BY <2>1 DEF Counts, SegsLive, Listing
  <2>3. GapsExact' /\ NoneMissingOnDisk'
    BY <2>1 DEF Counts, GapsExact, NoneMissingOnDisk, Missing, With, Listing
  <2> QED BY <2>1, <2>2, <2>3 DEF Counts
<1> QED BY <1>2, <1>3

\* An ack deletes behind its cursor only.
LEMMA RNextAckTodo ==
  ASSUME IInv, AckTodo, AgentOnly \/ PowerCut \/ AckDelivered \/ UNCHANGED vars
  PROVE  AckTodo'
<1>1. CASE wpc' # "acking"
  BY <1>1 DEF AckTodo
<1>2. CASE AckDelivered
  BY <1>2 DEF AckDelivered, Ack, Behind, AckTodo
<1>3. CASE PowerCut
  BY <1>3 DEF PowerCut, NoWriter, AckTodo
<1>4. CASE UNCHANGED vars
  BY <1>4 DEF vars, memVars, loopVars, AckTodo
<1>5. CASE AgentOnly /\ wpc' = "acking"
  <2>1. wpc = "acking"
    BY <1>5, AgentMoves
  <2>2. \/ AckDelete \/ AckDeleteFails \/ RotFrame \/ RotHeader \/ RotCursor
    BY <1>5, <2>1 DEF AgentOnly, Opening, OpenLoad, OpenDelete, OpenKeep, OpenFails, AppendRecord,
       Tick, IdleTick, Close, Flushing, OpenActive, WriteHeader, WritePart, WriteBatch, StartRotate,
       Evict, EvictFails, DropPending, RoomMade, Seal, SealExhausted, Finish, IoFails, Acking,
       TakeGaps, Crash, NoWriter
  <2>3. acked' = acked /\ todo' \subseteq todo
    BY <2>2 DEF AckDelete, AckDeleteFails, RotFrame, RotHeader, RotCursor, memVars, loopVars
  <2> QED BY <2>1, <2>3 DEF AckTodo
<1> QED BY <1>1, <1>2, <1>3, <1>4, <1>5

\* A file that is out of the listing after a step shows no new frame.
LEMMA UnlistedFrames ==
  ASSUME IInv, AgentOnly \/ PowerCut, NEW s \in SegIds, s \notin Listing', NEW i \in DOMAIN disk'[s].recs
  PROVE  disk'[s].recs[i] <= 0 \/ (i \in DOMAIN disk[s].recs /\ disk'[s].recs[i] = disk[s].recs[i])
<1>1. disk \in [SegIds -> Files] /\ disk[s] \in Files
  BY DEF IInv, TypeOK, TypeDisk
<1>2. CASE AgentOnly /\ rot' = rot
  BY <1>2, GoneSame DEF Same
<1>3. CASE RotFrame \/ RotHeader \/ RotCursor
  <2>1. CASE RotCursor
    BY <2>1 DEF RotCursor
  <2>2. CASE RotHeader
    <3>1. PICK t \in SegIds : disk' = [disk EXCEPT ![t].hdr = "foreign"]
      BY <2>2 DEF RotHeader
    <3>2. disk'[s].recs = disk[s].recs
      BY <1>1, <3>1 DEF Files
    <3> QED BY <3>2
  <2>3. CASE RotFrame
    <3>1. PICK t \in SegIds : \E k \in 1..ValidCount(disk[t].recs) :
             AtRest(t) /\ disk' = [disk EXCEPT ![t].recs[k] = -disk[t].recs[k]]
      BY <2>3 DEF RotFrame
    <3>2. disk'[t].st = "live"
      BY <1>1, <3>1 DEF AtRest, Listing, Files
    <3>3. s # t
      BY <3>2 DEF Listing
    <3> QED BY <1>1, <3>1, <3>3
  <2> QED BY <1>3, <2>1, <2>2, <2>3
<1>4. CASE PowerCut
  <2>1. PICK keep \in [Unflushed -> (-2)..MaxRecs], torn \in [Unflushed -> BOOLEAN] :
          /\ \A t \in Unflushed : MayCut(disk[t], keep[t], torn[t])
          /\ disk' = [t \in SegIds |-> IF t \in Unflushed THEN CutFile(disk[t], keep[t], torn[t])
                                       ELSE disk[t]]
    BY <1>4 DEF PowerCut
  <2>2. CASE s \notin Unflushed
    BY <2>1, <2>2
  <2>3. CASE s \in Unflushed
    <3>1. PICK k \in Int : k = keep[s] /\ k >= -2
      <4>1. keep[s] \in (-2)..MaxRecs
        BY <2>1, <2>3
      <4> QED BY <4>1, CountsAssumption
    <3>2. disk'[s] = CutFile(disk[s], k, torn[s]) /\ MayCut(disk[s], k, torn[s])
      BY <2>1, <2>3, <3>1
    <3> QED BY <1>1, <3>1, <3>2, CutFileFacts
  <2> QED BY <2>2, <2>3
<1>5. AgentOnly => rot' = rot \/ RotFrame \/ RotHeader \/ RotCursor
  BY DEF AgentOnly, Opening, OpenLoad, OpenDelete, OpenKeep, OpenFails, AppendRecord,
       Tick, IdleTick, Close, Flushing, OpenActive, WriteHeader, WritePart, WriteBatch, StartRotate,
       Evict, EvictFails, DropPending, RoomMade, Seal, SealExhausted, Finish, IoFails, Acking,
       AckDelete, AckDeleteFails, TakeGaps, Crash, envVars
<1> QED BY <1>2, <1>3, <1>4, <1>5

\* Records are numbered on.
LEMMA OfferedGrows ==
  ASSUME IInv, AgentOnly \/ PowerCut
  PROVE  nrec \in Int /\ nrec' \in Int /\ nrec <= nrec'
<1>1. nrec \in Int
  BY CountsAssumption DEF IInv, TypeOK, TypeHistory
<1>2. nrec' = nrec \/ nrec' = nrec + 1
  BY DEF AgentOnly, Opening, OpenLoad, OpenDelete, OpenKeep, OpenFails, AppendRecord,
       Tick, IdleTick, Close, Flushing, OpenActive, WriteHeader, WritePart, WriteBatch, StartRotate,
       Evict, EvictFails, DropPending, RoomMade, Seal, SealExhausted, Finish, IoFails, Acking,
       AckDelete, AckDeleteFails, TakeGaps, Crash, RotFrame, RotHeader, RotCursor, PowerCut, envVars
<1> QED BY <1>1, <1>2

\* Every file still shows only what was offered.
LEMMA RNextAllOffered ==
  ASSUME IInv, IInv', AllOffered, AgentOnly \/ PowerCut
  PROVE  AllOffered'
<1> SUFFICES ASSUME NEW s \in SegIds, NEW i \in DOMAIN disk'[s].recs PROVE disk'[s].recs[i] <= nrec'
  BY DEF AllOffered
<1>1. CASE s \in Listing'
  BY <1>1 DEF IInv, Ages
<1>2. CASE s \notin Listing'
  <2>1. nrec \in Int /\ nrec' \in Int /\ nrec <= nrec'
    BY OfferedGrows
  <2>2. nrec' >= 0
    BY CountsAssumption DEF IInv, TypeOK, TypeHistory
  <2>3. \A k \in DOMAIN disk[s].recs : disk[s].recs[k] \in Int /\ disk[s].recs[k] <= nrec
    BY FileFacts DEF AllOffered
  <2>4. disk'[s].recs[i] <= 0 \/ (i \in DOMAIN disk[s].recs /\ disk'[s].recs[i] = disk[s].recs[i])
    BY <1>2, UnlistedFrames
  <2>5. CASE i \in DOMAIN disk[s].recs /\ disk'[s].recs[i] = disk[s].recs[i]
    BY <2>1, <2>3, <2>5
  <2>6. CASE disk'[s].recs[i] <= 0
    <3>1. PICK q \in Seq(Frames) : q = disk'[s].recs
      BY DEF IInv, TypeOK, TypeDisk, Files
    <3>2. PICK x \in Int : x = disk'[s].recs[i]
      <4>1. q[i] \in Frames
        BY <3>1
      <4> QED BY <3>1, <4>1, CountsAssumption DEF Frames
    <3>3. PICK n \in Int : n = nrec'
      BY <2>1
    <3>4. x <= 0 /\ 0 <= n
      BY <2>2, <2>6, <3>2, <3>3
    <3>5. x <= n
      BY <3>4
    <3> QED BY <3>2, <3>3, <3>5
  <2> QED BY <2>4, <2>5, <2>6
<1> QED BY <1>1, <1>2

\* It holds at the start.
LEMMA RInitLog == RInit => LInv
<1> SUFFICES ASSUME RInit PROVE LInv
  OBVIOUS
<1>1. RInv
  BY RInitInv
<1>2. gaps = 0 /\ segs = {} /\ wpc = "down" /\ Missing = {} /\ Listing = {}
  BY DEF RInit, Init, Missing, With, Listing, Absent
<1>3. Counts
  BY <1>2, FS_EmptySet DEF Counts, GapsExact, NoneMissingOnDisk, SegsLive, Missing
<1>4. AckTodo
  BY <1>2 DEF AckTodo
<1>5. AllOffered
  BY DEF RInit, Init, AllOffered, Absent
<1> QED BY <1>1, <1>3, <1>4, <1>5 DEF LInv

\* Every step of the composition keeps it.
LEMMA RNextLog == LInv /\ [RNext]_rvars => LInv'
<1> SUFFICES ASSUME LInv, [RNext]_rvars PROVE LInv'
  OBVIOUS
<1>1. RInv /\ RInv' /\ IInv /\ IInv' /\ Counts /\ AckTodo /\ AllOffered
  BY RNextInv DEF LInv, RInv, Sound
<1>2. AgentOnly \/ PowerCut \/ AckDelivered \/ UNCHANGED vars
  BY DEF RNext, AgentStep, AgentOnly, MachineEnds, StartReader, Reading, ListSegments, OpenFile,
     OpenDeleted, ReadHeader, ReadRecord, ReadAgain, Deliver, ReadNothing, CheckNewer,
     LeaveSegment, rvars
<1>3. Counts'
  BY <1>1, <1>2, RNextCounts
<1>4. AckTodo'
  BY <1>1, <1>2, RNextAckTodo
<1>5. AllOffered'
  <2>1. CASE AgentOnly \/ PowerCut
    BY <1>1, <2>1, RNextAllOffered
  <2>2. CASE AckDelivered \/ UNCHANGED vars
    <3>1. disk' = disk /\ nrec' = nrec
      BY <2>2 DEF AckDelivered, Ack, vars, diskVars, envVars
    <3> QED BY <1>1, <3>1 DEF AllOffered
  <2> QED BY <1>2, <2>1, <2>2
<1> QED BY <1>1, <1>3, <1>4, <1>5 DEF LInv

-----------------------------------------------------------------------------
(* Theorem.                                                                *)

\* The log starts empty, as the buffer does.
LEMMA LogInit == RInit => Log!Init
<1> SUFFICES ASSUME RInit PROVE Log!Init
  OBVIOUS
<1>1. /\ wpc = "down" /\ nrec = 0 /\ gaps = 0 /\ faults = 0 /\ rot = 0 /\ seen = {}
      /\ pending = <<>> /\ fate = [r \in Recs |-> "new"] /\ disk = [s \in SegIds |-> Absent]
  BY DEF RInit, Init
<1>2. OnDisk(disk) = {}
  BY <1>1, OnDiskIs DEF Readable, Absent
<1>3. Range(pending) = {}
  BY <1>1 DEF Range
<1>4. With({"durable"}) = {}
  BY <1>1 DEF With
<1> QED BY <1>1, <1>2, <1>3, <1>4 DEF Log!Init

\* Every step of the composition is one of the log's.
LEMMA LogNext == LInv /\ LInv' /\ [RNext]_rvars => [Log!Next]_Log!vars
<1> SUFFICES ASSUME LInv, LInv', [RNext]_rvars PROVE LogStep
  BY DEF LogStep
<1>1. /\ IInv /\ IInv' /\ Keeps /\ Keeps' /\ Remains /\ Marks /\ ReaderControl
      /\ Counts /\ AckTodo /\ AllOffered
  BY DEF LInv, RInv, Sound
<1>2. CASE AgentStep
  <2>1. AgentOnly /\ seen' = seen
    BY <1>2 DEF AgentStep, AgentOnly, NoReader, readerVars
  <2> QED BY <1>1, <2>1, AgentLog
<1>3. CASE MachineEnds
  BY <1>1, <1>3, PowerCutLog DEF MachineEnds, NoReader
<1>4. CASE StartReader \/ Reading
  <2>1. UNCHANGED vars
    BY <1>4 DEF StartReader, Reading, ListSegments, OpenFile, OpenDeleted, ReadHeader, ReadRecord,
       ReadAgain, Deliver, ReadNothing, CheckNewer, LeaveSegment
  <2> QED BY <1>1, <1>4, <2>1, ReaderLog
<1>5. CASE AckDelivered
  BY <1>5, AckLog
<1>6. CASE UNCHANGED rvars
  <2>1. UNCHANGED <<disk, pending, fate, wpc, nrec, seen, gaps, faults, rot>>
    BY <1>6 DEF rvars, vars, diskVars, memVars, loopVars, envVars, readerVars
  <2>2. SameUp /\ SameHolds /\ SameUsers /\ SameCounts
    BY <2>1 DEF SameUp, SameHolds, SameUsers, SameCounts, Held, Durable, With
  <2> QED BY <2>2, ToStutter
<1> QED BY <1>2, <1>3, <1>4, <1>5, <1>6 DEF RNext

\* The writer, the reader, the machine and the disk together are the log that
\* lib.rs promises: while the agent runs a record leaves it only when it was
\* delivered and acked, evicted or dropped and then counted, or damaged, and no
\* end of the agent or the power takes what a flush covered.
THEOREM LogImplemented == RSpec => IsEventLog
<1>1. RInit => LInv
  BY RInitLog
<1>2. LInv /\ [RNext]_rvars => LInv'
  BY RNextLog
<1>3. RInit => Log!Init
  BY LogInit
<1>4. LInv /\ LInv' /\ [RNext]_rvars => [Log!Next]_Log!vars
  BY LogNext
<1> QED BY <1>1, <1>2, <1>3, <1>4, PTL DEF RSpec, IsEventLog, Log!Spec
=============================================================================
