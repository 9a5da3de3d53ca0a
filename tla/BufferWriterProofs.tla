-------------------------- MODULE BufferWriterProofs --------------------------
(***************************************************************************)
(* Proofs about BufferWriter: first that its files are whole and in order, *)
(* from the inductive invariant IInv, with one lemma for each action; then *)
(* that it loses nothing, from Keeps.                                      *)
(***************************************************************************)
EXTENDS BufferWriter, TLAPS, WellFoundedInduction, SequenceTheorems, FiniteSetTheorems

-----------------------------------------------------------------------------
(* The inductive invariant.                                                *)

\* What the next I/O call presupposes.
Control ==
  /\ wpc \in {"down", "opening"} => pending = <<>>
  /\ wpc \in {"write", "writing"} => pending # <<>> /\ fileOpen
  /\ wpc \in {"room", "seal"} => fileOpen
  /\ wpc # "down" => active \in SegIds
  /\ wpc = "down" => ~fileOpen /\ \A s \in SegIds : len[s] < 0
  /\ wpc = "opening" => ~fileOpen /\ len[active] < 0
  /\ wpc = "acking" => active \notin todo

\* The active segment sorts after every file; open visits the files in order.
Numbers ==
  /\ wpc # "down" => \A s \in Listing : s <= active
  /\ wpc = "opening" =>
       /\ todo \subseteq Listing
       /\ \A s \in Listing : s < active /\ (s \in todo \/ \A t \in todo : s < t)

\* The writer's length of the active segment against its file.
ActiveFile ==
  wpc # "down" =>
    /\ fileOpen => len[active] >= 0
    /\ fileOpen /\ wpc # "writing" => Len(disk[active].recs) <= len[active]
    /\ len[active] >= 0 => active \in Listing /\ len[active] <= Len(disk[active].recs)
    /\ len[active] < 0 /\ active \in Listing => disk[active].recs = <<>>
    /\ wpc = "header" => active \in Listing /\ len[active] < 0

\* Queued records are in order and younger than every frame on disk, except
\* the remains of a failed write, past the active segment's length.
Ages ==
  /\ \A j \in DOMAIN pending : pending[j] <= nrec
  /\ \A i, j \in DOMAIN pending : i < j => pending[i] < pending[j]
  /\ \A s \in Listing : \A i \in DOMAIN disk[s].recs :
       /\ disk[s].recs[i] <= nrec
       /\ \/ s = active /\ i > len[active]
          \/ \A j \in DOMAIN pending : disk[s].recs[i] < pending[j]

IInv == TypeOK /\ Control /\ Numbers /\ ActiveFile /\ Ages /\ LogInOrder

-----------------------------------------------------------------------------
(* Lemmas on the helpers.                                                  *)

\* A set of numbers up to n that is not empty has a largest one, and Max is it.
LEMMA MaxOfInterval ==
  ASSUME NEW n \in Nat, NEW S \in SUBSET (0..n), S # {}
  PROVE  Max(S) \in S /\ \A x \in S : x <= Max(S)
<1> DEFINE T == {m \in Nat : n - m \in S}
<1>1. PICK x \in S : TRUE
  OBVIOUS
<1>2. n - x \in T
  BY <1>1
<1>3. IsWellFoundedOn(OpToRel(<, Nat), Nat)
  BY NatLessThanWellFounded
<1>4. PICK m \in T : \A y \in T : ~(<<y, m>> \in OpToRel(<, Nat))
  BY <1>2, <1>3, WFMin
<1>5. \A y \in S : y <= n - m
  <2> SUFFICES ASSUME NEW y \in S PROVE y <= n - m
    OBVIOUS
  <2>1. n - y \in T
    OBVIOUS
  <2>2. ~(n - y < m)
    BY <1>4, <2>1 DEF OpToRel
  <2> QED BY <2>2
<1>6. n - m \in S /\ \A y \in S : n - m >= y
  BY <1>5
<1> QED BY <1>6 DEF Max

\* record::scan stops inside the file, after valid frames only.
LEMMA ValidCountType ==
  ASSUME NEW s \in Seq(Frames)
  PROVE  /\ ValidCount(s) \in 0..Len(s)
         /\ \A i \in 1..ValidCount(s) : s[i] > 0
<1> DEFINE S == {k \in 0..Len(s) : \A i \in 1..k : s[i] > 0}
<1>1. 0 \in S /\ S \in SUBSET (0..Len(s)) /\ Len(s) \in Nat
  OBVIOUS
<1>2. Max(S) \in S
  BY <1>1, MaxOfInterval
<1> QED BY <1>2 DEF ValidCount

\* What record::scan keeps is a sequence of frames.
LEMMA ScanType ==
  ASSUME NEW s \in Seq(Frames)
  PROVE  /\ Scan(s) \in Seq(Frames) /\ Len(Scan(s)) = ValidCount(s)
         /\ \A i \in 1..Len(Scan(s)) : Scan(s)[i] = s[i]
  BY ValidCountType DEF Scan

\* set_len leaves a sequence of frames, and all of it when it is short.
LEMMA CutAtType ==
  ASSUME NEW s \in Seq(Frames), NEW n \in Int
  PROVE  /\ CutAt(s, n) \in Seq(Frames)
         /\ Len(CutAt(s, n)) <= Len(s)
         /\ n \in 0..Len(s) => Len(CutAt(s, n)) = n
         /\ n < 0 => Len(CutAt(s, n)) = 0
         /\ \A i \in 1..Len(CutAt(s, n)) : CutAt(s, n)[i] = s[i] /\ (n \in 0..Len(s) => i <= n)
  BY DEF CutAt

\* A write after the first n frames.
LEMMA Splice ==
  ASSUME NEW s \in Seq(Frames), NEW n \in 0..Len(s), NEW q \in Seq(Frames)
  PROVE  /\ CutAt(s, n) \o q \in Seq(Frames)
         /\ Len(CutAt(s, n) \o q) = n + Len(q)
         /\ \A i \in 1..n : i \in DOMAIN s /\ (CutAt(s, n) \o q)[i] = s[i]
         /\ \A i \in 1..Len(q) : (CutAt(s, n) \o q)[n + i] = q[i]
<1>1. n \in Int
  OBVIOUS
<1>2. PICK c \in Seq(Frames) : c = CutAt(s, n) /\ Len(c) = n /\ \A i \in 1..n : c[i] = s[i]
  BY <1>1, CutAtType
<1>3. c \o q \in Seq(Frames) /\ Len(c \o q) = n + Len(q)
  BY <1>2
<1>4. ASSUME NEW i \in 1..n PROVE (c \o q)[i] = s[i]
  <2>1. i \in 1..(Len(c) + Len(q)) /\ i <= Len(c)
    BY <1>2
  <2>2. (c \o q)[i] = c[i]
    BY <2>1
  <2> QED BY <1>2, <2>2
<1>5. ASSUME NEW i \in 1..Len(q) PROVE (c \o q)[n + i] = q[i]
  <2>1. n + i \in 1..(Len(c) + Len(q)) /\ ~(n + i <= Len(c)) /\ (n + i) - Len(c) = i
    BY <1>2
  <2>2. (c \o q)[n + i] = q[(n + i) - Len(c)]
    BY <2>1
  <2> QED BY <2>1, <2>2
<1>6. \A i \in 1..n : i \in DOMAIN s
  OBVIOUS
<1> QED BY <1>2, <1>3, <1>4, <1>5, <1>6

\* A file with other frames, or with another header, is a file.
LEMMA FileRecs ==
  ASSUME NEW f \in Files, NEW q \in Seq(Frames)
  PROVE  /\ [f EXCEPT !.recs = q] \in Files /\ [f EXCEPT !.recs = q].recs = q
         /\ [f EXCEPT !.recs = q].st = f.st
  BY DEF Files

\* A file with other frames and another durable length is a file.
LEMMA FileRecsDur ==
  ASSUME NEW f \in Files, NEW q \in Seq(Frames), NEW d \in Int
  PROVE  /\ [f EXCEPT !.recs = q, !.dur = d] \in Files
         /\ [f EXCEPT !.recs = q, !.dur = d].recs = q
         /\ [f EXCEPT !.recs = q, !.dur = d].st = f.st
  BY DEF Files

\* A file with another header is a file.
LEMMA FileHeader ==
  ASSUME NEW f \in Files, NEW h \in {"none", "ok", "foreign"}
  PROVE  /\ [f EXCEPT !.hdr = h] \in Files /\ [f EXCEPT !.hdr = h].recs = f.recs
         /\ [f EXCEPT !.hdr = h].st = f.st
  BY DEF Files

\* A file with a header, no frames and another durable length is a file.
LEMMA FileEmpty ==
  ASSUME NEW f \in Files, NEW h \in {"none", "ok", "foreign"}
  PROVE  /\ [f EXCEPT !.hdr = h, !.recs = <<>>, !.dur = 0] \in Files
         /\ [f EXCEPT !.hdr = h, !.recs = <<>>] \in Files
         /\ [f EXCEPT !.hdr = h, !.recs = <<>>].recs = <<>>
         /\ [f EXCEPT !.hdr = h, !.recs = <<>>].st = f.st
<1>1. <<>> \in Seq(Frames)
  OBVIOUS
<1>2. [f EXCEPT !.hdr = h] \in Files
  BY FileHeader
<1>3. [[f EXCEPT !.hdr = h] EXCEPT !.recs = <<>>] \in Files
  BY <1>1, <1>2, FileRecs
<1>4. [[f EXCEPT !.hdr = h] EXCEPT !.recs = <<>>, !.dur = 0] \in Files
  <2>1. PICK g \in Files : g = [f EXCEPT !.hdr = h]
    BY <1>2
  <2>2. PICK e \in Seq(Frames) : e = <<>>
    BY <1>1
  <2>4. PICK d \in Int : d = 0
    OBVIOUS
  <2>3. [g EXCEPT !.recs = e, !.dur = d] \in Files
    BY FileRecsDur
  <2> QED BY <2>1, <2>2, <2>3, <2>4
<1> QED BY <1>3, <1>4 DEF Files

\* The first k of a queue, and the rest of it.
LEMMA HeadAndRest ==
  ASSUME NEW s \in Seq(Recs), NEW k \in 0..Len(s)
  PROVE  /\ SubSeq(s, 1, k) \in Seq(Recs) /\ Len(SubSeq(s, 1, k)) = k
         /\ \A i \in 1..k : SubSeq(s, 1, k)[i] = s[i] /\ i \in DOMAIN s
         /\ SubSeq(s, k + 1, Len(s)) \in Seq(Recs) /\ Len(SubSeq(s, k + 1, Len(s))) = Len(s) - k
         /\ \A j \in 1..(Len(s) - k) : SubSeq(s, k + 1, Len(s))[j] = s[k + j] /\ k + j \in DOMAIN s
<1>1. SubSeq(s, 1, k) \in Seq(Recs) /\ Len(SubSeq(s, 1, k)) = k
  OBVIOUS
<1>2. \A i \in 1..k : SubSeq(s, 1, k)[i] = s[i] /\ i \in DOMAIN s
  OBVIOUS
<1>3. SubSeq(s, k + 1, Len(s)) \in Seq(Recs) /\ Len(SubSeq(s, k + 1, Len(s))) = Len(s) - k
  OBVIOUS
<1>4. ASSUME NEW j \in 1..(Len(s) - k)
      PROVE  SubSeq(s, k + 1, Len(s))[j] = s[k + j] /\ k + j \in DOMAIN s
  <2>1. (k + 1) + j - 1 = k + j /\ k + j \in 1..Len(s)
    OBVIOUS
  <2>2. SubSeq(s, k + 1, Len(s))[j] = s[(k + 1) + j - 1]
    BY SubSeqProperties
  <2> QED BY <2>1, <2>2
<1> QED BY <1>1, <1>2, <1>3, <1>4

\* write_from takes no more records than are queued.
LEMMA BatchType ==
  ASSUME pending \in Seq(Recs), pending # <<>>
  PROVE  Batch \in 0..Len(pending)
<1> DEFINE S == {k \in 0..Len(pending) : k = 0 \/ Fits(k)}
<1>1. 0 \in S /\ S \in SUBSET (0..Len(pending)) /\ Len(pending) \in Nat \ {0}
  OBVIOUS
<1>2. Max(S) \in S
  BY <1>1, MaxOfInterval
<1> QED BY <1>1, <1>2 DEF Batch

\* The buffer before the first open satisfies the invariant.
LEMMA InitInv == Init => IInv
<1> SUFFICES ASSUME Init PROVE IInv
  OBVIOUS
<1>1. TypeOK
  <2>1. Absent \in Files
    BY DEF Absent, Files
  <2>2. disk \in [SegIds -> Files] /\ len \in [SegIds -> Int] /\ fate \in [Recs -> Fates]
    BY <2>1 DEF Init, Fates
  <2>3. NoAck \in (0..MaxSeg) \X Nat
    BY CountsAssumption DEF NoAck
  <2>4. TypeDisk
    BY <2>2, <2>3 DEF Init, TypeDisk
  <2>5. TypeMem
    BY <2>2, <2>3, CountsAssumption DEF Init, TypeMem
  <2>6. TypeFlags
    BY DEF Init, TypeFlags
  <2>7. TypeHistory
    BY <2>2, CountsAssumption DEF Init, TypeHistory
  <2> QED BY <2>4, <2>5, <2>6, <2>7 DEF TypeOK
<1>2. Listing = {}
  BY DEF Init, Listing, Absent
<1> QED BY <1>1, <1>2 DEF Init, IInv, Control, Numbers, ActiveFile, Ages, LogInOrder

\* Loading the cursor and numbering the new segment keep the invariant.
LEMMA LoadInv == IInv /\ OpenLoad => IInv'
<1> SUFFICES ASSUME IInv, OpenLoad PROVE IInv'
  OBVIOUS
<1> USE DEF IInv
<1>1. PICK seq \in SegIds : AfterListingAndCursor(seq) /\ active' = seq /\ segs' = {seq}
  BY DEF OpenLoad
<1>2. \A t \in Listing : t < seq
  BY <1>1, CountsAssumption DEF AfterListingAndCursor, NextSeq, SegIds, LoadCursor, TypeOK, TypeDisk, NoAck, Listing
<1>3. UNCHANGED <<disk, len, fileOpen, pending, nrec>> /\ Listing' = Listing
  BY DEF OpenLoad, diskVars, envVars, Listing
<1>4. TypeOK'
  BY <1>1, CountsAssumption DEF OpenLoad, diskVars, envVars, TypeOK, TypeDisk, TypeMem, TypeFlags,
     TypeHistory, LoadCursor, NoAck, CorruptCursor, Listing, SegIds
<1>5. Control'
  BY <1>1, <1>3 DEF OpenLoad, Control
<1>6. Numbers'
  BY <1>1, <1>2, <1>3 DEF OpenLoad, Numbers, Listing, SegIds
<1>7. ActiveFile'
  <2>1. len'[active'] < 0 /\ ~fileOpen' /\ wpc' # "header"
    BY <1>1, <1>3 DEF OpenLoad, Control
  <2>2. active' \notin Listing'
    BY <1>1, <1>2, <1>3 DEF Listing, SegIds
  <2>3. len'[active'] \in Int
    BY <1>1, <1>4 DEF TypeOK, TypeMem
  <2> QED BY <2>1, <2>2, <2>3 DEF ActiveFile
<1>8. Ages'
  BY <1>1, <1>3 DEF OpenLoad, Ages, Control
<1>9. LogInOrder'
  BY <1>3 DEF LogInOrder
<1> QED BY <1>4, <1>5, <1>6, <1>7, <1>8, <1>9

-----------------------------------------------------------------------------
(* Steps that add no record to the log.                                    *)

\* A step that adds no valid frame and no queued record keeps the order.
LEMMA NoNewFrames ==
  ASSUME IInv, TypeOK', nrec' = nrec,
         \/ pending' = <<>>
         \/ pending' = pending /\ active' = active /\ len' = len,
         \A s \in Listing' : \A i \in DOMAIN disk'[s].recs :
           \/ disk'[s].recs[i] <= 0
           \/ /\ s \in Listing /\ i \in DOMAIN disk[s].recs
              /\ disk'[s].recs[i] = disk[s].recs[i]
  PROVE  Ages' /\ LogInOrder'
<1>1. \A s \in Listing' : disk'[s].recs \in Seq(Frames)
  BY DEF TypeOK, TypeDisk, Files, Listing
<1>2. \A s \in Listing' : \A i \in DOMAIN disk'[s].recs : disk'[s].recs[i] \in Int
  BY <1>1, CountsAssumption DEF Frames
<1>3. nrec \in Nat /\ \A j \in DOMAIN pending : pending[j] \in Int /\ pending[j] > 0
  <2>1. nrec \in 0..MaxRecs /\ pending \in Seq(Recs)
    BY DEF IInv, TypeOK, TypeHistory, TypeMem
  <2>2. \A j \in DOMAIN pending : pending[j] \in Recs
    BY <2>1
  <2> QED BY <2>1, <2>2, CountsAssumption DEF Recs
<1>4. \A j \in DOMAIN pending' : j \in DOMAIN pending /\ pending'[j] = pending[j]
  OBVIOUS
<1>5. Ages'
  <2>1. \A j \in DOMAIN pending' : pending'[j] <= nrec'
    BY <1>4 DEF IInv, Ages
  <2>2. \A i, j \in DOMAIN pending' : i < j => pending'[i] < pending'[j]
    BY <1>4 DEF IInv, Ages
  <2>3. ASSUME NEW s \in Listing', NEW i \in DOMAIN disk'[s].recs
        PROVE  /\ disk'[s].recs[i] <= nrec'
               /\ \/ s = active' /\ i > len'[active']
                  \/ \A j \in DOMAIN pending' : disk'[s].recs[i] < pending'[j]
    <3>1. CASE disk'[s].recs[i] <= 0
      BY <3>1, <1>2, <1>3, <1>4
    <3>2. CASE s \in Listing /\ i \in DOMAIN disk[s].recs /\ disk'[s].recs[i] = disk[s].recs[i]
      BY <3>2, <1>4 DEF IInv, Ages
    <3> QED BY <3>1, <3>2
  <2> QED BY <2>1, <2>2, <2>3 DEF Ages
<1>6. LogInOrder'
  <2> SUFFICES ASSUME NEW s \in Listing', NEW t \in Listing',
                      NEW i \in DOMAIN disk'[s].recs, NEW j \in DOMAIN disk'[t].recs,
                      disk'[s].recs[i] > 0, disk'[t].recs[j] > 0,
                      s < t \/ (s = t /\ i < j)
               PROVE  disk'[s].recs[i] < disk'[t].recs[j]
    BY DEF LogInOrder
  <2>1. /\ s \in Listing /\ i \in DOMAIN disk[s].recs /\ disk'[s].recs[i] = disk[s].recs[i]
        /\ t \in Listing /\ j \in DOMAIN disk[t].recs /\ disk'[t].recs[j] = disk[t].recs[j]
    BY <1>2
  <2> QED BY <2>1 DEF IInv, LogInOrder
<1> QED BY <1>5, <1>6

\* A step of a running writer that touches neither frames nor lengths.
LEMMA QuietStep ==
  ASSUME IInv, TypeOK', Control', UNCHANGED <<len, active, pending, nrec>>,
         Listing' = Listing, \A s \in SegIds : disk'[s].recs = disk[s].recs,
         wpc # "down", wpc' \notin {"down", "opening", "header"},
         fileOpen' => fileOpen /\ wpc # "writing"
  PROVE  IInv'
<1>1. Listing' = Listing /\ active \in SegIds /\ \A s \in Listing : s \in SegIds
  BY DEF Listing, IInv, Control
<1>2. Numbers'
  BY <1>1 DEF IInv, Numbers
<1>3. ActiveFile'
  BY <1>1 DEF IInv, ActiveFile
<1>4. Ages' /\ LogInOrder'
  BY <1>1, NoNewFrames
<1> QED BY <1>2, <1>3, <1>4 DEF IInv

\* The end of the process, with the files as they are or cut by a power cut.
LEMMA ExitInv ==
  ASSUME IInv, TypeOK', NoWriter, nrec' = nrec,
         \A s \in Listing' : \A i \in DOMAIN disk'[s].recs :
           \/ disk'[s].recs[i] <= 0
           \/ /\ s \in Listing /\ i \in DOMAIN disk[s].recs
              /\ disk'[s].recs[i] = disk[s].recs[i]
  PROVE  IInv'
<1>1. wpc' = "down" /\ ~fileOpen' /\ pending' = <<>> /\ \A s \in SegIds : len'[s] < 0
  BY DEF NoWriter
<1>2. Control' /\ Numbers' /\ ActiveFile'
  BY <1>1 DEF Control, Numbers, ActiveFile
<1>3. Ages' /\ LogInOrder'
  BY <1>1, NoNewFrames
<1> QED BY <1>2, <1>3 DEF IInv

\* The deletion of a segment that is not the active one.
LEMMA DeleteInv ==
  ASSUME IInv, TypeOK', NEW s \in SegIds, s # active,
         disk' = [disk EXCEPT ![s].st = "gone"],
         UNCHANGED <<len, active, pending, nrec, fileOpen>>,
         wpc \in {"opening", "acking", "room"}, wpc' \in {wpc, "idle"},
         wpc' \in {"opening", "acking"} => wpc = wpc' /\ todo' = todo \ {s}
  PROVE  IInv'
<1>1. Listing' = Listing \ {s} /\ \A t \in SegIds : disk'[t].recs = disk[t].recs
  BY DEF Listing, IInv, TypeOK, TypeDisk, Files
<1>2. active \in SegIds
  BY DEF IInv, Control
<1>3. Control'
  BY DEF IInv, Control
<1>4. Numbers'
  BY <1>1 DEF IInv, Numbers
<1>5. ActiveFile'
  BY <1>1, <1>2 DEF IInv, ActiveFile
<1>6. Ages' /\ LogInOrder'
  BY <1>1, NoNewFrames DEF Listing
<1> QED BY <1>3, <1>4, <1>5, <1>6 DEF IInv

\* Recording what became of some records keeps the history typed.
LEMMA MarkType ==
  ASSUME fate \in [Recs -> Fates], NEW S, NEW v \in Fates
  PROVE  Mark(S, v) \in [Recs -> Fates]
  BY DEF Mark

\* The end of a process keeps the history typed.
LEMMA AfterExitType ==
  ASSUME NEW was \in [Recs -> Fates]
  PROVE  AfterExit(was) \in [Recs -> Fates]
<1> SUFFICES ASSUME NEW r \in Recs PROVE AfterExit(was)[r] \in Fates
  BY DEF AfterExit
<1>1. was[r] \in Fates /\ "orphan" \in Fates /\ "lost" \in Fates /\ "unreported" \in Fates
  BY DEF Fates
<1> QED BY <1>1 DEF AfterExit

\* A flush keeps the history typed.
LEMMA FlushedType ==
  ASSUME fate \in [Recs -> Fates]
  PROVE  Flushed \in [Recs -> Fates]
  BY MarkType DEF Flushed, Fates

\* Deleting a file, syncing it or cutting it keeps it a file.
LEMMA FileTypes ==
  ASSUME disk \in [SegIds -> Files], NEW s \in SegIds
  PROVE  /\ [disk EXCEPT ![s].st = "gone"] \in [SegIds -> Files]
         /\ SyncFile(s) \in [SegIds -> Files]
         /\ disk[s].recs \in Seq(Frames)
<1>1. disk[s] \in Files /\ disk[s].recs \in Seq(Frames) /\ Len(disk[s].recs) \in Int
  BY DEF Files
<1>2. [disk[s] EXCEPT !.st = "gone"] \in Files
  BY <1>1 DEF Files
<1>3. [disk[s] EXCEPT !.dur = Len(disk[s].recs)] \in Files
  BY <1>1 DEF Files
<1>4. SyncFile(s) = [disk EXCEPT ![s] = [disk[s] EXCEPT !.dur = Len(disk[s].recs)]]
  BY DEF SyncFile
<1> QED BY <1>1, <1>2, <1>3, <1>4

\* Spending a fault keeps the bound.
LEMMA FaultType ==
  ASSUME TypeHistory, NoFault \/ Fault
  PROVE  faults' \in 0..MaxFaults
  BY CountsAssumption DEF TypeHistory, NoFault, Fault

\* The memory of no process is well typed.
LEMMA NoWriterType == NoWriter => TypeMem' /\ TypeFlags'
<1> SUFFICES ASSUME NoWriter PROVE TypeMem' /\ TypeFlags'
  OBVIOUS
<1>1. TypeFlags'
  BY DEF NoWriter, TypeFlags
<1>2. TypeMem'
  BY CountsAssumption DEF NoWriter, TypeMem, NoAck
<1> QED BY <1>1, <1>2

\* open deletes a delivered segment.
LEMMA OpenDeleteInv == IInv /\ OpenDelete => IInv'
<1> SUFFICES ASSUME IInv, OpenDelete PROVE IInv'
  OBVIOUS
<1>1. PICK s \in SegIds : /\ Oldest(s, todo) /\ disk' = [disk EXCEPT ![s].st = "gone"]
                          /\ fate' = Mark(Readable(disk[s]), "acked") /\ todo' = todo \ {s}
  BY DEF OpenDelete
<1>2. fate' \in [Recs -> Fates] /\ disk' \in [SegIds -> Files]
  BY <1>1, MarkType, FileTypes DEF IInv, TypeOK, TypeHistory, TypeDisk, Fates
<1>3. TypeOK'
  BY <1>1, <1>2 DEF IInv, OpenDelete, diskVars, memVars, loopVars, envVars, TypeOK, TypeDisk, TypeMem, TypeFlags, TypeHistory
<1>4. s # active
  BY <1>1 DEF IInv, OpenDelete, Numbers, Oldest, SegIds
<1> QED BY <1>1, <1>3, <1>4, DeleteInv DEF OpenDelete, memVars, envVars

\* open gives up on an I/O error.
LEMMA OpenFailsInv == IInv /\ OpenFails => IInv'
<1> SUFFICES ASSUME IInv, OpenFails PROVE IInv'
  OBVIOUS
<1>1. TypeOK'
  BY NoWriterType, CountsAssumption DEF IInv, OpenFails, Fault, diskVars, TypeOK, TypeDisk, TypeHistory
<1> QED BY <1>1, ExitInv DEF OpenFails, diskVars, Listing

\* tick starts a flush, or finds nothing to do.
LEMMA TickInv == IInv /\ (Tick \/ IdleTick) => IInv'
<1> SUFFICES ASSUME IInv, Tick \/ IdleTick PROVE IInv'
  OBVIOUS
<1>1. TypeOK'
  BY DEF IInv, Tick, IdleTick, FlushStep, diskVars, memVars, loopVars, envVars, TypeOK, TypeDisk, TypeMem, TypeFlags, TypeHistory
<1>2. Control'
  BY DEF IInv, Tick, IdleTick, FlushStep, diskVars, memVars, loopVars, envVars, Control
<1> QED BY <1>1, <1>2, QuietStep DEF Listing, Tick, IdleTick, FlushStep, diskVars, memVars, loopVars, envVars

\* close starts its last flush, or ends at once.
LEMMA CloseInv == IInv /\ Close => IInv'
<1> SUFFICES ASSUME IInv, Close PROVE IInv'
  OBVIOUS
<1>0. fate \in [Recs -> Fates] /\ crashes' \in 0..MaxCrashes
  BY CountsAssumption DEF IInv, TypeOK, TypeHistory, Close
<1>1. CASE NeedIO
  <2>1. TypeOK'
    BY <1>0, <1>1 DEF IInv, Close, FlushStep, diskVars, memVars, loopVars, envVars, TypeOK, TypeDisk, TypeMem, TypeFlags, TypeHistory
  <2>2. Control'
    BY <1>1 DEF IInv, Close, FlushStep, diskVars, memVars, loopVars, envVars, Control
  <2> QED BY <1>1, <2>1, <2>2, QuietStep DEF Listing, Close, FlushStep, diskVars, memVars, loopVars, envVars
<1>2. CASE ~NeedIO
  <2>1. NoWriter /\ fate' = AfterExit(fate)
    BY <1>2 DEF Close
  <2>2. TypeOK'
    BY <1>0, <2>1, NoWriterType, AfterExitType DEF IInv, Close, diskVars, TypeOK, TypeDisk, TypeHistory
  <2> QED BY <2>1, <2>2, ExitInv DEF Close, diskVars, Listing
<1> QED BY <1>1, <1>2

\* A rotation begins, and goes on once there is room.
LEMMA RoomInv == IInv /\ (StartRotate \/ RoomMade) => IInv'
<1> SUFFICES ASSUME IInv, StartRotate \/ RoomMade PROVE IInv'
  OBVIOUS
<1>1. TypeOK'
  BY DEF IInv, StartRotate, RoomMade, diskVars, memVars, loopVars, envVars, TypeOK, TypeDisk, TypeMem, TypeFlags, TypeHistory
<1>2. Control'
  BY DEF IInv, StartRotate, RoomMade, diskVars, memVars, loopVars, envVars, Control
<1> QED BY <1>1, <1>2, QuietStep DEF Listing, StartRotate, RoomMade, diskVars, memVars, loopVars, envVars

\* make_room skips a segment it cannot delete.
LEMMA EvictFailsInv == IInv /\ EvictFails => IInv'
<1> SUFFICES ASSUME IInv, EvictFails PROVE IInv'
  OBVIOUS
<1>1. undel' \subseteq SegIds /\ faults' \in 0..MaxFaults
  BY FaultType DEF IInv, EvictFails, TypeOK, TypeMem
<1>2. TypeOK'
  BY <1>1 DEF IInv, EvictFails, diskVars, memVars, loopVars, envVars, TypeOK, TypeDisk, TypeMem, TypeFlags, TypeHistory
<1>3. Control'
  BY DEF IInv, EvictFails, diskVars, memVars, loopVars, envVars, Control
<1> QED BY <1>2, <1>3, QuietStep DEF Listing, EvictFails, diskVars, memVars, loopVars, envVars

\* make_room deletes a segment.
LEMMA EvictInv == IInv /\ Evict => IInv'
<1> SUFFICES ASSUME IInv, Evict PROVE IInv'
  OBVIOUS
<1>1. PICK v \in SegIds :
        /\ Oldest(v, Victims) /\ disk' = [disk EXCEPT ![v].st = "gone"] /\ segs' = segs \ {v}
        /\ NoFault \/ Fault
        /\ \E f \in {"retired", "evicted", "unread"} : fate' = Mark(Readable(disk[v]), f)
        /\ gaps' = gaps \/ gaps' = gaps + GapRecords(v)
  BY DEF Evict
<1>2. fate' \in [Recs -> Fates]
  BY <1>1, MarkType DEF IInv, TypeOK, TypeHistory, Fates
<1>3. disk' \in [SegIds -> Files] /\ faults' \in 0..MaxFaults
  BY <1>1, FileTypes, FaultType DEF IInv, TypeOK, TypeDisk
<1>4. gaps' \in Nat
  <2>1. ValidCount(disk[v].recs) \in 0..Len(disk[v].recs) /\ Len(disk[v].recs) \in Nat
    <3>1. disk[v].recs \in Seq(Frames)
      BY FileTypes DEF IInv, TypeOK, TypeDisk
    <3> QED BY <3>1, ValidCountType
  <2>2. GapRecords(v) \in Nat
    BY <2>1 DEF GapRecords
  <2> QED BY <1>1, <2>2 DEF IInv, TypeOK, TypeMem
<1>6. TypeOK'
  BY <1>1, <1>2, <1>3, <1>4 DEF IInv, Evict, diskVars, memVars, loopVars, envVars, TypeOK, TypeDisk, TypeMem, TypeFlags, TypeHistory
<1>5. v # active
  BY <1>1 DEF Oldest, Victims, Sealed
<1> QED BY <1>1, <1>5, <1>6, DeleteInv DEF Evict, loopVars

\* Without room the queued records are dropped.
LEMMA DropPendingInv == IInv /\ DropPending => IInv'
<1> SUFFICES ASSUME IInv, DropPending PROVE IInv'
  OBVIOUS
<1>1. fate' \in [Recs -> Fates]
  BY MarkType DEF IInv, DropPending, TypeOK, TypeHistory, Fates
<1>2. gaps' \in Nat /\ pending' \in Seq(Recs)
  BY DEF IInv, DropPending, TypeOK, TypeMem
<1>3. TypeOK'
  BY <1>1, <1>2 DEF IInv, DropPending, diskVars, memVars, loopVars, envVars, TypeOK, TypeDisk, TypeMem, TypeFlags, TypeHistory
<1>4. Listing' = Listing
  BY DEF DropPending, diskVars, Listing
<1>5. Control' /\ Numbers' /\ ActiveFile'
  BY <1>4 DEF IInv, DropPending, diskVars, memVars, loopVars, envVars, Control, Numbers, ActiveFile
<1>6. Ages' /\ LogInOrder'
  BY <1>3, <1>4, NoNewFrames DEF DropPending, diskVars, envVars
<1> QED BY <1>3, <1>5, <1>6 DEF IInv

\* What a failed flush leaves, in every step it can fail in.
LEMMA IoFailsInv == IInv /\ IoFails => IInv'
<1> SUFFICES ASSUME IInv, IoFails PROVE IInv'
  OBVIOUS
<1>1. faults' \in 0..MaxFaults /\ fate \in [Recs -> Fates]
  BY FaultType DEF IInv, IoFails, TypeOK, TypeHistory
<1>2. CASE closing
  <2>1. NoWriter /\ fate' = AfterExit(fate)
    BY <1>2 DEF IoFails, FlushFailed
  <2>2. TypeOK'
    BY <1>1, <2>1, NoWriterType, AfterExitType DEF IInv, IoFails, diskVars, TypeOK, TypeDisk, TypeHistory
  <2> QED BY <2>1, <2>2, ExitInv DEF IoFails, diskVars, Listing
<1>3. CASE ~closing
  <2>1. TypeOK'
    BY <1>1, <1>3 DEF IInv, IoFails, FlushFailed, diskVars, memVars, loopVars, envVars, TypeOK, TypeDisk, TypeMem, TypeFlags, TypeHistory
  <2>2. Control'
    BY <1>3 DEF IInv, IoFails, FlushFailed, diskVars, memVars, loopVars, envVars, Control
  <2> QED BY <1>3, <2>1, <2>2, QuietStep DEF Listing, IoFails, FlushFailed, diskVars, memVars, loopVars, envVars
<1> QED BY <1>2, <1>3

\* ack stores a newer cursor.
LEMMA AckInv == IInv /\ AckStep => IInv'
<1> SUFFICES ASSUME IInv, NEW c \in Delivered, Ack(c) PROVE IInv'
  BY DEF AckStep
<1>1. c \in (0..MaxSeg) \X Nat
  BY CountsAssumption DEF Delivered, IInv, TypeOK, TypeMem, SegIds, Recs
<1>2. TypeOK'
  BY <1>1 DEF IInv, Ack, Behind, diskVars, memVars, loopVars, envVars, TypeOK, TypeDisk, TypeMem, TypeFlags, TypeHistory
<1>3. Control'
  BY DEF IInv, Ack, Behind, diskVars, memVars, loopVars, envVars, Control
<1> QED BY <1>2, <1>3, QuietStep DEF Listing, Ack, diskVars, memVars, loopVars, envVars

\* ack deletes a segment behind the cursor.
LEMMA AckDeleteInv == IInv /\ AckDelete => IInv'
<1> SUFFICES ASSUME IInv, AckDelete PROVE IInv'
  OBVIOUS
<1>1. PICK s \in SegIds : /\ Oldest(s, todo) /\ disk' = [disk EXCEPT ![s].st = "gone"]
                          /\ fate' = Mark(Readable(disk[s]), "acked")
                          /\ segs' = segs \ {s} /\ todo' = todo \ {s}
  BY DEF AckDelete
<1>2. fate' \in [Recs -> Fates] /\ disk' \in [SegIds -> Files]
  BY <1>1, MarkType, FileTypes DEF IInv, TypeOK, TypeHistory, TypeDisk, Fates
<1>3. TypeOK'
  BY <1>1, <1>2 DEF IInv, AckDelete, diskVars, memVars, loopVars, envVars, TypeOK, TypeDisk, TypeMem, TypeFlags, TypeHistory
<1>4. s # active
  BY <1>1 DEF IInv, AckDelete, Control, Oldest
<1> QED BY <1>1, <1>3, <1>4, DeleteInv DEF AckDelete, memVars, envVars

\* ack keeps a segment it cannot delete.
LEMMA AckDeleteFailsInv == IInv /\ AckDeleteFails => IInv'
<1> SUFFICES ASSUME IInv, AckDeleteFails PROVE IInv'
  OBVIOUS
<1>1. todo' \subseteq SegIds /\ faults' \in 0..MaxFaults
  BY FaultType DEF IInv, AckDeleteFails, TypeOK, TypeMem
<1>2. TypeOK'
  BY <1>1 DEF IInv, AckDeleteFails, diskVars, memVars, loopVars, envVars, TypeOK, TypeDisk, TypeMem, TypeFlags, TypeHistory
<1>3. Control'
  BY DEF IInv, AckDeleteFails, diskVars, memVars, loopVars, envVars, Control
<1> QED BY <1>2, <1>3, QuietStep DEF Listing, AckDeleteFails, diskVars, memVars, loopVars, envVars

\* take_gaps hands the gaps over.
LEMMA TakeGapsInv == IInv /\ TakeGaps => IInv'
<1> SUFFICES ASSUME IInv, TakeGaps PROVE IInv'
  OBVIOUS
<1>1. fate' \in [Recs -> Fates]
  BY MarkType DEF IInv, TakeGaps, TypeOK, TypeHistory, Fates
<1>2. TypeOK'
  BY <1>1 DEF IInv, TakeGaps, diskVars, memVars, loopVars, envVars, TypeOK, TypeDisk, TypeMem, TypeFlags, TypeHistory
<1>3. Control'
  BY DEF IInv, TakeGaps, diskVars, memVars, loopVars, envVars, Control
<1> QED BY <1>2, <1>3, QuietStep DEF Listing, TakeGaps, diskVars, memVars, loopVars, envVars

\* The process ends and the files stay.
LEMMA CrashInv == IInv /\ Crash => IInv'
<1> SUFFICES ASSUME IInv, Crash PROVE IInv'
  OBVIOUS
<1>1. TypeHistory'
  BY AfterExitType, CountsAssumption DEF IInv, Crash, TypeOK, TypeHistory
<1>2. TypeOK'
  BY <1>1, NoWriterType DEF IInv, Crash, diskVars, TypeOK, TypeDisk
<1> QED BY <1>2, ExitInv DEF Crash, diskVars, Listing

\* Recovery keeps a file a file, where it is, and adds no frame to it.
LEMMA RepairType ==
  ASSUME NEW s \in SegIds, disk \in [SegIds -> Files]
  PROVE  /\ Repair(s) \in Files /\ Repair(s).st = disk[s].st
         /\ FrameCount(Repair(s)) \in Int
         /\ \A i \in DOMAIN Repair(s).recs :
              i \in DOMAIN disk[s].recs /\ Repair(s).recs[i] = disk[s].recs[i]
<1> DEFINE f == disk[s]
<1>1. f \in Files /\ f.recs \in Seq(Frames)
  BY DEF Files
<1>2. /\ Scan(f.recs) \in Seq(Frames) /\ ValidCount(f.recs) \in Int
      /\ \A i \in DOMAIN Scan(f.recs) : i \in DOMAIN f.recs /\ Scan(f.recs)[i] = f.recs[i]
  <2>1. ValidCount(f.recs) \in 0..Len(f.recs)
    BY <1>1, ValidCountType
  <2>2. /\ Scan(f.recs) \in Seq(Frames) /\ Len(Scan(f.recs)) = ValidCount(f.recs)
        /\ \A i \in 1..Len(Scan(f.recs)) : Scan(f.recs)[i] = f.recs[i]
    BY <1>1, ScanType
  <2>3. DOMAIN f.recs = 1..Len(f.recs) /\ DOMAIN Scan(f.recs) = 1..Len(Scan(f.recs))
    BY <1>1, <2>2
  <2> QED BY <1>1, <2>1, <2>2, <2>3
<1>3. /\ Recover(f) \in Files /\ Recover(f).st = f.st
      /\ \A i \in DOMAIN Recover(f).recs :
           i \in DOMAIN f.recs /\ Recover(f).recs[i] = f.recs[i]
  <2>1. CASE f.hdr = "ok" /\ ValidCount(f.recs) < Len(f.recs)
    <3>1. Recover(f) = [f EXCEPT !.recs = Scan(f.recs), !.dur = ValidCount(f.recs)]
      BY <2>1 DEF Recover
    <3> QED BY <1>1, <1>2, <3>1 DEF Files
  <2>2. CASE f.hdr = "none"
    <3>1. Recover(f) = [f EXCEPT !.hdr = "ok", !.recs = <<>>, !.dur = 0]
      BY <2>2 DEF Recover
    <3>2. Recover(f).recs = <<>> /\ Recover(f).st = f.st
      BY <1>1, <3>1 DEF Files
    <3>3. Recover(f) \in Files
      BY <1>1, <3>1, FileEmpty
    <3>4. DOMAIN Recover(f).recs = {}
      BY <3>2
    <3> QED BY <3>2, <3>3, <3>4
  <2>3. CASE ~(f.hdr = "ok" /\ ValidCount(f.recs) < Len(f.recs)) /\ f.hdr # "none"
    BY <1>1, <2>3 DEF Recover
  <2> QED BY <2>1, <2>2, <2>3
<1>4. /\ Repair(s) \in Files /\ Repair(s).st = f.st
      /\ \A i \in DOMAIN Repair(s).recs :
           i \in DOMAIN f.recs /\ Repair(s).recs[i] = f.recs[i]
  BY <1>1, <1>3 DEF Repair
<1>5. FrameCount(Repair(s)) \in Int
  <2>1. Repair(s).recs \in Seq(Frames)
    BY <1>4 DEF Files
  <2> QED BY <2>1 DEF FrameCount
<1> QED BY <1>4, <1>5

\* open keeps a segment and repairs the newest one.
LEMMA OpenKeepInv == IInv /\ OpenKeep => IInv'
<1> SUFFICES ASSUME IInv, OpenKeep PROVE IInv'
  OBVIOUS
<1>1. PICK s \in SegIds : /\ Oldest(s, todo) /\ (Fault \/ NoFault)
                          /\ disk' = [disk EXCEPT ![s] = Repair(s)]
                          /\ segs' = segs \cup {s} /\ todo' = todo \ {s}
                          /\ len' = [len EXCEPT ![s] = FrameCount(Repair(s))]
  BY DEF OpenKeep
<1>2. disk \in [SegIds -> Files] /\ len \in [SegIds -> Int] /\ active \in SegIds
  BY DEF IInv, OpenKeep, TypeOK, TypeDisk, TypeMem, Control
<1>3. s \in Listing /\ s < active /\ \A t \in todo : s <= t
  BY <1>1 DEF IInv, OpenKeep, Numbers, Oldest
<1>4. disk' \in [SegIds -> Files] /\ len' \in [SegIds -> Int] /\ faults' \in 0..MaxFaults
  BY <1>1, <1>2, RepairType, FaultType DEF IInv, TypeOK
<1>5. TypeOK'
  BY <1>1, <1>4 DEF IInv, OpenKeep, TypeOK, TypeDisk, TypeMem, TypeFlags, TypeHistory
<1>6. Listing' = Listing
  BY <1>1, <1>2, RepairType DEF Listing
<1>7. len'[active] = len[active] /\ len[active] < 0 /\ active \notin Listing
  BY <1>1, <1>2, <1>3 DEF IInv, OpenKeep, Control, Numbers, SegIds
<1>8. Control'
  BY <1>2, <1>7 DEF IInv, OpenKeep, Control
<1>9. Numbers'
  BY <1>1, <1>3, <1>6 DEF IInv, OpenKeep, Numbers, Listing, SegIds
<1>10. ActiveFile'
  BY <1>2, <1>6, <1>7 DEF IInv, OpenKeep, Control, ActiveFile
<1>11. Ages' /\ LogInOrder'
  BY <1>1, <1>2, <1>5, <1>6, RepairType, NoNewFrames DEF IInv, OpenKeep, Control, Listing
<1> QED BY <1>5, <1>8, <1>9, <1>10, <1>11 DEF IInv

\* append queues the next record, or refuses it.
LEMMA AppendInv == IInv /\ AppendRecord => IInv'
<1> SUFFICES ASSUME IInv, AppendRecord PROVE IInv'
  OBVIOUS
<1>1. nrec \in Nat /\ nrec + 1 \in Recs /\ pending \in Seq(Recs)
  BY CountsAssumption DEF IInv, AppendRecord, TypeOK, TypeHistory, TypeMem, Recs
<1>2. pending' = pending \/ pending' = Append(pending, nrec + 1)
  BY DEF AppendRecord
<1>3. /\ pending' \in Seq(Recs)
      /\ \A j \in DOMAIN pending' :
           \/ j \in DOMAIN pending /\ pending'[j] = pending[j]
           \/ j = Len(pending) + 1 /\ pending'[j] = nrec + 1
  BY <1>1, <1>2
<1>4. fate' \in [Recs -> Fates]
  BY MarkType DEF IInv, AppendRecord, TypeOK, TypeHistory, Fates
<1>5. nrec' = nrec + 1 /\ nrec' \in 0..MaxRecs
  BY <1>1 DEF AppendRecord, Recs
<1>6. TypeOK'
  BY <1>3, <1>4, <1>5 DEF IInv, AppendRecord, diskVars, loopVars, TypeOK, TypeDisk, TypeMem,
     TypeFlags, TypeHistory
<1>7. Listing' = Listing
  BY DEF AppendRecord, diskVars, Listing
<1>8. Control' /\ Numbers' /\ ActiveFile'
  BY <1>7 DEF IInv, AppendRecord, diskVars, loopVars, Control, Numbers, ActiveFile
<1>9. Ages'
  <2>1. \A j \in DOMAIN pending : pending[j] <= nrec /\ pending[j] \in Int /\ j <= Len(pending)
    BY <1>1, CountsAssumption DEF IInv, Ages, Recs
  <2>2. \A j \in DOMAIN pending' : pending'[j] <= nrec'
    BY <1>1, <1>3, <1>5, <2>1
  <2>3. \A i, j \in DOMAIN pending' : i < j => pending'[i] < pending'[j]
    BY <1>1, <1>3, <1>5, <2>1 DEF IInv, Ages
  <2>4. ASSUME NEW s \in Listing, NEW i \in DOMAIN disk[s].recs
        PROVE  /\ disk[s].recs[i] <= nrec'
               /\ \/ s = active /\ i > len[active]
                  \/ \A j \in DOMAIN pending' : disk[s].recs[i] < pending'[j]
    <3>1. disk[s].recs \in Seq(Frames)
      BY FileTypes DEF IInv, TypeOK, TypeDisk, Listing
    <3>2. disk[s].recs[i] \in Int /\ disk[s].recs[i] <= nrec
      BY <3>1, CountsAssumption DEF IInv, Ages, Frames
    <3> QED BY <1>1, <1>3, <1>5, <3>2 DEF IInv, Ages
  <2> QED BY <1>7, <2>2, <2>3, <2>4 DEF AppendRecord, diskVars, Ages
<1>10. LogInOrder'
  BY <1>7 DEF IInv, AppendRecord, diskVars, LogInOrder
<1> QED BY <1>6, <1>8, <1>9, <1>10 DEF IInv

-----------------------------------------------------------------------------
(* Steps of a flush that write the active file.                            *)

\* The tail of the active file past the writer's length is cut, or a new file
\* is created.
LEMMA OpenActiveInv == IInv /\ OpenActive => IInv'
<1> SUFFICES ASSUME IInv, OpenActive PROVE IInv'
  OBVIOUS
<1> DEFINE recs == disk[active].recs
           new == IF len[active] < 0
                  THEN [st |-> "live", hdr |-> "none", recs |-> <<>>, dur |-> -1]
                  ELSE [disk[active] EXCEPT !.recs = CutAt(recs, len[active])]
<1>1. /\ disk \in [SegIds -> Files] /\ active \in SegIds /\ len[active] \in Int
      /\ disk[active] \in Files /\ recs \in Seq(Frames)
  BY DEF IInv, OpenActive, TypeOK, TypeDisk, TypeMem, Control, Files
<1>2. disk' = [disk EXCEPT ![active] = new]
  BY DEF OpenActive
<1>3. new \in Files /\ new.st = "live" /\ (len[active] < 0 => new.recs = <<>>)
  <2>1. CASE len[active] < 0
    BY <2>1 DEF Files
  <2>2. CASE len[active] >= 0
    <3>1. CutAt(recs, len[active]) \in Seq(Frames)
      BY <1>1, CutAtType
    <3>2. disk[active].st = "live"
      BY <2>2 DEF IInv, OpenActive, ActiveFile, Listing
    <3>3. new = [disk[active] EXCEPT !.recs = CutAt(recs, len[active])]
      BY <1>1, <2>2
    <3> HIDE DEF new
    <3> QED BY <1>1, <2>2, <3>1, <3>2, <3>3, FileRecs
  <2> QED BY <1>1, <2>1, <2>2
<1>4. \A i \in DOMAIN new.recs : i \in DOMAIN recs /\ new.recs[i] = recs[i] /\ len[active] >= 0
  <2>1. CASE len[active] < 0
    <3>1. new.recs = <<>>
      BY <1>3, <2>1
    <3>2. DOMAIN new.recs = {}
      BY <3>1
    <3> QED BY <3>2
  <2>2. CASE len[active] >= 0
    <3>1. new.recs = CutAt(recs, len[active])
      BY <1>1, <2>2 DEF Files
    <3>2. /\ CutAt(recs, len[active]) \in Seq(Frames)
          /\ Len(CutAt(recs, len[active])) <= Len(recs)
          /\ \A i \in 1..Len(CutAt(recs, len[active])) : CutAt(recs, len[active])[i] = recs[i]
      BY <1>1, CutAtType
    <3> QED BY <1>1, <2>2, <3>1, <3>2
  <2> QED BY <1>1, <2>1, <2>2
<1>5. Listing' = Listing \cup {active}
  BY <1>1, <1>2, <1>3 DEF Listing
<1>6. disk' \in [SegIds -> Files]
  BY <1>1, <1>2, <1>3
<1>7. TypeOK'
  BY <1>6 DEF IInv, OpenActive, AfterOpen, envVars, TypeOK, TypeDisk, TypeMem, TypeFlags,
     TypeHistory
<1>0. /\ wpc = "active" /\ UNCHANGED <<len, active, pending>> /\ fileOpen' = (len[active] >= 0)
      /\ wpc' = IF len[active] < 0 THEN "header" ELSE AfterOpen
  BY DEF OpenActive
<1>8. Control'
  <2>1. CASE len[active] < 0
    BY <1>0, <1>1, <2>1 DEF IInv, Control
  <2>2. CASE len[active] >= 0
    BY <1>0, <1>1, <2>2 DEF IInv, AfterOpen, Control
  <2> QED BY <1>1, <2>1, <2>2
<1>9. Numbers'
  BY <1>1, <1>5 DEF IInv, OpenActive, AfterOpen, Numbers, SegIds
<1>10. ActiveFile'
  <2>1. len[active] >= 0 => Len(disk'[active].recs) = len[active]
    <3> SUFFICES ASSUME len[active] >= 0 PROVE Len(disk'[active].recs) = len[active]
      OBVIOUS
    <3>1. disk'[active].recs = CutAt(recs, len[active])
      BY <1>1, <1>2 DEF Files
    <3>2. len[active] \in 0..Len(recs)
      BY <1>1 DEF IInv, OpenActive, ActiveFile
    <3> QED BY <1>1, <3>1, <3>2, CutAtType
  <2>2. len[active] < 0 => disk'[active].recs = <<>>
    BY <1>1, <1>2, <1>3
  <2>3. CASE len[active] < 0
    <3>0. (len[active] >= 0) = FALSE
      BY <1>1, <2>3
    <3>1. ~fileOpen' /\ ~(len'[active'] >= 0) /\ active' \in Listing'
      BY <1>0, <1>5, <3>0, Zenon
    <3> QED BY <1>0, <2>2, <2>3, <3>1 DEF ActiveFile
  <2>4. CASE len[active] >= 0
    BY <1>0, <1>1, <1>5, <2>1, <2>4 DEF AfterOpen, ActiveFile
  <2> QED BY <1>1, <2>3, <2>4
<1>11. Ages' /\ LogInOrder'
  <2>1. ASSUME NEW s \in Listing', NEW i \in DOMAIN disk'[s].recs
        PROVE  /\ s \in Listing /\ i \in DOMAIN disk[s].recs
               /\ disk'[s].recs[i] = disk[s].recs[i]
    <3>1. CASE s = active
      BY <1>1, <1>2, <1>4, <3>1 DEF IInv, OpenActive, ActiveFile
    <3>2. CASE s # active
      BY <1>1, <1>2, <1>5, <3>2 DEF Listing
    <3> QED BY <3>1, <3>2
  <2> QED BY <1>7, <2>1, NoNewFrames DEF OpenActive, envVars
<1> QED BY <1>7, <1>8, <1>9, <1>10, <1>11 DEF IInv

\* open_active writes the magic.
LEMMA WriteHeaderInv == IInv /\ WriteHeader => IInv'
<1> SUFFICES ASSUME IInv, WriteHeader PROVE IInv'
  OBVIOUS
<1>1. /\ disk \in [SegIds -> Files] /\ active \in SegIds /\ len \in [SegIds -> Int]
      /\ disk[active] \in Files
  BY DEF IInv, WriteHeader, TypeOK, TypeDisk, TypeMem, Control
<1>2. active \in Listing /\ len[active] < 0 /\ disk[active].recs = <<>>
  BY DEF IInv, WriteHeader, ActiveFile
<1>3. [disk[active] EXCEPT !.hdr = "ok"] \in Files
  BY <1>1 DEF Files
<1>4. disk' = [disk EXCEPT ![active] = [disk[active] EXCEPT !.hdr = "ok"]]
  BY DEF WriteHeader
<1>5. /\ disk' \in [SegIds -> Files] /\ Listing' = Listing
      /\ \A s \in SegIds : disk'[s].recs = disk[s].recs
  BY <1>1, <1>3, <1>4 DEF Files, Listing
<1>6. len' \in [SegIds -> Int] /\ len'[active] = 0
  BY <1>1 DEF WriteHeader
<1>7. TypeOK'
  BY <1>5, <1>6 DEF IInv, WriteHeader, AfterOpen, envVars, TypeOK, TypeDisk, TypeMem, TypeFlags,
     TypeHistory
<1>8. Control'
  BY <1>1, <1>6 DEF IInv, WriteHeader, AfterOpen, Control
<1>9. Numbers'
  BY <1>5 DEF IInv, WriteHeader, AfterOpen, Numbers
<1>10. ActiveFile'
  BY <1>1, <1>2, <1>5, <1>6 DEF WriteHeader, AfterOpen, ActiveFile
<1>11. DOMAIN disk[active].recs = {}
  BY <1>2
<1>12. Ages'
  BY <1>5, <1>11 DEF IInv, WriteHeader, envVars, Ages, Listing
<1>13. LogInOrder'
  BY <1>5 DEF IInv, LogInOrder, Listing
<1> QED BY <1>7, <1>8, <1>9, <1>10, <1>12, <1>13 DEF IInv

\* A write after the writer's length: what it leaves in the active file, and
\* that the log stays in order.
LEMMA WriteAtFacts ==
  ASSUME IInv, wpc \in {"write", "writing"}, NEW frames \in Seq(Frames),
         \A i \in DOMAIN frames :
           frames[i] = 0 \/ (i \in DOMAIN pending /\ frames[i] = pending[i]),
         disk' = [disk EXCEPT ![active].recs = WriteAt(frames)]
  PROVE  /\ disk' \in [SegIds -> Files] /\ Listing' = Listing /\ active \in Listing
         /\ \A s \in SegIds \ {active} : disk'[s].recs = disk[s].recs
         /\ len[active] \in Nat
         /\ Len(disk'[active].recs) = len[active] + Len(frames)
         /\ disk'[active].recs \in Seq(Frames)
         /\ \A i \in DOMAIN disk'[active].recs :
              \/ /\ i <= len[active] /\ i \in DOMAIN disk[active].recs
                 /\ disk'[active].recs[i] = disk[active].recs[i]
              \/ /\ i - len[active] \in DOMAIN frames
                 /\ disk'[active].recs[i] = frames[i - len[active]]
         /\ LogInOrder'
<1> DEFINE recs == disk[active].recs
           n == len[active]
<1>1. /\ disk \in [SegIds -> Files] /\ active \in SegIds /\ disk[active] \in Files
      /\ recs \in Seq(Frames) /\ active \in Listing /\ n \in 0..Len(recs)
  BY DEF IInv, TypeOK, TypeDisk, TypeMem, Control, ActiveFile, Files
<1>2. PICK new : new = CutAt(recs, n) \o frames
  OBVIOUS
<1>3. /\ new \in Seq(Frames) /\ Len(new) = n + Len(frames) /\ DOMAIN new = 1..(n + Len(frames))
      /\ \A i \in 1..n : i \in DOMAIN recs /\ new[i] = recs[i]
      /\ \A i \in 1..Len(frames) : new[n + i] = frames[i]
  <2> HIDE DEF recs, n
  <2>1. /\ new \in Seq(Frames) /\ Len(new) = n + Len(frames)
        /\ \A i \in 1..n : i \in DOMAIN recs /\ new[i] = recs[i]
        /\ \A i \in 1..Len(frames) : new[n + i] = frames[i]
    BY <1>1, <1>2, Splice
  <2>2. DOMAIN new = 1..Len(new)
    BY <2>1
  <2> QED BY <2>1, <2>2
<1>4. disk' = [disk EXCEPT ![active] = [disk[active] EXCEPT !.recs = new]]
  BY <1>2 DEF WriteAt
<1>5. [disk[active] EXCEPT !.recs = new] \in Files
  BY <1>1, <1>3 DEF Files
<1>6. /\ disk' \in [SegIds -> Files] /\ Listing' = Listing
      /\ \A s \in SegIds \ {active} : disk'[s].recs = disk[s].recs
      /\ disk'[active].recs = new
  BY <1>1, <1>4, <1>5 DEF Files, Listing
<1>7. \A i \in DOMAIN disk'[active].recs :
        \/ /\ i <= len[active] /\ i \in DOMAIN recs /\ disk'[active].recs[i] = recs[i]
        \/ /\ i - len[active] \in DOMAIN frames
           /\ disk'[active].recs[i] = frames[i - len[active]]
  <2> SUFFICES ASSUME NEW i \in DOMAIN new
               PROVE  \/ i <= n /\ i \in DOMAIN recs /\ new[i] = recs[i]
                      \/ i - n \in DOMAIN frames /\ new[i] = frames[i - n]
    BY <1>6
  <2>1. CASE i \in 1..n
    BY <1>1, <1>3, <2>1
  <2>2. CASE i - n \in 1..Len(frames)
    <3>1. n + (i - n) = i
      BY <1>1, <1>3
    <3>2. new[n + (i - n)] = frames[i - n]
      BY <1>3, <2>2
    <3> QED BY <2>2, <3>1, <3>2
  <2> QED BY <1>1, <1>3, <2>1, <2>2
<1>8. LogInOrder'
  <2> SUFFICES ASSUME NEW s \in Listing, NEW t \in Listing,
                      NEW i \in DOMAIN disk'[s].recs, NEW j \in DOMAIN disk'[t].recs,
                      disk'[s].recs[i] > 0, disk'[t].recs[j] > 0,
                      s < t \/ (s = t /\ i < j)
               PROVE  disk'[s].recs[i] < disk'[t].recs[j]
    BY <1>6 DEF LogInOrder
  <2> DEFINE Old(u, k) == /\ k \in DOMAIN disk[u].recs /\ disk'[u].recs[k] = disk[u].recs[k]
                          /\ (u = active => k <= len[active])
             New(u, k) == /\ u = active /\ k - len[active] \in DOMAIN pending
                          /\ disk'[u].recs[k] = pending[k - len[active]]
  <2>1. s \in SegIds /\ t \in SegIds /\ t <= active /\ s <= active
    BY DEF Listing, IInv, Numbers
  <2>2. Old(s, i) \/ New(s, i)
    <3>1. CASE s = active
      BY <1>7, <3>1
    <3>2. CASE s # active
      BY <1>6, <2>1, <3>2
    <3> QED BY <3>1, <3>2
  <2>3. Old(t, j) \/ New(t, j)
    <3>1. CASE t = active
      BY <1>7, <3>1
    <3>2. CASE t # active
      BY <1>6, <2>1, <3>2
    <3> QED BY <3>1, <3>2
  <2>4. CASE Old(s, i) /\ Old(t, j)
    BY <2>4 DEF IInv, LogInOrder
  <2>5. CASE Old(s, i) /\ New(t, j)
    BY <1>1, <2>5 DEF IInv, Ages
  <2>6. i \in Int /\ j \in Int
    BY <1>6 DEF Files, Listing
  <2>7. CASE New(s, i) /\ New(t, j)
    BY <1>1, <2>1, <2>6, <2>7 DEF IInv, Ages
  <2>8. CASE New(s, i) /\ Old(t, j)
    <3>1. s = active /\ t <= s /\ s \in Int /\ t \in Int
      BY <2>1, <2>8 DEF SegIds
    <3>3. pending \in Seq(Recs) /\ i - n \in DOMAIN pending
      BY <2>8 DEF IInv, TypeOK, TypeMem
    <3>4. n < i
      BY <1>1, <2>6, <3>3
    <3>5. s = t /\ i < j
      BY <3>1
    <3>6. j <= n
      BY <2>8, <3>1, <3>5
    <3>2. s = t /\ i < j /\ j <= n /\ n < i
      BY <3>4, <3>5, <3>6
    <3> QED BY <1>1, <2>6, <3>2
  <2> QED BY <2>2, <2>3, <2>4, <2>5, <2>7, <2>8
<1> QED BY <1>1, <1>3, <1>6, <1>7, <1>8

\* write_all is half done: a prefix of the batch and a torn frame follow the
\* good frames.
LEMMA WritePartInv == IInv /\ WritePart => IInv'
<1> SUFFICES ASSUME IInv, WritePart PROVE IInv'
  OBVIOUS
<1>1. pending \in Seq(Recs) /\ pending # <<>> /\ nrec \in Nat /\ MaxRecs \in Nat
  BY CountsAssumption DEF IInv, WritePart, TypeOK, TypeMem, TypeHistory, Control
<1>2. PICK k \in 0..(Batch - 1) :
        disk' = [disk EXCEPT ![active].recs = WriteAt(SubSeq(pending, 1, k) \o <<Torn>>)]
  BY DEF WritePart
<1>3. k \in 0..Len(pending)
  BY <1>1, <1>2, BatchType
<1>4. PICK head \in Seq(Recs) : /\ head = SubSeq(pending, 1, k) /\ Len(head) = k
                                /\ \A i \in 1..k : head[i] = pending[i] /\ i \in DOMAIN pending
  BY <1>1, <1>3, HeadAndRest
<1>5. PICK frames : frames = head \o <<Torn>>
  OBVIOUS
<1>6. /\ frames \in Seq(Frames)
      /\ \A i \in DOMAIN frames :
           frames[i] = 0 \/ (i \in DOMAIN pending /\ frames[i] = pending[i])
  <2>1. head \in Seq(Frames) /\ <<Torn>> \in Seq(Frames)
    <3>1. Torn \in Frames /\ \A r \in Recs : r \in Frames
      BY <1>1 DEF Torn, Frames, Recs
    <3> QED BY <3>1
  <2>2. frames \in Seq(Frames) /\ Len(frames) = k + 1
    BY <1>3, <1>4, <1>5, <2>1
  <2>3. ASSUME NEW i \in DOMAIN frames
        PROVE  frames[i] = 0 \/ (i \in DOMAIN pending /\ frames[i] = pending[i])
    <3>1. i \in 1..(k + 1)
      BY <1>3, <2>2
    <3>2. CASE i = k + 1
      BY <1>3, <1>4, <1>5, <3>2 DEF Torn
    <3>3. CASE i \in 1..k
      <4>1. frames[i] = head[i]
        BY <1>3, <1>4, <1>5, <3>3
      <4> QED BY <1>4, <3>3, <4>1
    <3> QED BY <1>3, <3>1, <3>2, <3>3
  <2> QED BY <2>2, <2>3
<1>7. disk' = [disk EXCEPT ![active].recs = WriteAt(frames)]
  BY <1>2, <1>4, <1>5
<1>8. /\ disk' \in [SegIds -> Files] /\ Listing' = Listing /\ active \in Listing
      /\ \A s \in SegIds \ {active} : disk'[s].recs = disk[s].recs
      /\ len[active] \in Nat
      /\ Len(disk'[active].recs) = len[active] + Len(frames)
      /\ disk'[active].recs \in Seq(Frames)
      /\ \A i \in DOMAIN disk'[active].recs :
           \/ /\ i <= len[active] /\ i \in DOMAIN disk[active].recs
              /\ disk'[active].recs[i] = disk[active].recs[i]
           \/ /\ i - len[active] \in DOMAIN frames
              /\ disk'[active].recs[i] = frames[i - len[active]]
      /\ LogInOrder'
  BY <1>6, <1>7, WriteAtFacts DEF WritePart
<1>9. TypeOK'
  BY <1>8 DEF IInv, WritePart, memVars, envVars, TypeOK, TypeDisk, TypeMem, TypeFlags, TypeHistory
<1>10. Control'
  BY DEF IInv, WritePart, memVars, Control
<1>11. Numbers'
  BY <1>8 DEF IInv, WritePart, memVars, Numbers
<1>12. ActiveFile'
  BY <1>6, <1>8 DEF IInv, WritePart, memVars, ActiveFile
<1>13. Ages'
  <2>1. UNCHANGED <<pending, nrec, active, len>>
    BY DEF WritePart, memVars, envVars
  <2>2. ASSUME NEW s \in Listing, NEW i \in DOMAIN disk'[s].recs
        PROVE  /\ disk'[s].recs[i] <= nrec
               /\ \/ s = active /\ i > len[active]
                  \/ \A j \in DOMAIN pending : disk'[s].recs[i] < pending[j]
    <3>1. CASE s # active
      BY <1>8, <3>1 DEF IInv, Ages, Listing
    <3>2. CASE /\ s = active /\ i <= len[active] /\ i \in DOMAIN disk[s].recs
               /\ disk'[s].recs[i] = disk[s].recs[i]
      BY <1>8, <3>2 DEF IInv, Ages
    <3>3. CASE /\ s = active /\ i - len[active] \in DOMAIN frames
               /\ disk'[s].recs[i] = frames[i - len[active]]
      <4>1. i > len[active]
        <5>1. len[active] \in Nat /\ i \in 1..Len(disk'[active].recs)
          BY <1>8, <3>3
        <5>2. i \in Int /\ Len(frames) \in Nat /\ DOMAIN frames = 1..Len(frames)
          BY <1>6, <1>8, <5>1
        <5>3. i - len[active] >= 1
          BY <3>3, <5>1, <5>2
        <5> QED BY <5>1, <5>2, <5>3
      <4>2. disk'[s].recs[i] <= nrec
        BY <1>1, <1>6, <3>3 DEF IInv, Ages
      <4> QED BY <3>3, <4>1, <4>2
    <3> QED BY <1>8, <3>1, <3>2, <3>3
  <2> QED BY <1>8, <2>1, <2>2 DEF IInv, Ages
<1> QED BY <1>8, <1>9, <1>10, <1>11, <1>12, <1>13 DEF IInv

\* write_all returns: the batch moves from the queue to the file.
LEMMA WriteBatchInv == IInv /\ WriteBatch => IInv'
<1> SUFFICES ASSUME IInv, WriteBatch PROVE IInv'
  OBVIOUS
<1>1. pending \in Seq(Recs) /\ pending # <<>> /\ nrec \in Nat /\ MaxRecs \in Nat
  BY CountsAssumption DEF IInv, WriteBatch, TypeOK, TypeMem, TypeHistory, Control
<1>2. PICK b \in 1..Len(pending) : b = Batch
  BY <1>1, BatchType DEF WriteBatch
<1>0. b \in 0..Len(pending) /\ Len(pending) \in Nat
  BY <1>1
<1>3. PICK frames \in Seq(Recs) :
        /\ frames = SubSeq(pending, 1, b) /\ Len(frames) = b
        /\ \A i \in 1..b : frames[i] = pending[i] /\ i \in DOMAIN pending
  BY <1>0, <1>1, HeadAndRest
<1>4. PICK rest \in Seq(Recs) :
        /\ rest = SubSeq(pending, b + 1, Len(pending))
        /\ \A j \in DOMAIN rest : b + j \in DOMAIN pending /\ rest[j] = pending[b + j] /\ j > 0
  <2>1. PICK rest \in Seq(Recs) : rest = SubSeq(pending, b + 1, Len(pending))
    BY <1>0, <1>1, HeadAndRest
  <2>2. /\ Len(rest) = Len(pending) - b
        /\ \A j \in 1..(Len(pending) - b) : rest[j] = pending[b + j] /\ b + j \in DOMAIN pending
    BY <1>0, <1>1, <2>1, HeadAndRest
  <2>3. DOMAIN rest = 1..(Len(pending) - b)
    BY <2>2
  <2>4. \A j \in DOMAIN rest : b + j \in DOMAIN pending /\ rest[j] = pending[b + j] /\ j > 0
    BY <1>0, <2>2, <2>3
  <2> QED BY <2>1, <2>4
<1>5. /\ disk' = [disk EXCEPT ![active].recs = WriteAt(frames)] /\ pending' = rest
      /\ len' = [len EXCEPT ![active] = len[active] + b]
      /\ wpc \in {"write", "writing"} /\ UNCHANGED <<active, nrec, fileOpen>>
  BY <1>2, <1>3, <1>4 DEF WriteBatch, envVars
<1>6. /\ frames \in Seq(Frames)
      /\ \A i \in DOMAIN frames :
           frames[i] = 0 \/ (i \in DOMAIN pending /\ frames[i] = pending[i])
  <2>1. \A r \in Recs : r \in Frames
    BY <1>1 DEF Frames, Recs
  <2> QED BY <1>3, <2>1
<1>7. /\ disk' \in [SegIds -> Files] /\ Listing' = Listing /\ active \in Listing
      /\ \A s \in SegIds \ {active} : disk'[s].recs = disk[s].recs
      /\ len[active] \in Nat
      /\ Len(disk'[active].recs) = len[active] + Len(frames)
      /\ disk'[active].recs \in Seq(Frames)
      /\ \A i \in DOMAIN disk'[active].recs :
           \/ /\ i <= len[active] /\ i \in DOMAIN disk[active].recs
              /\ disk'[active].recs[i] = disk[active].recs[i]
           \/ /\ i - len[active] \in DOMAIN frames
              /\ disk'[active].recs[i] = frames[i - len[active]]
      /\ LogInOrder'
  BY <1>5, <1>6, WriteAtFacts
<1>8. fate' \in [Recs -> Fates]
  BY MarkType DEF IInv, WriteBatch, TypeOK, TypeHistory, Fates
<1>9. len' \in [SegIds -> Int] /\ active \in SegIds /\ len'[active] = len[active] + b
  BY <1>5, <1>7 DEF IInv, TypeOK, TypeMem, Listing
<1>10. TypeOK'
  <2>1. TypeDisk' /\ TypeMem'
    BY <1>4, <1>5, <1>7, <1>9 DEF IInv, WriteBatch, TypeOK, TypeDisk, TypeMem
  <2>2. TypeFlags' /\ TypeHistory'
    BY <1>8 DEF IInv, WriteBatch, AfterOpen, envVars, TypeOK, TypeFlags, TypeHistory
  <2> QED BY <2>1, <2>2 DEF TypeOK
<1>11. Control'
  BY <1>5, <1>9 DEF IInv, WriteBatch, AfterOpen, Control
<1>12. Numbers'
  BY <1>5, <1>7 DEF IInv, WriteBatch, AfterOpen, Numbers
<1>13. ActiveFile'
  <2>2. wpc' # "header"
    BY <1>4 DEF WriteBatch
  <2>3. active' = active /\ len'[active] \in Nat
    BY <1>5, <1>7, <1>9
  <2>1. /\ len'[active'] \in Nat /\ active' \in Listing'
        /\ Len(disk'[active'].recs) = len'[active'] /\ wpc' # "header"
    BY <1>3, <1>7, <1>9, <2>2, <2>3
  <2> QED BY <2>1 DEF ActiveFile
<1>14. Ages'
  <2>1. \A j \in DOMAIN rest : rest[j] <= nrec
    BY <1>4 DEF IInv, Ages
  <2>2. \A i, j \in DOMAIN rest : i < j => rest[i] < rest[j]
    BY <1>4 DEF IInv, Ages
  <2>3. ASSUME NEW s \in Listing, NEW i \in DOMAIN disk'[s].recs
        PROVE  disk'[s].recs[i] <= nrec /\ \A j \in DOMAIN rest : disk'[s].recs[i] < rest[j]
    <3>1. CASE s # active
      <4>1. s \in SegIds /\ disk'[s].recs = disk[s].recs /\ i \in DOMAIN disk[s].recs
        BY <1>7, <3>1 DEF Listing
      <4>2. /\ disk[s].recs[i] <= nrec
            /\ \A j \in DOMAIN pending : disk[s].recs[i] < pending[j]
        BY <3>1, <4>1 DEF IInv, Ages
      <4> QED BY <1>4, <4>1, <4>2
    <3>2. CASE /\ s = active /\ i <= len[active] /\ i \in DOMAIN disk[s].recs
               /\ disk'[s].recs[i] = disk[s].recs[i]
      <4>1. i \in Int
        BY <1>7, <3>2
      <4>2. /\ disk[s].recs[i] <= nrec
            /\ \A j \in DOMAIN pending : disk[s].recs[i] < pending[j]
        BY <1>7, <3>2, <4>1 DEF IInv, Ages
      <4> QED BY <1>4, <3>2, <4>2
    <3>3. CASE /\ s = active /\ i - len[active] \in DOMAIN frames
               /\ disk'[s].recs[i] = frames[i - len[active]]
      <4>1. PICK k \in 1..b : k = i - len[active] /\ disk'[s].recs[i] = pending[k]
        BY <1>3, <3>3
      <4> QED BY <1>1, <1>3, <1>4, <4>1 DEF IInv, Ages
    <3> QED BY <1>7, <3>1, <3>2, <3>3
  <2> QED BY <1>5, <1>7, <2>1, <2>2, <2>3 DEF Ages
<1> QED BY <1>7, <1>10, <1>11, <1>12, <1>13, <1>14 DEF IInv

-----------------------------------------------------------------------------
(* Flushes, the end of a flush, and the machine.                           *)

\* sync_data changes no frame.
LEMMA SyncFacts ==
  ASSUME IInv, wpc # "down", disk' = SyncFile(active) \/ disk' = disk
  PROVE  /\ disk' \in [SegIds -> Files] /\ Listing' = Listing
         /\ \A s \in SegIds : disk'[s].recs = disk[s].recs
<1>1. disk \in [SegIds -> Files] /\ active \in SegIds
  BY DEF IInv, TypeOK, TypeDisk, Control
<1>2. CASE disk' = disk
  BY <1>1, <1>2 DEF Listing
<1>3. CASE disk' = SyncFile(active)
  <2>1. disk' \in [SegIds -> Files]
    BY <1>1, <1>3, FileTypes
  <2>2. disk' = [disk EXCEPT ![active] = [disk[active] EXCEPT !.dur = Len(disk[active].recs)]]
    BY <1>3 DEF SyncFile
  <2>3. \A s \in SegIds : disk'[s].recs = disk[s].recs /\ disk'[s].st = disk[s].st
    BY <1>1, <2>2 DEF Files
  <2> QED BY <2>1, <2>3 DEF Listing
<1> QED BY <1>2, <1>3

\* rotate flushes the old segment and starts the next.
LEMMA SealInv == IInv /\ Seal => IInv'
<1> SUFFICES ASSUME IInv, Seal PROVE IInv'
  OBVIOUS
<1>1. active \in SegIds /\ MaxSeg \in Nat /\ len \in [SegIds -> Int] /\ fileOpen
  BY CountsAssumption DEF IInv, Seal, TypeOK, TypeMem, Control
<1>2. active' = active + 1 /\ active' \in SegIds
  BY <1>1 DEF Seal, NextSeq, SegIds
<1>3. /\ disk' \in [SegIds -> Files] /\ Listing' = Listing
      /\ \A s \in SegIds : disk'[s].recs = disk[s].recs
  BY SyncFacts DEF Seal
<1>4. fate' \in [Recs -> Fates]
  BY FlushedType DEF IInv, Seal, TypeOK, TypeHistory
<1>5. len' \in [SegIds -> Int] /\ len'[active'] = -1
  BY <1>1, <1>2 DEF Seal
<1>6. TypeOK'
  <2>1. TypeDisk' /\ TypeMem'
    BY <1>2, <1>3, <1>5 DEF IInv, Seal, TypeOK, TypeDisk, TypeMem, SegIds
  <2>2. TypeFlags' /\ TypeHistory'
    BY <1>4 DEF IInv, Seal, envVars, TypeOK, TypeFlags, TypeHistory
  <2> QED BY <2>1, <2>2 DEF TypeOK
<1>7. Control'
  BY <1>2 DEF IInv, Seal, Control
<1>8. \A s \in Listing : s \in SegIds /\ s < active'
  BY <1>1, <1>2 DEF IInv, Seal, Numbers, Listing, SegIds
<1>9. Numbers'
  BY <1>1, <1>2, <1>3, <1>8 DEF Seal, Numbers, SegIds
<1>10. ActiveFile'
  <2>1. active' \notin Listing' /\ ~(len'[active'] >= 0) /\ ~fileOpen' /\ wpc' = "active"
    BY <1>2, <1>3, <1>5, <1>8 DEF Seal, SegIds
  <2> QED BY <2>1 DEF ActiveFile
<1>11. Ages'
  <2>1. ASSUME NEW s \in Listing, NEW i \in DOMAIN disk[s].recs
        PROVE  ~(s = active /\ i > len[active])
    <3>1. disk[s].recs \in Seq(Frames) /\ len[active] \in Int
      BY <1>1, FileTypes DEF IInv, TypeOK, TypeDisk, Listing
    <3>2. i <= Len(disk[s].recs) /\ i \in Int
      BY <3>1
    <3>3. Len(disk[active].recs) <= len[active]
      BY <1>1 DEF IInv, Seal, ActiveFile
    <3> QED BY <3>1, <3>2, <3>3
  <2> QED BY <1>3, <2>1 DEF IInv, Seal, envVars, Ages, Listing
<1>12. LogInOrder'
  BY <1>3 DEF IInv, LogInOrder, Listing
<1> QED BY <1>6, <1>7, <1>9, <1>10, <1>11, <1>12 DEF IInv

\* A flush ends, well or because segment numbers ran out.
LEMMA FinishInv == IInv /\ (Finish \/ SealExhausted) => IInv'
<1> SUFFICES ASSUME IInv, Finish \/ SealExhausted PROVE IInv'
  OBVIOUS
<1>1. /\ disk' \in [SegIds -> Files] /\ Listing' = Listing
      /\ \A s \in SegIds : disk'[s].recs = disk[s].recs
  BY SyncFacts DEF Finish, SealExhausted
<1>2. Flushed \in [Recs -> Fates]
  BY FlushedType DEF IInv, TypeOK, TypeHistory
<1>3. UNCHANGED <<cursor, nrec, faults, crashes, rot>> /\ wpc \in {"sync", "seal"}
  BY DEF Finish, SealExhausted, envVars
<1>4. CASE closing
  <2>1. NoWriter /\ fate' = AfterExit(Flushed)
    BY <1>4 DEF Finish, SealExhausted
  <2>2. TypeOK'
    BY <1>1, <1>2, <1>3, <2>1, NoWriterType, AfterExitType DEF IInv, TypeOK, TypeDisk, TypeHistory
  <2> QED BY <1>1, <1>3, <2>1, <2>2, ExitInv DEF Listing
<1>5. CASE ~closing
  <2>1. /\ wpc' = "idle" /\ unsynced' = FALSE /\ fate' = Flushed
        /\ fileOpen' \in {fileOpen, FALSE} /\ failing' \in BOOLEAN
        /\ UNCHANGED <<segs, len, active, pending, acked, closing, gaps, todo, undel>>
    BY <1>5 DEF Finish, SealExhausted
  <2>2. TypeOK'
    <3>1. TypeDisk' /\ TypeMem'
      BY <1>1, <1>3, <2>1 DEF IInv, TypeOK, TypeDisk, TypeMem
    <3>2. TypeFlags' /\ TypeHistory'
      BY <1>2, <1>3, <2>1 DEF IInv, TypeOK, TypeFlags, TypeHistory
    <3> QED BY <3>1, <3>2 DEF TypeOK
  <2>3. Control'
    BY <1>3, <2>1 DEF IInv, Control
  <2>4. fileOpen' => fileOpen
    BY <2>1, Zenon
  <2> QED BY <1>1, <1>3, <2>1, <2>2, <2>3, <2>4, QuietStep
<1> QED BY <1>4, <1>5

\* What a power cut leaves of a file is a file with no frame it did not have.
LEMMA CutFileFacts ==
  ASSUME NEW f \in Files, NEW k \in Int, NEW torn, MayCut(f, k, torn), k >= -2
  PROVE  /\ CutFile(f, k, torn) \in Files
         /\ CutFile(f, k, torn).st \in {"absent", f.st}
         /\ \A i \in DOMAIN CutFile(f, k, torn).recs :
              \/ CutFile(f, k, torn).recs[i] <= 0
              \/ i \in DOMAIN f.recs /\ CutFile(f, k, torn).recs[i] = f.recs[i]
<1> DEFINE c == CutFile(f, k, torn)
<1>1. f.recs \in Seq(Frames) /\ k <= Len(f.recs) /\ Torn \in Frames
  BY CountsAssumption DEF Files, MayCut, Torn, Frames
<1>2. CASE k = -2
  <2>1. c = Absent
    BY <1>2 DEF CutFile
  <2>2. c \in Files /\ c.st = "absent" /\ c.recs = <<>>
    BY <2>1 DEF Absent, Files
  <2>3. DOMAIN c.recs = {}
    BY <2>2
  <2> QED BY <2>2, <2>3
<1>3. CASE k = -1
  <2>1. c = [f EXCEPT !.hdr = "none", !.recs = <<>>]
    BY <1>3 DEF CutFile
  <2>2. c \in Files /\ c.st = f.st /\ c.recs = <<>>
    BY <2>1, FileEmpty
  <2>3. DOMAIN c.recs = {}
    BY <2>2
  <2> QED BY <2>2, <2>3
<1>4. CASE k \in 0..Len(f.recs)
  <2>1. PICK head \in Seq(Frames) :
          head = SubSeq(f.recs, 1, k) /\ Len(head) = k /\ \A i \in 1..k : head[i] = f.recs[i]
    <3>1. PICK s \in Seq(Frames) : s = f.recs
      BY <1>1
    <3>2. SubSeq(s, 1, k) \in Seq(Frames) /\ Len(SubSeq(s, 1, k)) = k
      BY <1>4, <3>1
    <3>3. \A i \in 1..k : SubSeq(s, 1, k)[i] = s[i]
      BY <1>4, <3>1
    <3> QED BY <3>1, <3>2, <3>3
  <2>2. PICK tail \in Seq(Frames) :
          tail = (IF torn THEN <<Torn>> ELSE <<>>) /\ \A i \in DOMAIN tail : tail[i] = 0
    <3>1. <<>> \in Seq(Frames) /\ DOMAIN <<>> = {}
      OBVIOUS
    <3>2. <<Torn>> \in Seq(Frames) /\ \A i \in DOMAIN <<Torn>> : <<Torn>>[i] = 0
      BY <1>1 DEF Torn
    <3> QED BY <3>1, <3>2
  <2>3. PICK kept \in Seq(Frames) : kept = head \o tail /\ Len(kept) = k + Len(tail)
    <3>1. head \o tail \in Seq(Frames) /\ Len(head \o tail) = k + Len(tail)
      BY <2>1
    <3> QED BY <3>1
  <2>4. c = [f EXCEPT !.recs = kept, !.dur = Len(kept)]
    BY <1>4, <2>1, <2>2, <2>3 DEF CutFile
  <2>5. c \in Files /\ c.recs = kept /\ c.st = f.st
    <3>1. PICK d \in Int : d = Len(kept)
      BY <2>3
    <3>2. c = [f EXCEPT !.recs = kept, !.dur = d]
      BY <2>4, <3>1
    <3>3. /\ [f EXCEPT !.recs = kept, !.dur = d] \in Files
          /\ [f EXCEPT !.recs = kept, !.dur = d].recs = kept
          /\ [f EXCEPT !.recs = kept, !.dur = d].st = f.st
      BY FileRecsDur
    <3> QED BY <3>2, <3>3
  <2>6. ASSUME NEW i \in DOMAIN kept
        PROVE  kept[i] <= 0 \/ (i \in DOMAIN f.recs /\ kept[i] = f.recs[i])
    <3>1. i \in 1..(k + Len(tail)) /\ i \in Int
      BY <2>3
    <3>2. CASE i <= k
      <4>1. kept[i] = head[i]
        BY <1>4, <2>1, <2>3, <3>1, <3>2
      <4> QED BY <1>1, <1>4, <2>1, <3>1, <3>2, <4>1
    <3>3. CASE i > k
      <4>1. kept[i] = tail[i - k] /\ i - k \in DOMAIN tail
        BY <1>4, <2>1, <2>3, <3>1, <3>3
      <4> QED BY <2>2, <4>1
    <3> QED BY <1>4, <3>1, <3>2, <3>3
  <2> QED BY <2>5, <2>6
<1> QED BY <1>1, <1>2, <1>3, <1>4

\* A power cut leaves a prefix of every file and perhaps a torn frame.
LEMMA PowerCutInv == IInv /\ PowerCut => IInv'
<1> SUFFICES ASSUME IInv, PowerCut PROVE IInv'
  OBVIOUS
<1>1. disk \in [SegIds -> Files] /\ fate \in [Recs -> Fates] /\ Unflushed \subseteq Listing
  BY DEF IInv, TypeOK, TypeDisk, TypeHistory, Unflushed
<1>2. PICK keep \in [Unflushed -> (-2)..MaxRecs], torn \in [Unflushed -> BOOLEAN] :
        /\ \A s \in Unflushed : MayCut(disk[s], keep[s], torn[s])
        /\ disk' = [s \in SegIds |-> IF s \in Unflushed THEN CutFile(disk[s], keep[s], torn[s])
                                     ELSE disk[s]]
  BY DEF PowerCut
<1>3. ASSUME NEW s \in Unflushed
      PROVE  /\ disk'[s] \in Files /\ disk'[s].st \in {"absent", disk[s].st}
             /\ \A i \in DOMAIN disk'[s].recs :
                  disk'[s].recs[i] <= 0 \/ (i \in DOMAIN disk[s].recs /\ disk'[s].recs[i] = disk[s].recs[i])
  <2>1. PICK f \in Files, k \in Int : f = disk[s] /\ k = keep[s] /\ k >= -2
    <3>1. disk[s] \in Files /\ keep[s] \in (-2)..MaxRecs
      BY <1>1, <1>2 DEF Listing
    <3> QED BY <3>1, CountsAssumption
  <2>2. disk'[s] = CutFile(f, k, torn[s]) /\ MayCut(f, k, torn[s])
    BY <1>1, <1>2, <2>1 DEF Listing
  <2> QED BY <2>1, <2>2, CutFileFacts
<1>4. \A s \in SegIds \ Unflushed : disk'[s] = disk[s]
  BY <1>2
<1>5. disk' \in [SegIds -> Files]
  BY <1>1, <1>2, <1>3, <1>4
<1>6. fate' \in [Recs -> Fates]
  <2>1. "durable" \in Fates /\ "lost" \in Fates /\ "unreported" \in Fates
    BY DEF Fates
  <2> QED BY <1>1, <2>1 DEF PowerCut
<1>7. TypeOK'
  <2>1. NoWriter /\ UNCHANGED <<cursor, nrec, faults, rot>> /\ crashes' \in 0..MaxCrashes
    BY CountsAssumption DEF IInv, PowerCut, TypeOK, TypeHistory
  <2> QED BY <1>5, <1>6, <2>1, NoWriterType DEF IInv, TypeOK, TypeDisk, TypeHistory
<1>8. ASSUME NEW s \in Listing', NEW i \in DOMAIN disk'[s].recs
      PROVE  \/ disk'[s].recs[i] <= 0
             \/ /\ s \in Listing /\ i \in DOMAIN disk[s].recs
                /\ disk'[s].recs[i] = disk[s].recs[i]
  <2>1. s \in SegIds /\ disk'[s].st = "live"
    BY DEF Listing
  <2>2. CASE s \in Unflushed
    BY <1>1, <1>3, <2>2
  <2>3. CASE s \notin Unflushed
    BY <1>4, <2>1, <2>3 DEF Listing
  <2> QED BY <2>2, <2>3
<1> QED BY <1>7, <1>8, ExitInv DEF PowerCut

\* Damage on the disk changes no length and adds no valid frame.
LEMMA RotStep ==
  ASSUME IInv, disk' \in [SegIds -> Files], fate' \in [Recs -> Fates], rot' \in 0..MaxRot,
         cursor' \in {cursor, CorruptCursor},
         UNCHANGED <<memVars, loopVars, nrec, faults, crashes>>, Listing' = Listing,
         \A s \in SegIds :
           /\ Len(disk'[s].recs) = Len(disk[s].recs)
           /\ DOMAIN disk'[s].recs = DOMAIN disk[s].recs
           /\ disk[s].recs = <<>> => disk'[s].recs = <<>>
           /\ \A i \in DOMAIN disk'[s].recs :
                disk'[s].recs[i] <= 0 \/ disk'[s].recs[i] = disk[s].recs[i]
  PROVE  IInv'
<1>1. TypeOK'
  <2>1. TypeDisk' /\ TypeMem'
    BY DEF IInv, TypeOK, TypeDisk, TypeMem, memVars, loopVars
  <2>2. TypeFlags' /\ TypeHistory'
    BY DEF IInv, TypeOK, TypeFlags, TypeHistory, memVars, loopVars
  <2> QED BY <2>1, <2>2 DEF TypeOK
<1>2. Control' /\ Numbers'
  BY DEF IInv, Control, Numbers, memVars, loopVars
<1>3. ActiveFile'
  BY DEF IInv, Control, ActiveFile, memVars, loopVars
<1>4. Ages' /\ LogInOrder'
  <2>1. UNCHANGED <<nrec, pending, active, len>> /\ \A s \in Listing : s \in SegIds
    BY DEF memVars, Listing
  <2> QED BY <1>1, <2>1, NoNewFrames
<1> QED BY <1>1, <1>2, <1>3, <1>4 DEF IInv

\* Damage at rest keeps the invariant: a damaged frame is no record any more.
LEMMA RotInv == IInv /\ (RotFrame \/ RotHeader \/ RotCursor) => IInv'
<1> SUFFICES ASSUME IInv, RotFrame \/ RotHeader \/ RotCursor PROVE IInv'
  OBVIOUS
<1>1. /\ disk \in [SegIds -> Files] /\ rot' \in 0..MaxRot /\ fate \in [Recs -> Fates]
      /\ UNCHANGED <<memVars, loopVars, nrec, faults, crashes>>
  BY CountsAssumption DEF IInv, TypeOK, TypeDisk, TypeHistory, RotFrame, RotHeader, RotCursor
<1>2. CASE RotFrame
  <2>1. PICK s \in SegIds : \E i \in 1..ValidCount(disk[s].recs) :
          /\ disk' = [disk EXCEPT ![s].recs[i] = -disk[s].recs[i]]
          /\ fate' = Mark({disk[s].recs[j] : j \in i..ValidCount(disk[s].recs)}, "rotten")
    BY <1>2 DEF RotFrame
  <2>2. PICK i \in 1..ValidCount(disk[s].recs) :
          /\ disk' = [disk EXCEPT ![s].recs[i] = -disk[s].recs[i]]
          /\ fate' = Mark({disk[s].recs[j] : j \in i..ValidCount(disk[s].recs)}, "rotten")
    BY <2>1
  <2>3. PICK q \in Seq(Frames) : q = disk[s].recs
    BY <1>1, FileTypes
  <2>4. i \in DOMAIN q /\ q[i] > 0 /\ q[i] \in Frames
    <3>1. /\ ValidCount(q) \in 0..Len(q) /\ \A j \in 1..ValidCount(q) : q[j] > 0
      BY ValidCountType
    <3> QED BY <2>2, <2>3, <3>1
  <2>5. -q[i] \in Frames /\ -q[i] <= 0
    BY <2>4, CountsAssumption DEF Frames
  <2>6. PICK p \in Seq(Frames) : p = [q EXCEPT ![i] = -q[i]]
    <3>1. PICK x \in Frames : x = -q[i]
      BY <2>5
    <3>2. [q EXCEPT ![i] = x] \in Seq(Frames)
      BY <2>4
    <3> QED BY <3>1, <3>2
  <2>7. /\ Len(p) = Len(q) /\ DOMAIN p = DOMAIN q /\ q # <<>>
        /\ \A j \in DOMAIN p : p[j] <= 0 \/ p[j] = q[j]
    BY <2>4, <2>5, <2>6
  <2>8. disk' = [disk EXCEPT ![s] = [disk[s] EXCEPT !.recs = p]]
    BY <2>2, <2>3, <2>6
  <2>9. /\ [disk[s] EXCEPT !.recs = p] \in Files /\ [disk[s] EXCEPT !.recs = p].recs = p
        /\ [disk[s] EXCEPT !.recs = p].st = disk[s].st
    BY <1>1, FileRecs
  <2>10. disk' \in [SegIds -> Files] /\ Listing' = Listing
    BY <1>1, <2>8, <2>9 DEF Listing
  <2>11. disk'[s].recs = p /\ \A t \in SegIds \ {s} : disk'[t] = disk[t]
    BY <1>1, <2>8, <2>9
  <2>12. fate' \in [Recs -> Fates]
    BY <1>1, <2>2, MarkType DEF Fates
  <2>13. cursor' = cursor
    BY <1>2 DEF RotFrame
  <2>14. ASSUME NEW t \in SegIds
         PROVE  /\ Len(disk'[t].recs) = Len(disk[t].recs)
                /\ DOMAIN disk'[t].recs = DOMAIN disk[t].recs
                /\ disk[t].recs = <<>> => disk'[t].recs = <<>>
                /\ \A j \in DOMAIN disk'[t].recs :
                     disk'[t].recs[j] <= 0 \/ disk'[t].recs[j] = disk[t].recs[j]
    BY <2>3, <2>7, <2>11
  <2> QED BY <1>1, <2>10, <2>12, <2>13, <2>14, RotStep
<1>3. CASE RotHeader
  <2>1. PICK s \in SegIds : disk' = [disk EXCEPT ![s].hdr = "foreign"]
                            /\ fate' = Mark(Readable(disk[s]), "rotten")
    BY <1>3 DEF RotHeader
  <2>2. /\ [disk[s] EXCEPT !.hdr = "foreign"] \in Files
        /\ [disk[s] EXCEPT !.hdr = "foreign"].recs = disk[s].recs
        /\ [disk[s] EXCEPT !.hdr = "foreign"].st = disk[s].st
    BY <1>1, FileHeader
  <2>3. disk' = [disk EXCEPT ![s] = [disk[s] EXCEPT !.hdr = "foreign"]]
    BY <2>1
  <2>4. /\ disk' \in [SegIds -> Files] /\ Listing' = Listing
        /\ \A t \in SegIds : disk'[t].recs = disk[t].recs
    BY <1>1, <2>2, <2>3 DEF Listing
  <2>5. fate' \in [Recs -> Fates] /\ cursor' = cursor
    BY <1>1, <1>3, <2>1, MarkType DEF Fates, RotHeader
  <2> QED BY <1>1, <2>4, <2>5, RotStep
<1>4. CASE RotCursor
  BY <1>1, <1>4, RotStep DEF RotCursor, Listing
<1> QED BY <1>2, <1>3, <1>4

-----------------------------------------------------------------------------
(* The theorems.                                                           *)

\* Every step keeps the invariant.
LEMMA NextInv == IInv /\ [Next]_vars => IInv'
<1> SUFFICES ASSUME IInv, [Next]_vars PROVE IInv'
  OBVIOUS
<1>1. CASE Opening
  BY <1>1, LoadInv, OpenDeleteInv, OpenKeepInv, OpenFailsInv DEF Opening
<1>2. CASE AppendRecord \/ Tick \/ IdleTick \/ Close
  BY <1>2, AppendInv, TickInv, CloseInv
<1>3. CASE Flushing
  BY <1>3, OpenActiveInv, WriteHeaderInv, WritePartInv, WriteBatchInv, RoomInv, EvictInv,
     EvictFailsInv, DropPendingInv, SealInv, FinishInv DEF Flushing
<1>4. CASE IoFails \/ AckStep \/ Acking \/ TakeGaps
  BY <1>4, IoFailsInv, AckInv, AckDeleteInv, AckDeleteFailsInv, TakeGapsInv DEF Acking
<1>5. CASE Environment
  BY <1>5, CrashInv, PowerCutInv, RotInv DEF Environment
<1>6. CASE UNCHANGED vars
  <2>1. TypeOK'
    BY <1>6 DEF IInv, vars, diskVars, memVars, loopVars, envVars, TypeOK, TypeDisk, TypeMem,
       TypeFlags, TypeHistory
  <2>2. Control' /\ Numbers' /\ ActiveFile' /\ Ages' /\ LogInOrder'
    BY <1>6 DEF IInv, vars, diskVars, memVars, loopVars, envVars, Control, Numbers, ActiveFile,
       Ages, LogInOrder, Listing
  <2> QED BY <2>1, <2>2 DEF IInv
<1> QED BY <1>1, <1>2, <1>3, <1>4, <1>5, <1>6 DEF Next

\* The writer's memory and the files keep their types through every flush,
\* failure, crash, power cut and recovery, for any policy and any sizes that
\* Config::validate accepts.
THEOREM TypeCorrect == Spec => []TypeOK
<1>1. IInv => TypeOK
  BY DEF IInv
<1> QED BY <1>1, InitInv, NextInv, PTL DEF Spec

\* For any number of records, segments, errors, crashes and power cuts, the
\* log holds no record twice and none out of append order.
THEOREM LogAlwaysInOrder == Spec => []LogInOrder
<1>1. IInv => LogInOrder
  BY DEF IInv
<1> QED BY <1>1, InitInv, NextInv, PTL DEF Spec

\* One step leaves a segment with a newer one after it as it is.
Kept(s) == disk'[s].recs = disk[s].recs /\ disk'[s].hdr = disk[s].hdr

\* An update of one file, of its state or of its durability.
LEMMA OtherFileKept ==
  ASSUME disk \in [SegIds -> Files], NEW s \in SegIds, NEW u, NEW f,
         \/ disk' = [disk EXCEPT ![u] = f] /\ u # s
         \/ disk' = [disk EXCEPT ![u].st = "gone"]
         \/ disk' = SyncFile(u)
         \/ disk' = disk
  PROVE  Kept(s)
<1>1. disk[s] \in Files
  OBVIOUS
<1>2. CASE disk' = [disk EXCEPT ![u] = f] /\ u # s
  BY <1>2 DEF Kept
<1>3. CASE disk' = [disk EXCEPT ![u].st = "gone"]
  BY <1>1, <1>3 DEF Kept, Files
<1>4. CASE disk' = SyncFile(u)
  BY <1>1, <1>4 DEF Kept, Files, SyncFile
<1> QED BY <1>2, <1>3, <1>4 DEF Kept

\* No step but damage and the end of the process changes a segment that has a
\* newer one after it: writes go to the active segment, repair to the newest.
LEMMA SealedStep ==
  ASSUME IInv, Next, crashes' = crashes, rot' = rot,
         NEW s \in Listing, NEW t \in Listing, t > s
  PROVE  Kept(s)
<1>1. s \in SegIds /\ t \in SegIds /\ disk \in [SegIds -> Files] /\ crashes \in Nat /\ rot \in Nat
  BY DEF Listing, IInv, TypeOK, TypeDisk, TypeHistory
<1>2. wpc # "down" => active \in SegIds /\ active # s
  BY <1>1 DEF IInv, Control, Numbers, SegIds
<1>3. CASE OpenKeep
  <2>1. PICK u \in SegIds : Oldest(u, todo) /\ disk' = [disk EXCEPT ![u] = Repair(u)]
    BY <1>3 DEF OpenKeep
  <2>2. CASE u # s
    BY <1>1, <2>1, <2>2, OtherFileKept
  <2>3. CASE u = s
    <3>1. todo # {s}
      BY <1>1, <1>3, <2>1, <2>3 DEF IInv, OpenKeep, Numbers, Oldest, SegIds
    <3>2. disk' = disk
      BY <1>1, <2>1, <2>3, <3>1 DEF Repair
    <3> QED BY <3>2 DEF Kept
  <2> QED BY <2>2, <2>3
<1>4. CASE OpenDelete \/ Evict \/ AckDelete
  <2>1. PICK u \in SegIds : disk' = [disk EXCEPT ![u].st = "gone"]
    BY <1>4 DEF OpenDelete, Evict, AckDelete
  <2> QED BY <1>1, <2>1, OtherFileKept
<1>5. CASE OpenActive \/ WriteHeader \/ WritePart \/ WriteBatch
  <2>1. wpc # "down"
    BY <1>5 DEF OpenActive, WriteHeader, WritePart, WriteBatch
  <2>2. \E f : disk' = [disk EXCEPT ![active] = f]
    <3>1. CASE OpenActive
      BY <3>1 DEF OpenActive
    <3>2. CASE WriteHeader
      BY <3>2 DEF WriteHeader
    <3>3. CASE WritePart
      BY <3>3 DEF WritePart
    <3>4. CASE WriteBatch
      BY <3>4 DEF WriteBatch
    <3> QED BY <1>5, <3>1, <3>2, <3>3, <3>4
  <2> QED BY <1>1, <1>2, <2>1, <2>2, OtherFileKept
<1>6. CASE Seal \/ SealExhausted \/ Finish
  <2>1. disk' = SyncFile(active) \/ disk' = disk
    BY <1>6 DEF Seal, SealExhausted, Finish
  <2> QED BY <1>1, <2>1, OtherFileKept
<1>7. CASE Crash \/ PowerCut \/ RotFrame \/ RotHeader \/ RotCursor \/ Close
  <2>1. crashes' = crashes + 1 \/ rot' = rot + 1
    BY <1>7 DEF Crash, PowerCut, RotFrame, RotHeader, RotCursor, Close
  <2> QED BY <1>1, <2>1
<1>8. CASE \/ OpenLoad \/ OpenFails \/ AppendRecord \/ Tick \/ IdleTick \/ StartRotate
           \/ EvictFails \/ DropPending \/ RoomMade \/ IoFails \/ AckStep \/ AckDeleteFails
           \/ TakeGaps
  <2>1. disk' = disk
    BY <1>8 DEF OpenLoad, OpenFails, AppendRecord, Tick, IdleTick, StartRotate, EvictFails,
       DropPending, RoomMade, IoFails, AckStep, Ack, AckDeleteFails, TakeGaps, diskVars
  <2> QED BY <2>1 DEF Kept
<1> QED BY <1>3, <1>4, <1>5, <1>6, <1>7, <1>8 DEF Next, Opening, Flushing, Acking, Environment

\* Readers may move past a segment once a newer one exists: neither a retry,
\* nor the recovery of the newest segment, nor a flush changes it any more.
THEOREM SealedNeverChange == Spec => SealedFinal
<1> DEFINE Final == \A s \in Listing :
              (\E t \in Listing : t > s) /\ crashes' = crashes /\ rot' = rot
              => disk'[s].recs = disk[s].recs /\ disk'[s].hdr = disk[s].hdr
<1>1. IInv /\ [Next]_vars => [Final]_vars
  <2>1. IInv /\ Next => Final
    BY SealedStep DEF Kept
  <2> QED BY <2>1
<1>2. SealedFinal <=> [][Final]_vars
  BY DEF SealedFinal
<1> QED BY <1>1, <1>2, InitInv, NextInv, PTL DEF Spec

-----------------------------------------------------------------------------
(***************************************************************************)
(* The writer loses nothing: a record is queued, or a reader finds it, or  *)
(* its end is on the record; and a power cut spares what a flush covered.  *)
(* Keeps is the invariant on top of IInv; there is one lemma for each kind *)
(* of step.                                                                *)
(***************************************************************************)

(* The inductive invariant.                                                *)

\* Record r is frame i of segment s, where a reader finds it, and where the
\* cut of open_active does not reach it.
At(r, s, i) ==
  /\ s \in Listing /\ disk[s].hdr = "ok"
  /\ i \in DOMAIN disk[s].recs /\ disk[s].recs[i] = r
  /\ \A j \in 1..i : disk[s].recs[j] > 0
  /\ wpc # "down" /\ s = active => i <= len[active]

Somewhere(r) == \E s \in SegIds : \E i \in DOMAIN disk[s].recs : At(r, s, i)
Safe(r) == \E s \in SegIds : \E i \in DOMAIN disk[s].recs : At(r, s, i) /\ i <= disk[s].dur
InActive(r) == \E i \in DOMAIN disk[active].recs : At(r, active, i)

\* Nothing has happened to a record that was not offered yet.
FreshNumbers == \A r \in Recs : r > nrec => fate[r] = "new"

QueueRight == With({"queued"}) = Range(pending)

\* Up to the writer's length the active file is good.
GoodPrefix ==
  wpc # "down" /\ len[active] >= 0 =>
    disk[active].hdr = "ok" /\ \A i \in 1..len[active] : disk[active].recs[i] > 0

\* Where the records are that the history says are on disk.
Placed ==
  \A r \in Recs :
    /\ fate[r] = "written" => wpc # "down" /\ unsynced /\ InActive(r)
    /\ fate[r] = "orphan" => Somewhere(r)
    /\ fate[r] = "durable" => Safe(r)

Keeps == FreshNumbers /\ QueueRight /\ GoodPrefix /\ Placed

OnDiskFates == {"written", "orphan", "durable"}

-----------------------------------------------------------------------------
(* Lemmas on the helpers.                                                  *)

\* record::scan reaches every frame with only valid ones up to it.
LEMMA ValidCountMax ==
  ASSUME NEW s \in Seq(Frames), NEW k \in 0..Len(s), \A i \in 1..k : s[i] > 0
  PROVE  k <= ValidCount(s)
<1> DEFINE S == {n \in 0..Len(s) : \A i \in 1..n : s[i] > 0}
<1>1. k \in S /\ S \in SUBSET (0..Len(s)) /\ Len(s) \in Nat
  OBVIOUS
<1>2. \A x \in S : x <= Max(S)
  BY <1>1, MaxOfInterval
<1> QED BY <1>1, <1>2 DEF ValidCount

\* What the invariant's types say of one file.
LEMMA FileFacts ==
  ASSUME IInv, NEW s \in SegIds
  PROVE  /\ disk[s] \in Files /\ disk[s].recs \in Seq(Frames) /\ Len(disk[s].recs) \in Nat
         /\ DOMAIN disk[s].recs = 1..Len(disk[s].recs) /\ disk[s].dur \in Int
         /\ \A i \in DOMAIN disk[s].recs : disk[s].recs[i] \in Int
<1>1. disk[s] \in Files
  BY DEF IInv, TypeOK, TypeDisk
<1>2. disk[s].recs \in Seq(Frames) /\ disk[s].dur \in Int
  BY <1>1 DEF Files
<1>3. \A i \in DOMAIN disk[s].recs : disk[s].recs[i] \in Frames
  BY <1>2
<1> QED BY <1>1, <1>2, <1>3, CountsAssumption DEF Frames

\* A record with a place is among those a reader finds in its segment.
LEMMA AtReadable ==
  ASSUME IInv, NEW r \in Recs, NEW s \in SegIds, NEW i \in DOMAIN disk[s].recs, At(r, s, i)
  PROVE  i \in 1..ValidCount(disk[s].recs) /\ r \in Readable(disk[s])
<1>1. PICK q \in Seq(Frames) : q = disk[s].recs /\ i \in 1..Len(q) /\ Len(q) \in Nat
  BY FileFacts
<1>2. i \in 0..Len(q) /\ \A j \in 1..i : q[j] > 0
  BY <1>1 DEF At
<1>3. i <= ValidCount(q)
  BY <1>2, ValidCountMax
<1>4. ValidCount(q) \in 0..Len(q)
  BY ValidCountType
<1>5. i \in 1..ValidCount(q)
  BY <1>1, <1>3, <1>4
<1> QED BY <1>1, <1>5 DEF At, Readable, Listing

\* What a reader finds in a segment has an index with valid frames up to it.
LEMMA ReadableFacts ==
  ASSUME IInv, NEW s \in SegIds, NEW r \in Readable(disk[s])
  PROVE  /\ s \in Listing /\ disk[s].hdr = "ok" /\ r \in Recs /\ r <= nrec
         /\ \E i \in DOMAIN disk[s].recs :
              /\ i \in 1..ValidCount(disk[s].recs) /\ disk[s].recs[i] = r
              /\ \A j \in 1..i : disk[s].recs[j] > 0
<1>1. PICK q \in Seq(Frames) : q = disk[s].recs /\ Len(q) \in Nat
  BY FileFacts
<1>2. s \in Listing /\ disk[s].hdr = "ok" /\ \E i \in 1..ValidCount(q) : r = q[i]
  BY <1>1 DEF Readable, Listing
<1>3. PICK i \in 1..ValidCount(q) : r = q[i]
  BY <1>2
<1>4. ValidCount(q) \in 0..Len(q) /\ \A j \in 1..ValidCount(q) : q[j] > 0
  BY ValidCountType
<1>5. i \in DOMAIN q /\ \A j \in 1..i : q[j] > 0
  BY <1>1, <1>3, <1>4
<1>6. r > 0 /\ r \in Frames
  BY <1>3, <1>4, <1>5
<1>7. r <= nrec /\ r \in Recs
  BY <1>1, <1>2, <1>3, <1>5, <1>6, CountsAssumption DEF IInv, Ages, Frames, Recs
<1> QED BY <1>1, <1>2, <1>3, <1>5, <1>7

\* A place is kept when its segment, the frames up to it and its durability are.
Stays(s, i) ==
  /\ s \in Listing' /\ disk'[s].hdr = "ok"
  /\ \A j \in 1..i : j \in DOMAIN disk'[s].recs /\ disk'[s].recs[j] = disk[s].recs[j]
  /\ wpc' # "down" /\ s = active' => i <= len'[active']
  /\ i <= disk[s].dur => i <= disk'[s].dur

\* A step after which the records on disk are where they were.
LEMMA PlacedKept ==
  ASSUME IInv, Placed,
         \A r \in Recs : fate'[r] \in OnDiskFates => fate'[r] = fate[r],
         \A r \in Recs : \A s \in SegIds : \A i \in DOMAIN disk[s].recs :
           At(r, s, i) /\ fate'[r] \in OnDiskFates => Stays(s, i),
         \/ wpc' # "down" /\ active' = active /\ unsynced' = unsynced /\ active \in SegIds
         \/ \A r \in Recs : fate[r] # "written"
  PROVE  Placed'
<1>1. ASSUME NEW r \in Recs, NEW s \in SegIds, NEW i \in DOMAIN disk[s].recs,
             At(r, s, i), fate'[r] \in OnDiskFates
      PROVE  i \in DOMAIN disk'[s].recs /\ At(r, s, i)' /\ (i <= disk[s].dur => i <= disk'[s].dur)
  <2>1. Stays(s, i)
    BY <1>1
  <2>2. i \in 1..i
    BY FileFacts, <1>1
  <2>3. i \in DOMAIN disk'[s].recs /\ disk'[s].recs[i] = r
    BY <1>1, <2>1, <2>2 DEF Stays, At
  <2>4. \A j \in 1..i : disk'[s].recs[j] > 0
    BY <1>1, <2>1 DEF Stays, At
  <2> QED BY <2>1, <2>3, <2>4 DEF Stays, At
<1> SUFFICES ASSUME NEW r \in Recs
             PROVE  /\ fate'[r] = "written" => wpc' # "down" /\ unsynced' /\ InActive(r)'
                    /\ fate'[r] = "orphan" => Somewhere(r)'
                    /\ fate'[r] = "durable" => Safe(r)'
  BY DEF Placed
<1>2. CASE fate'[r] = "written"
  <2>1. fate[r] = "written" /\ fate'[r] \in OnDiskFates
    BY <1>2 DEF OnDiskFates
  <2>2. unsynced /\ InActive(r) /\ wpc' # "down" /\ active' = active /\ unsynced' = unsynced
        /\ active \in SegIds
    BY <2>1 DEF Placed
  <2>3. PICK i \in DOMAIN disk[active].recs : At(r, active, i)
    BY <2>2 DEF InActive
  <2>4. i \in DOMAIN disk'[active].recs /\ At(r, active, i)'
    BY <1>1, <2>1, <2>2, <2>3
  <2> QED BY <1>2, <2>2, <2>4 DEF InActive, At
<1>3. CASE fate'[r] = "orphan"
  <2>1. fate[r] = "orphan" /\ fate'[r] \in OnDiskFates
    BY <1>3 DEF OnDiskFates
  <2>2. PICK s \in SegIds : \E i \in DOMAIN disk[s].recs : At(r, s, i)
    BY <2>1 DEF Placed, Somewhere
  <2> QED BY <1>1, <1>3, <2>1, <2>2 DEF Somewhere
<1>4. CASE fate'[r] = "durable"
  <2>1. fate[r] = "durable" /\ fate'[r] \in OnDiskFates
    BY <1>4 DEF OnDiskFates
  <2>2. PICK s \in SegIds : \E i \in DOMAIN disk[s].recs : At(r, s, i) /\ i <= disk[s].dur
    BY <2>1 DEF Placed, Safe
  <2> QED BY <1>1, <1>4, <2>1, <2>2 DEF Safe
<1> QED BY <1>2, <1>3, <1>4

\* A step that leaves files, lengths, queue and history alone.
LEMMA QuietKeeps ==
  ASSUME IInv, Keeps, UNCHANGED <<disk, len, active, unsynced, fate, pending, nrec>>,
         wpc = "down" <=> wpc' = "down"
  PROVE  Keeps'
<1>1. FreshNumbers' /\ QueueRight' /\ GoodPrefix'
  BY DEF Keeps, FreshNumbers, QueueRight, With, GoodPrefix
<1>2. Listing' = Listing /\ \A r, s, i : At(r, s, i)' <=> At(r, s, i)
  BY DEF Listing, At
<1>3. Placed'
  BY <1>2 DEF Keeps, Placed, InActive, Somewhere, Safe
<1> QED BY <1>1, <1>3 DEF Keeps

\* Steps of the writer that change neither files nor fates.
LEMMA QuietStepsKeep ==
  ASSUME IInv, Keeps,
         \/ Tick \/ IdleTick \/ (Close /\ NeedIO) \/ StartRotate \/ RoomMade \/ EvictFails
         \/ (IoFails /\ ~closing) \/ AckStep \/ AckDeleteFails \/ UNCHANGED vars
  PROVE  Keeps'
<1>1. CASE Tick \/ IdleTick
  BY <1>1, QuietKeeps DEF Tick, IdleTick, FlushStep, diskVars, memVars, loopVars, envVars
<1>2. CASE Close /\ NeedIO
  BY <1>2, QuietKeeps DEF Close, FlushStep, diskVars
<1>3. CASE StartRotate \/ RoomMade
  BY <1>3, QuietKeeps DEF StartRotate, RoomMade, diskVars, memVars, envVars
<1>4. CASE EvictFails
  BY <1>4, QuietKeeps DEF EvictFails, diskVars, memVars
<1>5. CASE IoFails /\ ~closing
  BY <1>5, QuietKeeps DEF IoFails, FlushFailed, diskVars
<1>6. CASE AckStep
  BY <1>6, QuietKeeps DEF AckStep, Ack, envVars
<1>7. CASE AckDeleteFails
  BY <1>7, QuietKeeps DEF AckDeleteFails, diskVars, memVars
<1>8. CASE UNCHANGED vars
  BY <1>8, QuietKeeps DEF vars, diskVars, memVars, loopVars, envVars, Keeps
<1> QED BY <1>1, <1>2, <1>3, <1>4, <1>5, <1>6, <1>7, <1>8

\* While files, lengths and the writer's place stay, so does every place.
LEMMA SamePlaces ==
  ASSUME IInv, UNCHANGED <<disk, len, active>>, wpc # "down", NEW r, NEW s, NEW i, At(r, s, i)
  PROVE  Stays(s, i)
<1>1. s \in SegIds /\ i \in DOMAIN disk[s].recs
  BY DEF At, Listing
<1>2. \A j \in 1..i : j \in DOMAIN disk[s].recs
  BY <1>1, FileFacts
<1> QED BY <1>2 DEF At, Stays, Listing

\* take_gaps changes the fate of records that are gone.
LEMMA TakeGapsKeeps ==
  ASSUME IInv, Keeps, TakeGaps
  PROVE  Keeps'
<1>1. UNCHANGED <<disk, len, active, unsynced, pending, nrec, wpc, fileOpen>> /\ wpc = "idle"
      /\ fate' = Mark(With({"evicted", "dropped"}), "reported") /\ active \in SegIds
  BY DEF TakeGaps, diskVars, loopVars, envVars, IInv, Control
<1>2. \A r \in Recs : \/ fate'[r] = fate[r]
                      \/ fate[r] \in {"evicted", "dropped"} /\ fate'[r] = "reported"
  BY <1>1 DEF Mark, With
<1>3. FreshNumbers'
  BY <1>1, <1>2 DEF Keeps, FreshNumbers
<1>4. QueueRight'
  BY <1>1, <1>2 DEF Keeps, QueueRight, With
<1>5. GoodPrefix'
  BY <1>1 DEF Keeps, GoodPrefix
<1>6. Placed'
  BY <1>1, <1>2, SamePlaces, PlacedKept DEF Keeps, OnDiskFates
<1> QED BY <1>3, <1>4, <1>5, <1>6 DEF Keeps

\* Room::Full empties the queue and says so.
LEMMA DropPendingKeeps ==
  ASSUME IInv, Keeps, DropPending
  PROVE  Keeps'
<1>1. UNCHANGED <<disk, len, active, unsynced, nrec, fileOpen>> /\ wpc = "room" /\ wpc' = "sync"
      /\ fate' = Mark(Range(pending), "dropped") /\ pending' = <<>> /\ active \in SegIds
      /\ fileOpen
  BY DEF DropPending, diskVars, envVars, IInv, Control
<1>2. \A r \in Recs : fate'[r] = IF r \in Range(pending) THEN "dropped" ELSE fate[r]
  BY <1>1 DEF Mark
<1>3. FreshNumbers'
  <2>1. \A r \in Range(pending) : r <= nrec /\ r \in Int /\ nrec \in Int
    BY CountsAssumption DEF IInv, Ages, TypeOK, TypeMem, TypeHistory, Range, Recs
  <2> QED BY <1>1, <1>2, <2>1 DEF Keeps, FreshNumbers, Recs
<1>4. QueueRight'
  <2>1. Range(pending') = {}
    BY <1>1 DEF Range
  <2>2. \A r \in Recs : fate'[r] # "queued"
    BY <1>2 DEF Keeps, QueueRight, With
  <2> QED BY <2>1, <2>2 DEF QueueRight, With
<1>5. GoodPrefix'
  BY <1>1 DEF Keeps, GoodPrefix
<1>6. Placed'
  BY <1>1, <1>2, SamePlaces, PlacedKept DEF Keeps, OnDiskFates
<1> QED BY <1>3, <1>4, <1>5, <1>6 DEF Keeps

\* append gives one new number a fate.
LEMMA AppendKeeps ==
  ASSUME IInv, Keeps, AppendRecord
  PROVE  Keeps'
<1>1. /\ UNCHANGED <<disk, len, active, unsynced, fileOpen, wpc>> /\ wpc = "idle"
      /\ nrec' = nrec + 1 /\ nrec \in Nat /\ nrec + 1 \in Recs /\ pending \in Seq(Recs)
      /\ active \in SegIds
  BY CountsAssumption DEF IInv, AppendRecord, diskVars, loopVars, TypeOK, TypeHistory, TypeMem,
     Recs, Control
<1>2. PICK v \in {"refused", "queued"} :
        /\ fate' = Mark({nrec + 1}, v)
        /\ pending' = IF v = "queued" THEN Append(pending, nrec + 1) ELSE pending
  BY DEF AppendRecord
<1>3. /\ fate[nrec + 1] = "new" /\ fate'[nrec + 1] = v
      /\ \A r \in Recs \ {nrec + 1} : fate'[r] = fate[r]
  BY <1>1, <1>2 DEF Keeps, FreshNumbers, Mark
<1>4. FreshNumbers'
  BY <1>1, <1>3 DEF Keeps, FreshNumbers, Recs
<1>5. QueueRight'
  <2>1. CASE v = "refused"
    BY <1>1, <1>2, <1>3, <2>1 DEF Keeps, QueueRight, With
  <2>2. CASE v = "queued"
    <3>1. Range(pending') = Range(pending) \cup {nrec + 1}
      <4>1. pending' = Append(pending, nrec + 1) /\ Len(pending) \in Nat
        BY <1>1, <1>2, <2>2
      <4>2. /\ DOMAIN pending' = 1..(Len(pending) + 1) /\ pending'[Len(pending) + 1] = nrec + 1
            /\ \A j \in 1..Len(pending) : pending'[j] = pending[j]
            /\ DOMAIN pending = 1..Len(pending)
        BY <1>1, <4>1
      <4>3. DOMAIN pending' = DOMAIN pending \cup {Len(pending) + 1}
        BY <4>1, <4>2
      <4> QED BY <4>2, <4>3 DEF Range
    <3>2. With({"queued"})' = With({"queued"}) \cup {nrec + 1}
      BY <1>1, <1>3, <2>2 DEF With
    <3> QED BY <3>1, <3>2 DEF Keeps, QueueRight
  <2> QED BY <2>1, <2>2
<1>6. GoodPrefix'
  BY <1>1 DEF Keeps, GoodPrefix
<1>7. Placed'
  <2>1. \A r \in Recs : fate'[r] \in OnDiskFates => fate'[r] = fate[r]
    BY <1>3 DEF OnDiskFates
  <2> QED BY <1>1, <2>1, SamePlaces, PlacedKept DEF Keeps
<1> QED BY <1>4, <1>5, <1>6, <1>7 DEF Keeps

\* What a reader finds in a segment that is not being written is not queued.
LEMMA ReadableNotQueued ==
  ASSUME IInv, NEW s \in SegIds, wpc # "down" => s # active, NEW r \in Readable(disk[s])
  PROVE  r \notin Range(pending)
<1>1. CASE wpc = "down"
  BY <1>1 DEF IInv, Control, Range
<1>2. CASE wpc # "down"
  <2>1. PICK i \in DOMAIN disk[s].recs : disk[s].recs[i] = r
    BY ReadableFacts
  <2>2. s \in Listing /\ r \in Int
    BY ReadableFacts DEF Recs
  <2>3. \A j \in DOMAIN pending : r < pending[j] /\ pending[j] \in Int
    BY <1>2, <2>1, <2>2, CountsAssumption DEF IInv, Ages, TypeOK, TypeMem, Recs
  <2> QED BY <2>2, <2>3 DEF Range
<1> QED BY <1>1, <1>2

\* Marking what a segment at rest holds leaves the queue and new numbers alone.
LEMMA MarkReadable ==
  ASSUME IInv, Keeps, NEW s \in SegIds, wpc # "down" => s # active,
         NEW S \in SUBSET Readable(disk[s]), NEW v, v \notin OnDiskFates \cup {"queued"},
         fate' = Mark(S, v), UNCHANGED <<pending, nrec>>
  PROVE  /\ FreshNumbers' /\ QueueRight'
         /\ \A r \in Recs : fate'[r] \in OnDiskFates => fate'[r] = fate[r] /\ r \notin S
<1>1. \A r \in Recs : fate'[r] = IF r \in S THEN v ELSE fate[r]
  BY DEF Mark
<1>2. \A r \in S : r \in Recs /\ r <= nrec /\ r \notin Range(pending)
  BY ReadableFacts, ReadableNotQueued
<1>3. nrec \in Int
  BY DEF IInv, TypeOK, TypeHistory
<1>4. FreshNumbers'
  BY <1>1, <1>2, <1>3 DEF Keeps, FreshNumbers, Recs
<1>5. QueueRight'
  BY <1>1, <1>2 DEF Keeps, QueueRight, With
<1> QED BY <1>1, <1>4, <1>5

\* A deletion takes the records of its segment, and only those, on the record.
LEMMA DeletionKeeps ==
  ASSUME IInv, Keeps, NEW s \in SegIds, s # active, wpc # "down",
         disk' = [disk EXCEPT ![s].st = "gone"],
         NEW v \in {"acked", "retired", "evicted", "unread"},
         fate' = Mark(Readable(disk[s]), v),
         UNCHANGED <<len, active, unsynced, pending, nrec>>, wpc' # "down"
  PROVE  Keeps'
<1>1. /\ FreshNumbers' /\ QueueRight'
      /\ \A r \in Recs :
           fate'[r] \in OnDiskFates => fate'[r] = fate[r] /\ r \notin Readable(disk[s])
  BY MarkReadable DEF OnDiskFates
<1>2. active \in SegIds /\ disk \in [SegIds -> Files]
  BY DEF IInv, Control, TypeOK, TypeDisk
<1>3. \A t \in SegIds \ {s} : disk'[t] = disk[t]
  BY <1>2
<1>4. GoodPrefix'
  BY <1>2, <1>3 DEF Keeps, GoodPrefix
<1>5. ASSUME NEW r \in Recs, NEW t \in SegIds, NEW i \in DOMAIN disk[t].recs,
             At(r, t, i), fate'[r] \in OnDiskFates
      PROVE  Stays(t, i)
  <2>1. t # s
    BY <1>1, <1>5, AtReadable
  <2>2. disk'[t] = disk[t] /\ \A j \in 1..i : j \in DOMAIN disk[t].recs
    BY <1>3, <2>1, FileFacts
  <2> QED BY <1>5, <2>2 DEF At, Stays, Listing
<1>6. Placed'
  BY <1>1, <1>2, <1>5, PlacedKept DEF Keeps
<1> QED BY <1>1, <1>4, <1>6 DEF Keeps

\* open, make_room and ack delete segments.
LEMMA DeletionsKeep ==
  ASSUME IInv, Keeps, OpenDelete \/ Evict \/ AckDelete
  PROVE  Keeps'
<1>1. CASE OpenDelete
  <2>1. PICK s \in SegIds : /\ Oldest(s, todo) /\ disk' = [disk EXCEPT ![s].st = "gone"]
                            /\ fate' = Mark(Readable(disk[s]), "acked")
    BY <1>1 DEF OpenDelete
  <2>2. s # active
    BY <1>1, <2>1 DEF IInv, OpenDelete, Numbers, Oldest, SegIds
  <2> QED BY <1>1, <2>1, <2>2, DeletionKeeps DEF OpenDelete, memVars, envVars
<1>2. CASE Evict
  <2>1. PICK s \in SegIds : /\ Oldest(s, Victims) /\ disk' = [disk EXCEPT ![s].st = "gone"]
                            /\ \E f \in {"retired", "evicted", "unread"} :
                                 fate' = Mark(Readable(disk[s]), f)
    BY <1>2 DEF Evict
  <2>2. s # active
    BY <2>1 DEF Oldest, Victims, Sealed
  <2> QED BY <1>2, <2>1, <2>2, DeletionKeeps DEF Evict, loopVars
<1>3. CASE AckDelete
  <2>1. PICK s \in SegIds : /\ Oldest(s, todo) /\ disk' = [disk EXCEPT ![s].st = "gone"]
                            /\ fate' = Mark(Readable(disk[s]), "acked")
    BY <1>3 DEF AckDelete
  <2>2. s # active
    BY <1>3, <2>1 DEF IInv, AckDelete, Control, Oldest
  <2> QED BY <1>3, <2>1, <2>2, DeletionKeeps DEF AckDelete, envVars
<1> QED BY <1>1, <1>2, <1>3

\* While the writer is down or opening, no record is written and unflushed.
LEMMA NoneWritten ==
  ASSUME IInv, Keeps, wpc \in {"down", "opening"}
  PROVE  \A r \in Recs : fate[r] # "written"
<1> SUFFICES ASSUME NEW r \in Recs, fate[r] = "written" PROVE FALSE
  OBVIOUS
<1>1. wpc = "opening" /\ InActive(r) /\ active \in SegIds
  BY DEF Keeps, Placed, IInv, Control
<1>2. PICK i \in DOMAIN disk[active].recs : i <= len[active]
  BY <1>1 DEF InActive, At
<1>3. i \in Int /\ i > 0 /\ len[active] \in Int
  BY <1>1, FileFacts DEF IInv, TypeOK, TypeMem
<1> QED BY <1>1, <1>2, <1>3 DEF IInv, Control

\* The new segment of open is none of the files.
LEMMA LoadKeeps ==
  ASSUME IInv, Keeps, OpenLoad
  PROVE  Keeps'
<1>1. PICK seq \in SegIds : AfterListingAndCursor(seq) /\ active' = seq
  BY DEF OpenLoad
<1>2. \A t \in Listing : t # seq
  BY <1>1, CountsAssumption DEF AfterListingAndCursor, NextSeq, SegIds, LoadCursor, IInv, TypeOK,
     TypeDisk, NoAck, Listing
<1>3. /\ UNCHANGED <<disk, len, fate, pending, nrec>> /\ Listing' = Listing /\ wpc = "down"
      /\ wpc' # "sync"
  BY DEF OpenLoad, diskVars, envVars, Listing
<1>4. FreshNumbers' /\ QueueRight'
  BY <1>3 DEF Keeps, FreshNumbers, QueueRight, With
<1>5. GoodPrefix'
  <2>1. len'[active'] < 0 /\ len'[active'] \in Int
    BY <1>1, <1>3 DEF IInv, Control, TypeOK, TypeMem
  <2> QED BY <2>1 DEF GoodPrefix
<1>6. ASSUME NEW r \in Recs, NEW s \in SegIds, NEW i \in DOMAIN disk[s].recs, At(r, s, i)
      PROVE  Stays(s, i)
  <2>1. \A j \in 1..i : j \in DOMAIN disk[s].recs
    BY FileFacts
  <2> QED BY <1>1, <1>2, <1>3, <1>6, <2>1 DEF At, Stays
<1>7. Placed'
  BY <1>3, <1>6, NoneWritten, PlacedKept DEF Keeps
<1> QED BY <1>4, <1>5, <1>7 DEF Keeps

\* An open that gives up leaves what it found.
LEMMA OpenFailsKeeps ==
  ASSUME IInv, Keeps, OpenFails
  PROVE  Keeps'
<1>1. /\ UNCHANGED <<disk, fate, nrec>> /\ wpc = "opening" /\ wpc' = "down"
      /\ pending' = <<>> /\ pending = <<>>
  BY DEF OpenFails, NoWriter, diskVars, IInv, Control
<1>2. FreshNumbers' /\ QueueRight' /\ GoodPrefix'
  BY <1>1 DEF Keeps, FreshNumbers, QueueRight, With, GoodPrefix
<1>3. ASSUME NEW r \in Recs, NEW s \in SegIds, NEW i \in DOMAIN disk[s].recs, At(r, s, i)
      PROVE  Stays(s, i)
  <2>1. \A j \in 1..i : j \in DOMAIN disk[s].recs
    BY FileFacts
  <2> QED BY <1>1, <1>3, <2>1 DEF At, Stays, Listing
<1>4. Placed'
  BY <1>1, <1>3, NoneWritten, PlacedKept DEF Keeps
<1> QED BY <1>2, <1>4 DEF Keeps

\* recover_newest cuts no record a reader can find.
LEMMA RepairKeepsPlace ==
  ASSUME IInv, NEW r \in Recs, NEW s \in SegIds, NEW i \in DOMAIN disk[s].recs, At(r, s, i)
  PROVE  /\ Repair(s).hdr = "ok"
         /\ \A j \in 1..i : j \in DOMAIN Repair(s).recs /\ Repair(s).recs[j] = disk[s].recs[j]
         /\ i <= disk[s].dur => i <= Repair(s).dur
<1>1. PICK f \in Files : f = disk[s]
  BY FileFacts
<1>2. PICK q \in Seq(Frames) : q = f.recs /\ i \in 1..Len(q) /\ Len(q) \in Nat /\ DOMAIN q = 1..Len(q)
  BY <1>1, FileFacts
<1>3. f.hdr = "ok" /\ i \in 1..ValidCount(q)
  BY <1>1, <1>2, AtReadable DEF At
<1>4. CASE ValidCount(q) < Len(q) /\ todo = {s}
  <2>1. Repair(s) = [f EXCEPT !.recs = Scan(q), !.dur = ValidCount(q)]
    BY <1>1, <1>2, <1>3, <1>4 DEF Repair, Recover
  <2>2. ValidCount(q) \in 0..Len(q)
    BY ValidCountType
  <2>3. /\ Scan(q) \in Seq(Frames) /\ Len(Scan(q)) = ValidCount(q)
        /\ \A j \in 1..Len(Scan(q)) : Scan(q)[j] = q[j]
    BY ScanType
  <2>4. Repair(s).hdr = "ok" /\ Repair(s).recs = Scan(q) /\ Repair(s).dur = ValidCount(q)
    BY <1>3, <2>1 DEF Files
  <2>5. \A j \in 1..i : j \in 1..Len(Scan(q))
    BY <1>3, <2>2, <2>3
  <2>6. \A j \in 1..i : j \in DOMAIN Scan(q) /\ Scan(q)[j] = q[j]
    BY <2>3, <2>5
  <2>7. i <= ValidCount(q)
    BY <1>3, <2>2
  <2> QED BY <1>1, <1>2, <2>4, <2>6, <2>7
<1>5. CASE ~(ValidCount(q) < Len(q) /\ todo = {s})
  <2>1. Repair(s) = f
    BY <1>1, <1>2, <1>3, <1>5 DEF Repair, Recover
  <2>2. \A j \in 1..i : j \in DOMAIN q
    BY <1>2
  <2> QED BY <1>1, <1>2, <1>3, <2>1, <2>2
<1> QED BY <1>4, <1>5

\* open keeps a segment and repairs the newest one.
LEMMA OpenKeepKeeps ==
  ASSUME IInv, Keeps, OpenKeep
  PROVE  Keeps'
<1>1. PICK s \in SegIds : /\ Oldest(s, todo)
                          /\ disk' = [disk EXCEPT ![s] = Repair(s)]
                          /\ len' = [len EXCEPT ![s] = FrameCount(Repair(s))]
  BY DEF OpenKeep
<1>2. disk \in [SegIds -> Files] /\ len \in [SegIds -> Int] /\ active \in SegIds
  BY DEF IInv, OpenKeep, TypeOK, TypeDisk, TypeMem, Control
<1>3. /\ wpc = "opening" /\ wpc' \in {"opening", "idle"} /\ s # active
      /\ UNCHANGED <<active, unsynced, pending, nrec, fate>>
  BY <1>1, <1>2 DEF OpenKeep, IInv, Numbers, Oldest, SegIds
<1>4. len'[active] = len[active] /\ len[active] < 0 /\ len[active] \in Int
  BY <1>1, <1>2, <1>3 DEF IInv, Control
<1>5. FreshNumbers' /\ QueueRight' /\ GoodPrefix'
  BY <1>3, <1>4 DEF Keeps, FreshNumbers, QueueRight, With, GoodPrefix
<1>6. Listing' = Listing
  BY <1>1, <1>2, RepairType DEF Listing
<1>7. ASSUME NEW r \in Recs, NEW t \in SegIds, NEW i \in DOMAIN disk[t].recs, At(r, t, i)
      PROVE  Stays(t, i)
  <2>1. wpc' # "down" /\ t = active' => i <= len'[active']
    BY <1>3, <1>4, <1>7 DEF At
  <2>2. CASE t = s
    BY <1>1, <1>2, <1>6, <1>7, <2>1, <2>2, RepairKeepsPlace DEF Stays, At
  <2>3. CASE t # s
    <3>1. disk'[t] = disk[t] /\ \A j \in 1..i : j \in DOMAIN disk[t].recs
      BY <1>1, <1>2, <2>3, FileFacts
    <3> QED BY <1>6, <1>7, <2>1, <3>1 DEF Stays, At
  <2> QED BY <2>2, <2>3
<1>8. Placed'
  BY <1>3, <1>7, NoneWritten, PlacedKept DEF Keeps
<1> QED BY <1>5, <1>8 DEF Keeps

-----------------------------------------------------------------------------
(* Steps of a flush.                                                       *)

\* The cut of open_active spares what the writer has written whole.
LEMMA OpenActiveKeeps ==
  ASSUME IInv, Keeps, OpenActive
  PROVE  Keeps'
<1> DEFINE recs == disk[active].recs
           new == IF len[active] < 0
                  THEN [st |-> "live", hdr |-> "none", recs |-> <<>>, dur |-> -1]
                  ELSE [disk[active] EXCEPT !.recs = CutAt(recs, len[active])]
<1>1. /\ disk \in [SegIds -> Files] /\ active \in SegIds /\ len[active] \in Int
      /\ disk[active] \in Files /\ recs \in Seq(Frames)
  BY DEF IInv, OpenActive, TypeOK, TypeDisk, TypeMem, Control, Files
<1>2. /\ disk' = [disk EXCEPT ![active] = new] /\ wpc = "active" /\ wpc' # "down"
      /\ UNCHANGED <<active, len, unsynced, pending, nrec, fate>>
      /\ wpc' = IF len[active] < 0 THEN "header" ELSE AfterOpen
      /\ fileOpen' = (len[active] >= 0)
  BY DEF OpenActive, AfterOpen, envVars
<1>3. FreshNumbers' /\ QueueRight'
  BY <1>2 DEF Keeps, FreshNumbers, QueueRight, With
<1>5. CASE len[active] < 0
  <2>1. active \in Listing => recs = <<>>
    BY <1>2, <1>5 DEF IInv, ActiveFile
  <2>2. ASSUME NEW r \in Recs, NEW t \in SegIds, NEW i \in DOMAIN disk[t].recs, At(r, t, i)
        PROVE  Stays(t, i)
    <3>1. t # active
      <4> SUFFICES ASSUME t = active PROVE FALSE
        OBVIOUS
      <4>1. recs = <<>> /\ i \in DOMAIN recs
        BY <2>1, <2>2 DEF At
      <4> QED BY <4>1
    <3>2. disk'[t] = disk[t] /\ \A j \in 1..i : j \in DOMAIN disk[t].recs
      BY <1>1, <1>2, <3>1, FileFacts
    <3> QED BY <1>2, <2>2, <3>1, <3>2 DEF Stays, At, Listing
  <2>3. Placed'
    BY <1>1, <1>2, <2>2, PlacedKept DEF Keeps
  <2>4. GoodPrefix'
    BY <1>1, <1>2, <1>5 DEF GoodPrefix
  <2> QED BY <1>3, <2>3, <2>4 DEF Keeps
<1>6. CASE len[active] >= 0
  <2>1. active \in Listing /\ len[active] \in 0..Len(recs)
    BY <1>1, <1>2, <1>6 DEF IInv, ActiveFile
  <2>2. PICK c \in Seq(Frames) : /\ c = CutAt(recs, len[active]) /\ Len(c) = len[active]
                                 /\ \A j \in 1..len[active] : c[j] = recs[j]
    <3>1. /\ CutAt(recs, len[active]) \in Seq(Frames) /\ Len(CutAt(recs, len[active])) = len[active]
          /\ \A j \in 1..Len(CutAt(recs, len[active])) : CutAt(recs, len[active])[j] = recs[j]
      BY <1>1, <2>1, CutAtType
    <3> QED BY <3>1
  <2>3. disk'[active] = [disk[active] EXCEPT !.recs = c]
    BY <1>1, <1>2, <1>6, <2>2
  <2>4. /\ disk'[active].recs = c /\ disk'[active].hdr = disk[active].hdr
        /\ disk'[active].st = disk[active].st /\ disk'[active].dur = disk[active].dur
    BY <1>1, <2>3 DEF Files
  <2>5. \A t \in SegIds \ {active} : disk'[t] = disk[t]
    BY <1>1, <1>2
  <2>6. Listing' = Listing
    BY <2>4, <2>5 DEF Listing
  <2>7. GoodPrefix'
    BY <1>2, <1>6, <2>2, <2>4 DEF Keeps, GoodPrefix
  <2>8. ASSUME NEW r \in Recs, NEW t \in SegIds, NEW i \in DOMAIN disk[t].recs, At(r, t, i)
        PROVE  Stays(t, i)
    <3>1. CASE t = active
      <4>1. i \in 1..len[active]
        BY <1>1, <1>2, <2>8, <3>1 DEF At
      <4>2. \A j \in 1..i : j \in DOMAIN c /\ c[j] = recs[j]
        BY <1>1, <2>2, <4>1
      <4> QED BY <1>2, <2>4, <2>6, <2>8, <3>1, <4>2 DEF Stays, At
    <3>2. CASE t # active
      <4>1. disk'[t] = disk[t] /\ \A j \in 1..i : j \in DOMAIN disk[t].recs
        BY <2>5, <3>2, FileFacts
      <4> QED BY <1>2, <2>6, <2>8, <3>2, <4>1 DEF Stays, At
    <3> QED BY <3>1, <3>2
  <2>9. Placed'
    BY <1>1, <1>2, <2>8, PlacedKept DEF Keeps
  <2> QED BY <1>3, <2>7, <2>9 DEF Keeps
<1> QED BY <1>1, <1>5, <1>6

\* open_active writes the magic into a file without frames.
LEMMA WriteHeaderKeeps ==
  ASSUME IInv, Keeps, WriteHeader
  PROVE  Keeps'
<1>1. /\ disk \in [SegIds -> Files] /\ active \in SegIds /\ len \in [SegIds -> Int]
      /\ disk[active] \in Files /\ active \in Listing /\ disk[active].recs = <<>>
  BY DEF IInv, WriteHeader, TypeOK, TypeDisk, TypeMem, Control, ActiveFile
<1>2. /\ disk' = [disk EXCEPT ![active] = [disk[active] EXCEPT !.hdr = "ok"]]
      /\ wpc = "header" /\ wpc' # "down" /\ len'[active] = 0
      /\ UNCHANGED <<active, pending, nrec, fate>> /\ unsynced' = TRUE /\ fileOpen' = TRUE
  BY <1>1 DEF WriteHeader, AfterOpen, envVars
<1>3. /\ disk'[active].hdr = "ok" /\ \A t \in SegIds \ {active} : disk'[t] = disk[t]
      /\ Listing' = Listing
  BY <1>1, <1>2 DEF Listing, Files
<1>4. FreshNumbers' /\ QueueRight'
  BY <1>2 DEF Keeps, FreshNumbers, QueueRight, With
<1>5. GoodPrefix'
  BY <1>2, <1>3 DEF GoodPrefix
<1>6. ASSUME NEW r \in Recs, NEW t \in SegIds, NEW i \in DOMAIN disk[t].recs, At(r, t, i)
      PROVE  Stays(t, i) /\ t # active
  <2>1. t # active
    BY <1>1, <1>6
  <2>2. disk'[t] = disk[t] /\ \A j \in 1..i : j \in DOMAIN disk[t].recs
    BY <1>3, <2>1, FileFacts
  <2> QED BY <1>2, <1>3, <1>6, <2>1, <2>2 DEF Stays, At
<1>7. \A r \in Recs : fate[r] # "written"
  BY <1>1, <1>6 DEF Keeps, Placed, InActive
<1>8. Placed'
  BY <1>2, <1>6, <1>7, PlacedKept DEF Keeps
<1> QED BY <1>4, <1>5, <1>8 DEF Keeps

\* The frames a write leaves: those up to the writer's length, then its own.
LEMMA WriteKeepsPlaces ==
  ASSUME IInv, wpc \in {"write", "writing"}, NEW frames \in Seq(Frames),
         disk' = [disk EXCEPT ![active].recs = WriteAt(frames)],
         UNCHANGED active, wpc' # "down", len'[active] >= len[active], len'[active] \in Int
  PROVE  /\ active \in Listing' /\ disk'[active].hdr = disk[active].hdr
         /\ len[active] \in 0..Len(disk[active].recs) /\ active \in SegIds
         /\ DOMAIN disk'[active].recs = 1..(len[active] + Len(frames))
         /\ \A j \in 1..len[active] : disk'[active].recs[j] = disk[active].recs[j]
         /\ \A j \in 1..Len(frames) : disk'[active].recs[len[active] + j] = frames[j]
         /\ \A r \in Recs : \A s \in SegIds : \A i \in DOMAIN disk[s].recs :
              At(r, s, i) => Stays(s, i)
<1> DEFINE recs == disk[active].recs
           n == len[active]
<1>1. /\ disk \in [SegIds -> Files] /\ active \in SegIds /\ disk[active] \in Files
      /\ recs \in Seq(Frames) /\ active \in Listing /\ n \in 0..Len(recs) /\ Len(recs) \in Nat
  BY DEF IInv, TypeOK, TypeDisk, TypeMem, Control, ActiveFile, Files
<1>2. PICK new : new = CutAt(recs, n) \o frames
  OBVIOUS
<1>3. /\ new \in Seq(Frames) /\ DOMAIN new = 1..(n + Len(frames))
      /\ \A i \in 1..n : new[i] = recs[i]
      /\ \A i \in 1..Len(frames) : new[n + i] = frames[i]
  <2> HIDE DEF recs, n
  <2>1. /\ new \in Seq(Frames) /\ Len(new) = n + Len(frames)
        /\ \A i \in 1..n : new[i] = recs[i]
        /\ \A i \in 1..Len(frames) : new[n + i] = frames[i]
    BY <1>1, <1>2, Splice
  <2> QED BY <2>1
<1>4. disk' = [disk EXCEPT ![active] = [disk[active] EXCEPT !.recs = new]]
  BY <1>2 DEF WriteAt
<1>5. /\ disk'[active].recs = new /\ disk'[active].hdr = disk[active].hdr
      /\ disk'[active].st = disk[active].st /\ disk'[active].dur = disk[active].dur
      /\ \A t \in SegIds \ {active} : disk'[t] = disk[t]
  BY <1>1, <1>4 DEF Files
<1>6. Listing' = Listing
  BY <1>5 DEF Listing
<1>7. ASSUME NEW r \in Recs, NEW s \in SegIds, NEW i \in DOMAIN disk[s].recs, At(r, s, i)
      PROVE  Stays(s, i)
  <2>1. CASE s = active
    <3>1. i \in 1..n
      BY <1>1, <1>7, <2>1 DEF At
    <3>2. \A j \in 1..i : j \in DOMAIN new /\ new[j] = recs[j]
      BY <1>1, <1>3, <3>1
    <3> QED BY <1>1, <1>5, <1>6, <1>7, <2>1, <3>1, <3>2 DEF Stays, At
  <2>2. CASE s # active
    <3>1. disk'[s] = disk[s] /\ \A j \in 1..i : j \in DOMAIN disk[s].recs
      BY <1>5, <2>2, FileFacts
    <3> QED BY <1>6, <1>7, <2>2, <3>1 DEF Stays, At
  <2> QED BY <2>1, <2>2
<1> QED BY <1>1, <1>3, <1>5, <1>6, <1>7

\* A write that is not finished puts its frames past the writer's length.
LEMMA WritePartKeeps ==
  ASSUME IInv, Keeps, WritePart
  PROVE  Keeps'
<1>1. pending \in Seq(Recs) /\ pending # <<>> /\ MaxRecs \in Nat
  BY CountsAssumption DEF IInv, WritePart, TypeOK, TypeMem, Control
<1>2. PICK k \in 0..(Batch - 1) :
        disk' = [disk EXCEPT ![active].recs = WriteAt(SubSeq(pending, 1, k) \o <<Torn>>)]
  BY DEF WritePart
<1>3. k \in 0..Len(pending)
  BY <1>1, <1>2, BatchType
<1>4. PICK frames \in Seq(Frames) : frames = SubSeq(pending, 1, k) \o <<Torn>>
  <2>1. SubSeq(pending, 1, k) \in Seq(Recs)
    BY <1>1, <1>3, HeadAndRest
  <2>2. Torn \in Frames /\ \A r \in Recs : r \in Frames
    BY <1>1 DEF Torn, Frames, Recs
  <2>3. SubSeq(pending, 1, k) \in Seq(Frames) /\ <<Torn>> \in Seq(Frames)
    BY <2>1, <2>2
  <2>4. \A a, b \in Seq(Frames) : a \o b \in Seq(Frames)
    OBVIOUS
  <2> QED BY <2>3, <2>4
<1>5. /\ wpc = "write" /\ wpc' = "writing"
      /\ UNCHANGED <<len, active, unsynced, pending, nrec, fate>> /\ len[active] \in Int
  BY DEF WritePart, memVars, envVars, IInv, Control, TypeOK, TypeMem
<1>6. /\ active \in Listing' /\ disk'[active].hdr = disk[active].hdr
      /\ len[active] \in 0..Len(disk[active].recs) /\ active \in SegIds
      /\ \A j \in 1..len[active] : disk'[active].recs[j] = disk[active].recs[j]
      /\ \A r \in Recs : \A s \in SegIds : \A i \in DOMAIN disk[s].recs :
           At(r, s, i) => Stays(s, i)
  <2>1. /\ active' = active /\ wpc' # "down" /\ wpc \in {"write", "writing"}
        /\ len'[active] >= len[active] /\ len'[active] \in Int
    BY <1>5
  <2> QED BY <1>2, <1>4, <2>1, WriteKeepsPlaces
<1>7. FreshNumbers' /\ QueueRight'
  BY <1>5 DEF Keeps, FreshNumbers, QueueRight, With
<1>8. GoodPrefix'
  BY <1>5, <1>6 DEF Keeps, GoodPrefix
<1>9. Placed'
  BY <1>5, <1>6, PlacedKept DEF Keeps
<1> QED BY <1>7, <1>8, <1>9 DEF Keeps

\* write_all returns: the batch leaves the queue and has its places.
LEMMA WriteBatchKeeps ==
  ASSUME IInv, Keeps, WriteBatch
  PROVE  Keeps'
<1>1. pending \in Seq(Recs) /\ pending # <<>> /\ MaxRecs \in Nat /\ nrec \in Nat
  BY CountsAssumption DEF IInv, WriteBatch, TypeOK, TypeMem, TypeHistory, Control
<1>2. PICK b \in 1..Len(pending) : b = Batch
  BY <1>1, BatchType DEF WriteBatch
<1>0. b \in 0..Len(pending) /\ Len(pending) \in Nat /\ b \in Nat /\ DOMAIN pending = 1..Len(pending)
  BY <1>1
<1>3. PICK frames \in Seq(Recs) :
        /\ frames = SubSeq(pending, 1, b) /\ Len(frames) = b
        /\ \A i \in 1..b : frames[i] = pending[i] /\ i \in DOMAIN pending
  BY <1>0, <1>1, HeadAndRest
<1>4. PICK rest \in Seq(Recs) :
        /\ rest = SubSeq(pending, b + 1, Len(pending)) /\ Len(rest) = Len(pending) - b
        /\ \A j \in 1..(Len(pending) - b) : rest[j] = pending[b + j] /\ b + j \in DOMAIN pending
  BY <1>0, <1>1, HeadAndRest
<1>5. /\ disk' = [disk EXCEPT ![active].recs = WriteAt(frames)] /\ pending' = rest
      /\ len' = [len EXCEPT ![active] = len[active] + b]
      /\ fate' = Mark(Range(frames), "written") /\ unsynced' = TRUE
      /\ wpc \in {"write", "writing"} /\ UNCHANGED <<active, nrec, fileOpen>>
      /\ wpc' \in {"sync", "write"}
  BY <1>2, <1>3, <1>4 DEF WriteBatch, envVars
<1>6. frames \in Seq(Frames)
  <2>1. \A r \in Recs : r \in Frames
    BY <1>1 DEF Frames, Recs
  <2> QED BY <1>3, <2>1
<1>7. len[active] \in Int /\ len'[active] = len[active] + b /\ active \in SegIds
  BY <1>5 DEF IInv, TypeOK, TypeMem, Control
<1>8. /\ active \in Listing' /\ disk'[active].hdr = disk[active].hdr
      /\ len[active] \in 0..Len(disk[active].recs) /\ active \in SegIds
      /\ DOMAIN disk'[active].recs = 1..(len[active] + Len(frames))
      /\ \A j \in 1..len[active] : disk'[active].recs[j] = disk[active].recs[j]
      /\ \A j \in 1..Len(frames) : disk'[active].recs[len[active] + j] = frames[j]
      /\ \A r \in Recs : \A s \in SegIds : \A i \in DOMAIN disk[s].recs :
           At(r, s, i) => Stays(s, i)
  <2>1. len'[active] >= len[active] /\ len'[active] \in Int /\ wpc' # "down" /\ active' = active
    BY <1>0, <1>5, <1>7
  <2> QED BY <1>5, <1>6, <2>1, WriteKeepsPlaces
<1>9. disk[active].hdr = "ok" /\ \A j \in 1..len[active] : disk[active].recs[j] > 0
  BY <1>5, <1>8 DEF Keeps, GoodPrefix
<1>10. \A j \in 1..b : frames[j] \in Recs /\ frames[j] > 0
  BY <1>3, <1>1 DEF Recs
<1>11. \A j \in 1..(len[active] + b) : disk'[active].recs[j] > 0
  <2> SUFFICES ASSUME NEW j \in 1..(len[active] + b) PROVE disk'[active].recs[j] > 0
    OBVIOUS
  <2>1. CASE j <= len[active]
    <3>1. j \in 1..len[active]
      BY <1>7, <2>1
    <3>2. disk'[active].recs[j] = disk[active].recs[j] /\ disk[active].recs[j] > 0
      BY <1>8, <1>9, <3>1
    <3> QED BY <3>2
  <2>2. CASE j > len[active]
    <3>1. PICK k \in 1..b : j = len[active] + k
      <4>1. j - len[active] \in 1..b /\ j = len[active] + (j - len[active])
        BY <1>0, <1>7, <2>2
      <4> QED BY <4>1
    <3> QED BY <1>3, <1>8, <1>10, <3>1
  <2> QED BY <1>7, <2>1, <2>2
<1>12. GoodPrefix'
  BY <1>5, <1>7, <1>8, <1>9, <1>11 DEF GoodPrefix
<1>13. \A r \in Recs : fate'[r] = IF r \in Range(frames) THEN "written" ELSE fate[r]
  BY <1>5 DEF Mark
<1>14. Range(frames) = {pending[j] : j \in 1..b} /\ Range(pending) = {pending[j] : j \in 1..Len(pending)}
  <2>1. DOMAIN frames = 1..b
    BY <1>3
  <2> QED BY <1>0, <1>3, <2>1 DEF Range
<1>15. FreshNumbers'
  <2>1. ASSUME NEW r \in Range(frames) PROVE ~(r > nrec)
    <3>1. PICK j \in 1..b : r = frames[j]
      BY <1>3 DEF Range
    <3>2. j \in DOMAIN pending /\ r = pending[j]
      BY <1>3, <3>1
    <3>3. r <= nrec /\ r \in Recs
      BY <1>1, <3>2 DEF IInv, Ages
    <3> QED BY <1>1, <3>3 DEF Recs
  <2> QED BY <1>5, <1>13, <2>1 DEF Keeps, FreshNumbers
<1>16. QueueRight'
  <2>1. Range(rest) = {pending[j] : j \in (b + 1)..Len(pending)}
    <3>1. PICK m \in Nat : m = Len(pending)
      BY <1>0
    <3>2. DOMAIN rest = 1..(m - b)
      <4>1. DOMAIN rest = 1..Len(rest)
        OBVIOUS
      <4> QED BY <1>4, <3>1, <4>1
    <3>3. ASSUME NEW j \in 1..(m - b)
          PROVE  b + j \in (b + 1)..m /\ rest[j] = pending[b + j]
      <4>1. b + j \in (b + 1)..m
        BY <1>0, <3>1
      <4> QED BY <1>4, <3>1, <4>1
    <3>4. ASSUME NEW j \in (b + 1)..m
          PROVE  j - b \in 1..(m - b) /\ rest[j - b] = pending[j]
      <4>1. j - b \in 1..(m - b) /\ b + (j - b) = j
        BY <1>0, <3>1
      <4>2. rest[j - b] = pending[b + (j - b)]
        BY <3>3, <4>1
      <4> QED BY <4>1, <4>2
    <3>5. {rest[j] : j \in 1..(m - b)} = {pending[j] : j \in (b + 1)..m}
      <4>1. ASSUME NEW x \in {rest[j] : j \in 1..(m - b)}
            PROVE  x \in {pending[j] : j \in (b + 1)..m}
        <5>1. PICK j \in 1..(m - b) : x = rest[j]
          BY <4>1
        <5>2. b + j \in (b + 1)..m /\ x = pending[b + j]
          BY <3>3, <5>1
        <5> QED BY <5>2
      <4>2. ASSUME NEW x \in {pending[j] : j \in (b + 1)..m}
            PROVE  x \in {rest[j] : j \in 1..(m - b)}
        <5>1. PICK j \in (b + 1)..m : x = pending[j]
          BY <4>2
        <5>2. j - b \in 1..(m - b) /\ x = rest[j - b]
          BY <3>4, <5>1
        <5> QED BY <5>2
      <4> QED BY <4>1, <4>2
    <3> QED BY <3>1, <3>2, <3>5 DEF Range
  <2>2. \A i \in 1..b, j \in (b + 1)..Len(pending) : pending[i] # pending[j]
    <3> SUFFICES ASSUME NEW i \in 1..b, NEW j \in (b + 1)..Len(pending)
                 PROVE  pending[i] # pending[j]
      OBVIOUS
    <3>1. i \in DOMAIN pending /\ j \in DOMAIN pending /\ i < j
      BY <1>0
    <3>2. pending[i] < pending[j] /\ pending[i] \in Int /\ pending[j] \in Int
      BY <1>1, <3>1 DEF IInv, Ages, Recs
    <3> QED BY <3>2
  <2>3. Range(pending) = Range(frames) \cup Range(rest) /\ Range(frames) \cap Range(rest) = {}
    <3>1. \A j \in 1..Len(pending) : j \in 1..b \/ j \in (b + 1)..Len(pending)
      BY <1>0
    <3>2. (1..b) \subseteq 1..Len(pending) /\ ((b + 1)..Len(pending)) \subseteq 1..Len(pending)
      BY <1>0
    <3> QED BY <1>14, <2>1, <2>2, <3>1, <3>2
  <2>4. With({"queued"})' = With({"queued"}) \ Range(frames)
    BY <1>13 DEF With
  <2> QED BY <1>5, <2>3, <2>4 DEF Keeps, QueueRight
<1>18. ASSUME NEW r \in Recs, NEW s \in SegIds, NEW i \in DOMAIN disk[s].recs, At(r, s, i)
       PROVE  /\ i \in DOMAIN disk'[s].recs /\ At(r, s, i)'
              /\ i <= disk[s].dur => i <= disk'[s].dur
  <2>1. Stays(s, i) /\ i \in 1..i
    BY <1>8, <1>18, FileFacts
  <2> QED BY <1>18, <2>1 DEF Stays, At
<1>19. ASSUME NEW r \in Recs, fate'[r] = "written"
       PROVE  InActive(r)'
  <2>1. CASE r \in Range(frames)
    <3>1. PICK k \in 1..b : r = frames[k]
      BY <1>3, <2>1 DEF Range
    <3>2. /\ len[active] + k \in DOMAIN disk'[active].recs /\ disk'[active].recs[len[active] + k] = r
          /\ \A j \in 1..(len[active] + k) : j \in 1..(len[active] + b)
          /\ len[active] + k <= len'[active]
      BY <1>0, <1>3, <1>7, <1>8, <3>1
    <3>3. \A j \in 1..(len[active] + k) : disk'[active].recs[j] > 0
      BY <1>11, <3>2
    <3> QED BY <1>5, <1>8, <1>9, <3>2, <3>3 DEF InActive, At
  <2>2. CASE r \notin Range(frames)
    <3>1. fate[r] = "written"
      BY <1>13, <1>19, <2>2
    <3>2. PICK i \in DOMAIN disk[active].recs : At(r, active, i)
      BY <3>1 DEF Keeps, Placed, InActive
    <3> QED BY <1>5, <1>7, <1>18, <3>2 DEF InActive
  <2> QED BY <2>1, <2>2
<1>20. Placed'
  <2> SUFFICES ASSUME NEW r \in Recs
               PROVE  /\ fate'[r] = "written" => wpc' # "down" /\ unsynced' /\ InActive(r)'
                      /\ fate'[r] = "orphan" => Somewhere(r)'
                      /\ fate'[r] = "durable" => Safe(r)'
    BY DEF Placed
  <2>1. fate'[r] = "orphan" => Somewhere(r)'
    <3>1. fate'[r] = "orphan" => Somewhere(r)
      BY <1>13 DEF Keeps, Placed
    <3> QED BY <1>18, <3>1 DEF Somewhere
  <2>2. fate'[r] = "durable" => Safe(r)'
    <3>1. fate'[r] = "durable" => Safe(r)
      BY <1>13 DEF Keeps, Placed
    <3> QED BY <1>18, <3>1 DEF Safe
  <2> QED BY <1>5, <1>19, <2>1, <2>2
<1> QED BY <1>12, <1>15, <1>16, <1>20 DEF Keeps

-----------------------------------------------------------------------------
(* Flushes, ends of the process, and the machine.                          *)

\* A flush makes the written records safe, and nothing else.
LEMMA FlushFacts ==
  ASSUME IInv, Keeps, wpc \in {"sync", "seal"},
         disk' = SyncFile(active) \/ (disk' = disk /\ ~unsynced)
  PROVE  /\ \A s \in SegIds : /\ disk'[s].recs = disk[s].recs /\ disk'[s].hdr = disk[s].hdr
                               /\ disk'[s].st = disk[s].st
         /\ \A r \in Recs :
              /\ Flushed[r] # "written" /\ (Flushed[r] = "queued" <=> fate[r] = "queued")
              /\ fate[r] = "new" => Flushed[r] = "new"
              /\ Flushed[r] = "orphan" => Somewhere(r)
              /\ Flushed[r] = "durable" =>
                   \E s \in SegIds : \E i \in DOMAIN disk[s].recs : At(r, s, i) /\ i <= disk'[s].dur
<1>1. disk \in [SegIds -> Files] /\ active \in SegIds /\ disk[active] \in Files
  BY DEF IInv, TypeOK, TypeDisk, Control
<1>2. /\ \A s \in SegIds : /\ disk'[s].recs = disk[s].recs /\ disk'[s].hdr = disk[s].hdr
                            /\ disk'[s].st = disk[s].st
      /\ \A s \in SegIds \ {active} : disk'[s] = disk[s]
      /\ disk'[active].dur = Len(disk[active].recs) \/ (disk' = disk /\ ~unsynced)
  <2>1. CASE disk' = SyncFile(active)
    <3>1. disk' = [disk EXCEPT ![active] = [disk[active] EXCEPT !.dur = Len(disk[active].recs)]]
      BY <2>1 DEF SyncFile
    <3> QED BY <1>1, <3>1 DEF Files
  <2>2. CASE disk' = disk /\ ~unsynced
    BY <2>2
  <2> QED BY <2>1, <2>2
<1>3. \A r \in Recs : Flushed[r] = IF fate[r] = "written" THEN "durable" ELSE fate[r]
  BY DEF Flushed, Mark, With
<1>4. ASSUME NEW r \in Recs, Flushed[r] = "durable"
      PROVE  \E s \in SegIds : \E i \in DOMAIN disk[s].recs : At(r, s, i) /\ i <= disk'[s].dur
  <2>1. CASE fate[r] = "written"
    <3>1. PICK i \in DOMAIN disk[active].recs : At(r, active, i)
      BY <2>1 DEF Keeps, Placed, InActive
    <3>2. i <= Len(disk[active].recs)
      BY <1>1, <3>1, FileFacts
    <3>3. disk'[active].dur = Len(disk[active].recs)
      BY <1>2, <2>1 DEF Keeps, Placed
    <3> QED BY <1>1, <3>1, <3>2, <3>3
  <2>2. CASE fate[r] # "written"
    <3>1. PICK s \in SegIds : \E i \in DOMAIN disk[s].recs : At(r, s, i) /\ i <= disk[s].dur
      BY <1>3, <1>4, <2>2 DEF Keeps, Placed, Safe
    <3>2. \A i \in DOMAIN disk[s].recs : i <= Len(disk[s].recs)
      BY FileFacts
    <3> QED BY <1>2, <3>1, <3>2
  <2> QED BY <2>1, <2>2
<1> QED BY <1>2, <1>3, <1>4 DEF Keeps, Placed

\* rotate flushes before the next segment becomes the active one.
LEMMA SealKeeps ==
  ASSUME IInv, Keeps, Seal
  PROVE  Keeps'
<1>1. /\ wpc = "seal" /\ disk' = SyncFile(active) /\ fate' = Flushed /\ wpc' = "active"
      /\ active' = NextSeq(active) /\ len' = [len EXCEPT ![NextSeq(active)] = -1]
      /\ UNCHANGED <<pending, nrec>>
  BY DEF Seal, envVars
<1>2. active \in SegIds /\ active' \in SegIds /\ active' = active + 1 /\ len'[active'] = -1
  BY <1>1, CountsAssumption DEF IInv, Seal, NextSeq, SegIds, TypeOK, TypeMem, Control
<1>3. /\ \A s \in SegIds : /\ disk'[s].recs = disk[s].recs /\ disk'[s].hdr = disk[s].hdr
                            /\ disk'[s].st = disk[s].st
      /\ \A r \in Recs :
           /\ Flushed[r] # "written" /\ (Flushed[r] = "queued" <=> fate[r] = "queued")
           /\ fate[r] = "new" => Flushed[r] = "new"
           /\ Flushed[r] = "orphan" => Somewhere(r)
           /\ Flushed[r] = "durable" =>
                \E s \in SegIds : \E i \in DOMAIN disk[s].recs : At(r, s, i) /\ i <= disk'[s].dur
  BY <1>1, FlushFacts
<1>4. \A s \in Listing : s # active'
  BY <1>1, <1>2 DEF IInv, Numbers, SegIds, Listing
<1>5. \A r, s, i : At(r, s, i) => At(r, s, i)'
  BY <1>3, <1>4 DEF At, Listing
<1>6. FreshNumbers' /\ QueueRight'
  BY <1>1, <1>3 DEF Keeps, FreshNumbers, QueueRight, With
<1>7. GoodPrefix'
  BY <1>2 DEF GoodPrefix
<1>8. Placed'
  <2> SUFFICES ASSUME NEW r \in Recs
               PROVE  /\ fate'[r] # "written"
                      /\ fate'[r] = "orphan" => Somewhere(r)'
                      /\ fate'[r] = "durable" => Safe(r)'
    BY DEF Placed
  <2>1. fate'[r] # "written"
    BY <1>1, <1>3
  <2>2. fate'[r] = "orphan" => Somewhere(r)'
    BY <1>1, <1>3, <1>5 DEF Somewhere
  <2>3. fate'[r] = "durable" => Safe(r)'
    BY <1>1, <1>3, <1>5 DEF Safe
  <2> QED BY <2>1, <2>2, <2>3
<1> QED BY <1>6, <1>7, <1>8 DEF Keeps

\* The end of a process, with the files as they are.
LEMMA ExitKeeps ==
  ASSUME IInv, NoWriter, nrec' = nrec, NEW was, fate' = AfterExit(was),
         \A s \in SegIds : /\ disk'[s].recs = disk[s].recs /\ disk'[s].hdr = disk[s].hdr
                           /\ disk'[s].st = disk[s].st,
         \A r \in Recs :
           /\ r > nrec => was[r] = "new"
           /\ was[r] = "orphan" => Somewhere(r)
           /\ was[r] = "durable" =>
                \E s \in SegIds : \E i \in DOMAIN disk[s].recs : At(r, s, i) /\ i <= disk'[s].dur
  PROVE  Keeps'
<1>1. wpc' = "down" /\ pending' = <<>>
  BY DEF NoWriter
<1>2. \A r \in Recs : fate'[r] = CASE was[r] \in {"queued", "written"} -> IF r \in OnDisk(disk) THEN "orphan" ELSE "lost"
       [] was[r] \in {"evicted", "dropped"} -> "unreported"
       [] OTHER -> was[r]
  BY DEF AfterExit
<1>3. \A r \in Recs :
        /\ fate'[r] \notin {"queued", "written"} /\ (was[r] = "new" => fate'[r] = "new")
        /\ fate'[r] = "durable" => was[r] = "durable"
        /\ fate'[r] = "orphan" => was[r] = "orphan" \/ r \in OnDisk(disk)
  BY <1>2
<1>4. FreshNumbers' /\ GoodPrefix'
  BY <1>1, <1>3 DEF FreshNumbers, GoodPrefix
<1>5. QueueRight'
  BY <1>1, <1>3 DEF QueueRight, With, Range
<1>6. \A r, s, i : At(r, s, i) => At(r, s, i)'
  BY <1>1 DEF At, Listing
<1>7. Placed'
  <2> SUFFICES ASSUME NEW r \in Recs
               PROVE  /\ fate'[r] = "orphan" => Somewhere(r)'
                      /\ fate'[r] = "durable" => Safe(r)'
    BY <1>3 DEF Placed
  <2>1. ASSUME fate'[r] = "orphan" PROVE Somewhere(r)'
    <3>1. CASE was[r] = "orphan"
      BY <1>6, <3>1 DEF Somewhere
    <3>2. CASE r \in OnDisk(disk)
      <4>1. PICK s \in SegIds : r \in Readable(disk[s])
        BY <3>2 DEF OnDisk
      <4>2. /\ s \in Listing /\ disk[s].hdr = "ok"
            /\ \E i \in DOMAIN disk[s].recs :
                 disk[s].recs[i] = r /\ \A j \in 1..i : disk[s].recs[j] > 0
        BY <4>1, ReadableFacts
      <4> QED BY <1>1, <4>2 DEF Somewhere, At, Listing
    <3> QED BY <1>3, <2>1, <3>1, <3>2
  <2>2. ASSUME fate'[r] = "durable" PROVE Safe(r)'
    BY <1>3, <1>6, <2>2 DEF Safe
  <2> QED BY <2>1, <2>2
<1> QED BY <1>4, <1>5, <1>7 DEF Keeps

\* Crashes and stops, with or without a last flush.
LEMMA CrashKeeps ==
  ASSUME IInv, Keeps, Crash \/ (Close /\ ~NeedIO) \/ (IoFails /\ closing)
  PROVE  Keeps'
<1>1. NoWriter /\ nrec' = nrec /\ disk' = disk /\ fate' = AfterExit(fate)
  BY DEF Crash, Close, IoFails, FlushFailed, diskVars
<1>2. \A r \in Recs : r > nrec => fate[r] = "new"
  BY DEF Keeps, FreshNumbers
<1> QED BY <1>1, <1>2, ExitKeeps DEF Keeps, Placed, Safe

\* The last step of a flush, in a process that goes on or ends.
LEMMA FinishKeeps ==
  ASSUME IInv, Keeps, Finish \/ SealExhausted
  PROVE  Keeps'
<1>1. /\ wpc \in {"sync", "seal"} /\ nrec' = nrec
      /\ disk' = SyncFile(active) \/ (disk' = disk /\ ~unsynced)
  BY DEF Finish, SealExhausted, envVars
<1>2. /\ \A s \in SegIds : /\ disk'[s].recs = disk[s].recs /\ disk'[s].hdr = disk[s].hdr
                            /\ disk'[s].st = disk[s].st
      /\ \A r \in Recs :
           /\ Flushed[r] # "written" /\ (Flushed[r] = "queued" <=> fate[r] = "queued")
           /\ fate[r] = "new" => Flushed[r] = "new"
           /\ Flushed[r] = "orphan" => Somewhere(r)
           /\ Flushed[r] = "durable" =>
                \E s \in SegIds : \E i \in DOMAIN disk[s].recs : At(r, s, i) /\ i <= disk'[s].dur
  BY <1>1, FlushFacts
<1>3. \A r \in Recs : r > nrec => Flushed[r] = "new"
  BY <1>2 DEF Keeps, FreshNumbers
<1>4. CASE closing
  <2>1. NoWriter /\ fate' = AfterExit(Flushed)
    BY <1>4 DEF Finish, SealExhausted
  <2> QED BY <1>1, <1>2, <1>3, <2>1, ExitKeeps
<1>5. CASE ~closing
  <2>1. wpc' = "idle" /\ fate' = Flushed /\ UNCHANGED <<len, active, pending>>
    BY <1>5 DEF Finish, SealExhausted
  <2>2. FreshNumbers' /\ QueueRight'
    BY <1>1, <1>2, <1>3, <2>1 DEF Keeps, FreshNumbers, QueueRight, With
  <2>3. active \in SegIds
    BY <1>1 DEF IInv, Control
  <2>4. GoodPrefix'
    BY <1>1, <1>2, <2>1, <2>3 DEF Keeps, GoodPrefix
  <2>5. \A r, s, i : At(r, s, i) => At(r, s, i)'
    BY <1>1, <1>2, <2>1 DEF At, Listing
  <2>6. Placed'
    <3> SUFFICES ASSUME NEW r \in Recs
                 PROVE  /\ fate'[r] # "written"
                        /\ fate'[r] = "orphan" => Somewhere(r)'
                        /\ fate'[r] = "durable" => Safe(r)'
      BY DEF Placed
    <3>1. fate'[r] # "written"
      BY <1>2, <2>1
    <3>2. fate'[r] = "orphan" => Somewhere(r)'
      BY <1>2, <2>1, <2>5 DEF Somewhere
    <3>3. fate'[r] = "durable" => Safe(r)'
      BY <1>2, <2>1, <2>5 DEF Safe
    <3> QED BY <3>1, <3>2, <3>3
  <2> QED BY <2>2, <2>4, <2>6 DEF Keeps
<1> QED BY <1>4, <1>5

\* What a reader finds in a file, by the frames up to it.
LEMMA ReadableOf ==
  ASSUME NEW f \in Files, NEW r
  PROVE  r \in Readable(f) <=>
           /\ f.st = "live" /\ f.hdr = "ok"
           /\ \E i \in DOMAIN f.recs : f.recs[i] = r /\ \A j \in 1..i : f.recs[j] > 0
<1>1. PICK q \in Seq(Frames) : q = f.recs /\ Len(q) \in Nat /\ DOMAIN q = 1..Len(q)
  BY DEF Files
<1>2. ValidCount(q) \in 0..Len(q) /\ \A j \in 1..ValidCount(q) : q[j] > 0
  BY ValidCountType
<1>3. ASSUME NEW i \in 1..ValidCount(q)
      PROVE  i \in DOMAIN q /\ \A j \in 1..i : q[j] > 0
  BY <1>1, <1>2
<1>4. ASSUME NEW i \in DOMAIN q, \A j \in 1..i : q[j] > 0
      PROVE  i \in 1..ValidCount(q)
  <2>1. i \in 0..Len(q)
    BY <1>1
  <2>2. i <= ValidCount(q)
    BY <1>4, <2>1, ValidCountMax
  <2> QED BY <1>1, <1>2, <2>2
<1> QED BY <1>1, <1>3, <1>4 DEF Readable

\* A power cut spares the durable frames, and what it leaves is durable.
LEMMA CutFileKeeps ==
  ASSUME NEW f \in Files, NEW k \in Int, NEW torn, MayCut(f, k, torn), k >= -2
  PROVE  /\ \A i \in DOMAIN CutFile(f, k, torn).recs : i <= CutFile(f, k, torn).dur
         /\ \A i \in DOMAIN f.recs : i <= f.dur =>
              /\ CutFile(f, k, torn).st = f.st /\ CutFile(f, k, torn).hdr = f.hdr
              /\ \A j \in 1..i : /\ j \in DOMAIN CutFile(f, k, torn).recs
                                 /\ CutFile(f, k, torn).recs[j] = f.recs[j]
<1> DEFINE c == CutFile(f, k, torn)
<1>1. PICK q \in Seq(Frames) : q = f.recs /\ Len(q) \in Nat /\ DOMAIN q = 1..Len(q)
  BY DEF Files
<1>2. k <= Len(q) /\ Torn \in Frames /\ f.dur \in Int
  BY <1>1, CountsAssumption DEF MayCut, Torn, Frames, Files
<1>3. CASE k < 0
  <2>1. \A i \in DOMAIN f.recs : ~(i <= f.dur)
    <3> SUFFICES ASSUME NEW i \in DOMAIN f.recs, i <= f.dur PROVE FALSE
      OBVIOUS
    <3>1. i \in Int /\ i >= 1
      BY <1>1
    <3>2. f.dur >= 0
      BY <1>2, <3>1
    <3> QED BY <1>2, <1>3, <3>2 DEF MayCut
  <2>2. c.recs = <<>>
    <3>1. CASE k = -2
      BY <3>1 DEF CutFile, Absent
    <3>2. CASE k = -1
      <4>1. c = [f EXCEPT !.hdr = "none", !.recs = <<>>]
        BY <3>2 DEF CutFile
      <4> QED BY <4>1, FileEmpty
    <3> QED BY <1>3, <3>1, <3>2
  <2>3. DOMAIN c.recs = {}
    BY <2>2
  <2> QED BY <2>1, <2>3
<1>4. CASE k \in 0..Len(q)
  <2>1. PICK head \in Seq(Frames) :
          head = SubSeq(q, 1, k) /\ Len(head) = k /\ \A i \in 1..k : head[i] = q[i]
    <3>1. SubSeq(q, 1, k) \in Seq(Frames) /\ Len(SubSeq(q, 1, k)) = k
      BY <1>4
    <3>2. \A i \in 1..k : SubSeq(q, 1, k)[i] = q[i]
      BY <1>4
    <3> QED BY <3>1, <3>2
  <2>2. PICK tail \in Seq(Frames) : tail = (IF torn THEN <<Torn>> ELSE <<>>)
    <3>1. <<>> \in Seq(Frames) /\ <<Torn>> \in Seq(Frames)
      BY <1>2
    <3> QED BY <3>1
  <2>3. PICK kept \in Seq(Frames) :
          /\ kept = head \o tail /\ Len(kept) = k + Len(tail) /\ Len(tail) \in Nat
          /\ \A i \in 1..k : kept[i] = head[i]
    <3>1. head \o tail \in Seq(Frames) /\ Len(head \o tail) = k + Len(tail) /\ Len(tail) \in Nat
      BY <2>1
    <3>2. ASSUME NEW i \in 1..k PROVE (head \o tail)[i] = head[i]
      <4>1. i \in 1..(Len(head) + Len(tail)) /\ i <= Len(head)
        BY <1>4, <2>1, <3>1
      <4> QED BY <4>1
    <3> QED BY <3>1, <3>2
  <2>4. c = [f EXCEPT !.recs = kept, !.dur = Len(kept)]
    BY <1>1, <1>4, <2>1, <2>2, <2>3 DEF CutFile
  <2>5. c.recs = kept /\ c.dur = Len(kept) /\ c.st = f.st /\ c.hdr = f.hdr
    BY <2>4 DEF Files
  <2>6. DOMAIN kept = 1..Len(kept)
    BY <2>3
  <2>7. \A i \in DOMAIN kept : i <= Len(kept)
    BY <2>3, <2>6
  <2>8. ASSUME NEW i \in DOMAIN q, i <= f.dur, NEW j \in 1..i
        PROVE  j \in DOMAIN kept /\ kept[j] = q[j]
    <3>1. f.dur >= 0 /\ i \in Int
      BY <1>1, <1>2, <2>8
    <3>2. k >= f.dur
      BY <3>1 DEF MayCut
    <3>3. j \in 1..k /\ j \in 1..Len(kept)
      BY <1>2, <2>3, <2>8, <3>1, <3>2
    <3> QED BY <2>1, <2>3, <2>6, <3>3
  <2> QED BY <1>1, <2>5, <2>7, <2>8
<1> QED BY <1>2, <1>3, <1>4

\* What is left of a file is durable, and durable frames are left.
LeftIsSafe(s) ==
  disk'[s].st = "live" => \A i \in DOMAIN disk'[s].recs : i <= disk'[s].dur
SafeIsLeft(s) ==
  \A i \in DOMAIN disk[s].recs : i <= disk[s].dur =>
    /\ disk'[s].st = disk[s].st /\ disk'[s].hdr = disk[s].hdr
    /\ \A j \in 1..i : j \in DOMAIN disk'[s].recs /\ disk'[s].recs[j] = disk[s].recs[j]

\* What a power cut does to the files, seen from the frames.
LEMMA PowerCutFacts ==
  ASSUME IInv, PowerCut, NEW s \in SegIds
  PROVE  disk'[s] \in Files /\ LeftIsSafe(s) /\ SafeIsLeft(s)
<1>1. disk \in [SegIds -> Files] /\ Unflushed \subseteq SegIds
  BY DEF IInv, TypeOK, TypeDisk, Unflushed, Listing
<1>2. PICK keep \in [Unflushed -> (-2)..MaxRecs], torn \in [Unflushed -> BOOLEAN] :
        /\ \A u \in Unflushed : MayCut(disk[u], keep[u], torn[u])
        /\ disk' = [u \in SegIds |-> IF u \in Unflushed THEN CutFile(disk[u], keep[u], torn[u])
                                     ELSE disk[u]]
  BY DEF PowerCut
<1>3. CASE s \in Unflushed
  <2>1. PICK f \in Files, k \in Int : f = disk[s] /\ k = keep[s] /\ k >= -2
    <3>1. disk[s] \in Files /\ keep[s] \in (-2)..MaxRecs
      BY <1>1, <1>2, <1>3
    <3> QED BY <3>1, CountsAssumption
  <2>2. disk'[s] = CutFile(f, k, torn[s]) /\ MayCut(f, k, torn[s])
    BY <1>1, <1>2, <1>3, <2>1
  <2> QED BY <2>1, <2>2, CutFileFacts, CutFileKeeps DEF LeftIsSafe, SafeIsLeft
<1>4. CASE s \notin Unflushed
  <2>1. disk'[s] = disk[s]
    BY <1>2, <1>4
  <2>2. disk[s].st = "live" => ~(disk[s].dur < Len(disk[s].recs))
    BY <1>4 DEF Unflushed, Listing
  <2>3. LeftIsSafe(s)
    BY <2>1, <2>2, FileFacts DEF LeftIsSafe
  <2>4. \A i \in DOMAIN disk[s].recs : \A j \in 1..i : j \in DOMAIN disk[s].recs
    BY FileFacts
  <2>5. SafeIsLeft(s)
    BY <2>1, <2>4 DEF SafeIsLeft
  <2> QED BY <1>1, <2>1, <2>3, <2>5
<1> QED BY <1>3, <1>4

\* A durable record survives the power cut.
LEMMA PowerCutSpares ==
  ASSUME IInv, Keeps, PowerCut, NEW r \in Recs, fate[r] = "durable"
  PROVE  r \in OnDisk(disk')
<1>1. PICK s \in SegIds : \E i \in DOMAIN disk[s].recs : At(r, s, i) /\ i <= disk[s].dur
  BY DEF Keeps, Placed, Safe
<1>2. PICK i \in DOMAIN disk[s].recs : At(r, s, i) /\ i <= disk[s].dur
  BY <1>1
<1>3. /\ disk'[s] \in Files /\ disk'[s].st = disk[s].st /\ disk'[s].hdr = disk[s].hdr
      /\ \A j \in 1..i : j \in DOMAIN disk'[s].recs /\ disk'[s].recs[j] = disk[s].recs[j]
  BY <1>2, PowerCutFacts DEF SafeIsLeft
<1>4. i \in 1..i
  BY <1>2, FileFacts
<1>5. /\ disk'[s].st = "live" /\ disk'[s].hdr = "ok" /\ i \in DOMAIN disk'[s].recs
      /\ disk'[s].recs[i] = r /\ \A j \in 1..i : disk'[s].recs[j] > 0
  BY <1>2, <1>3, <1>4 DEF At, Listing
<1>6. r \in Readable(disk'[s])
  BY <1>3, <1>5, ReadableOf
<1> QED BY <1>6 DEF OnDisk

\* A power cut keeps the invariant: what is left is durable.
LEMMA PowerCutKeeps ==
  ASSUME IInv, Keeps, PowerCut
  PROVE  Keeps'
<1>1. wpc' = "down" /\ pending' = <<>> /\ nrec' = nrec
  BY DEF PowerCut, NoWriter
<1>2. \A r \in Recs :
        /\ fate'[r] \notin {"queued", "written", "orphan"} /\ (fate[r] = "new" => fate'[r] = "new")
        /\ fate'[r] = "durable" => r \in OnDisk(disk')
  BY DEF PowerCut
<1>3. FreshNumbers' /\ GoodPrefix'
  BY <1>1, <1>2 DEF Keeps, FreshNumbers, GoodPrefix
<1>4. QueueRight'
  BY <1>1, <1>2 DEF QueueRight, With, Range
<1>5. ASSUME NEW r \in Recs, fate'[r] = "durable" PROVE Safe(r)'
  <2>1. PICK s \in SegIds : r \in Readable(disk'[s])
    BY <1>2, <1>5 DEF OnDisk
  <2>2. /\ disk'[s] \in Files
        /\ disk'[s].st = "live" => \A i \in DOMAIN disk'[s].recs : i <= disk'[s].dur
    BY PowerCutFacts DEF LeftIsSafe
  <2>3. /\ disk'[s].st = "live" /\ disk'[s].hdr = "ok"
        /\ \E i \in DOMAIN disk'[s].recs :
             disk'[s].recs[i] = r /\ \A j \in 1..i : disk'[s].recs[j] > 0
    BY <2>1, <2>2, ReadableOf
  <2> QED BY <1>1, <2>2, <2>3 DEF Safe, At, Listing
<1>6. Placed'
  BY <1>2, <1>5 DEF Placed
<1> QED BY <1>3, <1>4, <1>6 DEF Keeps

\* Damage never hits the segment being written.
LEMMA AtRestFacts ==
  ASSUME IInv, NEW s \in SegIds, AtRest(s), wpc # "down"
  PROVE  s # active
<1>1. PICK t \in Listing : t > s
  BY DEF AtRest
<1>2. t <= active /\ t \in SegIds /\ active \in SegIds
  BY <1>1 DEF IInv, Numbers, Control, Listing
<1> QED BY <1>1, <1>2 DEF SegIds

\* Damage takes the records it puts out of reach, and only those, on the record.
LEMMA RotKeeps ==
  ASSUME IInv, Keeps, RotFrame \/ RotHeader \/ RotCursor
  PROVE  Keeps'
<1>1. /\ disk \in [SegIds -> Files] /\ UNCHANGED <<len, active, unsynced, pending, wpc, nrec>>
      /\ wpc # "down" => active \in SegIds
  BY DEF IInv, TypeOK, TypeDisk, Control, RotFrame, RotHeader, RotCursor, memVars, loopVars
<1>2. CASE RotCursor
  BY <1>1, <1>2, QuietKeeps DEF RotCursor
<1>3. ASSUME NEW s \in SegIds, AtRest(s), NEW S \in SUBSET Readable(disk[s]),
             fate' = Mark(S, "rotten"), \A t \in SegIds \ {s} : disk'[t] = disk[t],
             \A r \in Recs : \A i \in DOMAIN disk[s].recs : At(r, s, i) /\ r \notin S => Stays(s, i)
      PROVE  Keeps'
  <2>1. wpc # "down" => s # active
    BY <1>3, AtRestFacts
  <2>2. /\ FreshNumbers' /\ QueueRight'
        /\ \A r \in Recs : fate'[r] \in OnDiskFates => fate'[r] = fate[r] /\ r \notin S
    BY <1>1, <1>3, <2>1, MarkReadable DEF OnDiskFates
  <2>3. GoodPrefix'
    BY <1>1, <1>3, <2>1 DEF Keeps, GoodPrefix
  <2>4. ASSUME NEW r \in Recs, NEW t \in SegIds, NEW i \in DOMAIN disk[t].recs,
               At(r, t, i), fate'[r] \in OnDiskFates
        PROVE  Stays(t, i)
    <3>1. CASE t = s
      BY <1>3, <2>2, <2>4, <3>1
    <3>2. CASE t # s
      <4>1. disk'[t] = disk[t] /\ \A j \in 1..i : j \in DOMAIN disk[t].recs
        BY <1>3, <3>2, FileFacts
      <4> QED BY <1>1, <2>4, <4>1 DEF At, Stays, Listing
    <3> QED BY <3>1, <3>2
  <2>5. \/ wpc' # "down" /\ active' = active /\ unsynced' = unsynced /\ active \in SegIds
        \/ \A r \in Recs : fate[r] # "written"
    <3>1. wpc = "down" => \A r \in Recs : fate[r] # "written"
      BY NoneWritten
    <3> QED BY <1>1, <3>1
  <2>6. Placed'
    BY <2>2, <2>4, <2>5, PlacedKept DEF Keeps
  <2> QED BY <2>2, <2>3, <2>6 DEF Keeps
<1>4. CASE RotHeader
  <2>1. PICK s \in SegIds : /\ AtRest(s) /\ disk' = [disk EXCEPT ![s].hdr = "foreign"]
                            /\ fate' = Mark(Readable(disk[s]), "rotten")
    BY <1>4 DEF RotHeader
  <2>2. \A t \in SegIds \ {s} : disk'[t] = disk[t]
    BY <1>1, <2>1
  <2>3. \A r \in Recs : \A i \in DOMAIN disk[s].recs : At(r, s, i) => r \in Readable(disk[s])
    BY AtReadable
  <2> QED BY <1>3, <2>1, <2>2, <2>3
<1>5. CASE RotFrame
  <2>1. PICK s \in SegIds : \E i \in 1..ValidCount(disk[s].recs) :
          /\ AtRest(s) /\ disk[s].hdr = "ok"
          /\ disk' = [disk EXCEPT ![s].recs[i] = -disk[s].recs[i]]
          /\ fate' = Mark({disk[s].recs[j] : j \in i..ValidCount(disk[s].recs)}, "rotten")
    BY <1>5 DEF RotFrame
  <2>2. PICK q \in Seq(Frames) : q = disk[s].recs /\ DOMAIN q = 1..Len(q) /\ Len(q) \in Nat
    BY FileFacts
  <2>3. PICK i \in 1..ValidCount(q) :
          /\ AtRest(s) /\ disk[s].hdr = "ok"
          /\ disk' = [disk EXCEPT ![s].recs[i] = -disk[s].recs[i]]
          /\ fate' = Mark({disk[s].recs[j] : j \in i..ValidCount(disk[s].recs)}, "rotten")
    <3>1. ValidCount(disk[s].recs) = ValidCount(q)
      BY <2>2
    <3> QED BY <2>1, <3>1
  <2>4. ValidCount(q) \in 0..Len(q) /\ i \in DOMAIN q
    BY <2>2, <2>3, ValidCountType
  <2>5. PICK p : p = [q EXCEPT ![i] = -q[i]]
    OBVIOUS
  <2>6. disk' = [disk EXCEPT ![s] = [disk[s] EXCEPT !.recs = p]]
    BY <2>2, <2>3, <2>5
  <2>7. /\ disk'[s].recs = p /\ disk'[s].hdr = disk[s].hdr /\ disk'[s].st = disk[s].st
        /\ disk'[s].dur = disk[s].dur /\ \A t \in SegIds \ {s} : disk'[t] = disk[t]
    <3>1. disk[s] \in Files
      BY <1>1
    <3> QED BY <1>1, <2>6, <3>1 DEF Files
  <2>8. DOMAIN p = DOMAIN q /\ \A j \in DOMAIN q : j # i => p[j] = q[j]
    BY <2>5
  <2> DEFINE S == {disk[s].recs[j] : j \in i..ValidCount(disk[s].recs)}
  <2>9. S \in SUBSET Readable(disk[s])
    <3>1. \A j \in i..ValidCount(q) : j \in 1..ValidCount(q)
      BY <2>3, <2>4
    <3>2. disk[s].st = "live" /\ disk[s].hdr = "ok"
      BY <2>3 DEF AtRest, Listing
    <3> QED BY <2>2, <3>1, <3>2 DEF Readable
  <2>10. ASSUME NEW r \in Recs, NEW k \in DOMAIN disk[s].recs, At(r, s, k), r \notin S
         PROVE  Stays(s, k)
    <3>1. k \in 1..ValidCount(q) /\ q[k] = r
      BY <2>2, <2>10, AtReadable DEF At
    <3>2. k < i
      <4> SUFFICES ASSUME ~(k < i) PROVE FALSE
        OBVIOUS
      <4>1. k \in i..ValidCount(disk[s].recs)
        BY <2>2, <2>3, <2>4, <3>1
      <4>2. disk[s].recs[k] \in S
        BY <4>1
      <4> QED BY <2>2, <2>10, <3>1, <4>2
    <3>3. \A j \in 1..k : j \in DOMAIN q /\ j # i
      BY <2>2, <2>3, <2>4, <3>1, <3>2
    <3>4. \A j \in 1..k : j \in DOMAIN p /\ p[j] = q[j]
      BY <2>8, <3>3
    <3>5. s \in Listing'
      BY <2>3, <2>7 DEF AtRest, Listing
    <3> QED BY <1>1, <2>2, <2>7, <2>10, <3>4, <3>5 DEF Stays, At
  <2> HIDE DEF S
  <2>11. fate' = Mark(S, "rotten")
    BY <2>3 DEF S
  <2> QED BY <1>3, <2>3, <2>7, <2>9, <2>10, <2>11
<1> QED BY <1>2, <1>4, <1>5

-----------------------------------------------------------------------------
(* The theorems.                                                           *)

\* Before the first open nothing is anywhere.
LEMMA InitKeeps == Init => Keeps
<1> SUFFICES ASSUME Init PROVE Keeps
  OBVIOUS
<1>1. wpc = "down" /\ pending = <<>> /\ \A r \in Recs : fate[r] = "new"
  BY DEF Init
<1>2. FreshNumbers /\ GoodPrefix /\ Placed
  BY <1>1 DEF FreshNumbers, GoodPrefix, Placed
<1>3. QueueRight
  BY <1>1 DEF QueueRight, With, Range
<1> QED BY <1>2, <1>3 DEF Keeps

\* Every step keeps both invariants.
LEMMA NextKeeps == IInv /\ Keeps /\ [Next]_vars => (IInv /\ Keeps)'
<1> SUFFICES ASSUME IInv, Keeps, [Next]_vars PROVE Keeps'
  BY NextInv
<1>1. CASE Opening
  BY <1>1, LoadKeeps, DeletionsKeep, OpenKeepKeeps, OpenFailsKeeps DEF Opening
<1>2. CASE AppendRecord \/ Tick \/ IdleTick \/ Close
  BY <1>2, AppendKeeps, QuietStepsKeep, CrashKeeps
<1>3. CASE Flushing
  BY <1>3, OpenActiveKeeps, WriteHeaderKeeps, WritePartKeeps, WriteBatchKeeps, QuietStepsKeep,
     DeletionsKeep, DropPendingKeeps, SealKeeps, FinishKeeps DEF Flushing
<1>4. CASE IoFails \/ AckStep \/ Acking \/ TakeGaps
  BY <1>4, QuietStepsKeep, CrashKeeps, DeletionsKeep, TakeGapsKeeps DEF Acking
<1>5. CASE Environment
  BY <1>5, CrashKeeps, PowerCutKeeps, RotKeeps DEF Environment
<1>6. CASE UNCHANGED vars
  BY <1>6, QuietStepsKeep
<1> QED BY <1>1, <1>2, <1>3, <1>4, <1>5, <1>6 DEF Next

\* A record with a place can be read.
LEMMA PlacedReadable ==
  ASSUME IInv, NEW r \in Recs, Somewhere(r)
  PROVE  r \in OnDisk(disk)
<1>1. PICK s \in SegIds : \E i \in DOMAIN disk[s].recs : At(r, s, i)
  BY DEF Somewhere
<1>2. r \in Readable(disk[s])
  BY <1>1, AtReadable
<1> QED BY <1>2 DEF OnDisk

\* For any number of records, segments, errors, crashes and power cuts, and any
\* policy: a record append took is queued or a reader finds it, until its end
\* is on the record.
THEOREM NothingEverVanishes == Spec => []NothingVanishes
<1>1. IInv /\ Keeps => NothingVanishes
  <2> SUFFICES ASSUME IInv, Keeps PROVE NothingVanishes
    OBVIOUS
  <2>1. ASSUME NEW r \in Recs, fate[r] \in {"written", "durable", "orphan"}
        PROVE  Somewhere(r)
    <3>1. CASE fate[r] = "written"
      <4>1. InActive(r) /\ active \in SegIds
        BY <3>1 DEF Keeps, Placed, IInv, Control
      <4> QED BY <4>1 DEF InActive, Somewhere
    <3>2. CASE fate[r] = "orphan"
      BY <3>2 DEF Keeps, Placed
    <3>3. CASE fate[r] = "durable"
      BY <3>3 DEF Keeps, Placed, Safe, Somewhere
    <3> QED BY <2>1, <3>1, <3>2, <3>3
  <2>2. With({"written", "durable", "orphan"}) \subseteq OnDisk(disk)
    BY <2>1, PlacedReadable DEF With
  <2> QED BY <2>2 DEF Keeps, QueueRight, NothingVanishes
<1> QED BY <1>1, InitInv, InitKeeps, NextKeeps, PTL DEF Spec

\* One step never takes a record a flush has covered.
LEMMA DurableStep ==
  ASSUME IInv, Keeps, [Next]_vars, NEW r \in Recs, fate[r] = "durable"
  PROVE  fate'[r] # "lost"
<1>1. CASE PowerCut
  BY <1>1, PowerCutSpares DEF PowerCut
<1>2. ASSUME NEW S, NEW v, v # "lost", fate' = Mark(S, v)
      PROVE  fate'[r] # "lost"
  BY <1>2 DEF Mark
<1>3. Flushed[r] = "durable"
  BY DEF Flushed, Mark, With
<1>4. ASSUME NEW was, was[r] = "durable", fate' = AfterExit(was)
      PROVE  fate'[r] # "lost"
  BY <1>4 DEF AfterExit
<1>5. CASE Opening
  BY <1>2, <1>5 DEF Opening, OpenLoad, OpenDelete, OpenKeep, OpenFails
<1>6. CASE AppendRecord \/ Tick \/ IdleTick \/ Close
  BY <1>2, <1>4, <1>6 DEF AppendRecord, Tick, IdleTick, Close
<1>7. CASE Flushing
  BY <1>2, <1>3, <1>4, <1>7 DEF Flushing, OpenActive, WriteHeader, WritePart, WriteBatch,
     StartRotate, Evict, EvictFails, DropPending, RoomMade, Seal, SealExhausted, Finish
<1>8. CASE IoFails \/ AckStep \/ Acking \/ TakeGaps
  BY <1>2, <1>4, <1>8 DEF IoFails, FlushFailed, AckStep, Ack, Acking, AckDelete, AckDeleteFails, TakeGaps
<1>9. CASE Crash \/ RotFrame \/ RotHeader \/ RotCursor
  BY <1>2, <1>4, <1>9 DEF Crash, RotFrame, RotHeader, RotCursor
<1>10. CASE UNCHANGED vars
  BY <1>10 DEF vars
<1> QED BY <1>1, <1>5, <1>6, <1>7, <1>8, <1>9, <1>10 DEF Next, Environment

\* Whatever ends the process and however often, a record that a finished
\* flush covered is never lost.
THEOREM FlushedAlwaysSurvive == Spec => FlushedSurvive
<1> DEFINE Survive == \A r \in Recs : fate[r] = "durable" => fate'[r] # "lost"
<1>1. IInv /\ Keeps /\ [Next]_vars => [Survive]_vars
  BY DurableStep
<1>2. FlushedSurvive <=> [][Survive]_vars
  BY DEF FlushedSurvive
<1> QED BY <1>1, <1>2, InitInv, InitKeeps, NextKeeps, PTL DEF Spec

-----------------------------------------------------------------------------
(* Gap counts.                                                             *)

\* Records whose end a report still has to name.
Missing == With({"evicted", "dropped"})

\* Such a record is in no file: it is not counted a second time.
NoneMissingOnDisk ==
  \A s \in Listing : \A i \in DOMAIN disk[s].recs :
    disk[s].recs[i] > 0 => disk[s].recs[i] \notin Missing

\* The writer's sealed segments have their files; open visits each file once.
SegsLive ==
  /\ segs \ {active} \subseteq Listing
  /\ wpc = "opening" => todo \cap segs = {}

Counts ==
  /\ GapsExact /\ NoneMissingOnDisk /\ SegsLive
  /\ wpc \in {"down", "opening"} => gaps = 0

\* After the step, whole frames are old ones or come from P.
FramesFrom(P) ==
  \A s \in Listing' : \A i \in DOMAIN disk'[s].recs :
    \/ disk'[s].recs[i] <= 0
    \/ s \in Listing /\ i \in DOMAIN disk[s].recs /\ disk'[s].recs[i] = disk[s].recs[i]
    \/ disk'[s].recs[i] \in P

\* Steps that put no new frame into a file.
LEMMA OldFrames ==
  ASSUME IInv,
         \/ Opening \/ AppendRecord \/ Tick \/ IdleTick \/ Close \/ OpenActive \/ WriteHeader
         \/ StartRotate \/ Evict \/ EvictFails \/ DropPending \/ RoomMade \/ Seal
         \/ SealExhausted \/ Finish \/ IoFails \/ AckStep \/ Acking \/ TakeGaps \/ Crash
         \/ RotFrame \/ RotHeader \/ RotCursor \/ UNCHANGED vars
  PROVE  FramesFrom({})
<1>1. disk \in [SegIds -> Files]
  BY DEF IInv, TypeOK, TypeDisk
<1>2. CASE disk' = disk
  BY <1>2 DEF FramesFrom, Listing
<1>3. ASSUME NEW s \in SegIds, disk' = [disk EXCEPT ![s].st = "gone"] PROVE FramesFrom({})
  <2>1. Listing' \subseteq Listing /\ \A t \in SegIds : disk'[t].recs = disk[t].recs
    BY <1>1, <1>3 DEF Listing, Files
  <2> QED BY <2>1 DEF FramesFrom, Listing
<1>4. CASE OpenKeep
  <2>1. PICK s \in SegIds : disk' = [disk EXCEPT ![s] = Repair(s)]
    BY <1>4 DEF OpenKeep
  <2>2. /\ Repair(s).st = disk[s].st
        /\ \A i \in DOMAIN Repair(s).recs :
             i \in DOMAIN disk[s].recs /\ Repair(s).recs[i] = disk[s].recs[i]
    BY <1>1, RepairType
  <2>3. disk'[s] = Repair(s) /\ \A t \in SegIds \ {s} : disk'[t] = disk[t]
    BY <1>1, <2>1
  <2> QED BY <2>2, <2>3 DEF FramesFrom, Listing
<1>5. CASE OpenActive
  <2> DEFINE recs == disk[active].recs
  <2>1. active \in SegIds /\ disk[active] \in Files /\ recs \in Seq(Frames) /\ len[active] \in Int
        /\ wpc = "active"
    BY <1>1, <1>5 DEF OpenActive, IInv, Control, TypeOK, TypeMem, Files
  <2>2. \A t \in SegIds \ {active} : disk'[t] = disk[t]
    BY <1>1, <1>5 DEF OpenActive
  <2>3. CASE len[active] < 0
    <3>1. disk'[active].recs = <<>>
      BY <1>1, <1>5, <2>1, <2>3 DEF OpenActive
    <3>2. DOMAIN disk'[active].recs = {}
      BY <3>1
    <3> QED BY <2>2, <3>2 DEF FramesFrom, Listing
  <2>4. CASE ~(len[active] < 0)
    <3>1. disk'[active] = [disk[active] EXCEPT !.recs = CutAt(recs, len[active])]
      BY <1>1, <1>5, <2>1, <2>4 DEF OpenActive
    <3>2. disk'[active].recs = CutAt(recs, len[active]) /\ disk'[active].st = disk[active].st
      BY <2>1, <3>1 DEF Files
    <3>3. /\ CutAt(recs, len[active]) \in Seq(Frames) /\ Len(CutAt(recs, len[active])) <= Len(recs)
          /\ \A i \in 1..Len(CutAt(recs, len[active])) : CutAt(recs, len[active])[i] = recs[i]
      BY <2>1, CutAtType
    <3>4. \A i \in DOMAIN disk'[active].recs :
            i \in DOMAIN recs /\ disk'[active].recs[i] = recs[i]
      BY <2>1, <3>2, <3>3
    <3> QED BY <2>2, <3>2, <3>4 DEF FramesFrom, Listing
  <2> QED BY <2>3, <2>4
<1>6. CASE WriteHeader
  <2>1. disk' = [disk EXCEPT ![active].hdr = "ok"] /\ active \in SegIds
    BY <1>6 DEF WriteHeader, IInv, Control
  <2>2. \A t \in SegIds : disk'[t].recs = disk[t].recs /\ disk'[t].st = disk[t].st
    BY <1>1, <2>1 DEF Files
  <2> QED BY <2>2 DEF FramesFrom, Listing
<1>7. CASE Seal \/ SealExhausted \/ Finish
  <2>1. (disk' = SyncFile(active) \/ disk' = disk) /\ wpc # "down"
    BY <1>7 DEF Seal, SealExhausted, Finish
  <2>2. Listing' = Listing /\ \A s \in SegIds : disk'[s].recs = disk[s].recs
    BY <2>1, SyncFacts
  <2> QED BY <2>2 DEF FramesFrom, Listing
<1>8. CASE RotHeader
  <2>1. PICK s \in SegIds : disk' = [disk EXCEPT ![s].hdr = "foreign"]
    BY <1>8 DEF RotHeader
  <2>2. \A t \in SegIds : disk'[t].recs = disk[t].recs /\ disk'[t].st = disk[t].st
    BY <1>1, <2>1 DEF Files
  <2> QED BY <2>2 DEF FramesFrom, Listing
<1>9. CASE RotFrame
  <2>1. PICK s \in SegIds : \E i \in 1..ValidCount(disk[s].recs) :
          disk' = [disk EXCEPT ![s].recs[i] = -disk[s].recs[i]]
    BY <1>9 DEF RotFrame
  <2>2. PICK q \in Seq(Frames) : q = disk[s].recs /\ DOMAIN q = 1..Len(q) /\ Len(q) \in Nat
    BY FileFacts
  <2>3. PICK i \in 1..ValidCount(q) : disk' = [disk EXCEPT ![s].recs[i] = -disk[s].recs[i]]
    BY <2>1, <2>2
  <2>4. ValidCount(q) \in 0..Len(q) /\ i \in DOMAIN q /\ q[i] > 0 /\ q[i] \in Int
    BY <2>2, <2>3, ValidCountType, CountsAssumption DEF Frames
  <2>5. PICK p : p = [q EXCEPT ![i] = -q[i]]
    OBVIOUS
  <2>6. DOMAIN p = DOMAIN q /\ \A j \in DOMAIN p : p[j] = q[j] \/ p[j] <= 0
    BY <2>4, <2>5
  <2>7. disk' = [disk EXCEPT ![s] = [disk[s] EXCEPT !.recs = p]]
    BY <2>2, <2>3, <2>5
  <2>8. /\ disk'[s].recs = p /\ disk'[s].st = disk[s].st
        /\ \A t \in SegIds \ {s} : disk'[t] = disk[t]
    <3>1. disk[s] \in Files
      BY <1>1
    <3> QED BY <1>1, <2>7, <3>1 DEF Files
  <2> QED BY <2>2, <2>6, <2>8 DEF FramesFrom, Listing
<1>10. CASE OpenDelete \/ Evict \/ AckDelete
  <2>1. PICK s \in SegIds : disk' = [disk EXCEPT ![s].st = "gone"]
    BY <1>10 DEF OpenDelete, Evict, AckDelete
  <2> QED BY <1>3, <2>1
<1>11. CASE \/ OpenLoad \/ OpenFails \/ AppendRecord \/ Tick \/ IdleTick \/ Close \/ StartRotate
            \/ EvictFails \/ DropPending \/ RoomMade \/ IoFails \/ AckStep \/ AckDeleteFails
            \/ TakeGaps \/ Crash \/ RotCursor \/ UNCHANGED vars
  BY <1>2, <1>11 DEF OpenLoad, OpenFails, AppendRecord, Tick, IdleTick, Close, StartRotate,
     EvictFails, DropPending, RoomMade, IoFails, AckStep, Ack, AckDeleteFails, TakeGaps, Crash,
     RotCursor, vars, diskVars
<1> QED BY <1>4, <1>5, <1>6, <1>7, <1>8, <1>9, <1>10, <1>11 DEF Opening, Acking

\* A write puts queued records, and torn frames, into the active file.
LEMMA WriteFrames ==
  ASSUME IInv, WritePart \/ WriteBatch
  PROVE  FramesFrom(Range(pending)) /\ Listing' = Listing
<1>1. pending \in Seq(Recs) /\ pending # <<>> /\ MaxRecs \in Nat /\ wpc \in {"write", "writing"}
  BY CountsAssumption DEF IInv, WritePart, WriteBatch, TypeOK, TypeMem, Control
<1>2. PICK k \in 0..Len(pending), torn \in BOOLEAN :
        disk' = [disk EXCEPT ![active].recs =
                   WriteAt(IF torn THEN SubSeq(pending, 1, k) \o <<Torn>> ELSE SubSeq(pending, 1, k))]
  <2>1. CASE WritePart
    <3>1. PICK k \in 0..(Batch - 1) :
            disk' = [disk EXCEPT ![active].recs = WriteAt(SubSeq(pending, 1, k) \o <<Torn>>)]
      BY <2>1 DEF WritePart
    <3>2. k \in 0..Len(pending)
      BY <1>1, <3>1, BatchType
    <3> QED BY <3>1, <3>2
  <2>2. CASE WriteBatch
    <3>1. disk' = [disk EXCEPT ![active].recs = WriteAt(SubSeq(pending, 1, Batch))]
      BY <2>2 DEF WriteBatch
    <3>2. Batch \in 0..Len(pending)
      BY <1>1, BatchType
    <3> QED BY <3>1, <3>2
  <2> QED BY <2>1, <2>2
<1>3. PICK head \in Seq(Recs) : /\ head = SubSeq(pending, 1, k) /\ Len(head) = k
                                /\ \A i \in 1..k : head[i] = pending[i] /\ i \in DOMAIN pending
  BY <1>1, <1>2, HeadAndRest
<1>4. PICK frames : frames = (IF torn THEN head \o <<Torn>> ELSE head)
  OBVIOUS
<1>5. /\ frames \in Seq(Frames)
      /\ \A i \in DOMAIN frames :
           frames[i] = 0 \/ (i \in DOMAIN pending /\ frames[i] = pending[i])
  <2>1. head \in Seq(Frames) /\ <<Torn>> \in Seq(Frames)
    <3>1. Torn \in Frames /\ \A r \in Recs : r \in Frames
      BY <1>1 DEF Torn, Frames, Recs
    <3> QED BY <3>1
  <2>2. CASE torn
    <3>1. frames = head \o <<Torn>>
      BY <1>4, <2>2
    <3>2. frames \in Seq(Frames) /\ Len(frames) = k + 1
      BY <1>2, <1>3, <2>1, <3>1
    <3>3. ASSUME NEW i \in DOMAIN frames
          PROVE  frames[i] = 0 \/ (i \in DOMAIN pending /\ frames[i] = pending[i])
      <4>1. i \in 1..(k + 1)
        BY <1>2, <3>2
      <4>2. CASE i = k + 1
        BY <1>2, <1>3, <3>1, <4>2 DEF Torn
      <4>3. CASE i \in 1..k
        <5>1. frames[i] = head[i]
          BY <1>2, <1>3, <3>1, <4>3
        <5> QED BY <1>3, <4>3, <5>1
      <4> QED BY <1>2, <4>1, <4>2, <4>3
    <3> QED BY <3>2, <3>3
  <2>3. CASE ~torn
    <3>1. frames = head /\ DOMAIN head = 1..k
      BY <1>3, <1>4, <2>3
    <3> QED BY <1>3, <2>1, <3>1
  <2> QED BY <2>2, <2>3
<1>6. disk' = [disk EXCEPT ![active].recs = WriteAt(frames)]
  BY <1>2, <1>3, <1>4
<1>7. /\ Listing' = Listing /\ \A s \in SegIds \ {active} : disk'[s].recs = disk[s].recs
      /\ \A i \in DOMAIN disk'[active].recs :
           \/ /\ i <= len[active] /\ i \in DOMAIN disk[active].recs
              /\ disk'[active].recs[i] = disk[active].recs[i]
           \/ /\ i - len[active] \in DOMAIN frames
              /\ disk'[active].recs[i] = frames[i - len[active]]
  BY <1>1, <1>5, <1>6, WriteAtFacts
<1>8. ASSUME NEW s \in Listing', NEW i \in DOMAIN disk'[s].recs
      PROVE  \/ disk'[s].recs[i] <= 0
             \/ s \in Listing /\ i \in DOMAIN disk[s].recs /\ disk'[s].recs[i] = disk[s].recs[i]
             \/ disk'[s].recs[i] \in Range(pending)
  <2>1. CASE s # active
    BY <1>7, <2>1 DEF Listing
  <2>2. CASE /\ s = active /\ i \in DOMAIN disk[active].recs
             /\ disk'[active].recs[i] = disk[active].recs[i]
    BY <1>7, <2>2
  <2>3. CASE /\ s = active /\ i - len[active] \in DOMAIN frames
             /\ disk'[active].recs[i] = frames[i - len[active]]
    BY <1>5, <2>3 DEF Range
  <2> QED BY <1>7, <2>1, <2>2, <2>3
<1> QED BY <1>7, <1>8 DEF FramesFrom

\* A power cut puts no new frame into a file.
LEMMA PowerCutFrames ==
  ASSUME IInv, PowerCut
  PROVE  FramesFrom({})
<1>1. disk \in [SegIds -> Files] /\ Unflushed \subseteq Listing
  BY DEF IInv, TypeOK, TypeDisk, Unflushed
<1>2. PICK keep \in [Unflushed -> (-2)..MaxRecs], torn \in [Unflushed -> BOOLEAN] :
        /\ \A s \in Unflushed : MayCut(disk[s], keep[s], torn[s])
        /\ disk' = [s \in SegIds |-> IF s \in Unflushed THEN CutFile(disk[s], keep[s], torn[s])
                                     ELSE disk[s]]
  BY DEF PowerCut
<1>3. ASSUME NEW s \in Listing', NEW i \in DOMAIN disk'[s].recs
      PROVE  \/ disk'[s].recs[i] <= 0
             \/ s \in Listing /\ i \in DOMAIN disk[s].recs /\ disk'[s].recs[i] = disk[s].recs[i]
  <2>1. CASE s \in Unflushed
    <3>1. PICK f \in Files, k \in Int : f = disk[s] /\ k = keep[s] /\ k >= -2
      <4>1. disk[s] \in Files /\ keep[s] \in (-2)..MaxRecs
        BY <1>1, <1>2, <2>1 DEF Listing
      <4> QED BY <4>1, CountsAssumption
    <3>2. disk'[s] = CutFile(f, k, torn[s]) /\ MayCut(f, k, torn[s])
      BY <1>1, <1>2, <2>1, <3>1 DEF Listing
    <3> QED BY <1>1, <1>3, <2>1, <3>1, <3>2, CutFileFacts
  <2>2. CASE s \notin Unflushed
    BY <1>2, <2>2 DEF Listing
  <2> QED BY <2>1, <2>2
<1> QED BY <1>3 DEF FramesFrom

\* A sequence that grows has as many elements as it is long.
LEMMA IncreasingCount ==
  ASSUME NEW n \in Nat, NEW f, \A i \in 1..n : f[i] \in Int,
         \A i, j \in 1..n : i < j => f[i] < f[j]
  PROVE  LET S == {f[i] : i \in 1..n} IN IsFiniteSet(S) /\ Cardinality(S) = n
<1> DEFINE S == {f[i] : i \in 1..n}
           g == [i \in 1..n |-> f[i]]
<1>1. g \in [1..n -> S] /\ \A t \in S : \E i \in 1..n : g[i] = t
  OBVIOUS
<1>2. ASSUME NEW a \in 1..n, NEW b \in 1..n, g[a] = g[b] PROVE a = b
  <2>1. f[a] = f[b] /\ f[a] \in Int
    BY <1>2
  <2>2. ~(a < b) /\ ~(b < a)
    BY <2>1
  <2> QED BY <2>2
<1>3. g \in Bijection(1..n, S)
  BY <1>1, <1>2 DEF Bijection, Injection, Surjection, IsInjective
<1>4. ExistsBijection(1..n, S)
  BY <1>3 DEF ExistsBijection
<1>5. IsFiniteSet(1..n) /\ Cardinality(1..n) = n
  BY FS_Interval
<1>6. IsFiniteSet(S) /\ Cardinality(S) = n
  BY <1>4, <1>5, FS_Bijection
<1> QED BY <1>6

\* Records without a report are finitely many.
LEMMA MissingFinite == IsFiniteSet(Missing)
<1>1. IsFiniteSet(Recs)
  BY FS_Interval, CountsAssumption DEF Recs
<1>2. Missing \in SUBSET Recs
  BY DEF Missing, With
<1> QED BY <1>1, <1>2, FS_Subset

\* What open, make_room and ack read in a segment, and its count.
LEMMA ReadableCount ==
  ASSUME IInv, Counts, NEW s \in SegIds
  PROVE  /\ Readable(disk[s]) \cap Missing = {}
         /\ IsFiniteSet(Readable(disk[s]))
         /\ s \in Listing => Cardinality(Readable(disk[s])) = GapRecords(s)
<1>1. Readable(disk[s]) \cap Missing = {}
  <2> SUFFICES ASSUME NEW r \in Readable(disk[s]), r \in Missing PROVE FALSE
    OBVIOUS
  <2>1. s \in Listing /\ r \in Recs /\ \E i \in DOMAIN disk[s].recs : disk[s].recs[i] = r
    BY ReadableFacts
  <2>2. r > 0
    BY <2>1 DEF Recs
  <2> QED BY <2>1, <2>2 DEF Counts, NoneMissingOnDisk
<1>2. PICK q \in Seq(Frames) : q = disk[s].recs /\ DOMAIN q = 1..Len(q) /\ Len(q) \in Nat
  BY FileFacts
<1>3. ValidCount(q) \in 0..Len(q) /\ \A j \in 1..ValidCount(q) : q[j] > 0
  BY ValidCountType
<1>4. CASE ~(disk[s].st = "live" /\ disk[s].hdr = "ok")
  <2>1. Readable(disk[s]) = {}
    BY <1>4 DEF Readable
  <2>2. s \in Listing => GapRecords(s) = 0
    BY <1>4 DEF Listing, GapRecords
  <2> QED BY <1>1, <2>1, <2>2, FS_EmptySet
<1>5. CASE disk[s].st = "live" /\ disk[s].hdr = "ok"
  <2>1. s \in Listing
    BY <1>5 DEF Listing
  <2>2. PICK n \in Nat : n = ValidCount(q) /\ n <= Len(q)
    BY <1>2, <1>3
  <2>3. \A i \in 1..n : q[i] \in Int /\ q[i] > 0 /\ i \in DOMAIN q
    BY <1>2, <1>3, <2>2, CountsAssumption DEF Frames
  <2>4. \A i, j \in 1..n : i < j => q[i] < q[j]
    BY <1>2, <2>1, <2>3 DEF IInv, LogInOrder
  <2>5. IsFiniteSet({q[i] : i \in 1..n}) /\ Cardinality({q[i] : i \in 1..n}) = n
    BY <2>3, <2>4, IncreasingCount
  <2>6. Readable(disk[s]) = {q[i] : i \in 1..n}
    BY <1>2, <1>5, <2>2 DEF Readable
  <2>7. GapRecords(s) = n
    BY <1>2, <1>5, <2>2 DEF GapRecords
  <2> QED BY <1>1, <2>5, <2>6, <2>7
<1> QED BY <1>4, <1>5

\* A disjoint union counts both.
LEMMA DisjointCount ==
  ASSUME NEW S, NEW T, IsFiniteSet(S), IsFiniteSet(T), S \cap T = {}
  PROVE  Cardinality(S \cup T) = Cardinality(S) + Cardinality(T)
<1>1. Cardinality(S \cup T) = Cardinality(S) + Cardinality(T) - Cardinality(S \cap T)
  BY FS_Union
<1>2. Cardinality(S) \in Nat /\ Cardinality(T) \in Nat
  BY FS_CardinalityType
<1>3. Cardinality(S \cap T) = 0
  BY FS_EmptySet
<1> HIDE DEF Cardinality
<1> QED BY <1>1, <1>2, <1>3

\* A deletion takes one name out of the listing.
LEMMA DeletionListing ==
  ASSUME IInv, NEW s \in SegIds, disk' = [disk EXCEPT ![s].st = "gone"]
  PROVE  Listing' = Listing \ {s} /\ \A t \in SegIds : disk'[t].recs = disk[t].recs
<1>1. disk \in [SegIds -> Files]
  BY DEF IInv, TypeOK, TypeDisk
<1> QED BY <1>1 DEF Listing, Files

\* The writer's sealed segments keep their files.
LEMMA NextSegsLive ==
  ASSUME IInv, IInv', SegsLive, [Next]_vars
  PROVE  SegsLive'
<1>1. CASE NoWriter
  BY <1>1 DEF NoWriter, SegsLive
<1>2. CASE /\ segs' \ {active'} \subseteq segs \ {active} /\ Listing \subseteq Listing'
           /\ wpc' # "opening"
  BY <1>2 DEF SegsLive
<1>3. disk \in [SegIds -> Files] /\ segs \subseteq SegIds /\ todo \subseteq SegIds
  BY DEF IInv, TypeOK, TypeDisk, TypeMem
<1>4. CASE disk' = disk /\ segs' = segs /\ active' = active
           /\ (wpc' = "opening" => wpc = "opening" /\ todo' = todo)
  BY <1>4 DEF SegsLive, Listing
<1>5. CASE OpenLoad
  <2>1. segs' = {active'} /\ todo' = Listing /\ Listing' = Listing
    BY <1>5 DEF OpenLoad, diskVars, Listing
  <2>2. wpc' = "opening" => \A t \in Listing' : t < active'
    BY DEF IInv, Numbers
  <2>3. wpc' = "opening" => active' \notin Listing
    <3> SUFFICES ASSUME wpc' = "opening", active' \in Listing PROVE FALSE
      OBVIOUS
    <3>1. active' < active' /\ active' \in Int
      BY <2>1, <2>2 DEF IInv, TypeOK, TypeMem
    <3> QED BY <3>1
  <2> QED BY <2>1, <2>3 DEF SegsLive
<1>6. CASE OpenDelete
  <2>1. PICK s \in SegIds : /\ s \in todo /\ disk' = [disk EXCEPT ![s].st = "gone"]
                            /\ todo' = todo \ {s}
    BY <1>6 DEF OpenDelete, Oldest
  <2>2. Listing' = Listing \ {s}
    BY <2>1, DeletionListing
  <2>3. wpc = "opening" /\ segs' = segs /\ active' = active
    BY <1>6 DEF OpenDelete, memVars
  <2> QED BY <2>1, <2>2, <2>3 DEF SegsLive
<1>7. CASE OpenKeep
  <2>1. PICK s \in SegIds : /\ s \in todo /\ disk' = [disk EXCEPT ![s] = Repair(s)]
                            /\ todo' = todo \ {s} /\ segs' = segs \cup {s}
    BY <1>7 DEF OpenKeep, Oldest
  <2>2. Repair(s).st = disk[s].st
    BY <1>3, RepairType
  <2>3. Listing' = Listing
    BY <1>3, <2>1, <2>2 DEF Listing
  <2>4. wpc = "opening" /\ active' = active /\ s \in Listing
    BY <1>7, <2>1 DEF OpenKeep, IInv, Numbers
  <2> QED BY <2>1, <2>3, <2>4 DEF SegsLive
<1>8. CASE Evict \/ AckDelete
  <2>1. PICK s \in SegIds : disk' = [disk EXCEPT ![s].st = "gone"] /\ segs' = segs \ {s}
    BY <1>8 DEF Evict, AckDelete
  <2>2. Listing' = Listing \ {s}
    BY <2>1, DeletionListing
  <2>3. active' = active /\ wpc' # "opening"
    BY <1>8 DEF Evict, AckDelete, loopVars
  <2> QED BY <2>1, <2>2, <2>3 DEF SegsLive
<1>9. CASE Seal
  <2>1. active \in Listing /\ Listing' = Listing
    <3>1. active \in Listing
      BY <1>9 DEF Seal, IInv, Control, ActiveFile
    <3>2. disk' = SyncFile(active) /\ wpc # "down"
      BY <1>9 DEF Seal
    <3> QED BY <3>1, <3>2, SyncFacts
  <2>2. segs' = segs \cup {active'} /\ wpc' = "active"
    BY <1>9 DEF Seal
  <2> QED BY <2>1, <2>2 DEF SegsLive
<1>10. CASE Finish \/ SealExhausted
  <2>1. Listing' = Listing
    <3>1. (disk' = SyncFile(active) \/ disk' = disk) /\ wpc # "down"
      BY <1>10 DEF Finish, SealExhausted
    <3>2. disk' = disk => Listing' = Listing
      BY DEF Listing
    <3> QED BY <3>1, <3>2, SyncFacts
  <2>2. NoWriter \/ (segs' = segs /\ active' = active /\ wpc' = "idle")
    BY <1>10 DEF Finish, SealExhausted
  <2> QED BY <1>1, <1>2, <2>1, <2>2
<1>11. CASE OpenActive \/ WriteHeader \/ RotHeader \/ RotFrame
  <2>1. \A t \in SegIds : disk[t].st = "live" => disk'[t].st = "live"
    <3>1. CASE OpenActive
      BY <1>3, <3>1 DEF OpenActive, Files
    <3>2. CASE WriteHeader
      BY <1>3, <3>2 DEF WriteHeader, Files
    <3>3. CASE RotHeader
      BY <1>3, <3>3 DEF RotHeader, Files
    <3>4. CASE RotFrame
      BY <1>3, <3>4 DEF RotFrame, Files
    <3> QED BY <1>11, <3>1, <3>2, <3>3, <3>4
  <2>2. /\ Listing \subseteq Listing' /\ segs' = segs /\ active' = active
        /\ (wpc' = "opening" => wpc = "opening" /\ todo' = todo)
    BY <1>11, <2>1 DEF OpenActive, WriteHeader, RotHeader, RotFrame, memVars, loopVars, AfterOpen, Listing
  <2> QED BY <2>2 DEF SegsLive
<1>12. CASE WritePart \/ WriteBatch
  <2>1. Listing' = Listing
    BY <1>12, WriteFrames
  <2>2. segs' = segs /\ active' = active /\ wpc' # "opening"
    BY <1>12 DEF WritePart, WriteBatch, memVars
  <2> QED BY <2>1, <2>2 DEF SegsLive
<1>13. CASE \/ AppendRecord \/ Tick \/ IdleTick \/ Close \/ StartRotate \/ EvictFails
            \/ DropPending \/ RoomMade \/ IoFails \/ AckStep \/ AckDeleteFails \/ TakeGaps
            \/ RotCursor \/ UNCHANGED vars
  BY <1>1, <1>4, <1>13 DEF AppendRecord, Tick, IdleTick, Close, StartRotate, EvictFails,
     DropPending, RoomMade, IoFails, FlushFailed, AckStep, Ack, AckDeleteFails, TakeGaps,
     RotCursor, vars, diskVars, memVars, loopVars, FlushStep
<1>14. CASE OpenFails \/ Crash \/ PowerCut
  BY <1>1, <1>14 DEF OpenFails, Crash, PowerCut
<1> QED BY <1>5, <1>6, <1>7, <1>8, <1>9, <1>10, <1>11, <1>12, <1>13, <1>14
        DEF Next, Opening, Flushing, Acking, Environment

\* No file gets a missing record back.
LEMMA MissingKept ==
  ASSUME IInv, IInv', NoneMissingOnDisk, NEW P, FramesFrom(P), P \cap Missing' = {},
         Missing' \subseteq Missing
  PROVE  NoneMissingOnDisk'
<1> SUFFICES ASSUME NEW s \in Listing', NEW i \in DOMAIN disk'[s].recs, disk'[s].recs[i] > 0,
                    disk'[s].recs[i] \in Missing'
             PROVE  FALSE
  BY DEF NoneMissingOnDisk
<1>1. disk'[s] \in Files
  BY DEF IInv, TypeOK, TypeDisk, Listing
<1>2. disk'[s].recs \in Seq(Frames)
  BY <1>1 DEF Files
<1>3. disk'[s].recs[i] \in Int
  BY <1>2, CountsAssumption DEF Frames
<1>4. ~(disk'[s].recs[i] <= 0)
  BY <1>3
<1>5. CASE s \in Listing /\ i \in DOMAIN disk[s].recs /\ disk'[s].recs[i] = disk[s].recs[i]
  BY <1>5 DEF NoneMissingOnDisk
<1>6. CASE disk'[s].recs[i] \in P
  BY <1>6
<1> QED BY <1>4, <1>5, <1>6 DEF FramesFrom

\* Marking records that were not missing as anything else misses nothing more.
LEMMA MarkMissing ==
  ASSUME NEW S, NEW v, fate' = Mark(S, v)
  PROVE  /\ v \notin {"evicted", "dropped"} => Missing' = Missing \ S
         /\ v \in {"evicted", "dropped"} => Missing' = Missing \cup (S \cap Recs)
  BY DEF Mark, Missing, With

\* A record in the queue, or a fresh one, is not missing.
LEMMA QueuedNotMissing ==
  ASSUME Keeps
  PROVE  Range(pending) \cap Missing = {} /\ \A r \in Recs : r > nrec => r \notin Missing
  BY DEF Keeps, QueueRight, FreshNumbers, With, Missing

\* The end of the process misses nothing any longer.
LEMMA ExitMissing ==
  ASSUME NEW was, fate' = AfterExit(was)
  PROVE  Missing' = {}
<1> SUFFICES ASSUME NEW r \in Recs, fate'[r] \in {"evicted", "dropped"} PROVE FALSE
  BY DEF Missing, With
<1>1. fate'[r] = CASE was[r] \in {"queued", "written"} -> IF r \in OnDisk(disk) THEN "orphan" ELSE "lost"
                   [] was[r] \in {"evicted", "dropped"} -> "unreported"
                   [] OTHER -> was[r]
  BY DEF AfterExit
<1> QED BY <1>1

\* The count and the files, for a step that misses what was missed before.
LEMMA SameMissing ==
  ASSUME IInv, IInv', Counts, Keeps, Missing' = Missing, gaps' = gaps,
         FramesFrom({}) \/ FramesFrom(Range(pending))
  PROVE  GapsExact' /\ NoneMissingOnDisk'
<1>1. GapsExact'
  BY DEF Counts, GapsExact, Missing
<1>2. Range(pending) \cap Missing' = {}
  BY QueuedNotMissing
<1> QED BY <1>1, <1>2, MissingKept DEF Counts

\* The count and the files, once nothing is missing.
LEMMA NoMissing ==
  ASSUME IInv, IInv', Counts, Missing' = {}, gaps' = 0, FramesFrom({})
  PROVE  GapsExact' /\ NoneMissingOnDisk'
<1>1. Cardinality(Missing') = 0
  BY FS_EmptySet
<1>2. GapsExact'
  BY <1>1 DEF GapsExact, Missing
<1> QED BY <1>2, MissingKept DEF Counts

\* The file of a deleted segment held what make_room counts, and no other has it.
LEMMA EvictCounts ==
  ASSUME IInv, IInv', Counts, Keeps, Evict
  PROVE  GapsExact' /\ NoneMissingOnDisk'
<1>1. FramesFrom({})
  BY OldFrames
<1>2. PICK v \in SegIds :
        /\ v \in Victims /\ disk' = [disk EXCEPT ![v].st = "gone"]
        /\ \/ fate' = Mark(Readable(disk[v]), "retired") /\ gaps' = gaps
           \/ fate' = Mark(Readable(disk[v]), "evicted") /\ gaps' = gaps + GapRecords(v)
           \/ fate' = Mark(Readable(disk[v]), "unread") /\ gaps' = gaps
  BY DEF Evict, Oldest
<1>3. v \in Listing
  BY <1>2 DEF Victims, Sealed, Counts, SegsLive
<1>4. /\ Readable(disk[v]) \cap Missing = {} /\ IsFiniteSet(Readable(disk[v]))
      /\ Cardinality(Readable(disk[v])) = GapRecords(v)
  BY <1>3, ReadableCount
<1>5. Readable(disk[v]) \subseteq Recs
  BY ReadableFacts
<1>6. CASE \/ fate' = Mark(Readable(disk[v]), "retired") /\ gaps' = gaps
           \/ fate' = Mark(Readable(disk[v]), "unread") /\ gaps' = gaps
  <2>1. Missing' = Missing \ Readable(disk[v])
    BY <1>6, MarkMissing
  <2>2. Missing' = Missing
    BY <1>4, <2>1
  <2> QED BY <1>1, <1>6, <2>2, SameMissing
<1>7. CASE fate' = Mark(Readable(disk[v]), "evicted") /\ gaps' = gaps + GapRecords(v)
  <2>1. Missing' = Missing \cup Readable(disk[v])
    BY <1>5, <1>7, MarkMissing
  <2>2. Cardinality(Missing') = Cardinality(Missing) + Cardinality(Readable(disk[v]))
    BY <1>4, <2>1, MissingFinite, DisjointCount
  <2>3. GapsExact'
    BY <1>4, <1>7, <2>2 DEF Counts, GapsExact, Missing
  <2>4. Listing' = Listing \ {v} /\ \A t \in SegIds : disk'[t].recs = disk[t].recs
    BY <1>2, DeletionListing
  <2>5. ASSUME NEW s \in Listing', NEW i \in DOMAIN disk'[s].recs, disk'[s].recs[i] > 0
        PROVE  disk'[s].recs[i] \notin Missing'
    <3>1. s \in Listing /\ s # v /\ disk'[s].recs = disk[s].recs
      BY <2>4 DEF Listing
    <3>2. disk[s].recs[i] \notin Missing
      BY <2>5, <3>1 DEF Counts, NoneMissingOnDisk
    <3>3. ASSUME disk[s].recs[i] \in Readable(disk[v]) PROVE FALSE
      <4>1. PICK j \in DOMAIN disk[v].recs :
              disk[v].recs[j] = disk[s].recs[i] /\ disk[v].recs[j] \in Recs
        BY <3>3, ReadableFacts
      <4>2. disk[v].recs[j] \in Int /\ disk[v].recs[j] > 0 /\ s \in Int /\ v \in Int
        BY <3>1, <4>1, CountsAssumption DEF Recs, Listing, SegIds
      <4>3. s < v \/ v < s
        BY <3>1, <4>2
      <4>4. disk[v].recs[j] < disk[s].recs[i] \/ disk[s].recs[i] < disk[v].recs[j]
        BY <1>3, <3>1, <4>1, <4>2, <4>3 DEF IInv, LogInOrder
      <4> QED BY <4>1, <4>2, <4>4
    <3> QED BY <2>1, <3>1, <3>2, <3>3
  <2> QED BY <2>3, <2>5 DEF NoneMissingOnDisk
<1> QED BY <1>2, <1>6, <1>7

\* A full buffer drops the queue: as many records as are counted, none of them
\* in a file.
LEMMA DropCounts ==
  ASSUME IInv, IInv', Counts, Keeps, DropPending
  PROVE  GapsExact' /\ NoneMissingOnDisk'
<1>1. /\ fate' = Mark(Range(pending), "dropped") /\ gaps' = gaps + Len(pending)
      /\ disk' = disk /\ wpc = "room"
  BY DEF DropPending, diskVars
<1>2. pending \in Seq(Recs) /\ Len(pending) \in Nat /\ DOMAIN pending = 1..Len(pending)
  BY DEF IInv, TypeOK, TypeMem
<1>3. \A i \in 1..Len(pending) : pending[i] \in Recs /\ pending[i] \in Int
  BY <1>2, CountsAssumption DEF Recs
<1>4. /\ IsFiniteSet({pending[i] : i \in 1..Len(pending)})
      /\ Cardinality({pending[i] : i \in 1..Len(pending)}) = Len(pending)
  <2>1. \A i, j \in 1..Len(pending) : i < j => pending[i] < pending[j]
    BY <1>2 DEF IInv, Ages
  <2> QED BY <1>2, <1>3, <2>1, IncreasingCount
<1>5. Range(pending) = {pending[i] : i \in 1..Len(pending)} /\ Range(pending) \subseteq Recs
  BY <1>2, <1>3 DEF Range
<1>6. Missing' = Missing \cup Range(pending)
  BY <1>1, <1>5, MarkMissing
<1>7. Cardinality(Missing') = Cardinality(Missing) + Cardinality(Range(pending))
  BY <1>4, <1>5, <1>6, QueuedNotMissing, MissingFinite, DisjointCount
<1>8. GapsExact'
  BY <1>1, <1>4, <1>5, <1>7 DEF Counts, GapsExact, Missing
<1>9. ASSUME NEW s \in Listing, NEW i \in DOMAIN disk[s].recs, disk[s].recs[i] > 0
      PROVE  disk[s].recs[i] \notin Range(pending)
  <2>1. /\ DOMAIN disk[s].recs = 1..Len(disk[s].recs) /\ Len(disk[s].recs) \in Nat
        /\ disk[s].recs[i] \in Int
    BY FileFacts DEF Listing
  <2>2. ~(s = active /\ i > len[active])
    <3> SUFFICES ASSUME s = active, i > len[active] PROVE FALSE
      OBVIOUS
    <3>1. Len(disk[active].recs) <= len[active] /\ len[active] \in Int
      BY <1>1 DEF IInv, Control, ActiveFile, TypeOK, TypeMem
    <3> QED BY <2>1, <3>1
  <2>3. \A j \in DOMAIN pending : disk[s].recs[i] < pending[j]
    BY <2>2 DEF IInv, Ages
  <2>4. \A j \in DOMAIN pending : disk[s].recs[i] # pending[j]
    BY <2>1, <2>3
  <2> QED BY <2>4 DEF Range
<1>10. NoneMissingOnDisk'
  BY <1>1, <1>6, <1>9 DEF NoneMissingOnDisk, Counts, Listing
<1> QED BY <1>8, <1>10

\* Before the writer is up there is nothing to report.
LEMMA NextUncounted ==
  ASSUME Counts, [Next]_vars, wpc' \in {"down", "opening"}
  PROVE  gaps' = 0
<1>1. CASE NoWriter
  BY <1>1 DEF NoWriter
<1>2. CASE wpc \in {"down", "opening"} /\ gaps' = gaps
  BY <1>2 DEF Counts
<1>3. CASE Opening
  BY <1>1, <1>2, <1>3 DEF Opening, OpenLoad, OpenDelete, OpenKeep, OpenFails, memVars
<1>4. CASE AppendRecord \/ Tick \/ IdleTick \/ Close
  BY <1>1, <1>4 DEF AppendRecord, Tick, IdleTick, Close, FlushStep, loopVars
<1>5. CASE Flushing
  BY <1>1, <1>5 DEF Flushing, OpenActive, WriteHeader, WritePart, WriteBatch, StartRotate, Evict,
     EvictFails, DropPending, RoomMade, Seal, SealExhausted, Finish, AfterOpen, loopVars
<1>6. CASE IoFails \/ AckStep \/ Acking \/ TakeGaps
  BY <1>1, <1>6 DEF IoFails, FlushFailed, AckStep, Ack, Acking, AckDelete, AckDeleteFails, TakeGaps,
     loopVars
<1>7. CASE Environment
  BY <1>1, <1>2, <1>7 DEF Environment, Crash, PowerCut, RotFrame, RotHeader, RotCursor, memVars, loopVars
<1>8. CASE UNCHANGED vars
  BY <1>2, <1>8 DEF vars, memVars, loopVars
<1> QED BY <1>3, <1>4, <1>5, <1>6, <1>7, <1>8 DEF Next

\* What a scan reads in a segment, or in a part of it, is not missing.
LEMMA RottenNotMissing ==
  ASSUME IInv, Counts, NEW s \in Listing, disk[s].hdr = "ok", NEW i \in 1..ValidCount(disk[s].recs)
  PROVE  {disk[s].recs[j] : j \in i..ValidCount(disk[s].recs)} \cap Missing = {}
<1> SUFFICES ASSUME NEW j \in i..ValidCount(disk[s].recs), disk[s].recs[j] \in Missing
             PROVE  FALSE
  OBVIOUS
<1>1. PICK q \in Seq(Frames) : q = disk[s].recs /\ DOMAIN q = 1..Len(q) /\ Len(q) \in Nat
  BY FileFacts DEF Listing
<1>2. ValidCount(q) \in 0..Len(q) /\ \A k \in 1..ValidCount(q) : q[k] > 0
  BY ValidCountType
<1>3. j \in 1..ValidCount(q) /\ j \in DOMAIN q
  BY <1>1, <1>2
<1> QED BY <1>1, <1>2, <1>3 DEF Counts, NoneMissingOnDisk

\* Each step counts what it takes, once.
LEMMA NextGaps ==
  ASSUME IInv, IInv', Counts, Keeps, [Next]_vars
  PROVE  GapsExact' /\ NoneMissingOnDisk'
<1>1. CASE Evict
  BY <1>1, EvictCounts
<1>2. CASE DropPending
  BY <1>2, DropCounts
<1>3. ASSUME NEW was, fate' = AfterExit(was), NoWriter, FramesFrom({})
      PROVE  GapsExact' /\ NoneMissingOnDisk'
  <2>1. gaps' = 0 /\ Missing' = {}
    BY <1>3, ExitMissing DEF NoWriter
  <2> QED BY <1>3, <2>1, NoMissing
<1>4. ASSUME NEW S, NEW v, v \notin {"evicted", "dropped"}, fate' = Mark(S, v), S \cap Missing = {},
             gaps' = gaps, FramesFrom({}) \/ FramesFrom(Range(pending))
      PROVE  GapsExact' /\ NoneMissingOnDisk'
  <2>1. Missing' = Missing \ S
    BY <1>4, MarkMissing
  <2>2. Missing' = Missing
    BY <1>4, <2>1
  <2> QED BY <1>4, <2>2, SameMissing
<1>5. ASSUME fate' = fate, gaps' = gaps, FramesFrom({}) \/ FramesFrom(Range(pending))
      PROVE  GapsExact' /\ NoneMissingOnDisk'
  <2>1. Missing' = Missing
    BY <1>5 DEF Missing, With
  <2> QED BY <1>5, <2>1, SameMissing
<1>6. CASE OpenDelete \/ AckDelete
  <2>1. FramesFrom({}) /\ gaps' = gaps
    BY <1>6, OldFrames DEF Opening, Acking, OpenDelete, AckDelete, memVars
  <2>2. PICK s \in SegIds : fate' = Mark(Readable(disk[s]), "acked")
    BY <1>6 DEF OpenDelete, AckDelete
  <2>3. Readable(disk[s]) \cap Missing = {}
    BY ReadableCount
  <2> QED BY <1>4, <2>1, <2>2, <2>3
<1>7. CASE OpenFails
  <2>1. FramesFrom({}) /\ gaps' = 0 /\ gaps = 0 /\ fate' = fate
    BY <1>7, OldFrames DEF Opening, OpenFails, NoWriter, Counts
  <2> QED BY <1>5, <2>1
<1>8. CASE AppendRecord
  <2>1. FramesFrom({}) /\ gaps' = gaps
    BY <1>8, OldFrames DEF AppendRecord
  <2>2. fate' = Mark({nrec + 1}, "refused") \/ fate' = Mark({nrec + 1}, "queued")
    BY <1>8 DEF AppendRecord
  <2>3. nrec + 1 \notin Missing
    <3>1. nrec + 1 > nrec /\ nrec + 1 \in Recs
      BY <1>8, CountsAssumption DEF AppendRecord, IInv, TypeOK, TypeHistory, Recs
    <3> QED BY <3>1, QueuedNotMissing
  <2> QED BY <1>4, <2>1, <2>2, <2>3
<1>9. CASE WriteBatch
  <2>1. FramesFrom(Range(pending)) /\ gaps' = gaps
    BY <1>9, WriteFrames DEF WriteBatch
  <2>2. fate' = Mark(Range(SubSeq(pending, 1, Batch)), "written")
    BY <1>9 DEF WriteBatch
  <2>3. Range(SubSeq(pending, 1, Batch)) \cap Missing = {}
    <3>1. pending \in Seq(Recs) /\ pending # <<>>
      BY <1>9 DEF WriteBatch, IInv, TypeOK, TypeMem, Control
    <3>2. Batch \in 0..Len(pending)
      BY <3>1, BatchType
    <3>3. PICK head \in Seq(Recs) :
            /\ head = SubSeq(pending, 1, Batch) /\ Len(head) = Batch
            /\ \A i \in 1..Batch : head[i] = pending[i] /\ i \in DOMAIN pending
      BY <3>1, <3>2, HeadAndRest
    <3>4. Range(head) \subseteq Range(pending)
      BY <3>2, <3>3 DEF Range
    <3> QED BY <3>3, <3>4, QueuedNotMissing
  <2> QED BY <1>4, <2>1, <2>2, <2>3
<1>10. CASE Seal \/ SealExhausted \/ Finish
  <2>1. FramesFrom({})
    BY <1>10, OldFrames
  <2>2. With({"written"}) \cap Missing = {}
    BY DEF With, Missing
  <2>3. \/ fate' = Mark(With({"written"}), "durable") /\ gaps' = gaps
        \/ fate' = AfterExit(Flushed) /\ NoWriter
    BY <1>10 DEF Seal, SealExhausted, Finish, Flushed
  <2> QED BY <1>3, <1>4, <2>1, <2>2, <2>3
<1>11. CASE TakeGaps
  <2>1. FramesFrom({}) /\ gaps' = 0 /\ fate' = Mark(Missing, "reported")
    BY <1>11, OldFrames DEF TakeGaps, Missing
  <2>2. Missing' = {}
    BY <2>1, MarkMissing
  <2> QED BY <2>1, <2>2, NoMissing
<1>12. CASE PowerCut
  <2>1. FramesFrom({}) /\ gaps' = 0
    BY <1>12, PowerCutFrames DEF PowerCut, NoWriter
  <2>2. Missing' = {}
    BY <1>12 DEF PowerCut, Missing, With
  <2> QED BY <2>1, <2>2, NoMissing
<1>13. CASE RotFrame
  <2>1. FramesFrom({}) /\ gaps' = gaps
    BY <1>13, OldFrames DEF RotFrame, memVars
  <2>2. PICK s \in SegIds : \E i \in 1..ValidCount(disk[s].recs) :
          /\ AtRest(s) /\ disk[s].hdr = "ok"
          /\ fate' = Mark({disk[s].recs[j] : j \in i..ValidCount(disk[s].recs)}, "rotten")
    BY <1>13 DEF RotFrame
  <2>3. PICK i \in 1..ValidCount(disk[s].recs) :
          /\ AtRest(s) /\ disk[s].hdr = "ok"
          /\ fate' = Mark({disk[s].recs[j] : j \in i..ValidCount(disk[s].recs)}, "rotten")
    BY <2>2
  <2>4. {disk[s].recs[j] : j \in i..ValidCount(disk[s].recs)} \cap Missing = {}
    BY <2>3, RottenNotMissing DEF AtRest
  <2> QED BY <1>4, <2>1, <2>3, <2>4
<1>14. CASE RotHeader
  <2>1. FramesFrom({}) /\ gaps' = gaps
    BY <1>14, OldFrames DEF RotHeader, memVars
  <2>2. PICK s \in SegIds : fate' = Mark(Readable(disk[s]), "rotten")
    BY <1>14 DEF RotHeader
  <2>3. Readable(disk[s]) \cap Missing = {}
    BY ReadableCount
  <2> QED BY <1>4, <2>1, <2>2, <2>3
<1>15. CASE WritePart
  <2>1. FramesFrom(Range(pending)) /\ gaps' = gaps /\ fate' = fate
    BY <1>15, WriteFrames DEF WritePart, memVars
  <2> QED BY <1>5, <2>1
<1>16. CASE Crash \/ Close \/ IoFails
  <2>1. FramesFrom({})
    BY <1>16, OldFrames
  <2>2. (fate' = fate /\ gaps' = gaps) \/ (NoWriter /\ fate' = AfterExit(fate))
    BY <1>16 DEF Crash, Close, IoFails, FlushFailed
  <2> QED BY <1>3, <1>5, <2>1, <2>2
<1>17. CASE \/ OpenLoad \/ OpenKeep \/ Tick \/ IdleTick \/ OpenActive \/ WriteHeader \/ StartRotate
            \/ EvictFails \/ RoomMade \/ AckStep \/ AckDeleteFails \/ RotCursor \/ UNCHANGED vars
  <2>1. FramesFrom({})
    BY <1>17, OldFrames DEF Opening, Acking
  <2>2. fate' = fate /\ gaps' = gaps
    BY <1>17 DEF OpenLoad, OpenKeep, Tick, IdleTick, OpenActive, WriteHeader, StartRotate, EvictFails,
       RoomMade, AckStep, Ack, AckDeleteFails, RotCursor, vars, memVars
  <2> QED BY <1>5, <2>1, <2>2
<1> QED BY <1>1, <1>2, <1>6, <1>7, <1>8, <1>9, <1>10, <1>11, <1>12, <1>13, <1>14, <1>15, <1>16, <1>17
        DEF Next, Opening, Flushing, Acking, Environment

\* Whatever fails and whatever the policy: the gaps waiting for a report count
\* each record that was evicted or dropped since the last one, exactly once.
THEOREM GapsAlwaysExact == Spec => []GapsExact
<1>1. Init => Counts
  <2> SUFFICES ASSUME Init PROVE Counts
    OBVIOUS
  <2>1. Missing = {} /\ Listing = {}
    BY DEF Init, Missing, With, Listing, Absent
  <2>2. gaps = 0 /\ segs = {} /\ wpc = "down"
    BY DEF Init
  <2> QED BY <2>1, <2>2, FS_EmptySet DEF Counts, GapsExact, NoneMissingOnDisk, SegsLive, Missing
<1>2. IInv /\ Keeps /\ Counts /\ [Next]_vars => Counts'
  <2> SUFFICES ASSUME IInv, Keeps, Counts, [Next]_vars PROVE Counts'
    OBVIOUS
  <2>1. IInv'
    BY NextInv
  <2>2. SegsLive'
    BY <2>1, NextSegsLive DEF Counts
  <2>3. GapsExact' /\ NoneMissingOnDisk'
    BY <2>1, NextGaps
  <2> QED BY <2>2, <2>3, NextUncounted DEF Counts
<1>3. Counts => GapsExact
  BY DEF Counts
<1> QED BY <1>1, <1>2, <1>3, InitInv, InitKeeps, NextKeeps, PTL DEF Spec
=============================================================================
