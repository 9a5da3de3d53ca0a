# Verification of Atlas EDR

TLA+ models of the Atlas endpoint sensor: the event buffer on disk
(`crates/atlas-buffer`), the agent that fills it (`crates/atlas-agent`) and the
ETW layer below it (`crates/atlas-etw`). Each model is written from the source;
`PROJECT.json` names, for every definition, the lines it stands for. TLC checks
the models on small instances; TLAPS proves, in the modules named `...Proofs`,
the properties of the writer, the reader, the store, the pipeline's order and
deadlines, the processes it blames and their Launches, the values of registry
events, the hash lane, the sensor's life, the device's file and the token
buckets for every instance.

    tlc -workers 2 -config MCStore_sink.cfg MCStore      # one run
    tlapm StoreProofs.tla                                # one module's proofs

Below, `design.md` is `docs/specs/2026-10-01-etw-sensor-design.md`.

## The system

ETW sessions call back on their own threads; the callbacks parse an event and
put it in one of two bounded queues (kernel, user). The pipeline thread takes
both queues, restores the order of time, looks up what an event lacks
(process, path, hash, user, handle), and hands complete events to the sink's
queue. Slow questions go to lanes of their own: hash workers, the expander of
short names, the reader of registry values, the seeder that names handles
opened before the sessions. The writer thread takes the sink's queue and
appends to the buffer. The buffer is a directory of segment files with one
writer and any number of readers; a cursor file says what has been delivered.
A health thread reports counters and losses through the same queue, and the
main thread watches the others and stops them in a fixed order.

| component | state | operations | what makes it hard | correct when | modules |
|---|---|---|---|---|---|
| buffer writer (`writer.rs`, `cursor.rs`, `record.rs`, `fsx.rs`) | segment files, cursor file, backlog, gaps, retry time | open, append, tick, close, ack, take_gaps | every I/O call can fail, the process can crash and the power can go between two of them; retention, torn tails, segment numbers run out | the log is in append order without repeats, every accepted record is on disk or accounted for, what was flushed survives, sealed segments are final | BufferWriter, EventLog, BufferWriterProofs |
| buffer reader (`reader.rs`) | position, open file handle | open, next_record | runs in another process, beside deletion, rotation, repair and rewriting of a failed batch | no readable record is skipped, no write in progress is taken for corruption, at-least-once delivery with ack | BufferReader, EventLog, BufferReaderProofs |
| queues (`queue.rs`) | channel and shared counter | send, try_send, recv | counter and channel change in separate steps | the counter is exact when nobody is in between, the cap bounds events | Queue |
| store (`store.rs`) | sink's queue, held reports, drop counter | event, report, close, writer loop | four threads, full queue, full backlog, failing writes, panics | every event is written or counted once; losses appear in the log | Store |
| health (`health.rs`, `counters.rs`, `win/health.rs`) | the base of the next interval | ask, snapshot, report | requests that time out, queries that fail, 32-bit counters that wrap | differences add up to the counters | Store |
| ordering (`ordering.rs`) | held events, watermark | push, next_due, flush | two unsynchronised sources, bounded hold | events leave in order of time unless later than the hold | Ordering, Pipeline, PipelineProofs |
| completion (`completion.rs`) | a line of events, pending waits | push, add_wait, resolve, cancel, drain, flush | answers in any order, deadlines, overflow | output keeps the order, nothing waits beyond its deadline | Completion, Pipeline, PipelineProofs |
| pipeline and driver (`pipeline/mod.rs`, `driver.rs`) | clock, bookkeeping of waits | push, reply, tick, stop | a stop with events in every stage | everything in flight is emitted on stop | Pipeline, PipelineProofs |
| process cache and process events (`process.rs`, `pipeline/proc.rs`) | processes by start key and by PID, halves of a Launch | start, classic start, exit, rundown, lookup by time | PID reuse, halves in either order, late or missing, a full cache | an event names the process that had the PID at its time; one Launch for each process | ProcessCache, Actors, ActorsProofs |
| network and DNS (`pipeline/net.rs`) | TCP directions, UDP flows | connect, send, close, sweep, stop | idle flows, a full table, a stop | every UDP Open has one Close | Network, Actors, ActorsProofs |
| key map and registry (`keymap.rs`, `evict.rs`, `pipeline/reg.rs`) | KeyObject to name, tombstones, waiting children | open, create, close, set, delete, early reads | names relative to bases not known yet, address reuse, eviction | a path or a value is never another key's; a name reaches all that wait for it, through any levels, and nobody else | KeyMap, Keys, KeyLevels, KeysProofs |
| seeding (`pipeline/seed.rs`, `win/seeder.rs`, `win/handles.rs`) | questions, snapshots, address changes, CPU budget, helpers | ask, snapshot, apply | a snapshot is read beside live events and applied later; a query can hang | a late snapshot names nothing it did not see; no helper's answer is another's | Keys, Files, Seeder, LaneProofs |
| files and cleanups (`pipeline/file.rs`, `cleanup.rs`, `intake.rs`) | FileObjects, requests, outcomes, confirm window | open, write, delete request, Cleanup, Close, outcome | the outcome comes before its Cleanup, Irps and FileKeys are reused, a request fails or is taken back | a Delete is reported once, for a file that is gone, and blames who asked; a missed one is counted | Cleanups, Files, Pipeline |
| path expansion (`pipeline/expand.rs`, `win/expand.rs`) | cache of short names, invalidations | expand, invalidate | the disk changes beside the walk | no answer from before a change the pipeline has seen | Expanding, Pipeline, LaneProofs |
| hash lane (`win/services.rs`, `win/hash.rs`) | jobs, cache, forgets | submit, hash, forget, close | the file is written while it is hashed; workers park and wake | an answer is what the file held; no job is forgotten | Hashing, LaneProofs |
| account names, drive letters (`win/lookups.rs`) | caches, helper's channel | name, dos_path | a slow helper, drives mounted later | one question at a time, one timeout at a time, no answer too old | Lookups, LaneProofs |
| sensor's life (`win/instance.rs`, `win/run.rs`, `win/agent.rs`, `atlas-etw/session`) | lock, sessions, consumers, threads | start, watch, stop, drop | sessions outlive the process; other programs stop and start sessions | one instance; no foreign session touched; nothing left; no event lost | Sensor |
| parsing (`atlas-etw`: `layout.rs`, `gate.rs`, `parse/`) | verdicts by version | gate, parse | layouts of two pointer sizes, newer versions, short payloads, names with NULs | every field is the bytes the logger wrote for it | Parsing |
| admission (`intake.rs`: token buckets) | buckets by PID | take | forgotten buckets, late events | the rate holds over every stretch of time | Admission |
| device identity (`win/identity.rs`) | the device's file | device_uid | racing callers, failures, power cuts | one uid for good | DeviceFile |
| watch list (`watchlist.rs`) | literal runs | pre-check | globs with classes, alternates and escapes | the pre-check hides no matching path (it does for one kind of pattern, below) | Watchlist |
| settings, dump, data directory, `paths.rs`, DNS result text, schema, proto, Windows wrappers | none that changes | | pure functions and system calls | | not modelled, see the end |

## The modules

### BufferWriter

The one writer of a buffer directory. `disk` maps a segment number to a file:
its header, its frames and how many of them a power cut cannot take. A frame
is the number of a record, its negation when its CRC is bad, or 0 for a torn
tail. `wpc` names the writer's next I/O call, so a reader, a crash or a power
cut can come between any two calls:

| code | actions |
|---|---|
| `Writer::open` | `OpenLoad` (cursor, listing, which segments to delete), `OpenDelete`, `OpenKeep` (with `recover_newest`), `OpenFails` |
| `append` | `AppendRecord` |
| `tick`, `flush_pending`, `write_from` | `Tick`, `IdleTick`, `OpenActive`, `WriteHeader`, `WritePart`, `WriteBatch`, `Finish`, `IoFails` |
| `rotate`, `make_room`, `evict` | `StartRotate`, `Evict`, `EvictFails`, `DropPending`, `RoomMade`, `Seal`, `SealExhausted` |
| `close` | `Close`, then the steps of a flush |
| `ack` | `Ack`, `AckDelete`, `AckDeleteFails` |
| `take_gaps` | `TakeGaps` |
| the machine | `Crash`, `PowerCut` (any unflushed suffix goes, a torn frame may stay), `RotFrame`, `RotHeader`, `RotCursor` |

`fate` is a history variable: what became of each record.

### BufferReader and EventLog

BufferReader extends BufferWriter with a reader in a process of its own:
`StartReader`, `ListSegments`, `OpenFile`, `OpenDeleted`, `ReadHeader`,
`ReadRecord`, `ReadNothing`, `CheckNewer`, `ReadAgain`, `LeaveUnread`,
`LeaveSegment` are the calls of `Reader::open` and `next_record` in the order
of the code. A handle opened before a deletion still reads the file, as on the
supported systems. `AckDelivered` is the transport, which is not in the
repository yet: it acks a position it has read, as the API of `ack` asks.

EventLog is the abstract specification of both: what the buffer promises its
users, without segments, cursors or flushes. Its state is whether a process
runs (`up`), how many records were appended (`n`), which the log holds
(`held`), which of them a flush covers (`safe`), which were given to a reader
(`given`), how many evictions are still to be reported (`owed`), and how many
errors and damages happened. Its steps are `Start`, `Put`, `Cover`, `Evict`,
`Drop`, `Release`, `Give`, `Report`, `Error`, `End` and `Damaged`: while the
agent runs, a record leaves the log only after it was delivered and acked, or by
an eviction that is counted where the policy counts, or because a full backlog
dropped it, which is counted under every policy, or by damage of the disk; the
end of the process or of the power takes only what no flush covered. The
property `IsEventLog` says that BufferReader implements it under the mapping
given in its INSTANCE: `held` is what the files and the queue hold, `safe` the
records a flush has covered, `given` what a reader has returned, `owed` the
gap counter.

### Queue and Store

Queue models `queue.rs` with the counter and the channel as separate atomic
steps. Store extends it with the four threads around the sink:

| thread | code | actions |
|---|---|---|
| pipeline | `Sink::event` | `Emit`, `EmitPut`, `EmitRefused`, `EmitDrop`, `PipelineCounts`, `PipelineAnswers`, `PipelineEnds`, `PipelinePanics` |
| health | `win/health.rs`, `health.rs` | `HealthAsks`, `HealthTimesOut`, `HealthSnapshot`, `HealthPut`, `HealthEnds` |
| main | `run.rs` | `StopAsked`, `DeathSeen`, `JoinHealth`, `FinalReport`, `FinalPut`, `JoinWriter` |
| writer | `store.rs` `Core` | `Receive`, `Received`, `ReceiveEnds`, `Disconnected`, `HandleEvent`, `HandleReport`, `TickIdle`, `TickWrites`, `TickFails`, `Close`, `CloseFails`, `WriterPanics` |

The log is the buffer's writer as its owner sees it: `append` accepts, reports
Full or rejects; a tick writes all or a part of the backlog or fails; close
writes it or fails. BufferWriter models the inside. A backlog that a tick drops
because the log is at its cap (`drop_pending`) is in BufferWriter only.

### Ordering, Completion, Recent and Pipeline

Ordering, Completion and Recent are the data structures of `ordering.rs`,
`completion.rs` and `recent.rs` as operators on a record: the heap with its
slots is a set of keys, the line of slots a sequence, an event its own pending
id. Pipeline composes them with the thread of `driver.rs` and
`pipeline/mod.rs`:

| code | actions |
|---|---|
| `Intake::send` | `Arrive` (an event happened at its timestamp and arrives any time later, or is refused) |
| `Running::finish` | `CloseQueue` |
| `drain`, `Pipeline::push` | `Drain` (a late event is processed at once), `DrainEnds` |
| `Lanes::replies`, `Pipeline::reply` | `Enriched`, `Expanded`, `RepliesEnd` (the tick reads the clock) |
| `Pipeline::process` | `ProcessOne`: `Ready` (exit, DNS), `ImageLoad`, `FileOperation` (rename, watchlist Open), `OperationFails` |
| `tick`: release loop, advance, emit | `ReleaseOne`, `TickEnds` |
| `stop` | the same release loop to the end of time, `Stops` |
| a lane, the clock | `Answer`, `Passes` |

The thread looks at a queue, at the replies and at the clock at one place of a
pass each; what others do in between commutes with its steps and is taken
where it looks next (`LooksAt`). Who did it, which file and which key are the
questions of Actors, Files and Keys; here actors are known, and an Open with a
short name is one whose logged path does not match.

### ProcessCache, Network and Actors

ProcessCache and Network are the tables of `process.rs` and `pipeline/net.rs`
as operators on records. Actors puts them between the machine (`Starts`,
`Exits`, `Acts`: processes start, exit, do something, and PIDs come back) and
the handlers of `pipeline/proc.rs` and `net.rs` (`ProcessStart`,
`ClassicStart`, `ProcessStop`, `Rundown`, `Call`, `Tcp`, `Udp`,
`ExpireClassic`, `Leaves`, `Sweep`, `Stop`). An event is delivered after any
delay up to the hold, a classic half later than that or never, and Windows
answers a question about a PID (`live_process`) for whoever has it then, or
not at all. History: who really acted and whom the event blames (`blamed`),
Opens without Close (`balance`), PIDs that Windows was asked about after they
had changed hands (`mistaken`), processes evicted from the cache though no exit
was recorded for them (`evicted`). The orders of the cache (the list of a PID,
the ticks of the last lookups) are sets of pairs.

Assumed: a PID rests for at least the join window before it is used again
(`PidRest`), and the Kernel-Process half is not later than the hold.

### KeyMap, Keys and KeyLevels

KeyMap is `keymap.rs`: entries with a full name, a name relative to a base
that is not known yet, an orphan's or none; tombstones of closed bases that
others wait for; eviction of the least recently used. Keys has handles that
are opened, used and closed (`Opens`, `Uses`, `Closes`, `OwnerExits`), the
callback that sees them as they arrive (`Deliver`: early map and early reads),
the pipeline in the order of their times (`RegOpen`, `RegUse`, `RegClose`,
`ApplySnapshot`, `ReadDone`, `Leaves`, `Tick`) and the seeder beside them
(`SeedBegins`, `SeedEnds`, `SeedFails`: the table is read before and after the
handles are duplicated). `truth` is what each address really is.

KeyLevels drives the same KeyMap through longer histories: tombstones, chains
of keys that wait for keys, and evicted bases need more operations than Keys
can afford with its callbacks, early reads and waiting events. The pipeline
hands the map its events in the order of their times (`Pipeline`'s
`OrderKept`), so in KeyLevels an operation and its handling are one step
(`RegOpen`, `RegClose`), beside the seeder (`SeedBegins`, `SeedEnds`) and
snapshots applied late, their names in any order (`ApplySnapshot`). Every key
has a name of its own. Lost events are not in either module. So no snapshot
names a tombstone's address for a later object, and `SeedKey`'s rule against
that (`keymap.rs:89`) is run through, but nothing shows what it is needed for.

### Cleanups and Files

Cleanups is what the callback of `intake.rs` keeps by Irp to pass Cleanup
outcomes on. Files has two threads with an Irp each that open files, write,
ask for deletes, take them back and close (`Opens`, `Writes`, `AsksDelete`,
`ClearsDelete`, `Cleans`, `Closes`), the handlers of `pipeline/file.rs` for
each of these events (operators that map the pipeline's record to the next one
and the events it reports), the seeder (`Seeds`, `ApplySnapshot`) and the
outcome window (`Expires`). `silent` is a file system that reports no
outcomes. History says which files are gone, who asked for it, who wrote.

Not in this model: renames and confirmed Opens (Pipeline), attribute changes,
the coalescing of watchlist Opens, the eviction of the map. The three values
of a POSIX outcome are one. Writes of the lazy writer carry no thread
(`Nobody`).

### Hashing, Expanding, Seeder, Lookups

The lanes beside the world they ask about.

- Hashing: `SubmitEnrich`, `SubmitForget`, `CloseLane` of the pipeline; a
  worker's pop, open, key, cache lookup, reads, second key, store and reply as
  separate steps; a writer that opens, writes and closes. A file's content is
  its version, a hash the set of versions its reads saw. Assumed, from
  `docs/plans/2026-10-06-etw-sensor-1b-3b-plan.md:142`: the first write through a handle
  changes the USN, later ones need not, the writer's close does; a mapped view
  counts as a handle through its share access. One file with one path.
- Expanding: the walk of a path with its cache (`StepLong`, `StepCached`,
  `StepLookedUp`, `WalkEnds`), the invalidations and their bound, taken with a
  job and applied one by one before its walk (`TakeJob`, `Clears`), the
  FileObject's entry that keeps the answer (`OnExpanded`), and a disk where a
  directory or a file gives its short name to its successor.
- Seeder: requests merged by kind, start-up and re-reads, the CPU budget over
  a window (`Wakes`, `Serve`, `SnapshotEnds`), the helper that names a file
  handle and may hang (`AskName`, `FirstWait`, `SecondWait`, `QueryReturns`,
  `StuckReturns`).
- Lookups: `Accounts` with its helper, timeout and failures' lifetime; a call
  takes the answers that came one at a time (`Drain`), asks and may wait
  (`Ask`, `WaitAnswered`, `WaitTimesOut`) while the helper goes on.
  `DeviceMap`, read again on a timer and on a miss.

### Sensor, Parsing, Admission, DeviceFile, Watchlist

- Sensor: processes that take the single-instance lock, install the console
  handler, clear a dead run's sessions, start theirs and the consumers, watch,
  stop in the code's order and end; each of the steps may fail, a process may
  crash. An outsider stops sessions and starts others, which take freed
  LoggerIds. Checking that a session is still ours and controlling it are two
  steps, as in the code.
- Parsing: every layout of `layout.rs`, the parser of every event and every
  read of `Reader`, over payloads a logger writes for its version and pointer
  size, cut short anywhere; the gate with the verdicts it keeps. A parsed field
  is the span of bytes the parser took for it, so reading a neighbour's bytes
  is an error even where the values agree.
- Admission: the token buckets, which past their cap forget idle processes.
- DeviceFile: `device_uid` in its steps (exists, write, flush, link, read,
  remove), by racing callers, with failures and power cuts.
- Watchlist: `last_literal_run` over every pattern up to a length, and longer
  ones of brackets and negations, against the paths a glob matches. What a glob matches is globset's and so external.

## Abstractions

- A record is a number with a length; framing, CRC and encoding are "whole
  and valid", "bad" or "torn". A report is its kind, its number and the
  writer-side losses it carries; the counters' differences are summed in
  `told`. One counter of each kind stands for all of its kind: read through
  the pipeline, 32-bit and wrapping, always readable.
- One directory listing is one step. The rename that stores the cursor is
  atomic and durable, as the code's write-sync-rename intends.
- `recover_newest` is one step: the writer is alone until open returns, and a
  crash inside it leaves either the old file or the cut one.
- Damage on the disk (`Rot...`) hits files at rest only: of a segment the
  writer is appending to, the model follows what the writer wrote.
- Time is abstract: a retry time or a period has passed or not; where a
  property is about time (Pipeline, Actors, Seeder, Lookups, Admission) it is a
  clock of small numbers.
- A counters answer that arrives after the timeout goes to a dropped channel
  and changes nothing.
- What a process, a key or a file is known by (user, integrity, command line;
  value names; sizes) is one opaque detail. Case folding is left out.
- Components that share no state are checked in one run, one in each
  behaviour (`running`): in `lanes` the buffer's writer or one of the lanes
  and lookups (MCLanes), in `sensor` the sensor's life, the parsing, the DNS
  buckets, the device file, the watch list or the levels of registry keys
  (MCSensor).

## The runs

A run's property is often a conjunction of named parts; they are in brackets.

| run | instance | checks |
|---|---|---|
| `lanes`: the writer | 4 records of which one is larger than a segment and fills most of the cap, 3 segment numbers, DropOldest, 1 failing call, 2 ends of the process, 1 damage | `TypeOK`, `LogInOrder`, `NothingVanishes`, `FlushedSurvive`, `SealedFinal` |
| `reading` | 4 records of which one is larger than a segment, DropOldest, with and without ack, 1 failing call, 1 crash or power cut | `ReaderOK` [`RTypeOK`, `NoSkip`, `NoFalseCorruption`, `AckedWereDelivered`], `IsEventLog` |
| `progress` | a flood over the cap ending in a record larger than a segment, HeadTail, 1 failing call, fairness | `GapsExact`, `EvictionSafe` [`CapAfterRestarts`, `HeadKept`, `ReadInOrder`], `Progress` [`QueueDrains`, `WritesAreFlushed`, `CatchesUp`] |
| `sink` | queue of 1, backlog of 2, 3 events of which one is too large, 1 failing write, panics, fairness | `SinkOK` [`StoreTypeOK`, `CountExact`, `SinkBounded`], `EveryEventAccounted`, `LogRight` [`WrittenInOrder`, `LogAccounts`], `StopEnds`, `ReportsCome` [`HeldWritten`, `DropsReported`] |
| `reports` | counters that wrap at 2, timeouts, failing queries, 1 eviction, panics | `ReportsRight` [`ReportedOnce`: `GapsReportedOnce`, `CountersReportedOnce`; `FinalReportLast`] |
| `pipeline` | an Irp used twice, the second operation failing, an image load, a DNS answer, at most 4 of them; queues of 2 and 1, pending cap 2, hold 1, window 2, deadlines 1; answers at any time or never; fairness | `OrderKept` [`PipelineTypeOK`, `StreamOrder`, `EmittedInOrder`, `OverflowTakesOldest`], `OutcomesRight`, `PendingOK` [`BooksOfPending`, `LeavesInTime`, `CleanStop`], `PipelineEnds` |
| `actors` | two processes that share a PID, cache of 2, one flow, clock to 4, 2 activities; halves lost, the classic one late | `TablesOK` [`ActorsTypeOK`, `OpensClosed`], `BlamedRight`, `OneLaunch` |
| `keys` | two addresses, one opened before the sessions, a map of 1 or 2, 3 operations, 2 events under way, one re-read | `NameRight`, `DataRight` |
| `sensor`: the levels of keys | three addresses, one opened before the sessions, a map of 1 to 3, 6 opens, closes and uses, one snapshot | `LevelsRight` [`KeyMapOK`, `NobodyForgotten`, `Lineage`] |
| `files` | two threads, two FileObjects, one FileKey that is reused, 5 operations (4 on a silent file system), window 2 | `FilesOK`, `DeletesOK` [`DeletesRight`, `DeletesCounted`], `UpdatesRight` |
| `lanes`: the lanes, the lookups | two workers, lane and hash cache of 1, 2 jobs, 2 writes; 3 paths to expand, 2 changes of the disk, list of 1, cache of 2; 5 seeds, CPU limit 2 in a window of 2, 1 stuck helper allowed; 3 SIDs, cache of 2; 3 mounts | `HashOK` [`HashFresh`, `HashLaneOK`], `ExpandOK` [`NoStaleName`, `EntryExpanded`, `ExpandBounds`], `SeederOK` [`NamesMatch`, `BudgetKept`, `NeitherStarves`], `LookupsOK` [`AccountsOK`, `DevicesOK`] |
| `sensor`: the rest | two processes, 3 tries, 1 crash, 2 acts of an outsider; every event, version and pointer size, payloads cut at 0, 1, 2, 3, 6 and 12 bytes; 2 PIDs, one bucket, 6 queries; 3 callers of `device_uid`, 1 failure, 1 power cut; patterns to 5 characters, and to 8 of `[`, `]`, `!` and `a`, paths to 2 | `SessionsOwned` [`OneInstance`, `ForeignUntouched`], `NothingLeft`, `NoEventLost`, `ParsedRight` [`FieldsRight`, `AllParsed`], `RateKept`, `DeviceKept`, `PreCheckSound` |
| `final` (violated) | a failing write and a full backlog at the stop | `FinalReportWritten` |
| `precheck` (violated) | patterns to 8 characters of `[`, `]`, `!` and `a` | `RunInMatches` |

Why the bounds are enough: two ends of the process let a recovery be followed
by the recovery of its result; three segments give an old, a sealed and an
active one, and running out of numbers; the cap is the smallest that
`Config::validate` accepts (four segments), and the flood exceeds it; a queue
of one and a backlog of two are full after one and two events, with a third
event to be refused; a counter that wraps at 2 wraps at the second loss. A PID,
an address, a FileObject, a FileKey and an Irp are each used twice, which is
what confuses two owners; every table is smaller than what it must keep, except
the maps of Files. A snapshot that is late by one operation shows what a later
one would. Two processes and one outsider are what a race for a session needs.
The levels of keys with six operations reach a tombstone (three: open 2 below 1
and 3 below 2, close 2), its going with the last that waits (four), two
tombstones, a tombstone that a snapshot names, before and after it closed,
names that go down two levels, and an evicted base that is still waited for;
two tombstones, one below the other, that go in one step take seven. `keys`
itself, with two addresses and three operations, reaches no tombstone: its
question is what an event is told, over late deliveries, reused addresses and
early reads. In `files` one guard is out of reach: that the Delete of a new
file under a reused FileKey is not taken for the second report of a POSIX
delete (`since` in `Second`, `file.rs:549`) shows with six operations. One
thread with six (2.9 million states, five minutes on four workers) is too long
for a run to keep: the properties held there, and without the guard `DeletesOK`
did not.
`progress` has no restart, so there the term of `CapAfterRestarts` for restarts
is zero.

Deadlock is checked except where the program ends or an instance uses up its
operations: in the Store runs after the stop, in `keys`, `files`, `lanes`,
`sensor` and `precheck` at the bounds. The writer's behaviours of `lanes` bound
the segment numbers tightly so that the log can also be exhausted.

### Fairness

Buffer (`progress`): weak fairness of the writer's ticks and of the calls it
has begun (the owner calls tick on a timer, and a call returns), and of the
reader's polls. Nothing forces appends, faults or acks. Store (`sink`): weak
fairness of each thread, and strong fairness of a tick that writes: the flush
interval and the retry time pass however often other messages arrive.
Nothing forces a Ctrl+C, a panic, an event or an answer. `MaxFails` bounds
failing writes: held reports come through once the disk works again.
Pipeline (`pipeline`): weak fairness of the thread only. Time need not pass and
no lane need answer: a pass never blocks, and once the senders are gone the
thread must end. The bound on an event's delay is the invariant
`LeavesInTime`, stated on the clock instead of with fairness. `MaxClock` stops
time only when nothing present waits for it (`Horizon`). The seeder's turns are
an invariant on its clock too (`NeitherStarves`).

### Where a property allows an exception

- `NoFalseCorruption`: after damage at rest, and once the agent has ended
  twice, the case "corrupt" below.
- `BlamedRight`: an event blames another process with the same PID only if the
  cache did not know the one that acted (its start was lost or evicted), or
  Windows was asked about a PID that had changed hands. `OneLaunch`: for a
  process whose Kernel-Process half is not later than the hold and that was
  not evicted, the case "evicted" below.
- `NameRight`: where the map evicts nothing (an evicted entry no longer stops
  an older snapshot), and but for `Moved`, the case "reopened" below.
- `DeletesRight`: on a silent file system a Delete is a guess; a failed request
  takes back a standing one of another process (`file.rs:626`, as
  `design.md:199` describes), so the actor may be the closer; `spanned` is the
  case "twice" below. `DeletesCounted`: an outcome and a Cleanup that overtake
  each other twice are counted as unpaired.
- `Files` assumes that an operation and its outcome arrive within the window of
  each other (`design.md:264`).
- `NoStaleName`: a short name below a directory that has gone itself is looked
  up again after the change and may stand for its successor. `EntryExpanded`:
  a FileObject closed and opened again on the same short path takes the answer
  of the first question, which is a long form of the path it asked for.
- `ForeignUntouched`: a session of our name and our LoggerId cannot be told
  from ours; one that got them between the check and the call is `raced`.
  `NothingLeft`: a console close that outlasts `CLOSE_WAIT` is a crash.
  `NoEventLost`: the stop waits ten seconds for the consumers.
- `DeviceKept`: the directory entry is not flushed, so a power cut can take the
  link, and a second uid is made; that case is counted (`lost`) and excused.
- `ParsedRight`: `Unsure`, the case "parsing" below.
- `LevelsRight`: names where the map evicts nothing, as in `NameRight`; its
  links at every cap.
- `PreCheckSound`: a pattern with a class that begins with two negation signs
  (`NegatedTwice`), which the run `precheck` is about.

### What the violated runs show

`final`: at the stop, with a full backlog after a failed write, the final
report is held; close retries the held reports first (no room), then writes
the backlog successfully, and the held reports end with the thread. The comment
at `store.rs:321` says "what is held, then what is queued, is written".

`precheck`: `last_literal_run` moves the start of a class's members past every
negation sign it finds there (`watchlist.rs:115`), globset past one. In
`[!!][]a]` the first class is "not `!`" and the second "`]` or `a`", so the
pattern matches `,]`. The code takes the first `]` for a member, which leaves
the last `a]` outside of any class: the run is `a`, and the path is hidden. The
comment at `watchlist.rs:104` says "every path it matches contains that run".
Only an administrator's pattern can look like that, and `PreCheckSound` shows
that within the bounds nothing else goes wrong.

### Disagreements without a run

The checked properties allow for these; each was a counterexample first.

- newest: the comment at `reader.rs:107` says "The newest segment is never
  deleted, so there the error is real." The one that was newest at the
  reader's listing can be sealed and evicted before the open, and next_record
  returns the error.
- corrupt: `design.md:459` says "Older segments were sealed by a clean
  rotation and are not rescanned." Open flushes the newest segment only when
  it had to cut it (`writer.rs:495`). After a crash of the process and a
  restart, a power cut can tear the tail of a segment that is no longer the
  newest; it is never repaired and the reader counts corruption.
- recycled: `design.md:264` matches a failure to "the most recent pending event
  with the same `Irp` and an earlier timestamp". The code at `file.rs:632` takes the
  latest held for the Irp and compares no timestamps, so a failure later than
  the hold cancels the operation that used the Irp after it.
- reopened: `design.md:412` says "a seeded name answers an event only if no
  Create, Open or Close for the address came after the earlier of the event and
  the snapshot." The answer (`reg.rs:304`) looks at the changes of the address
  it waited for, a base's, and then resolves the event's own address, which may
  have been closed and opened again meanwhile.
- twice: `file.rs:542` says of the second outcome of a POSIX delete "Report it
  once." A handle that the seeder named (`seed.rs:254`) is as old as the
  snapshot, whose time is taken after the handles were read
  (`win/seeder.rs:239`); if the delete came before, the handle looks too new
  for the second outcome to be its own, and a second Delete is reported.
- parsing: `parse/mod.rs:9` says of a payload "one shorter than the layout is
  an error". A SetValueKey with captured data cut short can read as another
  whole one, and a name with a NUL is cut at the NUL when the payload is short.
  A name that contains what looks like an empty trailer is flagged ambiguous
  and read right.

### Seen while modelling

- Gap counts include records of the evicted segment that were already acked
  (`writer.rs:401`).
- When one oversized record fills the cap in the active segment, make_room has
  nothing to delete; under the other policies than DropNewest, too, new
  records are dropped until a restart (`writer.rs:354`).
- open starts a segment without make_room, so each restart can exceed the cap
  by a segment (`writer.rs:116`); `CapAfterRestarts` states the bound that
  does hold.
- Evictions after the completion of the final report are in no report.
- try_send can refuse although the channel holds fewer than cap messages: the
  counter includes another sender's refused message and the one just taken
  (`queue.rs:35`). Refusals are counted, so `EveryEventAccounted` holds.
- A late operation queued behind a newer one in its confirm window is
  confirmed only after that one (`file.rs:744`); `LeavesInTime` allows for it.
- A failure at exactly the end of the window is too late when it comes in
  order (`file.rs:745`), and in time when it came before its operation
  (`file.rs:300`).
- A failure whose own operation was refused by a full queue can cancel an
  earlier operation on the Irp.
- "evicted": `launch_expiry` asks the cache whether the Kernel-Process half came
  (`pipeline/proc.rs:186`). A process evicted in between, though it still runs,
  gets a second Launch when its classic half is later than the join window. TLC
  finds that with a cache of one process; the code's cache has to be full of
  processes for it.
- The second comparison of the file's key in the hash worker can only differ
  when a USN repeats, which the model's file never does.

### Sensitivity

`PROJECT.json` gives a mutant for each property. For the properties that join
several, these mutants, defined beside what they change, break the other parts:

| run | property | mutated definition → mutant |
|---|---|---|
| `reading` | `ReaderOK` | `AtRecord` → `AtAnyFrame`, `LeaveSegment` → `LeaveUnread`, `AfterListingAndCursor` → `AfterListing` |
| `reading` | `IsEventLog` | `SyncFile` → `UnsyncedFile`, `EvictFails` → `EvictFailsCounted` |
| `progress` | `EvictionSafe` | `NeedRoom` → `NeedRoomLate`, `NextSegment` → `RestartSegment` |
| `progress` | `Progress` | `NeedIO` → `NeedIOQueued`, `Batch` → `BatchOfFits` |
| `sink` | `SinkOK` | `Full` → `FullLate`, `Fits` → `FitsWithoutIt` |
| `sink` | `LogRight`, `ReportsCome` | `Hold` → `HoldFirst`; `Retried` → `RetriedShort` |
| `reports` | `ReportsRight` | `GapsLeft` → `GapsRead`, `PipelineJoined` → `PipelineNotJoined` |
| `pipeline` | `OrderKept` | `FirstPending` → `LastPending`, `NextUntil` → `NextArrived`, `Gone` → `GoneStillForced` |
| `pipeline` | `PendingOK` | `Watermark` → `WatermarkStill`, `DrainEnds` → `DrainEndsEarly` |
| `actors` | `TablesOK` | `Removed` → `RemovedByKey` |
| `sensor` | `LevelsRight` | `OrphanChildren` → `StillWait`, `CloseKey` → `RemoveAtOnce` |
| `files` | `DeletesOK` | `Second` → `SecondNever` |
| `lanes` | `LogInOrder` | `NextSeq` → `WrappingSeq` |
| `lanes` | `HashOK`, `LookupsOK` | `NotifyOne` → `NotifyNone`; `MissedJustNow` → `MissedAgain` |
| `lanes` | `ExpandOK` | `Unresolved` → `UnresolvedKept`, `SameFile` → `AnyFile` |
| `lanes` | `SeederOK` | `Allows` → `AllowsFull`, `NextOldest` → `NextNewest`, `Paused` → `PausedLate` |
| `sensor` | `SessionsOwned`, `ParsedRight`, `DeviceKept` | `IsCurrent` → `Unchecked`; `CountedWStr` → `FirstNul`; `MayLink` → `Replaced` |

## The proofs

| module | theorem | what holds in every reachable state (or step), for every value of the constants |
|---|---|---|
| BufferWriterProofs | `TypeCorrect`, `LogAlwaysInOrder`, `SealedNeverChange` | types; the log is in append order without repeats; a sealed segment changes only by damage or the end of the process |
| | `NothingEverVanishes`, `FlushedAlwaysSurvive`, `GapsAlwaysExact` | every record is queued, on disk or accounted for; a flushed one survives; the gap count is exact |
| BufferReaderProofs | `ReaderAlwaysOK` | `ReaderOK`: a reader passes no record it could read, what is acked was delivered, no write in progress is taken for corruption |
| | `LogImplemented` | `IsEventLog`: BufferReader implements EventLog, from the first state and at every step |
| StoreProofs | `SinkAlwaysOK`, `EventsAlwaysAccounted`, `LogAlwaysRight`, `ReportsAlwaysRight` | all invariants of Queue and Store |
| PipelineProofs | `PipelineInvariant`, `OrderKeptAlways`, `PendingOKAlways` | `PInv`; events are processed by time and emitted as produced, the oldest pending one is forced; what waits leaves in time, with its books, and before the stop ends |
| KeysProofs | `KeysInvariant`, `DataRightAlways` | `KInv`; what was read for a value's event is a value of the event's own key |
| ActorsProofs | `ActorsInvariant`, `TablesAlwaysOK` | `AInv`; the cache's index, orders and cap, the network's tables and caps, one Close for each UDP Open |
| | `BlamedAlwaysRight`, `LaunchedOnce` | no event is blamed on another process with the PID; one Launch for each process, with its own command line |
| LaneProofs | `HashAlwaysOK` | `HashOK` of the hash lane |
| | `LookupsAlwaysOK` | `LookupsOK`: an account asked for is at one place until its answer is kept, one timeout at a time; a drive letter was the volume's within the refresh period |
| | `SeederAlwaysOK` | `SeederOK`: names are of their handles, few helpers hang, the CPU budget holds over every window, a kind waits two windows at most |
| | `ExpandAlwaysOK` | `ExpandOK`: no answer names what the pipeline had seen replaced, an entry keeps a long form of its own path, the caps hold |
| SensorProofs | `SessionsAlwaysOwned`, `NothingEverLeft`, `NoEventEverLost` | all invariants of Sensor |
| | `RateAlwaysKept`, `DeviceAlwaysKept` | `RateKept` of the token buckets, `DeviceKept` of the device's file |

The bounds of the models (`MaxRecs`, `MaxEvents`, `MaxFaults`, ...) are any
natural numbers and sets of processes, workers and callers are any sets, so a
theorem holds for as long a run as one likes. The assumptions on the constants
are named in the modules that declare them:

- `CountsAssumption`, `ConfigAssumption` (BufferWriter): what
  `Config::validate` accepts. `KindsAssumption` (BufferReader): a reader is
  external or in the agent's process.
- `QueueAssumption`, `StoreAssumption`: `Cap` and `HeldCap` at least 1 as in
  the code's constants, an empty backlog has room for a report, a counter that
  wraps at 2 or more, and the three senders.
- `HoldAssumption` (Ordering), `CapAssumption` (Completion), `RecentAssumption`,
  `InputAssumption` and `NoneAssumption` (Pipeline): a hold and windows of any
  length, deadlines and queue caps of at least 1, and no timestamp within a
  window of the end of time, which `stop` releases to (`i64::MAX`).
- `KeysAssumption`: `Before` is about addresses. The proof needs no more of the
  caps and bounds.
- `ActorsAssumption`: the processes that run from the start have different PIDs,
  and what processes do is what the handlers know. `CacheAssumption`,
  `NetworkAssumption`: caps of at least 1. `LaunchedOnce` has a hypothesis of its
  own, that a PID rests for the join window: with less, the halves of two
  processes on one PID are within the window of each other and the code joins
  them.
- `SensorAssumption`: at least one try for the lock; no process is named
  `"none"` or `"outsider"`, which stand for the owners of other sessions.
- `HashAssumption`: some finite number of workers, caps of at least 1.
  `LookupsAssumption`, `SeederAssumption`, `ExpandAssumption`: caps, periods and
  limits of at least 1 as in the code, and no account named as none is.
- `DeviceAssumption`: the bounds are numbers.
- `AdmissionAssumption`: an idle bucket is older than a second and the most an
  event is late by, as the code's ten seconds are for events up to nine seconds
  late.

### BufferWriterProofs

`LogInOrder` is not inductive: that a new batch keeps the order depends on
what is queued, on where it will be written and on the numbers of the
segments. The inductive invariant `IInv` is the conjunction of

- `TypeOK`;
- `Control`: what each value of `wpc` goes with (nothing queued and no file
  open while no process runs or open is at work, something queued while a
  batch is written, an active segment whenever a process runs);
- `Numbers`: no file sorts after the active segment, and open visits the files
  in order, below the segment it will start;
- `ActiveFile`: the writer's length of the active segment is never more than
  its file has, and less only while a failed write is to be cut;
- `Ages`: what is queued is in order and newer than every frame on disk, but
  for the remains of a failed write past the active segment's length;
- `LogInOrder` itself.

The induction step has one lemma per action and a step per conjunct the
action touches. Actions that only shrink files (crash recovery, power cut,
damage) share a lemma: a prefix of each file keeps the order. The second half
of the module is about what the writer keeps.

`NothingVanishes` says that a written record is readable somewhere, which a
step can break although it held: an append behind a damaged frame of the
active segment would be unreadable, a cut of a failed write could take too
much. `Keeps`, on top of `IInv`, says where each record is: `QueueRight` (the
records with the fate "queued" are those in the queue), `GoodPrefix` (the
active file is good up to the length the writer believes), and `Placed` (a
"written" record is in the active segment and a flush is still to come, an
"orphan" is at a place where a reader finds it, a "durable" one at such a place
below what a power cut can take). `At` names such a place, and each action has
a lemma on which places survive it. `GapsExact` compares counts: it needs that
an eviction's records are those `Placed` in the segment and no others.

### BufferReaderProofs

`NoSkip` speaks of the reader's position and the files. A writer's step can
break it although it held: a write that appears behind the position, in a
segment the reader has left or in the place of a failed one it has read. And
`AckedWereDelivered` speaks of the cursor in memory and on disk, which outlive
the reader. The invariant `RInv` is

- `IInv` and `Keeps` of the writer, and the reader's types and control;
- `Marks`: `MarkOK` of each position that matters, `MarkSet`: the reader's, the
  two cursors and the one a transport may ack next. `Covered`: what can be read
  before it was delivered. And the writer is not behind it, so later writes go
  after it, with one exception: a reader can read whole records of a batch whose
  write failed or still runs, and the position is then past the writer's length;
- `Remains` and `NoneFits`: for that exception, what lies past the writer's
  length are records of the next batch, in their places, so that the write that
  follows puts what was delivered where it was (`InBatch`, `Rewritten`), and no
  rotation comes in between;
- `Position`: a segment the reader leaves, or reads after its deletion, is
  `Past`: for a reader in another process there is a newer file, for a transport
  its writer has left the segment;
- `CleanInv`: as long as nothing was damaged and the agent ended once at most,
  only the newest segment has a torn frame or header, because the first power
  cut finds all others flushed.

Each writer action is of one of four kinds, with a lemma on what becomes of a
mark: the files only shrink (`AllShrunk`) and the writer stays in its place
(`Calm`), a batch is written, a new segment is started, no writer runs.

The refinement of EventLog is a step simulation. `LInv` adds to `RInv` the
exact count of `GapsAlwaysExact` (`Counts`), that an ack deletes behind its
cursor only (`AckTodo`) and that a file shows no record before it is offered,
not even a deleted one a reader still holds open (`AllOffered`). For each kind
of step one lemma says what becomes of `Held` (what the files and the queue
show) and `Durable` (what a flush covered), and a second one which step of the
log that is:

| steps of the buffer | step of the log |
|---|---|
| `AppendRecord` | `Put`: a refused record is offered and not held |
| `Seal`, `Finish`, `SealExhausted` | `Cover`, or `End` in the last call |
| `OpenActive`, `WriteHeader`, `WritePart`, `WriteBatch` | stutter: a written record leaves the queue for the file, and the cut of a failed write takes what is queued again |
| `Evict` | `Evict`: the scan of the segment counts what a reader would have found |
| `DropPending` | `Drop` |
| `OpenDelete`, `AckDelete` | `Release`: what is behind the acked position was given to the reader (`Marks`) |
| `TakeGaps` | `Report` |
| `OpenLoad` | `Start` |
| `OpenKeep` | stutter or `Error`: recovery cuts what no reader could find |
| `Crash`, `PowerCut`, `Close`, `OpenFails` | `End` |
| `RotFrame`, `RotHeader`, `RotCursor` | `Damaged` |
| `ReadRecord`, `ReadAgain` | `Give` |
| all others | stutter or `Error` |

The proof found a mistake of the specification. EventLog had one step for
evictions and drops, counted unless the policy is Retention. But a backlog that
is dropped because one record fills the cap is counted under Retention, too
(`writer.rs:354`), which TLC confirmed on an instance with that policy; hence
`Drop`.

### StoreProofs

None of the four properties is inductive, and each needs most of the others,
so there is one invariant, `StoreInv`:

- `Types`; `SenderControl` and `WriterControl`: where a thread is when it has a
  message in its hands, what has ended when `main` is past a join;
- `QueueInv`: the counter, less the messages in hands and the uncounts still to
  come, is the length of the channel while the receiver exists; events within
  the cap;
- `AddingInv`: what a sender holds is the newest of its kind;
- `OrderInv`: `Line`, which is the log, the backlog, the held reports, the
  writer's message and the channel in this order, has ascending numbers for
  each kind, all below what senders hold. Holding a report moves it behind newer
  events, but not behind newer reports, which is why the order is by kind;
- `AccountInv`: what is on the line, in hands, counted as dropped or rejected
  or about to be is what was emitted;
- `CounterInv`: the reports add up to the base of the next one, modulo `Wrap`
  for the 32-bit counter;
- `FigureInv`: as long as no report is missing, the completed reports tell
  exactly the drops, rejections and gaps that `Core` believes reported. A
  report that is given up takes its figures with it, and then only `<=` holds;
- `FinalInv`: nothing is sent after the final report, it has the newest number,
  and nothing is dropped or rejected after it was completed;
- `RoomInv`: backlog and held reports within their bounds.

The lemmas state what the concatenation of sequences does to order, to the
count of events (`EventsIn`) and to the sums of a report's field (`Told`).
`MoveEvent` and `MoveReport` say that a message that goes from one part of the
line to the next changes none of them, and most writer actions are such moves.
`ModDiff` is what the 32-bit difference of two readings is. In the model
`EventsIn` and `Told` are cardinalities of sets, of places and of pairs of a
place and a unit: a fold over the sequence would need induction over data to
prove anything about.

### PipelineProofs

The order of events is kept by what each stage holds, and not one of
`StreamOrder`, `EmittedInOrder`, `OverflowTakesOldest`, `BooksOfPending`,
`LeavesInTime` and `CleanStop` is inductive without the others' state. `PInv`
joins them with

- `Types` and `Control`: the types, and where the thread may be;
- `Queued`: an event that was taken in is in one place, its queue, the ordering
  stage or in process, so none is made twice (`MadeOnce`);
- `CompOK`: the line is in the order of `made` and has a slot for every pending
  event (`LineKept`); the order queue has, in the same order, every pending
  event that is not forced, and all forced ones are before it
  (`OverflowKept`), though it also keeps events that left by other ways;
  no more than the cap are pending and not forced (`CapKept`);
- `SinkKept`: the sink has what is before the line, in order;
- `TimeKept`: stream time is the hold behind the clock and never past what the
  ordering stage holds, so what is released later is not earlier;
- `WaitsKept`: a wait without a deadline is for an operation Files still holds.
  The held operations are confirmed from the front, by their own timestamps;
  `InWindow` says that one still pending has an operation at or before it
  whose window is open, or entered late. That is the bound in `LeavesInTime`,
  which cannot be the operation's own window: a late event behind one with a
  long way to go waits with it;
- `StopKept`: a queue that was found empty after its senders were gone stays
  so, which is why a stop that saw it loses nothing.

`At` is the position of an event in a sequence without repetitions; all
orders are compared through positions in `made`. The lemmas are about the data
structures first: `TakenFacts` and `OutFacts` (a drain emits the slots before
the first blocked one in order), `ForceOldestFacts`, `GoneFacts`, `AfterFacts`
and `PushPendingFacts` keep `CompOK`, `StepFacts` and `EmitsKeep` are one round
of the release loop and the emission, `LineInTime` that whatever a tick
leaves in the line is within its deadline. `HandlerInv` takes the handlers'
shared frame (`HandlerFrame`) together, then each handler has its own lemma.
The drain and the cancellations are written in the model without folds, as
the elements at a set of positions (`Taken`) and as one change of a set of
events (`ResolveAll`, `Gone`), so that they can be proved about.

### KeysProofs

`DataRight` says that the data on a value's event was read from the key the
event names. Three parties can break it: a read that comes back after the
event's path was settled another way, a seeder's answer for an address that was
used again, and an early read that started before the path was known. `KInv`:

- `MachineOK`: every operation has a time of its own and is under way or handled,
  not both. That is what makes a time good as an event's identity;
- `EventsOK`: data is only there on a full path, and is of that path; while an
  event waits for a read, every read under way for it is for its path; while it
  waits for the seeder, nothing was read and nothing is being read;
- `ReadersOK`: a read that is not early is for an event already handled, so a
  later event with the same address cannot be taken for it;
- `WaitersOK`: the books (`reg.waiting`, `reg.reads`) have one entry for each
  event that waits, and none for others.

No handler keeps one of these without the rest: `AnsweredInv` (the seeder names
a key, and the event takes an early result or starts a read) uses all four. The
key map itself does not occur: whatever name it gives, the value is read from
the key of that name. That the name is right (`NameRight`) is the key map's
part, and the map's own books are `LevelsRight`'s; both are about `KeyMap`'s
folds over the waiting children, so TLC checks them.

### ActorsProofs

Who had a PID at some time is known to the machine; the pipeline has events
that are up to the hold old, a cache that loses entries, and answers of Windows
about now. `AInv` relates them:

- `PidsOK`: of two processes with one PID, one had exited and its PID had
  rested before the other started. All the rest is about telling these apart;
- `EventsOK`: an event under way is of a process that was alive at its time, and
  older than stream time only if its kind may be late; each start is under way
  once;
- `HalvesOK`: a half that waits is of a process with the PID it waits under, from
  the time this process started, and its Launch is of the same process;
- `EntriesOK`: the start the cache has for a process lies in its life (`Fits`),
  unless Windows was asked too late, and it has an end only if the process has;
- `LaunchesOK`: a process with a Launch has no start to come, and while it runs
  the cache knows it or evicted it. This is what keeps `launch_expiry` from a
  second Launch, and it is why `OneLaunch` excepts evicted processes: TLC
  found that it does not hold without;
- `CacheOK`, `Capped`, `NetOK`: the books of the tables.

`NamedRight` is the argument for `BlamedRight`: `lookup_at` takes the latest of
the entries of the PID that had started by the event's time; each of these
starts lies in the life of its process, and the lives are apart, so an entry
that is not the process's own and starts later would start while it lived.
Each step lemma says what may become of the cache (`Becomes`: an entry goes
when it has ended or as an evicted one, and keeps its start), which is all the
other parts need of insertion, end, expiry and eviction. That a cap can always be
kept by removing the oldest (`evict.rs`) needs that a finite set with a strict
order has a set of n first ones (`FirstOnes`), by the least n that has none.

### LaneProofs

The lanes share no state, so each has an invariant of its own and the module
four parts.

`HashOK` joins the staleness of answers with the lane's bounds. `HInv` adds
`CountInv` (the counter of invalidations is those in the channel and one token
for each a worker took and has not applied), `KnowsInv` (what a worker knows at
each of its steps) and `BoundInv`: the cache answers by USN, so a content bound
to a USN, by the cache or by a worker about to store it, must be no older than
the open of any job that asks with this USN. That a job is not forgotten is
`Parked # Workers` whenever something waits.

`LookupsOK`: `Apart` and `OnTheWay` say of the three places of the channels what
`AccountsOK` says of their concatenation, and `TimeoutsOnce` that a caller who
waits found the helper not stalled. `DevicesOK` speaks of a lookup now; what
holds between lookups is `Seen`: the map's drive was the volume's when the map
was read, and changed since, if at all.

`SeederOK`: between two requests the helper has neither job nor answer, and during one
it has the one that is waited for (`HelperOK`), which is what setting a helper
aside is for. `Kept` is the budget over every window; it is kept because a
re-read begins below the limit (`Begun`) and `Pruned` drops only what has left
the window. `TurnOK` dates what waits: no snapshot was charged since it came, or
one, within the window after, and then it is the oldest; the lane sleeps no
longer than until the oldest charge leaves the window.

`ExpandOK`: the cache can be stale while invalidations wait, and an
invalidation is logged with a path whose short names may stand for other
directories by the time it is applied. So the invariant numbers the changes:
`PathsOK` says of each path that waits, in the pipeline, in the queue or with
the lane, that it is the path of the change of its number (`DirPath`,
`FilePath`), and `FreshTo` that the cache is rid of everything the first
`Applied` of them took, but for the entries under a directory that has gone
itself. `Invalidated` is the induction: the next path either cannot be resolved, and
the cache is cleared, or it resolves to the very entry that went stale
(`DirFound`, `FileFound`). For a file this needs that its directory's entry is the
one of now, which `FreshTo` of the changes before gives, and that files of the
present directory went after the directories before it (`DiskOK`). When
invalidations were lost, `Applied` is 0 until the lane clears its cache. The
answer being made is as fresh as the cache was (`OutFresh`), and `EntryOK` ties
the asked path to the lane's job, so that `SameFile` is enough.

### SensorProofs

`LockInv`: there is one generation of the private namespace while anyone has
it open, and its mutex is with the one run past `acquire_as`. `SessOK`: in
which steps a run may own a session of a name, under which LoggerId, and that
what `check_current` found stays so until the call unless an outsider came
between. The threads' part follows the consumers and the pipeline from spawn
to join, through each failure of the start; the events' part (`NoEventLost`)
says that an event is with the session, the consumer's buffers, the queue or
the pipeline, in this order, and that none is left in an earlier place once a
later step of the stop is reached.

The token buckets: `RateKept` looks at passed events only; the invariant `AInv` relates them to
the bucket. `Paid`: what the events from any one on and the tokens left cost is
covered by a full bucket and the ticks since that event. A late event is
compared with its own time, not with the bucket's, so `Paid` is not enough:
`PaidAtEvents` adds that, while there is a token, the ticks up to one of these
events cover it, because a refill without a pass leaves less than one token.
`Long` is about a process without a bucket: its events are so old that a new
bucket, full again, is no more than the old one would hold. Amounts are in
`Frequency`-ths of a millitoken, so that the quotient of `Refilled` is only
used as a lower bound (`QuotientLow`).

The device's file: `DInv` needs that what is linked was flushed first, that the caller that linked
finds its own uid, and that each uid given out and not in the file costs a
power cut that lost the link.

### Only model-checked

- Liveness (`Progress`, `StopEnds`, `ReportsCome`, `PipelineEnds`) needs
  fairness and ENABLED, which are out of the prover's reach.
- Sums of the lengths of segments (`CapAfterRestarts`, `HeadKept` in
  `EvictionSafe`) and what the folds of KeyMap and Watchlist compute need
  induction over data.
- `OutcomesRight` of Pipeline, which compares every pair of operations on a
  recycled Irp across the queues, the ordering stage and the window; the run
  checks it on an input made for that (`Busy`).
- `NameRight` of Keys, `LevelsRight` of KeyLevels, `FilesOK`, `DeletesOK` and `UpdatesRight`
  of Files, `ParsedRight` of Parsing and `PreCheckSound` of Watchlist.

## Plan

Done: the modules above and the proofs above. What is left to prove are the
invariants of Files, then `LevelsRight` of KeyLevels and `NameRight` of Keys.
Modelling that is left: the FileObject map's eviction and the coalescing of
Opens (`pipeline/file.rs`), the anchor and the controls of the pipeline.

## Not modelled

- Settings and configuration: parsed and validated once.
- The dump command: formatting; its reading loop is the external reader of
  BufferReader.
- `inputs`, `services`, `time`: message types, traits and clock conversions.
- The data directory's ACLs and owners: checked and set once at the start,
  before anything runs concurrently.
- Power, telemetry and utility wrappers: calls of Windows without state.
- `paths.rs`, the text of DNS results, atlas-schema: pure functions of one
  input, tested and fuzzed in the repository. atlas-proto is generated.
- Panics of a lane's worker; the reparse-point checks of `fsx.rs`; the
  process's exit codes, log lines and wording.
- CPU time and thread listings of the health report; the boot id, the clock
  anchor and the control set of the device identity.

`PROJECT.json` lists each part with its status.
