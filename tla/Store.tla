------------------------------- MODULE Store -------------------------------
(* From the pipeline's sink to the log on disk (store.rs), with the health  *)
(* thread that reports what was lost (health.rs, win/health.rs) and the     *)
(* main thread that watches the others and stops them in order (win/run.rs, *)
(* win/agent.rs). Four threads meet at the sink's queue, a shared drop      *)
(* counter and the joins of the stop. The log is the buffer's Writer as its *)
(* owner sees it (append, tick, close); BufferWriter models its inside.     *)
EXTENDS Queue

CONSTANTS
    BacklogCap,     \* backlog_bytes, in units of one event
    ReportSize,     \* a report's size in the same unit
    HeldCap,        \* HELD_CAP: reports held while the backlog is full
    Oversized,      \* events too large for a record: the writer rejects them
    Wrap,           \* the sessions' loss counters count modulo Wrap (2^32)
    MayPanic,       \* the threads that may panic
    MaxEvents,      \* bound: events the pipeline emits
    MaxCount,       \* bound: what the pipeline's loss counter reaches
    MaxLost,        \* bound: events the sessions lose
    MaxPeriodic,    \* bound: reports sent because a period ended
    MaxFails,       \* bound: ticks or closes that fail
    MaxEvicted      \* bound: records retention evicts

ASSUME StoreAssumption ==
    /\ Senders = {"pipeline", "health", "main"}
    /\ BacklogCap \in Nat /\ ReportSize \in 1..BacklogCap
    /\ HeldCap \in Nat \ {0}
    /\ Wrap \in Nat \ {0, 1}
    /\ MayPanic \subseteq {"pipeline", "writer"}
    /\ {MaxEvents, MaxCount, MaxLost, MaxPeriodic, MaxFails, MaxEvicted} \subseteq Nat

VARIABLES
    ppc,        \* the pipeline thread: run, send, drop, ended, panicked
    emitted,    \* events handed to the sink
    count,      \* the pipeline's own loss counter (actor_dropped)
    lost,       \* events the ETW sessions lost, not wrapped
    hpc,        \* the health thread: wait, asked, answered, send, ended
    answer,     \* the pipeline's counter as the health thread got it, or NotRead
    base,       \* Interval.from: what the next report is measured from
    nreports,   \* reports sent
    told,       \* history: the sums of the differences the sent reports carry
    periodic,   \* reports sent because a period ended (bound)
    mpc,        \* the main thread: running, joinHealth, joinPipeline, send, join, done
    drops,      \* loss.buffer_backlog_drops, shared by the sink and the writer
    wpc,        \* the writer thread: recv, taken, handle, drain, tick, close, closed, failed, dead
    cur,        \* the record it is handling, or <<>>
    held,       \* reports the backlog could not take
    backlog,    \* the writer's queue
    log,        \* the records on disk
    stats,      \* the writer's counters: rejected, and gaps not yet taken
    reported,   \* Core.reported, reported_drops and recovery (taken): what was reported
    failing,    \* Writer.retry_at: the last write failed, retried every 10 s
    fails,      \* failing ticks (bound)
    evicted     \* evicted records (bound)

pipelineVars == <<ppc, emitted, count>>
healthVars == <<hpc, answer, base, nreports, told, periodic>>
logVars == <<held, backlog, log, stats, reported, failing, fails, evicted>>
coreVars == <<wpc, cur, logVars>>
others == <<pipelineVars, lost, healthVars, mpc>>    \* of the writer's steps
vars == <<queueVars, pipelineVars, lost, healthVars, mpc, drops, coreVars>>

NotRead == -1

Event(n) == [kind |-> "event", n |-> n]
IsEvent(m) == m.kind = "event"
Size(m) == IF IsEvent(m) THEN 1 ELSE ReportSize
EventsIn(s) == Cardinality({i \in DOMAIN s : IsEvent(s[i])})
Bytes(s) == EventsIn(s) + ReportSize * (Len(s) - EventsIn(s))   \* the sum of the sizes

Init ==
    /\ QueueInit
    /\ ppc = "run" /\ emitted = 0 /\ count = 0
    /\ lost = 0
    /\ hpc = "wait" /\ answer = NotRead
    /\ base = [count |-> 0, lost |-> 0, drops |-> 0]
    /\ nreports = 0 /\ periodic = 0
    /\ told = [count |-> 0, lost |-> 0]
    /\ mpc = "running"
    /\ drops = 0
    /\ wpc = "recv" /\ cur = <<>> /\ held = <<>> /\ backlog = <<>> /\ log = <<>>
    /\ stats = [rejected |-> 0, gaps |-> 0]
    /\ reported = [rejected |-> 0, drops |-> 0, recovery |-> FALSE]
    /\ failing = FALSE /\ fails = 0 /\ evicted = 0

-----------------------------------------------------------------------------
(* The pipeline thread                                                      *)

PipelineGone == ppc \in {"ended", "panicked"}

\* Sink::event hands over the next event.
Emit ==
    /\ ppc = "run"
    /\ emitted < MaxEvents
    /\ emitted' = emitted + 1
    /\ TryReserve("pipeline", Event(emitted + 1))
    /\ ppc' = "send"
    /\ UNCHANGED <<count, lost, healthVars, mpc, drops, coreVars>>

EmitPut ==
    /\ Put("pipeline")
    /\ ppc' = "run"
    /\ UNCHANGED <<emitted, count, lost, healthVars, mpc, drops, coreVars>>

EmitRefused ==
    /\ Withdraw("pipeline") \/ PutFails("pipeline")
    /\ ppc' = "drop"
    /\ UNCHANGED <<emitted, count, lost, healthVars, mpc, drops, coreVars>>

EmitDrop ==
    /\ ppc = "drop"
    /\ drops' = drops + 1
    /\ ppc' = "run"
    /\ UNCHANGED <<queueVars, emitted, count, lost, healthVars, mpc, coreVars>>

\* The pipeline counts a loss of its own (an event whose actor is unknown).
PipelineCounts ==
    /\ ppc = "run"
    /\ count < MaxCount
    /\ count' = count + 1
    /\ UNCHANGED <<queueVars, ppc, emitted, lost, healthVars, mpc, drops, coreVars>>

\* Between two passes it runs the health thread's request. A request that is
\* no longer waited for changes nothing: its answer goes to a dropped channel.
PipelineAnswers ==
    /\ ppc = "run"
    /\ hpc = "asked"
    /\ answer' = count
    /\ hpc' = "answered"
    /\ UNCHANGED <<queueVars, pipelineVars, lost, base, nreports, told, periodic, mpc, drops, coreVars>>

\* Both input queues are closed and drained: the pipeline ends, and its sink.
PipelineEnds ==
    /\ ppc = "run"
    /\ mpc = "joinPipeline"
    /\ ppc' = "ended"
    /\ UNCHANGED <<queueVars, emitted, count, lost, healthVars, mpc, drops, coreVars>>

PipelinePanics ==
    /\ "pipeline" \in MayPanic
    /\ ppc = "run"
    /\ ppc' = "panicked"
    /\ UNCHANGED <<queueVars, emitted, count, lost, healthVars, mpc, drops, coreVars>>

\* ETW loses an event. Fewer than Wrap are lost between two reports.
SessionLoses ==
    /\ mpc \in {"running", "joinHealth", "joinPipeline"}
    /\ lost < MaxLost
    /\ lost + 1 - told.lost < Wrap
    /\ lost' = lost + 1
    /\ UNCHANGED <<queueVars, pipelineVars, healthVars, mpc, drops, coreVars>>

-----------------------------------------------------------------------------
(* Reports: differences between two snapshots (health.rs)                   *)

\* d: a difference, and nothing when the source was not read.
Diff(prev, now) ==
    IF now = NotRead \/ prev = NotRead THEN NotRead ELSE IF now > prev THEN now - prev ELSE 0

\* d32: the sessions' counters wrap.
Diff32(prev, now) ==
    IF now = NotRead \/ prev = NotRead THEN NotRead ELSE (now - prev) % Wrap

\* health::report: the differences from prev to now.
Report(prev, now) ==
    [count |-> Diff(prev.count, now.count), lost |-> Diff32(prev.lost, now.lost),
     drops |-> Diff(prev.drops, now.drops)]

\* Mutant of Advance: what was not read now is forgotten.
AdvanceForgets(prev, now) == now

\* Snapshot::advance keeps the old value of what could not be read.
Advance(prev, now) ==
    [count |-> IF now.count = NotRead THEN prev.count ELSE now.count,
     lost |-> IF now.lost = NotRead THEN prev.lost ELSE now.lost,
     drops |-> now.drops]

\* Mutant of LossRose: the buffer's drops do not ask for a report.
LossRoseNotDrops(prev, now) ==
    LET r == Report(prev, now) IN r.count > 0 \/ r.lost > 0

LossRose(prev, now) ==
    LET r == Report(prev, now) IN r.count > 0 \/ r.lost > 0 \/ r.drops > 0

Plus(sum, d) == IF d = NotRead THEN sum ELSE sum + d

\* health::send: the event is queued even past the cap, and the next report
\* starts at now. Nothing after this looks at the differences (told sums them);
\* the writer fills in the rest, drops anew.
SendReport(s, now, final) ==
    LET r == Report(base, now)
    IN  /\ Reserve(s, [kind |-> "report", n |-> nreports + 1, final |-> final])
        /\ nreports' = nreports + 1
        /\ told' = [count |-> Plus(told.count, r.count), lost |-> Plus(told.lost, r.lost)]
        /\ base' = Advance(base, now)

\* The session's loss counter, or nothing when the query fails.
SessionReads == {NotRead, lost % Wrap}

-----------------------------------------------------------------------------
(* The health thread                                                        *)

\* Every check_every it asks the pipeline for its counters.
HealthAsks ==
    /\ hpc = "wait"
    /\ mpc = "running"
    /\ hpc' = "asked"
    /\ UNCHANGED <<queueVars, pipelineVars, lost, answer, base, nreports, told, periodic, mpc, drops, coreVars>>

\* The pipeline is gone, stuck or slow: no answer within pipeline_timeout.
HealthTimesOut ==
    /\ hpc = "asked"
    /\ answer' = NotRead
    /\ hpc' = "answered"
    /\ UNCHANGED <<queueVars, pipelineVars, lost, base, nreports, told, periodic, mpc, drops, coreVars>>

\* The snapshot, and a report if a period ended or a loss counter rose.
HealthSnapshot ==
    /\ hpc = "answered"
    /\ \E l \in SessionReads, due \in BOOLEAN :
        LET now == [count |-> answer, lost |-> l, drops |-> drops]
        IN  /\ due => periodic < MaxPeriodic
            /\ periodic' = periodic + (IF due THEN 1 ELSE 0)
            /\ \/ /\ due \/ LossRose(base, now)
                  /\ SendReport("health", now, FALSE)
                  /\ hpc' = "send"
               \/ /\ ~(due \/ LossRose(base, now))
                  /\ hpc' = "wait"
                  /\ UNCHANGED <<queueVars, base, nreports, told>>
    /\ answer' = NotRead
    /\ UNCHANGED <<pipelineVars, lost, mpc, drops, coreVars>>

\* The report is in the queue, or the writer is gone and it is logged only.
HealthPut ==
    /\ Put("health") \/ PutFails("health")
    /\ hpc' = "wait"
    /\ UNCHANGED <<pipelineVars, lost, answer, base, nreports, told, periodic, mpc, drops, coreVars>>

\* The stop channel is closed: the thread returns where the next report starts.
HealthEnds ==
    /\ hpc = "wait"
    /\ mpc = "joinHealth"
    /\ hpc' = "ended"
    /\ UNCHANGED <<queueVars, pipelineVars, lost, answer, base, nreports, told, periodic, mpc, drops, coreVars>>

-----------------------------------------------------------------------------
(* The main thread: run_with_sink                                           *)

ThreadDied == PipelineGone \/ wpc = "dead"

\* Ctrl+C, or the console closes.
StopAsked ==
    /\ mpc = "running"
    /\ mpc' = "joinHealth"
    /\ UNCHANGED <<queueVars, pipelineVars, lost, healthVars, drops, coreVars>>

\* The once-a-second check finds the pipeline or the writer ended.
DeathSeen ==
    /\ mpc = "running"
    /\ ThreadDied
    /\ mpc' = "joinHealth"
    /\ UNCHANGED <<queueVars, pipelineVars, lost, healthVars, drops, coreVars>>

\* HealthThread::stop returns.
JoinHealth ==
    /\ mpc = "joinHealth"
    /\ hpc = "ended"
    /\ mpc' = "joinPipeline"
    /\ UNCHANGED <<queueVars, pipelineVars, lost, healthVars, drops, coreVars>>

\* Mutant of PipelineJoined: the final report does not wait for the pipeline.
PipelineNotJoined == TRUE

\* Running::finish joined the pipeline's thread, ended or panicked.
PipelineJoined == PipelineGone

\* Running::stop returns: the final snapshot, and the final report is sent.
FinalReport ==
    /\ mpc = "joinPipeline"
    /\ PipelineJoined
    /\ \E l \in SessionReads :
        SendReport("main",
                   [count |-> IF ppc = "ended" THEN count ELSE NotRead, lost |-> l, drops |-> drops],
                   TRUE)
    /\ mpc' = "send"
    /\ UNCHANGED <<pipelineVars, lost, hpc, answer, periodic, drops, coreVars>>

\* Then main's senders are dropped and Store::close joins the writer.
FinalPut ==
    /\ Put("main") \/ PutFails("main")
    /\ mpc' = "join"
    /\ UNCHANGED <<pipelineVars, lost, healthVars, drops, coreVars>>

JoinWriter ==
    /\ mpc = "join"
    /\ wpc \in {"closed", "failed", "dead"}
    /\ mpc' = "done"
    /\ UNCHANGED <<queueVars, pipelineVars, lost, healthVars, drops, coreVars>>

\* Mutant of SendersGone: main keeps its Reporting until run_with_sink returns.
SendersKept == PipelineGone /\ hpc = "ended" /\ mpc = "done"

\* Every sender of the sink's queue is dropped.
SendersGone == PipelineGone /\ hpc = "ended" /\ mpc \in {"join", "done"}

-----------------------------------------------------------------------------
(* The writer thread: Core                                                  *)

\* Mutant of Fits: the new record's own size is not counted.
FitsWithoutIt(queue, m) == Bytes(queue) < BacklogCap

Fits(queue, m) == Bytes(queue) + Size(m) <= BacklogCap

\* Mutant of Retried: the last unit of room is not used.
RetriedShort ==
    CHOOSE n \in 0..Len(held) :
        /\ n = 0 \/ Bytes(backlog \o SubSeq(held, 1, n)) < BacklogCap
        /\ n = Len(held) \/ Bytes(backlog \o SubSeq(held, 1, n + 1)) >= BacklogCap

\* retry_held: as many held reports as the backlog takes, oldest first.
Retried ==
    CHOOSE n \in 0..Len(held) :
        /\ Bytes(backlog \o SubSeq(held, 1, n)) <= BacklogCap
        /\ n = Len(held) \/ ~Fits(backlog \o SubSeq(held, 1, n), held[n + 1])

BacklogRetried == backlog \o SubSeq(held, 1, Retried)
HeldRetried == SubSeq(held, Retried + 1, Len(held))

\* complete fills in the buffer's figures since the last report, and in the
\* first one what recovery found at open.
Complete(r) ==
    [kind |-> r.kind, n |-> r.n, final |-> r.final,
     rejected |-> stats.rejected - reported.rejected,
     gap |-> stats.gaps,
     recovery |-> ~reported.recovery,
     drops |-> drops - reported.drops]

\* Mutant of GapsLeft: the gaps are read, not taken.
GapsRead == stats.gaps

\* take_gaps leaves none.
GapsLeft == 0

\* Mutant of ReportedNow: the drops are counted again in the next report.
ReportedNotDrops == [reported EXCEPT !.rejected = stats.rejected, !.recovery = TRUE]

\* What the next report's figures are measured from.
ReportedNow == [rejected |-> stats.rejected, drops |-> drops, recovery |-> TRUE]

Receive ==
    /\ wpc \in {"recv", "drain"}
    /\ Take
    /\ cur' = <<Head(chan)>>
    /\ wpc' = "taken"
    /\ UNCHANGED <<others, drops, logVars>>

Received ==
    /\ wpc = "taken"
    /\ Uncount
    /\ wpc' = "handle"
    /\ UNCHANGED <<others, drops, cur, logVars>>

\* recv_timeout found nothing, or the drain is over or out of time.
ReceiveEnds ==
    /\ \/ wpc = "drain"
       \/ wpc = "recv" /\ chan = <<>> /\ ~SendersGone
    /\ wpc' = "tick"
    /\ UNCHANGED <<queueVars, others, drops, cur, logVars>>

Disconnected ==
    /\ wpc = "recv"
    /\ chan = <<>>
    /\ SendersGone
    /\ wpc' = "close"
    /\ UNCHANGED <<queueVars, others, drops, cur, logVars>>

\* Mutant of HandleEvent: a full backlog is not counted.
HandleEventUncounted ==
    /\ wpc = "handle"
    /\ IsEvent(cur[1])
    /\ held' = HeldRetried
    /\ backlog' = BacklogRetried \o (IF cur[1].n \notin Oversized /\ Fits(BacklogRetried, cur[1]) THEN cur ELSE <<>>)
    /\ stats' = [stats EXCEPT !.rejected = @ + (IF cur[1].n \in Oversized THEN 1 ELSE 0)]
    /\ cur' = <<>>
    /\ wpc' = "drain"
    /\ UNCHANGED <<queueVars, others, drops, log, reported, failing, fails, evicted>>

\* handle, an event: rejected, appended, or counted when the backlog is full.
HandleEvent ==
    /\ wpc = "handle"
    /\ IsEvent(cur[1])
    /\ held' = HeldRetried
    /\ \/ /\ cur[1].n \in Oversized
          /\ stats' = [stats EXCEPT !.rejected = @ + 1]
          /\ backlog' = BacklogRetried
          /\ UNCHANGED drops
       \/ /\ cur[1].n \notin Oversized
          /\ Fits(BacklogRetried, cur[1])
          /\ backlog' = BacklogRetried \o cur
          /\ UNCHANGED <<drops, stats>>
       \/ /\ cur[1].n \notin Oversized
          /\ ~Fits(BacklogRetried, cur[1])
          /\ drops' = drops + 1
          /\ backlog' = BacklogRetried
          /\ UNCHANGED stats
    /\ cur' = <<>>
    /\ wpc' = "drain"
    /\ UNCHANGED <<queueVars, others, log, reported, failing, fails, evicted>>

\* Mutant of Hold: the newest report is tried first.
HoldFirst(queue, r) == <<r>> \o (IF Len(queue) = HeldCap THEN Tail(queue) ELSE queue)

\* Past HELD_CAP the oldest report goes.
Hold(queue, r) == Append(IF Len(queue) = HeldCap THEN Tail(queue) ELSE queue, r)

\* handle, a report: held behind what is held or when the backlog is full.
HandleReport ==
    /\ wpc = "handle"
    /\ ~IsEvent(cur[1])
    /\ LET r == Complete(cur[1])
       IN  \/ /\ HeldRetried # <<>> \/ ~Fits(BacklogRetried, r)
              /\ held' = Hold(HeldRetried, r)
              /\ backlog' = BacklogRetried
           \/ /\ HeldRetried = <<>> /\ Fits(BacklogRetried, r)
              /\ held' = <<>>
              /\ backlog' = Append(BacklogRetried, r)
    /\ reported' = ReportedNow
    /\ stats' = [stats EXCEPT !.gaps = GapsLeft]
    /\ cur' = <<>>
    /\ wpc' = "drain"
    /\ UNCHANGED <<queueVars, others, drops, log, failing, fails, evicted>>

\* The held reports are tried, then the writer writes the first k records of
\* its queue.
Writes(k) ==
    /\ held' = HeldRetried
    /\ log' = log \o SubSeq(BacklogRetried, 1, k)
    /\ backlog' = SubSeq(BacklogRetried, k + 1, Len(BacklogRetried))

\* Retention may delete an old record to make room.
MayEvict ==
    \E e \in 0..1 :
        /\ evicted + e <= MaxEvicted
        /\ evicted' = evicted + e
        /\ stats' = [stats EXCEPT !.gaps = @ + e]

\* tick with nothing due: the flush interval, or the retry's, has not passed. A
\* queue that fills half the backlog is always due, unless writes are failing.
TickIdle ==
    /\ wpc = "tick"
    /\ failing \/ 2 * Bytes(BacklogRetried) < BacklogCap
    /\ wpc' = "recv"
    /\ Writes(0)
    /\ UNCHANGED <<queueVars, others, drops, cur, stats, reported, failing, fails, evicted>>

TickWrites ==
    /\ wpc = "tick"
    /\ wpc' = "recv"
    /\ failing' = FALSE
    /\ Writes(Len(BacklogRetried))
    /\ MayEvict
    /\ UNCHANGED <<queueVars, others, drops, cur, reported, fails>>

\* tick that fails part-way: what was not written stays queued for the retry.
TickFails ==
    /\ wpc = "tick"
    /\ fails < MaxFails
    /\ fails' = fails + 1
    /\ failing' = TRUE
    /\ wpc' = "recv"
    /\ \E k \in 0..Len(BacklogRetried) : Writes(k)
    /\ MayEvict
    /\ UNCHANGED <<queueVars, others, drops, cur, reported>>

\* close: what is held, as far as it fits, then what is queued; the thread
\* ends and its receiver with it.
Close ==
    /\ wpc = "close"
    /\ wpc' = "closed"
    /\ Writes(Len(BacklogRetried))
    /\ MayEvict
    /\ DropReceiver
    /\ UNCHANGED <<others, drops, cur, reported, failing, fails>>

CloseFails ==
    /\ wpc = "close"
    /\ fails < MaxFails
    /\ fails' = fails + 1
    /\ wpc' = "failed"
    /\ \E k \in 0..Len(BacklogRetried) : Writes(k)
    /\ MayEvict
    /\ DropReceiver
    /\ UNCHANGED <<others, drops, cur, reported, failing>>

WriterPanics ==
    /\ "writer" \in MayPanic
    /\ wpc \in {"handle", "tick"}
    /\ wpc' = "dead"
    /\ DropReceiver
    /\ UNCHANGED <<others, drops, cur, logVars>>

-----------------------------------------------------------------------------
Pipeline ==
    \/ Emit \/ EmitPut \/ EmitRefused \/ EmitDrop
    \/ PipelineCounts \/ PipelineAnswers \/ PipelineEnds \/ PipelinePanics
Health == HealthAsks \/ HealthTimesOut \/ HealthSnapshot \/ HealthPut \/ HealthEnds
Main == StopAsked \/ DeathSeen \/ JoinHealth \/ FinalReport \/ FinalPut \/ JoinWriter
Tick == TickIdle \/ TickWrites \/ TickFails
Core ==
    \/ Receive \/ Received \/ ReceiveEnds \/ Disconnected
    \/ HandleEvent \/ HandleReport \/ Tick \/ Close \/ CloseFails \/ WriterPanics

Next == Pipeline \/ SessionLoses \/ Health \/ Main \/ Core

Spec == Init /\ [][Next]_vars

\* Every thread goes on: its timers fire, its joins return once the other
\* thread ended, and a disk that fails works again. The flush interval passes,
\* so among the ticks there is always another one that writes. Nothing makes
\* a user stop the agent, a thread panic or the pipeline answer in time.
Fairness ==
    /\ WF_vars(EmitPut) /\ WF_vars(EmitRefused) /\ WF_vars(EmitDrop) /\ WF_vars(PipelineEnds)
    /\ WF_vars(Health)
    /\ WF_vars(DeathSeen) /\ WF_vars(JoinHealth) /\ WF_vars(FinalReport) /\ WF_vars(FinalPut) /\ WF_vars(JoinWriter)
    /\ WF_vars(Core)
    /\ SF_vars(TickWrites)

FairSpec == Spec /\ Fairness

-----------------------------------------------------------------------------
InOrder(s, kind) == \A i, j \in DOMAIN s : i < j /\ s[i].kind = kind /\ s[j].kind = kind => s[i].n < s[j].n
Reports(s) == {s[i] : i \in {j \in DOMAIN s : ~IsEvent(s[j])}}
Numbers(reports) == {r.n : r \in reports}
\* What the reports of a log tell of a figure in all: as many pairs as units.
Told(s, figure) == Cardinality(UNION {{i} \X (1..s[i][figure]) : i \in {j \in DOMAIN s : ~IsEvent(s[j])}})

StoreTypeOK ==
    /\ len \in 0..Cap + 2 * Cardinality(Senders) + nreports
    /\ backing \subseteq Senders /\ taken \in BOOLEAN /\ rxOpen \in BOOLEAN
    /\ \A s \in Senders : Len(adding[s]) <= 1
    /\ ppc \in {"run", "send", "drop", "ended", "panicked"}
    /\ hpc \in {"wait", "asked", "answered", "send", "ended"}
    /\ mpc \in {"running", "joinHealth", "joinPipeline", "send", "join", "done"}
    /\ wpc \in {"recv", "taken", "handle", "drain", "tick", "close", "closed", "failed", "dead"}
    /\ wpc \in {"taken", "handle"} <=> cur # <<>> /\ wpc # "dead"
    /\ Bytes(backlog) <= BacklogCap
    /\ Len(held) <= HeldCap
    /\ base.count \in 0..MaxCount /\ base.lost \in 0..Wrap - 1 /\ base.drops \in 0..MaxEvents

\* The shared counter (queue.rs) is the messages in the channel plus the
\* senders and the receiver between their two steps: no refusal, send or
\* receive leaves a count behind that would shrink the queue for good.
CountExact ==
    rxOpen => len = Len(chan) + Cardinality({s \in Senders : adding[s] # <<>>})
                    + Cardinality(backing) + (IF taken THEN 1 ELSE 0)

\* The sink's queue never holds more events than its cap, however many reports
\* were sent past it and wherever its users are between two atomic steps.
SinkBounded == EventsIn(chan \o adding["pipeline"]) <= Cap

\* The queue, the backlog and the held reports stay within their bounds and
\* the counter with the queue (queue.rs, store.rs).
SinkOK == StoreTypeOK /\ CountExact /\ SinkBounded

\* Sink::event and Core::handle: while the writer lives, or ended with
\* everything flushed, each emitted event is on its way, written, rejected or
\* counted as dropped, exactly once.
EveryEventAccounted ==
    wpc \notin {"dead", "failed"} =>
        emitted = EventsIn(log \o backlog \o cur \o chan \o adding["pipeline"])
                  + stats.rejected + drops + (IF "pipeline" \in backing \/ ppc = "drop" THEN 1 ELSE 0)

\* store.rs: events are written in the order they were emitted and reports in
\* the order they were sent, also when reports were held and tried again.
WrittenInOrder ==
    /\ InOrder(log \o backlog \o cur \o chan \o adding["pipeline"], "event")
    /\ InOrder(log \o backlog \o held \o cur \o chan \o adding["health"] \o adding["main"], "report")

\* store.rs, Core::complete: after a clean stop whose reports all reached the
\* log, the log explains itself: its events and the losses its reports count
\* add up to what the pipeline emitted. Each report counts the drops of
\* everything queued ahead of it, the final one those of all.
LogAccounts ==
    wpc = "closed" /\ Numbers(Reports(log)) = 1..nreports =>
        emitted = EventsIn(log) + Told(log, "drops") + Told(log, "rejected")

\* What a reader of the log can rely on: its order and its sums.
LogRight == WrittenInOrder /\ LogAccounts

\* store.rs, Core::complete: as long as no held report was given up, the gaps in
\* the reports and the one not yet taken add up to what retention deleted.
GapsReportedOnce ==
    LET done == log \o backlog \o held
    IN  wpc # "dead" /\ Numbers(Reports(done \o cur \o chan \o adding["health"] \o adding["main"])) = 1..nreports
            => evicted = Told(done, "gap") + stats.gaps

\* health.rs, Snapshot::advance and d32: over requests that time out, queries
\* that fail and a counter that wraps, the reports' differences add up to the
\* counters: nothing is reported twice, and once the final report is sent
\* nothing that could be read is left out.
CountersReportedOnce ==
    /\ told.count = base.count
    /\ told.lost <= lost /\ told.lost % Wrap = base.lost
    /\ mpc \in {"send", "join", "done"} /\ ppc = "ended" => told.count = count

\* Gaps and counters are in one report each (complete, advance).
ReportedOnce == GapsReportedOnce /\ CountersReportedOnce

\* run.rs: the final report is the last record of the log of a stopped agent:
\* it is taken after the pipeline and the health thread have ended.
FinalReportLast ==
    mpc = "done" => \A i \in 1..Len(log) : ~IsEvent(log[i]) /\ log[i].final => i = Len(log)

\* The reports of a run add up and end with the final one (run.rs, store.rs).
ReportsRight == ReportedOnce /\ FinalReportLast

\* run.rs and agent.rs: once a stop is asked for, or the pipeline or the writer
\* dies, every thread ends and the agent stops: no join waits for ever.
StopEnds == mpc # "running" \/ ThreadDied ~> mpc = "done"

WriterEnded == wpc \in {"closed", "failed", "dead"}

\* store.rs, Core::retry_held: reports held while the backlog is full are
\* written once there is room.
HeldWritten == held # <<>> ~> held = <<>> \/ WriterEnded

\* health.rs, loss_rose: every drop of the sink or the backlog is counted in a
\* report, without waiting for the period to end, unless the writer dies.
DropsReported == \A n \in 1..MaxEvents : drops >= n ~> reported.drops >= n \/ wpc = "dead"

\* What is held, and what is dropped, comes into the log in time.
ReportsCome == HeldWritten /\ DropsReported

\* store.rs, Core::close: "what is held, then what is queued, is written": a
\* close that succeeds leaves the final report in the log.
FinalReportWritten == wpc = "closed" => \E r \in Reports(log) : r.final
=============================================================================
