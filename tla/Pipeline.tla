------------------------------ MODULE Pipeline ------------------------------
(* The pipeline thread (driver.rs, pipeline/mod.rs) between its two queues,  *)
(* the service lanes and the sink: the ordering stage, the handlers that     *)
(* make an event wait (image loads, renames, watchlist opens and the failed  *)
(* OperationEnds that cancel them), and the completion stage. The queues are *)
(* channels with a cap (Queue models their counter), the lanes answer at any *)
(* time or never. Time is the clock of the events' timestamps (QPC).         *)
EXTENDS Ordering, Completion, Recent, SequencesExt

CONSTANTS
    Input,         \* what each event is: kind, ts, irp, slots, own
    Irps,          \* the Irps of the file operations
    QueueCap,      \* the caps of the kernel and the user queue
    Window,        \* confirm_window: how long a file operation may still fail
    ConfirmKeep,   \* how long a confirmed operation is remembered (40 windows)
    EnrichDeadline, ExpandDeadline,
    MaxArrivals,   \* bound: the events of one behaviour
    MaxClock       \* bound: time stops here unless something still waits for it

\* kind: exit, dns (ready at once), load (waits for its hash), rename, open (a
\* watchlist Open whose logged path matches only if it has no short name),
\* fail (a failed OperationEnd).  slots: paths with 8.3 names to expand.
\* own: its actor is the agent.  Only DNS comes through the user queue.
Kinds == {"exit", "dns", "load", "rename", "open", "fail"}
Queues == {"kernel", "user"}
ASSUME InputAssumption ==
    /\ Input \in [Events -> [kind : Kinds, ts : Nat, irp : Irps, slots : 0..2, own : BOOLEAN]]
    /\ \A e \in Events : Input[e].ts + Window < Forever
    /\ QueueCap \in [Queues -> Nat \ {0}]
    /\ {Window, ConfirmKeep, MaxArrivals, MaxClock} \subseteq Nat
    /\ {EnrichDeadline, ExpandDeadline} \subseteq Nat \ {0}

None == "none"
ASSUME NoneAssumption == None \notin Events

VARIABLES
    clock,      \* the machine's time
    queue,      \* what waits in each queue
    closed,     \* the queues whose senders are gone
    pc,         \* the thread: kernel, user, replies, release, process, done
    back,       \* where it goes on after process
    cur,        \* the event in process
    room,       \* what this drain may still take
    open,       \* the queues this pass found open
    stopping,   \* the loop has ended
    ord,        \* Pipeline.ordering
    comp,       \* Pipeline.completion
    files,      \* Files.held, held_by_irp, failed, confirmed
    enrich,     \* Launches.enrich: the events whose hash is asked for
    slots,      \* Expands.by_slot: the paths whose expansion is asked for
    requests,   \* Pipeline.requests
    stream,     \* Pipeline.stream
    now,        \* Pipeline.now
    asked,      \* requests the lanes have
    replies,    \* their answers
    sink,       \* what the sink got, in order
    fate,       \* history: what became of each event
    late,       \* history: the events processed late
    made,       \* history: the events that entered the completion stage, in order
    since       \* history: when an event in the line entered it

threadVars == <<pc, back, cur, room, open, stopping>>
stateVars == <<ord, comp, files, enrich, slots, requests, stream, now>>
laneVars == <<asked, replies>>
history == <<sink, fate, late, made, since>>
vars == <<clock, queue, closed, threadVars, stateVars, laneVars, history>>

Kind(e) == Input[e].kind
Ts(e) == Input[e].ts
Irp(e) == Input[e].irp
QueueOf(e) == IF Kind(e) = "dns" THEN "user" ELSE "kernel"
Slots(e) == {<<e, i>> : i \in 1..Input[e].slots}

Init ==
    /\ clock = 0
    /\ queue = [q \in Queues |-> <<>>] /\ closed = {}
    /\ pc = "kernel" /\ back = None /\ cur = None /\ room = QueueCap["kernel"]
    /\ open = {} /\ stopping = FALSE
    /\ ord = NoneHeld /\ comp = NewCompletion
    /\ files = [held |-> <<>>, latest |-> [i \in Irps |-> None],
                failed |-> NoneRecent(Irps), confirmed |-> NoneRecent(Irps)]
    /\ enrich = {} /\ slots = {} /\ requests = {}
    /\ stream = Never /\ now = 0
    /\ asked = {} /\ replies = {}
    /\ sink = <<>> /\ fate = [e \in Events |-> "new"] /\ late = {}
    /\ made = <<>> /\ since = [e \in Events |-> 0]

-----------------------------------------------------------------------------
(* The callbacks, the lanes and time                                        *)

\* What the others do is seen only where the thread looks: at a queue, at the
\* replies, and at the clock, once a pass. A step of theirs at another time
\* commutes with the thread's: it is taken where the thread looks for it next.
LooksAt(q) == pc = q

\* A callback queues an event, some time after it happened; it drops it if
\* the queue is full, and a DNS event past its rate.
Refuses(e) == Kind(e) = "dns" \/ Len(queue[QueueOf(e)]) >= QueueCap[QueueOf(e)]
Arrive(e) ==
    /\ LooksAt(QueueOf(e)) /\ QueueOf(e) \notin closed
    /\ fate[e] = "new" /\ Ts(e) <= clock
    /\ Cardinality({f \in Events : fate[f] # "new"}) < MaxArrivals
    /\ \/ /\ Len(queue[QueueOf(e)]) < QueueCap[QueueOf(e)]
          /\ queue' = [queue EXCEPT ![QueueOf(e)] = Append(@, e)]
          /\ fate' = [fate EXCEPT ![e] = "queued"]
       \/ /\ Refuses(e)
          /\ fate' = [fate EXCEPT ![e] = "refused"]
          /\ UNCHANGED queue
    /\ UNCHANGED <<clock, closed, threadVars, stateVars, laneVars, sink, late, made, since>>

\* The sessions end and with them their senders.
CloseQueue(q) ==
    /\ LooksAt(q) /\ q \notin closed
    /\ closed' = closed \cup {q}
    /\ UNCHANGED <<clock, queue, threadVars, stateVars, laneVars, history>>

\* A lane answers; the expansion of an Open may or may not match.
Answer(r, matches) ==
    /\ LooksAt("replies") /\ r \in asked
    /\ matches \/ (r[2] > 0 /\ Kind(r[1]) = "open")
    /\ asked' = asked \ {r}
    /\ replies' = replies \cup {[to |-> r, matches |-> matches]}
    /\ UNCHANGED <<clock, queue, closed, threadVars, stateVars, history>>

\* What the present events still wait for comes before the end of time.
Deadlines == UNION {{w.deadline : w \in comp.waits[e]} : e \in Events}
Horizon ==
    Max({MaxClock} \cup Deadlines
        \cup {h.ts + Hold : h \in ord.held}
        \cup {files.held[i].ts + Window + Hold : i \in DOMAIN files.held})

Passes ==
    /\ LooksAt("kernel") /\ clock < Horizon /\ clock + 1 < Forever
    /\ clock' = clock + 1
    /\ UNCHANGED <<queue, closed, threadVars, stateVars, laneVars, history>>

-----------------------------------------------------------------------------
(* Driver::pass: the queues and the replies                                 *)

Process(e, return) == cur' = e /\ pc' = "process" /\ back' = return

\* try_recv and Pipeline::push: a late event is processed at once.
Drain ==
    /\ pc \in Queues /\ room > 0 /\ queue[pc] # <<>>
    /\ room' = room - 1
    /\ queue' = [queue EXCEPT ![pc] = Tail(@)]
    /\ LET e == Head(queue[pc])
       IN \/ /\ Ts(e) < stream \/ TooLate(ord, Ts(e))
             /\ Process(e, pc)
             /\ UNCHANGED ord
          \/ /\ Ts(e) >= stream /\ ~TooLate(ord, Ts(e))
             /\ ord' = PushHeld(ord, e, Ts(e))
             /\ UNCHANGED <<pc, back, cur>>
    /\ UNCHANGED <<clock, closed, open, stopping, comp, files, enrich, slots, requests,
                   stream, now, laneVars, history>>

EndDrain(stillOpen) ==
    /\ pc \in Queues /\ (room = 0 \/ queue[pc] = <<>>)
    /\ open' = IF stillOpen THEN open \cup {pc} ELSE open
    /\ pc' = IF pc = "kernel" THEN "user" ELSE "replies"
    /\ room' = QueueCap["user"]
    /\ UNCHANGED <<clock, queue, closed, back, cur, stopping, stateVars, laneVars, history>>

\* Mutant: a queue with closed senders counts as closed though more waits in it.
DrainEndsEarly == EndDrain(pc \notin closed)
\* Mutant: a disconnected queue is taken for an empty one.
DrainEndsEmpty == EndDrain(TRUE)
\* Empty and open, empty and disconnected, or the most one pass takes.
DrainEnds == EndDrain(room = 0 \/ pc \notin closed)

\* on_enriched: an answer fills the event if it still waits.
Enriched ==
    /\ pc = "replies"
    /\ \E r \in replies :
         /\ r.to[2] = 0
         /\ replies' = replies \ {r}
         /\ enrich' = enrich \ {r.to[1]}
         /\ comp' = IF r.to[1] \in enrich /\ IsWaiting(comp, r.to[1], "enrich")
                    THEN Resolve(comp, r.to[1], "enrich") ELSE comp
    /\ UNCHANGED <<clock, queue, closed, threadVars, ord, files, slots, requests, stream, now,
                   asked, history>>

\* on_expanded: an Open that matches neither way is cancelled; the event
\* waits until its last slot has answered.
LastSlot(e) == Cardinality(slots \cap Slots(e)) = 1
Unmatched(r) == ~r.matches
Expanded ==
    /\ pc = "replies"
    /\ \E r \in replies :
         LET e == r.to[1]
             waits == r.to \in slots /\ IsWaiting(comp, e, "expand")
         IN /\ r.to[2] > 0
            /\ replies' = replies \ {r}
            /\ slots' = slots \ {r.to}
            /\ comp' = IF waits /\ Unmatched(r) THEN Cancel(comp, e)
                       ELSE IF waits /\ LastSlot(e) THEN Resolve(comp, e, "expand")
                       ELSE comp
            /\ fate' = IF waits /\ Unmatched(r) THEN [fate EXCEPT ![e] = "unmatched"] ELSE fate
    /\ UNCHANGED <<clock, queue, closed, threadVars, ord, files, enrich, requests, stream, now,
                   asked, sink, late, made, since>>

\* Every answer is applied; the tick reads the clock, the stop does not.
RepliesEnd ==
    /\ pc = "replies" /\ replies = {}
    /\ pc' = "release"
    /\ now' = IF stopping THEN now ELSE clock
    /\ UNCHANGED <<clock, queue, closed, back, cur, room, open, stopping, ord, comp, files, enrich,
                   slots, requests, stream, laneVars, history>>

-----------------------------------------------------------------------------
(* Pipeline::process                                                        *)

Expands(e, drop) == IF Slots(e) = {} THEN {} ELSE {WaitFor("expand", now + ExpandDeadline, drop)}

\* Files.held: the operations in their window, in the order they came.
Held(e) == [ev |-> e, ts |-> Ts(e), irp |-> Irp(e), live |-> TRUE]
Early(e) ==
    /\ files.failed.at[Irp(e)] >= Ts(e)
    /\ files.failed.at[Irp(e)] - Ts(e) <= Window

\* hold: the operation waits out its window, or its failure came first.
HoldOperation(e, c) ==
    \/ /\ Early(e)
       /\ files' = [files EXCEPT !.failed = RecentRemove(@, Irp(e))]
       /\ comp' = Cancel(c, e)
       /\ fate' = [fate EXCEPT ![e] = "failed"]
    \/ /\ ~Early(e)
       /\ files' = [files EXCEPT !.held = Append(@, Held(e)), !.latest[Irp(e)] = e]
       /\ comp' = c
       /\ fate' = [fate EXCEPT ![e] = "made"]

Made(e) == made' = Append(made, e) /\ since' = [since EXCEPT ![e] = now]

Ready ==
    /\ Kind(cur) \in {"exit", "dns"}
    /\ comp' = PushReady(comp, cur)
    /\ fate' = [fate EXCEPT ![cur] = "made"]
    /\ Made(cur)
    /\ UNCHANGED <<files, enrich, slots, requests>>

ImageLoad ==
    /\ Kind(cur) = "load"
    /\ comp' = PushPending(comp, cur, {WaitFor("enrich", now + EnrichDeadline, FALSE)} \cup Expands(cur, FALSE))
    /\ enrich' = enrich \cup {cur}
    /\ slots' = slots \cup Slots(cur)
    /\ requests' = requests \cup Slots(cur) \cup {<<cur, 0>>}
    /\ fate' = [fate EXCEPT ![cur] = "made"]
    /\ Made(cur)
    /\ UNCHANGED files

\* A rename, or a create on a watchlist path: on_file_rename_path, watch_open.
FileOperation ==
    /\ Kind(cur) \in {"rename", "open"}
    /\ LET waits == {WaitFor("confirm", NoDeadline, FALSE)} \cup Expands(cur, Kind(cur) = "open")
       IN HoldOperation(cur, PushPending(comp, cur, waits))
    /\ slots' = slots \cup Slots(cur)
    /\ requests' = requests \cup Slots(cur)
    /\ Made(cur)
    /\ UNCHANGED enrich

\* An operation that was cancelled closes no window.
HeldWithout(o) == [i \in DOMAIN files.held |-> [files.held[i] EXCEPT !.live = @ /\ files.held[i].ev # o]]

\* A failed OperationEnd: it cancels the latest operation held for its Irp,
\* comes after one that was confirmed, or waits for a late one.
OperationFails ==
    /\ Kind(cur) = "fail"
    /\ LET irp == Irp(cur)
           o == files.latest[irp]
       IN \/ /\ o # None
             /\ files' = [files EXCEPT !.latest[irp] = None,
                                       !.held = HeldWithout(o)]
             /\ comp' = Cancel(comp, o)
             /\ fate' = [fate EXCEPT ![cur] = "used", ![o] = IF o \in comp.pending THEN "failed" ELSE @]
          \/ /\ o = None /\ files.confirmed.at[irp] # Absent
             /\ fate' = [fate EXCEPT ![cur] = "used"]
             /\ UNCHANGED <<files, comp>>
          \/ /\ o = None /\ files.confirmed.at[irp] = Absent
             /\ files' = [files EXCEPT !.failed = RecentInsert(@, irp, Ts(cur))]
             /\ fate' = [fate EXCEPT ![cur] = "used"]
             /\ UNCHANGED comp
    /\ UNCHANGED <<enrich, slots, requests, made, since>>

ProcessOne ==
    /\ pc = "process"
    /\ pc' = back /\ back' = None /\ cur' = None
    /\ late' = IF back \in Queues THEN late \cup {cur} ELSE late
    /\ Ready \/ ImageLoad \/ FileOperation \/ OperationFails
    /\ UNCHANGED <<clock, queue, closed, room, open, stopping, ord, stream, now, laneVars, sink>>

-----------------------------------------------------------------------------
(* Pipeline::tick and stop                                                  *)

\* Mutant: windows close one tick early.
DueEarly(s) ==
    CHOOSE n \in 0..Len(files.held) :
        /\ \A i \in 1..n : files.held[i].ts + Window - 1 <= s
        /\ n < Len(files.held) => files.held[n + 1].ts + Window - 1 > s
\* file_confirm: the operations whose window has passed at s stand.
Due(s) ==
    CHOOSE n \in 0..Len(files.held) :
        /\ \A i \in 1..n : files.held[i].ts + Window <= s
        /\ n < Len(files.held) => files.held[n + 1].ts + Window > s
Standing(s) == {i \in 1..Due(s) : files.held[i].live}
Confirmed(s) ==
    LET note(r, h) == RecentInsert(r, h.irp, h.ts)
    IN RecentExpire(FoldLeft(note, files.confirmed, Taken(files.held, Standing(s))), s - ConfirmKeep)
FilesAt(s) ==
    LET passed == {files.held[i].ev : i \in 1..Due(s)}
    IN [held |-> SubSeq(files.held, Due(s) + 1, Len(files.held)),
        latest |-> [i \in Irps |-> IF files.latest[i] \in passed THEN None ELSE files.latest[i]],
        failed |-> RecentExpire(files.failed, s - Window),
        confirmed |-> Confirmed(s)]
CompAt(s) == ResolveAll(comp, {files.held[i].ev : i \in Standing(s)}, "confirm")

\* step: windows that closed before s are applied first.
FilesStepped(s) == IF s > stream THEN FilesAt(s) ELSE files
CompStepped(s) == IF s > stream THEN CompAt(s) ELSE comp
Stepped(s) == Later(stream, s)

Limit == IF stopping THEN Forever ELSE now - Hold
ReleaseOne ==
    /\ pc = "release"
    /\ \E h \in NextUntil(ord, Limit) :
         /\ ord' = PopHeld(ord, h)
         /\ files' = FilesStepped(h.ts) /\ comp' = CompStepped(h.ts) /\ stream' = Stepped(h.ts)
         /\ Process(h.ev, "release")
    /\ UNCHANGED <<clock, queue, closed, room, open, stopping, enrich, slots, requests, now,
                   laneVars, history>>

\* The rest of the pass: advance, emit, the requests to the lanes, the events
\* to the sink. A pass that found both queues closed is the last one.
Emits(c, n) ==
    LET out == Out(c, n)
        left == Leaving(c, n)
    IN /\ sink' = sink \o Taken(out, {i \in DOMAIN out : ~Input[out[i]].own})
       /\ fate' = [e \in Events |->
                     IF e \in ToSet(out) THEN IF e \in c.forced THEN "forced" ELSE "emitted"
                     ELSE IF e \in left THEN "expired" ELSE fate[e]]
       /\ LET d == After(c, n)
          IN /\ comp' = [d EXCEPT !.exited = {}]
             /\ since' = [e \in Events |-> IF \E i \in DOMAIN d.line : d.line[i].ev = e THEN since[e] ELSE 0]
             /\ enrich' = enrich \ d.exited
             /\ slots' = {s \in slots : s[1] \notin d.exited}

TickEnds ==
    /\ pc = "release" /\ ~stopping /\ NextUntil(ord, Limit) = {}
    /\ LET s == Watermark(ord, now)
           c == CompStepped(s)
       IN /\ files' = FilesStepped(s) /\ stream' = Stepped(s)
          /\ Emits(c, Drainable(c, now))
    /\ asked' = asked \cup requests /\ requests' = {}
    /\ pc' = IF open = {} THEN "replies" ELSE "kernel"
    /\ stopping' = (open = {})
    /\ open' = {} /\ room' = QueueCap["kernel"]
    /\ UNCHANGED <<clock, queue, closed, back, cur, ord, now, replies, late, made>>

Stops ==
    /\ pc = "release" /\ stopping /\ NextUntil(ord, Limit) = {}
    /\ files' = FilesStepped(Forever) /\ stream' = Forever
    /\ Emits(CompStepped(Forever), Len(comp.line))
    /\ pc' = "done"
    /\ UNCHANGED <<clock, queue, closed, back, cur, room, open, stopping, ord, requests, now, laneVars,
                   late, made>>

-----------------------------------------------------------------------------
Thread == Drain \/ DrainEnds \/ Enriched \/ Expanded \/ RepliesEnd \/ ProcessOne \/ ReleaseOne \/ TickEnds \/ Stops
Callbacks == \E e \in Events : Arrive(e)
Closing == \E q \in Queues : CloseQueue(q)
Lanes == \E r \in asked, matches \in BOOLEAN : Answer(r, matches)

Others == Callbacks \/ Closing \/ Passes \/ Lanes
Done == pc = "done" /\ UNCHANGED vars
Next == Thread \/ Others \/ Done
Spec == Init /\ [][Next]_vars

\* Weak fairness of the thread, written out: it can step until it is done,
\* and of its steps only finitely many in a row leave pc as it is (a drain is
\* bounded, and so are the replies). Nothing else is owed, not even time.
ThreadMoves == pc' # pc
FairSpec == Spec /\ ([]<>(pc = "done") \/ []<><<ThreadMoves>>_vars)

-----------------------------------------------------------------------------
(* Properties                                                               *)

Index(e) == CHOOSE i \in DOMAIN made : made[i] = e
Left == {"emitted", "forced", "failed", "unmatched", "expired"}

PipelineTypeOK ==
    /\ clock \in Nat /\ now \in Nat /\ stream \in Int
    /\ queue \in [Queues -> Seq(Events)] /\ closed \subseteq Queues /\ open \subseteq Queues
    /\ \A q \in Queues : Len(queue[q]) <= QueueCap[q]
    /\ pc \in Queues \cup {"replies", "release", "process", "done"}
    /\ back \in Queues \cup {"release", None} /\ cur \in Events \cup {None}
    /\ room \in Nat /\ stopping \in BOOLEAN
    /\ comp.pending \subseteq Events /\ comp.forced \subseteq comp.pending
    /\ comp.exited \cap comp.pending = {}
    /\ ToSet(comp.order) \subseteq Events
    /\ files.latest \in [Irps -> Events \cup {None}]
    /\ enrich \subseteq Events /\ slots \subseteq Events \X {1, 2}
    /\ requests \subseteq Events \X (0..2) /\ asked \subseteq Events \X (0..2)
    /\ fate \in [Events -> {"new", "refused", "queued", "made", "used"} \cup Left]
    /\ made \in Seq(Events) /\ sink \in Seq(Events)

\* The pipeline sees events in order of time: a released event is the oldest
\* held, and stream time is exactly its time, so the windows that closed
\* before it have been applied; an event that skips the hold is more than
\* the hold old (Pipeline::push, tick).
StreamOrder ==
    pc = "process" =>
        \/ back = "release" /\ stream = Ts(cur) /\ \A h \in ord.held : h.ts >= Ts(cur)
        \/ back \in Queues /\ clock > Ts(cur) + Hold

\* The sink gets events in the order they were produced, none twice,
\* whichever were answered, cancelled, forced or expired (Completion::drain).
EmittedInOrder ==
    \A i, j \in DOMAIN sink : i < j => Index(sink[i]) < Index(sink[j])

\* Overload forces out the oldest pending events and only as many as exceed
\* the cap (Completion::push_pending and its order queue, which keeps the ids
\* of events that left by other ways).
OverflowTakesOldest ==
    /\ Cardinality(comp.pending \ comp.forced) <= PendingCap
    /\ \A e \in comp.pending, f \in comp.forced : Index(e) < Index(f) => e \in comp.forced

\* Events are processed by time and emitted as produced, overload included.
OrderKept == PipelineTypeOK /\ StreamOrder /\ EmittedInOrder /\ OverflowTakesOldest

\* The operation a failure is about: the last one before it on its Irp.
Operations == {e \in Events : Kind(e) \in {"rename", "open"}}
Failures == {e \in Events : Kind(e) = "fail"}
FailureOf(f, o) ==
    /\ Irp(f) = Irp(o) /\ Ts(o) <= Ts(f)
    /\ \A p \in Operations : Irp(p) = Irp(o) /\ Ts(p) <= Ts(f) => Ts(p) <= Ts(o)

\* Unless an event on its Irp was late or refused: an operation that failed
\* within its window is not emitted (but for overload), and no other
\* operation is cancelled, though Irps are recycled (hold, on_file_op_end,
\* file_confirm).
OutcomesRight ==
    \A o \in Operations :
        (\A e \in Operations \cup Failures : Irp(e) = Irp(o) => e \notin late /\ fate[e] # "refused") =>
        /\ fate[o] = "failed" => \E f \in Failures : FailureOf(f, o)
        /\ \A f \in Failures :
             FailureOf(f, o) /\ Ts(f) < Ts(o) + Window /\ fate[f] = "used" /\ fate[o] \notin {"new", "queued"}
             => fate[o] \in {"failed", "unmatched", "forced", "expired"}

\* What is kept for pending events goes when they leave, answered or not
\* (take_exited, forget).
BooksOfPending ==
    enrich \cup {s[1] : s \in slots} \subseteq comp.pending \cup comp.exited

\* A stop leaves nothing behind: every event that was queued has been
\* processed and has left, and no book is open (Driver::run, Pipeline::stop).
CleanStop ==
    pc = "done" =>
        /\ \A e \in Events : fate[e] \notin {"queued", "made"}
        /\ comp.pending = {} /\ comp.line = <<>> /\ files.held = <<>> /\ ord.held = {}
        /\ enrich = {} /\ slots = {}

\* The delay is bounded though no lane ever answers: after a tick no event is
\* held that is older than the hold, and an event is in the line only while
\* the lanes' deadlines last, or the confirm window of an event that came
\* before it; stream time moves on without events (watermark, drain).
MayWait == Later(EnrichDeadline, ExpandDeadline)
LeavesInTime ==
    pc = "kernel" /\ room = QueueCap["kernel"] =>
        /\ \A h \in ord.held : now < h.ts + Hold
        /\ \A i \in DOMAIN comp.line :
             \/ now < since[comp.line[i].ev] + MayWait
             \/ \E j \in 1..Index(comp.line[i].ev) : now < Ts(made[j]) + Window + Hold

\* Pending events leave in time and with all that is kept for them, and a stop
\* leaves none.
PendingOK == BooksOfPending /\ LeavesInTime /\ CleanStop

\* Once the senders are gone the thread ends (Driver::run).
PipelineEnds == closed = Queues ~> pc = "done"
=============================================================================
