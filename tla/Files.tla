-------------------------------- MODULE Files --------------------------------
(* Files (pipeline/file.rs, the file part of pipeline/seed.rs): threads open *)
(* files, write, ask for deletes and take them back, close handles; the file *)
(* system says at each Cleanup what it removed. The callback (Cleanups) sees *)
(* the events in the order they arrive, the pipeline in the order of their   *)
(* times. Which name and which process an event gets is Keys' and Actors'    *)
(* question; renames and confirmed opens are Pipeline's.                     *)
EXTENDS Cleanups, SequencesExt

CONSTANTS
    Threads,       \* each is a process with one Irp
    FileObjects, FileKeys,
    SeedOnMiss,    \* seed_on_miss
    Window,        \* confirm_window, in the units of OutcomeWindow
    CleanedKeep,   \* CLEANED_KEEP
    MaxOps,        \* bound: file operations
    SilentOps      \* bound: those on a file system that reports no outcome (SMB)

ASSUME FilesAssumption ==
    /\ SeedOnMiss \in BOOLEAN
    /\ {Window, CleanedKeep, MaxOps, SilentOps} \subseteq Nat /\ 0 \notin Threads \cup FileKeys

VARIABLES
    clock, ops,     \* the machine: the time, the operations so far
    silent,         \* does the file system report no outcomes
    file, handle,   \* the file of each FileKey, the handle of each FileObject
    cleanups,       \* Intake.cleanups
    pipe,           \* Files, the file part of Seeding, events that wait (line),
                    \* stream, unknown_file_object
    spanned, born, asked, refused, deaths, wrote, reports   \* history

machine == <<clock, ops, silent, file, handle>>
More == ops < IF silent THEN SilentOps ELSE MaxOps
truth == <<spanned, born, asked, refused, deaths, wrote>>
vars == <<machine, cleanups, pipe, truth, reports>>

Nobody == 0
NoFile == [id |-> 0, pending |-> {}, gone |-> FALSE]
NoHandle == [key |-> 0, by |-> Nobody, onClose |-> FALSE, posix |-> FALSE, clean |-> FALSE, wrote |-> FALSE, seen |-> FALSE]
Never == -1

\* Files::new, and Seeding's file part. A handle may be open when the sessions
\* start; its Create is the first operation.
Init ==
    /\ clock = 0 /\ silent \in BOOLEAN
    /\ \E k \in FileKeys, fo \in FileObjects, t \in Threads, n \in {0, 1} :
         /\ ops = n /\ born = n
         /\ file = [x \in FileKeys |-> IF n = 1 /\ x = k THEN [NoFile EXCEPT !.id = 1] ELSE NoFile]
         /\ handle = [x \in FileObjects |->
               IF n = 1 /\ x = fo THEN [NoHandle EXCEPT !.key = k, !.by = t] ELSE NoHandle]
    /\ cleanups = NoCleanups
    /\ pipe = [map |-> <<>>, held |-> <<>>, cleanups |-> <<>>, early |-> <<>>, requests |-> <<>>,
               requestIrps |-> <<>>, posix |-> <<>>, retiring |-> <<>>, cleaned |-> <<>>,
               asks |-> {}, unnamable |-> {}, changes |-> <<>>, queued |-> {}, startup |-> TRUE,
               line |-> {}, stream |-> Never, unknown |-> 0]
    /\ asked = <<>> /\ refused = {} /\ deaths = {} /\ wrote = {} /\ reports = {} /\ spanned = {}

-----------------------------------------------------------------------------
(* The file map and what is kept by Irp, FileKey and FileObject              *)

Entry(id, opener, since) ==
    [file |-> id, opener |-> opener, written |-> FALSE, onClose |-> FALSE, cleaned |-> Never,
     since |-> since, waiting |-> {}]
Mapped(p) == DOMAIN p.map
CanWait(p) == SeedOnMiss \/ p.startup
Changed(p, fo, ts) == [p EXCEPT !.changes = With(@, fo, ts), !.unnamable = @ \ {fo}]

\* What a handler makes: the pipeline after it, and the events it reports.
Quietly(p) == [pipe |-> p, out |-> {}]
Drop(p, n) == Quietly([p EXCEPT !.unknown = @ + n])   \* counted as unknown_file_object
Report(p, action, id, actor, ts) ==
    [pipe |-> p, out |-> {[action |-> action, file |-> id, by |-> actor, ts |-> ts]}]

\* file_action_on: a handle nobody named waits for the seeder.
FileActionOn(p, ts, fo, actor, action, fill) ==
    LET waiter == [action |-> action, by |-> actor, ts |-> ts, fill |-> fill, fo |-> fo]
        q == IF fo \in Mapped(p) THEN p
             ELSE [p EXCEPT !.map = With(@, fo, Entry(0, Nobody, ts)), !.asks = @ \cup {fo}]
    IN IF fo \in Mapped(p) /\ p.map[fo].file # 0 THEN Report(p, action, p.map[fo].file, actor, ts)
       ELSE IF ~CanWait(p) \/ fo \in p.unnamable THEN Drop(p, 1)
       ELSE Quietly([q EXCEPT !.line = @ \cup {waiter}, !.map[fo].waiting = @ \cup {waiter}])

\* retire: an entry past its Cleanup leaves unless an event waits on it.
Retires(p, r) == r.fo \in Mapped(p) /\ p.map[r.fo].cleaned = r.at
RetireOne(p, r, s) ==
    IF ~Retires(p, r) THEN p
    ELSE IF p.map[r.fo].waiting # {} THEN [p EXCEPT !.retiring = Append(@, [r EXCEPT !.due = s + OutcomeWindow])]
    ELSE [p EXCEPT !.map = Forget(@, r.fo), !.cleaned = With(@, r.fo, r.at)]

\* file_confirm: what happens when stream time passes to s.
Advance(p, s) ==
    LET due == {i \in DOMAIN p.retiring : \A j \in 1..i : p.retiring[j].due < s}
        n == Cardinality(due)
        popped == [p EXCEPT !.held = SelectSeq(@, LAMBDA h : h.ts + Window > s),
                            !.retiring = SubSeq(@, n + 1, Len(@))]
        retired == FoldLeft(LAMBDA q, r : RetireOne(q, r, s), popped, SubSeq(p.retiring, 1, n))
    IN IF s <= p.stream THEN p
       ELSE [retired EXCEPT
               !.cleaned = Restrict(@, {fo \in DOMAIN @ : @[fo] >= s - CleanedKeep}),
               !.cleanups = Restrict(@, {i \in DOMAIN @ : @[i].ts >= s - OutcomeWindow}),
               !.stream = s]

\* file_next_op.
FileNextOp(p, irp) ==
    [p EXCEPT !.cleanups = Forget(@, irp), !.early = Forget(@, irp), !.requestIrps = Forget(@, irp)]

-----------------------------------------------------------------------------
(* The handlers                                                              *)

\* on_file_create, hold.
OnFileCreate(p, m) ==
    [Changed(p, m.fo, m.ts) EXCEPT
        !.map = With(@, m.fo, [Entry(m.file, m.by, m.ts) EXCEPT !.onClose = m.onClose]),
        !.cleaned = Forget(@, m.fo),
        !.held = Append(SelectSeq(@, LAMBDA h : h.irp # m.irp), [ts |-> m.ts, irp |-> m.irp, fo |-> m.fo])]

\* on_file_write, on_unknown_write: a late write of a handle whose entry left
\* is absorbed.
Unknown(p, fo) == fo \notin DOMAIN p.cleaned /\ CanWait(p)
OnFileWrite(p, m) ==
    IF m.fo \in Mapped(p) THEN [p EXCEPT !.map[m.fo].written = TRUE]
    ELSE IF Unknown(p, m.fo)
    THEN [p EXCEPT !.map = With(@, m.fo, [Entry(0, Nobody, m.ts) EXCEPT !.written = TRUE]), !.asks = @ \cup {m.fo}]
    ELSE p

\* ask_delete: the DeletePath names the path, a SetDelete keeps the one known.
AskDelete(p, m) ==
    LET known == IF m.key \in DOMAIN p.requests THEN p.requests[m.key].file ELSE 0
        id == IF m.what = "deletePath" THEN m.file ELSE known
    IN [p EXCEPT !.requests = With(@, m.key, [by |-> m.by, file |-> id]),
                 !.requestIrps = With(@, m.irp, m.key)]

\* on_file_set_delete, the clear.
ClearDelete(p, m) ==
    IF m.fo \in Mapped(p) /\ p.map[m.fo].onClose THEN [p EXCEPT !.map[m.fo].onClose = FALSE]
    ELSE [p EXCEPT !.requests = Forget(@, m.key)]

\* on_cleanup_outcome. The second report of a POSIX delete is not another one.
\* A mutant reports it.
SecondNever(p, fo, key, info) == FALSE
Second(p, fo, key, info) ==
    /\ info # "posix" /\ key \in DOMAIN p.posix
    /\ fo \in Mapped(p) => p.map[fo].since < p.posix[key]
\* The entry made to wait for the seeder is past its Cleanup. A mutant lets it stay.
EnteredStays(p, q, fo) == FALSE
Entered(p, q, fo) == fo \notin Mapped(p) /\ fo \in Mapped(q)
OnCleanupOutcome(p, end, fo, key) ==
    LET opener == IF fo \in Mapped(p) /\ p.map[fo].onClose THEN p.map[fo].opener ELSE Nobody
        requester == IF key \in DOMAIN p.requests THEN p.requests[key] ELSE [by |-> opener, file |-> 0]
        actor == IF requester.by = Nobody THEN end.by ELSE requester.by
        cleared == [p EXCEPT !.requests = Forget(@, key)]
        q == IF end.info = "posix" THEN [cleared EXCEPT !.posix = With(@, key, end.ts)] ELSE cleared
        r == FileActionOn(q, end.ts, fo, actor, "delete", "file")
    IN IF ~Removed(end.info) /\ (end.info # "unknown" \/ requester.by = Nobody) THEN Quietly(p)
       ELSE IF Second(q, fo, key, end.info) THEN Quietly([q EXCEPT !.posix = Forget(@, key)])
       ELSE IF requester.file # 0 THEN Report(q, "delete", requester.file, actor, end.ts)
       ELSE IF Entered(q, r.pipe, fo)
       THEN [r EXCEPT !.pipe.map[fo].cleaned = end.ts,
                      !.pipe.retiring = Append(@, [due |-> end.ts + OutcomeWindow, at |-> end.ts, fo |-> fo])]
       ELSE r

\* on_file_op_end: the latest held Create of the Irp is undone by a failure.
Failed(p, irp) ==
    LET undone == {p.held[i].fo : i \in {j \in DOMAIN p.held : p.held[j].irp = irp}}
    IN [p EXCEPT !.map = Restrict(@, DOMAIN @ \ undone),
                 !.held = SelectSeq(@, LAMBDA h : h.irp # irp),
                 !.cleanups = Forget(@, irp), !.early = Forget(@, irp), !.requestIrps = Forget(@, irp),
                 !.requests = IF irp \in DOMAIN p.requestIrps THEN Forget(@, p.requestIrps[irp]) ELSE @]
OnFileOpEnd(p, m) ==
    LET q == [p EXCEPT !.requestIrps = Forget(@, m.irp), !.cleanups = Forget(@, m.irp)]
    IN IF ~m.ok THEN Quietly(Failed(p, m.irp))
       ELSE IF m.irp \in DOMAIN p.cleanups
       THEN OnCleanupOutcome(q, m, p.cleanups[m.irp].fo, p.cleanups[m.irp].key)
       ELSE IF Removed(m.info) \/ m.info = "unknown" THEN Quietly([q EXCEPT !.early = With(@, m.irp, m)])
       ELSE Quietly(q)

\* cleanup_handle: the Update is the opener's.
Updates(e) == e.written /\ e.cleaned = Never
CleanupHandle(p, m) ==
    LET e == p.map[m.fo]
        cleaned == [p EXCEPT !.map[m.fo].cleaned = IF @ = Never THEN m.ts ELSE @]
        q == IF e.onClose /\ e.opener # Nobody
             THEN [cleaned EXCEPT !.requests = With(@, m.key, [by |-> e.opener, file |-> 0])] ELSE cleaned
    IN IF m.fo \notin Mapped(p) THEN Quietly(p)
       ELSE IF ~Updates(e) THEN Quietly(q)
       ELSE IF e.opener = Nobody /\ e.file # 0 THEN Drop(q, 1)
       ELSE FileActionOn(q, m.ts, m.fo, e.opener, "update", "opened")

\* on_file_cleanup: with the outcome that was processed first, and the entry's
\* time to leave.
OnFileCleanup(p, m) ==
    LET came == m.irp \in DOMAIN p.early /\ p.early[m.irp].ts >= m.ts
        next == FileNextOp(p, m.irp)
        waits == IF came THEN next ELSE [next EXCEPT !.cleanups = With(@, m.irp, m)]
        a == CleanupHandle(waits, m)
        b == IF came THEN OnCleanupOutcome(a.pipe, p.early[m.irp], m.fo, m.key) ELSE Quietly(a.pipe)
        leaves == m.fo \in Mapped(b.pipe) /\ b.pipe.map[m.fo].cleaned = m.ts
    IN [pipe |-> IF leaves
                 THEN [b.pipe EXCEPT !.retiring = Append(@, [due |-> m.ts + OutcomeWindow, at |-> m.ts, fo |-> m.fo])]
                 ELSE b.pipe,
        out |-> a.out \cup b.out]

OnFileClose(p, m) == [Changed(p, m.fo, m.ts) EXCEPT !.map = Forget(@, m.fo), !.cleaned = Forget(@, m.fo)]

\* process, for file events.
Handle(p, m) ==
    LET next == IF OpIrp(m) THEN FileNextOp(p, m.irp) ELSE p
    IN CASE m.what = "create" -> Quietly(OnFileCreate(next, m))
         [] m.what = "write" -> Quietly(OnFileWrite(next, m))
         [] m.what \in {"setDelete", "deletePath"} -> Quietly(AskDelete(next, m))
         [] m.what = "clearDelete" -> Quietly(ClearDelete(next, m))
         [] m.what = "cleanup" -> OnFileCleanup(next, m)
         [] m.what = "end" -> OnFileOpEnd(next, m)
         [] m.what = "close" -> Quietly(OnFileClose(next, m))

-----------------------------------------------------------------------------
(* The machine                                                               *)

On(k) == {fo \in FileObjects : handle[fo].key = k}
Open(fo) == handle[fo].key # 0 /\ ~handle[fo].clean
Ev(what, t, fo) ==
    [what |-> what, irp |-> t, by |-> t, fo |-> fo, key |-> handle[fo].key, file |-> file[handle[fo].key].id,
     onClose |-> FALSE, ok |-> TRUE, info |-> "unknown"]
End(t, fo, ok, info) == [Ev("end", t, fo) EXCEPT !.ok = ok, !.info = info]
\* An outcome may arrive before its Cleanup, logged on another CPU.
Arrivals(events) ==
    {events} \cup (IF events # <<>> /\ events[1].what = "cleanup" THEN {Reverse(events)} ELSE {})
\* The callback takes the events as they arrive, the pipeline what it passes
\* on, in the order of the times. How far they are behind the threads makes no
\* difference to them; to the snapshots it does, and these may come late.
Delivered(events) ==
    FoldLeft(LAMBDA d, m : LET done == OnFileEvent(d.cleanups, m)
                           IN [cleanups |-> done.cleanups, sends |-> d.sends \cup done.sends],
             [cleanups |-> cleanups, sends |-> {}], events)
Processed(sends) ==
    FoldLeft(LAMBDA d, m : LET done == Handle(Advance(d.pipe, m.ts), m)
                           IN [pipe |-> done.pipe, out |-> d.out \cup done.out],
             Quietly(pipe), SetToSortSeq(sends, LAMBDA m, n : m.ts < n.ts))
Logs(events) ==
    /\ More /\ UNCHANGED silent
    /\ ops' = ops + 1 /\ clock' = clock + Len(events)
    /\ \E arrival \in Arrivals([i \in DOMAIN events |-> [ts |-> clock + i] @@ events[i]]) :
         LET sent == Delivered(arrival)
             done == Processed(sent.sends)
         IN cleanups' = sent.cleanups /\ pipe' = done.pipe /\ reports' = reports \cup done.out
Askers(id) == IF id \in DOMAIN asked THEN asked[id] ELSE {}

\* A thread opens a file, an existing one or a new one, maybe delete-on-close;
\* one whose delete is pending cannot be opened.
Opens(t, fo, k, onClose, ok) ==
    LET id == IF file[k].id = 0 THEN born + 1 ELSE file[k].id
        e == [what |-> "create", irp |-> t, by |-> t, fo |-> fo, key |-> k, file |-> id,
              onClose |-> onClose, ok |-> TRUE, info |-> "unknown"]
    IN /\ handle[fo].key = 0 /\ ~file[k].gone
       /\ ok = (file[k].pending = {})
       /\ born' = IF ok THEN Max({born, id}) ELSE born
       /\ file' = IF ok THEN [file EXCEPT ![k].id = id] ELSE file
       /\ handle' = IF ok THEN [handle EXCEPT ![fo] =
                        [NoHandle EXCEPT !.key = k, !.by = t, !.onClose = onClose, !.seen = TRUE]] ELSE handle
       /\ Logs(IF ok THEN <<e>> ELSE <<e, [e EXCEPT !.what = "end", !.ok = FALSE]>>)
       /\ UNCHANGED <<spanned, asked, refused, deaths, wrote>>

\* A write; one after the Cleanup is the lazy writer's.
Writes(fo) ==
    /\ handle[fo].key # 0
    /\ handle' = [handle EXCEPT ![fo].wrote = TRUE]
    /\ Logs(<<Ev("write", IF handle[fo].clean THEN Nobody ELSE handle[fo].by, fo)>>)
    /\ UNCHANGED <<file, truth>>

\* A disposition set (the SetDelete and the DeletePath), which may fail.
AsksDelete(fo, posix, ok) ==
    LET k == handle[fo].key
        t == handle[fo].by
    IN /\ Open(fo) /\ ~file[k].gone
       /\ file' = IF ok THEN [file EXCEPT ![k].pending = {t}] ELSE file
       /\ handle' = IF ok THEN [handle EXCEPT ![fo].posix = posix] ELSE handle
       /\ asked' = IF ok THEN With(asked, file[k].id, Askers(file[k].id) \cup {t}) ELSE asked
       /\ refused' = IF ok THEN refused ELSE refused \cup {file[k].id}
       /\ Logs(<<Ev("setDelete", t, fo), Ev("deletePath", t, fo), End(t, fo, ok, "unknown")>>)
       /\ UNCHANGED <<spanned, born, deaths, wrote>>

\* It is cleared: on a delete-on-close handle, that handle's flag.
ClearsDelete(fo) ==
    LET k == handle[fo].key
        t == handle[fo].by
    IN /\ Open(fo) /\ ~file[k].gone /\ (handle[fo].onClose \/ file[k].pending # {})
       /\ file' = IF handle[fo].onClose THEN file ELSE [file EXCEPT ![k].pending = {}]
       /\ handle' = [handle EXCEPT ![fo].onClose = FALSE, ![fo].posix = FALSE]
       /\ Logs(<<Ev("clearDelete", t, fo)>>)
       /\ UNCHANGED truth

\* The last use of a handle: a pending delete happens with the last handle, a
\* POSIX one with its own.
Cleans(fo) ==
    LET h == handle[fo]
        pending == file[h.key].pending \cup (IF h.onClose THEN {h.by} ELSE {})
        last == \A other \in On(h.key) \ {fo} : handle[other].clean
        removes == pending # {} /\ (last \/ h.posix) /\ ~file[h.key].gone
        info == IF silent THEN "unknown"
                ELSE IF removes /\ h.posix THEN "posix"
                ELSE IF removes \/ (last /\ file[h.key].gone) THEN "deleted" ELSE "remains"
        id == file[h.key].id
    IN /\ Open(fo)
       /\ handle' = [handle EXCEPT ![fo].clean = TRUE]
       /\ file' = [file EXCEPT ![h.key].pending = pending, ![h.key].gone = @ \/ removes]
       /\ asked' = IF h.onClose THEN With(asked, id, Askers(id) \cup {h.by}) ELSE asked
       /\ deaths' = IF removes THEN deaths \cup {id} ELSE deaths
       /\ wrote' = IF h.wrote THEN wrote \cup {[file |-> id, by |-> h.by, ts |-> clock + 1, seen |-> h.seen]} ELSE wrote
       /\ Logs(<<Ev("cleanup", h.by, fo), End(h.by, fo, TRUE, info)>>)
       /\ UNCHANGED <<spanned, born, refused>>

\* The Close, which may be lost; the FileKey is free with the last one of a
\* file that is gone.
Closes(fo, logged) ==
    LET k == handle[fo].key
        free == On(k) = {fo} /\ file[k].gone
    IN /\ handle[fo].clean
       /\ handle' = [handle EXCEPT ![fo] = NoHandle]
       /\ file' = IF free THEN [file EXCEPT ![k] = NoFile] ELSE file
       /\ Logs(IF logged THEN <<Ev("close", handle[fo].by, fo)>> ELSE <<>>)
       /\ UNCHANGED truth

\* Nothing happens for longer than an outcome may take.
Quiet ==
    /\ More /\ UNCHANGED silent
    /\ ops' = ops + 1 /\ clock' = clock + OutcomeWindow + 1
    /\ pipe' = Advance(pipe, clock')
    /\ UNCHANGED <<file, handle, cleanups, truth, reports>>

-----------------------------------------------------------------------------
(* The seeder                                                                *)

\* The seeder reads the table and names some of what it was asked about (the
\* start-up pass: of everything). The names are read before the time the
\* snapshot bears: a file may have been removed between the two.
Seeds(named) ==
    LET all == pipe.startup /\ ~\E x \in pipe.queued : x.all
        covered == {fo \in FileObjects : Open(fo) /\ (all \/ fo \in pipe.asks)}
    IN /\ (all \/ (SeedOnMiss /\ pipe.asks # {})) /\ named \subseteq covered
       /\ spanned' = spanned \cup {file[handle[fo].key].id : fo \in {x \in named : file[handle[x].key].gone}}
       /\ pipe' = [pipe EXCEPT !.asks = {}, !.queued = @ \cup {
              [taken |-> clock, all |-> all, asked |-> pipe.asks, unnamable |-> covered \ named,
               named |-> [fo \in named |-> [file |-> file[handle[fo].key].id, by |-> handle[fo].by]]]}]
       /\ UNCHANGED <<machine, cleanups, born, asked, refused, deaths, wrote, reports>>

\* seed_file: answers what waited, unless the address changed hands since the
\* earlier of the event and the read.
Reused(p, w, taken) == w.fo \in DOMAIN p.changes /\ p.changes[w.fo] > Min({w.ts, taken})
\* fill_file_event; a mutant forgets the opener.
AnswerName(w, n) == [action |-> w.action, file |-> n.file, ts |-> w.ts, by |-> w.by]
Answer(w, n) == [action |-> w.action, file |-> n.file, ts |-> w.ts, by |-> IF w.fill = "opened" THEN n.by ELSE w.by]
SeedFile(d, fo, n, taken) ==
    LET p == d.pipe
        answered == {w \in p.map[fo].waiting \cap p.line : ~Reused(p, w, taken)}
    IN IF fo \notin Mapped(p) THEN [d EXCEPT !.pipe.map = With(@, fo, Entry(n.file, n.by, taken))]
       ELSE IF p.map[fo].since > taken \/ p.map[fo].file # 0 THEN d
       ELSE [pipe |-> [p EXCEPT !.map[fo].file = n.file, !.map[fo].opener = n.by, !.map[fo].waiting = {},
                                !.line = @ \ answered],
             out |-> d.out \cup {Answer(w, n) : w \in answered}]

\* apply_snapshot, unnamable_file.
ApplySnapshot(x) ==
    LET table == DOMAIN x.named \cup x.unnamable
        absent == (IF x.all THEN {fo \in Mapped(pipe) : pipe.map[fo].file = 0} ELSE x.asked) \ table
        Unchanged(fo) == fo \in DOMAIN pipe.changes => pipe.changes[fo] <= x.taken
        marked == [pipe EXCEPT !.unnamable = @ \cup {fo \in x.unnamable \cup absent : Unchanged(fo)},
                               !.queued = @ \ {x}, !.startup = @ /\ ~x.all]
        seeded == FoldLeft(LAMBDA d, fo : SeedFile(d, fo, x.named[fo], x.taken), Quietly(marked), SetToSeq(DOMAIN x.named))
        never == (x.unnamable \cup absent) \cap Mapped(seeded.pipe)
        cancelled == UNION {seeded.pipe.map[fo].waiting : fo \in never} \cap seeded.pipe.line
    IN /\ \A y \in pipe.queued : x.taken <= y.taken
       /\ pipe' = [seeded.pipe EXCEPT !.line = @ \ cancelled, !.unknown = @ + Cardinality(cancelled),
                      !.map = [fo \in DOMAIN @ |-> IF fo \in never THEN [@[fo] EXCEPT !.waiting = {}] ELSE @[fo]]]
       /\ reports' = reports \cup seeded.out
       /\ UNCHANGED <<machine, cleanups, truth>>

\* An event nobody named is dropped at its deadline; Files::forget.
Expires(w) ==
    /\ w \in pipe.line
    /\ pipe' = [pipe EXCEPT !.line = @ \ {w}, !.unknown = @ + 1,
                            !.map = [fo \in DOMAIN @ |-> [@[fo] EXCEPT !.waiting = @ \ {w}]]]
    /\ UNCHANGED <<machine, cleanups, truth, reports>>

Next ==
    \/ \E t \in Threads, fo \in FileObjects, k \in FileKeys, onClose, ok \in BOOLEAN : Opens(t, fo, k, onClose, ok)
    \/ \E fo \in FileObjects, posix, ok \in BOOLEAN : AsksDelete(fo, posix, ok)
    \/ \E fo \in FileObjects : ClearsDelete(fo) \/ Writes(fo) \/ Cleans(fo)
    \/ \E fo \in FileObjects, logged \in BOOLEAN : Closes(fo, logged)
    \/ Quiet
    \/ \E named \in SUBSET FileObjects : Seeds(named)
    \/ \E x \in pipe.queued : ApplySnapshot(x)
    \/ \E w \in pipe.line : Expires(w)

Spec == Init /\ [][Next]_vars

-----------------------------------------------------------------------------
(* Properties                                                                *)

Deletes == {r \in reports : r.action = "delete"}
Same(r, w) == r.ts = w.ts /\ r.file = w.file /\ r.by = w.by
UpdatesMade == {r \in reports : r.action = "update"}

\* No entry stays for good (H1): events wait in the line, on an open handle or
\* on an entry past its Cleanup, and each of those is on its way out (retire,
\* forget, on_cleanup_outcome). Only a late write or a late snapshot makes an
\* entry that leaves with its Close.
FilesOK ==
    /\ \A fo \in Mapped(pipe) : pipe.map[fo].waiting \cap pipe.line = pipe.map[fo].waiting
    /\ \A fo \in Mapped(pipe) : pipe.map[fo].cleaned = Never /\ pipe.map[fo].waiting # {} => Open(fo)
    /\ \A fo \in Mapped(pipe) : pipe.map[fo].cleaned # Never =>
          \E i \in DOMAIN pipe.retiring : pipe.retiring[i].fo = fo /\ pipe.retiring[i].at = pipe.map[fo].cleaned

\* A Delete is reported only for a file that is really gone, and once, though
\* requests fail, are taken back or are made twice, FileKeys and Irps are
\* reused and the outcome comes before its Cleanup; the actor asked for it,
\* unless a request that failed took back the one that stood
\* (on_cleanup_outcome, on_file_op_end). A silent file system's is a guess,
\* and a snapshot that spans a POSIX delete brings a second one.
DeletesRight ==
    \A r \in Deletes :
        /\ r.by \in Askers(r.file) \/ r.file \in refused \cup spanned
        /\ ~silent => r.file \in deaths
        /\ ~silent /\ r.file \notin spanned => \A s \in Deletes : s.file = r.file => s = r

\* A delete is missed only if it is counted: as unpaired, or as dropped
\* because its handle was never named (end, next_op, finish_incomplete).
DeletesCounted ==
    ~silent => Cardinality(deaths \ {r.file : r \in Deletes})
                            <= cleanups.unpaired + pipe.unknown + Cardinality(pipe.line)

\* Deletes are reported right or counted as missed.
DeletesOK == DeletesRight /\ DeletesCounted

\* Every handle that wrote before its Cleanup gives one Update, of its file
\* and of its opener (cleanup_handle).
UpdatesRight ==
    /\ \A r \in UpdatesMade : \E w \in wrote : Same(r, w)
    /\ \A w \in wrote : w.seen => \E r \in UpdatesMade : Same(r, w)
=============================================================================
