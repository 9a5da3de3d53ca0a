-------------------------------- MODULE Keys ---------------------------------
(* Registry keys and their names (pipeline/reg.rs, pipeline/seed.rs, the     *)
(* early key map of intake.rs, win/seeder.rs, win/handles.rs, win/value.rs): *)
(* handles are opened, used and closed, some before the sessions started;    *)
(* the callbacks see the events in the order they arrive, the pipeline in    *)
(* the order of their times; the seeder names handles from the handle table  *)
(* beside it all, and the reader lane reads values by name.                  *)
EXTENDS KeyMap

CONSTANTS
    Roots, Rel,     \* absolute names, and a name below a base
    Before,         \* handles opened before the sessions: address to path
    SeedOnMiss,     \* seed_on_miss
    EarlyCap,       \* early_key_map_cap
    MaxOps,         \* bound: registry operations
    MaxFlight,      \* bound: events logged and not delivered
    MaxPasses       \* bound: reads of the handle table

ASSUME KeysAssumption ==
    /\ SeedOnMiss \in BOOLEAN /\ EarlyCap \in Nat \ {0}
    /\ {MaxOps, MaxFlight, MaxPasses} \subseteq Nat
    /\ DOMAIN Before \subseteq Addresses

VARIABLES
    clock, truth,   \* the machine: the time, the true path behind each address
    flight, held,   \* events logged, and delivered to the pipeline
    early,          \* Intake.early: names in arrival order, oldest first
    keys,           \* Pipeline.keys
    seeding,        \* Pipeline.seeding
    reg,            \* Pipeline.reg: results of early reads, waiting events, reads
    events,         \* the events made, by their time
    readers,        \* reads the lane was asked for
    seeder          \* the seeder thread: what it is asked, what it holds open

machine == <<clock, truth, flight, held, early>>
pipeline == <<keys, seeding, reg, events>>
vars == <<machine, pipeline, readers, seeder>>

Nothing == <<>>
NoJob == [busy |-> FALSE, asked |-> {}, all |-> FALSE, table |-> {}, held |-> <<>>]

Init ==
    /\ clock = 0 /\ truth = [a \in Addresses |-> IF a \in DOMAIN Before THEN Before[a] ELSE Nothing]
    /\ flight = {} /\ held = {} /\ early = <<>>
    /\ \E cap \in KeyCaps : keys = EmptyKeys(cap)
    /\ seeding = [asks |-> {}, latest |-> {}, queued |-> {}, unnamable |-> {}, changes |-> <<>>, startup |-> TRUE]
    /\ reg = [early |-> <<>>, waiting |-> {}, reads |-> {}]
    /\ events = <<>>
    /\ readers = {} /\ seeder = [job |-> NoJob, passes |-> 0, all |-> TRUE, asked |-> {}]

-----------------------------------------------------------------------------
(* The machine                                                               *)

\* The address of an object the seeder holds a duplicate of is not reused.
Live == {a \in Addresses : truth[a] # Nothing}
Free == Addresses \ (Live \cup DOMAIN seeder.job.held)

\* Operations have odd times, the snapshots between them even ones.
Now == 2 * clock
Logs(what, a, base, rel, path) ==
    /\ clock < MaxOps /\ Cardinality(flight) < MaxFlight
    /\ clock' = clock + 1
    /\ flight' = flight \cup {[what |-> what, a |-> a, base |-> base, rel |-> rel, ts |-> Now + 1, is |-> path]}
    /\ UNCHANGED <<held, early, pipeline, readers, seeder>>

\* A key opened below another or absolutely; created or there already.
Opens(what, a, base, rel) ==
    LET path == IF base = {} THEN rel ELSE truth[CHOOSE b \in base : TRUE] \o rel
    IN /\ a \in Free /\ base \subseteq Live
       /\ truth' = [truth EXCEPT ![a] = path]
       /\ Logs(what, a, base, rel, path)
Closes(a) ==
    /\ a \in Live
    /\ truth' = [truth EXCEPT ![a] = Nothing]
    /\ Logs("close", a, {}, <<>>, truth[a])
\* A value is set (and will be read). A delete is named as a create of a new
\* key is, without a read, and adds no case.
Uses(what, a) ==
    /\ a \in Live
    /\ Logs(what, a, {}, <<>>, truth[a]) /\ UNCHANGED truth

-----------------------------------------------------------------------------
(* The callback: the early key map                                           *)

\* EarlyKeys: full names only, the oldest go.
Named(e) == {e[i].a : i \in DOMAIN e}
NameIn(e, a) == (CHOOSE i \in DOMAIN e : e[i].a = a)
Unnamed(e, a) == SelectSeq(e, LAMBDA x : x.a # a)
EarlyOpen(e, m) ==
    LET known == m.base \cap Named(e)
        path == IF m.base = {} THEN m.rel ELSE e[NameIn(e, CHOOSE b \in known : TRUE)].path \o m.rel
        added == Append(Unnamed(e, m.a), [a |-> m.a, path |-> path])
    IN IF m.base # {} /\ known = {} THEN Unnamed(e, m.a)
       ELSE IF Len(added) > EarlyCap THEN Tail(added) ELSE added

\* A Set on a named key starts a read at once; the agent's own closes do not count.
Deliver(m) ==
    /\ m \in flight
    /\ flight' = flight \ {m} /\ held' = held \cup {m}
    /\ early' = CASE m.what \in {"open", "create"} -> EarlyOpen(early, m)
                  [] m.what = "close" -> Unnamed(early, m.a)
                  [] OTHER -> early
    /\ readers' = IF m.what = "set" /\ m.a \in Named(early)
                  THEN readers \cup {[for |-> m.ts, path |-> early[NameIn(early, m.a)].path, fast |-> TRUE]}
                  ELSE readers
    /\ UNCHANGED <<clock, truth, pipeline, seeder>>

-----------------------------------------------------------------------------
(* The seeder thread                                                         *)

\* The table is read and each covered handle is duplicated and named, or not;
\* the start-up pass covers all. The questions that wait are merged.
SeedBegins(named) ==
    LET covered == IF seeder.all THEN Live ELSE Live \cap seeder.asked
    IN /\ ~seeder.job.busy /\ seeder.passes < MaxPasses /\ (seeder.all \/ seeder.asked # {})
       /\ named \subseteq covered
       /\ seeder' = [job |-> [busy |-> TRUE, all |-> seeder.all, asked |-> IF seeder.all THEN {} ELSE seeder.asked,
                              table |-> covered, held |-> [a \in named |-> truth[a]]],
                     passes |-> seeder.passes + 1, all |-> FALSE, asked |-> IF seeder.all THEN seeder.asked ELSE {}]
       /\ UNCHANGED <<machine, pipeline, readers>>

\* A table read that fails gets no reply.
SeedFails ==
    /\ ~seeder.job.busy /\ (seeder.all \/ seeder.asked # {})
    /\ seeder' = [seeder EXCEPT !.all = FALSE, !.asked = IF seeder.all THEN @ ELSE {}]
    /\ UNCHANGED <<machine, pipeline, readers>>

\* The second read: the duplicates still stand for their addresses; then they
\* close (and log closes the agent ignores). Seeding::queue.
SeedEnds ==
    /\ seeder.job.busy
    /\ seeding' = [seeding EXCEPT !.queued = @ \cup {[taken |-> Now, all |-> seeder.job.all, asked |-> seeder.job.asked,
                                     named |-> seeder.job.held, unnamable |-> seeder.job.table \ DOMAIN seeder.job.held]}]
    /\ held' = held \cup {[what |-> "own close", a |-> a, base |-> {}, rel |-> <<>>, ts |-> Now, is |-> <<>>] :
                                 a \in DOMAIN seeder.job.held}
    /\ seeder' = [seeder EXCEPT !.job = NoJob]
    /\ UNCHANGED <<clock, truth, flight, early, keys, reg, events, readers>>

-----------------------------------------------------------------------------
(* Stream time                                                               *)

\* The next event in the order of the times, once nothing earlier is under way.
InTurn(m) == m \in held /\ \A n \in flight \cup held : m.ts <= n.ts
Idle == flight = {} /\ held = {}

\* apply_due: a snapshot is applied before the first event after it, or at a
\* tick; one that comes late, later.
Due == {s \in seeding.queued : Idle \/ \E m \in held : InTurn(m) /\ s.taken <= m.ts}

\* advance: the questions go to the seeder; early results older than the hold
\* (before some time) go.
Tick(before) ==
    /\ Idle
    /\ seeder' = [seeder EXCEPT !.asked = @ \cup seeding.asks]
    /\ seeding' = [seeding EXCEPT !.asks = {}]
    /\ reg' = [reg EXCEPT !.early = Restrict(@, {ts \in DOMAIN @ : ts >= before})]
    /\ UNCHANGED <<machine, keys, events, readers>>

-----------------------------------------------------------------------------
(* Events                                                                    *)

Event(m, root, path, full, waits, after) ==
    [of |-> m.a, root |-> root, ts |-> m.ts, is |-> m.is, path |-> path, full |-> full, waits |-> waits,
     readAfter |-> after, data |-> Nothing]
\* The complete ones have left when the next one comes.
Put(e) ==
    LET line == {ts \in DOMAIN events : events[ts].waits # {}}
    IN [ts \in line \cup {e.ts} |-> IF ts = e.ts THEN e ELSE events[ts]]
Waits(ts, reason) == ts \in DOMAIN events /\ reason \in events[ts].waits
Settled(e, reason) == [e EXCEPT !.waits = @ \ {reason}]

\* Accepts what was read only if type and size match: it may, or not.
ReadInto(e, path, matches) == IF matches THEN [e EXCEPT !.data = path] ELSE e

\* start_read: the early result if it is of the same key, or a new read.
\* A mutant takes any early result.
AnyPath(read, path) == TRUE
SamePath(read, path) == read = path
Reads(e, matches) ==
    IF e.ts \in DOMAIN reg.early /\ SamePath(reg.early[e.ts], e.path)
    THEN [event |-> ReadInto(e, reg.early[e.ts], matches), new |-> {}]
    ELSE [event |-> [e EXCEPT !.waits = @ \cup {"read"}],
          new |-> {[for |-> e.ts, path |-> e.path, fast |-> FALSE]}]
StartRead(e, matches) ==
    LET r == Reads(e, matches)
    IN /\ events' = Put(r.event)
       /\ readers' = readers \cup r.new
       /\ reg' = [reg EXCEPT !.early = Restrict(@, DOMAIN @ \ {e.ts}),
                             !.reads = @ \cup {x.for : x \in r.new},
                             !.waiting = {w \in @ : w.ts # e.ts}]

\* key_path, key_wait, push_registry.
CanWait(s, root) == (SeedOnMiss \/ s.startup) /\ root \notin s.unnamable
Push(k, s, m, matches) ==
    LET r == Resolve(k, m.a)
        reads == m.what = "set"
    IN /\ keys' = Used(k, m.a)
       /\ \/ /\ r.full /\ reads
             /\ StartRead(Event(m, r.root, r.path, TRUE, {}, TRUE), matches)
             /\ seeding' = s
          \/ /\ r.full /\ ~reads
             /\ events' = Put(Event(m, r.root, r.path, TRUE, {}, FALSE))
             /\ seeding' = s /\ UNCHANGED <<reg, readers>>
          \/ /\ ~r.full /\ ~CanWait(s, r.root)
             /\ events' = Put(Event(m, r.root, r.path, FALSE, {}, FALSE))
             /\ seeding' = s /\ UNCHANGED <<reg, readers>>
          \/ /\ ~r.full /\ CanWait(s, r.root)
             /\ events' = Put(Event(m, r.root, r.path, FALSE, {"seeder"}, reads))
             /\ reg' = [reg EXCEPT !.waiting = @ \cup {[ts |-> m.ts, root |-> r.root, key |-> m.a]}]
             /\ seeding' = [s EXCEPT !.asks = IF SeedOnMiss /\ r.root \notin s.latest
                                              THEN @ \cup {r.root} ELSE @]
             /\ UNCHANGED readers

\* Seeding::changed, kept only while a snapshot can still come.
Changed(s, a, ts) ==
    LET needed == SeedOnMiss \/ s.startup \/ s.queued # {}
    IN [s EXCEPT !.changes = IF needed THEN [b \in DOMAIN @ \cup {a} |-> IF b = a THEN ts ELSE @[b]] ELSE @,
                 !.unnamable = @ \ {a}]

Handling(m, kinds) ==
    /\ InTurn(m) /\ m.what \in kinds
    /\ held' = held \ {m}
    /\ UNCHANGED <<clock, truth, flight, early, seeder>>

\* on_reg_open: an open makes no event, a create of a new key does.
RegOpen(m, matches) ==
    LET k == OpenKey(keys, m.a, m.base, m.rel, m.ts)
        s == Changed(seeding, m.a, m.ts)
    IN /\ Handling(m, {"open", "create"})
       /\ \/ m.what = "open" /\ keys' = k /\ seeding' = s /\ UNCHANGED <<reg, events, readers>>
          \/ m.what = "create" /\ Push(k, s, m, matches)

\* on_reg_close: the agent's own closes are ignored.
RegClose(m) ==
    /\ Handling(m, {"close", "own close"})
    /\ \/ m.what = "own close" /\ UNCHANGED pipeline
       \/ /\ m.what = "close"
          /\ keys' = CloseKey(keys, m.a, m.ts)
          /\ seeding' = Changed(seeding, m.a, m.ts)
          /\ UNCHANGED <<reg, events>>
    /\ UNCHANGED readers

\* on_reg_set_value (on_reg_delete_key and _value are this without the read).
RegUse(m, matches) ==
    /\ Handling(m, {"set"})
    /\ Push(keys, seeding, m, matches)

-----------------------------------------------------------------------------
(* Snapshots                                                                 *)

\* The address changed hands after the earlier of the event and the read.
\* Mutants: only the read counts; only the event counts.
ChangedAfterRead(s, w, taken) == w.root \in DOMAIN s.changes /\ s.changes[w.root] > taken
Reused(s, w, taken) == w.root \in DOMAIN s.changes /\ s.changes[w.root] > Min({w.ts, taken})

\* apply_snapshot and answer_key_waiters.
ApplySnapshot(s, matches) ==
    LET inTable == DOMAIN s.named \cup s.unnamable
        absent == (IF s.all THEN {w.root : w \in reg.waiting} ELSE s.asked) \ inTable
        Same(a) == a \in DOMAIN seeding.changes => seeding.changes[a] <= s.taken
        unnamable == seeding.unnamable \cup {a \in s.unnamable \cup absent : Same(a)}
        seeded == FoldLeft(LAMBDA k, a : SeedKey(k, a, s.named[a], s.taken), keys, SetToSeq(DOMAIN s.named))
        answered == {w \in reg.waiting : w.root \in inTable \cup absent}
        alive == {w \in answered : Waits(w.ts, "seeder")}
        Waiter(ts) == CHOOSE w \in alive : w.ts = ts
        Answer(w) == LET r == Resolve(seeded, w.key)
                         e == Settled(events[w.ts], "seeder")
                     IN IF /\ w.root \in inTable \ unnamable
                           /\ ~Reused(seeding, w, s.taken) /\ r.full
                        THEN [e EXCEPT !.path = r.path, !.full = TRUE]
                        ELSE [e EXCEPT !.readAfter = FALSE]
        Read(w) == IF Answer(w).full /\ Answer(w).readAfter THEN Reads(Answer(w), matches)
                   ELSE [event |-> Answer(w), new |-> {}]
        later == seeding.queued \ {s}
        startup == seeding.startup /\ ~s.all
    IN /\ s \in Due /\ \A d \in Due : s.taken <= d.taken
       /\ keys' = FoldLeft(Used, seeded, SetToSeq({w.key : w \in alive}))
       /\ events' = [ts \in DOMAIN events |-> IF ts \in {w.ts : w \in alive} THEN Read(Waiter(ts)).event ELSE events[ts]]
       /\ LET new == UNION {Read(w).new : w \in alive}
          IN /\ readers' = readers \cup new
             /\ reg' = [early |-> Restrict(reg.early, DOMAIN reg.early \ {w.ts : w \in {v \in alive : Answer(v).full}}),
                        waiting |-> reg.waiting \ answered,
                        reads |-> reg.reads \cup {x.for : x \in new}]
       /\ seeding' = [seeding EXCEPT
              !.unnamable = unnamable, !.queued = later, !.latest = inTable, !.startup = startup,
              !.changes = IF s.all /\ ~(SeedOnMiss \/ startup \/ later # {}) THEN <<>> ELSE @]
       /\ UNCHANGED <<machine, seeder>>

\* owner_exited: the unnamable handles of a process that exits are asked about again.
OwnerExits(a) ==
    /\ a \in seeding.unnamable
    /\ seeding' = [seeding EXCEPT !.unnamable = @ \ {a}]
    /\ UNCHANGED <<machine, keys, reg, events, readers, seeder>>

-----------------------------------------------------------------------------
(* Reads and the completion stage                                            *)

\* The lane reads a value: on_early_read, on_value_read.
ReadDone(r, matches) ==
    /\ r \in readers
    /\ readers' = readers \ {r}
    /\ \/ /\ r.fast
          /\ reg' = [reg EXCEPT !.early = [ts \in DOMAIN @ \cup {r.for} |-> IF ts = r.for THEN r.path ELSE @[ts]]]
          /\ UNCHANGED events
       \/ /\ ~r.fast
          /\ reg' = [reg EXCEPT !.reads = @ \ {r.for}]
          /\ events' = IF r.for \in reg.reads /\ Waits(r.for, "read")
                       THEN [events EXCEPT ![r.for] = ReadInto(Settled(@, "read"), r.path, matches)]
                       ELSE events
    /\ UNCHANGED <<machine, keys, seeding, seeder>>

\* An event leaves incomplete at its deadline; Registry::forget.
Leaves(ts) ==
    /\ ts \in DOMAIN events /\ events[ts].waits # {}
    /\ events' = Restrict(events, DOMAIN events \ {ts})
    /\ reg' = [reg EXCEPT !.waiting = {w \in @ : w.ts # ts}, !.reads = @ \ {ts}]
    /\ UNCHANGED <<machine, keys, seeding, readers, seeder>>

Next ==
    \/ \E a \in Addresses :
          \/ \E r \in Roots : Opens("open", a, {}, r)
          \/ \E b \in Addresses \ {a} : Opens("create", a, {b}, Rel)
          \/ Closes(a) \/ Uses("set", a)
    \/ \E m \in flight : Deliver(m)
    \/ \E before \in {0, Now} : Tick(before)
    \/ \E named \in SUBSET Addresses : SeedBegins(named)
    \/ SeedFails \/ SeedEnds
    \/ \E m \in held, matches \in BOOLEAN : RegOpen(m, matches) \/ RegUse(m, matches)
    \/ \E m \in held : RegClose(m)
    \/ \E s \in seeding.queued, matches \in BOOLEAN : ApplySnapshot(s, matches)
    \/ \E a \in Addresses : OwnerExits(a)
    \/ \E r \in readers, matches \in BOOLEAN : ReadDone(r, matches)
    \/ \E ts \in DOMAIN events : Leaves(ts)

Spec == Init /\ [][Next]_vars

-----------------------------------------------------------------------------
(* Properties                                                                *)

\* A path that is not flagged unresolved is the one of the handle when it was
\* used, whatever became of its address, its bases and the snapshots since
\* (answer_key_waiters, keymap.rs), unless it waited for a base while its own
\* address changed hands, which the answer does not look at, and unless the
\* map is too small: an evicted entry no longer stops an older snapshot.
Right(e) == e.full => e.path = e.is
Moved(e) == e.root # e.of /\ e.of \in DOMAIN seeding.changes /\ seeding.changes[e.of] > e.ts
NameRight == keys.cap >= Cardinality(Addresses) => \A ts \in DOMAIN events : Right(events[ts]) \/ Moved(events[ts])

\* The data of a value was read from the key the event names, though the
\* early map saw the events in another order.
DataRight == \A ts \in DOMAIN events : events[ts].data # Nothing => events[ts].full /\ events[ts].data = events[ts].path
=============================================================================
