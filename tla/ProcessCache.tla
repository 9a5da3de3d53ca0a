---------------------------- MODULE ProcessCache ----------------------------
(* The process cache (process.rs): entries by start key, an index by PID,    *)
(* eviction in batches (evict.rs). A process stands for its start key; what  *)
(* it is known by (path, user, parent) is one detail, its command line.      *)
EXTENDS Integers, FiniteSets, SequencesExt

CONSTANTS
    Procs,      \* start keys
    PidOf,      \* the PID of each
    Retention,  \* how long an entry stays after the Terminate
    ProcessCap

Pids == {PidOf[p] : p \in Procs}
Always == -1        \* i64::MIN: running when the agent started
Open == -2          \* no Terminate yet
ASSUME CacheAssumption ==
    /\ DOMAIN PidOf = Procs
    /\ Retention \in Nat /\ ProcessCap \in Nat \ {0}

\* An order of keys: the pairs of which the first comes before the second.
PutLast(order, ps, p) == {x \in order : p \notin {x[1], x[2]}} \cup {<<q, p>> : q \in ps \ {p}}
Among(order, ps) == {x \in order : {x[1], x[2]} \subseteq ps}

\* by_key, by_pid and the order of its lists, the order of the last lookups
\* (Entry.touched), and, as history, which processes were evicted though no
\* Terminate had come.
EmptyCache ==
    [entries |-> [p \in {} |-> [cmd |-> {}, start |-> Always, end |-> Open]],
     byPid |-> [i \in Pids |-> {}],
     added |-> {},
     touched |-> {},
     evicted |-> {}]

Cached(c) == DOMAIN c.entries
Touch(c, p) == [c EXCEPT !.touched = PutLast(@, Cached(c), p)]

\* A mutant of Removed: the index keeps what goes.
RemovedByKey(c, gone) ==
    [c EXCEPT !.entries = [p \in Cached(c) \ gone |-> c.entries[p]],
              !.touched = Among(@, Cached(c) \ gone)]
Removed(c, gone) ==
    [entries |-> [p \in Cached(c) \ gone |-> c.entries[p]],
     byPid |-> [i \in Pids |-> c.byPid[i] \ gone],
     added |-> Among(c.added, Cached(c) \ gone),
     touched |-> Among(c.touched, Cached(c) \ gone),
     evicted |-> c.evicted]

\* The ended ones go first, the one that ended first before the others; then
\* the ones not looked up for longest.
Older(c, p, q) ==
    LET Ended(x) == c.entries[x].end # Open
    IN \/ Ended(p) /\ ~Ended(q)
       \/ Ended(p) /\ Ended(q) /\ c.entries[p].end < c.entries[q].end
       \/ (Ended(p) <=> Ended(q)) /\ c.entries[p].end = c.entries[q].end /\ <<p, q>> \in c.touched

\* evict::oldest: an eighth of them, at least one, the oldest first.
Oldest(c) ==
    CHOOSE old \in SUBSET Cached(c) :
        /\ Cardinality(old) = Max({Cardinality(Cached(c)) \div 8, 1})
        /\ \A p \in old, q \in Cached(c) \ old : ~Older(c, q, p)

Running(c, ps) == {p \in ps : c.entries[p].end = Open}
Evict(c) ==
    IF Cardinality(Cached(c)) <= ProcessCap THEN c
    ELSE Removed([c EXCEPT !.evicted = @ \cup Running(c, Oldest(c))], Oldest(c))

\* An entry that is there takes the new details and the earlier start; its
\* Terminate and its last lookup stay.
Insert(c, p, cmd, start) ==
    IF p \in Cached(c)
    THEN [c EXCEPT !.entries[p].cmd = cmd, !.entries[p].start = Min({@, start})]
    ELSE Evict([entries |-> [q \in Cached(c) \cup {p} |->
                                IF q = p THEN [cmd |-> cmd, start |-> start, end |-> Open] ELSE c.entries[q]],
                byPid |-> [c.byPid EXCEPT ![PidOf[p]] = @ \cup {p}],
                added |-> PutLast(c.added, c.byPid[PidOf[p]], p),
                touched |-> PutLast(c.touched, Cached(c), p),
                evicted |-> c.evicted])

SetCommand(c, p, cmd) == IF p \in Cached(c) THEN [c EXCEPT !.entries[p].cmd = cmd] ELSE c
End(c, p, ts) == IF p \in Cached(c) THEN [c EXCEPT !.entries[p].end = ts] ELSE c

\* lookup_at: the last started at or before ts (the one cached last among
\* equals), even when it answers nothing because it ended too long before.
StartedBy(c, pid, ts) == {p \in c.byPid[pid] : c.entries[p].start <= ts}
\* A mutant of Latest: any entry that had started, not the last one.
FirstStarted(c, pid, ts) ==
    CHOOSE p \in StartedBy(c, pid, ts) : \A q \in StartedBy(c, pid, ts) \ {p} : <<p, q>> \in c.added
Latest(c, pid, ts) ==
    CHOOSE p \in StartedBy(c, pid, ts) : \A q \in StartedBy(c, pid, ts) \ {p} :
        \/ c.entries[q].start < c.entries[p].start
        \/ c.entries[q].start = c.entries[p].start /\ <<q, p>> \in c.added
LookupAt(c, pid, ts) ==
    IF StartedBy(c, pid, ts) = {} THEN {}
    ELSE {p \in {Latest(c, pid, ts)} : c.entries[p].end = Open \/ ts <= c.entries[p].end + Retention}
LookedUp(c, pid, ts) == IF StartedBy(c, pid, ts) = {} THEN c ELSE Touch(c, Latest(c, pid, ts))

Expire(c, now) ==
    Removed(c, {p \in Cached(c) : c.entries[p].end # Open /\ c.entries[p].end + Retention < now})
=============================================================================
