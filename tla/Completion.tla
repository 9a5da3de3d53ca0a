----------------------------- MODULE Completion -----------------------------
(* The completion stage (completion.rs): events leave in the order the      *)
(* pipeline produced them. A pending event holds the line until each of its *)
(* waits is resolved or past its deadline; it can be cancelled, and past    *)
(* the cap the oldest pending event is forced out as it is. An event is its *)
(* own pending id. A resolved wait is removed: only open ones are looked at.*)
EXTENDS Integers, Sequences, FiniteSets

CONSTANTS
    Events,        \* every event of a behaviour
    PendingCap     \* pending events not forced

ASSUME CapAssumption == PendingCap \in Nat

\* A wait: its reason, its deadline (NoDeadline: the pipeline resolves it),
\* and whether the event is dropped if it expires.
NoDeadline == -1
WaitFor(reason, deadline, drop) == [reason |-> reason, deadline |-> deadline, drop |-> drop]

NewCompletion ==
    [line |-> <<>>, pending |-> {}, waits |-> [e \in Events |-> {}], forced |-> {}, order |-> <<>>,
     exited |-> {}]

\* Mutant: a ready event does not wait behind the pending ones.
PushReadyFirst(c, e) == [c EXCEPT !.line = <<[ev |-> e, ready |-> TRUE]>> \o @]
PushReady(c, e) == [c EXCEPT !.line = Append(@, [ev |-> e, ready |-> TRUE])]

\* Mutant: the newest pending event is forced.
LastPending(c) ==
    CHOOSE i \in DOMAIN c.order : c.order[i] \in c.pending /\ \A j \in i + 1..Len(c.order) : c.order[j] \notin c.pending
\* The first position of order, from its front, that still is pending.
FirstPending(c) ==
    CHOOSE i \in DOMAIN c.order : c.order[i] \in c.pending /\ \A j \in 1..i - 1 : c.order[j] \notin c.pending

ForceOldest(c) ==
    LET i == FirstPending(c)
    IN [c EXCEPT !.forced = @ \cup {c.order[i]}, !.order = SubSeq(@, i + 1, Len(@))]

PushPending(c, e, waits) ==
    LET d == [c EXCEPT !.line = Append(@, [ev |-> e, ready |-> FALSE]),
                       !.pending = @ \cup {e},
                       !.waits[e] = waits,
                       !.order = Append(@, e)]
    IN IF Cardinality(d.pending) > PendingCap THEN ForceOldest(d) ELSE d

IsWaiting(c, e, reason) == e \in c.pending /\ \E w \in c.waits[e] : w.reason = reason

ResolveAll(c, es, reason) ==
    [c EXCEPT !.waits = [e \in Events |-> IF e \in es THEN {w \in @[e] : w.reason # reason} ELSE @[e]]]
Resolve(c, e, reason) == ResolveAll(c, {e}, reason)

\* Mutant: an event that left stays marked as forced.
GoneStillForced(c, es) ==
    [c EXCEPT !.pending = @ \ es, !.exited = @ \cup (es \cap c.pending),
              !.waits = [e \in Events |-> IF e \in es THEN {} ELSE @[e]]]
\* Mutant: it leaves without being noted.
GoneUnnoted(c, es) ==
    [c EXCEPT !.pending = @ \ es, !.forced = @ \ es,
              !.waits = [e \in Events |-> IF e \in es THEN {} ELSE @[e]]]
\* Pending events leave, noted for take_exited.
Gone(c, es) ==
    [c EXCEPT !.pending = @ \ es, !.forced = @ \ es, !.exited = @ \cup (es \cap c.pending),
              !.waits = [e \in Events |-> IF e \in es THEN {} ELSE @[e]]]

\* The slot stays in the line until a drain passes it.
Cancel(c, e) == Gone(c, {e})

\* drain: the slots before the first that is blocked at now.
Blocked(c, slot, now) ==
    /\ slot.ev \in c.pending /\ slot.ev \notin c.forced
    /\ \E w \in c.waits[slot.ev] : w.deadline = NoDeadline \/ now < w.deadline
Drainable(c, now) ==
    CHOOSE n \in 0..Len(c.line) :
        /\ \A i \in 1..n : ~Blocked(c, c.line[i], now)
        /\ n < Len(c.line) => Blocked(c, c.line[n + 1], now)

\* The pending events among the first n slots: they leave.
Leaving(c, n) == {c.line[i].ev : i \in 1..n} \cap c.pending
Dropped(c, e) == e \in c.pending \ c.forced /\ \E w \in c.waits[e] : w.drop

\* The elements of s at the positions in I, in order.
Taken(s, I) == [k \in 1..Cardinality(I) |-> s[CHOOSE i \in I : Cardinality({j \in I : j <= i}) = k]]

\* What the first n slots emit, in order.
Emitting(c, n) ==
    {i \in 1..n : (c.line[i].ready \/ c.line[i].ev \in c.pending) /\ ~Dropped(c, c.line[i].ev)}
Out(c, n) == Taken([i \in DOMAIN c.line |-> c.line[i].ev], Emitting(c, n))

\* What stays; the front of order that left is popped.
After(c, n) ==
    LET d == Gone([c EXCEPT !.line = SubSeq(@, n + 1, Len(@))], Leaving(c, n))
        stale == CHOOSE k \in 0..Len(d.order) :
                    /\ \A i \in 1..k : d.order[i] \notin d.pending
                    /\ k < Len(d.order) => d.order[k + 1] \in d.pending
    IN [d EXCEPT !.order = SubSeq(@, stale + 1, Len(@))]
=============================================================================
