------------------------------ MODULE Ordering ------------------------------
(* The ordering stage (ordering.rs): events are held until they are older   *)
(* than the hold and leave in order of time, arrival order breaking ties.   *)
(* The heap with its slots is the set of the held keys.                     *)
EXTENDS Integers

CONSTANTS
    Hold,              \* how long an event is held
    Never, Forever     \* i64::MIN and i64::MAX: before and after every time
ASSUME HoldAssumption == Hold \in Nat /\ Never \in Int /\ Never < 0 /\ Forever \in Nat \ {0}

NoneHeld == [held |-> {}, seq |-> 0, last |-> Never]

Later(a, b) == IF a > b THEN a ELSE b

\* Pushed::Late
TooLate(o, ts) == ts < o.last

PushHeld(o, e, ts) ==
    [o EXCEPT !.held = @ \cup {[ts |-> ts, seq |-> o.seq + 1, ev |-> e]}, !.seq = @ + 1]

\* Mutant: events leave in the order they arrived.
NextArrived(o, limit) == {h \in o.held : h.ts <= limit /\ \A g \in o.held : h.seq <= g.seq}
\* peek: the smallest key not after limit, as a set of at most one.
NextUntil(o, limit) ==
    {h \in o.held : /\ h.ts <= limit
                    /\ \A g \in o.held : h.ts < g.ts \/ (h.ts = g.ts /\ h.seq <= g.seq)}

PopHeld(o, h) == [o EXCEPT !.held = @ \ {h}, !.last = Later(@, h.ts)]

\* Mutant: stream time stands still without events.
WatermarkStill(o, now) == o.last
\* Stream time: it advances while no events arrive.
Watermark(o, now) == Later(o.last, now - Hold)
=============================================================================
