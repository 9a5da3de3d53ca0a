------------------------------- MODULE Recent -------------------------------
(* Keys with the time they were last seen, forgotten oldest first           *)
(* (recent.rs). The insertion order is kept beside the map and is not       *)
(* updated when a key is removed or seen again: stale entries are skipped.  *)
EXTENDS Integers, Sequences

CONSTANT RecentCap    \* the entries of the order kept, at least 1
ASSUME RecentAssumption == RecentCap \in Nat \ {0}

Absent == -1

NoneRecent(keys) == [at |-> [k \in keys |-> Absent], order |-> <<>>]

\* pop_front, n times: a key goes if the entry still holds its time.
RecentForget(r, n) ==
    [at |-> [k \in DOMAIN r.at |->
               IF \E i \in 1..n : r.order[i].key = k /\ r.order[i].ts = r.at[k] THEN Absent ELSE r.at[k]],
     order |-> SubSeq(r.order, n + 1, Len(r.order))]

\* The latest time wins; past the cap the oldest entry goes.
RecentInsert(r, key, ts) ==
    LET added == [at |-> [r.at EXCEPT ![key] = ts], order |-> Append(r.order, [ts |-> ts, key |-> key])]
    IN IF r.at[key] >= ts THEN r
       ELSE IF Len(added.order) > RecentCap THEN RecentForget(added, 1)
       ELSE added

RecentRemove(r, key) == [r EXCEPT !.at[key] = Absent]

\* In insertion order: an entry behind a younger one stays a little longer.
RecentExpire(r, before) ==
    RecentForget(r, CHOOSE n \in 0..Len(r.order) :
                /\ \A i \in 1..n : r.order[i].ts < before
                /\ n < Len(r.order) => r.order[n + 1].ts >= before)
=============================================================================
