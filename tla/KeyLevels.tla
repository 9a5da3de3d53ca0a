------------------------------ MODULE KeyLevels ------------------------------
(* The key map (keymap.rs) under the calls of the registry stage, over       *)
(* several levels of keys (pipeline/reg.rs, pipeline/seed.rs, win/seeder.rs).*)
(* The stage hands it the events in the order of their times, so an          *)
(* operation and its handling are one step; the callback, the waiting events *)
(* and the reads are in Keys.                                                *)
EXTENDS KeyMap

CONSTANTS
    Before,     \* the handles opened before the sessions
    MaxOps,     \* bound: keys opened, closed and used
    MaxPasses   \* bound: reads of the handle table

ASSUME LevelsAssumption == Before \subseteq Addresses /\ {MaxOps, MaxPasses} \subseteq Nat

VARIABLES
    time, truth,    \* the machine: the time, the true path behind each address
    keys,           \* Pipeline.keys
    job,            \* the seeder's pass: the handles it holds duplicates of
    queued,         \* Seeding::queue: snapshots not applied yet
    passes

levelVars == <<time, truth, keys, job, queued, passes>>

\* Every key has a name of its own: no two objects are mistaken for equal.
Component(a, ts) == <<[at |-> a, opened |-> ts]>>
Live == {a \in Addresses : truth[a] # <<>>}
Now == 2 * time

LevelsInit ==
    /\ time = 0 /\ job = <<>> /\ queued = {} /\ passes = 0
    /\ truth = [a \in Addresses |-> IF a \in Before THEN Component(a, 0) ELSE <<>>]
    /\ \E cap \in KeyCaps : keys = EmptyKeys(cap)

Passes == time < MaxOps /\ time' = time + 1 /\ UNCHANGED <<job, queued, passes>>

\* on_reg_open: below a base, whose handle is open, or absolutely. An address
\* the seeder holds a duplicate of is not reused.
RegOpen(a, base) ==
    /\ a \notin Live \cup DOMAIN job /\ base \subseteq Live
    /\ truth' = [truth EXCEPT ![a] = (IF base = {} THEN <<>> ELSE truth[CHOOSE b \in base : TRUE])
                                        \o Component(a, Now + 1)]
    /\ keys' = OpenKey(keys, a, base, Component(a, Now + 1), Now + 1)
    /\ Passes

\* on_reg_close.
RegClose(a) ==
    /\ a \in Live
    /\ truth' = [truth EXCEPT ![a] = <<>>]
    /\ keys' = CloseKey(keys, a, Now + 1)
    /\ Passes

\* key_path, answer_key_waiters: a handle is resolved. The order of the uses
\* only tells in a map that can fill; the last one used again changes nothing.
KeyPath(a) ==
    /\ a \in Mapped(keys) /\ keys.cap < Cardinality(Addresses)
    /\ keys' = Used(keys, a) /\ keys' # keys
    /\ UNCHANGED truth /\ Passes

\* The handle table is read and handles are duplicated and named; the names
\* are taken when the duplicates close, an owner may have closed his by then.
SeedBegins(named) ==
    /\ job = <<>> /\ named # {} /\ named \subseteq Live /\ passes < MaxPasses
    /\ job' = [a \in named |-> truth[a]] /\ passes' = passes + 1
    /\ UNCHANGED <<time, truth, keys, queued>>
SeedEnds ==
    /\ job # <<>>
    /\ queued' = queued \cup {[taken |-> Now, named |-> job]} /\ job' = <<>>
    /\ UNCHANGED <<time, truth, keys, passes>>

\* apply_snapshot, at once or late, the oldest first; its names in any order.
ApplySnapshot(s, names) ==
    /\ \A other \in queued : s.taken <= other.taken
    /\ keys' = FoldLeft(LAMBDA k, a : SeedKey(k, a, s.named[a], s.taken), keys, names)
    /\ queued' = queued \ {s}
    /\ UNCHANGED <<time, truth, job, passes>>

LevelsNext ==
    \/ \E a \in Addresses :
          \/ RegOpen(a, {}) \/ RegClose(a) \/ KeyPath(a)
          \/ \E b \in Addresses \ {a} : RegOpen(a, {b})
    \/ \E named \in SUBSET Addresses : SeedBegins(named)
    \/ SeedEnds
    \/ \E s \in queued : \E names \in SetToSeqs(DOMAIN s.named) : ApplySnapshot(s, names)

LevelsSpec == LevelsInit /\ [][LevelsNext]_levelVars

-----------------------------------------------------------------------------
(* Properties                                                                *)

\* What is known of an open handle is true: its full name, or the end of it;
\* and the base it waits for is still the handle it was opened below, open, so
\* that a name for that address names the right key. A map that is too small
\* forgets what stops an older snapshot.
Lineage(a) ==
    LET r == Resolve(keys, a)
    IN IF r.full THEN r.path = truth[a]
       ELSE /\ IsSuffix(r.path, truth[a])
            /\ r.root \in Mapped(keys) \/ (r.root \in Live /\ truth[a] = truth[r.root] \o r.path)

\* No key waits for a base that has its name (name_children).
NobodyForgotten ==
    \A a \in Mapped(keys) : \A b \in keys.map[a].name.base \cap Mapped(keys) : keys.map[b].name.kind # "full"

\* Through several levels, whatever closes, is reopened, evicted or named late:
\* the waiting lists are the entries that name a base, a tombstone is kept
\* exactly while something waits for it (drop_if_dead), the names go down to
\* all that wait, and every name of an open handle is its own.
LevelsRight ==
    /\ KeyMapOK(keys)
    /\ NobodyForgotten
    /\ keys.cap >= Cardinality(Addresses) => \A a \in Live \cap Mapped(keys) : Lineage(a)
=============================================================================
