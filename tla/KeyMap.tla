------------------------------- MODULE KeyMap --------------------------------
(* The registry key map (keymap.rs): KeyObject address to name. A path is    *)
(* the sequence of its components; an absolute one starts at a root.         *)
EXTENDS Integers, FiniteSets, SequencesExt

CONSTANTS
    Addresses,
    KeyCaps     \* key_map_cap: the values a configuration may give it

ASSUME KeyMapAssumption == KeyCaps \subseteq Nat \ {0} /\ IsFiniteSet(Addresses)

Full(path) == [kind |-> "full", path |-> path, base |-> {}]
Below(base, rel) == [kind |-> "below", path |-> rel, base |-> {base}]
Orphan(rel) == [kind |-> "orphan", path |-> rel, base |-> {}]
Unclosed == -1

\* cap, map, waiting, and the order of the last uses (Entry.touched).
EmptyKeys(cap) == [cap |-> cap, map |-> <<>>, waiting |-> [a \in Addresses |-> {}], touched |-> <<>>]

Mapped(k) == DOMAIN k.map
Used(k, a) == IF a \in Mapped(k) THEN [k EXCEPT !.touched = Append(SelectSeq(@, LAMBDA b : b # a), a)] ELSE k
Drop(k, gone) ==
    [k EXCEPT !.map = Restrict(@, DOMAIN @ \ gone), !.touched = SelectSeq(@, LAMBDA b : b \notin gone)]

\* A chain of bases is never longer than there are addresses (MAX_DEPTH).
Depths == [i \in 1..Cardinality(Addresses) |-> i]

\* unlink, drop_if_dead, remove: an entry that goes may be the last one a
\* tombstone is kept for, which goes too, and so on up. A mutant lets it stay.
Dead(k, a) == a \in Mapped(k) /\ k.map[a].closed # Unclosed /\ k.waiting[a] = {}
LinkOnly(k, a) == [k EXCEPT !.waiting = [b \in Addresses |-> @[b] \ {a}]]
Unlinked(k, a) ==
    LET Step(s) ==
            IF s.at \cap Mapped(s.keys) = {} THEN s
            ELSE LET at == CHOOSE x \in s.at : TRUE
                     base == s.keys.map[at].name.base
                     keys == [s.keys EXCEPT !.waiting =
                                 [b \in Addresses |-> IF b \in base THEN @[b] \ {at} ELSE @[b]]]
                     dead == {b \in base : Dead(keys, b)}
                 IN [keys |-> keys, at |-> dead, gone |-> s.gone \cup dead]
        end == FoldLeft(LAMBDA s, depth : Step(s), [keys |-> k, at |-> {a}, gone |-> {}], Depths)
    IN IF a \notin Mapped(k) \/ k.map[a].name.base = {} THEN k ELSE Drop(end.keys, end.gone)
RemoveKey(k, a) == Drop(Unlinked(k, a), {a})

\* orphan_children. A mutant lets them wait on.
StillWait(k, a) == k
OrphanChildren(k, a) ==
    [k EXCEPT !.waiting[a] = {},
              !.map = [b \in DOMAIN @ |-> IF b \in k.waiting[a] THEN [@[b] EXCEPT !.name = Orphan(@.path)] ELSE @[b]]]

\* name_children: the names go down to all that waited; tombstones of named
\* bases have nothing to be kept for.
NameChildren(k, a) ==
    LET Step(s) ==
            LET children == UNION {s.keys.waiting[b] : b \in s.at}
                Base(c) == CHOOSE b \in s.at : c \in s.keys.waiting[b]
            IN [keys |-> [s.keys EXCEPT
                    !.waiting = [b \in Addresses |-> IF b \in s.at THEN {} ELSE @[b]],
                    !.map = [c \in DOMAIN @ |->
                        IF c \in children
                        THEN [@[c] EXCEPT !.name = Full(s.keys.map[Base(c)].name.path \o @.path)] ELSE @[c]]],
                at |-> children, named |-> s.named \cup children]
        end == FoldLeft(LAMBDA s, depth : Step(s), [keys |-> k, at |-> {a}, named |-> {a}], Depths)
    IN IF k.waiting[a] = {} THEN k ELSE Drop(end.keys, {b \in end.named : Dead(end.keys, b)})

\* evict_batch: the least recently used eighth, at least one.
Evict(k) ==
    LET n == Cardinality(Mapped(k))
    IN IF n <= k.cap THEN k
       ELSE FoldLeft(RemoveKey, k, SubSeq(k.touched, 1, IF n \div 8 = 0 THEN 1 ELSE n \div 8))

\* set.
SetKey(k, a, name, since) ==
    LET left == Unlinked(k, a)
        linked == [left EXCEPT !.waiting = [b \in Addresses |-> IF b \in name.base THEN @[b] \cup {a} ELSE @[b]],
                               !.map = [b \in DOMAIN @ \cup {a} |->
                                   IF b = a THEN [name |-> name, since |-> since, closed |-> Unclosed] ELSE @[b]]]
        used == Used(linked, a)
    IN Evict(IF name.kind = "full" THEN NameChildren(used, a) ELSE used)

\* open: a new object at the address, the children that waited there belonged
\* to the earlier one. An absolute name has no base.
OpenKey(k, a, base, rel, ts) ==
    LET orphaned == OrphanChildren(k, a)
        named == {b \in base \cap Mapped(orphaned) : orphaned.map[b].name.kind = "full"}
        name == IF base = {} THEN Full(rel)
                ELSE IF named = {} THEN Below(CHOOSE b \in base : TRUE, rel)
                ELSE Full(orphaned.map[CHOOSE b \in named : TRUE].name.path \o rel)
    IN SetKey(orphaned, a, name, ts)

\* seed: never over what an event set after the snapshot; what was read after
\* a tombstone closed is a later object's.
SeedKey(k, a, path, taken) ==
    IF a \in Mapped(k) /\ k.map[a].since > taken THEN k
    ELSE SetKey(IF a \in Mapped(k) /\ k.map[a].closed # Unclosed /\ k.map[a].closed <= taken
                THEN OrphanChildren(k, a) ELSE k,
                a, Full(path), taken)

\* close: a tombstone while children wait; an unknown base orphans them. A
\* mutant keeps no tombstone.
RemoveAtOnce(k, a, ts) == IF a \notin Mapped(k) THEN OrphanChildren(k, a) ELSE RemoveKey(k, a)
CloseKey(k, a, ts) ==
    IF a \notin Mapped(k) THEN OrphanChildren(k, a)
    ELSE IF k.waiting[a] # {} THEN [k EXCEPT !.map[a].closed = ts]
    ELSE RemoveKey(k, a)

\* resolve: the full name, or what is known below the first unnamed base.
Resolve(k, a) ==
    LET Step(s) ==
            IF s.done \/ s.at \notin Mapped(k) THEN [s EXCEPT !.done = TRUE]
            ELSE LET name == k.map[s.at].name
                     path == name.path \o s.path
                 IN IF name.kind = "below" THEN [s EXCEPT !.at = CHOOSE b \in name.base : TRUE, !.path = path]
                    ELSE [done |-> TRUE, at |-> s.at, path |-> path, full |-> name.kind = "full"]
        end == FoldLeft(LAMBDA s, depth : Step(s), [done |-> FALSE, at |-> a, path |-> <<>>, full |-> FALSE], Depths)
    IN [full |-> end.full, path |-> end.path, root |-> end.at]

\* The waiting lists are the entries that name a base, tombstones are waited
\* on, and the cap holds.
KeyMapOK(k) ==
    /\ \A b \in Addresses : k.waiting[b] = {a \in Mapped(k) : b \in k.map[a].name.base}
    /\ \A a \in Mapped(k) : ~Dead(k, a)
    /\ ToSet(k.touched) = Mapped(k) /\ IsInjective(k.touched)
    /\ Cardinality(Mapped(k)) <= k.cap
=============================================================================
