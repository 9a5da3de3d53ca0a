----------------------------- MODULE Expanding -------------------------------
(* The expander lane (win/services.rs: expander_lane, Invalidations), its    *)
(* cache of short names (win/expand.rs) and the FileObject whose map entry   *)
(* keeps the long path (pipeline/expand.rs), beside a disk that changes.     *)
(* On the volume one directory has the short name S; in it one file has the  *)
(* short name T. A directory or file that is replaced leaves its short name  *)
(* to the next. Names are numbers, the short ones negative, the long ones    *)
(* never used again; a path is its components below the device.              *)
EXTENDS Integers, FiniteSets, SequencesExt, Functions

CONSTANTS
    InvCap,                     \* lane_cap: of the invalidations that wait
    ExpandCap,                  \* CAP of the cache
    MaxChanges, MaxExpands      \* bounds

ASSUME ExpandAssumption == {InvCap, ExpandCap} \subseteq Nat \ {0} /\ {MaxChanges, MaxExpands} \subseteq Nat

VARIABLES
    volume,     \* the long names behind S and T, and the change each old one went with
    changes,    \* FIFO: changes the pipeline has not seen, each as its logged path
    inval,      \* Invalidations, and how many the pipeline has submitted
    names,      \* Expander.cache; by_long is its inverse: a directory has one short name
    expander,   \* the lane's job: its invalidations, the components left, the long path so far
    entry       \* a FileObject's map entry: its nt path and expanded; the request of its slot

expandVars == <<volume, changes, inval, names, expander, entry>>

S == -1
T == -2
IsShort(c) == c < 0
None == <<>>
Idle == [pc |-> "idle", todo |-> None, left |-> None, out |-> None, asked |-> None, floor |-> 0]

ExpandInit ==
    /\ volume = [d |-> 1, t |-> 2, gone |-> <<>>]
    /\ changes = <<>> /\ inval = [paths |-> <<>>, lost |-> FALSE, submitted |-> 0]
    /\ names = <<>> /\ expander = Idle
    /\ entry = [nt |-> None, expanded |-> None, asked |-> None, asks |-> 0]

-----------------------------------------------------------------------------
(* The disk                                                                  *)

WithAll(f, keys, v) == [k \in DOMAIN f \cup keys |-> IF k \in keys THEN v ELSE f[k]]
NextName == Cardinality(DOMAIN volume.gone) + 3
Changed == Cardinality(Range(volume.gone))

\* A change is logged with the path its caller used, long or short.
PathsTo(what) == IF what = "dir" THEN {<<S>>, <<volume.d>>} ELSE {S, volume.d} \X {T, volume.t}

\* The directory goes with its file, or the file alone; another takes the
\* short name.
DiskChange(what, path) ==
    /\ Changed < MaxChanges /\ path \in PathsTo(what)
    /\ LET n == Changed + 1
       IN volume' = IF what = "dir"
                    THEN [d |-> NextName, t |-> NextName + 1, gone |-> WithAll(volume.gone, {volume.d, volume.t}, n)]
                    ELSE [volume EXCEPT !.t = NextName, !.gone = WithAll(@, {volume.t}, n)]
    /\ changes' = Append(changes, path)
    /\ UNCHANGED <<inval, names, expander, entry>>

\* NtDir::long_name: what stands behind the short name in the directory now.
LongName(dir, c) ==
    CASE c = S /\ dir = None -> <<volume.d>>
      [] c = T /\ dir = <<volume.d>> -> <<volume.t>>
      [] OTHER -> None

-----------------------------------------------------------------------------
(* Invalidations                                                             *)

\* submit of an InvalidateHash: too many, and the expander clears everything.
\* A mutant forgets that some were lost.
FullForgotten(q) == [q EXCEPT !.paths = <<>>]
Full(q) == [q EXCEPT !.paths = <<>>, !.lost = TRUE]
SubmitInvalidate ==
    /\ changes # <<>>
    /\ changes' = Tail(changes)
    /\ LET q == [inval EXCEPT !.submitted = @ + 1]
       IN inval' = IF q.lost THEN q
                   ELSE IF Len(q.paths) >= InvCap THEN Full(q)
                   ELSE [q EXCEPT !.paths = Append(@, Head(changes))]
    /\ UNCHANGED <<volume, names, expander, entry>>

Key(parent, c) == <<parent, c>>
Without(cache, keys) == Restrict(cache, DOMAIN cache \ keys)

\* The long form of a logged path, from the cache only, if it is there.
Resolved(cache, path) ==
    {long \in [DOMAIN path -> Range(path) \cup Range(cache)] :
        \A i \in DOMAIN path :
            IF ~IsShort(path[i]) THEN long[i] = path[i]
            ELSE LET k == Key(SubSeq(long, 1, i - 1), path[i])
                 IN k \in DOMAIN cache /\ long[i] = cache[k]}

\* invalidate: the entry whose long path it is, and those under it; a short
\* name the cache cannot resolve clears it. A mutant then keeps it.
UnresolvedKept(cache) == cache
Unresolved(cache) == <<>>
Invalidate(cache, path) ==
    LET long == Resolved(cache, path)
    IN IF long = {} THEN Unresolved(cache)
       ELSE Without(cache, {k \in DOMAIN cache : \E p \in long : Append(k[1], cache[k]) = p \/ IsPrefix(p, k[1])})

-----------------------------------------------------------------------------
(* The pipeline: one handle, opened by a path with short names               *)

\* A Create for the FileObject, perhaps of another file; Close removes it.
OpenEntry(path) ==
    /\ entry.nt = None
    /\ entry' = [entry EXCEPT !.nt = path]
    /\ UNCHANGED <<volume, changes, inval, names, expander>>
CloseEntry ==
    /\ entry.nt # None
    /\ entry' = [entry EXCEPT !.nt = None, !.expanded = None]
    /\ UNCHANGED <<volume, changes, inval, names, expander>>

\* emit_file and push_with: an event on a path that was not expanded before
\* asks, if it has short names. The lane here holds one job.
EmitFile ==
    /\ entry.nt # None /\ entry.expanded = None /\ \E i \in DOMAIN entry.nt : IsShort(entry.nt[i])
    /\ entry.asked = None /\ expander.pc = "idle" /\ entry.asks < MaxExpands
    /\ entry' = [entry EXCEPT !.asked = entry.nt, !.asks = @ + 1]
    /\ expander' = [Idle EXCEPT !.pc = "queued", !.left = entry.nt, !.asked = entry.nt]
    /\ UNCHANGED <<volume, changes, inval, names>>

\* The event left at its deadline: the answer is for nobody (forget).
ForgetSlot ==
    /\ entry.asked # None
    /\ entry' = [entry EXCEPT !.asked = None]
    /\ UNCHANGED <<volume, changes, inval, names, expander>>

\* on_expanded: into the entry only while it has the path that was asked for.
\* A mutant takes whatever the FileObject holds.
AnyFile(asked) == entry.nt # None
SameFile(asked) == entry.nt = asked
OnExpanded ==
    /\ expander.pc \in {"done", "failed"}
    /\ entry' = [entry EXCEPT !.asked = None,
                              !.expanded = IF entry.asked # None /\ expander.pc = "done" /\ SameFile(entry.asked)
                                           THEN expander.out ELSE @]
    /\ expander' = Idle
    /\ UNCHANGED <<volume, changes, inval, names>>

-----------------------------------------------------------------------------
(* The lane                                                                  *)

\* expander_lane takes a job and the invalidations that wait, and does these.
TakeJob ==
    /\ expander.pc = "queued"
    /\ names' = IF inval.lost THEN <<>> ELSE names
    /\ inval' = [inval EXCEPT !.paths = <<>>, !.lost = FALSE]
    /\ expander' = [expander EXCEPT !.pc = "clear", !.todo = inval.paths, !.floor = inval.submitted]
    /\ UNCHANGED <<volume, changes, entry>>
Clears ==
    /\ expander.pc = "clear" /\ expander.todo # <<>>
    /\ names' = Invalidate(names, Head(expander.todo))
    /\ expander' = [expander EXCEPT !.todo = Tail(@)]
    /\ UNCHANGED <<volume, changes, inval, entry>>
ClearEnds ==
    /\ expander.pc = "clear" /\ expander.todo = <<>>
    /\ expander' = [expander EXCEPT !.pc = "walk"]
    /\ UNCHANGED <<volume, changes, inval, names, entry>>

\* expand and component, one component a step: as it is, from the cache while
\* within TTL, or from the disk. A full cache starts over.
Advance(e, name) == [e EXCEPT !.left = Tail(@), !.out = Append(@, name)]
StepLong ==
    /\ expander.pc = "walk" /\ expander.left # None /\ ~IsShort(Head(expander.left))
    /\ expander' = Advance(expander, Head(expander.left))
    /\ UNCHANGED <<volume, changes, inval, names, entry>>
StepCached ==
    LET k == Key(expander.out, Head(expander.left))
    IN /\ expander.pc = "walk" /\ expander.left # None /\ k \in DOMAIN names
       /\ expander' = Advance(expander, names[k])
       /\ UNCHANGED <<volume, changes, inval, names, entry>>
StepLookedUp ==
    LET c == Head(expander.left)
        k == Key(expander.out, c)
        long == LongName(expander.out, c)
        kept == Without(names, {k})
        room == IF Cardinality(DOMAIN kept) >= ExpandCap THEN <<>> ELSE kept
    IN /\ expander.pc = "walk" /\ expander.left # None /\ IsShort(c)
       /\ IF long = None
          THEN expander' = [expander EXCEPT !.pc = "failed"] /\ names' = kept
          ELSE /\ expander' = Advance(expander, Head(long))
               /\ names' = WithAll(room, {k}, Head(long))
       /\ UNCHANGED <<volume, changes, inval, entry>>
WalkEnds ==
    /\ expander.pc = "walk" /\ expander.left = None
    /\ expander' = [expander EXCEPT !.pc = "done"]
    /\ UNCHANGED <<volume, changes, inval, names, entry>>

\* The directories a Create the pipeline comes to may name: it is behind the
\* disk by the changes it has not seen.
Dirs == {volume.d} \cup {x \in DOMAIN volume.gone : volume.gone[x] > inval.submitted}

ExpandNext ==
    \/ \E what \in {"dir", "file"} : \E path \in PathsTo(what) : DiskChange(what, path)
    \/ \E path \in {<<S, T>>} \cup {<<d, T>> : d \in Dirs} : OpenEntry(path)
    \/ CloseEntry \/ SubmitInvalidate \/ EmitFile \/ ForgetSlot \/ OnExpanded
    \/ TakeJob \/ Clears \/ ClearEnds \/ StepLong \/ StepCached \/ StepLookedUp \/ WalkEnds

ExpandSpec == ExpandInit /\ [][ExpandNext]_expandVars

-----------------------------------------------------------------------------
(* Properties                                                                *)

Stale(i) ==
    /\ IsShort(expander.asked[i])
    /\ expander.out[i] \in DOMAIN volume.gone /\ volume.gone[expander.out[i]] <= expander.floor
\* No answer names, for a short name, a file whose replacement the pipeline
\* had seen when the job was taken (invalidate, the lost list), but under a
\* directory that has gone itself: a short name in a logged path may have been
\* looked up again since, and then stands for the directory's successor.
NoStaleName ==
    \A i \in DOMAIN expander.out : Stale(i) => \E j \in 1..(i - 1) : expander.out[j] \in DOMAIN volume.gone

\* What an entry keeps for later events is a long form of its own path, also
\* after its FileObject was closed and opened again (on_expanded).
EntryExpanded ==
    entry.expanded # None =>
        /\ Len(entry.expanded) = Len(entry.nt)
        /\ \A i \in DOMAIN entry.nt : IF IsShort(entry.nt[i]) THEN ~IsShort(entry.expanded[i])
                                      ELSE entry.expanded[i] = entry.nt[i]
\* The lane keeps to its bounds.
ExpandBounds == Len(inval.paths) <= InvCap /\ Cardinality(DOMAIN names) <= ExpandCap

\* All three: what the expander answers, what is kept of it, and how much.
ExpandOK == NoStaleName /\ EntryExpanded /\ ExpandBounds
=============================================================================
