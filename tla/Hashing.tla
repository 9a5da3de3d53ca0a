------------------------------ MODULE Hashing --------------------------------
(* The hash workers (win/services.rs: HashLane, Forgets, hash_worker) and    *)
(* the cache they share (win/hash.rs), on one file that a writer changes     *)
(* beside them. A file's content is its version; a hash is the set of the    *)
(* versions its reads saw.                                                   *)
EXTENDS Integers, FiniteSets, SequencesExt, Functions, TLC

CONSTANTS
    Workers,
    LaneCap,                        \* lane_cap: of each queue, and of the invalidations
    HashCacheCap,                   \* hash_cache_cap
    MaxJobs, MaxWrites, MaxForgets  \* bounds

ASSUME HashAssumption ==
    /\ IsFiniteSet(Workers) /\ Workers # {}
    /\ {LaneCap, HashCacheCap} \subseteq Nat \ {0} /\ {MaxJobs, MaxWrites, MaxForgets} \subseteq Nat

VARIABLES
    lane,       \* HashQueues: jobs waiting, by kind (all ask for the one file), and those submitted and dropped
    worker,     \* each hash_worker: where it is and what it has read
    hashCache,  \* HashCache.map, by the USN of the key; the one path lists all
    forgets,    \* Forgets: in the channel, and the counter of those not applied
    file        \* the file: its version, its USN, a writer's handle

hashVars == <<lane, worker, hashCache, forgets, file>>

NoKey == 0
Start == [pc |-> "pop", key |-> NoKey, hash |-> {}, sig |-> {}, taken |-> 0, from |-> 0]

HashInit ==
    /\ lane = [launches |-> 0, modules |-> 0, closed |-> FALSE, jobs |-> 0, drops |-> 0]
    /\ worker = [w \in Workers |-> Start]
    /\ hashCache = <<>> /\ forgets = [sent |-> 0, waiting |-> 0]
    /\ \E usn \in {NoKey, 1} : file = [version |-> 0, usn |-> usn, writer |-> FALSE, logged |-> FALSE]

-----------------------------------------------------------------------------
(* The file                                                                  *)

\* The first write through a handle gives the file a new USN, a later one does
\* not; the close does. A volume without a journal has none.
NextUsn(f) == IF f.usn = NoKey THEN NoKey ELSE f.usn + 1

WriterOpens ==
    /\ ~lane.closed /\ ~file.writer /\ file.version < MaxWrites
    /\ file' = [file EXCEPT !.writer = TRUE]
    /\ UNCHANGED <<lane, worker, hashCache, forgets>>
FileWrite ==
    /\ ~lane.closed /\ file.writer /\ file.version < MaxWrites
    /\ file' = [file EXCEPT !.version = @ + 1, !.logged = TRUE, !.usn = IF file.logged THEN @ ELSE NextUsn(file)]
    /\ UNCHANGED <<lane, worker, hashCache, forgets>>
WriterCloses ==
    /\ ~lane.closed /\ file.writer
    /\ file' = [file EXCEPT !.writer = FALSE, !.logged = FALSE, !.usn = IF file.logged THEN NextUsn(file) ELSE @]
    /\ UNCHANGED <<lane, worker, hashCache, forgets>>

-----------------------------------------------------------------------------
(* The lane                                                                  *)

Waiting == lane.launches + lane.modules
Parked == {w \in Workers : worker[w].pc = "parked"}
Woken(ws) == [w \in Workers |-> IF w \in ws THEN [worker[w] EXCEPT !.pc = "pop"] ELSE worker[w]]

\* notify_one: some parked worker, if there is one. A mutant wakes none.
NotifyNone == UNCHANGED worker
NotifyOne ==
    IF Parked = {} THEN UNCHANGED worker
    ELSE \E w \in Parked : worker' = Woken({w})

\* submit of an Enrich, HashLane::push: a full queue drops the job.
SubmitEnrich(kind) ==
    /\ ~lane.closed /\ lane.jobs < MaxJobs
    /\ \/ /\ lane[kind] >= LaneCap
          /\ lane' = [lane EXCEPT !.jobs = @ + 1, !.drops = @ + 1] /\ UNCHANGED worker
       \/ /\ lane[kind] < LaneCap
          /\ lane' = [lane EXCEPT !.jobs = @ + 1, ![kind] = @ + 1]
          /\ NotifyOne
    /\ UNCHANGED <<hashCache, forgets, file>>

\* submit of an InvalidateHash: past the cap it is not kept.
SubmitForget ==
    /\ ~lane.closed /\ forgets.waiting < LaneCap /\ forgets.sent < MaxForgets
    /\ forgets' = [sent |-> forgets.sent + 1, waiting |-> forgets.waiting + 1]
    /\ UNCHANGED <<lane, worker, hashCache, file>>

\* Services::drop: the lane closes, the receiver of the replies goes.
CloseLane ==
    /\ ~lane.closed
    /\ lane' = [lane EXCEPT !.closed = TRUE]
    /\ worker' = Woken(Parked)
    /\ UNCHANGED <<hashCache, forgets, file>>

-----------------------------------------------------------------------------
(* A worker                                                                  *)

At(w, pc) == worker[w].pc = pc
Goes(w, pc) == worker' = [worker EXCEPT ![w].pc = pc]

\* HashLane::pop: Launch images first; waits while empty, ends once closed.
Pop(w) ==
    /\ At(w, "pop")
    /\ \/ /\ Waiting > 0
          /\ lane' = IF lane.launches > 0 THEN [lane EXCEPT !.launches = @ - 1] ELSE [lane EXCEPT !.modules = @ - 1]
          /\ Goes(w, "apply")
       \/ /\ Waiting = 0
          /\ Goes(w, IF lane.closed THEN "ended" ELSE "parked")
          /\ UNCHANGED lane
    /\ UNCHANGED <<hashCache, forgets, file>>

\* Forgets::apply: what the channel holds, then the counter and the cache.
Apply(w) ==
    /\ At(w, "apply")
    /\ forgets' = [forgets EXCEPT !.sent = 0]
    /\ worker' = [worker EXCEPT ![w].pc = IF forgets.sent = 0 THEN "open" ELSE "forget", ![w].taken = forgets.sent]
    /\ UNCHANGED <<lane, hashCache, file>>
ApplyForget(w) ==
    /\ At(w, "forget")
    /\ forgets' = [forgets EXCEPT !.waiting = @ - worker[w].taken]
    /\ hashCache' = <<>>
    /\ worker' = [worker EXCEPT ![w].pc = "open", ![w].taken = 0]
    /\ UNCHANGED <<lane, file>>

\* writer_open: no key while a handle can write. A mutant does not ask.
WriterUnseen == "key"
WriterOpen == IF file.writer THEN "read" ELSE "key"
\* enrich: open, which may fail, and writer_open. Of what lies between them
\* nothing is read, so they are one step.
OpenFile(w, ok) ==
    /\ At(w, "open")
    /\ worker' = [worker EXCEPT ![w].pc = IF ok THEN WriterOpen ELSE "reply", ![w].from = file.version]
    /\ UNCHANGED <<lane, hashCache, forgets, file>>

\* file_key: none without a journal.
ReadKey(w) ==
    /\ At(w, "key")
    /\ worker' = [worker EXCEPT ![w].pc = IF file.usn = NoKey THEN "read" ELSE "lookup", ![w].key = file.usn]
    /\ UNCHANGED <<lane, hashCache, forgets, file>>

\* HashCache::get.
Lookup(w) ==
    /\ At(w, "lookup")
    /\ worker' = IF worker[w].key \in DOMAIN hashCache
                 THEN [worker EXCEPT ![w].pc = "reply", ![w].hash = hashCache[worker[w].key].hash,
                                     ![w].sig = hashCache[worker[w].key].sig]
                 ELSE [worker EXCEPT ![w].pc = "read"]
    /\ UNCHANGED <<lane, hashCache, forgets, file>>

\* sha256 in two reads, or none of a file past the size cap; a failure ends it.
ReadFirst(w, how) ==
    /\ At(w, "read")
    /\ worker' = CASE how = "fails" -> [worker EXCEPT ![w].pc = "reply"]
                   [] how = "large" -> [worker EXCEPT ![w].pc = "sign"]
                   [] how = "reads" -> [worker EXCEPT ![w].pc = "more", ![w].hash = {file.version}]
    /\ UNCHANGED <<lane, hashCache, forgets, file>>
ReadMore(w) ==
    /\ At(w, "more")
    /\ worker' = [worker EXCEPT ![w].pc = "sign", ![w].hash = @ \cup {file.version}]
    /\ UNCHANGED <<lane, hashCache, forgets, file>>

\* classify: WinVerifyTrust's result by what it says of the file.
HResults == {"ok", "noSignature", "provider", "certificate", "digest", "asn1", "revoked", "io"}
Classify(hr) ==
    CASE hr = "ok" -> "valid"
      [] hr = "noSignature" -> "notEmbedded"
      [] hr \in {"certificate", "digest", "asn1", "revoked"} -> "invalid"
      [] hr \in {"provider", "io"} -> "error"

\* catalog_with, of one context: "none" when it lists no catalog of the file.
CatalogWith(found) == IF found \in {"none", "error"} THEN found
                      ELSE IF Classify(found) = "notEmbedded" THEN "unsigned" ELSE Classify(found)
\* catalog: the contexts in turn, the first that lists the file or fails.
Catalog(admins) ==
    LET told == SelectSeq([i \in DOMAIN admins |-> CatalogWith(admins[i])], LAMBDA v : v # "none")
    IN IF admins = <<>> THEN "error" ELSE IF told = <<>> THEN "unsigned" ELSE Head(told)
\* signature: the embedded one, then the catalogs.
Signature(hr, admins) == IF Classify(hr) = "notEmbedded" THEN Catalog(admins) ELSE Classify(hr)

Found == HResults \cup {"none", "error"}
Verdicts == {Signature(hr, a) : hr \in HResults, a \in {<<>>} \cup {<<f>> : f \in Found} \cup (Found \X Found)}

\* The signature of what the file holds now; an operational error is not
\* cached. Of the verdicts only that they are one matters here.
Sign(w, ok) ==
    /\ At(w, "sign") /\ \E v \in Verdicts : ok = (v # "error")
    /\ worker' = [worker EXCEPT ![w].sig = IF ok THEN {file.version} ELSE {},
                                ![w].pc = IF ok /\ worker[w].key # NoKey THEN "insert" ELSE "reply"]
    /\ UNCHANGED <<lane, hashCache, forgets, file>>

\* Cached only under the key that stayed the same.
SameKey(w) == file.usn = worker[w].key
CheckKey(w) ==
    /\ At(w, "insert")
    /\ Goes(w, IF SameKey(w) THEN "store" ELSE "reply")
    /\ UNCHANGED <<lane, hashCache, forgets, file>>
\* HashCache::insert: a full one starts over.
StoreHash(w) ==
    LET kept == IF Cardinality(DOMAIN hashCache) >= HashCacheCap THEN <<>> ELSE hashCache
    IN /\ At(w, "store")
       /\ hashCache' = [k \in DOMAIN kept \cup {worker[w].key} |->
                           IF k = worker[w].key THEN [hash |-> worker[w].hash, sig |-> worker[w].sig] ELSE kept[k]]
       /\ Goes(w, "reply")
       /\ UNCHANGED <<lane, forgets, file>>

\* The reply; a worker whose receiver has gone ends.
ReplyHash(w) ==
    /\ At(w, "reply")
    /\ \/ worker' = [worker EXCEPT ![w] = Start]
       \/ lane.closed /\ worker' = [worker EXCEPT ![w] = [Start EXCEPT !.pc = "ended"]]
    /\ UNCHANGED <<lane, hashCache, forgets, file>>

HashWorker(w) ==
    \/ Pop(w) \/ Apply(w) \/ ApplyForget(w) \/ ReadKey(w) \/ Lookup(w) \/ ReadMore(w)
    \/ CheckKey(w) \/ StoreHash(w) \/ ReplyHash(w)
    \/ \E ok \in BOOLEAN : OpenFile(w, ok) \/ Sign(w, ok)
    \/ \E how \in {"fails", "large", "reads"} : ReadFirst(w, how)

HashNext ==
    \/ WriterOpens \/ FileWrite \/ WriterCloses
    \/ \E kind \in {"launches", "modules"} : SubmitEnrich(kind)
    \/ SubmitForget \/ CloseLane
    \/ \E w \in Workers : HashWorker(w)

HashSpec == HashInit /\ [][HashNext]_hashVars

-----------------------------------------------------------------------------
(* Properties                                                                *)

\* What a job is answered with, hash and signature, the file held at some time
\* between the open and the reply, cached or not, though the file is written
\* while it is read and between the checks of enrich (writer_open, file_key).
HashFresh ==
    \A w \in Workers : At(w, "reply") => worker[w].hash \cup worker[w].sig \subseteq worker[w].from..file.version

\* The lane and the counter of invalidations keep to their caps, and no job
\* waits while every worker is parked (push, pop, Forgets).
HashLaneOK ==
    /\ lane.launches <= LaneCap /\ lane.modules <= LaneCap
    /\ forgets.sent <= forgets.waiting /\ forgets.waiting <= LaneCap
    /\ Cardinality(DOMAIN hashCache) <= HashCacheCap
    /\ Waiting > 0 => Parked # Workers
    /\ lane.closed => Parked = {}

\* Both: what the workers answer and how the lane keeps its jobs (hash_worker,
\* HashLane).
HashOK == HashFresh /\ HashLaneOK
=============================================================================
