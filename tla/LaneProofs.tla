----------------------------- MODULE LaneProofs ------------------------------
(* The lanes of win/services.rs and win/seed.rs: HashOK of Hashing, LookupsOK *)
(* of Lookups, SeederOK of Seeder and ExpandOK of Expanding, for any number of *)
(* workers, any caps and bounds. Each has its own inductive invariant.         *)
EXTENDS Hashing, Lookups, Seeder, Expanding, FiniteSetTheorems, WellFoundedInduction, TLAPS

-----------------------------------------------------------------------------
(* The inductive invariant                                                   *)

Busy == {"forget", "open", "key", "lookup", "read", "more", "sign", "insert", "store", "reply"}
PCs == Busy \cup {"pop", "parked", "apply", "ended"}
Jobs == [pc : PCs, key : Nat, hash : SUBSET Nat, sig : SUBSET Nat, taken : Nat, from : Nat]
Entries == [hash : SUBSET Nat, sig : SUBSET Nat]

HashTypeOK ==
    /\ lane \in [launches : Nat, modules : Nat, closed : BOOLEAN, jobs : Nat, drops : Nat]
    /\ worker \in [Workers -> Jobs]
    /\ DOMAIN hashCache \subseteq Nat /\ IsFiniteSet(DOMAIN hashCache)
    /\ hashCache \in [DOMAIN hashCache -> Entries]
    /\ forgets \in [sent : Nat, waiting : Nat]
    /\ file \in [version : Nat, usn : Nat, writer : BOOLEAN, logged : BOOLEAN]

\* The queues and the cache keep to their caps, and somebody looks after a job.
LaneInv ==
    /\ lane.launches <= LaneCap /\ lane.modules <= LaneCap
    /\ Cardinality(DOMAIN hashCache) <= HashCacheCap
    /\ Waiting > 0 => Parked # Workers
    /\ lane.closed => Parked = {}

\* The invalidations that workers took from the channel and have not yet
\* applied, one token for each. The counter is those and the channel's.
Tokens(ws) == {t \in Workers \X Nat : 1 <= t[2] /\ t[2] <= ws[t[1]].taken}
CountInv ==
    /\ \A w \in Workers : worker[w].pc # "forget" => worker[w].taken = 0
    /\ IsFiniteSet(Tokens(worker))
    /\ forgets.waiting = forgets.sent + Cardinality(Tokens(worker))
    /\ forgets.waiting <= LaneCap

\* What a worker knows at each step of enrich.
JobOK(m) ==
    /\ m.from <= file.version /\ m.key <= file.usn
    /\ m.pc \in {"more", "sign", "insert", "store", "reply"} =>
           m.hash \cup m.sig \subseteq m.from..file.version
    /\ m.pc \in {"pop", "parked", "apply", "forget", "open", "key", "lookup", "read"} => m.hash = {} /\ m.sig = {}
    /\ m.pc \in {"pop", "parked", "apply", "forget", "open", "key"} => m.key = NoKey
    /\ m.pc \in {"insert", "store"} => m.key # NoKey

KnowsInv ==
    /\ file.logged => file.writer
    /\ DOMAIN hashCache \subseteq 1..file.usn
    /\ \A w \in Workers : JobOK(worker[w])

\* A version is bound to a key when the cache has it under that key, or may
\* get it: the cache answers with it whoever asks with the key.
Binds(m, k) == m.key = k /\ (m.pc = "store" \/ (m.pc \in {"more", "sign", "insert"} /\ k = file.usn))
Bound(k) == {x \in Nat : \/ k \in DOMAIN hashCache /\ x \in hashCache[k].hash \cup hashCache[k].sig
                         \/ \E w \in Workers : Binds(worker[w], k) /\ x \in worker[w].hash \cup worker[w].sig}
\* A worker that has asked, or would ask now, for what the key's file holds.
Asks(m, k) == (m.pc = "lookup" /\ m.key = k) \/ (m.pc = "key" /\ k = file.usn)

\* What is bound to the file's key is what it holds while nobody writes, and
\* nothing bound is older than the open of one who asks with the key.
BoundInv ==
    \A k \in Nat \ {NoKey} : \A x \in Bound(k) :
        /\ x <= file.version
        /\ (k = file.usn /\ ~file.logged) => x = file.version
        /\ \A w \in Workers : Asks(worker[w], k) => worker[w].from <= x

HInv == HashTypeOK /\ LaneInv /\ CountInv /\ KnowsInv /\ BoundInv

-----------------------------------------------------------------------------
(* One worker's record                                                       *)

Put(w, m) == worker' = [worker EXCEPT ![w] = m]
Job(pc, key, hash, sig, taken, from) ==
    [pc |-> pc, key |-> key, hash |-> hash, sig |-> sig, taken |-> taken, from |-> from]

\* The fields `pc` of one worker set.
LEMMA MovePc ==
    ASSUME worker \in [Workers -> Jobs], NEW w \in Workers, NEW pc \in PCs,
           worker' = [worker EXCEPT ![w].pc = pc]
    PROVE  Put(w, Job(pc, worker[w].key, worker[w].hash, worker[w].sig, worker[w].taken, worker[w].from))
<1>0. PICK r0 \in Jobs : r0 = worker[w]
  OBVIOUS
<1>1. worker' = [worker EXCEPT ![w].pc = pc]
  OBVIOUS
<1>2. PICK m1 : m1 = [r0 EXCEPT !.pc = pc]
  OBVIOUS
<1>3. m1 = Job(pc, r0.key, r0.hash, r0.sig, r0.taken, r0.from)
  BY <1>2 DEF Job, Jobs
<1>4. worker' = [worker EXCEPT ![w] = m1]
  BY <1>0, <1>1, <1>2
<1>5. m1 = Job(pc, worker[w].key, worker[w].hash, worker[w].sig, worker[w].taken, worker[w].from)
  BY <1>0, <1>3 DEF Job
<1> QED BY <1>4, <1>5 DEF Put

\* The fields `pc`, `key` of one worker set.
LEMMA MovePcKey ==
    ASSUME worker \in [Workers -> Jobs], NEW w \in Workers, NEW pc \in PCs, NEW k \in Nat,
           worker' = [worker EXCEPT ![w].pc = pc, ![w].key = k]
    PROVE  Put(w, Job(pc, k, worker[w].hash, worker[w].sig, worker[w].taken, worker[w].from))
<1>0. PICK r0 \in Jobs : r0 = worker[w]
  OBVIOUS
<1>1. PICK f1 : f1 = [worker EXCEPT ![w].pc = pc]
  OBVIOUS
<1>2. PICK m1 : m1 = [r0 EXCEPT !.pc = pc]
  OBVIOUS
<1>3. m1 = Job(pc, r0.key, r0.hash, r0.sig, r0.taken, r0.from)
  BY <1>2 DEF Job, Jobs
<1>4. f1 = [worker EXCEPT ![w] = m1]
  BY <1>0, <1>1, <1>2
<1>5. m1 \in Jobs
  BY <1>3 DEF Job, Jobs
<1>6. PICK r1 \in Jobs : r1 = m1 /\ f1[w] = r1 /\ f1 \in [Workers -> Jobs]
  BY <1>5, <1>4
<1>7. worker' = [f1 EXCEPT ![w].key = k]
  BY <1>1
<1>8. PICK m2 : m2 = [r1 EXCEPT !.key = k]
  OBVIOUS
<1>9. m2 = Job(r1.pc, k, r1.hash, r1.sig, r1.taken, r1.from)
  BY <1>8 DEF Job, Jobs
<1>10. worker' = [worker EXCEPT ![w] = m2]
  BY <1>4, <1>6, <1>7, <1>8
<1>11. m2 = Job(pc, k, worker[w].hash, worker[w].sig, worker[w].taken, worker[w].from)
  BY <1>0, <1>3, <1>6, <1>9 DEF Job
<1> QED BY <1>10, <1>11 DEF Put

\* The fields `pc`, `from` of one worker set.
LEMMA MovePcFrom ==
    ASSUME worker \in [Workers -> Jobs], NEW w \in Workers, NEW pc \in PCs, NEW n \in Nat,
           worker' = [worker EXCEPT ![w].pc = pc, ![w].from = n]
    PROVE  Put(w, Job(pc, worker[w].key, worker[w].hash, worker[w].sig, worker[w].taken, n))
<1>0. PICK r0 \in Jobs : r0 = worker[w]
  OBVIOUS
<1>1. PICK f1 : f1 = [worker EXCEPT ![w].pc = pc]
  OBVIOUS
<1>2. PICK m1 : m1 = [r0 EXCEPT !.pc = pc]
  OBVIOUS
<1>3. m1 = Job(pc, r0.key, r0.hash, r0.sig, r0.taken, r0.from)
  BY <1>2 DEF Job, Jobs
<1>4. f1 = [worker EXCEPT ![w] = m1]
  BY <1>0, <1>1, <1>2
<1>5. m1 \in Jobs
  BY <1>3 DEF Job, Jobs
<1>6. PICK r1 \in Jobs : r1 = m1 /\ f1[w] = r1 /\ f1 \in [Workers -> Jobs]
  BY <1>5, <1>4
<1>7. worker' = [f1 EXCEPT ![w].from = n]
  BY <1>1
<1>8. PICK m2 : m2 = [r1 EXCEPT !.from = n]
  OBVIOUS
<1>9. m2 = Job(r1.pc, r1.key, r1.hash, r1.sig, r1.taken, n)
  BY <1>8 DEF Job, Jobs
<1>10. worker' = [worker EXCEPT ![w] = m2]
  BY <1>4, <1>6, <1>7, <1>8
<1>11. m2 = Job(pc, worker[w].key, worker[w].hash, worker[w].sig, worker[w].taken, n)
  BY <1>0, <1>3, <1>6, <1>9 DEF Job
<1> QED BY <1>10, <1>11 DEF Put

\* The fields `pc`, `taken` of one worker set.
LEMMA MovePcTaken ==
    ASSUME worker \in [Workers -> Jobs], NEW w \in Workers, NEW pc \in PCs, NEW n \in Nat,
           worker' = [worker EXCEPT ![w].pc = pc, ![w].taken = n]
    PROVE  Put(w, Job(pc, worker[w].key, worker[w].hash, worker[w].sig, n, worker[w].from))
<1>0. PICK r0 \in Jobs : r0 = worker[w]
  OBVIOUS
<1>1. PICK f1 : f1 = [worker EXCEPT ![w].pc = pc]
  OBVIOUS
<1>2. PICK m1 : m1 = [r0 EXCEPT !.pc = pc]
  OBVIOUS
<1>3. m1 = Job(pc, r0.key, r0.hash, r0.sig, r0.taken, r0.from)
  BY <1>2 DEF Job, Jobs
<1>4. f1 = [worker EXCEPT ![w] = m1]
  BY <1>0, <1>1, <1>2
<1>5. m1 \in Jobs
  BY <1>3 DEF Job, Jobs
<1>6. PICK r1 \in Jobs : r1 = m1 /\ f1[w] = r1 /\ f1 \in [Workers -> Jobs]
  BY <1>5, <1>4
<1>7. worker' = [f1 EXCEPT ![w].taken = n]
  BY <1>1
<1>8. PICK m2 : m2 = [r1 EXCEPT !.taken = n]
  OBVIOUS
<1>9. m2 = Job(r1.pc, r1.key, r1.hash, r1.sig, n, r1.from)
  BY <1>8 DEF Job, Jobs
<1>10. worker' = [worker EXCEPT ![w] = m2]
  BY <1>4, <1>6, <1>7, <1>8
<1>11. m2 = Job(pc, worker[w].key, worker[w].hash, worker[w].sig, n, worker[w].from)
  BY <1>0, <1>3, <1>6, <1>9 DEF Job
<1> QED BY <1>10, <1>11 DEF Put

\* The fields `pc`, `hash` of one worker set.
LEMMA MovePcHash ==
    ASSUME worker \in [Workers -> Jobs], NEW w \in Workers, NEW pc \in PCs, NEW h \in SUBSET Nat,
           worker' = [worker EXCEPT ![w].pc = pc, ![w].hash = h]
    PROVE  Put(w, Job(pc, worker[w].key, h, worker[w].sig, worker[w].taken, worker[w].from))
<1>0. PICK r0 \in Jobs : r0 = worker[w]
  OBVIOUS
<1>1. PICK f1 : f1 = [worker EXCEPT ![w].pc = pc]
  OBVIOUS
<1>2. PICK m1 : m1 = [r0 EXCEPT !.pc = pc]
  OBVIOUS
<1>3. m1 = Job(pc, r0.key, r0.hash, r0.sig, r0.taken, r0.from)
  BY <1>2 DEF Job, Jobs
<1>4. f1 = [worker EXCEPT ![w] = m1]
  BY <1>0, <1>1, <1>2
<1>5. m1 \in Jobs
  BY <1>3 DEF Job, Jobs
<1>6. PICK r1 \in Jobs : r1 = m1 /\ f1[w] = r1 /\ f1 \in [Workers -> Jobs]
  BY <1>5, <1>4
<1>7. worker' = [f1 EXCEPT ![w].hash = h]
  BY <1>1
<1>8. PICK m2 : m2 = [r1 EXCEPT !.hash = h]
  OBVIOUS
<1>9. m2 = Job(r1.pc, r1.key, h, r1.sig, r1.taken, r1.from)
  BY <1>8 DEF Job, Jobs
<1>10. worker' = [worker EXCEPT ![w] = m2]
  BY <1>4, <1>6, <1>7, <1>8
<1>11. m2 = Job(pc, worker[w].key, h, worker[w].sig, worker[w].taken, worker[w].from)
  BY <1>0, <1>3, <1>6, <1>9 DEF Job
<1> QED BY <1>10, <1>11 DEF Put

\* The fields `pc`, `hash`, `sig` of one worker set.
LEMMA MovePcHashSig ==
    ASSUME worker \in [Workers -> Jobs], NEW w \in Workers, NEW pc \in PCs, NEW h \in SUBSET Nat, NEW s \in SUBSET Nat,
           worker' = [worker EXCEPT ![w].pc = pc, ![w].hash = h, ![w].sig = s]
    PROVE  Put(w, Job(pc, worker[w].key, h, s, worker[w].taken, worker[w].from))
<1>0. PICK r0 \in Jobs : r0 = worker[w]
  OBVIOUS
<1>1. PICK f1 : f1 = [worker EXCEPT ![w].pc = pc]
  OBVIOUS
<1>2. PICK m1 : m1 = [r0 EXCEPT !.pc = pc]
  OBVIOUS
<1>3. m1 = Job(pc, r0.key, r0.hash, r0.sig, r0.taken, r0.from)
  BY <1>2 DEF Job, Jobs
<1>4. f1 = [worker EXCEPT ![w] = m1]
  BY <1>0, <1>1, <1>2
<1>5. m1 \in Jobs
  BY <1>3 DEF Job, Jobs
<1>6. PICK r1 \in Jobs : r1 = m1 /\ f1[w] = r1 /\ f1 \in [Workers -> Jobs]
  BY <1>5, <1>4
<1>7. PICK f2 : f2 = [f1 EXCEPT ![w].hash = h]
  OBVIOUS
<1>8. PICK m2 : m2 = [r1 EXCEPT !.hash = h]
  OBVIOUS
<1>9. m2 = Job(r1.pc, r1.key, h, r1.sig, r1.taken, r1.from)
  BY <1>8 DEF Job, Jobs
<1>10. f2 = [worker EXCEPT ![w] = m2]
  BY <1>4, <1>6, <1>7, <1>8
<1>11. m2 \in Jobs
  BY <1>9 DEF Job, Jobs
<1>12. PICK r2 \in Jobs : r2 = m2 /\ f2[w] = r2 /\ f2 \in [Workers -> Jobs]
  BY <1>11, <1>10
<1>13. worker' = [f2 EXCEPT ![w].sig = s]
  BY <1>1, <1>7
<1>14. PICK m3 : m3 = [r2 EXCEPT !.sig = s]
  OBVIOUS
<1>15. m3 = Job(r2.pc, r2.key, r2.hash, s, r2.taken, r2.from)
  BY <1>14 DEF Job, Jobs
<1>16. worker' = [worker EXCEPT ![w] = m3]
  BY <1>10, <1>12, <1>13, <1>14
<1>17. m3 = Job(pc, worker[w].key, h, s, worker[w].taken, worker[w].from)
  BY <1>0, <1>3, <1>6, <1>9, <1>12, <1>15 DEF Job
<1> QED BY <1>16, <1>17 DEF Put

\* The fields `sig`, `pc` of one worker set.
LEMMA MoveSigPc ==
    ASSUME worker \in [Workers -> Jobs], NEW w \in Workers, NEW s \in SUBSET Nat, NEW pc \in PCs,
           worker' = [worker EXCEPT ![w].sig = s, ![w].pc = pc]
    PROVE  Put(w, Job(pc, worker[w].key, worker[w].hash, s, worker[w].taken, worker[w].from))
<1>0. PICK r0 \in Jobs : r0 = worker[w]
  OBVIOUS
<1>1. PICK f1 : f1 = [worker EXCEPT ![w].sig = s]
  OBVIOUS
<1>2. PICK m1 : m1 = [r0 EXCEPT !.sig = s]
  OBVIOUS
<1>3. m1 = Job(r0.pc, r0.key, r0.hash, s, r0.taken, r0.from)
  BY <1>2 DEF Job, Jobs
<1>4. f1 = [worker EXCEPT ![w] = m1]
  BY <1>0, <1>1, <1>2
<1>5. m1 \in Jobs
  BY <1>3 DEF Job, Jobs
<1>6. PICK r1 \in Jobs : r1 = m1 /\ f1[w] = r1 /\ f1 \in [Workers -> Jobs]
  BY <1>5, <1>4
<1>7. worker' = [f1 EXCEPT ![w].pc = pc]
  BY <1>1
<1>8. PICK m2 : m2 = [r1 EXCEPT !.pc = pc]
  OBVIOUS
<1>9. m2 = Job(pc, r1.key, r1.hash, r1.sig, r1.taken, r1.from)
  BY <1>8 DEF Job, Jobs
<1>10. worker' = [worker EXCEPT ![w] = m2]
  BY <1>4, <1>6, <1>7, <1>8
<1>11. m2 = Job(pc, worker[w].key, worker[w].hash, s, worker[w].taken, worker[w].from)
  BY <1>0, <1>3, <1>6, <1>9 DEF Job
<1> QED BY <1>10, <1>11 DEF Put

\* A job's parts.
LEMMA JobParts ==
    ASSUME NEW pc \in PCs, NEW k \in Nat, NEW h \in SUBSET Nat, NEW s \in SUBSET Nat, NEW n \in Nat, NEW f \in Nat
    PROVE  /\ Job(pc, k, h, s, n, f) \in Jobs
           /\ Job(pc, k, h, s, n, f).pc = pc /\ Job(pc, k, h, s, n, f).key = k
           /\ Job(pc, k, h, s, n, f).hash = h /\ Job(pc, k, h, s, n, f).sig = s
           /\ Job(pc, k, h, s, n, f).taken = n /\ Job(pc, k, h, s, n, f).from = f
  BY DEF Job, Jobs

\* The types of a worker's fields.
LEMMA WorkerType ==
    ASSUME HashTypeOK, NEW w \in Workers
    PROVE  /\ worker[w] \in Jobs
           /\ worker[w].pc \in PCs /\ worker[w].key \in Nat /\ worker[w].hash \in SUBSET Nat
           /\ worker[w].sig \in SUBSET Nat /\ worker[w].taken \in Nat /\ worker[w].from \in Nat
  BY DEF HashTypeOK, Jobs

\* The workers after one of them moved.
LEMMA PutFacts ==
    ASSUME HashTypeOK, NEW w \in Workers, NEW m \in Jobs, Put(w, m)
    PROVE  /\ worker' \in [Workers -> Jobs] /\ worker'[w] = m
           /\ \A v \in Workers \ {w} : worker'[v] = worker[v]
  BY DEF HashTypeOK, Put

-----------------------------------------------------------------------------
(* The lane                                                                  *)

\* A worker that does not park leaves the lane as it was.
LEMMA LaneKept ==
    ASSUME HInv, NEW w \in Workers, NEW m \in Jobs, Put(w, m), m.pc # "parked",
           UNCHANGED <<lane, hashCache>>
    PROVE  LaneInv'
<1>1. Parked' \subseteq Parked /\ Parked \subseteq Workers /\ w \notin Parked'
  BY PutFacts DEF HInv, Parked
<1>2. Waiting' = Waiting
  BY DEF Waiting
<1> QED BY <1>1, <1>2 DEF HInv, LaneInv

\* A worker that takes no invalidation leaves their count as it was.
LEMMA CountKept ==
    ASSUME HInv, NEW w \in Workers, NEW m \in Jobs, Put(w, m), forgets' = forgets,
           m.taken = worker[w].taken, m.pc # "forget" => m.taken = 0
    PROVE  CountInv'
<1>1. \A v \in Workers : worker'[v].taken = worker[v].taken
  BY PutFacts DEF HInv
<1>2. Tokens(worker') = Tokens(worker)
  <2>1. \A t \in Workers \X Nat : t[1] \in Workers
    OBVIOUS
  <2> QED BY <1>1, <2>1 DEF Tokens
<1>3. \A v \in Workers : worker'[v].pc # "forget" => worker'[v].taken = 0
  BY PutFacts DEF HInv, CountInv
<1> QED BY <1>2, <1>3 DEF HInv, CountInv

-----------------------------------------------------------------------------
(* What is known of the file                                                 *)

\* What a worker may get bound or ask for with the file and the cache as
\* they are: what the file holds now, or what it had.
MayBind(w, m) ==
    \A k \in Nat \ {NoKey} : Binds(m, k) =>
        \A x \in m.hash \cup m.sig :
            x = file.version \/ (Binds(worker[w], k) /\ x \in worker[w].hash \cup worker[w].sig)
MayAsk(w, m) ==
    \A k \in Nat \ {NoKey} : Asks(m, k) =>
        \/ Asks(worker[w], k) /\ m.from = worker[w].from
        \/ m.pc = "key" /\ m.from = file.version /\ ~file.writer
\* And what a worker may put in the cache: what it has bound.
MayStore(w) ==
    \A k \in DOMAIN hashCache' :
        /\ k \in 1..file.usn
        /\ \/ k \in DOMAIN hashCache /\ hashCache'[k] = hashCache[k]
           \/ Binds(worker[w], k) /\ hashCache'[k].hash = worker[w].hash /\ hashCache'[k].sig = worker[w].sig

\* Such a step keeps what is known.
LEMMA KnowsKept ==
    ASSUME HInv, NEW w \in Workers, NEW m \in Jobs, Put(w, m), file' = file, MayStore(w),
           JobOK(m), MayBind(w, m), MayAsk(w, m)
    PROVE  KnowsInv' /\ BoundInv'
<1>1. /\ worker'[w] = m
      /\ \A v \in Workers \ {w} : worker'[v] = worker[v]
  BY PutFacts DEF HInv
<1>2. KnowsInv'
  <2>1. \A v \in Workers : JobOK(worker[v])
    BY DEF HInv, KnowsInv
  <2>2. ASSUME NEW v \in Workers PROVE JobOK(worker[v])'
    BY <1>1, <2>1 DEF JobOK
  <2> QED BY <2>2 DEF HInv, KnowsInv, MayStore
<1>3. BoundInv'
  <2> SUFFICES ASSUME NEW k \in Nat \ {NoKey}, NEW x \in Bound(k)'
               PROVE  /\ x <= file.version
                      /\ (k = file.usn /\ ~file.logged) => x = file.version
                      /\ \A v \in Workers : Asks(worker'[v], k) => worker'[v].from <= x
    BY DEF BoundInv, Asks
  <2>1. x \in Nat /\ file.version \in Nat
    BY DEF Bound, HInv, HashTypeOK
  <2>2. x \in Bound(k) \/ x = file.version
    <3>1. \A v \in Workers : Binds(worker[v], k)' <=> Binds(worker'[v], k)
      BY DEF Binds
    <3>2. \/ k \in DOMAIN hashCache' /\ x \in hashCache'[k].hash \cup hashCache'[k].sig
          \/ \E v \in Workers : Binds(worker'[v], k) /\ x \in worker'[v].hash \cup worker'[v].sig
      BY <3>1 DEF Bound
    <3>3. CASE k \in DOMAIN hashCache' /\ x \in hashCache'[k].hash \cup hashCache'[k].sig
      BY <2>1, <3>3 DEF Bound, MayStore
    <3>4. CASE \E v \in Workers : Binds(worker'[v], k) /\ x \in worker'[v].hash \cup worker'[v].sig
      BY <1>1, <2>1, <3>4 DEF Bound, MayBind
    <3> QED BY <3>2, <3>3, <3>4
  <2>3. x <= file.version /\ ((k = file.usn /\ ~file.logged) => x = file.version)
    BY <2>1, <2>2 DEF HInv, BoundInv
  <2>4. ASSUME NEW v \in Workers, Asks(worker'[v], k) PROVE worker'[v].from <= x
    <3>1. \/ Asks(worker[v], k) /\ worker'[v].from = worker[v].from
          \/ v = w /\ m.pc = "key" /\ m.from = file.version /\ ~file.writer /\ Asks(m, k)
      BY <1>1, <2>4 DEF MayAsk
    <3>2. worker[v].from \in Nat /\ worker[v].from <= file.version
      BY WorkerType DEF HInv, KnowsInv, JobOK
    <3>3. CASE Asks(worker[v], k) /\ worker'[v].from = worker[v].from
      <4>1. x \in Bound(k) => worker[v].from <= x
        BY <3>3 DEF HInv, BoundInv
      <4> QED BY <2>1, <2>2, <3>2, <3>3, <4>1
    <3>4. CASE v = w /\ m.pc = "key" /\ m.from = file.version /\ ~file.writer /\ Asks(m, k)
      <4>0. ~file.logged
        BY <3>4 DEF HInv, KnowsInv
      <4>1. k = file.usn
        BY <3>4 DEF Asks
      <4> QED BY <1>1, <2>1, <2>3, <3>4, <4>0, <4>1
    <3> QED BY <3>1, <3>3, <3>4
  <2> QED BY <2>3, <2>4
<1> QED BY <1>2, <1>3

-----------------------------------------------------------------------------
(* The steps of a worker that change nothing else                            *)

\* A worker's step outside the lane, the cache and the channel.
LEMMA WorkerStep ==
    ASSUME HInv, NEW w \in Workers, NEW m \in Jobs, Put(w, m),
           UNCHANGED <<lane, hashCache, forgets, file>>,
           worker[w].pc # "forget", m.pc \notin {"parked", "forget"}, m.taken = worker[w].taken,
           JobOK(m), MayBind(w, m), MayAsk(w, m)
    PROVE  HInv'
<1>1. HashTypeOK'
  <2>1. worker' \in [Workers -> Jobs]
    BY PutFacts DEF HInv
  <2> QED BY <2>1 DEF HInv, HashTypeOK
<1>2. LaneInv'
  BY LaneKept
<1>3. m.taken = 0
  BY DEF HInv, CountInv
<1>4. CountInv'
  BY <1>3, CountKept
<1>5. MayStore(w)
  BY DEF MayStore, HInv, KnowsInv
<1>6. KnowsInv' /\ BoundInv'
  BY <1>5, KnowsKept
<1> QED BY <1>1, <1>2, <1>4, <1>6 DEF HInv

\* What the invariant says of one worker.
LEMMA OwnFacts ==
    ASSUME HInv, NEW w \in Workers
    PROVE  /\ HashTypeOK /\ JobOK(worker[w]) /\ worker \in [Workers -> Jobs]
           /\ worker[w].pc \in PCs /\ worker[w].key \in Nat /\ worker[w].hash \in SUBSET Nat
           /\ worker[w].sig \in SUBSET Nat /\ worker[w].taken \in Nat /\ worker[w].from \in Nat
           /\ file.version \in Nat /\ file.usn \in Nat
           /\ file.version \in worker[w].from..file.version
<1>1. HashTypeOK /\ JobOK(worker[w])
  BY DEF HInv, KnowsInv
<1>2. worker[w].from <= file.version
  BY <1>1 DEF JobOK
<1>3. file.version \in Nat /\ file.usn \in Nat
  BY <1>1 DEF HashTypeOK
<1> QED BY <1>1, <1>2, <1>3, WorkerType DEF HashTypeOK

\* OpenFile: from is what the file holds, and nobody writes if a key follows.
LEMMA OpenFileInv ==
    ASSUME HInv, NEW w \in Workers, NEW ok \in BOOLEAN, OpenFile(w, ok)
    PROVE  HInv'
<1> DEFINE pc == IF ok THEN WriterOpen ELSE "reply"
           r == worker[w]
<1>1. HashTypeOK /\ JobOK(r) /\ r.pc = "open"
  BY OwnFacts DEF OpenFile, At
<1>2. pc \in PCs /\ (pc = "key" => ~file.writer) /\ pc \in {"key", "read", "reply"}
  BY DEF WriterOpen, PCs, Busy
<1>3. worker' = [worker EXCEPT ![w].pc = pc, ![w].from = file.version]
  BY DEF OpenFile
<1> HIDE DEF pc
<1>4. PICK m : m = Job(pc, r.key, r.hash, r.sig, r.taken, file.version)
  OBVIOUS
<1>5. Put(w, m)
  BY <1>2, <1>3, <1>4, OwnFacts, MovePcFrom
<1>6. /\ m \in Jobs /\ m.pc = pc /\ m.key = r.key /\ m.hash = r.hash /\ m.sig = r.sig
      /\ m.taken = r.taken /\ m.from = file.version
  BY <1>2, <1>4, OwnFacts, JobParts
<1>7. JobOK(m)
  BY <1>1, <1>2, <1>6, OwnFacts DEF JobOK
<1>8. MayBind(w, m) /\ MayAsk(w, m)
  BY <1>2, <1>6 DEF MayBind, MayAsk, Binds, Asks
<1> QED BY <1>1, <1>2, <1>5, <1>6, <1>7, <1>8, WorkerStep DEF OpenFile

\* ReadKey: who was to ask with the file's key asks with it.
LEMMA ReadKeyInv ==
    ASSUME HInv, NEW w \in Workers, ReadKey(w)
    PROVE  HInv'
<1> DEFINE pc == IF file.usn = NoKey THEN "read" ELSE "lookup"
           r == worker[w]
<1>1. HashTypeOK /\ JobOK(r) /\ r.pc = "key"
  BY OwnFacts DEF ReadKey, At
<1>2. pc \in PCs /\ pc \in {"read", "lookup"}
  BY DEF PCs, Busy
<1>3. worker' = [worker EXCEPT ![w].pc = pc, ![w].key = file.usn]
  BY DEF ReadKey
<1> HIDE DEF pc
<1>4. PICK m : m = Job(pc, file.usn, r.hash, r.sig, r.taken, r.from)
  OBVIOUS
<1>5. Put(w, m)
  BY <1>2, <1>3, <1>4, OwnFacts, MovePcKey
<1>6. /\ m \in Jobs /\ m.pc = pc /\ m.key = file.usn /\ m.hash = r.hash /\ m.sig = r.sig
      /\ m.taken = r.taken /\ m.from = r.from
  BY <1>2, <1>4, OwnFacts, JobParts
<1>7. JobOK(m)
  BY <1>1, <1>2, <1>6, OwnFacts DEF JobOK
<1>8. MayBind(w, m) /\ MayAsk(w, m)
  BY <1>1, <1>2, <1>6 DEF MayBind, MayAsk, Binds, Asks
<1> QED BY <1>1, <1>2, <1>5, <1>6, <1>7, <1>8, WorkerStep DEF ReadKey

\* A worker that goes on without reading anything.
LEMMA GoOn ==
    ASSUME HInv, NEW w \in Workers, NEW pc \in PCs, Goes(w, pc), UNCHANGED <<lane, hashCache, forgets, file>>,
           \/ worker[w].pc = "lookup" /\ pc = "read"
           \/ worker[w].pc = "read" /\ pc \in {"reply", "sign"}
           \/ worker[w].pc = "insert" /\ pc = "reply"
           \/ worker[w].pc = "insert" /\ pc = "store" /\ SameKey(w)
    PROVE  HInv'
<1> DEFINE r == worker[w]
<1>3. worker' = [worker EXCEPT ![w].pc = pc]
  BY DEF Goes
<1>4. PICK m : m = Job(pc, r.key, r.hash, r.sig, r.taken, r.from)
  OBVIOUS
<1>5. Put(w, m)
  BY <1>3, <1>4, OwnFacts, MovePc
<1>6. /\ m \in Jobs /\ m.pc = pc /\ m.key = r.key /\ m.hash = r.hash /\ m.sig = r.sig
      /\ m.taken = r.taken /\ m.from = r.from
  BY <1>4, OwnFacts, JobParts
<1>7. JobOK(m)
  BY <1>6, OwnFacts DEF JobOK
<1>8. MayBind(w, m)
  <2>1. \A k \in Nat \ {NoKey} : Binds(m, k) => Binds(r, k) \/ m.hash \cup m.sig = {}
    BY <1>6, OwnFacts DEF Binds, JobOK, SameKey
  <2> QED BY <1>6, <2>1 DEF MayBind
<1>9. MayAsk(w, m)
  BY <1>6 DEF MayAsk, Asks
<1> QED BY <1>5, <1>6, <1>7, <1>8, <1>9, WorkerStep

\* Lookup: what the cache answers with is bound to the key, so not older than
\* the open.
LEMMA LookupInv ==
    ASSUME HInv, NEW w \in Workers, Lookup(w)
    PROVE  HInv'
<1> DEFINE r == worker[w]
           e == hashCache[r.key]
<1>1. r.pc = "lookup" /\ JobOK(r)
  BY OwnFacts DEF Lookup, At
<1>2. CASE r.key \notin DOMAIN hashCache
  <2>1. Goes(w, "read") /\ "read" \in PCs
    BY <1>2 DEF Lookup, Goes, PCs, Busy
  <2> QED BY <1>1, <2>1, GoOn DEF Lookup
<1>3. CASE r.key \in DOMAIN hashCache
  <2>1. worker' = [worker EXCEPT ![w].pc = "reply", ![w].hash = e.hash, ![w].sig = e.sig]
    BY <1>3 DEF Lookup
  <2>2. e.hash \in SUBSET Nat /\ e.sig \in SUBSET Nat
    BY <1>3 DEF HInv, HashTypeOK, Entries
  <2>3. r.key \in Nat \ {NoKey} /\ Asks(r, r.key)
    BY <1>1, <1>3, OwnFacts DEF HInv, KnowsInv, NoKey, Asks
  <2>4. \A x \in e.hash \cup e.sig : x \in Bound(r.key)
    BY <1>3, <2>2 DEF Bound
  <2>5. \A x \in e.hash \cup e.sig : x \in Nat /\ r.from <= x /\ x <= file.version
    BY <2>2, <2>3, <2>4 DEF HInv, BoundInv
  <2>6. e.hash \cup e.sig \subseteq r.from..file.version
    BY <2>5, OwnFacts
  <2>7. PICK h \in SUBSET Nat, s \in SUBSET Nat : h = e.hash /\ s = e.sig
    BY <2>2
  <2>8. PICK m : m = Job("reply", r.key, h, s, r.taken, r.from)
    OBVIOUS
  <2>9. "reply" \in PCs /\ worker' = [worker EXCEPT ![w].pc = "reply", ![w].hash = h, ![w].sig = s]
    BY <2>1, <2>7 DEF PCs, Busy
  <2>10. Put(w, m)
    BY <2>8, <2>9, OwnFacts, MovePcHashSig
  <2>11. /\ m \in Jobs /\ m.pc = "reply" /\ m.key = r.key /\ m.hash = h /\ m.sig = s
         /\ m.taken = r.taken /\ m.from = r.from
    BY <2>8, <2>9, OwnFacts, JobParts
  <2>12. JobOK(m)
    BY <2>6, <2>7, <2>11, OwnFacts DEF JobOK
  <2>13. MayBind(w, m) /\ MayAsk(w, m)
    BY <2>11 DEF MayBind, MayAsk, Binds, Asks
  <2> QED BY <1>1, <2>10, <2>11, <2>12, <2>13, WorkerStep DEF Lookup
<1> QED BY <1>2, <1>3

\* A read of the file adds what it holds now.
LEMMA ReadInv ==
    ASSUME HInv, NEW w \in Workers, NEW pc, NEW h,
           worker' = [worker EXCEPT ![w].pc = pc, ![w].hash = h],
           UNCHANGED <<lane, hashCache, forgets, file>>,
           \/ worker[w].pc = "read" /\ pc = "more" /\ h = {file.version}
           \/ worker[w].pc = "more" /\ pc = "sign" /\ h = worker[w].hash \cup {file.version}
    PROVE  HInv'
<1> DEFINE r == worker[w]
<1>1. pc \in PCs /\ h \in SUBSET Nat /\ h \subseteq r.hash \cup {file.version}
  BY OwnFacts DEF PCs, Busy
<1>2. PICK m : m = Job(pc, r.key, h, r.sig, r.taken, r.from)
  OBVIOUS
<1>3. Put(w, m)
  BY <1>1, <1>2, OwnFacts, MovePcHash
<1>4. /\ m \in Jobs /\ m.pc = pc /\ m.key = r.key /\ m.hash = h /\ m.sig = r.sig
      /\ m.taken = r.taken /\ m.from = r.from
  BY <1>1, <1>2, OwnFacts, JobParts
<1>5. JobOK(m)
  <2>1. r.hash \cup r.sig \subseteq r.from..file.version
    BY OwnFacts DEF JobOK
  <2>2. m.hash \cup m.sig \subseteq m.from..file.version
    BY <1>1, <1>4, <2>1, OwnFacts
  <2> QED BY <1>4, <2>2, OwnFacts DEF JobOK
<1>6. MayBind(w, m)
  <2>1. \A k \in Nat \ {NoKey} : Binds(m, k) => Binds(r, k) \/ r.hash \cup r.sig = {}
    BY <1>4, OwnFacts DEF Binds, JobOK
  <2> QED BY <1>1, <1>4, <2>1 DEF MayBind
<1>7. MayAsk(w, m)
  BY <1>4 DEF MayAsk, Asks
<1> QED BY <1>3, <1>4, <1>5, <1>6, <1>7, WorkerStep

\* ReadFirst: fails, reads nothing or reads.
LEMMA ReadFirstInv ==
    ASSUME HInv, NEW w \in Workers, NEW how \in {"fails", "large", "reads"}, ReadFirst(w, how)
    PROVE  HInv'
<1>1. worker[w].pc = "read" /\ UNCHANGED <<lane, hashCache, forgets, file>>
  BY DEF ReadFirst, At
<1>2. CASE how = "fails"
  <2>1. Goes(w, "reply") /\ "reply" \in PCs
    BY <1>2 DEF ReadFirst, Goes, PCs, Busy
  <2> QED BY <1>1, <2>1, GoOn
<1>3. CASE how = "large"
  <2>1. Goes(w, "sign") /\ "sign" \in PCs
    BY <1>3 DEF ReadFirst, Goes, PCs, Busy
  <2> QED BY <1>1, <2>1, GoOn
<1>4. CASE how = "reads"
  <2>1. PICK h, pc : h = {file.version} /\ pc = "more"
    OBVIOUS
  <2>2. worker' = [worker EXCEPT ![w].pc = pc, ![w].hash = h]
    BY <1>4, <2>1 DEF ReadFirst
  <2> QED BY <1>1, <2>1, <2>2, ReadInv
<1> QED BY <1>2, <1>3, <1>4

\* ReadMore.
LEMMA ReadMoreInv ==
    ASSUME HInv, NEW w \in Workers, ReadMore(w)
    PROVE  HInv'
<1>1. PICK h, pc : h = worker[w].hash \cup {file.version} /\ pc = "sign"
  OBVIOUS
<1>2. worker' = [worker EXCEPT ![w].pc = pc, ![w].hash = h]
  BY <1>1, OwnFacts DEF ReadMore
<1> QED BY <1>1, <1>2, ReadInv DEF ReadMore, At

\* Sign adds what the file holds now; no key, nothing to insert.
LEMMA SignInv ==
    ASSUME HInv, NEW w \in Workers, NEW ok \in BOOLEAN, Sign(w, ok)
    PROVE  HInv'
<1> DEFINE r == worker[w]
<1>1. PICK s \in SUBSET Nat, pc \in PCs :
        /\ s = IF ok THEN {file.version} ELSE {}
        /\ pc = IF ok /\ r.key # NoKey THEN "insert" ELSE "reply"
  <2>1. (IF ok THEN {file.version} ELSE {}) \in SUBSET Nat
    BY OwnFacts
  <2>2. (IF ok /\ r.key # NoKey THEN "insert" ELSE "reply") \in PCs
    BY DEF PCs, Busy
  <2> QED BY <2>1, <2>2
<1>2. worker' = [worker EXCEPT ![w].sig = s, ![w].pc = pc]
  BY <1>1 DEF Sign
<1>3. PICK m : m = Job(pc, r.key, r.hash, s, r.taken, r.from)
  OBVIOUS
<1>4. Put(w, m)
  BY <1>2, <1>3, OwnFacts, MoveSigPc
<1>5. /\ m \in Jobs /\ m.pc = pc /\ m.key = r.key /\ m.hash = r.hash /\ m.sig = s
      /\ m.taken = r.taken /\ m.from = r.from
  BY <1>3, OwnFacts, JobParts
<1>6. r.pc = "sign" /\ s \subseteq {file.version} /\ pc \in {"insert", "reply"} /\ (pc = "insert" => r.key # NoKey)
  BY <1>1 DEF Sign, At
<1>7. JobOK(m)
  <2>1. r.hash \cup r.sig \subseteq r.from..file.version
    BY <1>6, OwnFacts DEF JobOK
  <2>2. m.hash \cup m.sig \subseteq m.from..file.version
    BY <1>5, <1>6, <2>1, OwnFacts
  <2> QED BY <1>5, <1>6, <2>2, OwnFacts DEF JobOK
<1>8. MayBind(w, m)
  <2>1. \A k \in Nat \ {NoKey} : Binds(m, k) => Binds(r, k)
    BY <1>5, <1>6 DEF Binds
  <2> QED BY <1>5, <1>6, <2>1 DEF MayBind
<1>9. MayAsk(w, m)
  BY <1>5, <1>6 DEF MayAsk, Asks
<1> QED BY <1>4, <1>5, <1>6, <1>7, <1>8, <1>9, WorkerStep DEF Sign

\* CheckKey: only a key that is still the file's stays bound.
LEMMA CheckKeyInv ==
    ASSUME HInv, NEW w \in Workers, CheckKey(w)
    PROVE  HInv'
<1>1. "store" \in PCs /\ "reply" \in PCs
  BY DEF PCs, Busy
<1> QED BY <1>1, GoOn DEF CheckKey, At

\* ReplyHash: the worker starts over or ends.
LEMMA ReplyHashInv ==
    ASSUME HInv, NEW w \in Workers, ReplyHash(w)
    PROVE  HInv'
<1>1. PICK pc \in PCs : pc \in {"pop", "ended"} /\ worker' = [worker EXCEPT ![w] = [Start EXCEPT !.pc = pc]]
  <2>1. "pop" \in PCs /\ "ended" \in PCs
    BY DEF PCs
  <2>2. [Start EXCEPT !.pc = "pop"] = Start
    BY DEF Start
  <2> QED BY <2>1, <2>2 DEF ReplyHash
<1>2. PICK m : m = Job(pc, NoKey, {}, {}, 0, 0)
  OBVIOUS
<1>3. [Start EXCEPT !.pc = pc] = m
  BY <1>2 DEF Start, Job
<1>4. Put(w, m)
  BY <1>1, <1>3 DEF Put
<1>5. /\ m \in Jobs /\ m.pc = pc /\ m.key = NoKey /\ m.hash = {} /\ m.sig = {} /\ m.taken = 0 /\ m.from = 0
  BY <1>2, JobParts DEF NoKey
<1>6. worker[w].pc = "reply" /\ worker[w].taken = 0
  BY DEF ReplyHash, At, HInv, CountInv
<1>7. JobOK(m)
  BY <1>1, <1>5, OwnFacts DEF JobOK, NoKey
<1>8. MayBind(w, m) /\ MayAsk(w, m)
  BY <1>1, <1>5 DEF MayBind, MayAsk, Binds, Asks
<1> QED BY <1>1, <1>4, <1>5, <1>6, <1>7, <1>8, WorkerStep DEF ReplyHash

-----------------------------------------------------------------------------
(* The invalidations                                                         *)

\* The tokens of the other workers.
Rest(ws, w) == {t \in Tokens(ws) : t[1] # w}

\* One worker's tokens are as many as it has taken.
LEMMA TokenSplit ==
    ASSUME NEW ws, NEW w \in Workers, ws[w].taken \in Nat, IsFiniteSet(Rest(ws, w))
    PROVE  /\ IsFiniteSet(Tokens(ws))
           /\ Cardinality(Tokens(ws)) = Cardinality(Rest(ws, w)) + ws[w].taken
<1> DEFINE n == ws[w].taken
           Own == {w} \X (1..n)
<1>1. n \in Nat
  OBVIOUS
<1>2. IsFiniteSet(1..n) /\ Cardinality(1..n) = n
  <2>1. ASSUME NEW i \in Nat PROVE IsFiniteSet(1..i) /\ Cardinality(1..i) = i
    <3>1. /\ IsFiniteSet(1..i)
          /\ Cardinality(1..i) = IF 1 > i THEN 0 ELSE i - 1 + 1
      BY FS_Interval
    <3> QED BY <3>1
  <2> QED BY <1>1, <2>1
<1>3. IsFiniteSet({w}) /\ Cardinality({w}) = 1
  BY FS_Singleton
<1>4. IsFiniteSet(Own) /\ Cardinality(Own) = Cardinality({w}) * Cardinality(1..n)
  BY <1>2, <1>3, FS_Product
<1>5. Cardinality(Own) = n
  BY <1>1, <1>2, <1>3, <1>4
<1>6. Tokens(ws) = Rest(ws, w) \cup Own
  <2>1. \A t \in Own : t \in Workers \X Nat /\ t[1] = w /\ 1 <= t[2] /\ t[2] <= n
    BY <1>1
  <2>2. \A t \in Tokens(ws) : t[1] = w => t \in Own
    BY <1>1 DEF Tokens
  <2> QED BY <2>1, <2>2 DEF Rest, Tokens
<1>7. Rest(ws, w) \cap Own = {}
  BY DEF Rest
<1>8. Cardinality({}) = 0 /\ Cardinality(Rest(ws, w)) \in Nat
  BY FS_EmptySet, FS_CardinalityType
<1> HIDE DEF n, Own
<1>9. /\ IsFiniteSet(Rest(ws, w) \cup Own)
      /\ Cardinality(Rest(ws, w) \cup Own) =
           Cardinality(Rest(ws, w)) + Cardinality(Own) - Cardinality(Rest(ws, w) \cap Own)
  BY <1>4, FS_Union
<1>10. Cardinality(Tokens(ws)) = Cardinality(Rest(ws, w)) + n
  BY <1>1, <1>5, <1>6, <1>7, <1>8, <1>9
<1> QED BY <1>6, <1>9, <1>10 DEF n

\* A worker that takes invalidations from the channel, or applies those it
\* took, leaves the counter right.
LEMMA CountStep ==
    ASSUME HInv, NEW w \in Workers, NEW m \in Jobs, Put(w, m), m.pc # "forget" => m.taken = 0,
           forgets'.sent \in Nat, forgets'.waiting \in Int, forgets'.waiting <= LaneCap,
           forgets'.waiting - forgets'.sent - m.taken = forgets.waiting - forgets.sent - worker[w].taken
    PROVE  CountInv' /\ forgets'.waiting \in Nat
<1>1. /\ worker'[w] = m
      /\ \A v \in Workers \ {w} : worker'[v] = worker[v]
  BY PutFacts DEF HInv
<1>2. Rest(worker', w) = Rest(worker, w)
  <2>1. \A t \in Workers \X Nat : t[1] \in Workers
    OBVIOUS
  <2> QED BY <1>1, <2>1 DEF Rest, Tokens
<1>3. IsFiniteSet(Rest(worker, w))
  BY FS_Subset DEF HInv, CountInv, Rest
<1>4. worker[w].taken \in Nat /\ m.taken \in Nat /\ worker'[w].taken = m.taken
  BY <1>1, WorkerType DEF HInv, Jobs
<1>5. Cardinality(Tokens(worker)) = Cardinality(Rest(worker, w)) + worker[w].taken
  BY <1>3, <1>4, TokenSplit
<1>6. PICK g : g = worker'
  OBVIOUS
<1>7. /\ IsFiniteSet(Tokens(g))
      /\ Cardinality(Tokens(g)) = Cardinality(Rest(g, w)) + g[w].taken
  BY <1>2, <1>3, <1>4, <1>6, TokenSplit
<1>8. Cardinality(Tokens(worker')) = Cardinality(Rest(worker, w)) + m.taken
  BY <1>2, <1>4, <1>6, <1>7
<1>9. Cardinality(Rest(worker, w)) \in Nat
  BY <1>3, FS_CardinalityType
<1>10. /\ forgets.waiting = forgets.sent + Cardinality(Tokens(worker))
       /\ forgets.sent \in Nat
  BY DEF HInv, CountInv, HashTypeOK
<1>11. forgets'.waiting = forgets'.sent + Cardinality(Tokens(worker')) /\ forgets'.waiting \in Nat
  <2>1. PICK c \in Nat, t \in Nat, u \in Nat : c = Cardinality(Rest(worker, w)) /\ t = worker[w].taken /\ u = m.taken
    BY <1>4, <1>9
  <2>2. PICK a \in Int, b \in Nat, d \in Nat : a = forgets'.waiting /\ b = forgets'.sent /\ d = forgets.sent
    BY <1>10
  <2>3. forgets.waiting = d + (c + t)
    BY <1>5, <1>10, <2>1, <2>2
  <2>4. a - b - u = d + (c + t) - d - t
    BY <2>1, <2>2, <2>3
  <2>5. a = b + (c + u) /\ a \in Nat
    BY <2>4
  <2> QED BY <1>8, <2>1, <2>2, <2>5
<1>12. \A v \in Workers : worker'[v].pc # "forget" => worker'[v].taken = 0
  BY <1>1 DEF HInv, CountInv
<1> QED BY <1>6, <1>7, <1>11, <1>12 DEF CountInv

\* Apply takes what the channel holds.
LEMMA ApplyInv ==
    ASSUME HInv, NEW w \in Workers, Apply(w)
    PROVE  HInv'
<1> DEFINE r == worker[w]
           n == forgets.sent
<1>1. /\ r.pc = "apply" /\ r.taken = 0
      /\ forgets \in [sent : Nat, waiting : Nat] /\ n \in Nat
  BY DEF Apply, At, HInv, CountInv, HashTypeOK
<1>2. PICK pc \in PCs : pc = IF n = 0 THEN "open" ELSE "forget"
  BY DEF PCs, Busy
<1>3. worker' = [worker EXCEPT ![w].pc = pc, ![w].taken = n]
  BY <1>2 DEF Apply
<1>4. PICK m : m = Job(pc, r.key, r.hash, r.sig, n, r.from)
  OBVIOUS
<1>5. Put(w, m)
  BY <1>1, <1>3, <1>4, OwnFacts, MovePcTaken
<1>6. /\ m \in Jobs /\ m.pc = pc /\ m.key = r.key /\ m.hash = r.hash /\ m.sig = r.sig
      /\ m.taken = n /\ m.from = r.from
  BY <1>1, <1>4, OwnFacts, JobParts
<1>7. forgets' \in [sent : Nat, waiting : Nat] /\ forgets'.sent = 0 /\ forgets'.waiting = forgets.waiting
  BY <1>1 DEF Apply
<1>8. CountInv'
  <2>1. forgets'.waiting <= LaneCap
    BY <1>7 DEF HInv, CountInv
  <2>2. forgets'.waiting - forgets'.sent - m.taken = forgets.waiting - forgets.sent - worker[w].taken
    BY <1>1, <1>6, <1>7
  <2>3. m.pc # "forget" => m.taken = 0
    BY <1>2, <1>6
  <2> QED BY <1>5, <1>6, <1>7, <2>1, <2>2, <2>3, CountStep
<1>9. LaneInv'
  BY <1>2, <1>5, <1>6, LaneKept DEF Apply
<1>10. KnowsInv' /\ BoundInv'
  <2>1. JobOK(m)
    BY <1>1, <1>2, <1>6, OwnFacts DEF JobOK
  <2>2. MayBind(w, m) /\ MayAsk(w, m)
    BY <1>2, <1>6 DEF MayBind, MayAsk, Binds, Asks
  <2>3. MayStore(w)
    BY DEF MayStore, HInv, KnowsInv, Apply
  <2> QED BY <1>5, <1>6, <2>1, <2>2, <2>3, KnowsKept DEF Apply
<1>11. worker' \in [Workers -> Jobs]
  BY <1>5, <1>6, PutFacts, OwnFacts
<1>12. HashTypeOK'
  BY <1>7, <1>11 DEF HInv, HashTypeOK, Apply
<1> QED BY <1>8, <1>9, <1>10, <1>12 DEF HInv

\* ApplyForget counts them down and empties the cache.
LEMMA ApplyForgetInv ==
    ASSUME HInv, NEW w \in Workers, ApplyForget(w)
    PROVE  HInv'
<1> DEFINE r == worker[w]
<1>1. r.pc = "forget" /\ forgets \in [sent : Nat, waiting : Nat]
  BY DEF ApplyForget, At, HInv, HashTypeOK
<1>2. "open" \in PCs /\ worker' = [worker EXCEPT ![w].pc = "open", ![w].taken = 0]
  BY DEF ApplyForget, PCs, Busy
<1>4. PICK m : m = Job("open", r.key, r.hash, r.sig, 0, r.from)
  OBVIOUS
<1>5. Put(w, m)
  BY <1>2, <1>4, OwnFacts, MovePcTaken
<1>6. /\ m \in Jobs /\ m.pc = "open" /\ m.key = r.key /\ m.hash = r.hash /\ m.sig = r.sig
      /\ m.taken = 0 /\ m.from = r.from
  BY <1>2, <1>4, OwnFacts, JobParts
<1>7. forgets' = [forgets EXCEPT !.waiting = @ - r.taken]
  BY DEF ApplyForget
<1>8. /\ forgets'.sent = forgets.sent /\ forgets'.waiting = forgets.waiting - r.taken
      /\ forgets'.sent \in Nat /\ forgets'.waiting \in Int
      /\ forgets' = [sent |-> forgets'.sent, waiting |-> forgets'.waiting]
  BY <1>1, <1>7, OwnFacts
<1>9. CountInv' /\ forgets'.waiting \in Nat
  <2>1. forgets.waiting <= LaneCap /\ LaneCap \in Nat /\ r.taken \in Nat /\ forgets.waiting \in Nat
    BY <1>1, HashAssumption, OwnFacts DEF HInv, CountInv
  <2>2. forgets'.waiting <= LaneCap
    BY <1>8, <2>1
  <2>3. forgets'.waiting - forgets'.sent - m.taken = forgets.waiting - forgets.sent - worker[w].taken
    BY <1>1, <1>6, <1>8, <2>1
  <2> QED BY <1>5, <1>6, <1>8, <2>2, <2>3, CountStep
<1>10. DOMAIN hashCache' = {} /\ hashCache' = <<>>
  BY DEF ApplyForget
<1>11. LaneInv'
  <2>1. Cardinality(DOMAIN hashCache') = 0 /\ 0 <= HashCacheCap
    BY <1>10, FS_EmptySet, HashAssumption
  <2>2. Parked' \subseteq Parked /\ w \notin Parked'
    BY <1>5, <1>6, PutFacts DEF HInv, Parked
  <2>3. Waiting' = Waiting /\ lane' = lane
    BY DEF Waiting, ApplyForget
  <2> QED BY <2>1, <2>2, <2>3 DEF HInv, LaneInv
<1>12. KnowsInv' /\ BoundInv'
  <2>1. JobOK(m)
    BY <1>1, <1>6, OwnFacts DEF JobOK
  <2>2. MayBind(w, m) /\ MayAsk(w, m)
    BY <1>6 DEF MayBind, MayAsk, Binds, Asks
  <2>3. MayStore(w)
    BY <1>10 DEF MayStore
  <2> QED BY <1>5, <1>6, <2>1, <2>2, <2>3, KnowsKept DEF ApplyForget
<1>13. HashTypeOK'
  <2>1. worker' \in [Workers -> Jobs]
    BY <1>5, <1>6, PutFacts, OwnFacts
  <2>2. IsFiniteSet(DOMAIN hashCache') /\ DOMAIN hashCache' \subseteq Nat /\ hashCache' \in [DOMAIN hashCache' -> Entries]
    BY <1>10, FS_EmptySet
  <2>3. forgets' \in [sent : Nat, waiting : Nat]
    BY <1>8, <1>9
  <2> QED BY <2>1, <2>2, <2>3 DEF HInv, HashTypeOK, ApplyForget
<1> QED BY <1>9, <1>11, <1>12, <1>13 DEF HInv

\* StoreHash: what goes into the cache was bound to the key before.
LEMMA StoreHashInv ==
    ASSUME HInv, NEW w \in Workers, StoreHash(w)
    PROVE  HInv'
<1> DEFINE r == worker[w]
           kept == IF Cardinality(DOMAIN hashCache) >= HashCacheCap THEN <<>> ELSE hashCache
           e == [hash |-> r.hash, sig |-> r.sig]
<1>1. r.pc = "store" /\ JobOK(r) /\ r.key \in Nat \ {NoKey} /\ r.key \in 1..file.usn
  <2>1. r.pc = "store" /\ JobOK(r)
    BY OwnFacts DEF StoreHash, At
  <2> QED BY <2>1, OwnFacts DEF JobOK, NoKey
<1>2. hashCache' = [k \in DOMAIN kept \cup {r.key} |-> IF k = r.key THEN e ELSE kept[k]]
  BY DEF StoreHash
<1>3. e \in Entries /\ e.hash = r.hash /\ e.sig = r.sig
  BY OwnFacts DEF Entries
<1>4. /\ DOMAIN kept \subseteq DOMAIN hashCache
      /\ \A k \in DOMAIN kept : kept[k] = hashCache[k]
      /\ Cardinality(DOMAIN kept) < HashCacheCap /\ IsFiniteSet(DOMAIN kept)
  <2>1. CASE Cardinality(DOMAIN hashCache) >= HashCacheCap
    <3>1. DOMAIN kept = {}
      BY <2>1
    <3>2. IsFiniteSet({}) /\ Cardinality({}) = 0 /\ 0 < HashCacheCap
      BY FS_EmptySet, HashAssumption
    <3> HIDE DEF kept
    <3> QED BY <3>1, <3>2
  <2>2. CASE ~(Cardinality(DOMAIN hashCache) >= HashCacheCap)
    <3>1. Cardinality(DOMAIN hashCache) \in Nat /\ IsFiniteSet(DOMAIN hashCache)
      BY FS_CardinalityType DEF HInv, HashTypeOK
    <3> QED BY <2>2, <3>1, HashAssumption
  <2> QED BY <2>1, <2>2
<1> HIDE DEF kept, e
<1>5. /\ DOMAIN hashCache' = DOMAIN kept \cup {r.key}
      /\ hashCache'[r.key] = e
      /\ \A k \in DOMAIN kept \ {r.key} : hashCache'[k] = kept[k]
      /\ hashCache' = [k \in DOMAIN hashCache' |-> hashCache'[k]]
  BY <1>2
<1>6. Cardinality(DOMAIN hashCache') <= HashCacheCap /\ IsFiniteSet(DOMAIN hashCache')
  <2>1. /\ IsFiniteSet(DOMAIN kept \cup {r.key})
        /\ Cardinality(DOMAIN kept \cup {r.key}) =
             IF r.key \in DOMAIN kept THEN Cardinality(DOMAIN kept) ELSE Cardinality(DOMAIN kept) + 1
    BY <1>4, FS_AddElement
  <2>2. Cardinality(DOMAIN kept) \in Nat
    BY <1>4, FS_CardinalityType
  <2> QED BY <1>4, <1>5, <2>1, <2>2, HashAssumption
<1>7. MayStore(w)
  <2>1. Binds(r, r.key)
    BY <1>1 DEF Binds
  <2>2. DOMAIN hashCache \subseteq 1..file.usn
    BY DEF HInv, KnowsInv
  <2> QED BY <1>1, <1>3, <1>4, <1>5, <2>1, <2>2 DEF MayStore
<1>8. PICK m : m = Job("reply", r.key, r.hash, r.sig, r.taken, r.from)
  OBVIOUS
<1>9. "reply" \in PCs /\ worker' = [worker EXCEPT ![w].pc = "reply"]
  BY DEF StoreHash, Goes, PCs, Busy
<1>10. Put(w, m)
  BY <1>8, <1>9, OwnFacts, MovePc
<1>11. /\ m \in Jobs /\ m.pc = "reply" /\ m.key = r.key /\ m.hash = r.hash /\ m.sig = r.sig
       /\ m.taken = r.taken /\ m.from = r.from
  BY <1>8, <1>9, OwnFacts, JobParts
<1>12. KnowsInv' /\ BoundInv'
  <2>1. JobOK(m)
    BY <1>1, <1>11, OwnFacts DEF JobOK
  <2>2. MayBind(w, m) /\ MayAsk(w, m)
    BY <1>11 DEF MayBind, MayAsk, Binds, Asks
  <2> QED BY <1>7, <1>10, <1>11, <2>1, <2>2, KnowsKept DEF StoreHash
<1>13. CountInv'
  <2>1. r.taken = 0
    BY <1>1 DEF HInv, CountInv
  <2> QED BY <1>10, <1>11, <2>1, CountKept DEF StoreHash
<1>14. LaneInv'
  <2>1. Parked' \subseteq Parked /\ w \notin Parked'
    BY <1>10, <1>11, PutFacts DEF HInv, Parked
  <2>2. Waiting' = Waiting /\ lane' = lane
    BY DEF Waiting, StoreHash
  <2> QED BY <1>6, <2>1, <2>2 DEF HInv, LaneInv
<1>15. HashTypeOK'
  <2>1. worker' \in [Workers -> Jobs]
    BY <1>10, <1>11, PutFacts, OwnFacts
  <2>2. \A k \in DOMAIN hashCache' : hashCache'[k] \in Entries
    BY <1>3, <1>4, <1>5 DEF HInv, HashTypeOK
  <2>3. hashCache' \in [DOMAIN hashCache' -> Entries]
    BY <1>5, <2>2
  <2>4. DOMAIN hashCache' \subseteq Nat
    BY <1>1, <1>4, <1>5 DEF HInv, HashTypeOK
  <2> QED BY <1>6, <2>1, <2>3, <2>4 DEF HInv, HashTypeOK, StoreHash
<1> QED BY <1>12, <1>13, <1>14, <1>15 DEF HInv

\* The lane's fields.
LEMMA LaneType ==
    ASSUME HInv
    PROVE  /\ lane \in [launches : Nat, modules : Nat, closed : BOOLEAN, jobs : Nat, drops : Nat]
           /\ lane.launches \in Nat /\ lane.modules \in Nat /\ lane.closed \in BOOLEAN
           /\ lane.launches <= LaneCap /\ lane.modules <= LaneCap
  BY DEF HInv, HashTypeOK, LaneInv

\* Pop: takes a job, parks on an empty lane or ends on a closed one.
LEMMA PopInv ==
    ASSUME HInv, NEW w \in Workers, Pop(w)
    PROVE  HInv'
<1> DEFINE r == worker[w]
<1>1. /\ r.pc = "pop" /\ r.taken = 0 /\ JobOK(r)
      /\ UNCHANGED <<hashCache, forgets, file>>
  BY OwnFacts DEF Pop, At, HInv, CountInv
<1>2. ASSUME NEW pc \in {"apply", "ended", "parked"}, Goes(w, pc)
      PROVE  /\ worker' \in [Workers -> Jobs] /\ KnowsInv' /\ BoundInv' /\ CountInv'
             /\ worker'[w].pc = pc /\ \A v \in Workers \ {w} : worker'[v] = worker[v]
  <2>1. pc \in PCs /\ worker' = [worker EXCEPT ![w].pc = pc]
    BY <1>2 DEF PCs, Goes
  <2>2. PICK m : m = Job(pc, r.key, r.hash, r.sig, r.taken, r.from)
    OBVIOUS
  <2>3. Put(w, m)
    BY <2>1, <2>2, OwnFacts, MovePc
  <2>4. /\ m \in Jobs /\ m.pc = pc /\ m.key = r.key /\ m.hash = r.hash /\ m.sig = r.sig
        /\ m.taken = r.taken /\ m.from = r.from
    BY <2>1, <2>2, OwnFacts, JobParts
  <2>5. JobOK(m)
    BY <1>1, <2>4, OwnFacts DEF JobOK
  <2>6. MayBind(w, m) /\ MayAsk(w, m)
    BY <2>4 DEF MayBind, MayAsk, Binds, Asks
  <2>7. MayStore(w)
    BY <1>1 DEF MayStore, HInv, KnowsInv
  <2>8. KnowsInv' /\ BoundInv'
    BY <1>1, <2>3, <2>4, <2>5, <2>6, <2>7, KnowsKept
  <2>9. CountInv'
    BY <1>1, <2>3, <2>4, CountKept
  <2> QED BY <2>3, <2>4, <2>8, <2>9, PutFacts, OwnFacts
<1>3. CASE /\ Waiting > 0
           /\ lane' = IF lane.launches > 0 THEN [lane EXCEPT !.launches = @ - 1] ELSE [lane EXCEPT !.modules = @ - 1]
           /\ Goes(w, "apply")
  <2>1. /\ lane' \in [launches : Nat, modules : Nat, closed : BOOLEAN, jobs : Nat, drops : Nat]
        /\ lane'.launches <= lane.launches /\ lane'.modules <= lane.modules /\ lane'.closed = lane.closed
    BY <1>3, LaneType DEF Waiting
  <2>2. Parked' \subseteq Parked /\ w \notin Parked'
    BY <1>2, <1>3 DEF Parked
  <2>3. lane'.launches <= LaneCap /\ lane'.modules <= LaneCap
    BY <2>1, LaneType, HashAssumption
  <2>4. LaneInv'
    BY <1>1, <2>1, <2>2, <2>3 DEF HInv, LaneInv
  <2>5. HashTypeOK'
    BY <1>1, <1>2, <1>3, <2>1 DEF HInv, HashTypeOK
  <2> QED BY <1>2, <1>3, <2>4, <2>5 DEF HInv
<1>4. CASE Waiting = 0 /\ Goes(w, IF lane.closed THEN "ended" ELSE "parked") /\ UNCHANGED lane
  <2>1. PICK pc \in {"ended", "parked"} : pc = (IF lane.closed THEN "ended" ELSE "parked") /\ Goes(w, pc)
    BY <1>4
  <2>2. /\ worker' \in [Workers -> Jobs] /\ KnowsInv' /\ BoundInv' /\ CountInv'
        /\ worker'[w].pc = pc /\ \A v \in Workers \ {w} : worker'[v] = worker[v]
    BY <1>2, <2>1
  <2>3. lane.closed => Parked' \subseteq Parked
    BY <2>1, <2>2 DEF Parked
  <2>4. Waiting' = 0
    BY <1>4 DEF Waiting
  <2>5. LaneInv'
    BY <1>1, <1>4, <2>3, <2>4 DEF HInv, LaneInv
  <2>6. HashTypeOK'
    BY <1>1, <1>4, <2>2 DEF HInv, HashTypeOK
  <2> QED BY <2>2, <2>5, <2>6 DEF HInv
<1> QED BY <1>3, <1>4 DEF Pop

\* Every step of a worker.
LEMMA HashWorkerInv ==
    ASSUME HInv, NEW w \in Workers, HashWorker(w)
    PROVE  HInv'
  BY PopInv, ApplyInv, ApplyForgetInv, ReadKeyInv, LookupInv, ReadMoreInv, CheckKeyInv, StoreHashInv,
     ReplyHashInv, OpenFileInv, SignInv, ReadFirstInv DEF HashWorker

-----------------------------------------------------------------------------
(* Those who use the lane                                                    *)

\* Waking parked workers changes only where they are.
LEMMA WokenKeeps ==
    ASSUME HInv, NEW ws \in SUBSET Parked, worker' = Woken(ws), UNCHANGED <<hashCache, forgets, file>>
    PROVE  /\ worker' \in [Workers -> Jobs] /\ Parked' = Parked \ ws
           /\ CountInv' /\ KnowsInv' /\ BoundInv'
<1>1. ASSUME NEW r \in Jobs, NEW m, m = [r EXCEPT !.pc = "pop"]
      PROVE  m \in Jobs /\ m.pc = "pop" /\ m.key = r.key /\ m.hash = r.hash /\ m.sig = r.sig
             /\ m.taken = r.taken /\ m.from = r.from
  BY <1>1 DEF Jobs, PCs
<1>2. ASSUME NEW v \in Workers
      PROVE  /\ worker'[v] \in Jobs /\ worker'[v].key = worker[v].key /\ worker'[v].hash = worker[v].hash
             /\ worker'[v].sig = worker[v].sig /\ worker'[v].taken = worker[v].taken /\ worker'[v].from = worker[v].from
             /\ v \in ws => worker[v].pc = "parked" /\ worker'[v].pc = "pop"
             /\ v \notin ws => worker'[v].pc = worker[v].pc
  <2>1. PICK r \in Jobs : r = worker[v]
    BY DEF HInv, HashTypeOK
  <2>2. CASE v \in ws
    <3>1. PICK m : m = [r EXCEPT !.pc = "pop"]
      OBVIOUS
    <3>2. worker'[v] = m
      BY <2>1, <2>2, <3>1 DEF Woken
    <3> QED BY <1>1, <2>1, <2>2, <3>1, <3>2 DEF Parked
  <2>3. CASE v \notin ws
    BY <2>1, <2>3 DEF Woken
  <2> QED BY <2>2, <2>3
<1>3. worker' \in [Workers -> Jobs]
  <2>1. worker' = [v \in Workers |-> worker'[v]]
    BY DEF Woken
  <2> QED BY <1>2, <2>1
<1>4. Parked' = Parked \ ws
  BY <1>2 DEF Parked
<1>5. CountInv'
  <2>1. Tokens(worker') = Tokens(worker)
    <3>1. \A t \in Workers \X Nat : t[1] \in Workers
      OBVIOUS
    <3> QED BY <1>2, <3>1 DEF Tokens
  <2>2. \A v \in Workers : worker'[v].pc # "forget" => worker'[v].taken = 0
    BY <1>2 DEF HInv, CountInv
  <2> QED BY <2>1, <2>2 DEF HInv, CountInv
<1>6. KnowsInv'
  <2>1. ASSUME NEW v \in Workers PROVE JobOK(worker[v])'
    <3>1. JobOK(worker[v])
      BY DEF HInv, KnowsInv
    <3> QED BY <1>2, <3>1 DEF JobOK
  <2> QED BY <2>1 DEF HInv, KnowsInv
<1>7. BoundInv'
  <2>1. \A v \in Workers : \A k \in Nat : /\ Binds(worker[v], k)' => Binds(worker[v], k)
                                          /\ Asks(worker[v], k)' => Asks(worker[v], k)
    BY <1>2 DEF Binds, Asks
  <2>2. \A k \in Nat : Bound(k)' \subseteq Bound(k)
    BY <1>2, <2>1 DEF Bound
  <2> QED BY <1>2, <2>1, <2>2 DEF HInv, BoundInv
<1> QED BY <1>3, <1>4, <1>5, <1>6, <1>7

\* A job that comes wakes somebody, if all were parked.
LEMMA NotifyOneKeeps ==
    ASSUME HInv, NotifyOne, UNCHANGED <<hashCache, forgets, file>>
    PROVE  /\ worker' \in [Workers -> Jobs] /\ Parked' \subseteq Parked /\ Parked' # Workers
           /\ CountInv' /\ KnowsInv' /\ BoundInv'
<1>1. PICK ws \in SUBSET Parked : worker' = Woken(ws) /\ (Parked # {} => ws # {})
  <2>1. CASE Parked = {}
    <3>1. Woken({}) = worker
      BY DEF Woken, HInv, HashTypeOK
    <3> QED BY <2>1, <3>1 DEF NotifyOne
  <2>2. CASE Parked # {}
    BY <2>2 DEF NotifyOne
  <2> QED BY <2>1, <2>2
<1>2. /\ worker' \in [Workers -> Jobs] /\ Parked' = Parked \ ws
      /\ CountInv' /\ KnowsInv' /\ BoundInv'
  BY <1>1, WokenKeeps
<1>3. Parked \subseteq Workers /\ Workers # {}
  BY HashAssumption DEF Parked
<1> QED BY <1>1, <1>2, <1>3

LaneRecs == [launches : Nat, modules : Nat, closed : BOOLEAN, jobs : Nat, drops : Nat]

\* SubmitEnrich: a dropped job changes no queue, a kept one wakes a worker.
LEMMA SubmitEnrichInv ==
    ASSUME HInv, NEW kind \in {"launches", "modules"}, SubmitEnrich(kind)
    PROVE  HInv'
<1>1. ~lane.closed /\ UNCHANGED <<hashCache, forgets, file>> /\ lane \in LaneRecs
  BY LaneType DEF SubmitEnrich, LaneRecs
<1>2. PICK g : g = [lane EXCEPT !.jobs = @ + 1]
  OBVIOUS
<1>3. /\ g \in LaneRecs /\ g.launches = lane.launches /\ g.modules = lane.modules /\ g.closed = lane.closed
      /\ g.drops = lane.drops
  BY <1>1, <1>2 DEF LaneRecs
<1>4. CASE /\ lane[kind] >= LaneCap
           /\ lane' = [lane EXCEPT !.jobs = @ + 1, !.drops = @ + 1] /\ UNCHANGED worker
  <2>1. lane' = [g EXCEPT !.drops = @ + 1]
    BY <1>2, <1>4
  <2>2. lane' \in LaneRecs /\ lane'.launches = lane.launches /\ lane'.modules = lane.modules /\ lane'.closed = lane.closed
    BY <1>3, <2>1 DEF LaneRecs
  <2>3. HashTypeOK' /\ LaneInv'
    BY <1>1, <1>4, <2>2 DEF HInv, HashTypeOK, LaneInv, LaneRecs, Parked, Waiting
  <2>4. CountInv' /\ KnowsInv' /\ BoundInv'
    BY <1>1, <1>4 DEF HInv, CountInv, KnowsInv, BoundInv, JobOK, Bound, Binds, Asks
  <2> QED BY <2>3, <2>4 DEF HInv
<1>5. CASE /\ lane[kind] < LaneCap
           /\ lane' = [lane EXCEPT !.jobs = @ + 1, ![kind] = @ + 1]
           /\ NotifyOne
  <2>1. lane' = [g EXCEPT ![kind] = @ + 1]
    BY <1>2, <1>5
  <2>2. lane' \in LaneRecs /\ lane'.closed = lane.closed /\ lane'.launches <= LaneCap /\ lane'.modules <= LaneCap
    <3>0. lane.launches \in Nat /\ lane.modules \in Nat /\ lane.launches <= LaneCap /\ lane.modules <= LaneCap /\ LaneCap \in Nat
      BY LaneType, HashAssumption
    <3>1. CASE kind = "launches"
      <4>1. lane' = [g EXCEPT !.launches = @ + 1] /\ lane.launches < LaneCap
        BY <1>1, <1>5, <2>1, <3>1
      <4>2. lane' \in LaneRecs /\ lane'.launches = lane.launches + 1 /\ lane'.modules = lane.modules /\ lane'.closed = lane.closed
        BY <1>3, <4>1 DEF LaneRecs
      <4> QED BY <3>0, <4>1, <4>2
    <3>2. CASE kind = "modules"
      <4>1. lane' = [g EXCEPT !.modules = @ + 1] /\ lane.modules < LaneCap
        BY <1>1, <1>5, <2>1, <3>2
      <4>2. lane' \in LaneRecs /\ lane'.launches = lane.launches /\ lane'.modules = lane.modules + 1 /\ lane'.closed = lane.closed
        BY <1>3, <4>1 DEF LaneRecs
      <4> QED BY <3>0, <4>1, <4>2
    <3> QED BY <3>1, <3>2
  <2>3. /\ worker' \in [Workers -> Jobs] /\ Parked' \subseteq Parked /\ Parked' # Workers
        /\ CountInv' /\ KnowsInv' /\ BoundInv'
    BY <1>1, <1>5, NotifyOneKeeps
  <2>4. HashTypeOK'
    BY <1>1, <2>2, <2>3 DEF HInv, HashTypeOK, LaneRecs
  <2>5. LaneInv'
    BY <1>1, <2>2, <2>3 DEF HInv, LaneInv
  <2> QED BY <2>3, <2>4, <2>5 DEF HInv
<1> QED BY <1>4, <1>5 DEF SubmitEnrich

\* SubmitForget counts the one it sends.
LEMMA SubmitForgetInv ==
    ASSUME HInv, SubmitForget
    PROVE  HInv'
<1>1. forgets \in [sent : Nat, waiting : Nat] /\ forgets.waiting < LaneCap /\ LaneCap \in Nat
  BY HashAssumption DEF HInv, HashTypeOK, SubmitForget
<1>2. forgets' \in [sent : Nat, waiting : Nat] /\ forgets'.sent = forgets.sent + 1
      /\ forgets'.waiting = forgets.waiting + 1
  BY <1>1 DEF SubmitForget
<1>3. UNCHANGED <<lane, worker, hashCache, file>>
  BY DEF SubmitForget
<1>4. HashTypeOK' /\ LaneInv' /\ KnowsInv' /\ BoundInv'
  BY <1>2, <1>3 DEF HInv, HashTypeOK, LaneInv, KnowsInv, BoundInv, JobOK, Bound, Binds, Asks, Waiting, Parked
<1>5. CountInv'
  <2>1. Cardinality(Tokens(worker)) \in Nat /\ forgets.waiting = forgets.sent + Cardinality(Tokens(worker))
    BY FS_CardinalityType DEF HInv, CountInv
  <2>2. forgets'.waiting = forgets'.sent + Cardinality(Tokens(worker)) /\ forgets'.waiting <= LaneCap
    BY <1>1, <1>2, <2>1
  <2> QED BY <1>3, <2>2 DEF HInv, CountInv
<1> QED BY <1>4, <1>5 DEF HInv

\* CloseLane wakes everybody.
LEMMA CloseLaneInv ==
    ASSUME HInv, CloseLane
    PROVE  HInv'
<1>1. UNCHANGED <<hashCache, forgets, file>> /\ worker' = Woken(Parked)
  BY DEF CloseLane
<1>2. /\ worker' \in [Workers -> Jobs] /\ Parked' = Parked \ Parked
      /\ CountInv' /\ KnowsInv' /\ BoundInv'
  BY <1>1, WokenKeeps
<1>3. lane' \in LaneRecs /\ lane'.launches = lane.launches /\ lane'.modules = lane.modules
  BY LaneType DEF CloseLane, LaneRecs
<1>4. HashTypeOK'
  BY <1>1, <1>2, <1>3 DEF HInv, HashTypeOK, LaneRecs
<1>5. LaneInv'
  BY <1>1, <1>2, <1>3, HashAssumption DEF HInv, LaneInv
<1> QED BY <1>2, <1>4, <1>5 DEF HInv

-----------------------------------------------------------------------------
(* The writer of the file                                                    *)

FileRecs == [version : Nat, usn : Nat, writer : BOOLEAN, logged : BOOLEAN]

\* Whatever a writer does, the key changes when what is bound to it may no
\* longer be what the file holds.
LEMMA FileStep ==
    ASSUME HInv, UNCHANGED <<lane, worker, hashCache, forgets>>, file' \in FileRecs,
           file'.version >= file.version, file'.logged => file'.writer,
           \/ file'.usn = file.usn /\ (file'.logged \/ (file'.version = file.version /\ file'.logged = file.logged))
           \/ file'.usn = NoKey /\ file.usn = NoKey
           \/ file'.usn > file.usn
    PROVE  HInv'
<1>1. /\ file.version \in Nat /\ file.usn \in Nat /\ file'.version \in Nat /\ file'.usn \in Nat
      /\ file'.usn >= file.usn
  BY DEF HInv, HashTypeOK, FileRecs, NoKey
<1>2. HashTypeOK' /\ LaneInv' /\ CountInv'
  BY DEF HInv, HashTypeOK, LaneInv, CountInv, Waiting, Parked, FileRecs
<1>3. KnowsInv'
  <2>1. ASSUME NEW w \in Workers PROVE JobOK(worker[w])'
    <3>1. JobOK(worker[w]) /\ worker[w].from \in Nat /\ worker[w].key \in Nat
      BY WorkerType DEF HInv, KnowsInv
    <3>2. worker[w].from..file.version \subseteq worker[w].from..file'.version
      BY <1>1, <3>1
    <3>3. worker[w].from <= file'.version /\ worker[w].key <= file'.usn
      BY <1>1, <3>1 DEF JobOK
    <3> QED BY <3>1, <3>2, <3>3 DEF JobOK
  <2>2. DOMAIN hashCache \subseteq 1..file'.usn
    BY <1>1 DEF HInv, KnowsInv
  <2> QED BY <2>1, <2>2 DEF HInv, KnowsInv
<1>4. BoundInv'
  <2> SUFFICES ASSUME NEW k \in Nat \ {NoKey}, NEW x \in Bound(k)'
               PROVE  /\ x <= file'.version
                      /\ (k = file'.usn /\ ~file'.logged) => x = file'.version
                      /\ \A w \in Workers : Asks(worker[w], k)' => worker[w].from <= x
    BY DEF BoundInv
  <2>1. k <= file.usn
    <3>1. \/ k \in DOMAIN hashCache
          \/ \E w \in Workers : worker[w].key = k
      BY DEF Bound, Binds
    <3>2. \A w \in Workers : worker[w].key <= file.usn
      BY DEF HInv, KnowsInv, JobOK
    <3>3. DOMAIN hashCache \subseteq 1..file.usn
      BY DEF HInv, KnowsInv
    <3> QED BY <1>1, <3>1, <3>2, <3>3
  <2>2. k = file'.usn => file'.usn = file.usn /\ file.usn # NoKey
    BY <1>1, <2>1 DEF NoKey
  <2>3. x \in Bound(k)
    <3>1. \A w \in Workers : Binds(worker[w], k)' => Binds(worker[w], k)
      BY <2>2 DEF Binds
    <3> QED BY <3>1 DEF Bound
  <2>4. /\ x \in Nat /\ x <= file.version
        /\ (k = file.usn /\ ~file.logged) => x = file.version
        /\ \A w \in Workers : Asks(worker[w], k) => worker[w].from <= x
    BY <2>3 DEF HInv, BoundInv, Bound
  <2>5. x <= file'.version
    BY <1>1, <2>4
  <2>6. (k = file'.usn /\ ~file'.logged) => x = file'.version
    BY <1>1, <2>2, <2>4
  <2>7. \A w \in Workers : Asks(worker[w], k)' => Asks(worker[w], k)
    BY <2>2 DEF Asks
  <2> QED BY <2>4, <2>5, <2>6, <2>7
<1> QED BY <1>2, <1>3, <1>4 DEF HInv

\* The three steps of a writer.
LEMMA WriterInv ==
    ASSUME HInv, WriterOpens \/ FileWrite \/ WriterCloses
    PROVE  HInv'
<1>1. file \in FileRecs /\ (file.logged => file.writer)
  BY DEF HInv, HashTypeOK, KnowsInv, FileRecs
<1>3. NextUsn(file) \in Nat /\ (NextUsn(file) > file.usn \/ (file.usn = NoKey /\ NextUsn(file) = NoKey))
  BY <1>1 DEF NextUsn, FileRecs, NoKey
<1>4. CASE WriterOpens
  <2>1. file' \in FileRecs /\ file'.version = file.version /\ file'.usn = file.usn /\ file'.writer /\ file'.logged = file.logged
    BY <1>1, <1>4 DEF WriterOpens, FileRecs
  <2>2. file.version \in Nat /\ file'.version >= file.version
    BY <1>1, <2>1 DEF FileRecs
  <2> QED BY <1>4, <2>1, <2>2, FileStep DEF WriterOpens
<1>5. CASE FileWrite
  <2>1. PICK u \in Nat : u = IF file.logged THEN file.usn ELSE NextUsn(file)
    BY <1>1, <1>3 DEF FileRecs
  <2>2. PICK f1 : f1 = [file EXCEPT !.version = @ + 1]
    OBVIOUS
  <2>3. PICK f2 : f2 = [f1 EXCEPT !.logged = TRUE]
    OBVIOUS
  <2>4. file' = [f2 EXCEPT !.usn = u]
    BY <1>5, <2>1, <2>2, <2>3 DEF FileWrite
  <2>5. f1 \in FileRecs /\ f1.version = file.version + 1 /\ f1.writer = file.writer
    BY <1>1, <2>2 DEF FileRecs
  <2>6. f2 \in FileRecs /\ f2.version = file.version + 1 /\ f2.writer = file.writer /\ f2.logged
    BY <2>3, <2>5 DEF FileRecs
  <2>7. file' \in FileRecs /\ file'.version = file.version + 1 /\ file'.writer = file.writer /\ file'.logged /\ file'.usn = u
    BY <2>4, <2>6 DEF FileRecs
  <2>8. file.writer /\ UNCHANGED <<lane, worker, hashCache, forgets>>
    BY <1>5 DEF FileWrite
  <2>9. file'.version >= file.version
    BY <1>1, <2>7 DEF FileRecs
  <2> QED BY <1>1, <1>3, <2>1, <2>7, <2>8, <2>9, FileStep
<1>6. CASE WriterCloses
  <2>1. PICK u \in Nat : u = IF file.logged THEN NextUsn(file) ELSE file.usn
    BY <1>1, <1>3 DEF FileRecs
  <2>2. PICK f1 : f1 = [file EXCEPT !.writer = FALSE]
    OBVIOUS
  <2>3. PICK f2 : f2 = [f1 EXCEPT !.logged = FALSE]
    OBVIOUS
  <2>4. file' = [f2 EXCEPT !.usn = u]
    BY <1>6, <2>1, <2>2, <2>3 DEF WriterCloses
  <2>5. f1 \in FileRecs /\ f1.version = file.version
    BY <1>1, <2>2 DEF FileRecs
  <2>6. f2 \in FileRecs /\ f2.version = file.version /\ ~f2.logged
    BY <2>3, <2>5 DEF FileRecs
  <2>7. file' \in FileRecs /\ file'.version = file.version /\ ~file'.logged /\ file'.usn = u
    BY <2>4, <2>6 DEF FileRecs
  <2>8. UNCHANGED <<lane, worker, hashCache, forgets>>
    BY <1>6 DEF WriterCloses
  <2>9. file'.version >= file.version
    BY <1>1, <2>7 DEF FileRecs
  <2>10. \/ file'.usn = file.usn /\ file'.version = file.version /\ file'.logged = file.logged
         \/ file'.usn = NoKey /\ file.usn = NoKey
         \/ file'.usn > file.usn
    <3>1. file.logged \in BOOLEAN /\ file'.logged \in BOOLEAN
      BY <1>1, <2>7 DEF FileRecs
    <3>2. CASE file.logged
      BY <1>3, <2>1, <2>7, <3>2
    <3>3. CASE ~file.logged
      BY <2>1, <2>7, <3>1, <3>3
    <3> QED BY <3>2, <3>3
  <2> QED BY <2>7, <2>8, <2>9, <2>10, FileStep
<1> QED BY <1>4, <1>5, <1>6

-----------------------------------------------------------------------------
(* The theorem                                                               *)

\* The initial states satisfy the invariant.
LEMMA HashInitInv == HashInit => HInv
<1> SUFFICES ASSUME HashInit PROVE HInv
  OBVIOUS
<1>1. Start \in Jobs /\ Start.pc = "pop" /\ Start.key = NoKey /\ Start.hash = {} /\ Start.sig = {}
      /\ Start.taken = 0 /\ Start.from = 0
  BY DEF Start, Jobs, PCs, NoKey
<1>2. \A w \in Workers : worker[w] = Start
  BY DEF HashInit
<1>3. DOMAIN hashCache = {} /\ IsFiniteSet({}) /\ Cardinality({}) = 0
  BY FS_EmptySet DEF HashInit
<1>4. /\ file \in FileRecs /\ file.version = 0 /\ ~file.logged /\ forgets.sent = 0 /\ forgets.waiting = 0
      /\ lane.launches = 0 /\ lane.modules = 0 /\ ~lane.closed
  BY DEF HashInit, FileRecs, NoKey
<1>5. HashTypeOK
  <2>1. worker \in [Workers -> Jobs]
    BY <1>1 DEF HashInit
  <2>2. hashCache \in [DOMAIN hashCache -> Entries]
    BY <1>3 DEF HashInit
  <2>3. lane \in LaneRecs /\ forgets \in [sent : Nat, waiting : Nat]
    BY DEF HashInit, LaneRecs
  <2> QED BY <1>3, <1>4, <2>1, <2>2, <2>3 DEF HashTypeOK, FileRecs, LaneRecs
<1>6. Parked = {}
  BY <1>1, <1>2 DEF Parked
<1>7. LaneInv
  BY <1>3, <1>4, <1>6, HashAssumption DEF LaneInv
<1>8. CountInv
  <2>1. Tokens(worker) = {}
    <3>1. \A t \in Workers \X Nat : t[1] \in Workers /\ t[2] \in Nat
      OBVIOUS
    <3> QED BY <1>1, <1>2, <3>1 DEF Tokens
  <2> QED BY <1>1, <1>2, <1>3, <1>4, <2>1, HashAssumption DEF CountInv
<1>9. KnowsInv
  <2>1. file.usn \in Nat
    BY <1>4 DEF FileRecs
  <2> QED BY <1>1, <1>2, <1>3, <1>4, <2>1 DEF KnowsInv, JobOK, NoKey
<1>10. BoundInv
  <2>1. \A k \in Nat : Bound(k) = {}
    BY <1>1, <1>2, <1>3 DEF Bound
  <2> QED BY <2>1 DEF BoundInv
<1> QED BY <1>5, <1>7, <1>8, <1>9, <1>10 DEF HInv

\* Every step keeps it.
LEMMA HashNextInv == HInv /\ [HashNext]_hashVars => HInv'
<1> SUFFICES ASSUME HInv, [HashNext]_hashVars PROVE HInv'
  OBVIOUS
<1>1. CASE HashNext
  BY <1>1, WriterInv, SubmitEnrichInv, SubmitForgetInv, CloseLaneInv, HashWorkerInv DEF HashNext
<1>2. CASE UNCHANGED hashVars
  <2>1. UNCHANGED <<lane, worker, hashCache, forgets, file>>
    BY <1>2 DEF hashVars
  <2>2. HashTypeOK' /\ LaneInv' /\ CountInv'
    BY <2>1 DEF HInv, HashTypeOK, LaneInv, CountInv, Waiting, Parked
  <2>3. KnowsInv' /\ BoundInv'
    BY <2>1 DEF HInv, KnowsInv, BoundInv, JobOK, Bound, Binds, Asks
  <2> QED BY <2>2, <2>3 DEF HInv
<1> QED BY <1>1, <1>2

\* It says that answers are fresh and the lane is kept.
LEMMA HInvIsOK == HInv => HashOK
<1> SUFFICES ASSUME HInv PROVE HashOK
  OBVIOUS
<1>1. HashFresh
  BY DEF HInv, KnowsInv, JobOK, HashFresh, At
<1>2. forgets.sent <= forgets.waiting /\ forgets.waiting <= LaneCap
  <2>1. Cardinality(Tokens(worker)) \in Nat /\ forgets.waiting = forgets.sent + Cardinality(Tokens(worker))
        /\ forgets.sent \in Nat
    BY FS_CardinalityType DEF HInv, CountInv, HashTypeOK
  <2>2. forgets.sent <= forgets.waiting
    BY <2>1
  <2> QED BY <2>2 DEF HInv, CountInv
<1>3. HashLaneOK
  BY <1>2 DEF HInv, LaneInv, HashLaneOK
<1> QED BY <1>1, <1>3 DEF HashOK

\* For any number of workers, jobs, writes and invalidations, what the hash
\* workers answer, from the cache or not, the file held since the job opened
\* it, the queues, the cache and the counter of invalidations keep to their
\* caps, and no job waits while every worker sleeps (hash_worker, enrich,
\* HashCache, HashLane, Forgets).
THEOREM HashAlwaysOK == HashSpec => []HashOK
<1>1. HashInit => HInv
  BY HashInitInv
<1>2. HInv /\ [HashNext]_hashVars => HInv'
  BY HashNextInv
<1>3. HInv => HashOK
  BY HInvIsOK
<1> QED BY <1>1, <1>2, <1>3, PTL DEF HashSpec

-----------------------------------------------------------------------------
(* Account names: what was asked is in one place, once                       *)

Answers == [sid : Sids, known : BOOLEAN]
Callers == [pc : {"idle", "drain", "wait"}, sid : Sids \cup {NoSid}, calls : Nat, timeouts : Nat]
TableShape(a) ==
    /\ a = [cache |-> a.cache, asked |-> a.asked, stalled |-> a.stalled]
    /\ a.stalled \in BOOLEAN /\ a.asked \subseteq Sids
    /\ IsFiniteSet(DOMAIN a.cache) /\ Cardinality(DOMAIN a.cache) <= AccountCap
ChannelShape(c) ==
    /\ c = [jobs |-> c.jobs, running |-> c.running, done |-> c.done]
    /\ c.jobs \in Seq(Sids) /\ c.running \in Sids \cup {NoSid} /\ c.done \in Seq(Answers)
CallerShape(k) == k \in Callers /\ (k.pc # "idle" => k.sid \in Sids)
AccountTypes == TableShape(accounts) /\ ChannelShape(channels) /\ CallerShape(caller)

\* No SID waits for the helper twice, and the answers are of other SIDs.
Apart(c) ==
    /\ \A i, j \in DOMAIN c.jobs : c.jobs[i] = c.jobs[j] => i = j
    /\ \A i, j \in DOMAIN c.done : c.done[i].sid = c.done[j].sid => i = j
    /\ \A i \in DOMAIN c.jobs, j \in DOMAIN c.done : c.jobs[i] # c.done[j].sid
    /\ \A i \in DOMAIN c.jobs : c.jobs[i] # c.running
    /\ \A i \in DOMAIN c.done : c.done[i].sid # c.running
OnTheWay(c) ==
    ({c.running} \ {NoSid}) \cup {c.jobs[i] : i \in DOMAIN c.jobs} \cup {c.done[i].sid : i \in DOMAIN c.done}
TimeoutsOnce ==
    /\ caller.timeouts <= 1 /\ (caller.timeouts = 1 => accounts.stalled)
    /\ caller.pc = "wait" => ~accounts.stalled

AccountInv == AccountTypes /\ Apart(channels) /\ accounts.asked = OnTheWay(channels) /\ TimeoutsOnce

\* Fields of the records replaced.
LEMMA TableFields ==
  ASSUME NEW f, NEW g, NEW h, NEW x, NEW a, a = [cache |-> f, asked |-> g, stalled |-> h],
         NEW b, b = [a EXCEPT !.stalled = x]
  PROVE  b = [cache |-> f, asked |-> g, stalled |-> x]
OBVIOUS
\* The same of the channels.
LEMMA TakenFields ==
  ASSUME NEW f, NEW g, NEW h, NEW x, NEW y, NEW c, c = [jobs |-> f, running |-> g, done |-> h],
         NEW d, d = [c EXCEPT !.running = x, !.jobs = y]
  PROVE  d = [jobs |-> y, running |-> x, done |-> h]
OBVIOUS
\* The same of an answer sent.
LEMMA AnsweredFields ==
  ASSUME NEW f, NEW g, NEW h, NEW x, NEW y, NEW c, c = [jobs |-> f, running |-> g, done |-> h],
         NEW d, d = [c EXCEPT !.running = x, !.done = y]
  PROVE  d = [jobs |-> f, running |-> x, done |-> y]
OBVIOUS
\* The same of a call that begins.
LEMMA CallFields ==
  ASSUME NEW f, NEW g, NEW h, NEW t, NEW x, NEW y, NEW z,
         NEW c, c = [pc |-> f, sid |-> g, calls |-> h, timeouts |-> t],
         NEW d, d = [c EXCEPT !.pc = x, !.sid = y, !.calls = z]
  PROVE  d = [pc |-> x, sid |-> y, calls |-> z, timeouts |-> t]
OBVIOUS
\* The same of a call that ends with a timeout.
LEMMA ReturnFields ==
  ASSUME NEW f, NEW g, NEW h, NEW t, NEW x, NEW y, NEW z,
         NEW c, c = [pc |-> f, sid |-> g, calls |-> h, timeouts |-> t],
         NEW d, d = [c EXCEPT !.pc = x, !.sid = y], NEW e, e = [d EXCEPT !.timeouts = z]
  PROVE  /\ d = [pc |-> x, sid |-> y, calls |-> h, timeouts |-> t]
         /\ e = [pc |-> x, sid |-> y, calls |-> h, timeouts |-> z]
<1>1. d = [pc |-> x, sid |-> y, calls |-> h, timeouts |-> t]
  OBVIOUS
<1> QED BY <1>1

\* The records of the invariant have their fields.
LEMMA RecordsOK ==
  ASSUME AccountInv
  PROVE  /\ accounts = [cache |-> accounts.cache, asked |-> accounts.asked, stalled |-> accounts.stalled]
         /\ channels = [jobs |-> channels.jobs, running |-> channels.running, done |-> channels.done]
         /\ caller = [pc |-> caller.pc, sid |-> caller.sid, calls |-> caller.calls, timeouts |-> caller.timeouts]
BY DEF AccountInv, AccountTypes, TableShape, ChannelShape, CallerShape, Callers

\* store keeps the cache's cap: a full one is cleared.
LEMMA StoreNameOK ==
  ASSUME NEW a, IsFiniteSet(DOMAIN a.cache), Cardinality(DOMAIN a.cache) <= AccountCap, NEW answer
  PROVE  LET b == StoreName(a, answer)
         IN /\ b = [cache |-> b.cache, asked |-> a.asked \ {answer.sid}, stalled |-> FALSE]
            /\ IsFiniteSet(DOMAIN b.cache) /\ Cardinality(DOMAIN b.cache) <= AccountCap
<1>1. PICK kept : kept = IF Cardinality(DOMAIN a.cache) >= AccountCap THEN <<>> ELSE a.cache
  OBVIOUS
<1>2. PICK K : K = DOMAIN kept
  OBVIOUS
<1>3. IsFiniteSet(K) /\ Cardinality(K) < AccountCap
  <2>1. CASE Cardinality(DOMAIN a.cache) >= AccountCap
    <3>1. K = {}
      BY <1>1, <1>2, <2>1
    <3> QED BY <3>1, FS_EmptySet, LookupsAssumption
  <2>2. CASE ~(Cardinality(DOMAIN a.cache) >= AccountCap)
    <3>1. K = DOMAIN a.cache
      BY <1>1, <1>2, <2>2
    <3>2. Cardinality(K) \in Nat
      BY <3>1, FS_CardinalityType
    <3> QED BY <2>2, <3>1, <3>2, LookupsAssumption
  <2> QED BY <2>1, <2>2
<1>4. PICK s : s = answer.sid
  OBVIOUS
<1>5. PICK b : b = StoreName(a, answer)
  OBVIOUS
<1>6. PICK f : f = [x \in DOMAIN kept \cup {s} |-> IF x = s THEN answer.known ELSE kept[x]]
  OBVIOUS
<1>7. b = [cache |-> f, asked |-> a.asked \ {s}, stalled |-> FALSE]
  BY <1>1, <1>4, <1>5, <1>6 DEF StoreName
<1>8. DOMAIN f = K \cup {s}
  BY <1>2, <1>6
<1>9. PICK L : L = K \cup {s}
  OBVIOUS
<1>10. IsFiniteSet(L) /\ Cardinality(L) <= Cardinality(K) + 1
  <2>1. CASE s \in K
    <3>1. L = K
      BY <1>9, <2>1
    <3>2. Cardinality(K) \in Nat
      BY <1>3, FS_CardinalityType
    <3> QED BY <1>3, <3>1, <3>2
  <2>2. CASE s \notin K
    <3>1. IsFiniteSet(L) /\ Cardinality(L) = Cardinality(K) + 1
      BY <1>3, <1>9, <2>2, FS_AddElement
    <3>2. Cardinality(L) \in Nat
      BY <3>1, FS_CardinalityType
    <3> QED BY <3>1, <3>2
  <2> QED BY <2>1, <2>2
<1>11. Cardinality(L) <= AccountCap
  <2>1. Cardinality(L) \in Nat /\ Cardinality(K) \in Nat
    BY <1>3, <1>10, FS_CardinalityType
  <2> QED BY <1>3, <1>10, <2>1, LookupsAssumption
<1> QED BY <1>4, <1>5, <1>7, <1>8, <1>9, <1>10, <1>11

\* An answer taken from the channel: its SID is no longer on the way.
LEMMA StoresOK ==
  ASSUME AccountInv, Stores
  PROVE  /\ accounts' = [cache |-> accounts'.cache, asked |-> accounts'.asked, stalled |-> FALSE]
         /\ accounts'.asked \subseteq Sids
         /\ IsFiniteSet(DOMAIN accounts'.cache) /\ Cardinality(DOMAIN accounts'.cache) <= AccountCap
         /\ channels' = [jobs |-> channels.jobs, running |-> channels.running, done |-> channels'.done]
         /\ channels'.done \in Seq(Answers)
         /\ Apart(channels') /\ accounts'.asked = OnTheWay(channels')
<1>1. PICK done : done = channels.done
  OBVIOUS
<1>2. PICK h, rest : h = Head(done) /\ rest = Tail(done)
  OBVIOUS
<1>3. done \in Seq(Answers) /\ done # <<>>
  BY <1>1 DEF AccountInv, AccountTypes, ChannelShape, Stores
<1>4. /\ rest \in Seq(Answers) /\ Len(rest) = Len(done) - 1 /\ h = done[1] /\ Len(done) \in Nat /\ Len(done) >= 1
      /\ \A i \in 1..Len(done) - 1 : rest[i] = done[i + 1]
      /\ DOMAIN rest = 1..Len(done) - 1 /\ DOMAIN done = 1..Len(done)
  BY <1>2, <1>3
<1>5. accounts' = StoreName(accounts, h) /\ channels' = [channels EXCEPT !.done = rest]
  BY <1>1, <1>2 DEF Stores
<1>6. /\ accounts' = [cache |-> accounts'.cache, asked |-> accounts.asked \ {h.sid}, stalled |-> FALSE]
      /\ IsFiniteSet(DOMAIN accounts'.cache) /\ Cardinality(DOMAIN accounts'.cache) <= AccountCap
  <2>1. PICK b : b = StoreName(accounts, h)
    OBVIOUS
  <2>2. /\ b = [cache |-> b.cache, asked |-> accounts.asked \ {h.sid}, stalled |-> FALSE]
        /\ IsFiniteSet(DOMAIN b.cache) /\ Cardinality(DOMAIN b.cache) <= AccountCap
    BY <2>1, StoreNameOK DEF AccountInv, AccountTypes, TableShape
  <2> QED BY <1>5, <2>1, <2>2
<1>7. accounts'.asked = accounts.asked \ {h.sid}
  BY <1>6
<1>8. channels' = [jobs |-> channels.jobs, running |-> channels.running, done |-> rest]
  BY <1>5 DEF AccountInv, AccountTypes, ChannelShape
<1>9. channels'.jobs = channels.jobs /\ channels'.running = channels.running /\ channels'.done = rest
  BY <1>8
<1>10. \A i \in DOMAIN rest : i + 1 \in DOMAIN done /\ rest[i] = done[i + 1]
  BY <1>4
<1>11. Apart(channels')
  <2>1. Apart(channels)
    BY DEF AccountInv
  <2>2. \A i, j \in DOMAIN rest : rest[i].sid = rest[j].sid => i = j
    <3> SUFFICES ASSUME NEW i \in DOMAIN rest, NEW j \in DOMAIN rest, rest[i].sid = rest[j].sid PROVE i = j
      OBVIOUS
    <3>1. i + 1 = j + 1
      BY <1>1, <1>10, <2>1 DEF Apart
    <3> QED BY <1>4, <3>1
  <2> QED BY <1>1, <1>9, <1>10, <2>1, <2>2 DEF Apart
<1>12. accounts'.asked = OnTheWay(channels')
  <2>1. Apart(channels) /\ accounts.asked = OnTheWay(channels)
    BY DEF AccountInv
  <2>2. PICK J : J = {channels.jobs[i] : i \in DOMAIN channels.jobs}
    OBVIOUS
  <2>3. h.sid \notin J /\ h.sid # channels.running
    BY <1>1, <1>4, <2>1, <2>2 DEF Apart
  <2>4. {done[i].sid : i \in DOMAIN done} \ {h.sid} = {rest[i].sid : i \in DOMAIN rest}
    <3>1. ASSUME NEW i \in DOMAIN done, done[i].sid # h.sid PROVE \E j \in DOMAIN rest : rest[j].sid = done[i].sid
      <4>1. i # 1
        BY <1>4, <3>1
      <4>2. i - 1 \in DOMAIN rest /\ rest[i - 1] = done[i]
        BY <1>4, <4>1
      <4> QED BY <4>2
    <3>2. ASSUME NEW i \in DOMAIN rest PROVE rest[i].sid # h.sid /\ \E j \in DOMAIN done : done[j].sid = rest[i].sid
      <4>1. i + 1 \in DOMAIN done /\ i + 1 # 1 /\ 1 \in DOMAIN done
        BY <1>4
      <4> QED BY <1>1, <1>4, <1>10, <2>1, <4>1 DEF Apart
    <3> QED BY <3>1, <3>2
  <2>5. accounts.asked = ({channels.running} \ {NoSid}) \cup J \cup {done[i].sid : i \in DOMAIN done}
    BY <1>1, <2>1, <2>2 DEF OnTheWay
  <2>6. OnTheWay(channels') = ({channels.running} \ {NoSid}) \cup J \cup {rest[i].sid : i \in DOMAIN rest}
    BY <1>9, <2>2 DEF OnTheWay
  <2> QED BY <1>7, <2>3, <2>4, <2>5, <2>6
<1>13. accounts' = [cache |-> accounts'.cache, asked |-> accounts'.asked, stalled |-> FALSE]
  BY <1>6, <1>7
<1>14. accounts'.asked \subseteq Sids
  BY <1>7 DEF AccountInv, AccountTypes, TableShape
<1> QED BY <1>4, <1>6, <1>8, <1>9, <1>11, <1>12, <1>13, <1>14

\* The same, as the shapes of the invariant.
LEMMA StoresShape ==
  ASSUME AccountInv, Stores
  PROVE  /\ TableShape(accounts') /\ ChannelShape(channels') /\ accounts'.stalled = FALSE
         /\ Apart(channels') /\ accounts'.asked = OnTheWay(channels')
<1>1. PICK a, c : a = accounts' /\ c = channels'
  OBVIOUS
<1>2. /\ a = [cache |-> a.cache, asked |-> a.asked, stalled |-> FALSE]
      /\ a.asked \subseteq Sids
      /\ IsFiniteSet(DOMAIN a.cache) /\ Cardinality(DOMAIN a.cache) <= AccountCap
      /\ c = [jobs |-> channels.jobs, running |-> channels.running, done |-> c.done]
      /\ c.done \in Seq(Answers)
      /\ Apart(c) /\ a.asked = OnTheWay(c)
  BY <1>1, StoresOK
<1>3. a.stalled = FALSE /\ c.jobs = channels.jobs /\ c.running = channels.running
  BY <1>2
<1>4. TableShape(a)
  BY <1>2, <1>3 DEF TableShape
<1>5. ChannelShape(c)
  BY <1>2, <1>3 DEF AccountInv, AccountTypes, ChannelShape
<1> QED BY <1>1, <1>2, <1>3, <1>4, <1>5

\* Draining: the next answer is stored, whichever SID it is of.
LEMMA DrainInv == ASSUME AccountInv, Drain PROVE AccountInv'
<1>1. Stores /\ caller' = [caller EXCEPT !.timeouts = 0] /\ caller.pc = "drain"
  BY DEF Drain
<1>2. PICK c : c = [caller EXCEPT !.timeouts = 0]
  OBVIOUS
<1>3. CallerShape(c) /\ c.timeouts = 0 /\ c.pc = "drain"
  BY <1>1, <1>2 DEF AccountInv, AccountTypes, CallerShape, Callers
<1>4. /\ TableShape(accounts') /\ ChannelShape(channels')
      /\ Apart(channels') /\ accounts'.asked = OnTheWay(channels')
  BY <1>1, StoresShape
<1>5. caller' = c
  BY <1>1, <1>2
<1> QED BY <1>3, <1>4, <1>5 DEF AccountInv, AccountTypes, TimeoutsOnce

\* Waiting: the answer awaited ends the call, another is stored meanwhile.
LEMMA WaitAnsweredInv == ASSUME AccountInv, WaitAnswered PROVE AccountInv'
<1>1. /\ Stores /\ caller.pc = "wait"
      /\ caller' = [(IF Head(channels.done).sid = caller.sid THEN Returned ELSE caller) EXCEPT !.timeouts = 0]
  BY DEF WaitAnswered
<1>2. PICK c : c = [(IF Head(channels.done).sid = caller.sid THEN Returned ELSE caller) EXCEPT !.timeouts = 0]
  OBVIOUS
<1>3. CallerShape(c) /\ c.timeouts = 0
  <2>1. CASE Head(channels.done).sid = caller.sid
    <3>1. c = [Returned EXCEPT !.timeouts = 0]
      BY <1>2, <2>1
    <3> QED BY <3>1 DEF Returned, AccountInv, AccountTypes, CallerShape, Callers
  <2>2. CASE Head(channels.done).sid # caller.sid
    <3>1. c = [caller EXCEPT !.timeouts = 0]
      BY <1>2, <2>2
    <3> QED BY <3>1 DEF AccountInv, AccountTypes, CallerShape, Callers
  <2> QED BY <2>1, <2>2
<1>4. /\ TableShape(accounts') /\ ChannelShape(channels') /\ accounts'.stalled = FALSE
      /\ Apart(channels') /\ accounts'.asked = OnTheWay(channels')
  BY <1>1, StoresShape
<1>5. caller' = c
  BY <1>1, <1>2
<1> QED BY <1>3, <1>4, <1>5 DEF AccountInv, AccountTypes, TimeoutsOnce

\* A timeout: no later call waits until an answer comes.
LEMMA WaitTimesOutInv == ASSUME AccountInv, WaitTimesOut PROVE AccountInv'
<1>1. /\ caller.pc = "wait" /\ channels' = channels
      /\ accounts' = [accounts EXCEPT !.stalled = TRUE]
      /\ caller' = [Returned EXCEPT !.timeouts = @ + 1]
  BY DEF WaitTimesOut
<1>2. caller.timeouts = 0
  BY <1>1 DEF AccountInv, AccountTypes, CallerShape, Callers, TimeoutsOnce
<1>3. PICK k : k = [pc |-> "idle", sid |-> NoSid, calls |-> caller.calls, timeouts |-> 1]
  OBVIOUS
<1>4. caller' = k
  <2>1. PICK n, r : n = Returned.timeouts + 1 /\ r = [caller EXCEPT !.pc = "idle", !.sid = NoSid]
    OBVIOUS
  <2>2. PICK e : e = [r EXCEPT !.timeouts = n]
    OBVIOUS
  <2>3. caller' = e
    BY <1>1, <2>1, <2>2 DEF Returned
  <2>4. e = [pc |-> "idle", sid |-> NoSid, calls |-> caller.calls, timeouts |-> n]
    BY <2>1, <2>2, RecordsOK, ReturnFields
  <2>5. n = 1
    <3>1. r = [pc |-> "idle", sid |-> NoSid, calls |-> caller.calls, timeouts |-> caller.timeouts]
      BY <2>1, RecordsOK, ReturnFields
    <3>2. r = Returned
      BY <2>1 DEF Returned
    <3>3. r.timeouts = 0
      BY <1>2, <3>1
    <3> QED BY <2>1, <3>2, <3>3
  <2> QED BY <1>3, <2>3, <2>4, <2>5
<1>5. CallerShape(k)
  BY <1>3 DEF AccountInv, AccountTypes, CallerShape, Callers
<1>6. PICK a : a = [cache |-> accounts.cache, asked |-> accounts.asked, stalled |-> TRUE]
  OBVIOUS
<1>7. accounts' = a
  <2>1. PICK b : b = accounts'
    OBVIOUS
  <2>2. b = [accounts EXCEPT !.stalled = TRUE]
    BY <1>1, <2>1
  <2>3. b = [cache |-> accounts.cache, asked |-> accounts.asked, stalled |-> TRUE]
    BY <2>2, RecordsOK, TableFields
  <2> QED BY <1>6, <2>1, <2>3
<1>8. TableShape(a) /\ a.asked = accounts.asked /\ a.stalled
  BY <1>6 DEF AccountInv, AccountTypes, TableShape
<1>9. k.timeouts = 1 /\ k.pc = "idle"
  BY <1>3
<1>10. AccountTypes'
  BY <1>1, <1>4, <1>5, <1>7, <1>8 DEF AccountInv, AccountTypes
<1>11. TimeoutsOnce'
  BY <1>4, <1>7, <1>8, <1>9 DEF TimeoutsOnce
<1>12. Apart(channels') /\ accounts'.asked = OnTheWay(channels')
  <2>1. Apart(channels) /\ accounts.asked = OnTheWay(channels)
    BY DEF AccountInv
  <2> QED BY <1>1, <1>7, <1>8, <2>1
<1> QED BY <1>10, <1>11, <1>12 DEF AccountInv

\* What is asked now was not on the way.
LEMMA AskInv == ASSUME AccountInv, NEW old \in BOOLEAN, Ask(old) PROVE AccountInv'
<1>1. PICK sid, a, asks :
        /\ sid = caller.sid /\ a = Expired(accounts, sid, old)
        /\ asks = (sid \notin DOMAIN a.cache /\ sid \notin a.asked)
  OBVIOUS
<1>2. /\ caller.pc = "drain" /\ channels.done = <<>>
      /\ accounts' = IF asks THEN [a EXCEPT !.asked = @ \cup {sid}] ELSE a
      /\ channels' = IF asks THEN [channels EXCEPT !.jobs = Append(@, sid)] ELSE channels
      /\ caller' = IF asks /\ Waits(a) THEN [caller EXCEPT !.pc = "wait"] ELSE Returned
  BY <1>1 DEF Ask
<1>3. sid \in Sids
  BY <1>1, <1>2 DEF AccountInv, AccountTypes, CallerShape
<1>4. /\ a = [cache |-> a.cache, asked |-> accounts.asked, stalled |-> accounts.stalled]
      /\ IsFiniteSet(DOMAIN a.cache) /\ Cardinality(DOMAIN a.cache) <= AccountCap
  <2>1. CASE ~old
    BY <1>1, <2>1 DEF Expired, AccountInv, AccountTypes, TableShape
  <2>2. CASE old
    <3>1. PICK C : C = Restrict(accounts.cache, DOMAIN accounts.cache \ {sid})
      OBVIOUS
    <3>2. a = [cache |-> C, asked |-> accounts.asked, stalled |-> accounts.stalled]
      BY <1>1, <2>2, <3>1 DEF Expired, AccountInv, AccountTypes, TableShape
    <3>3. PICK K, D : K = DOMAIN C /\ D = DOMAIN accounts.cache
      OBVIOUS
    <3>4. K = D \ {sid}
      BY <3>1, <3>3 DEF Restrict
    <3>5. IsFiniteSet(D) /\ Cardinality(D) <= AccountCap
      BY <3>3 DEF AccountInv, AccountTypes, TableShape
    <3>6. IsFiniteSet(K) /\ Cardinality(K) <= Cardinality(D)
      BY <3>4, <3>5, FS_Subset
    <3>7. Cardinality(K) \in Nat /\ Cardinality(D) \in Nat
      BY <3>5, <3>6, FS_CardinalityType
    <3> QED BY <3>2, <3>3, <3>5, <3>6, <3>7, LookupsAssumption
  <2> QED BY <2>1, <2>2
<1>5. a.asked = accounts.asked /\ a.stalled = accounts.stalled
  BY <1>4
<1>6. /\ accounts' = [cache |-> a.cache, asked |-> IF asks THEN accounts.asked \cup {sid} ELSE accounts.asked,
                      stalled |-> accounts.stalled]
  <2>1. CASE asks
    <3>1. PICK x : x = a.asked \cup {sid}
      OBVIOUS
    <3>2. accounts' = [a EXCEPT !.asked = x]
      BY <1>2, <2>1, <3>1
    <3>3. [a EXCEPT !.asked = x] = [cache |-> a.cache, asked |-> x, stalled |-> accounts.stalled]
      BY <1>4
    <3> QED BY <1>5, <2>1, <3>1, <3>2, <3>3
  <2>2. CASE ~asks
    BY <1>2, <1>4, <2>2
  <2> QED BY <2>1, <2>2
<1>7. /\ accounts'.cache = a.cache /\ accounts'.stalled = accounts.stalled
      /\ accounts'.asked = IF asks THEN accounts.asked \cup {sid} ELSE accounts.asked
  BY <1>6
<1>8. /\ CallerShape(caller') /\ caller'.timeouts = caller.timeouts
      /\ caller'.pc = "wait" => ~accounts.stalled
  <2>1. CallerShape(caller) /\ caller.pc = "drain"
    BY <1>2 DEF AccountInv, AccountTypes
  <2>2. PICK k : k = [caller EXCEPT !.pc = "wait"]
    OBVIOUS
  <2>3. CallerShape(k) /\ k.timeouts = caller.timeouts
    BY <2>1, <2>2 DEF CallerShape, Callers
  <2>4. CallerShape(Returned) /\ Returned.timeouts = caller.timeouts /\ Returned.pc = "idle"
    BY <2>1 DEF CallerShape, Callers, Returned
  <2>5. CASE asks /\ Waits(a)
    <3>1. caller' = k /\ ~accounts.stalled
      BY <1>2, <1>5, <2>2, <2>5 DEF Waits
    <3> QED BY <2>3, <3>1
  <2>6. CASE ~(asks /\ Waits(a))
    <3>1. caller' = Returned
      BY <1>2, <2>6
    <3> QED BY <2>4, <3>1
  <2> QED BY <2>5, <2>6
<1>9. TimeoutsOnce'
  BY <1>7, <1>8 DEF AccountInv, TimeoutsOnce
<1>13. TableShape(accounts')
  <2>1. PICK b : b = accounts'
    OBVIOUS
  <2>2. b = [cache |-> b.cache, asked |-> b.asked, stalled |-> b.stalled]
    BY <1>6, <2>1
  <2>3. b.cache = a.cache /\ b.stalled = accounts.stalled /\ b.asked \subseteq accounts.asked \cup {sid}
    BY <1>7, <2>1
  <2>4. TableShape(b)
    BY <1>3, <1>4, <2>2, <2>3 DEF AccountInv, AccountTypes, TableShape
  <2> QED BY <2>1, <2>4
<1>10. CASE ~asks
  <2>1. channels' = channels
    BY <1>2, <1>10
  <2>2. accounts'.asked = accounts.asked
    BY <1>7, <1>10
  <2>3. AccountTypes'
    BY <1>8, <1>13, <2>1 DEF AccountInv, AccountTypes
  <2> QED BY <1>9, <2>1, <2>2, <2>3 DEF AccountInv
<1>11. CASE asks
  <2>1. PICK jobs : jobs = channels.jobs
    OBVIOUS
  <2>2. jobs \in Seq(Sids) /\ sid \notin OnTheWay(channels)
    BY <1>1, <1>5, <1>11, <2>1 DEF AccountInv, AccountTypes, ChannelShape
  <2>3. PICK more : more = Append(jobs, sid)
    OBVIOUS
  <2>4. channels' = [jobs |-> more, running |-> channels.running, done |-> <<>>]
    BY <1>2, <1>11, <2>1, <2>3 DEF AccountInv, AccountTypes, ChannelShape
  <2>5. channels'.jobs = more /\ channels'.running = channels.running /\ channels'.done = <<>>
    BY <2>4
  <2>6. /\ more \in Seq(Sids) /\ DOMAIN jobs = 1..Len(jobs) /\ DOMAIN more = 1..Len(jobs) + 1 /\ Len(jobs) \in Nat
        /\ more[Len(jobs) + 1] = sid /\ \A i \in DOMAIN jobs : more[i] = jobs[i]
    BY <1>3, <2>2, <2>3
  <2>7. \A i \in DOMAIN jobs : jobs[i] # sid
    BY <2>1, <2>2 DEF OnTheWay
  <2>8. sid # channels.running
    BY <1>3, <2>2, LookupsAssumption DEF OnTheWay
  <2>9. Apart(channels')
    <3>1. Apart(channels) /\ channels.done = <<>>
      BY <1>2 DEF AccountInv
    <3>2. \A i \in DOMAIN more : i \in DOMAIN jobs \/ i = Len(jobs) + 1
      BY <2>6
    <3>3. \A i, j \in DOMAIN more : more[i] = more[j] => i = j
      BY <2>1, <2>6, <2>7, <3>1, <3>2 DEF Apart
    <3>4. \A i \in DOMAIN more : more[i] # channels.running
      BY <2>1, <2>6, <2>8, <3>1, <3>2 DEF Apart
    <3> QED BY <2>5, <3>3, <3>4 DEF Apart
  <2>10. accounts'.asked = OnTheWay(channels')
    <3>1. accounts.asked = OnTheWay(channels)
      BY DEF AccountInv
    <3>2. {more[i] : i \in DOMAIN more} = {jobs[i] : i \in DOMAIN jobs} \cup {sid}
      <4>1. \A i \in DOMAIN more : i \in DOMAIN jobs \/ i = Len(jobs) + 1
        BY <2>6
      <4>2. Len(jobs) + 1 \in DOMAIN more /\ \A i \in DOMAIN jobs : i \in DOMAIN more
        BY <2>6
      <4>3. /\ \A i \in DOMAIN more : more[i] \in {jobs[j] : j \in DOMAIN jobs} \cup {sid}
            /\ \A i \in DOMAIN jobs : jobs[i] \in {more[j] : j \in DOMAIN more}
        BY <2>6, <4>1, <4>2
      <4>4. sid \in {more[j] : j \in DOMAIN more}
        BY <2>6, <4>2
      <4> QED BY <4>3, <4>4
    <3>3. accounts.asked = ({channels.running} \ {NoSid}) \cup {jobs[i] : i \in DOMAIN jobs}
                            \cup {channels.done[i].sid : i \in DOMAIN channels.done}
      BY <2>1, <3>1 DEF OnTheWay
    <3>4. OnTheWay(channels') = ({channels.running} \ {NoSid}) \cup {more[i] : i \in DOMAIN more}
                            \cup {channels.done[i].sid : i \in DOMAIN channels.done}
      <4>1. channels'.jobs = more /\ channels'.running = channels.running /\ channels'.done = channels.done
        BY <1>2, <2>5
      <4> QED BY <4>1 DEF OnTheWay
    <3> QED BY <1>7, <1>11, <3>2, <3>3, <3>4
  <2>11. AccountTypes'
    <3>1. PICK c : c = channels'
      OBVIOUS
    <3>2. c = [jobs |-> c.jobs, running |-> c.running, done |-> c.done]
      BY <2>4, <3>1
    <3>3. c.jobs = more /\ c.running = channels.running /\ c.done = <<>>
      BY <2>5, <3>1
    <3>4. ChannelShape(c)
      BY <2>6, <3>2, <3>3 DEF AccountInv, AccountTypes, ChannelShape
    <3> QED BY <1>8, <1>13, <3>1, <3>4 DEF AccountTypes
  <2> QED BY <1>9, <2>9, <2>10, <2>11 DEF AccountInv
<1> QED BY <1>10, <1>11

\* A call begins.
LEMMA CallNameInv == ASSUME AccountInv, NEW sid \in Sids, CallName(sid) PROVE AccountInv'
<1>1. PICK n : n = caller.calls + 1
  OBVIOUS
<1>2. PICK k : k = [pc |-> "drain", sid |-> sid, calls |-> n, timeouts |-> caller.timeouts]
  OBVIOUS
<1>3. caller' = k /\ accounts' = accounts /\ channels' = channels
  <2>1. caller' = [caller EXCEPT !.pc = "drain", !.sid = sid, !.calls = n]
    BY <1>1 DEF CallName
  <2>2. [caller EXCEPT !.pc = "drain", !.sid = sid, !.calls = n] = k
    <3>1. PICK e : e = [caller EXCEPT !.pc = "drain", !.sid = sid, !.calls = n]
      OBVIOUS
    <3>2. e = [pc |-> "drain", sid |-> sid, calls |-> n, timeouts |-> caller.timeouts]
      BY <3>1, RecordsOK, CallFields
    <3> QED BY <1>2, <3>1, <3>2
  <2> QED BY <2>1, <2>2 DEF CallName
<1>4. CallerShape(k) /\ k.timeouts = caller.timeouts /\ k.pc = "drain"
  BY <1>1, <1>2 DEF AccountInv, AccountTypes, CallerShape, Callers
<1> QED BY <1>3, <1>4 DEF AccountInv, AccountTypes, TimeoutsOnce

\* The helper takes the first SID asked.
LEMMA ResolveSidInv == ASSUME AccountInv, ResolveSid PROVE AccountInv'
<1>1. PICK jobs, done, h, rest : jobs = channels.jobs /\ done = channels.done /\ h = Head(jobs) /\ rest = Tail(jobs)
  OBVIOUS
<1>2. /\ channels.running = NoSid /\ jobs # <<>> /\ accounts' = accounts /\ caller' = caller
      /\ channels' = [channels EXCEPT !.running = h, !.jobs = rest]
  BY <1>1 DEF ResolveSid
<1>3. jobs \in Seq(Sids) /\ done \in Seq(Answers) /\ ChannelShape(channels) /\ Apart(channels)
  BY <1>1 DEF AccountInv, AccountTypes, ChannelShape
<1>4. /\ rest \in Seq(Sids) /\ h \in Sids /\ h = jobs[1] /\ Len(jobs) \in Nat /\ Len(jobs) >= 1
      /\ DOMAIN rest = 1..Len(jobs) - 1 /\ DOMAIN jobs = 1..Len(jobs)
      /\ \A i \in 1..Len(jobs) - 1 : rest[i] = jobs[i + 1]
  BY <1>1, <1>2, <1>3
<1>5. PICK c : c = [jobs |-> rest, running |-> h, done |-> done]
  OBVIOUS
<1>6. channels' = c
  <2>1. PICK d : d = channels'
    OBVIOUS
  <2>2. d = [channels EXCEPT !.running = h, !.jobs = rest]
    BY <1>2, <2>1
  <2>3. d = [jobs |-> rest, running |-> h, done |-> channels.done]
    BY <2>2, RecordsOK, TakenFields
  <2> QED BY <1>1, <1>5, <2>1, <2>3
<1>7. c.jobs = rest /\ c.running = h /\ c.done = done
  BY <1>5
<1>8. ChannelShape(c)
  BY <1>3, <1>4, <1>5, <1>7 DEF ChannelShape
<1>9. \A i \in DOMAIN rest : i + 1 \in DOMAIN jobs /\ i + 1 # 1 /\ rest[i] = jobs[i + 1]
  BY <1>4
<1>10. Apart(c)
  <2>1. \A i, j \in DOMAIN rest : rest[i] = rest[j] => i = j
    <3> SUFFICES ASSUME NEW i \in DOMAIN rest, NEW j \in DOMAIN rest, rest[i] = rest[j] PROVE i = j
      OBVIOUS
    <3>1. i + 1 = j + 1
      BY <1>1, <1>3, <1>9 DEF Apart
    <3> QED BY <1>4, <3>1
  <2>2. \A i \in DOMAIN rest : rest[i] # h
    BY <1>1, <1>3, <1>4, <1>9 DEF Apart
  <2>3. \A i \in DOMAIN done : done[i].sid # h
    BY <1>1, <1>3, <1>4 DEF Apart
  <2> QED BY <1>1, <1>3, <1>7, <1>9, <2>1, <2>2, <2>3 DEF Apart
<1>11. OnTheWay(c) = OnTheWay(channels)
  <2>1. {jobs[i] : i \in DOMAIN jobs} = {rest[i] : i \in DOMAIN rest} \cup {h}
    <3>1. ASSUME NEW i \in DOMAIN jobs, i # 1 PROVE \E j \in DOMAIN rest : rest[j] = jobs[i]
      <4>1. i - 1 \in DOMAIN rest /\ rest[i - 1] = jobs[i]
        BY <1>4, <3>1
      <4> QED BY <4>1
    <3>2. 1 \in DOMAIN jobs
      BY <1>4
    <3>3. \A i \in DOMAIN jobs : jobs[i] \in {rest[j] : j \in DOMAIN rest} \cup {h}
      BY <1>4, <3>1
    <3>4. \A i \in DOMAIN rest : rest[i] \in {jobs[j] : j \in DOMAIN jobs}
      BY <1>9
    <3>5. h \in {jobs[j] : j \in DOMAIN jobs}
      BY <1>4, <3>2
    <3> QED BY <3>3, <3>4, <3>5
  <2>2. h # NoSid
    BY <1>4, LookupsAssumption
  <2>3. OnTheWay(c) = ({h} \ {NoSid}) \cup {rest[i] : i \in DOMAIN rest} \cup {done[i].sid : i \in DOMAIN done}
    BY <1>7 DEF OnTheWay
  <2>4. OnTheWay(channels) = ({NoSid} \ {NoSid}) \cup {jobs[i] : i \in DOMAIN jobs} \cup {done[i].sid : i \in DOMAIN done}
    BY <1>1, <1>2 DEF OnTheWay
  <2> QED BY <2>1, <2>2, <2>3, <2>4
<1> QED BY <1>2, <1>6, <1>8, <1>10, <1>11 DEF AccountInv, AccountTypes, TimeoutsOnce

\* The helper sends its answer.
LEMMA SidResolvedInv == ASSUME AccountInv, NEW known \in BOOLEAN, SidResolved(known) PROVE AccountInv'
<1>1. PICK jobs, done, s, answer, more :
        /\ jobs = channels.jobs /\ done = channels.done /\ s = channels.running
        /\ answer = [sid |-> s, known |-> known] /\ more = Append(done, answer)
  OBVIOUS
<1>2. /\ s # NoSid /\ accounts' = accounts /\ caller' = caller
      /\ channels' = [channels EXCEPT !.running = NoSid, !.done = more]
  BY <1>1 DEF SidResolved
<1>3. /\ jobs \in Seq(Sids) /\ done \in Seq(Answers) /\ s \in Sids
      /\ ChannelShape(channels) /\ Apart(channels)
  BY <1>1, <1>2 DEF AccountInv, AccountTypes, ChannelShape
<1>4. answer \in Answers /\ answer.sid = s
  BY <1>1, <1>3 DEF Answers
<1>5. /\ more \in Seq(Answers) /\ Len(done) \in Nat
      /\ DOMAIN done = 1..Len(done) /\ DOMAIN more = 1..Len(done) + 1
      /\ more[Len(done) + 1] = answer /\ \A i \in DOMAIN done : more[i] = done[i]
  BY <1>1, <1>3, <1>4
<1>6. PICK c : c = [jobs |-> jobs, running |-> NoSid, done |-> more]
  OBVIOUS
<1>7. channels' = c
  <2>1. PICK d : d = channels'
    OBVIOUS
  <2>2. d = [channels EXCEPT !.running = NoSid, !.done = more]
    BY <1>2, <2>1
  <2>3. d = [jobs |-> channels.jobs, running |-> NoSid, done |-> more]
    BY <2>2, RecordsOK, AnsweredFields
  <2> QED BY <1>1, <1>6, <2>1, <2>3
<1>8. c.jobs = jobs /\ c.running = NoSid /\ c.done = more
  BY <1>6
<1>9. ChannelShape(c)
  BY <1>3, <1>5, <1>6, <1>8 DEF ChannelShape
<1>10. /\ \A i \in DOMAIN more : i \in DOMAIN done \/ i = Len(done) + 1
       /\ Len(done) + 1 \in DOMAIN more /\ \A i \in DOMAIN done : i \in DOMAIN more
  BY <1>5
<1>11. Apart(c)
  <2>1. \A i, j \in DOMAIN more : more[i].sid = more[j].sid => i = j
    BY <1>1, <1>3, <1>4, <1>5, <1>10 DEF Apart
  <2>2. \A i \in DOMAIN jobs, j \in DOMAIN more : jobs[i] # more[j].sid
    BY <1>1, <1>3, <1>4, <1>5, <1>10 DEF Apart
  <2>3. \A i \in DOMAIN jobs : jobs[i] # NoSid
    BY <1>3, LookupsAssumption
  <2>4. \A i \in DOMAIN more : more[i].sid # NoSid
    <3>1. \A i \in DOMAIN more : more[i] \in Answers
      BY <1>5
    <3> QED BY <3>1, LookupsAssumption DEF Answers
  <2> QED BY <1>1, <1>3, <1>8, <2>1, <2>2, <2>3, <2>4 DEF Apart
<1>12. OnTheWay(c) = OnTheWay(channels)
  <2>1. {more[i].sid : i \in DOMAIN more} = {done[i].sid : i \in DOMAIN done} \cup {s}
    BY <1>4, <1>5, <1>10
  <2>2. OnTheWay(c) = ({NoSid} \ {NoSid}) \cup {jobs[i] : i \in DOMAIN jobs} \cup {more[i].sid : i \in DOMAIN more}
    BY <1>8 DEF OnTheWay
  <2>3. OnTheWay(channels) = ({s} \ {NoSid}) \cup {jobs[i] : i \in DOMAIN jobs} \cup {done[i].sid : i \in DOMAIN done}
    BY <1>1 DEF OnTheWay
  <2> QED BY <1>2, <2>1, <2>2, <2>3
<1> QED BY <1>2, <1>7, <1>9, <1>11, <1>12 DEF AccountInv, AccountTypes, TimeoutsOnce

\* Every step of the account names.
LEMMA AccountInductive == ASSUME AccountInv, AccountNext PROVE AccountInv'
BY CallNameInv, AskInv, DrainInv, WaitAnsweredInv, WaitTimesOutInv, ResolveSidInv, SidResolvedInv DEF AccountNext

\* The first state.
LEMMA AccountFirst == ASSUME AccountInit PROVE AccountInv
<1>1. /\ accounts = [cache |-> <<>>, asked |-> {}, stalled |-> FALSE]
      /\ channels = [jobs |-> <<>>, running |-> NoSid, done |-> <<>>]
      /\ caller = [pc |-> "idle", sid |-> NoSid, calls |-> 0, timeouts |-> 0]
  BY DEF AccountInit
<1>2. accounts.cache = <<>> /\ accounts.asked = {} /\ accounts.stalled = FALSE
  BY <1>1
<1>3. channels.jobs = <<>> /\ channels.running = NoSid /\ channels.done = <<>>
  BY <1>1
<1>4. DOMAIN accounts.cache = {}
  BY <1>2
<1>5. IsFiniteSet(DOMAIN accounts.cache) /\ Cardinality(DOMAIN accounts.cache) <= AccountCap
  BY <1>4, FS_EmptySet, LookupsAssumption
<1>6. AccountTypes
  BY <1>1, <1>2, <1>3, <1>5 DEF AccountTypes, TableShape, ChannelShape, CallerShape, Callers
<1>7. Apart(channels) /\ OnTheWay(channels) = {}
  BY <1>3 DEF Apart, OnTheWay
<1>8. TimeoutsOnce
  BY <1>1 DEF TimeoutsOnce
<1> QED BY <1>2, <1>6, <1>7, <1>8 DEF AccountInv

\* No SID is twice among those in flight, and they are those asked.
LEMMA AccountsHold == ASSUME AccountInv PROVE AccountsOK
<1>1. PICK r, jobs, sids, all :
        /\ r = (IF channels.running = NoSid THEN <<>> ELSE <<channels.running>>) /\ jobs = channels.jobs
        /\ sids = [i \in DOMAIN channels.done |-> channels.done[i].sid] /\ all = r \o jobs \o sids
  OBVIOUS
<1>2. PICK done : done = channels.done
  OBVIOUS
<1>3. jobs \in Seq(Sids) /\ done \in Seq(Answers) /\ Apart(channels) /\ channels.running \in Sids \cup {NoSid}
  BY <1>1, <1>2 DEF AccountInv, AccountTypes, ChannelShape
<1>4. /\ r \in Seq(Sids) /\ Len(r) \in {0, 1}
      /\ (channels.running = NoSid => Len(r) = 0)
      /\ (channels.running # NoSid => Len(r) = 1 /\ r[1] = channels.running)
  <2>1. CASE channels.running = NoSid
    BY <1>1, <2>1
  <2>2. CASE channels.running # NoSid
    BY <1>1, <1>3, <2>2
  <2> QED BY <2>1, <2>2
<1>5. /\ sids \in Seq(Sids) /\ Len(sids) = Len(done) /\ \A i \in DOMAIN done : sids[i] = done[i].sid
      /\ DOMAIN sids = DOMAIN done
  <2>1. sids = [i \in 1..Len(done) |-> done[i].sid] /\ Len(done) \in Nat /\ DOMAIN done = 1..Len(done)
    BY <1>1, <1>2, <1>3
  <2>2. \A i \in 1..Len(done) : done[i].sid \in Sids
    <3>1. \A i \in 1..Len(done) : done[i] \in Answers
      BY <1>3, <2>1
    <3> QED BY <3>1 DEF Answers
  <2> QED BY <2>1, <2>2
<1>6. PICK n, m, k : n = Len(r) /\ m = Len(jobs) /\ k = Len(sids)
  OBVIOUS
<1>7. n \in {0, 1} /\ m \in Nat /\ k \in Nat
  BY <1>3, <1>4, <1>5, <1>6
<1>8. /\ all \in Seq(Sids) /\ DOMAIN all = 1..n + m + k
      /\ \A i \in 1..n : all[i] = r[i]
      /\ \A i \in 1..m : all[n + i] = jobs[i]
      /\ \A i \in 1..k : all[n + m + i] = sids[i]
  <2>1. PICK front : front = r \o jobs
    OBVIOUS
  <2>2. /\ front \in Seq(Sids) /\ Len(front) = n + m
        /\ \A i \in 1..n : front[i] = r[i]
        /\ \A i \in 1..m : front[n + i] = jobs[i]
    BY <1>3, <1>4, <1>6, <1>7, <2>1
  <2>3. all = front \o sids
    BY <1>1, <2>1
  <2>4. /\ all \in Seq(Sids) /\ Len(all) = n + m + k
        /\ \A i \in 1..n + m : all[i] = front[i]
        /\ \A i \in 1..k : all[n + m + i] = sids[i]
    <3>1. sids \in Seq(Sids) /\ front \in Seq(Sids)
      BY <1>5, <2>2
    <3>2. /\ all \in Seq(Sids) /\ Len(all) = Len(front) + Len(sids)
          /\ \A i \in 1..Len(front) : all[i] = front[i]
          /\ \A i \in 1..Len(sids) : all[Len(front) + i] = sids[i]
      BY <2>3, <3>1
    <3> QED BY <1>6, <2>2, <3>2
  <2>5. \A i \in 1..n : i \in 1..n + m
    BY <1>7
  <2>6. \A i \in 1..m : n + i \in 1..n + m
    BY <1>7
  <2> QED BY <2>2, <2>4, <2>5, <2>6
<1>9. InFlight = all
  BY <1>1 DEF InFlight
<1>10. DOMAIN jobs = 1..m /\ DOMAIN done = 1..k
  BY <1>3, <1>5, <1>6
<1>11. \A i \in 1..n + m + k :
          \/ i = 1 /\ n = 1
          \/ \E j \in 1..m : i = n + j
          \/ \E j \in 1..k : i = n + m + j
  <2> SUFFICES ASSUME NEW i \in 1..n + m + k PROVE
          \/ i = 1 /\ n = 1
          \/ \E j \in 1..m : i = n + j
          \/ \E j \in 1..k : i = n + m + j
    OBVIOUS
  <2>1. CASE i > n /\ i <= n + m
    <3>1. i - n \in 1..m /\ i = n + (i - n)
      BY <1>7, <2>1
    <3> QED BY <3>1
  <2>2. CASE i > n + m
    <3>1. i - n - m \in 1..k /\ i = n + m + (i - n - m)
      BY <1>7, <2>2
    <3> QED BY <3>1
  <2>3. CASE i <= n
    BY <1>7, <2>3
  <2> QED BY <1>7, <2>1, <2>2, <2>3
<1>12. n = 1 => all[1] = channels.running /\ channels.running # NoSid
  BY <1>4, <1>6, <1>8
<1>13. IsInjective(all)
  <2>1. SUFFICES ASSUME NEW i \in DOMAIN all, NEW j \in DOMAIN all, all[i] = all[j] PROVE i = j
    BY DEF IsInjective
  <2>2. \A x, y \in 1..m : jobs[x] = jobs[y] => x = y
    BY <1>1, <1>3, <1>10 DEF Apart
  <2>3. \A x, y \in 1..k : sids[x] = sids[y] => x = y
    BY <1>2, <1>3, <1>5, <1>10 DEF Apart
  <2>4. \A x \in 1..m, y \in 1..k : jobs[x] # sids[y]
    BY <1>1, <1>2, <1>3, <1>5, <1>10 DEF Apart
  <2>5. \A x \in 1..m : jobs[x] # channels.running
    BY <1>1, <1>3, <1>10 DEF Apart
  <2>6. \A x \in 1..k : sids[x] # channels.running
    BY <1>2, <1>3, <1>5, <1>10 DEF Apart
  <2>7. CASE i = 1 /\ n = 1
    <3>1. all[j] = channels.running
      BY <1>12, <2>1, <2>7
    <3> QED BY <1>8, <1>11, <2>5, <2>6, <2>7, <3>1
  <2>8. CASE \E x \in 1..m : i = n + x
    <3>1. PICK x \in 1..m : i = n + x
      BY <2>8
    <3>2. all[j] = jobs[x]
      BY <1>8, <2>1, <3>1
    <3> QED BY <1>8, <1>11, <1>12, <2>2, <2>4, <2>5, <3>1, <3>2
  <2>9. CASE \E x \in 1..k : i = n + m + x
    <3>1. PICK x \in 1..k : i = n + m + x
      BY <2>9
    <3>2. all[j] = sids[x]
      BY <1>8, <2>1, <3>1
    <3> QED BY <1>8, <1>11, <1>12, <2>3, <2>4, <2>6, <3>1, <3>2
  <2> QED BY <1>8, <1>11, <2>7, <2>8, <2>9
<1>14. Range(all) = accounts.asked
  <2>1. accounts.asked = ({channels.running} \ {NoSid}) \cup {jobs[i] : i \in 1..m} \cup {sids[i] : i \in 1..k}
    BY <1>1, <1>2, <1>5, <1>10 DEF AccountInv, OnTheWay
  <2>2. ASSUME NEW i \in DOMAIN all PROVE all[i] \in accounts.asked
    BY <1>8, <1>11, <1>12, <2>1
  <2>3. ASSUME NEW s \in accounts.asked PROVE \E i \in DOMAIN all : all[i] = s
    <3>1. CASE s = channels.running /\ s # NoSid
      BY <1>4, <1>6, <1>7, <1>8, <3>1
    <3>2. CASE \E i \in 1..m : s = jobs[i]
      <4>1. PICK i \in 1..m : s = jobs[i]
        BY <3>2
      <4>2. n + i \in DOMAIN all /\ all[n + i] = s
        BY <1>7, <1>8, <4>1
      <4> QED BY <4>2
    <3>3. CASE \E i \in 1..k : s = sids[i]
      <4>1. PICK i \in 1..k : s = sids[i]
        BY <3>3
      <4>2. n + m + i \in DOMAIN all /\ all[n + m + i] = s
        BY <1>7, <1>8, <4>1
      <4> QED BY <4>2
    <3> QED BY <2>1, <3>1, <3>2, <3>3
  <2> QED BY <2>2, <2>3 DEF Range
<1> QED BY <1>9, <1>13, <1>14 DEF AccountInv, AccountTypes, TableShape, TimeoutsOnce, AccountsOK

-----------------------------------------------------------------------------
(* Drive letters: the answer was right when the map was last read            *)

Maps == [drive : Nat, loaded : Nat, missed : Nat \cup {Never}]
\* The drive was the volume's when the map was read: it changed since, if at all.
Seen(m, drv) ==
    \E i \in DOMAIN drv.at : drv.was[i] = m.drive /\ (i < Len(drv.at) => drv.at[i + 1] >= m.loaded)
DrivesShape(drv) ==
    /\ drv = [at |-> drv.at, was |-> drv.was]
    /\ drv.at \in Seq(Nat) /\ drv.was \in Seq(Nat)
    /\ Len(drv.at) = Len(drv.was) /\ Len(drv.at) >= 1
MapOK(m, t) == m \in Maps /\ m.loaded <= t /\ m.missed <= m.loaded
DeviceInv ==
    /\ now \in Nat /\ DrivesShape(drives)
    /\ MapOK(devices, now) /\ Seen(devices, drives)

\* A map just read is right.
LEMMA ReloadedOK ==
  ASSUME DeviceInv, NEW m, MapOK(m, now) \/ (m \in Maps /\ m.loaded <= now /\ m.missed <= now)
  PROVE  MapOK(Reloaded(m), now) /\ Seen(Reloaded(m), drives) /\ Reloaded(m).missed = m.missed
                /\ Reloaded(m).drive = drives.was[Len(drives.at)]
<1>1. PICK at, was, n : at = drives.at /\ was = drives.was /\ n = Len(at)
  OBVIOUS
<1>2. at \in Seq(Nat) /\ was \in Seq(Nat) /\ Len(was) = n /\ n \in Nat /\ n >= 1 /\ now \in Nat
  BY <1>1 DEF DeviceInv, DrivesShape
<1>3. was[n] \in Nat /\ n \in DOMAIN at
  BY <1>1, <1>2
<1>4. m = [drive |-> m.drive, loaded |-> m.loaded, missed |-> m.missed] /\ m.missed \in Nat \cup {Never} /\ m.missed <= now
  BY <1>2 DEF MapOK, Maps, Never
<1>5. PICK r : r = Reloaded(m)
  OBVIOUS
<1>6. r = [drive |-> was[n], loaded |-> now, missed |-> m.missed]
  BY <1>1, <1>2, <1>4, <1>5 DEF Reloaded, Current
<1>7. r.drive = was[n] /\ r.loaded = now /\ r.missed = m.missed
  BY <1>6
<1>8. MapOK(r, now)
  BY <1>2, <1>3, <1>4, <1>6, <1>7 DEF MapOK, Maps
<1>9. Seen(r, drives)
  BY <1>1, <1>2, <1>3, <1>7 DEF Seen
<1> QED BY <1>1, <1>5, <1>7, <1>8, <1>9

\* What a lookup answers, and the map it leaves.
LEMMA LookedOK ==
  ASSUME DeviceInv
  PROVE  /\ MapOK(Looked, now) /\ Seen(Looked, drives)
         /\ Looked.loaded > now - Refresh \/ Looked.drive = drives.was[Len(drives.at)]
         /\ Looked.drive = NoDrive => \/ Looked.loaded > now - MissRefresh
                                      \/ drives.was[Len(drives.at)] = NoDrive
<1>1. PICK last : last = drives.was[Len(drives.at)]
  OBVIOUS
<1>2. now \in Nat /\ MapOK(devices, now) /\ Seen(devices, drives) /\ devices \in Maps
  BY DEF DeviceInv, MapOK
<1>3. Refresh \in Nat /\ Refresh > 0 /\ MissRefresh \in Nat /\ MissRefresh > 0
  BY LookupsAssumption
<1>4. PICK d : d = IF now - devices.loaded >= Refresh THEN Reloaded(devices) ELSE devices
  OBVIOUS
<1>5. /\ MapOK(d, now) /\ Seen(d, drives)
      /\ d.loaded > now - Refresh \/ d.drive = last
  <2>1. CASE now - devices.loaded >= Refresh
    BY <1>1, <1>2, <1>4, <2>1, ReloadedOK
  <2>2. CASE ~(now - devices.loaded >= Refresh)
    <3>1. d = devices /\ devices.loaded \in Nat
      BY <1>2, <1>4, <2>2 DEF Maps
    <3> QED BY <1>2, <1>3, <2>2, <3>1
  <2> QED BY <2>1, <2>2
<1>6. PICK missed, again :
        /\ missed = (d.drive = NoDrive)
        /\ again = (missed /\ (d.missed = Never \/ now - d.missed >= MissRefresh))
  OBVIOUS
<1>7. Looked = IF again THEN Reloaded([d EXCEPT !.missed = now]) ELSE d
  BY <1>4, <1>6 DEF Looked, MissedJustNow
<1>8. CASE again
  <2>1. PICK e : e = [d EXCEPT !.missed = now]
    OBVIOUS
  <2>2. e \in Maps /\ e.loaded <= now /\ e.missed <= now
    <3>1. d \in Maps /\ d.loaded <= now
      BY <1>5 DEF MapOK
    <3>2. e = [drive |-> d.drive, loaded |-> d.loaded, missed |-> now]
      BY <2>1, <3>1 DEF Maps
    <3> QED BY <1>2, <3>1, <3>2 DEF Maps
  <2>3. Looked = Reloaded(e)
    BY <1>7, <1>8, <2>1
  <2>4. MapOK(Looked, now) /\ Seen(Looked, drives) /\ Looked.drive = last
    BY <1>1, <2>2, <2>3, ReloadedOK
  <2> QED BY <1>1, <2>4
<1>9. CASE ~again
  <2>1. Looked = d
    BY <1>7, <1>9
  <2>2. ASSUME d.drive = NoDrive PROVE d.loaded > now - MissRefresh
    <3>1. d.missed # Never /\ ~(now - d.missed >= MissRefresh)
      BY <1>6, <1>9, <2>2
    <3>2. d.missed \in Nat /\ d.loaded \in Nat /\ d.missed <= d.loaded
      BY <1>5, <3>1 DEF MapOK, Maps
    <3> QED BY <1>2, <1>3, <3>1, <3>2
  <2> QED BY <1>1, <1>5, <2>1, <2>2
<1> QED BY <1>8, <1>9

\* A drive seen so lately was the volume's in the period.
LEMMA SeenHad ==
  ASSUME DeviceInv, NEW m, MapOK(m, now), Seen(m, drives), NEW period \in Nat \ {0},
         m.loaded > now - period \/ m.drive = drives.was[Len(drives.at)]
  PROVE  HadWithin(period, m.drive)
<1>1. drives.at \in Seq(Nat) /\ Len(drives.at) >= 1 /\ Len(drives.at) \in Nat /\ now \in Nat /\ m.loaded \in Nat
  BY DEF DeviceInv, DrivesShape, MapOK, Maps
<1>2. DOMAIN drives.at = 1..Len(drives.at)
  BY <1>1
<1>3. CASE m.drive = drives.was[Len(drives.at)]
  <2>1. Len(drives.at) \in DOMAIN drives.at
    BY <1>1, <1>2
  <2> QED BY <1>1, <1>3, <2>1 DEF HadWithin
<1>4. CASE m.loaded > now - period
  <2>1. PICK i \in DOMAIN drives.at : drives.was[i] = m.drive /\ (i < Len(drives.at) => drives.at[i + 1] >= m.loaded)
    BY DEF Seen
  <2>2. i < Len(drives.at) => drives.at[i + 1] > now - period
    <3>1. SUFFICES ASSUME i < Len(drives.at) PROVE drives.at[i + 1] > now - period
      OBVIOUS
    <3>2. i + 1 \in 1..Len(drives.at)
      BY <1>1, <1>2, <3>1
    <3>3. drives.at[i + 1] \in Nat
      BY <1>1, <3>2
    <3>4. PICK nxt, base : nxt = drives.at[i + 1] /\ base = now - period
      OBVIOUS
    <3>5. nxt >= m.loaded
      BY <2>1, <3>1, <3>4
    <3>6. base \in Int /\ m.loaded > base
      BY <1>1, <1>4, <3>4
    <3>7. nxt \in Int /\ base \in Int /\ m.loaded \in Int /\ nxt >= m.loaded /\ m.loaded > base
      BY <1>1, <3>3, <3>4, <3>5, <3>6
    <3>8. nxt > base
      BY <3>7
    <3> QED BY <3>4, <3>8
  <2> QED BY <2>1, <2>2 DEF HadWithin
<1> QED BY <1>3, <1>4

\* A lookup's answer is as new as the timer and the misses make it.
LEMMA DevicesHold == ASSUME DeviceInv PROVE DevicesOK
<1>1. PICK m : m = Looked
  OBVIOUS
<1>2. /\ MapOK(m, now) /\ Seen(m, drives)
      /\ m.loaded > now - Refresh \/ m.drive = drives.was[Len(drives.at)]
      /\ m.drive = NoDrive => m.loaded > now - MissRefresh \/ m.drive = drives.was[Len(drives.at)]
  BY <1>1, LookedOK
<1>3. Refresh \in Nat \ {0} /\ MissRefresh \in Nat \ {0}
  BY LookupsAssumption
<1>4. HadWithin(Refresh, m.drive)
  BY <1>2, <1>3, SeenHad
<1>5. m.drive = NoDrive => HadWithin(MissRefresh, m.drive)
  BY <1>2, <1>3, SeenHad
<1> QED BY <1>1, <1>4, <1>5 DEF DevicesOK

\* Time passes, the volume is mounted elsewhere, a path is looked up.
LEMMA DeviceInductive == ASSUME DeviceInv, DeviceNext PROVE DeviceInv'
<1>1. CASE TimePasses
  <2>1. now' = now + 1 /\ devices' = devices /\ drives' = drives
    BY <1>1 DEF TimePasses
  <2>2. now' \in Nat /\ MapOK(devices, now + 1)
    BY <2>1 DEF DeviceInv, MapOK, Maps
  <2> QED BY <2>1, <2>2 DEF DeviceInv
<1>2. CASE DosPath
  <2>1. devices' = Looked /\ drives' = drives /\ now' = now
    BY <1>2 DEF DosPath
  <2>2. PICK m : m = Looked
    OBVIOUS
  <2>3. MapOK(m, now) /\ Seen(m, drives)
    BY <2>2, LookedOK
  <2> QED BY <2>1, <2>2, <2>3 DEF DeviceInv
<1>3. CASE \E drive \in 0..2 : Mount(drive)
  <2>1. PICK drive \in 0..2 : Mount(drive)
    BY <1>3
  <2>2. PICK at, was, n : at = drives.at /\ was = drives.was /\ n = Len(at)
    OBVIOUS
  <2>3. PICK ats, wass : ats = Append(at, now) /\ wass = Append(was, drive)
    OBVIOUS
  <2>4. drives' = [at |-> ats, was |-> wass] /\ devices' = devices /\ now' = now
    BY <2>1, <2>2, <2>3 DEF Mount
  <2>5. /\ at \in Seq(Nat) /\ was \in Seq(Nat) /\ Len(was) = n /\ n \in Nat /\ n >= 1 /\ now \in Nat
        /\ MapOK(devices, now) /\ Seen(devices, drives)
    BY <2>2 DEF DeviceInv, DrivesShape
  <2>6. /\ ats \in Seq(Nat) /\ Len(ats) = n + 1 /\ DOMAIN ats = 1..n + 1 /\ DOMAIN at = 1..n
        /\ ats[n + 1] = now /\ \A i \in 1..n : ats[i] = at[i]
    BY <2>2, <2>3, <2>5
  <2>7. wass \in Seq(Nat) /\ Len(wass) = n + 1 /\ \A i \in 1..n : wass[i] = was[i]
    <3>1. drive \in Nat
      OBVIOUS
    <3> QED BY <2>3, <2>5, <3>1
  <2>8. PICK d : d = [at |-> ats, was |-> wass]
    OBVIOUS
  <2>9. d.at = ats /\ d.was = wass
    BY <2>8
  <2>10. DrivesShape(d)
    BY <2>5, <2>6, <2>7, <2>8, <2>9 DEF DrivesShape
  <2>11. Seen(devices, d)
    <3>1. PICK i \in 1..n : was[i] = devices.drive /\ (i < n => at[i + 1] >= devices.loaded)
      BY <2>2, <2>5, <2>6 DEF Seen
    <3>2. i \in DOMAIN d.at /\ d.was[i] = devices.drive
      <4>1. i \in 1..n + 1
        BY <2>5, <3>1
      <4>2. wass[i] = devices.drive
        BY <2>7, <3>1
      <4> QED BY <2>6, <2>9, <4>1, <4>2
    <3>3. i < n + 1 => ats[i + 1] >= devices.loaded
      <4>1. devices.loaded <= now
        BY <2>5 DEF MapOK
      <4>2. devices.loaded \in Nat
        BY <2>5 DEF MapOK, Maps
      <4>3. CASE i < n
        <5>1. i + 1 \in 1..n
          BY <2>5, <3>1, <4>3
        <5> QED BY <2>6, <3>1, <4>3, <5>1
      <4>4. CASE i = n
        BY <2>5, <2>6, <4>1, <4>2, <4>4
      <4> QED BY <2>5, <3>1, <4>3, <4>4
    <3> QED BY <2>6, <2>9, <3>2, <3>3 DEF Seen
  <2> QED BY <2>4, <2>5, <2>8, <2>10, <2>11 DEF DeviceInv
<1> QED BY <1>1, <1>2, <1>3 DEF DeviceNext

\* The first state: no drive, nothing missed.
LEMMA DeviceFirst == ASSUME DeviceInit PROVE DeviceInv
<1>1. /\ now = 0 /\ drives = [at |-> <<0>>, was |-> <<NoDrive>>]
      /\ devices = [drive |-> NoDrive, loaded |-> 0, missed |-> Never]
  BY DEF DeviceInit
<1>2. PICK at, was : at = <<0>> /\ was = <<NoDrive>>
  OBVIOUS
<1>3. at \in Seq(Nat) /\ was \in Seq(Nat) /\ Len(at) = 1 /\ Len(was) = 1 /\ was[1] = NoDrive /\ DOMAIN at = 1..1
  BY <1>2 DEF NoDrive
<1>4. drives.at = at /\ drives.was = was /\ drives = [at |-> at, was |-> was]
  BY <1>1, <1>2
<1>5. DrivesShape(drives)
  <2>1. PICK d : d = [at |-> at, was |-> was]
    OBVIOUS
  <2>2. d.at = at /\ d.was = was
    BY <2>1
  <2>3. DrivesShape(d)
    <3>1. d = [at |-> d.at, was |-> d.was]
      BY <2>1, <2>2
    <3>2. Len(at) = Len(was) /\ Len(at) >= 1
      BY <1>3
    <3>3. at \in Seq(Nat) /\ was \in Seq(Nat)
      BY <1>3
    <3> QED BY <2>2, <3>1, <3>2, <3>3 DEF DrivesShape
  <2> QED BY <1>4, <2>1, <2>3
<1>6. MapOK(devices, now)
  BY <1>1 DEF MapOK, Maps, NoDrive, Never
<1>7. Seen(devices, drives)
  BY <1>1, <1>3, <1>4 DEF Seen
<1> QED BY <1>1, <1>5, <1>6, <1>7 DEF DeviceInv

-----------------------------------------------------------------------------

LookupsInv == AccountInv /\ DeviceInv

\* The names leave the drives alone, and the drives the names.
LEMMA LookupsStep == ASSUME LookupsInv, AccountNext \/ DeviceNext PROVE LookupsInv'
<1>1. CASE AccountNext
  <2>1. UNCHANGED deviceVars
    BY <1>1 DEF AccountNext, CallName, Ask, Drain, WaitAnswered, WaitTimesOut, ResolveSid, SidResolved
  <2>2. DeviceInv'
    BY <2>1 DEF LookupsInv, DeviceInv, deviceVars
  <2>3. AccountInv'
    BY <1>1, AccountInductive DEF LookupsInv
  <2> QED BY <2>2, <2>3 DEF LookupsInv
<1>2. CASE DeviceNext
  <2>1. UNCHANGED accountVars
    BY <1>2 DEF DeviceNext, TimePasses, DosPath, Mount
  <2>2. AccountInv'
    BY <2>1 DEF LookupsInv, AccountInv, AccountTypes, TimeoutsOnce, accountVars
  <2>3. DeviceInv'
    BY <1>2, DeviceInductive DEF LookupsInv
  <2> QED BY <2>2, <2>3 DEF LookupsInv
<1> QED BY <1>1, <1>2

\* The account names' channels and the drive letters' map, in every state:
\* each SID asked is on its way once, one timeout is waited out per stall, the
\* cache keeps its cap, and a drive answered was the volume's within the timer
\* (Accounts::name, DeviceMap::dos_path).
THEOREM LookupsAlwaysOK == LookupsSpec => []LookupsOK
<1>1. AccountInit /\ DeviceInit => LookupsInv
  BY AccountFirst, DeviceFirst DEF LookupsInv
<1>2. LookupsInv /\ [AccountNext \/ DeviceNext]_<<accountVars, deviceVars>> => LookupsInv'
  <2>1. SUFFICES ASSUME LookupsInv, UNCHANGED <<accountVars, deviceVars>> PROVE LookupsInv'
    BY LookupsStep
  <2> QED BY <2>1 DEF LookupsInv, AccountInv, AccountTypes, TimeoutsOnce, DeviceInv, accountVars, deviceVars
<1>3. LookupsInv => LookupsOK
  BY AccountsHold, DevicesHold DEF LookupsInv, LookupsOK
<1> QED BY <1>1, <1>2, <1>3, PTL DEF LookupsSpec

-----------------------------------------------------------------------------
(* The seeder: its helper, its budget and whose turn it is                   *)

SeederPCs == {"recv", "serve", "snapshot", "first", "second"}
Requests == [kind : HandleKinds, startup : BOOLEAN]
Turns == [kind : HandleKinds, since : Nat, passed : {0, 1}]
Charges == [at : Nat, cpu : 1..MaxCpu, before : Nat]
Snapshooters == [pc : SeederPCs, kind : HandleKinds \cup {"none"}, left : Nat, asked : Nat,
                 got : SUBSET (Nat \X Nat), charged : BOOLEAN, wake : Nat]

Naming(s) == s.pc \in {"first", "second"}
\* The one handle asked is with the helper or answered; nothing else is.
HelperOK(s, h) ==
    /\ h = [jobs |-> h.jobs, answers |-> h.answers]
    /\ ~Naming(s) => h.jobs = <<>> /\ h.answers = <<>>
    /\ Naming(s) => \/ h.jobs = <<s.asked>> /\ h.answers = <<>>
                    \/ h.jobs = <<>> /\ h.answers = <<s.asked>>
    /\ Naming(s) => s.left > 0
    /\ \A pair \in s.got : pair[1] = pair[2]
\* A handle is asked only while a helper more may hang.
StuckOK(s, k) ==
    /\ k \in [hung : Nat, back : Nat] /\ k.hung + k.back <= MaxStuck
    /\ Naming(s) => k.hung + k.back < MaxStuck

\* The charges in their order, each with the total before it.
SpentOK(sp, c) ==
    /\ sp \in Seq(Charges)
    /\ \A i \in DOMAIN sp : sp[i].at <= c
    /\ \A i, j \in DOMAIN sp : i < j => sp[i].at <= sp[j].at /\ Upto(sp[i]) <= sp[j].before
Kept(sp) ==
    \A i, j \in DOMAIN sp :
        i <= j /\ sp[j].at - sp[i].at < CpuWindow => Upto(sp[j]) - sp[i].before < CpuLimit + MaxCpu
Taking(s) == s.charged /\ s.pc \in {"snapshot", "first", "second"}
\* A re-read was begun below the limit.
Begun(s, sp) == Taking(s) /\ sp # <<>> => SpentNow(sp) < CpuLimit

\* A kind that waits: nothing was taken since it came, or one snapshot within
\* the window after; the wake-up is when the oldest charge leaves the window.
TurnOK(turn, i, sp, c) ==
    /\ turn.passed = 0 => c <= turn.since + CpuWindow /\ \A j \in DOMAIN sp : sp[j].at <= turn.since
    /\ turn.passed = 1 => /\ i = 1 /\ c <= turn.since + 2 * CpuWindow
                          /\ \A j \in DOMAIN sp : sp[j].at <= turn.since + CpuWindow
TurnsOK(s, rr, sp, c) ==
    /\ rr \in Seq(Turns)
    /\ \A i, j \in DOMAIN rr : rr[i].kind = rr[j].kind => i = j
    /\ \A i \in DOMAIN rr : rr[i].since <= c /\ TurnOK(rr[i], i, sp, c)
    /\ Taking(s) => \A i \in DOMAIN rr : rr[i].passed = 1 /\ c <= rr[i].since + CpuWindow
    /\ s.pc = "recv" /\ rr # <<>> => sp # <<>> /\ s.wake = sp[1].at + CpuWindow /\ c <= s.wake

RequestsOK(r) == r = [jobs |-> r.jobs, sent |-> r.sent, drops |-> r.drops] /\ r.jobs \in Seq(Requests)
SeederInv ==
    /\ clock \in Nat /\ seeder \in Snapshooters /\ RequestsOK(requests)
    /\ HelperOK(seeder, helper) /\ StuckOK(seeder, stuck)
    /\ SpentOK(spent, clock) /\ Kept(spent) /\ Begun(seeder, spent)
    /\ TurnsOK(seeder, rereads, spent, clock)

\* The limits are positive.
LEMMA LimitsOK ==
  /\ CpuLimit \in Nat \ {0} /\ CpuWindow \in Nat \ {0} /\ MaxCpu \in Nat \ {0} /\ MaxStuck \in Nat \ {0}
  /\ MaxHandles \in Nat
BY SeederAssumption

\* A charge has its fields.
LEMMA ChargeOK ==
  ASSUME NEW c \in Charges
  PROVE  c.at \in Nat /\ c.cpu \in 1..MaxCpu /\ c.before \in Nat /\ Upto(c) = c.before + c.cpu /\ Upto(c) \in Nat
BY LimitsOK DEF Charges, Upto

\* What a charge adds keeps the totals in order.
LEMMA AppendSpent ==
  ASSUME NEW sp, NEW c \in Nat, SpentOK(sp, c), Kept(sp), sp # <<>> => SpentNow(sp) < CpuLimit,
         NEW cpu \in 1..MaxCpu, NEW charge,
         charge = [at |-> c, cpu |-> cpu, before |-> IF sp = <<>> THEN 0 ELSE Upto(sp[Len(sp)])]
  PROVE  SpentOK(Append(sp, charge), c) /\ Kept(Append(sp, charge))
<1>1. PICK n, b, more : n = Len(sp) /\ b = charge.before /\ more = Append(sp, charge)
  OBVIOUS
<1>2. sp \in Seq(Charges) /\ n \in Nat /\ DOMAIN sp = 1..n /\ MaxCpu \in Nat /\ CpuLimit \in Nat
  BY <1>1, LimitsOK DEF SpentOK
<1>3. \A i \in 1..n : sp[i] \in Charges
  BY <1>2
<1>4. sp # <<>> => n >= 1 /\ n \in 1..n /\ 1 \in 1..n /\ sp[n] \in Charges /\ sp[1] \in Charges
  BY <1>1, <1>2, <1>3
<1>5. b \in Nat /\ charge \in Charges /\ charge.at = c /\ Upto(charge) = b + cpu /\ (sp # <<>> => b = Upto(sp[n]))
  <2>1. charge.at = c /\ charge.cpu = cpu /\ b = IF sp = <<>> THEN 0 ELSE Upto(sp[n])
    BY <1>1
  <2>2. b \in Nat
    BY <1>4, <2>1, ChargeOK
  <2>3. charge = [at |-> c, cpu |-> cpu, before |-> b]
    BY <1>1
  <2>4. charge \in Charges
    BY <2>2, <2>3 DEF Charges
  <2> QED BY <1>1, <2>1, <2>2, <2>4 DEF Upto
<1>6. /\ more \in Seq(Charges) /\ DOMAIN more = 1..n + 1 /\ more[n + 1] = charge
      /\ \A i \in 1..n : more[i] = sp[i]
  BY <1>1, <1>2, <1>5
<1>7. \A i \in 1..n + 1 : i \in 1..n \/ i = n + 1
  BY <1>2
<1>8. \A i \in 1..n : /\ sp[i].at \in Nat /\ sp[i].at <= c /\ sp[i].before \in Nat /\ Upto(sp[i]) \in Nat
                      /\ Upto(sp[i]) <= b /\ sp[i].before < Upto(sp[i])
  <2> SUFFICES ASSUME NEW i \in 1..n
               PROVE  /\ sp[i].at \in Nat /\ sp[i].at <= c /\ sp[i].before \in Nat /\ Upto(sp[i]) \in Nat
                      /\ Upto(sp[i]) <= b /\ sp[i].before < Upto(sp[i])
    OBVIOUS
  <2>1. sp[i] \in Charges /\ sp # <<>>
    BY <1>2, <1>3
  <2>2. /\ sp[i].at \in Nat /\ sp[i].before \in Nat /\ Upto(sp[i]) \in Nat /\ sp[i].cpu \in 1..MaxCpu
        /\ Upto(sp[i]) = sp[i].before + sp[i].cpu
    BY <2>1, ChargeOK
  <2>3. b = Upto(sp[n]) /\ sp[n] \in Charges /\ n \in 1..n
    BY <1>4, <1>5, <2>1
  <2>4. Upto(sp[i]) <= Upto(sp[n])
    <3>1. CASE i = n
      BY <2>2, <3>1
    <3>2. CASE i < n
      <4>1. Upto(sp[i]) <= sp[n].before
        BY <1>2, <2>3, <3>2 DEF SpentOK
      <4>2. sp[n].before \in Nat /\ Upto(sp[n]) = sp[n].before + sp[n].cpu /\ sp[n].cpu \in 1..MaxCpu
        BY <2>3, ChargeOK
      <4> QED BY <1>2, <2>2, <4>1, <4>2
    <3> QED BY <1>2, <3>1, <3>2
  <2>5. sp[i].at <= c
    BY <1>2 DEF SpentOK
  <2> QED BY <1>2, <2>2, <2>3, <2>4, <2>5
<1>9. SpentOK(more, c)
  <2>1. \A i \in DOMAIN more : more[i].at <= c
    BY <1>5, <1>6, <1>7, <1>8
  <2>2. ASSUME NEW i \in DOMAIN more, NEW j \in DOMAIN more, i < j
        PROVE  more[i].at <= more[j].at /\ Upto(more[i]) <= more[j].before
    <3>1. i \in 1..n
      BY <1>2, <1>6, <2>2
    <3>2. CASE j = n + 1
      BY <1>1, <1>5, <1>6, <1>8, <3>1, <3>2
    <3>3. CASE j \in 1..n
      BY <1>2, <1>6, <2>2, <3>1, <3>3 DEF SpentOK
    <3> QED BY <1>6, <1>7, <3>2, <3>3
  <2> QED BY <1>6, <2>1, <2>2 DEF SpentOK
<1>10. Kept(more)
  <2> SUFFICES ASSUME NEW i \in DOMAIN more, NEW j \in DOMAIN more, i <= j, more[j].at - more[i].at < CpuWindow
               PROVE  Upto(more[j]) - more[i].before < CpuLimit + MaxCpu
    BY DEF Kept
  <2>1. CASE j \in 1..n
    <3>1. i \in 1..n
      BY <1>2, <1>6, <2>1
    <3> QED BY <1>2, <1>6, <2>1, <3>1 DEF Kept
  <2>2. CASE j = n + 1 /\ i \in 1..n
    <3>1. sp # <<>> /\ b - sp[1].before < CpuLimit
      BY <1>1, <1>2, <1>5, <2>2 DEF SpentNow
    <3>2. sp[1].before <= sp[i].before /\ sp[1].before \in Nat /\ sp[i].before \in Nat
      <4>1. 1 \in 1..n
        BY <1>4, <3>1
      <4>2. CASE i = 1
        BY <1>8, <2>2, <4>2
      <4>3. CASE 1 < i
        <5>1. Upto(sp[1]) <= sp[i].before
          BY <1>2, <2>2, <4>1, <4>3 DEF SpentOK
        <5>2. sp[1].before < Upto(sp[1]) /\ sp[1].before \in Nat /\ Upto(sp[1]) \in Nat /\ sp[i].before \in Nat
          BY <1>8, <2>2, <4>1
        <5> QED BY <5>1, <5>2
      <4> QED BY <1>2, <2>2, <4>2, <4>3
    <3>3. Upto(more[j]) = b + cpu /\ more[i].before = sp[i].before
      BY <1>5, <1>6, <2>2
    <3> QED BY <1>2, <1>5, <3>1, <3>2, <3>3
  <2>3. CASE j = n + 1 /\ i = n + 1
    <3>1. Upto(more[j]) = b + cpu /\ more[i].before = b
      BY <1>1, <1>5, <1>6, <2>3
    <3> QED BY <1>2, <1>5, <3>1, LimitsOK
  <2> QED BY <1>2, <1>6, <1>7, <2>1, <2>2, <2>3
<1> QED BY <1>1, <1>9, <1>10

\* The first of some numbers.
LEMMA LeastNatural ==
  ASSUME NEW ns \in SUBSET Nat, ns # {}
  PROVE  \E m \in ns : \A y \in ns : m <= y
<1>1. IsWellFoundedOn(OpToRel(<, Nat), Nat)
  BY NatLessThanWellFounded
<1>2. PICK m \in ns : \A y \in ns : ~(<<y, m>> \in OpToRel(<, Nat))
  BY <1>1, WFMin
<1>3. ASSUME NEW y \in ns PROVE m <= y
  <2>1. ~(y < m)
    BY <1>2 DEF OpToRel
  <2> QED BY <2>1
<1> QED BY <1>3

\* What prune leaves: charges that were there, the first in the window.
LEMMA PrunedOK ==
  ASSUME clock \in Nat, SpentOK(spent, clock), Kept(spent), NEW p, p = Pruned
  PROVE  /\ SpentOK(p, clock) /\ Kept(p)
         /\ \A j \in DOMAIN p : \E i \in DOMAIN spent : p[j] = spent[i]
         /\ p # <<>> => clock < p[1].at + CpuWindow
<1>1. PICK young : young = {i \in DOMAIN spent : clock - spent[i].at < CpuWindow}
  OBVIOUS
<1>2. p = IF young = {} THEN <<>> ELSE SubSeq(spent, Min(young), Len(spent))
  BY <1>1 DEF Pruned
<1>3. spent \in Seq(Charges) /\ DOMAIN spent = 1..Len(spent) /\ Len(spent) \in Nat
  BY DEF SpentOK
<1>4. CASE young = {}
  <2>1. p = <<>> /\ DOMAIN p = {}
    BY <1>2, <1>4
  <2> QED BY <2>1 DEF SpentOK, Kept
<1>5. CASE young # {}
  <2>1. PICK m : m = Min(young)
    OBVIOUS
  <2>2. m \in young
    <3>1. young \subseteq Nat
      BY <1>1, <1>3
    <3>2. PICK x \in young : \A y \in young : x <= y
      <4>1. \E x \in young : \A y \in young : x <= y
        BY <1>5, <3>1, LeastNatural
      <4> QED BY <4>1
    <3> QED BY <2>1, <3>2 DEF Min
  <2>3. m \in 1..Len(spent) /\ clock - spent[m].at < CpuWindow
    BY <1>1, <1>3, <2>2
  <2>4. p = SubSeq(spent, m, Len(spent))
    BY <1>2, <1>5, <2>1
  <2>5. PICK k : k = Len(spent) - m + 1
    OBVIOUS
  <2>6. /\ p \in Seq(Charges) /\ DOMAIN p = 1..k /\ k \in Nat /\ k >= 1
        /\ \A j \in 1..k : p[j] = spent[m + j - 1]
    <3>1. m \in Nat /\ m >= 1 /\ m <= Len(spent) /\ k \in Nat /\ k >= 1
      BY <1>3, <2>3, <2>5
    <3>2. p \in Seq(Charges) /\ Len(p) = k
      BY <1>3, <2>4, <2>5, <3>1
    <3>3. \A j \in 1..k : p[j] = spent[m + j - 1]
      BY <1>3, <2>4, <2>5, <3>1
    <3> QED BY <3>1, <3>2, <3>3
  <2>7. \A j \in 1..k : m + j - 1 \in DOMAIN spent
    BY <1>3, <2>3, <2>5
  <2>8. SpentOK(p, clock)
    <3>1. \A j \in DOMAIN p : p[j].at <= clock
      BY <2>6, <2>7 DEF SpentOK
    <3>2. ASSUME NEW i \in DOMAIN p, NEW j \in DOMAIN p, i < j
          PROVE  p[i].at <= p[j].at /\ Upto(p[i]) <= p[j].before
      <4>1. m + i - 1 < m + j - 1
        BY <2>3, <2>6, <3>2
      <4>2. m + i - 1 \in DOMAIN spent /\ m + j - 1 \in DOMAIN spent
        BY <2>6, <2>7
      <4>3. /\ spent[m + i - 1].at <= spent[m + j - 1].at
            /\ Upto(spent[m + i - 1]) <= spent[m + j - 1].before
        BY <4>1, <4>2 DEF SpentOK
      <4> QED BY <2>6, <4>3
    <3> QED BY <2>6, <3>1, <3>2 DEF SpentOK
  <2>9. Kept(p)
    <3> SUFFICES ASSUME NEW i \in DOMAIN p, NEW j \in DOMAIN p, i <= j, p[j].at - p[i].at < CpuWindow
                 PROVE  Upto(p[j]) - p[i].before < CpuLimit + MaxCpu
      BY DEF Kept
    <3>1. m + i - 1 <= m + j - 1
      BY <2>3, <2>6
    <3>2. m + i - 1 \in DOMAIN spent /\ m + j - 1 \in DOMAIN spent
      BY <2>6, <2>7
    <3>3. p[i] = spent[m + i - 1] /\ p[j] = spent[m + j - 1]
      BY <2>6
    <3>4. spent[m + j - 1].at - spent[m + i - 1].at < CpuWindow
      BY <3>3
    <3>5. Upto(spent[m + j - 1]) - spent[m + i - 1].before < CpuLimit + MaxCpu
      BY <3>1, <3>2, <3>4 DEF Kept
    <3> QED BY <3>3, <3>5
  <2>10. p[1] = spent[m]
    <3>1. 1 \in 1..k /\ m + 1 - 1 = m
      BY <2>3, <2>6
    <3> QED BY <2>6, <3>1
  <2>11. clock < p[1].at + CpuWindow
    <3>1. spent[m].at \in Nat
      <4>1. spent[m] \in Charges
        BY <1>3, <2>3
      <4> QED BY <4>1, ChargeOK
    <3> QED BY <2>3, <2>10, <3>1, LimitsOK
  <2> QED BY <2>6, <2>7, <2>8, <2>9, <2>11
<1> QED BY <1>4, <1>5

\* What a step of the thread that takes no snapshot leaves of the turns.
LEMMA TurnsKept ==
  ASSUME NEW s, NEW w, NEW rr, NEW sp, NEW c, TurnsOK(s, rr, sp, c),
         Taking(w) => Taking(s), w.pc = "recv" => s.pc = "recv" /\ w.wake = s.wake
  PROVE  TurnsOK(w, rr, sp, c)
BY DEF TurnsOK

\* The kinds are two, so what waits is two at most.
LEMMA TwoTurns ==
  ASSUME NEW rr \in Seq(Turns), \A i, j \in DOMAIN rr : rr[i].kind = rr[j].kind => i = j
  PROVE  Len(rr) <= 2
<1>1. Len(rr) \in Nat /\ DOMAIN rr = 1..Len(rr)
  OBVIOUS
<1>2. \A i \in 1..Len(rr) : rr[i].kind \in {"Key", "File"}
  <2>1. \A i \in 1..Len(rr) : rr[i] \in Turns
    BY <1>1
  <2> QED BY <2>1 DEF Turns, HandleKinds
<1>3. SUFFICES ASSUME Len(rr) >= 3 PROVE FALSE
  BY <1>1
<1>4. 1 \in 1..Len(rr) /\ 2 \in 1..Len(rr) /\ 3 \in 1..Len(rr)
  BY <1>1, <1>3
<1>5. rr[1].kind # rr[2].kind /\ rr[1].kind # rr[3].kind /\ rr[2].kind # rr[3].kind
  BY <1>1, <1>4
<1> QED BY <1>2, <1>4, <1>5

\* Time passes to the wake-up at most.
LEMMA TickInv == ASSUME SeederInv, SeederTick PROVE SeederInv'
<1>1. /\ clock' = clock + 1 /\ seeder.pc = "recv" /\ (rereads # <<>> => clock < seeder.wake)
      /\ requests' = requests /\ rereads' = rereads /\ spent' = spent /\ seeder' = seeder /\ helper' = helper /\ stuck' = stuck
  BY DEF SeederTick
<1>2. PICK c : c = clock + 1
  OBVIOUS
<1>3. clock \in Nat /\ c \in Nat /\ SpentOK(spent, clock) /\ TurnsOK(seeder, rereads, spent, clock)
  BY <1>2 DEF SeederInv
<1>4. \A j \in DOMAIN spent : spent[j].at \in Nat
  <2>1. \A j \in DOMAIN spent : spent[j] \in Charges
    BY <1>3 DEF SpentOK
  <2> QED BY <2>1, ChargeOK
<1>5. SpentOK(spent, c)
  BY <1>2, <1>3, <1>4 DEF SpentOK
<1>6. TurnsOK(seeder, rereads, spent, c)
  <2>1. ~Taking(seeder)
    BY <1>1 DEF Taking
  <2>2. rereads \in Seq(Turns)
    BY <1>3 DEF TurnsOK
  <2>3. ASSUME NEW i \in DOMAIN rereads PROVE rereads[i].since <= c /\ TurnOK(rereads[i], i, spent, c)
    <3>1. PICK turn : turn = rereads[i]
      OBVIOUS
    <3>2. turn.since \in Nat /\ turn.passed \in {0, 1}
      <4>1. turn \in Turns
        BY <2>2, <3>1
      <4> QED BY <4>1 DEF Turns
    <3>3. turn.since <= clock /\ TurnOK(turn, i, spent, clock)
      BY <1>3, <3>1 DEF TurnsOK
    <3>4. spent # <<>> /\ seeder.wake = spent[1].at + CpuWindow /\ c <= seeder.wake
      <4>1. rereads # <<>>
        BY <2>2, <2>3
      <4>2. spent # <<>> /\ seeder.wake = spent[1].at + CpuWindow
        BY <1>1, <1>3, <4>1 DEF TurnsOK
      <4>3. seeder.wake \in Nat
        BY DEF SeederInv, Snapshooters
      <4> QED BY <1>1, <1>2, <1>3, <4>1, <4>2, <4>3
    <3>5. 1 \in DOMAIN spent /\ spent[1].at \in Nat
      <4>1. spent \in Seq(Charges)
        BY <1>3 DEF SpentOK
      <4>2. 1 \in DOMAIN spent
        BY <3>4, <4>1
      <4> QED BY <1>4, <4>2
    <3>6. turn.passed = 0 => c <= turn.since + CpuWindow /\ \A j \in DOMAIN spent : spent[j].at <= turn.since
      BY <1>3, <3>2, <3>3, <3>4, <3>5, LimitsOK DEF TurnOK
    <3>7. turn.passed = 1 => /\ i = 1 /\ c <= turn.since + 2 * CpuWindow
                             /\ \A j \in DOMAIN spent : spent[j].at <= turn.since + CpuWindow
      BY <1>3, <3>2, <3>3, <3>4, <3>5, LimitsOK DEF TurnOK
    <3> QED BY <1>2, <1>3, <3>1, <3>2, <3>3, <3>6, <3>7 DEF TurnOK
  <2>4. rereads # <<>> => spent # <<>> /\ seeder.wake = spent[1].at + CpuWindow /\ c <= seeder.wake
    <3>1. seeder.wake \in Nat
      BY DEF SeederInv, Snapshooters
    <3> QED BY <1>1, <1>2, <1>3, <3>1 DEF TurnsOK
  <2> QED BY <1>3, <2>1, <2>2, <2>3, <2>4 DEF TurnsOK
<1> QED BY <1>1, <1>2, <1>3, <1>5, <1>6 DEF SeederInv

\* A step that moves the thread, its helper or those set aside, and neither
\* charges nor takes a turn.
LEMMA ThreadMoves ==
  ASSUME SeederInv, NEW s \in Snapshooters, seeder' = s,
         HelperOK(s, helper'), StuckOK(s, stuck'), RequestsOK(requests'),
         Taking(s) => Taking(seeder), s.pc = "recv" => seeder.pc = "recv" /\ s.wake = seeder.wake,
         UNCHANGED <<clock, rereads, spent>>
  PROVE  SeederInv'
<1>1. clock' = clock /\ rereads' = rereads /\ spent' = spent
  OBVIOUS
<1>2. TurnsOK(s, rereads, spent, clock)
  BY TurnsKept DEF SeederInv
<1>3. Begun(s, spent)
  BY DEF SeederInv, Begun
<1> QED BY <1>1, <1>2, <1>3 DEF SeederInv

\* A request comes, or is dropped.
LEMMA SubmitSeedInv ==
  ASSUME SeederInv, NEW kind \in HandleKinds, NEW startup \in BOOLEAN, SubmitSeed(kind, startup)
  PROVE  SeederInv'
<1>1. PICK jobs, job, n : jobs = requests.jobs /\ job = [kind |-> kind, startup |-> startup] /\ n = requests.sent + 1
  OBVIOUS
<1>2. PICK more, k : more = Append(jobs, job) /\ k = requests.drops + 1
  OBVIOUS
<1>3. RequestsOK(requests) /\ jobs \in Seq(Requests) /\ job \in Requests
  BY <1>1 DEF SeederInv, RequestsOK, Requests
<1>4. requests = [jobs |-> jobs, sent |-> requests.sent, drops |-> requests.drops]
  BY <1>1, <1>3 DEF RequestsOK
<1>5. RequestsOK(requests')
  <2>1. CASE Len(requests.jobs) >= SeedQueue
    <3>1. requests' = [requests EXCEPT !.sent = n, !.drops = k]
      BY <1>1, <1>2, <2>1 DEF SubmitSeed
    <3>2. requests' = [jobs |-> jobs, sent |-> n, drops |-> k]
      <4>1. PICK x, y : x = requests.sent /\ y = requests.drops
        OBVIOUS
      <4>2. PICK q, r : q = requests /\ r = requests'
        OBVIOUS
      <4>3. q = [jobs |-> jobs, sent |-> x, drops |-> y]
        BY <1>4, <4>1, <4>2
      <4>4. r = [q EXCEPT !.sent = n, !.drops = k]
        BY <3>1, <4>2
      <4>5. r = [jobs |-> jobs, sent |-> n, drops |-> k]
        BY <4>3, <4>4
      <4> QED BY <4>2, <4>5
    <3> QED BY <1>3, <3>2 DEF RequestsOK
  <2>2. CASE ~(Len(requests.jobs) >= SeedQueue)
    <3>1. requests' = [requests EXCEPT !.sent = n, !.jobs = more]
      BY <1>1, <1>2, <2>2 DEF SubmitSeed
    <3>2. requests' = [jobs |-> more, sent |-> n, drops |-> requests.drops]
      BY <1>4, <3>1
    <3>3. more \in Seq(Requests)
      BY <1>2, <1>3
    <3> QED BY <3>2, <3>3 DEF RequestsOK
  <2> QED BY <2>1, <2>2
<1>6. /\ clock' = clock /\ rereads' = rereads /\ spent' = spent /\ seeder' = seeder
      /\ helper' = helper /\ stuck' = stuck
  BY DEF SubmitSeed
<1> QED BY <1>5, <1>6 DEF SeederInv

\* The wake-up.
LEMMA WakesInv == ASSUME SeederInv, Wakes PROVE SeederInv'
<1>1. /\ seeder.pc = "recv" /\ seeder' = [seeder EXCEPT !.pc = "serve"]
      /\ UNCHANGED <<clock, requests, rereads, spent, helper, stuck>>
  BY DEF Wakes
<1>2. PICK s : s = [seeder EXCEPT !.pc = "serve"]
  OBVIOUS
<1>3. s \in Snapshooters /\ s.pc = "serve" /\ s.got = seeder.got
  BY <1>2 DEF SeederInv, Snapshooters, SeederPCs
<1>4. HelperOK(s, helper) /\ StuckOK(s, stuck) /\ ~Taking(s)
  BY <1>1, <1>3 DEF SeederInv, HelperOK, StuckOK, Naming, Taking
<1>5. RequestsOK(requests)
  BY DEF SeederInv
<1> QED BY <1>1, <1>2, <1>3, <1>4, <1>5, ThreadMoves

\* A snapshot that begins: nothing is asked yet.
LEMMA BeginsOK ==
  ASSUME NEW kind \in HandleKinds, NEW n \in Nat, NEW charged \in BOOLEAN,
         ~Naming(seeder), HelperOK(seeder, helper), StuckOK(seeder, stuck), NEW s, s = Snapshots(kind, n, charged)
  PROVE  /\ s \in Snapshooters /\ s.pc = "snapshot" /\ s.charged = charged
         /\ HelperOK(s, helper) /\ StuckOK(s, stuck)
<1>1. s = [pc |-> "snapshot", kind |-> kind, left |-> n, asked |-> NoHandle, got |-> {}, charged |-> charged, wake |-> 0]
  BY DEF Snapshots, Receiving
<1>2. s \in Snapshooters
  BY <1>1 DEF Snapshooters, SeederPCs, NoHandle
<1>3. s.pc = "snapshot" /\ s.charged = charged /\ s.got = {}
  BY <1>1
<1> QED BY <1>2, <1>3 DEF HelperOK, StuckOK, Naming

\* A request is taken: a start-up pass begins, or a kind waits for its turn.
LEMMA TakeSeedInv == ASSUME SeederInv, NEW n \in 1..MaxHandles, TakeSeed(n) PROVE SeederInv'
<1>1. PICK jobs, job, rest : jobs = requests.jobs /\ job = Head(jobs) /\ rest = Tail(jobs)
  OBVIOUS
<1>2. /\ seeder.pc = "recv" /\ jobs # <<>> /\ requests' = [requests EXCEPT !.jobs = rest]
      /\ IF job.startup THEN seeder' = Snapshots(job.kind, n, FALSE) /\ rereads' = rereads
         ELSE seeder' = [seeder EXCEPT !.pc = "serve"] /\ rereads' = Added(job.kind)
      /\ clock' = clock /\ spent' = spent /\ helper' = helper /\ stuck' = stuck
  BY <1>1 DEF TakeSeed
<1>3. RequestsOK(requests) /\ jobs \in Seq(Requests)
  BY <1>1 DEF SeederInv, RequestsOK
<1>4. rest \in Seq(Requests) /\ job \in Requests
  BY <1>1, <1>2, <1>3
<1>5. RequestsOK(requests')
  <2>1. requests' = [jobs |-> rest, sent |-> requests.sent, drops |-> requests.drops]
    BY <1>2, <1>3 DEF RequestsOK
  <2> QED BY <1>4, <2>1 DEF RequestsOK
<1>6. job.kind \in HandleKinds
  BY <1>4 DEF Requests
<1>7. HelperOK(seeder, helper) /\ StuckOK(seeder, stuck) /\ ~Naming(seeder) /\ n \in Nat
  BY <1>2, LimitsOK DEF SeederInv, Naming
<1>8. CASE job.startup
  <2>1. PICK s : s = Snapshots(job.kind, n, FALSE)
    OBVIOUS
  <2>2. s \in Snapshooters /\ s.pc = "snapshot" /\ s.charged = FALSE /\ HelperOK(s, helper) /\ StuckOK(s, stuck)
    BY <1>6, <1>7, <2>1, BeginsOK
  <2>3. ~Taking(s)
    BY <2>2 DEF Taking
  <2>4. seeder' = s /\ rereads' = rereads
    BY <1>2, <1>8, <2>1
  <2> QED BY <1>2, <1>5, <2>2, <2>3, <2>4, ThreadMoves
<1>9. CASE ~job.startup
  <2>1. PICK s : s = [seeder EXCEPT !.pc = "serve"]
    OBVIOUS
  <2>2. s \in Snapshooters /\ s.pc = "serve" /\ s.got = seeder.got
    BY <2>1 DEF SeederInv, Snapshooters, SeederPCs
  <2>3. HelperOK(s, helper) /\ StuckOK(s, stuck) /\ ~Taking(s)
    BY <1>7, <2>2 DEF HelperOK, StuckOK, Naming, Taking
  <2>4. PICK rr : rr = Added(job.kind)
    OBVIOUS
  <2>5. TurnsOK(seeder, rereads, spent, clock) /\ SpentOK(spent, clock) /\ clock \in Nat
    BY DEF SeederInv
  <2>6. TurnsOK(s, rr, spent, clock)
    <3>1. CASE \E i \in DOMAIN rereads : rereads[i].kind = job.kind
      <4>1. rr = rereads
        BY <2>4, <3>1 DEF Added
      <4> QED BY <2>2, <2>3, <2>5, <4>1, TurnsKept
    <3>2. CASE \A i \in DOMAIN rereads : rereads[i].kind # job.kind
      <4>1. PICK turn, m : turn = [kind |-> job.kind, since |-> clock, passed |-> 0] /\ m = Len(rereads)
        OBVIOUS
      <4>2. turn.kind = job.kind /\ turn.since = clock /\ turn.passed = 0 /\ turn \in Turns
        BY <1>6, <2>5, <4>1 DEF Turns
      <4>3. rr = Append(rereads, turn)
        BY <2>4, <3>2, <4>1 DEF Added
      <4>4. rereads \in Seq(Turns) /\ m \in Nat
        BY <2>5, <4>1 DEF TurnsOK
      <4>5. /\ rr \in Seq(Turns) /\ DOMAIN rr = 1..m + 1 /\ DOMAIN rereads = 1..m
            /\ rr[m + 1] = turn /\ \A i \in 1..m : rr[i] = rereads[i]
        BY <4>1, <4>2, <4>3, <4>4
      <4>6. \A i \in DOMAIN rr : i \in 1..m \/ i = m + 1
        BY <4>4, <4>5
      <4>7. \A i, j \in DOMAIN rr : rr[i].kind = rr[j].kind => i = j
        BY <2>5, <3>2, <4>2, <4>5, <4>6 DEF TurnsOK
      <4>8. turn.since <= clock /\ TurnOK(turn, m + 1, spent, clock)
        BY <2>5, <4>2, LimitsOK DEF TurnOK, SpentOK
      <4>9. \A i \in DOMAIN rr : rr[i].since <= clock /\ TurnOK(rr[i], i, spent, clock)
        <5>1. \A i \in 1..m : rereads[i].since <= clock /\ TurnOK(rereads[i], i, spent, clock)
          BY <2>5, <4>5 DEF TurnsOK
        <5> QED BY <4>5, <4>6, <4>8, <5>1
      <4> QED BY <2>2, <2>3, <4>5, <4>7, <4>9 DEF TurnsOK
    <3> QED BY <3>1, <3>2
  <2>7. Begun(s, spent) /\ Kept(spent)
    BY <2>3 DEF Begun, SeederInv
  <2>8. seeder' = s /\ rereads' = rr
    BY <1>2, <1>9, <2>1, <2>4
  <2> QED BY <1>2, <1>5, <2>2, <2>3, <2>5, <2>6, <2>7, <2>8 DEF SeederInv
<1> QED BY <1>8, <1>9

\* A kind's turn comes, if the budget allows it; or the next wake-up is set.
LEMMA ServeInv == ASSUME SeederInv, NEW n \in 1..MaxHandles, Serve(n) PROVE SeederInv'
<1>1. PICK p, ok : p = Pruned /\ ok = (rereads # <<>> /\ Allows)
  OBVIOUS
<1>2. PICK left : left = [i \in 1..(Len(rereads) - 1) |-> [RemoveAt(rereads, NextOldest)[i] EXCEPT !.passed = @ + 1]]
  OBVIOUS
<1>3. /\ seeder.pc = "serve" /\ spent' = p
      /\ IF ok THEN seeder' = Snapshots(rereads[NextOldest].kind, n, TRUE) /\ rereads' = left
         ELSE /\ seeder' = [Receiving EXCEPT !.wake = IF rereads = <<>> THEN 0 ELSE RetryAt]
              /\ rereads' = rereads
      /\ clock' = clock /\ requests' = requests /\ helper' = helper /\ stuck' = stuck
  BY <1>1, <1>2 DEF Serve
<1>4. /\ SpentOK(spent, clock) /\ Kept(spent) /\ clock \in Nat /\ TurnsOK(seeder, rereads, spent, clock)
      /\ HelperOK(seeder, helper) /\ StuckOK(seeder, stuck) /\ ~Naming(seeder) /\ RequestsOK(requests)
  BY <1>3 DEF SeederInv, Naming
<1>5. /\ SpentOK(p, clock) /\ Kept(p)
      /\ \A j \in DOMAIN p : \E i \in DOMAIN spent : p[j] = spent[i]
      /\ p # <<>> => clock < p[1].at + CpuWindow
  BY <1>1, <1>4, PrunedOK
<1>6. \A turn, i : TurnOK(turn, i, spent, clock) => TurnOK(turn, i, p, clock)
  BY <1>5 DEF TurnOK
<1>7. rereads \in Seq(Turns) /\ Len(rereads) \in Nat /\ DOMAIN rereads = 1..Len(rereads) /\ Len(rereads) <= 2
  BY <1>4, TwoTurns DEF TurnsOK
<1>8. CASE ok
  <2>1. PICK s : s = Snapshots(rereads[NextOldest].kind, n, TRUE)
    OBVIOUS
  <2>2. 1 \in DOMAIN rereads /\ Len(rereads) >= 1
    <3>1. rereads # <<>>
      BY <1>1, <1>8, Zenon
    <3> QED BY <1>7, <3>1
  <2>3. rereads[NextOldest].kind \in HandleKinds
    <3>1. rereads[1] \in Turns
      BY <1>7, <2>2
    <3> QED BY <3>1 DEF Turns, NextOldest
  <2>4. s \in Snapshooters /\ s.pc = "snapshot" /\ s.charged = TRUE /\ HelperOK(s, helper) /\ StuckOK(s, stuck)
    <3>1. n \in Nat
      BY LimitsOK
    <3>2. PICK kind \in HandleKinds : kind = rereads[NextOldest].kind
      BY <2>3
    <3>3. PICK yes \in BOOLEAN : yes = TRUE
      OBVIOUS
    <3>4. s = Snapshots(kind, n, yes)
      BY <2>1, <3>2, <3>3
    <3>5. s \in Snapshooters /\ s.pc = "snapshot" /\ s.charged = yes /\ HelperOK(s, helper) /\ StuckOK(s, stuck)
      BY <1>4, <3>1, <3>4, BeginsOK
    <3> QED BY <3>3, <3>5
  <2>5. PICK rest : rest = RemoveAt(rereads, NextOldest)
    OBVIOUS
  <2>6. PICK m : m = Len(rereads) - 1
    OBVIOUS
  <2>7. m \in Nat /\ m <= 1 /\ \A i \in 1..m : rest[i] = rereads[i + 1] /\ i + 1 \in DOMAIN rereads /\ i + 1 = 2
    <3>1. PICK front, back : front = SubSeq(rereads, 1, 0) /\ back = SubSeq(rereads, 2, Len(rereads))
      OBVIOUS
    <3>2. front = <<>> /\ rest = front \o back
      BY <1>7, <2>5, <3>1 DEF RemoveAt, NextOldest
    <3>3. /\ back \in Seq(Turns) /\ Len(back) = Len(rereads) - 1
          /\ \A i \in 1..Len(rereads) - 1 : back[i] = rereads[i + 1]
      BY <1>7, <2>2, <3>1
    <3>4. rest = back
      BY <3>2, <3>3
    <3> QED BY <1>7, <2>2, <2>6, <3>3, <3>4
  <2>8. left = [i \in 1..m |-> [rest[i] EXCEPT !.passed = @ + 1]]
    BY <1>2, <2>5, <2>6
  <2>9. ASSUME NEW i \in 1..m
        PROVE  /\ i = 1 /\ left[i] \in Turns /\ left[i].passed = 1 /\ left[i].since <= clock
               /\ clock <= left[i].since + CpuWindow
               /\ \A j \in DOMAIN p : p[j].at <= left[i].since
    <3>1. PICK turn : turn = rereads[i + 1]
      OBVIOUS
    <3>2. turn \in Turns /\ i = 1
      BY <1>7, <2>7, <3>1
    <3>3. turn.since <= clock /\ TurnOK(turn, 2, spent, clock)
      BY <1>4, <2>7, <3>1 DEF TurnsOK
    <3>4. turn.passed = 0
      BY <3>2, <3>3 DEF TurnOK, Turns
    <3>5. left[i] = [turn EXCEPT !.passed = 1]
      <4>1. left[i] = [rest[i] EXCEPT !.passed = @ + 1]
        BY <2>8
      <4>2. rest[i] = turn
        BY <2>7, <3>1
      <4>3. turn.passed + 1 = 1
        BY <3>4
      <4> QED BY <4>1, <4>2, <4>3
    <3>6. left[i] = [kind |-> turn.kind, since |-> turn.since, passed |-> 1]
      BY <3>2, <3>5 DEF Turns
    <3>7. left[i] \in Turns /\ left[i].passed = 1 /\ left[i].since = turn.since
      BY <3>2, <3>6 DEF Turns
    <3>8. TurnOK(turn, 2, p, clock)
      BY <1>6, <3>3
    <3> QED BY <3>2, <3>3, <3>4, <3>7, <3>8 DEF TurnOK
  <2>10. left \in Seq(Turns) /\ DOMAIN left = 1..m
    <3>1. \A i \in 1..m : left[i] \in Turns
      BY <2>9
    <3> QED BY <2>7, <2>8, <3>1
  <2>11. \A i \in DOMAIN left : left[i].since \in Nat
    <3>1. \A i \in DOMAIN left : left[i] \in Turns
      BY <2>9, <2>10
    <3> QED BY <3>1 DEF Turns
  <2>12. \A j \in DOMAIN p : p[j].at \in Nat
    <3>1. \A j \in DOMAIN p : p[j] \in Charges
      BY <1>5 DEF SpentOK
    <3> QED BY <3>1, ChargeOK
  <2>13. \A i \in DOMAIN left : TurnOK(left[i], i, p, clock)
    <3> SUFFICES ASSUME NEW i \in DOMAIN left PROVE TurnOK(left[i], i, p, clock)
      OBVIOUS
    <3>1. /\ i = 1 /\ left[i].passed = 1 /\ left[i].since \in Nat /\ clock <= left[i].since + CpuWindow
          /\ \A j \in DOMAIN p : p[j].at <= left[i].since
      BY <2>9, <2>10, <2>11
    <3>2. clock <= left[i].since + 2 * CpuWindow
      BY <1>4, <3>1, LimitsOK
    <3>3. \A j \in DOMAIN p : p[j].at <= left[i].since + CpuWindow
      BY <2>12, <3>1, LimitsOK
    <3> QED BY <3>1, <3>2, <3>3 DEF TurnOK
  <2>14. TurnsOK(s, left, p, clock)
    BY <2>4, <2>9, <2>10, <2>13 DEF TurnsOK
  <2>15. Begun(s, p)
    BY <1>1, <1>8 DEF Begun, Allows
  <2>16. seeder' = s /\ rereads' = left
    BY <1>3, <1>8, <2>1
  <2> QED BY <1>3, <1>4, <1>5, <2>4, <2>14, <2>15, <2>16 DEF SeederInv
<1>9. CASE ~ok
  <2>1. PICK wake : wake = IF rereads = <<>> THEN 0 ELSE RetryAt
    OBVIOUS
  <2>2. PICK s : s = [pc |-> "recv", kind |-> "none", left |-> 0, asked |-> NoHandle, got |-> {}, charged |-> FALSE, wake |-> wake]
    OBVIOUS
  <2>3. seeder' = s /\ rereads' = rereads
    BY <1>3, <1>9, <2>1, <2>2 DEF Receiving
  <2>4. rereads # <<>> => p # <<>> /\ wake = p[1].at + CpuWindow /\ clock <= wake /\ wake \in Nat
    <3>1. SUFFICES ASSUME rereads # <<>> PROVE p # <<>> /\ wake = p[1].at + CpuWindow /\ clock <= wake /\ wake \in Nat
      OBVIOUS
    <3>2. p # <<>>
      <4>1. ASSUME p = <<>> PROVE SpentNow(p) < CpuLimit
        BY <4>1, LimitsOK DEF SpentNow
      <4>2. p = <<>> => Allows
        BY <1>1, <4>1 DEF Allows
      <4> QED BY <1>1, <1>9, <3>1, <4>2, Zenon
    <3>3. p \in Seq(Charges) /\ 1 \in DOMAIN p /\ Head(p) = p[1] /\ p[1] \in Charges
      BY <1>5, <3>2 DEF SpentOK
    <3>4. wake = p[1].at + CpuWindow
      BY <1>1, <2>1, <3>1, <3>2, <3>3 DEF RetryAt
    <3>5. p[1].at \in Nat
      BY <3>3, ChargeOK
    <3> QED BY <1>4, <1>5, <3>2, <3>4, <3>5, LimitsOK
  <2>5. wake \in Nat
    BY <2>1, <2>4
  <2>6. s \in Snapshooters
    BY <2>2, <2>5 DEF Snapshooters, SeederPCs, NoHandle
  <2>7. s.pc = "recv" /\ s.got = {} /\ s.wake = wake /\ ~Taking(s) /\ ~Naming(s)
    BY <2>2 DEF Taking, Naming
  <2>8. HelperOK(s, helper) /\ StuckOK(s, stuck) /\ Begun(s, p)
    BY <1>4, <2>7 DEF HelperOK, StuckOK, Begun
  <2>9. TurnsOK(s, rereads, p, clock)
    <3>1. \A i \in DOMAIN rereads : rereads[i].since <= clock /\ TurnOK(rereads[i], i, p, clock)
      BY <1>4, <1>6 DEF TurnsOK
    <3> QED BY <1>4, <2>4, <2>7, <3>1 DEF TurnsOK
  <2> QED BY <1>3, <1>4, <1>5, <2>3, <2>6, <2>8, <2>9 DEF SeederInv
<1> QED BY <1>8, <1>9

\* The next name: a key's at once, a file's from the helper, none while seeding
\* is paused.
LEMMA AskNameInv == ASSUME SeederInv, AskName PROVE SeederInv'
<1>1. /\ seeder.pc = "snapshot" /\ seeder.left > 0
      /\ UNCHANGED <<clock, requests, rereads, spent>>
      /\ \/ /\ stuck' = [stuck EXCEPT !.back = 0]
            /\ IF Paused(stuck.hung) THEN seeder' = [seeder EXCEPT !.left = 0] /\ helper' = helper
               ELSE /\ helper' = [helper EXCEPT !.jobs = Append(@, seeder.left)]
                    /\ seeder' = [seeder EXCEPT !.pc = "first", !.asked = seeder.left]
         \/ seeder' = [seeder EXCEPT !.left = @ - 1] /\ helper' = helper /\ stuck' = stuck
  BY DEF AskName
<1>2. /\ HelperOK(seeder, helper) /\ StuckOK(seeder, stuck) /\ ~Naming(seeder) /\ RequestsOK(requests)
      /\ seeder \in Snapshooters /\ seeder.left \in Nat
  BY <1>1 DEF SeederInv, Naming, Snapshooters
<1>3. CASE seeder' = [seeder EXCEPT !.left = @ - 1] /\ helper' = helper /\ stuck' = stuck
  <2>1. PICK l : l = seeder.left - 1
    OBVIOUS
  <2>2. PICK s : s = [seeder EXCEPT !.left = l]
    OBVIOUS
  <2>3. l \in Nat /\ seeder' = s
    BY <1>1, <1>2, <1>3, <2>1, <2>2
  <2>4. s \in Snapshooters /\ s.pc = seeder.pc /\ s.got = seeder.got /\ s.charged = seeder.charged
    BY <1>2, <2>2, <2>3 DEF Snapshooters
  <2>5. HelperOK(s, helper) /\ StuckOK(s, stuck) /\ (Taking(s) => Taking(seeder))
    BY <1>1, <1>2, <2>4 DEF HelperOK, StuckOK, Naming, Taking
  <2> QED BY <1>1, <1>2, <1>3, <2>3, <2>4, <2>5, ThreadMoves
<1>4. CASE stuck' = [stuck EXCEPT !.back = 0] /\ Paused(stuck.hung)
            /\ seeder' = [seeder EXCEPT !.left = 0] /\ helper' = helper
  <2>1. PICK s, k : s = [seeder EXCEPT !.left = 0] /\ k = [stuck EXCEPT !.back = 0]
    OBVIOUS
  <2>2. s \in Snapshooters /\ s.pc = seeder.pc /\ s.got = seeder.got /\ s.charged = seeder.charged
    BY <1>2, <2>1 DEF Snapshooters
  <2>3. k \in [hung : Nat, back : Nat] /\ k.hung = stuck.hung /\ k.back = 0 /\ stuck.hung \in Nat /\ stuck.back \in Nat
    BY <1>2, <2>1 DEF StuckOK
  <2>4. HelperOK(s, helper) /\ (Taking(s) => Taking(seeder))
    BY <1>1, <1>2, <2>2 DEF HelperOK, Naming, Taking
  <2>5. StuckOK(s, k)
    BY <1>1, <1>2, <2>2, <2>3, LimitsOK DEF StuckOK, Naming
  <2> QED BY <1>1, <1>2, <1>4, <2>1, <2>2, <2>4, <2>5, ThreadMoves
<1>5. CASE /\ stuck' = [stuck EXCEPT !.back = 0] /\ ~Paused(stuck.hung)
           /\ helper' = [helper EXCEPT !.jobs = Append(@, seeder.left)]
           /\ seeder' = [seeder EXCEPT !.pc = "first", !.asked = seeder.left]
  <2>1. PICK l : l = seeder.left
    OBVIOUS
  <2>2. PICK s, k, h : /\ s = [seeder EXCEPT !.pc = "first", !.asked = l]
                       /\ k = [stuck EXCEPT !.back = 0] /\ h = [jobs |-> <<l>>, answers |-> <<>>]
    OBVIOUS
  <2>3. s \in Snapshooters /\ s.pc = "first" /\ s.left = l /\ s.asked = l /\ s.got = seeder.got /\ s.charged = seeder.charged
    BY <1>2, <2>1, <2>2 DEF Snapshooters, SeederPCs
  <2>4. k \in [hung : Nat, back : Nat] /\ k.hung = stuck.hung /\ k.back = 0 /\ stuck.hung \in Nat
    BY <1>2, <2>2 DEF StuckOK
  <2>5. StuckOK(s, k)
    BY <1>5, <2>4, LimitsOK DEF StuckOK, Paused
  <2>6. helper' = h
    <3>1. helper.jobs = <<>> /\ helper.answers = <<>> /\ helper = [jobs |-> helper.jobs, answers |-> helper.answers]
      BY <1>2 DEF HelperOK
    <3>2. Append(helper.jobs, l) = <<l>>
      BY <3>1
    <3>3. helper' = [helper EXCEPT !.jobs = <<l>>]
      BY <1>5, <2>1, <3>2
    <3>4. PICK g, d : g = helper /\ d = helper'
      OBVIOUS
    <3>5. g = [jobs |-> <<>>, answers |-> <<>>] /\ d = [g EXCEPT !.jobs = <<l>>]
      BY <3>1, <3>3, <3>4
    <3>6. d = [jobs |-> <<l>>, answers |-> <<>>]
      BY <3>5
    <3> QED BY <2>2, <3>4, <3>6
  <2>7. h.jobs = <<l>> /\ h.answers = <<>>
    BY <2>2
  <2>8. HelperOK(s, h) /\ (Taking(s) => Taking(seeder))
    <3>1. h = [jobs |-> h.jobs, answers |-> h.answers]
      BY <2>2, <2>7
    <3>2. Naming(s) /\ s.left > 0
      BY <1>1, <2>1, <2>3 DEF Naming
    <3>3. \A pair \in s.got : pair[1] = pair[2]
      BY <1>2, <2>3 DEF HelperOK
    <3>4. HelperOK(s, h)
      BY <2>3, <2>7, <3>1, <3>2, <3>3 DEF HelperOK
    <3> QED BY <1>1, <2>3, <3>4 DEF Taking
  <2> QED BY <1>1, <1>2, <1>5, <2>1, <2>2, <2>3, <2>5, <2>6, <2>8, ThreadMoves
<1> QED BY <1>1, <1>3, <1>4, <1>5

\* The helper answers the handle asked.
LEMMA QueryReturnsInv == ASSUME SeederInv, QueryReturns PROVE SeederInv'
<1>1. /\ helper.jobs # <<>> /\ seeder' = seeder /\ stuck' = stuck /\ requests' = requests
      /\ UNCHANGED <<clock, rereads, spent>>
      /\ helper' = [jobs |-> Tail(helper.jobs), answers |-> Append(helper.answers, Head(helper.jobs))]
  BY DEF QueryReturns
<1>2. HelperOK(seeder, helper) /\ StuckOK(seeder, stuck) /\ RequestsOK(requests) /\ seeder \in Snapshooters
  BY DEF SeederInv
<1>3. PICK a : a = seeder.asked
  OBVIOUS
<1>4. Naming(seeder) /\ helper.jobs = <<a>> /\ helper.answers = <<>>
  BY <1>1, <1>2, <1>3 DEF HelperOK
<1>5. Tail(helper.jobs) = <<>> /\ Head(helper.jobs) = a /\ Append(helper.answers, a) = <<a>>
  BY <1>4
<1>6. PICK h : h = [jobs |-> <<>>, answers |-> <<a>>]
  OBVIOUS
<1>7. helper' = h
  BY <1>1, <1>5, <1>6
<1>8. h.jobs = <<>> /\ h.answers = <<a>> /\ h = [jobs |-> h.jobs, answers |-> h.answers]
  BY <1>6
<1>9. HelperOK(seeder, h)
  BY <1>2, <1>3, <1>4, <1>8 DEF HelperOK
<1> QED BY <1>1, <1>2, <1>7, <1>9, ThreadMoves

\* One set aside returns.
LEMMA StuckReturnsInv == ASSUME SeederInv, StuckReturns PROVE SeederInv'
<1>1. /\ stuck.hung > 0 /\ seeder' = seeder /\ helper' = helper /\ requests' = requests
      /\ UNCHANGED <<clock, rereads, spent>>
      /\ stuck' = [hung |-> stuck.hung - 1, back |-> stuck.back + 1]
  BY DEF StuckReturns
<1>2. HelperOK(seeder, helper) /\ StuckOK(seeder, stuck) /\ RequestsOK(requests) /\ seeder \in Snapshooters
  BY DEF SeederInv
<1>3. stuck.hung \in Nat /\ stuck.back \in Nat
  BY <1>2 DEF StuckOK
<1>4. PICK k : k = [hung |-> stuck.hung - 1, back |-> stuck.back + 1]
  OBVIOUS
<1>5. k.hung = stuck.hung - 1 /\ k.back = stuck.back + 1 /\ k \in [hung : Nat, back : Nat]
  BY <1>1, <1>3, <1>4
<1>6. StuckOK(seeder, k)
  BY <1>2, <1>3, <1>5, LimitsOK DEF StuckOK
<1> QED BY <1>1, <1>2, <1>4, <1>6, ThreadMoves

\* The thread goes on to the next handle, the helper having none.
LEMMA NextHandleOK ==
  ASSUME SeederInv, Naming(seeder), NEW got \in SUBSET (Nat \X Nat), \A pair \in got : pair[1] = pair[2],
         NEW s, s = NextHandle(got), NEW h, h.jobs = <<>>, h.answers = <<>>, h = [jobs |-> h.jobs, answers |-> h.answers]
  PROVE  /\ s \in Snapshooters /\ s.pc = "snapshot" /\ ~Naming(s) /\ HelperOK(s, h) /\ (Taking(s) => Taking(seeder))
<1>1. seeder \in Snapshooters /\ seeder.left \in Nat /\ seeder.left > 0
  BY DEF SeederInv, Snapshooters, HelperOK
<1>2. PICK l : l = seeder.left - 1
  OBVIOUS
<1>3. l \in Nat
  BY <1>1, <1>2
<1>4. s = [seeder EXCEPT !.pc = "snapshot", !.left = l, !.got = got, !.asked = NoHandle]
  BY <1>2 DEF NextHandle
<1>5. s \in Snapshooters
  <2>1. PICK q : q = seeder
    OBVIOUS
  <2>2. q \in Snapshooters /\ s = [q EXCEPT !.pc = "snapshot", !.left = l, !.got = got, !.asked = NoHandle]
    BY <1>1, <1>4, <2>1
  <2>3. PICK k, c, w : k = q.kind /\ c = q.charged /\ w = q.wake
    OBVIOUS
  <2>4. s = [pc |-> "snapshot", kind |-> k, left |-> l, asked |-> NoHandle, got |-> got, charged |-> c, wake |-> w]
    BY <2>2, <2>3 DEF Snapshooters
  <2>5. k \in HandleKinds \cup {"none"} /\ c \in BOOLEAN /\ w \in Nat
    BY <2>2, <2>3 DEF Snapshooters
  <2> QED BY <1>3, <2>4, <2>5 DEF Snapshooters, SeederPCs, NoHandle
<1>6. s.pc = "snapshot" /\ s.got = got /\ s.charged = seeder.charged
  BY <1>1, <1>4 DEF Snapshooters
<1> QED BY <1>5, <1>6 DEF HelperOK, Naming, Taking

\* An answer in the first wait is the one asked for.
LEMMA FirstWaitInv == ASSUME SeederInv, FirstWait PROVE SeederInv'
<1>1. /\ seeder.pc = "first" /\ requests' = requests /\ UNCHANGED <<clock, rereads, spent>> /\ stuck' = stuck
      /\ \/ /\ helper.answers # <<>> /\ helper' = [helper EXCEPT !.answers = Tail(@)]
            /\ seeder' = NextHandle({<<seeder.asked, Head(helper.answers)>>})
         \/ seeder' = [seeder EXCEPT !.pc = "second"] /\ helper' = helper
  BY DEF FirstWait
<1>2. /\ HelperOK(seeder, helper) /\ StuckOK(seeder, stuck) /\ RequestsOK(requests) /\ seeder \in Snapshooters
      /\ Naming(seeder)
  BY <1>1 DEF SeederInv, Naming
<1>3. CASE /\ helper.answers # <<>> /\ helper' = [helper EXCEPT !.answers = Tail(@)]
           /\ seeder' = NextHandle({<<seeder.asked, Head(helper.answers)>>})
  <2>1. PICK a : a = seeder.asked
    OBVIOUS
  <2>2. helper.jobs = <<>> /\ helper.answers = <<a>> /\ helper = [jobs |-> helper.jobs, answers |-> helper.answers] /\ a \in Nat
    BY <1>2, <1>3, <2>1 DEF HelperOK, Snapshooters
  <2>3. Tail(helper.answers) = <<>> /\ Head(helper.answers) = a
    BY <2>2
  <2>4. PICK got : got = {<<a, a>>}
    OBVIOUS
  <2>5. got \in SUBSET (Nat \X Nat) /\ \A pair \in got : pair[1] = pair[2]
    BY <2>2, <2>4
  <2>6. PICK s : s = NextHandle(got)
    OBVIOUS
  <2>7. seeder' = s
    BY <1>3, <2>1, <2>3, <2>4, <2>6
  <2>8. PICK h : h = helper'
    OBVIOUS
  <2>9. h = [jobs |-> <<>>, answers |-> <<>>]
    <3>1. PICK g : g = helper
      OBVIOUS
    <3>2. g = [jobs |-> <<>>, answers |-> <<a>>] /\ h = [g EXCEPT !.answers = <<>>]
      BY <1>3, <2>2, <2>3, <2>8, <3>1
    <3> QED BY <3>2
  <2>10. h.jobs = <<>> /\ h.answers = <<>> /\ h = [jobs |-> h.jobs, answers |-> h.answers]
    BY <2>9
  <2>11. s \in Snapshooters /\ s.pc = "snapshot" /\ ~Naming(s) /\ HelperOK(s, h) /\ (Taking(s) => Taking(seeder))
    BY <1>2, <2>5, <2>6, <2>10, NextHandleOK
  <2>12. StuckOK(s, stuck)
    BY <1>2, <2>11 DEF StuckOK
  <2> QED BY <1>1, <1>2, <2>7, <2>8, <2>11, <2>12, ThreadMoves
<1>4. CASE seeder' = [seeder EXCEPT !.pc = "second"] /\ helper' = helper
  <2>1. PICK s : s = [seeder EXCEPT !.pc = "second"]
    OBVIOUS
  <2>2. /\ s \in Snapshooters /\ s.pc = "second" /\ s.got = seeder.got /\ s.left = seeder.left /\ s.asked = seeder.asked
        /\ s.charged = seeder.charged
    BY <1>2, <2>1 DEF Snapshooters, SeederPCs
  <2>3. HelperOK(s, helper) /\ StuckOK(s, stuck) /\ (Taking(s) => Taking(seeder))
    BY <1>1, <1>2, <2>2 DEF HelperOK, StuckOK, Naming, Taking
  <2> QED BY <1>1, <1>2, <1>4, <2>1, <2>2, <2>3, ThreadMoves
<1> QED BY <1>1, <1>3, <1>4

\* A late answer is dropped, and a helper that gives none is set aside.
LEMMA SecondWaitInv == ASSUME SeederInv, SecondWait PROVE SeederInv'
<1>1. /\ seeder.pc = "second" /\ requests' = requests /\ UNCHANGED <<clock, rereads, spent>>
      /\ seeder' = NextHandle({})
      /\ \/ helper.answers # <<>> /\ helper' = [helper EXCEPT !.answers = Tail(@)] /\ stuck' = stuck
         \/ helper' = FreshHelper /\ stuck' = [stuck EXCEPT !.hung = @ + 1]
  BY DEF SecondWait, SetAside
<1>2. /\ HelperOK(seeder, helper) /\ StuckOK(seeder, stuck) /\ RequestsOK(requests) /\ seeder \in Snapshooters
      /\ Naming(seeder)
  BY <1>1 DEF SeederInv, Naming
<1>3. PICK s, h : s = NextHandle({}) /\ h = [jobs |-> <<>>, answers |-> <<>>]
  OBVIOUS
<1>4. h.jobs = <<>> /\ h.answers = <<>> /\ h = [jobs |-> h.jobs, answers |-> h.answers]
  BY <1>3
<1>5. s \in Snapshooters /\ s.pc = "snapshot" /\ ~Naming(s) /\ HelperOK(s, h) /\ (Taking(s) => Taking(seeder))
  BY <1>2, <1>3, <1>4, NextHandleOK
<1>6. helper' = h
  <2>1. CASE helper.answers # <<>> /\ helper' = [helper EXCEPT !.answers = Tail(@)]
    <3>1. PICK g, d, a : g = helper /\ d = helper' /\ a = seeder.asked
      OBVIOUS
    <3>2. g.jobs = <<>> /\ g.answers = <<a>> /\ g = [jobs |-> g.jobs, answers |-> g.answers]
      BY <1>2, <2>1, <3>1 DEF HelperOK
    <3>3. Tail(g.answers) = <<>>
      BY <3>2
    <3>4. g = [jobs |-> <<>>, answers |-> <<a>>] /\ d = [g EXCEPT !.answers = <<>>]
      BY <2>1, <3>1, <3>2, <3>3
    <3>5. d = [jobs |-> <<>>, answers |-> <<>>]
      BY <3>4
    <3> QED BY <1>3, <3>1, <3>5
  <2>2. CASE helper' = FreshHelper
    BY <1>3, <2>2 DEF FreshHelper
  <2> QED BY <1>1, <2>1, <2>2
<1>7. StuckOK(s, stuck')
  <2>1. CASE stuck' = stuck
    BY <1>2, <1>5, <2>1 DEF StuckOK
  <2>2. CASE stuck' = [stuck EXCEPT !.hung = @ + 1]
    <3>1. stuck.hung \in Nat /\ stuck.back \in Nat /\ stuck.hung + stuck.back < MaxStuck
      BY <1>2 DEF StuckOK
    <3>2. PICK n : n = stuck.hung + 1
      OBVIOUS
    <3>3. PICK k : k = [hung |-> n, back |-> stuck.back]
      OBVIOUS
    <3>4. stuck' = k
      <4>1. stuck' = [stuck EXCEPT !.hung = n] /\ stuck = [hung |-> stuck.hung, back |-> stuck.back]
        BY <1>2, <2>2, <3>2 DEF StuckOK
      <4> QED BY <3>3, <4>1
    <3>5. k.hung = n /\ k.back = stuck.back /\ k \in [hung : Nat, back : Nat]
      BY <3>1, <3>2, <3>3
    <3>6. StuckOK(s, k)
      BY <1>5, <3>1, <3>2, <3>5, LimitsOK DEF StuckOK
    <3> QED BY <3>4, <3>6
  <2> QED BY <1>1, <2>1, <2>2
<1> QED BY <1>1, <1>2, <1>3, <1>5, <1>6, <1>7, ThreadMoves

\* A snapshot ends, and a re-read is charged.
LEMMA SnapshotEndsInv == ASSUME SeederInv, NEW cpu \in 1..MaxCpu, SnapshotEnds(cpu) PROVE SeederInv'
<1>1. PICK charge : charge = [at |-> clock, cpu |-> cpu, before |-> Charged]
  OBVIOUS
<1>2. PICK s, sp : /\ s = [pc |-> "serve", kind |-> "none", left |-> 0, asked |-> NoHandle, got |-> {}, charged |-> FALSE, wake |-> 0]
                   /\ sp = IF seeder.charged THEN Append(spent, charge) ELSE spent
  OBVIOUS
<1>3. /\ seeder.pc = "snapshot" /\ seeder' = s /\ spent' = sp
      /\ clock' = clock /\ requests' = requests /\ rereads' = rereads /\ helper' = helper /\ stuck' = stuck
  <2>1. PICK d : d = [Receiving EXCEPT !.pc = "serve"]
    OBVIOUS
  <2>2. d = [pc |-> "serve", kind |-> "none", left |-> 0, asked |-> NoHandle, got |-> {}, charged |-> FALSE, wake |-> 0]
    BY <2>1 DEF Receiving
  <2>3. d = s
    BY <1>2, <2>2
  <2> QED BY <1>1, <1>2, <2>1, <2>3 DEF SnapshotEnds
<1>4. /\ SpentOK(spent, clock) /\ Kept(spent) /\ clock \in Nat /\ TurnsOK(seeder, rereads, spent, clock)
      /\ HelperOK(seeder, helper) /\ StuckOK(seeder, stuck) /\ ~Naming(seeder) /\ RequestsOK(requests)
      /\ Begun(seeder, spent)
  BY <1>3 DEF SeederInv, Naming
<1>5. s.pc = "serve" /\ s.got = {} /\ ~Taking(s) /\ ~Naming(s)
  BY <1>2 DEF Taking, Naming
<1>6. s \in Snapshooters
  BY <1>2 DEF Snapshooters, SeederPCs, NoHandle
<1>7. HelperOK(s, helper) /\ StuckOK(s, stuck) /\ Begun(s, sp)
  BY <1>4, <1>5 DEF HelperOK, StuckOK, Begun
<1>8. SpentOK(sp, clock) /\ Kept(sp) /\ TurnsOK(s, rereads, sp, clock)
  <2>1. CASE ~seeder.charged
    <3>1. sp = spent
      BY <1>2, <2>1
    <3> QED BY <1>4, <1>5, <3>1, TurnsKept
  <2>2. CASE seeder.charged
    <3>1. sp = Append(spent, charge)
      BY <1>2, <2>2
    <3>2. Taking(seeder) /\ (spent # <<>> => SpentNow(spent) < CpuLimit)
      BY <1>3, <1>4, <2>2 DEF Taking, Begun
    <3>3. charge = [at |-> clock, cpu |-> cpu, before |-> IF spent = <<>> THEN 0 ELSE Upto(spent[Len(spent)])]
      BY <1>1 DEF Charged
    <3>4. SpentOK(sp, clock) /\ Kept(sp)
      BY <1>4, <3>1, <3>2, <3>3, AppendSpent
    <3>5. sp \in Seq(Charges) /\ spent \in Seq(Charges) /\ Len(spent) \in Nat
      BY <1>4, <3>4 DEF SpentOK
    <3>6. \A j \in DOMAIN sp : sp[j].at = clock \/ (j \in DOMAIN spent /\ sp[j] = spent[j])
      <4>1. charge.at = clock
        BY <1>1
      <4>2. DOMAIN sp = 1..Len(spent) + 1 /\ DOMAIN spent = 1..Len(spent) /\ sp[Len(spent) + 1] = charge
        BY <3>1, <3>5
      <4>3. \A j \in 1..Len(spent) : sp[j] = spent[j]
        BY <3>1, <3>5
      <4> QED BY <3>5, <4>1, <4>2, <4>3
    <3>7. ASSUME NEW i \in DOMAIN rereads PROVE rereads[i].since <= clock /\ TurnOK(rereads[i], i, sp, clock)
      <4>1. rereads[i].passed = 1 /\ clock <= rereads[i].since + CpuWindow /\ rereads[i].since <= clock
            /\ TurnOK(rereads[i], i, spent, clock)
        BY <1>4, <3>2 DEF TurnsOK
      <4> QED BY <3>6, <4>1 DEF TurnOK
    <3> QED BY <1>4, <1>5, <3>4, <3>7 DEF TurnsOK
  <2> QED BY <2>1, <2>2
<1> QED BY <1>3, <1>4, <1>6, <1>7, <1>8 DEF SeederInv

\* Every step of the seeder.
LEMMA SeederStep == ASSUME SeederInv, SeederNext PROVE SeederInv'
BY TickInv, WakesInv, AskNameInv, QueryReturnsInv, StuckReturnsInv, FirstWaitInv, SecondWaitInv, SubmitSeedInv,
   TakeSeedInv, ServeInv, SnapshotEndsInv DEF SeederNext

\* The first state.
LEMMA SeederFirst == ASSUME SeederInit PROVE SeederInv
<1>1. /\ clock = 0 /\ requests = [jobs |-> <<>>, sent |-> 0, drops |-> 0] /\ rereads = <<>> /\ spent = <<>>
      /\ seeder = [pc |-> "recv", kind |-> "none", left |-> 0, asked |-> NoHandle, got |-> {}, charged |-> FALSE, wake |-> 0]
      /\ helper = [jobs |-> <<>>, answers |-> <<>>] /\ stuck = [hung |-> 0, back |-> 0]
  BY DEF SeederInit, Receiving, FreshHelper
<1>2. seeder \in Snapshooters
  BY <1>1 DEF Snapshooters, SeederPCs, NoHandle
<1>3. seeder.pc = "recv" /\ seeder.got = {}
  BY <1>1
<1>4. HelperOK(seeder, helper)
  BY <1>1, <1>3 DEF HelperOK, Naming
<1>5. StuckOK(seeder, stuck)
  BY <1>1, <1>3, LimitsOK DEF StuckOK, Naming
<1>6. RequestsOK(requests)
  BY <1>1 DEF RequestsOK
<1>7. SpentOK(spent, clock) /\ Kept(spent) /\ Begun(seeder, spent)
  BY <1>1, <1>3 DEF SpentOK, Kept, Begun
<1>8. TurnsOK(seeder, rereads, spent, clock)
  BY <1>1, <1>3 DEF TurnsOK, Taking
<1> QED BY <1>1, <1>2, <1>4, <1>5, <1>6, <1>7, <1>8 DEF SeederInv

\* The turns give the bounds on how long a kind waits.
LEMMA SeederHolds == ASSUME SeederInv PROVE SeederOK
<1>1. NamesMatch
  BY DEF SeederInv, HelperOK, StuckOK, NamesMatch
<1>2. BudgetKept
  BY DEF SeederInv, Kept, BudgetKept
<1>3. NeitherStarves
  <2> SUFFICES ASSUME NEW i \in DOMAIN rereads
               PROVE  rereads[i].passed <= 1 /\ clock - rereads[i].since <= 2 * CpuWindow
    BY DEF NeitherStarves
  <2>1. PICK turn : turn = rereads[i]
    OBVIOUS
  <2>2. turn \in Turns
    BY <2>1 DEF SeederInv, TurnsOK
  <2>3. turn.since \in Nat /\ turn.passed \in {0, 1}
    BY <2>2 DEF Turns
  <2>4. TurnOK(turn, i, spent, clock) /\ clock \in Nat
    BY <2>1 DEF SeederInv, TurnsOK
  <2>5. clock <= turn.since + 2 * CpuWindow
    BY <2>3, <2>4, LimitsOK DEF TurnOK
  <2> QED BY <2>1, <2>3, <2>4, <2>5, LimitsOK
<1> QED BY <1>1, <1>2, <1>3 DEF SeederOK

\* The seeder, in every state: an answer is of the handle it is taken for, at
\* most max_stuck helpers are set aside, no window's re-reads take more than the
\* limit and one snapshot, and a kind that waits is passed over once and served
\* within two windows (FileNamer, Budget, Waiting).
THEOREM SeederAlwaysOK == SeederSpec => []SeederOK
<1>1. SeederInv /\ [SeederNext]_seederVars => SeederInv'
  <2>1. SUFFICES ASSUME SeederInv, UNCHANGED seederVars PROVE SeederInv'
    BY SeederStep
  <2> QED BY <2>1 DEF SeederInv, seederVars
<1> QED BY <1>1, SeederFirst, SeederHolds, PTL DEF SeederSpec

-----------------------------------------------------------------------------
(* The expander: what the cache may hold once a change was applied           *)

Paths == Seq(Int)

\* A directory that has gone: it went with its file, the greater name.
IsDir(dk, x) == x \in DOMAIN dk.gone /\ \E y \in DOMAIN dk.gone : dk.gone[y] = dk.gone[x] /\ x < y
\* The files of the directory of now went one by one, after the directories before it.
DiskOK(dk) ==
    /\ dk = [d |-> dk.d, t |-> dk.t, gone |-> dk.gone]
    /\ IsFiniteSet(DOMAIN dk.gone) /\ IsFiniteSet(Range(dk.gone))
    /\ {dk.d, dk.t} \cup DOMAIN dk.gone \subseteq 1..Cardinality(DOMAIN dk.gone) + 2
    /\ dk.d < dk.t /\ dk.d \notin DOMAIN dk.gone /\ dk.t \notin DOMAIN dk.gone
    /\ \A x \in DOMAIN dk.gone : dk.gone[x] \in 1..Cardinality(Range(dk.gone))
    /\ \A x \in DOMAIN dk.gone : x > dk.d =>
          /\ \A y \in DOMAIN dk.gone : dk.gone[y] = dk.gone[x] => y = x
          /\ \A y \in DOMAIN dk.gone : y < dk.d => dk.gone[y] < dk.gone[x]

\* The path the n-th change was logged with.
DirPath(dk, p, n) ==
    \E x, y \in DOMAIN dk.gone :
        /\ x < y /\ dk.gone[x] = n /\ dk.gone[y] = n /\ \A z \in DOMAIN dk.gone : dk.gone[z] = n => z \in {x, y}
        /\ p \in {<<S>>, <<x>>}
FilePath(dk, p, n) ==
    \E x \in {dk.d} \cup DOMAIN dk.gone, y \in DOMAIN dk.gone :
        /\ dk.gone[y] = n /\ \A z \in DOMAIN dk.gone : dk.gone[z] = n => z = y
        /\ x \in DOMAIN dk.gone => x < dk.d /\ dk.gone[x] > n
        /\ p \in {<<a, b>> : a \in {S, x}, b \in {T, y}}
PathsOK(dk, ps, base) ==
    /\ ps \in Seq(Paths)
    /\ \A i \in DOMAIN ps : DirPath(dk, ps[i], base + i) \/ FilePath(dk, ps[i], base + i)

\* The cache: the short name of a directory, those of files by directory.
RootEntry(dk, k, v) == k = <<None, S>> /\ v <= dk.d /\ (v = dk.d \/ IsDir(dk, v))
DirEntry(dk, k, v) ==
    \E x \in {dk.d} \cup DOMAIN dk.gone : k = <<<<x>>, T>> /\ (x = dk.d => v > dk.d)
CacheShape(dk, c) ==
    /\ IsFiniteSet(DOMAIN c) /\ Cardinality(DOMAIN c) <= ExpandCap
    /\ \A k \in DOMAIN c : c[k] \in Nat \ {0} /\ (RootEntry(dk, k, c[k]) \/ DirEntry(dk, k, c[k]))
\* What went with the first n changes is in the cache no more, or under a
\* directory that went.
FreshTo(dk, c, n) ==
    \A k \in DOMAIN c : c[k] \in DOMAIN dk.gone /\ dk.gone[c[k]] <= n => \E j \in DOMAIN k[1] : k[1][j] \in DOMAIN dk.gone

\* The changes the cache has seen.
Applied(e, q) ==
    IF e.pc = "clear" THEN e.floor - Len(e.todo)
    ELSE IF e.pc = "walk" THEN e.floor
    ELSE IF q.lost THEN 0 ELSE q.submitted - Len(q.paths)

Walks == [pc : {"idle", "queued", "clear", "walk", "done", "failed"}, todo : Seq(Paths), left : Paths, out : Paths,
          asked : Paths, floor : Nat]
LongForm(out, asked) ==
    \A i \in DOMAIN out : IF IsShort(asked[i]) THEN ~IsShort(out[i]) ELSE out[i] = asked[i]
WalkOK(e) ==
    /\ e \in Walks
    /\ Len(e.asked) = Len(e.out) + Len(e.left) /\ LongForm(e.out, e.asked)
    /\ \A i \in DOMAIN e.left : e.left[i] = e.asked[Len(e.out) + i]
    /\ e.pc \in {"idle", "queued", "clear"} => e.out = <<>>
    /\ e.pc = "done" => e.left = <<>>
    /\ e.pc # "clear" => e.todo = <<>>
QueueOK(q) ==
    /\ q = [paths |-> q.paths, lost |-> q.lost, submitted |-> q.submitted]
    /\ q.paths \in Seq(Paths) /\ q.lost \in BOOLEAN /\ q.submitted \in Nat
    /\ Len(q.paths) <= InvCap /\ Len(q.paths) <= q.submitted /\ (q.lost => q.paths = <<>>)
FloorOK(e, q) ==
    /\ Len(e.todo) <= e.floor /\ e.floor <= q.submitted
    /\ e.pc \in {"clear", "walk"} /\ ~q.lost => e.floor = q.submitted - Len(q.paths)
OutFresh(dk, e) ==
    \A i \in DOMAIN e.out :
        IsShort(e.asked[i]) /\ e.out[i] \in DOMAIN dk.gone /\ dk.gone[e.out[i]] <= e.floor
            => \E j \in 1..(i - 1) : e.out[j] \in DOMAIN dk.gone
EntryOK(n, e) ==
    /\ n \in [nt : Paths, expanded : Paths, asked : Paths, asks : Nat]
    /\ n.expanded # <<>> => Len(n.expanded) = Len(n.nt) /\ LongForm(n.expanded, n.nt)
    /\ n.asked # <<>> => e.pc # "idle" /\ n.asked = e.asked

ExpandInv ==
    /\ DiskOK(volume) /\ QueueOK(inval) /\ Changed = inval.submitted + Len(changes)
    /\ PathsOK(volume, changes, inval.submitted)
    /\ PathsOK(volume, inval.paths, inval.submitted - Len(inval.paths))
    /\ PathsOK(volume, expander.todo, expander.floor - Len(expander.todo))
    /\ CacheShape(volume, names) /\ FreshTo(volume, names, Applied(expander, inval))
    /\ WalkOK(expander) /\ FloorOK(expander, inval) /\ OutFresh(volume, expander)
    /\ EntryOK(entry, expander)

-----------------------------------------------------------------------------
(* The disk                                                                  *)

\* The short names, and no name.
LEMMA ShortNames == S = -1 /\ T = -2 /\ IsShort(S) /\ IsShort(T) /\ S # T /\ None = <<>>
BY DEF S, T, IsShort, None

\* A change: what went has the next number, what had gone keeps its own.
Grown(a, b, n) ==
    /\ \A x \in DOMAIN a.gone : x \in DOMAIN b.gone /\ b.gone[x] = a.gone[x] /\ a.gone[x] < n
    /\ \A x \in DOMAIN b.gone : x \notin DOMAIN a.gone => b.gone[x] = n
    /\ a.d \notin DOMAIN a.gone /\ b.d \notin DOMAIN b.gone /\ a.d \in Nat /\ b.d \in Nat /\ a.d <= b.d
    /\ b.d = a.d \/ (b.d > a.d /\ IsDir(b, a.d))
    /\ \A x \in DOMAIN a.gone : (x \in Nat /\ x < b.d) \/ b.d = a.d
    /\ \A x \in {a.d} \cup DOMAIN a.gone : x = b.d => b.d = a.d

\* A path keeps its change.
LEMMA PathKept ==
  ASSUME NEW a, NEW b, NEW n \in Nat, Grown(a, b, n), NEW m \in Nat, m < n, NEW p
  PROVE  /\ DirPath(a, p, m) => DirPath(b, p, m)
         /\ FilePath(a, p, m) => FilePath(b, p, m)
<1>1. ASSUME DirPath(a, p, m) PROVE DirPath(b, p, m)
  <2>1. PICK x \in DOMAIN a.gone, y \in DOMAIN a.gone :
          /\ x < y /\ a.gone[x] = m /\ a.gone[y] = m /\ \A z \in DOMAIN a.gone : a.gone[z] = m => z \in {x, y}
          /\ p \in {<<S>>, <<x>>}
    BY <1>1 DEF DirPath
  <2>2. /\ x \in DOMAIN b.gone /\ y \in DOMAIN b.gone /\ b.gone[x] = m /\ b.gone[y] = m
    BY <2>1 DEF Grown
  <2>3. \A z \in DOMAIN b.gone : b.gone[z] = m => z \in {x, y}
    BY <2>1 DEF Grown
  <2> QED BY <2>1, <2>2, <2>3 DEF DirPath
<1>2. ASSUME FilePath(a, p, m) PROVE FilePath(b, p, m)
  <2>1. PICK x \in {a.d} \cup DOMAIN a.gone, y \in DOMAIN a.gone :
          /\ a.gone[y] = m /\ \A z \in DOMAIN a.gone : a.gone[z] = m => z = y
          /\ x \in DOMAIN a.gone => x < a.d /\ a.gone[x] > m
          /\ p \in {<<f, g>> : f \in {S, x}, g \in {T, y}}
    BY <1>2 DEF FilePath
  <2>2. y \in DOMAIN b.gone /\ b.gone[y] = m /\ \A z \in DOMAIN b.gone : b.gone[z] = m => z = y
    BY <2>1 DEF Grown
  <2>3. CASE x \in DOMAIN a.gone
    <3>1. x \in DOMAIN b.gone /\ b.gone[x] > m /\ x < b.d
      BY <2>1, <2>3 DEF Grown
    <3> QED BY <2>1, <2>2, <3>1 DEF FilePath
  <2>4. CASE x = a.d /\ b.d = a.d /\ x \notin DOMAIN a.gone /\ x \notin DOMAIN b.gone
    BY <2>1, <2>2, <2>4 DEF FilePath
  <2>5. CASE x = a.d /\ x \in DOMAIN b.gone /\ x < b.d
    <3>1. b.gone[x] = n
      BY <2>5 DEF Grown
    <3> QED BY <2>1, <2>2, <2>5, <3>1 DEF FilePath
  <2>6. x = a.d => (x \notin DOMAIN b.gone /\ b.d = a.d) \/ (x \in DOMAIN b.gone /\ x < b.d)
    <3>1. CASE b.d = a.d
      BY <3>1 DEF Grown
    <3>2. CASE b.d > a.d /\ IsDir(b, a.d)
      BY <3>2 DEF Grown, IsDir
    <3> QED BY <3>1, <3>2 DEF Grown
  <2> QED BY <2>1, <2>3, <2>4, <2>5, <2>6
<1> QED BY <1>1, <1>2

\* The cache keeps its shape, and is rid of no more and no less.
LEMMA CacheKept ==
  ASSUME NEW a, NEW b, NEW n \in Nat, Grown(a, b, n), NEW m \in Nat, m < n, NEW c, CacheShape(a, c), FreshTo(a, c, m)
  PROVE  CacheShape(b, c) /\ FreshTo(b, c, m)
<1>1. ASSUME NEW k \in DOMAIN c PROVE RootEntry(b, k, c[k]) \/ DirEntry(b, k, c[k])
  <2>1. PICK v : v = c[k]
    OBVIOUS
  <2>2. v \in Nat /\ (RootEntry(a, k, v) \/ DirEntry(a, k, v))
    BY <2>1 DEF CacheShape
  <2>3. CASE RootEntry(a, k, v)
    <3>1. k = <<None, S>> /\ v <= a.d /\ (v = a.d \/ IsDir(a, v))
      BY <2>3 DEF RootEntry
    <3>2. v <= b.d
      BY <2>2, <3>1 DEF Grown
    <3>3. IsDir(a, v) => IsDir(b, v)
      BY DEF IsDir, Grown
    <3>4. v = a.d => v = b.d \/ IsDir(b, v)
      BY DEF Grown
    <3> QED BY <2>1, <3>1, <3>2, <3>3, <3>4 DEF RootEntry
  <2>4. CASE DirEntry(a, k, v)
    <3>1. PICK x \in {a.d} \cup DOMAIN a.gone : k = <<<<x>>, T>> /\ (x = a.d => v > a.d)
      BY <2>4 DEF DirEntry
    <3>2. x \in {b.d} \cup DOMAIN b.gone
      BY DEF Grown, IsDir
    <3>3. x = b.d => v > b.d
      BY <3>1 DEF Grown
    <3> QED BY <2>1, <3>1, <3>2, <3>3 DEF DirEntry
  <2> QED BY <2>2, <2>3, <2>4
<1>2. CacheShape(b, c)
  BY <1>1 DEF CacheShape
<1>3. ASSUME NEW k \in DOMAIN c, c[k] \in DOMAIN b.gone, b.gone[c[k]] <= m
      PROVE  \E j \in DOMAIN k[1] : k[1][j] \in DOMAIN b.gone
  <2>1. c[k] \in DOMAIN a.gone /\ a.gone[c[k]] <= m
    BY <1>3 DEF Grown
  <2>2. PICK j \in DOMAIN k[1] : k[1][j] \in DOMAIN a.gone
    BY <2>1 DEF FreshTo
  <2> QED BY <2>2 DEF Grown
<1> QED BY <1>2, <1>3 DEF FreshTo

\* So is the answer that is being made.
LEMMA OutKept ==
  ASSUME NEW a, NEW b, NEW n \in Nat, Grown(a, b, n), NEW e, e.floor \in Nat, e.floor < n, OutFresh(a, e)
  PROVE  OutFresh(b, e)
<1> SUFFICES ASSUME NEW i \in DOMAIN e.out, IsShort(e.asked[i]), e.out[i] \in DOMAIN b.gone, b.gone[e.out[i]] <= e.floor
             PROVE  \E j \in 1..(i - 1) : e.out[j] \in DOMAIN b.gone
  BY DEF OutFresh
<1>1. e.out[i] \in DOMAIN a.gone /\ a.gone[e.out[i]] <= e.floor
  BY DEF Grown
<1>2. PICK j \in 1..(i - 1) : e.out[j] \in DOMAIN a.gone
  BY <1>1 DEF OutFresh
<1> QED BY <1>2 DEF Grown

\* The numbers of names and changes on the disk.
LEMMA DiskFacts ==
  ASSUME DiskOK(volume), NEW g, g = volume.gone, NEW d, d = volume.d, NEW t, t = volume.t, NEW n, n = Changed, NEW x, x = NextName
  PROVE  /\ volume = [d |-> d, t |-> t, gone |-> g] /\ IsFiniteSet(DOMAIN g) /\ IsFiniteSet(Range(g))
         /\ n = Cardinality(Range(g)) /\ n \in Nat /\ x = Cardinality(DOMAIN g) + 3 /\ x \in Nat
         /\ d \in 1..x - 1 /\ t \in 1..x - 1 /\ d < t /\ d \notin DOMAIN g /\ t \notin DOMAIN g
         /\ \A y \in DOMAIN g : y \in 1..x - 1 /\ g[y] \in 1..n
         /\ \A y \in DOMAIN g : y > d => \A z \in DOMAIN g : (g[z] = g[y] => z = y) /\ (z < d => g[z] < g[y])
<1>1. IsFiniteSet(DOMAIN g) /\ IsFiniteSet(Range(g))
  BY DEF DiskOK
<1>2. Cardinality(DOMAIN g) \in Nat /\ Cardinality(Range(g)) \in Nat
  BY <1>1, FS_CardinalityType
<1>3. n = Cardinality(Range(g)) /\ x = Cardinality(DOMAIN g) + 3
  BY DEF Changed, NextName
<1>4. \A y \in {d, t} \cup DOMAIN g : y \in 1..x - 1
  <2>1. {d, t} \cup DOMAIN g \subseteq 1..Cardinality(DOMAIN g) + 2
    BY DEF DiskOK
  <2> QED BY <1>2, <1>3, <2>1
<1>5. /\ volume = [d |-> d, t |-> t, gone |-> g] /\ d < t /\ d \notin DOMAIN g /\ t \notin DOMAIN g
      /\ \A y \in DOMAIN g : g[y] \in 1..n
      /\ \A y \in DOMAIN g : y > d => \A z \in DOMAIN g : (g[z] = g[y] => z = y) /\ (z < d => g[z] < g[y])
  BY <1>3 DEF DiskOK
<1> QED BY <1>1, <1>2, <1>3, <1>4, <1>5

\* Names that go with one change.
GrewBy(g, keys, m, h) ==
    /\ DOMAIN h = DOMAIN g \cup keys /\ IsFiniteSet(DOMAIN h) /\ IsFiniteSet(Range(h))
    /\ Cardinality(DOMAIN h) = Cardinality(DOMAIN g) + Cardinality(keys)
    /\ Cardinality(Range(h)) = Cardinality(Range(g)) + 1
    /\ (\A y \in DOMAIN g : h[y] = g[y]) /\ (\A z \in keys : h[z] = m)

\* They are new names and a new number.
LEMMA GoneWith ==
  ASSUME NEW g, NEW keys, NEW m, IsFiniteSet(DOMAIN g), IsFiniteSet(Range(g)), m \notin Range(g),
         IsFiniteSet(keys), keys # {}, keys \cap DOMAIN g = {}
  PROVE  GrewBy(g, keys, m, WithAll(g, keys, m))
<1> DEFINE h == WithAll(g, keys, m)
<1>1. DOMAIN h = DOMAIN g \cup keys
  BY DEF WithAll
<1>2. \A y \in DOMAIN g : h[y] = g[y]
  BY DEF WithAll
<1>3. \A y \in keys : h[y] = m
  BY DEF WithAll
<1>4. PICK D, E, I : D = DOMAIN g /\ E = DOMAIN h /\ I = D \cap keys
  OBVIOUS
<1>5. E = D \cup keys /\ I = {} /\ IsFiniteSet(D)
  BY <1>1, <1>4
<1>6. IsFiniteSet(I) /\ Cardinality(I) = 0
  BY <1>5, FS_EmptySet
<1>7. IsFiniteSet(E) /\ Cardinality(E) = Cardinality(D) + Cardinality(keys) - Cardinality(I)
  BY <1>4, <1>5, FS_Union
<1>8. Cardinality(E) = Cardinality(D) + Cardinality(keys)
  <2>1. Cardinality(D) \in Nat /\ Cardinality(keys) \in Nat
    BY <1>5, FS_CardinalityType
  <2> QED BY <1>6, <1>7, <2>1
<1>9. PICK P, Q : P = Range(g) /\ Q = Range(h)
  OBVIOUS
<1>10. Q = P \cup {m}
  <2>1. \A y \in P : y \in Q
    BY <1>1, <1>2, <1>9 DEF Range
  <2>2. m \in Q
    BY <1>1, <1>3, <1>9 DEF Range
  <2>3. \A y \in Q : y \in P \/ y = m
    BY <1>1, <1>2, <1>3, <1>9 DEF Range
  <2> QED BY <2>1, <2>2, <2>3
<1>11. IsFiniteSet(Q) /\ Cardinality(Q) = Cardinality(P) + 1
  <2>1. IsFiniteSet(P) /\ m \notin P
    BY <1>9
  <2> QED BY <1>10, <2>1, FS_AddElement
<1> QED BY <1>1, <1>2, <1>3, <1>4, <1>7, <1>8, <1>9, <1>11 DEF GrewBy

\* A directory goes with its file.
LEMMA DirGoes ==
  ASSUME DiskOK(volume), NEW b, b = [d |-> NextName, t |-> NextName + 1, gone |-> WithAll(volume.gone, {volume.d, volume.t}, Changed + 1)],
         NEW path \in PathsTo("dir")
  PROVE  /\ DiskOK(b) /\ Grown(volume, b, Changed + 1) /\ Cardinality(Range(b.gone)) = Changed + 1
         /\ path \in Paths /\ DirPath(b, path, Changed + 1)
<1>1. PICK g, d, t, n, x : g = volume.gone /\ d = volume.d /\ t = volume.t /\ n = Changed /\ x = NextName
  OBVIOUS
<1>2. /\ volume = [d |-> d, t |-> t, gone |-> g] /\ IsFiniteSet(DOMAIN g) /\ IsFiniteSet(Range(g))
      /\ n = Cardinality(Range(g)) /\ n \in Nat /\ x = Cardinality(DOMAIN g) + 3 /\ x \in Nat
      /\ d \in 1..x - 1 /\ t \in 1..x - 1 /\ d < t /\ d \notin DOMAIN g /\ t \notin DOMAIN g
      /\ \A y \in DOMAIN g : y \in 1..x - 1 /\ g[y] \in 1..n
      /\ \A y \in DOMAIN g : y > d => \A z \in DOMAIN g : (g[z] = g[y] => z = y) /\ (z < d => g[z] < g[y])
  BY <1>1, DiskFacts
<1>3. PICK keys, h : keys = {d, t} /\ h = WithAll(g, keys, n + 1)
  OBVIOUS
<1>4. IsFiniteSet(keys) /\ Cardinality(keys) = 2 /\ keys # {} /\ keys \cap DOMAIN g = {}
  <2>1. PICK one : one = {d}
    OBVIOUS
  <2>2. IsFiniteSet(one) /\ Cardinality(one) = 1
    BY <2>1, FS_Singleton
  <2>3. keys = one \cup {t} /\ t \notin one
    BY <1>2, <1>3, <2>1
  <2>4. IsFiniteSet(keys) /\ Cardinality(keys) = Cardinality(one) + 1
    BY <2>2, <2>3, FS_AddElement
  <2> QED BY <1>2, <1>3, <2>2, <2>4
<1>5. /\ DOMAIN h = DOMAIN g \cup keys /\ IsFiniteSet(DOMAIN h) /\ IsFiniteSet(Range(h))
      /\ Cardinality(DOMAIN h) = Cardinality(DOMAIN g) + Cardinality(keys) /\ Cardinality(Range(h)) = n + 1
      /\ (\A y \in DOMAIN g : h[y] = g[y]) /\ (\A z \in keys : h[z] = n + 1)
  <2>1. IsFiniteSet(DOMAIN g) /\ IsFiniteSet(Range(g))
    BY <1>2
  <2>3. PICK m : m = n + 1
    OBVIOUS
  <2>7. m \notin Range(g)
    <3>1. \A y \in DOMAIN g : g[y] # m
      BY <1>2, <2>3
    <3> QED BY <3>1 DEF Range
  <2>5. h = WithAll(g, keys, m)
    BY <1>3, <2>3
  <2>4. IsFiniteSet(keys) /\ keys # {} /\ keys \cap DOMAIN g = {}
    BY <1>4
  <2>6. GrewBy(g, keys, m, h)
    BY <2>1, <2>4, <2>5, <2>7, GoneWith
  <2> QED BY <1>2, <2>3, <2>6 DEF GrewBy
<1>6. b = [d |-> x, t |-> x + 1, gone |-> h]
  BY <1>1, <1>3
<1>7. b.d = x /\ b.t = x + 1 /\ b.gone = h
  BY <1>6
<1>8. Cardinality(DOMAIN h) + 2 = x + 1
  <2>1. Cardinality(DOMAIN g) \in Nat
    BY <1>2, FS_CardinalityType
  <2> QED BY <1>2, <1>4, <1>5, <2>1
<1>9. /\ \A y \in keys : h[y] = n + 1 /\ y \in 1..x - 1 /\ y \notin DOMAIN g
      /\ \A y \in DOMAIN h : y \in DOMAIN g \/ y \in keys
  <2>1. \A y \in keys : h[y] = n + 1
    <3>1. CASE DOMAIN g = {}
      BY <1>2, <1>3, <3>1 DEF WithAll
    <3>2. CASE DOMAIN g # {}
      BY <1>5, <3>2
    <3> QED BY <3>1, <3>2
  <2> QED BY <1>2, <1>3, <1>5, <2>1
<1>10. \A y \in DOMAIN g : h[y] = g[y] /\ y \in DOMAIN h /\ g[y] < n + 1 /\ y < x
  BY <1>2, <1>5
<1>11. \A y \in DOMAIN h : y \in 1..x - 1 /\ h[y] \in 1..n + 1
  <2>1. \A y \in DOMAIN g : y \in 1..x - 1 /\ h[y] \in 1..n + 1
    BY <1>2, <1>5
  <2>2. \A y \in keys : y \in 1..x - 1 /\ h[y] \in 1..n + 1
    BY <1>2, <1>9
  <2> QED BY <1>9, <2>1, <2>2
<1>12. x \notin DOMAIN h /\ x + 1 \notin DOMAIN h
  BY <1>2, <1>11
<1>13. {x, x + 1} \cup DOMAIN h \subseteq 1..Cardinality(DOMAIN h) + 2
  BY <1>2, <1>8, <1>11
<1>14. \A y \in DOMAIN h : ~(y > x)
  BY <1>2, <1>11
<1>15. DiskOK(b)
  <2>1. x < x + 1
    BY <1>2
  <2>2. b = [d |-> b.d, t |-> b.t, gone |-> b.gone]
    BY <1>6, <1>7
  <2> QED BY <1>5, <1>7, <1>11, <1>12, <1>13, <1>14, <2>1, <2>2 DEF DiskOK
<1>16. d \in DOMAIN h /\ t \in DOMAIN h /\ h[d] = n + 1 /\ h[t] = n + 1
  BY <1>3, <1>5, <1>9
<1>17. IsDir(b, d)
  BY <1>2, <1>7, <1>16 DEF IsDir
<1>18. Grown(volume, b, n + 1)
  <2>1. \A y \in DOMAIN h : y \notin DOMAIN g => h[y] = n + 1
    BY <1>9
  <2>2. d \in Nat /\ x \in Nat /\ d < x
    BY <1>2
  <2>3. \A y \in {d} \cup DOMAIN g : y # x
    BY <1>2, <1>10
  <2>4. \A y \in DOMAIN g : y \in Nat /\ y < x
    BY <1>2
  <2>5. d \notin DOMAIN g /\ x \notin DOMAIN h /\ d <= x /\ x > d
    BY <1>2, <1>12
  <2>6. \A y \in DOMAIN g : y \in DOMAIN h /\ h[y] = g[y] /\ g[y] < n + 1
    BY <1>10
  <2>7. volume.d = d /\ volume.gone = g
    BY <1>1
  <2>8. \A y \in {d} \cup DOMAIN g : y = x => x = d
    BY <2>3
  <2> QED BY <1>7, <1>17, <2>1, <2>2, <2>4, <2>5, <2>6, <2>7, <2>8 DEF Grown
<1>19. path \in {<<S>>, <<d>>}
  BY <1>1 DEF PathsTo
<1>20. path \in Paths
  <2>1. S \in Int /\ d \in Int
    BY <1>2, ShortNames
  <2>2. <<S>> \in Paths /\ <<d>> \in Paths
    BY <2>1 DEF Paths
  <2> QED BY <1>19, <2>2
<1>21. DirPath(b, path, n + 1)
  <2>1. \A z \in DOMAIN h : h[z] = n + 1 => z \in {d, t}
    <3>1. ASSUME NEW z \in DOMAIN g PROVE h[z] # n + 1
      <4>1. g[z] \in 1..n /\ h[z] = g[z] /\ n \in Nat
        BY <1>2, <1>10
      <4> QED BY <4>1
    <3>2. \A z \in DOMAIN h : z \in DOMAIN g \/ z \in keys
      BY <1>9
    <3>3. \A z \in keys : z \in {d, t}
      BY <1>3
    <3> QED BY <3>1, <3>2, <3>3
  <2> QED BY <1>2, <1>7, <1>16, <1>19, <2>1 DEF DirPath
<1> QED BY <1>1, <1>5, <1>7, <1>15, <1>18, <1>20, <1>21

\* A file goes alone.
LEMMA FileGoes ==
  ASSUME DiskOK(volume), NEW b, b = [d |-> volume.d, t |-> NextName, gone |-> WithAll(volume.gone, {volume.t}, Changed + 1)],
         NEW path \in PathsTo("file")
  PROVE  /\ DiskOK(b) /\ Grown(volume, b, Changed + 1) /\ Cardinality(Range(b.gone)) = Changed + 1
         /\ path \in Paths /\ FilePath(b, path, Changed + 1)
<1>1. PICK g, d, t, n, x : g = volume.gone /\ d = volume.d /\ t = volume.t /\ n = Changed /\ x = NextName
  OBVIOUS
<1>2. /\ volume = [d |-> d, t |-> t, gone |-> g] /\ IsFiniteSet(DOMAIN g) /\ IsFiniteSet(Range(g))
      /\ n = Cardinality(Range(g)) /\ n \in Nat /\ x = Cardinality(DOMAIN g) + 3 /\ x \in Nat
      /\ d \in 1..x - 1 /\ t \in 1..x - 1 /\ d < t /\ d \notin DOMAIN g /\ t \notin DOMAIN g
      /\ \A y \in DOMAIN g : y \in 1..x - 1 /\ g[y] \in 1..n
      /\ \A y \in DOMAIN g : y > d => \A z \in DOMAIN g : (g[z] = g[y] => z = y) /\ (z < d => g[z] < g[y])
  BY <1>1, DiskFacts
<1>3. PICK keys, h : keys = {t} /\ h = WithAll(g, keys, n + 1)
  OBVIOUS
<1>4. IsFiniteSet(keys) /\ Cardinality(keys) = 1 /\ keys # {} /\ keys \cap DOMAIN g = {}
  BY <1>2, <1>3, FS_Singleton
<1>5. /\ DOMAIN h = DOMAIN g \cup keys /\ IsFiniteSet(DOMAIN h) /\ IsFiniteSet(Range(h))
      /\ Cardinality(DOMAIN h) = Cardinality(DOMAIN g) + Cardinality(keys) /\ Cardinality(Range(h)) = n + 1
      /\ (\A y \in DOMAIN g : h[y] = g[y]) /\ (\A z \in keys : h[z] = n + 1)
  <2>1. IsFiniteSet(DOMAIN g) /\ IsFiniteSet(Range(g))
    BY <1>2
  <2>3. PICK m : m = n + 1
    OBVIOUS
  <2>7. m \notin Range(g)
    <3>1. \A y \in DOMAIN g : g[y] # m
      BY <1>2, <2>3
    <3> QED BY <3>1 DEF Range
  <2>5. h = WithAll(g, keys, m)
    BY <1>3, <2>3
  <2>4. IsFiniteSet(keys) /\ keys # {} /\ keys \cap DOMAIN g = {}
    BY <1>4
  <2>6. GrewBy(g, keys, m, h)
    BY <2>1, <2>4, <2>5, <2>7, GoneWith
  <2> QED BY <1>2, <2>3, <2>6 DEF GrewBy
<1>6. b = [d |-> d, t |-> x, gone |-> h]
  BY <1>1, <1>3
<1>7. b.d = d /\ b.t = x /\ b.gone = h
  BY <1>6
<1>8. Cardinality(DOMAIN h) + 2 = x
  <2>1. Cardinality(DOMAIN g) \in Nat
    BY <1>2, FS_CardinalityType
  <2> QED BY <1>2, <1>4, <1>5, <2>1
<1>9. h[t] = n + 1 /\ t \in DOMAIN h /\ \A y \in DOMAIN h : y \in DOMAIN g \/ y = t
  <2>1. h[t] = n + 1
    BY <1>2, <1>3 DEF WithAll
  <2> QED BY <1>3, <1>5, <2>1
<1>10. \A y \in DOMAIN g : h[y] = g[y] /\ y \in DOMAIN h /\ g[y] < n + 1 /\ y < x
  BY <1>2, <1>5
<1>11. \A y \in DOMAIN h : y \in 1..x - 1 /\ h[y] \in 1..n + 1
  <2>1. \A y \in DOMAIN g : y \in 1..x - 1 /\ h[y] \in 1..n + 1
    BY <1>2, <1>5
  <2>2. t \in 1..x - 1 /\ h[t] \in 1..n + 1
    BY <1>2, <1>9
  <2> QED BY <1>9, <2>1, <2>2
<1>12. x \notin DOMAIN h /\ d \notin DOMAIN h /\ d < x
  BY <1>2, <1>9, <1>11
<1>13. {d, x} \cup DOMAIN h \subseteq 1..Cardinality(DOMAIN h) + 2
  BY <1>2, <1>8, <1>11
<1>14. ASSUME NEW y \in DOMAIN h, y > d, NEW z \in DOMAIN h
       PROVE  (h[z] = h[y] => z = y) /\ (z < d => h[z] < h[y])
  <2>1. CASE y \in DOMAIN g /\ z \in DOMAIN g
    BY <1>2, <1>10, <1>14, <2>1
  <2>2. CASE y = t /\ z \in DOMAIN g
    <3>1. h[z] = g[z] /\ g[z] < n + 1 /\ h[y] = n + 1 /\ g[z] \in 1..n
      BY <1>2, <1>9, <1>10, <2>2
    <3> QED BY <1>2, <3>1
  <2>3. CASE y \in DOMAIN g /\ z = t
    <3>1. h[y] = g[y] /\ g[y] \in 1..n /\ h[z] = n + 1
      BY <1>2, <1>9, <1>10, <2>3
    <3> QED BY <1>2, <2>3, <3>1
  <2>4. CASE y = t /\ z = t
    BY <1>2, <2>4
  <2> QED BY <1>9, <2>1, <2>2, <2>3, <2>4
<1>15. DiskOK(b)
  <2>1. b = [d |-> b.d, t |-> b.t, gone |-> b.gone]
    BY <1>6, <1>7
  <2>2. \A y \in DOMAIN b.gone : y > b.d =>
          /\ \A z \in DOMAIN b.gone : b.gone[z] = b.gone[y] => z = y
          /\ \A z \in DOMAIN b.gone : z < b.d => b.gone[z] < b.gone[y]
    BY <1>7, <1>14
  <2>3. \A y \in DOMAIN b.gone : b.gone[y] \in 1..Cardinality(Range(b.gone))
    BY <1>5, <1>7, <1>11
  <2>4. b.d < b.t /\ b.d \notin DOMAIN b.gone /\ b.t \notin DOMAIN b.gone
    BY <1>7, <1>12
  <2>5. {b.d, b.t} \cup DOMAIN b.gone \subseteq 1..Cardinality(DOMAIN b.gone) + 2
    BY <1>7, <1>13
  <2>6. IsFiniteSet(DOMAIN b.gone) /\ IsFiniteSet(Range(b.gone))
    BY <1>5, <1>7
  <2> QED BY <2>1, <2>2, <2>3, <2>4, <2>5, <2>6 DEF DiskOK
<1>16. Grown(volume, b, n + 1)
  <2>1. \A y \in DOMAIN h : y \notin DOMAIN g => h[y] = n + 1
    BY <1>9
  <2>2. d \in Nat
    BY <1>2
  <2> QED BY <1>1, <1>2, <1>7, <1>10, <1>12, <2>1, <2>2 DEF Grown
<1>17. path \in {<<c1, c2>> : c1 \in {S, d}, c2 \in {T, t}}
  <2>1. path \in {S, d} \X {T, t}
    BY <1>1 DEF PathsTo
  <2>2. PICK c1 \in {S, d}, c2 \in {T, t} : path = <<c1, c2>>
    BY <2>1
  <2> QED BY <2>2
<1>18. path \in Paths
  <2>1. PICK c1 \in {S, d}, c2 \in {T, t} : path = <<c1, c2>>
    BY <1>17
  <2>2. c1 \in Int /\ c2 \in Int
    BY <1>2, ShortNames
  <2> QED BY <2>1, <2>2 DEF Paths
<1>19. FilePath(b, path, n + 1)
  <2>1. \A z \in DOMAIN h : h[z] = n + 1 => z = t
    BY <1>2, <1>9, <1>10
  <2>2. d \in {b.d} \cup DOMAIN b.gone /\ t \in DOMAIN b.gone /\ d \notin DOMAIN b.gone
    BY <1>7, <1>9, <1>12
  <2> QED BY <1>7, <1>9, <1>17, <2>1, <2>2 DEF FilePath
<1> QED BY <1>1, <1>5, <1>7, <1>15, <1>16, <1>18, <1>19

\* Paths logged before keep their changes.
LEMMA PathsKept ==
  ASSUME NEW a, NEW b, NEW n \in Nat, Grown(a, b, n), NEW base \in Nat, NEW ps, PathsOK(a, ps, base), base + Len(ps) < n
  PROVE  PathsOK(b, ps, base)
<1>1. ps \in Seq(Paths) /\ DOMAIN ps = 1..Len(ps) /\ Len(ps) \in Nat
  BY DEF PathsOK
<1>2. ASSUME NEW i \in DOMAIN ps PROVE DirPath(b, ps[i], base + i) \/ FilePath(b, ps[i], base + i)
  <2>1. PICK m, p : m = base + i /\ p = ps[i]
    OBVIOUS
  <2>2. m \in Nat /\ m < n
    BY <1>1, <2>1
  <2>3. DirPath(a, p, m) \/ FilePath(a, p, m)
    BY <2>1 DEF PathsOK
  <2> QED BY <2>1, <2>2, <2>3, PathKept
<1> QED BY <1>1, <1>2 DEF PathsOK
-----------------------------------------------------------------------------
(* The cache                                                                 *)

\* An empty cache.
LEMMA EmptyCache ==
  ASSUME NEW dk, NEW n
  PROVE  CacheShape(dk, <<>>) /\ FreshTo(dk, <<>>, n)
<1>1. PICK none : none = {}
  OBVIOUS
<1>2. IsFiniteSet(none) /\ Cardinality(none) = 0
  BY <1>1, FS_EmptySet
<1>3. DOMAIN <<>> = none
  BY <1>1
<1>4. ExpandCap \in Nat
  BY ExpandAssumption
<1> QED BY <1>1, <1>2, <1>3, <1>4 DEF CacheShape, FreshTo

\* A cache without some of its entries.
LEMMA FewerCached ==
  ASSUME NEW dk, NEW c, CacheShape(dk, c), NEW n, FreshTo(dk, c, n), NEW keys, NEW f, f = Without(c, keys)
  PROVE  /\ CacheShape(dk, f) /\ FreshTo(dk, f, n) /\ DOMAIN f = DOMAIN c \ keys
         /\ \A k \in DOMAIN f : f[k] = c[k]
<1>1. DOMAIN f = DOMAIN c \ keys /\ \A k \in DOMAIN f : f[k] = c[k]
  BY DEF Without, Restrict
<1>2. PICK D, E : D = DOMAIN c /\ E = DOMAIN f
  OBVIOUS
<1>3. IsFiniteSet(D) /\ Cardinality(D) <= ExpandCap
  BY <1>2 DEF CacheShape
<1>4. E \subseteq D
  BY <1>1, <1>2
<1>5. IsFiniteSet(E) /\ Cardinality(E) <= Cardinality(D)
  BY <1>3, <1>4, FS_Subset
<1>6. Cardinality(E) \in Nat /\ Cardinality(D) \in Nat /\ ExpandCap \in Nat
  BY <1>3, <1>5, FS_CardinalityType, ExpandAssumption
<1>7. IsFiniteSet(DOMAIN f) /\ Cardinality(DOMAIN f) <= ExpandCap
  BY <1>2, <1>3, <1>5, <1>6
<1>8. CacheShape(dk, f)
  BY <1>1, <1>7 DEF CacheShape
<1>9. FreshTo(dk, f, n)
  BY <1>1 DEF FreshTo
<1> QED BY <1>1, <1>8, <1>9

\* The directory of now is gone never; what went in it went last.
LEMMA DiskOrder ==
  ASSUME NEW dk, DiskOK(dk)
  PROVE  /\ dk.d \notin DOMAIN dk.gone /\ dk.d \in Nat \ {0} /\ dk.t \in Nat \ {0} /\ dk.d < dk.t /\ dk.t \notin DOMAIN dk.gone
         /\ \A x \in DOMAIN dk.gone : x \in Nat \ {0} /\ dk.gone[x] \in Nat \ {0}
         /\ \A x \in DOMAIN dk.gone : x > dk.d => \A y \in DOMAIN dk.gone : dk.gone[y] = dk.gone[x] => y = x
         /\ \A x \in DOMAIN dk.gone : x > dk.d => \A y \in DOMAIN dk.gone : y < dk.d => dk.gone[y] < dk.gone[x]
<1>1. Cardinality(DOMAIN dk.gone) \in Nat /\ Cardinality(Range(dk.gone)) \in Nat
  BY FS_CardinalityType DEF DiskOK
<1> QED BY <1>1 DEF DiskOK

\* A directory's change finds every entry that names it.
LEMMA DirFound ==
  ASSUME NEW dk, DiskOK(dk), NEW c, CacheShape(dk, c), NEW n, NEW p, DirPath(dk, p, n), NEW long \in Resolved(c, p),
         NEW k \in DOMAIN c, c[k] \in DOMAIN dk.gone, dk.gone[c[k]] = n, ~\E j \in DOMAIN k[1] : k[1][j] \in DOMAIN dk.gone
  PROVE  Append(k[1], c[k]) = long
<1>1. PICK x \in DOMAIN dk.gone, y \in DOMAIN dk.gone :
        /\ x < y /\ dk.gone[x] = n /\ dk.gone[y] = n /\ \A z \in DOMAIN dk.gone : dk.gone[z] = n => z \in {x, y}
        /\ p \in {<<S>>, <<x>>}
  BY DEF DirPath
<1>2. PICK v : v = c[k]
  OBVIOUS
<1>3. v \in {x, y} /\ v \in DOMAIN dk.gone /\ dk.gone[v] = n
  BY <1>1, <1>2
<1>4. x \in Nat /\ y \in Nat /\ x # 0
  BY <1>1, DiskOrder
<1>5. RootEntry(dk, k, v) \/ DirEntry(dk, k, v)
  BY <1>2 DEF CacheShape
<1>6. CASE RootEntry(dk, k, v)
  <2>1. k = <<None, S>> /\ IsDir(dk, v)
    BY <1>3, <1>6, DiskOrder DEF RootEntry
  <2>2. PICK w \in DOMAIN dk.gone : dk.gone[w] = n /\ v < w
    BY <1>3, <2>1 DEF IsDir
  <2>3. v = x
    BY <1>1, <1>3, <1>4, <2>2
  <2>4. k[1] = <<>> /\ k[2] = S
    BY <2>1, ShortNames
  <2>5. Append(k[1], c[k]) = <<x>>
    BY <1>2, <2>3, <2>4
  <2>6. long \in [DOMAIN p -> Range(p) \cup Range(c)]
    BY DEF Resolved
  <2>7. DOMAIN p = 1..1 /\ Len(p) = 1 /\ (p[1] = S \/ p[1] = x)
    BY <1>1
  <2>8. long[1] = x
    <3>1. CASE p[1] = x
      <4>1. ~IsShort(x)
        BY <1>4 DEF IsShort
      <4> QED BY <2>7, <3>1, <4>1 DEF Resolved
    <3>2. CASE p[1] = S
      <4>1. long[1] = c[Key(SubSeq(long, 1, 0), S)]
        BY <2>7, <3>2, ShortNames DEF Resolved
      <4>2. SubSeq(long, 1, 0) = <<>>
        OBVIOUS
      <4>3. Key(SubSeq(long, 1, 0), S) = k
        BY <2>1, <4>2, ShortNames DEF Key
      <4> QED BY <1>2, <2>3, <4>1, <4>3
    <3> QED BY <2>7, <3>1, <3>2
  <2>9. long = <<x>>
    BY <2>6, <2>7, <2>8
  <2> QED BY <2>5, <2>9
<1>7. CASE DirEntry(dk, k, v)
  <2>1. PICK z \in {dk.d} \cup DOMAIN dk.gone : k = <<<<z>>, T>> /\ (z = dk.d => v > dk.d)
    BY <1>7 DEF DirEntry
  <2>2. k[1] = <<z>>
    BY <2>1
  <2>3. z \notin DOMAIN dk.gone
    BY <2>2
  <2>4. v > dk.d
    BY <2>1, <2>3
  <2>5. \A w \in DOMAIN dk.gone : dk.gone[w] = n => w = v
    BY <1>3, <2>4, DiskOrder
  <2>6. x = v /\ y = v
    BY <1>1, <2>5
  <2> QED BY <1>1, <1>4, <2>6
<1> QED BY <1>5, <1>6, <1>7

\* So does a file's: its directory is the one of now, and the cache knows it.
LEMMA FileFound ==
  ASSUME NEW dk, DiskOK(dk), NEW c, CacheShape(dk, c), NEW n \in Nat, FreshTo(dk, c, n - 1), NEW p, FilePath(dk, p, n),
         NEW long \in Resolved(c, p),
         NEW k \in DOMAIN c, c[k] \in DOMAIN dk.gone, dk.gone[c[k]] = n, ~\E j \in DOMAIN k[1] : k[1][j] \in DOMAIN dk.gone
  PROVE  Append(k[1], c[k]) = long
<1>1. PICK x \in {dk.d} \cup DOMAIN dk.gone, y \in DOMAIN dk.gone :
        /\ dk.gone[y] = n /\ \A z \in DOMAIN dk.gone : dk.gone[z] = n => z = y
        /\ x \in DOMAIN dk.gone => x < dk.d /\ dk.gone[x] > n
        /\ p \in {<<a, b>> : a \in {S, x}, b \in {T, y}}
  BY DEF FilePath
<1>2. PICK v, d : v = c[k] /\ d = dk.d
  OBVIOUS
<1>3. v = y /\ v \in DOMAIN dk.gone /\ dk.gone[v] = n
  BY <1>1, <1>2
<1>4. d \in Nat /\ y \in Nat /\ d # 0 /\ y # 0 /\ d \notin DOMAIN dk.gone
  BY <1>1, <1>2, DiskOrder
<1>5. RootEntry(dk, k, v) \/ DirEntry(dk, k, v)
  BY <1>2 DEF CacheShape
<1>6. CASE RootEntry(dk, k, v)
  <2>1. IsDir(dk, v)
    BY <1>2, <1>3, <1>4, <1>6 DEF RootEntry
  <2>2. PICK w \in DOMAIN dk.gone : dk.gone[w] = n /\ v < w
    BY <1>3, <2>1 DEF IsDir
  <2>3. w = y
    BY <1>1, <2>2
  <2> QED BY <1>3, <1>4, <2>2, <2>3
<1>7. CASE DirEntry(dk, k, v)
  <2>1. PICK z \in {dk.d} \cup DOMAIN dk.gone : k = <<<<z>>, T>> /\ (z = dk.d => v > dk.d)
    BY <1>7 DEF DirEntry
  <2>2. k[1] = <<z>>
    BY <2>1
  <2>3. z \notin DOMAIN dk.gone
    BY <2>2
  <2>4. z = d /\ v > d /\ k = <<<<d>>, T>>
    BY <1>2, <2>1, <2>3
  <2>5. \A w \in DOMAIN dk.gone : w < d => dk.gone[w] < n
    BY <1>2, <1>3, <2>4, DiskOrder
  <2>6. x = d
    <3>1. CASE x \in DOMAIN dk.gone
      <4>1. dk.gone[x] \in Nat /\ dk.gone[x] > n /\ dk.gone[x] < n
        BY <1>1, <1>2, <2>5, <3>1, DiskOrder
      <4> QED BY <4>1
    <3> QED BY <1>1, <1>2, <3>1
  <2>7. PICK a \in {S, d}, b \in {T, y} : p = <<a, b>>
    BY <1>1, <2>6
  <2>8. DOMAIN p = 1..2 /\ p[1] = a /\ p[2] = b
    BY <2>7
  <2>9. long \in [DOMAIN p -> Range(p) \cup Range(c)] /\ DOMAIN long = 1..2
    BY <2>8 DEF Resolved
  <2>10. long[1] = d
    <3>1. CASE a = d
      <4>1. ~IsShort(d)
        BY <1>4 DEF IsShort
      <4> QED BY <2>8, <3>1, <4>1 DEF Resolved
    <3>2. CASE a = S
      <4>1. PICK r : r = Key(SubSeq(long, 1, 0), S)
        OBVIOUS
      <4>2. r \in DOMAIN c /\ long[1] = c[r]
        BY <2>8, <3>2, <4>1, ShortNames DEF Resolved
      <4>3. SubSeq(long, 1, 0) = <<>>
        OBVIOUS
      <4>4. r = <<None, S>>
        BY <4>1, <4>3, ShortNames DEF Key
      <4>5. PICK w : w = c[r]
        OBVIOUS
      <4>6. w \in Nat /\ (RootEntry(dk, r, w) \/ DirEntry(dk, r, w))
        BY <4>2, <4>5 DEF CacheShape
      <4>7. ~DirEntry(dk, r, w)
        <5>1. r[2] = S
          BY <4>4
        <5>2. DirEntry(dk, r, w) => r[2] = T
          BY DEF DirEntry
        <5> QED BY <5>1, <5>2, ShortNames
      <4>8. w <= d /\ (w = d \/ IsDir(dk, w))
        BY <1>2, <4>6, <4>7 DEF RootEntry
      <4>9. w # d => w \in DOMAIN dk.gone /\ dk.gone[w] < n /\ dk.gone[w] \in Nat
        BY <1>4, <2>5, <4>6, <4>8, DiskOrder DEF IsDir
      <4>10. w \in DOMAIN dk.gone /\ dk.gone[w] <= n - 1 => \E j \in DOMAIN r[1] : r[1][j] \in DOMAIN dk.gone
        BY <4>2, <4>5 DEF FreshTo
      <4>11. r[1] = <<>>
        BY <4>4, ShortNames
      <4>12. w = d
        BY <4>9, <4>10, <4>11
      <4> QED BY <4>2, <4>5, <4>12
    <3> QED BY <2>7, <3>1, <3>2
  <2>11. long[2] = y
    <3>1. CASE b = y
      <4>1. ~IsShort(y)
        BY <1>4 DEF IsShort
      <4> QED BY <2>8, <3>1, <4>1 DEF Resolved
    <3>2. CASE b = T
      <4>1. PICK r : r = Key(SubSeq(long, 1, 1), T)
        OBVIOUS
      <4>2. r \in DOMAIN c /\ long[2] = c[r]
        BY <2>8, <3>2, <4>1, ShortNames DEF Resolved
      <4>3. SubSeq(long, 1, 1) = <<d>>
        <5>1. PICK w : w = long[2]
          OBVIOUS
        <5>2. long = <<d, w>>
          BY <2>9, <2>10, <5>1
        <5>3. long \in Seq({d, w}) /\ Len(long) = 2
          BY <5>2
        <5>4. PICK s : s = SubSeq(long, 1, 1)
          OBVIOUS
        <5>5. s \in Seq({d, w}) /\ Len(s) = 1 /\ s[1] = d
          BY <2>10, <5>3, <5>4
        <5>6. s = <<d>>
          BY <5>5
        <5> QED BY <5>4, <5>6
      <4>4. r = k
        BY <2>4, <4>1, <4>3 DEF Key
      <4> QED BY <1>2, <1>3, <4>2, <4>4
    <3> QED BY <2>7, <3>1, <3>2
  <2>12. long = <<d, y>>
    BY <2>9, <2>10, <2>11
  <2>13. Append(k[1], c[k]) = <<d, y>>
    <3>1. k[1] = <<d>> /\ c[k] = y
      BY <1>2, <1>3, <2>2, <2>4
    <3>2. PICK s, l : s = <<d>> /\ l = Append(s, y)
      OBVIOUS
    <3>3. s \in Seq(Nat) /\ Len(s) = 1 /\ s[1] = d
      BY <1>4, <3>2
    <3>4. l \in Seq(Nat) /\ Len(l) = 2 /\ l[1] = d /\ l[2] = y
      BY <1>4, <3>2, <3>3
    <3>5. l = <<d, y>>
      BY <3>4
    <3> QED BY <3>1, <3>2, <3>5
  <2> QED BY <2>12, <2>13
<1> QED BY <1>5, <1>6, <1>7

\* An invalidation: the cache has seen one more change.
LEMMA Invalidated ==
  ASSUME NEW dk, DiskOK(dk), NEW c, CacheShape(dk, c), NEW n \in Nat, FreshTo(dk, c, n - 1),
         NEW p, DirPath(dk, p, n) \/ FilePath(dk, p, n), NEW f, f = Invalidate(c, p)
  PROVE  CacheShape(dk, f) /\ FreshTo(dk, f, n)
<1>1. CASE Resolved(c, p) = {}
  <2>1. f = <<>>
    BY <1>1 DEF Invalidate, Unresolved
  <2> QED BY <2>1, EmptyCache
<1>2. CASE Resolved(c, p) # {}
  <2>1. PICK long : long \in Resolved(c, p)
    BY <1>2
  <2>2. PICK keys : keys = {k \in DOMAIN c : \E q \in Resolved(c, p) : Append(k[1], c[k]) = q \/ IsPrefix(q, k[1])}
    OBVIOUS
  <2>3. f = Without(c, keys)
    BY <1>2, <2>2 DEF Invalidate
  <2>4. /\ CacheShape(dk, f) /\ FreshTo(dk, f, n - 1) /\ DOMAIN f = DOMAIN c \ keys
        /\ \A k \in DOMAIN f : f[k] = c[k]
    <3>1. PICK m : m = n - 1
      OBVIOUS
    <3>2. FreshTo(dk, c, m)
      BY <3>1
    <3>3. /\ CacheShape(dk, f) /\ FreshTo(dk, f, m) /\ DOMAIN f = DOMAIN c \ keys
          /\ \A k \in DOMAIN f : f[k] = c[k]
      BY <2>3, <3>2, FewerCached
    <3> QED BY <3>1, <3>3
  <2>5. ASSUME NEW k \in DOMAIN f, f[k] \in DOMAIN dk.gone, dk.gone[f[k]] <= n
        PROVE  \E j \in DOMAIN k[1] : k[1][j] \in DOMAIN dk.gone
    <3>1. k \in DOMAIN c /\ k \notin keys /\ f[k] = c[k]
      BY <2>4
    <3>2. dk.gone[f[k]] \in Nat
      BY <2>5, DiskOrder
    <3>3. CASE dk.gone[f[k]] <= n - 1
      BY <2>4, <2>5, <3>3 DEF FreshTo
    <3>4. CASE dk.gone[f[k]] = n
      <4>1. SUFFICES ASSUME ~\E j \in DOMAIN k[1] : k[1][j] \in DOMAIN dk.gone PROVE FALSE
        OBVIOUS
      <4>2. c[k] \in DOMAIN dk.gone /\ dk.gone[c[k]] = n
        BY <2>5, <3>1, <3>4
      <4>3. Append(k[1], c[k]) = long
        BY <2>1, <3>1, <4>1, <4>2, DirFound, FileFound
      <4> QED BY <2>1, <2>2, <3>1, <4>3
    <3> QED BY <2>5, <3>2, <3>3, <3>4
  <2> QED BY <2>4, <2>5 DEF FreshTo
<1> QED BY <1>1, <1>2
-----------------------------------------------------------------------------
(* The steps                                                                 *)

\* How many changes the cache has seen.
LEMMA AppliedBound ==
  ASSUME NEW e, NEW q, WalkOK(e), QueueOK(q), FloorOK(e, q)
  PROVE  /\ Applied(e, q) \in Nat /\ Applied(e, q) <= q.submitted
         /\ e.floor \in Nat /\ e.floor <= q.submitted /\ q.submitted \in Nat
         /\ Len(q.paths) \in Nat /\ Len(q.paths) <= q.submitted /\ Len(e.todo) \in Nat /\ Len(e.todo) <= e.floor
<1>1. e.floor \in Nat /\ e.todo \in Seq(Paths) /\ Len(e.todo) \in Nat
  BY DEF WalkOK, Walks
<1>2. q.submitted \in Nat /\ q.paths \in Seq(Paths) /\ Len(q.paths) \in Nat /\ Len(q.paths) <= q.submitted
  BY DEF QueueOK
<1>3. Len(e.todo) <= e.floor /\ e.floor <= q.submitted
  BY DEF FloorOK
<1> QED BY <1>1, <1>2, <1>3 DEF Applied

\* Nothing went with change 0.
LEMMA FreshToNone ==
  ASSUME NEW dk, DiskOK(dk), NEW c
  PROVE  FreshTo(dk, c, 0)
BY DiskOrder DEF FreshTo

\* The first state.
LEMMA ExpandFirst == ExpandInit => ExpandInv
<1> SUFFICES ASSUME ExpandInit PROVE ExpandInv
  OBVIOUS
<1>1. PICK none : none = {}
  OBVIOUS
<1>2. IsFiniteSet(none) /\ Cardinality(none) = 0
  BY <1>1, FS_EmptySet
<1>3. PICK g : g = volume.gone
  OBVIOUS
<1>4. g = <<>> /\ volume = [d |-> 1, t |-> 2, gone |-> g] /\ DOMAIN g = none /\ Range(g) = none
  BY <1>1, <1>3 DEF ExpandInit, Range
<1>5. DiskOK(volume)
  <2>1. volume.d = 1 /\ volume.t = 2 /\ volume.gone = g
    BY <1>4
  <2>2. \A x : x \notin DOMAIN g
    BY <1>1, <1>4
  <2>3. volume = [d |-> volume.d, t |-> volume.t, gone |-> volume.gone]
    BY <1>4
  <2>4. {1, 2} \cup DOMAIN g \subseteq 1..Cardinality(DOMAIN g) + 2
    BY <1>1, <1>2, <1>4
  <2>5. IsFiniteSet(DOMAIN volume.gone) /\ IsFiniteSet(Range(volume.gone))
    BY <1>2, <1>4, <2>1
  <2>6. \A x : x \notin DOMAIN volume.gone
    BY <2>1, <2>2
  <2>7. {volume.d, volume.t} \cup DOMAIN volume.gone \subseteq 1..Cardinality(DOMAIN volume.gone) + 2
    BY <2>1, <2>4
  <2>8. volume.d < volume.t
    BY <2>1
  <2> QED BY <2>3, <2>5, <2>6, <2>7, <2>8 DEF DiskOK
<1>6. QueueOK(inval)
  <2>1. InvCap \in Nat
    BY ExpandAssumption
  <2> QED BY <2>1 DEF ExpandInit, QueueOK
<1>7. Changed = inval.submitted + Len(changes)
  BY <1>2, <1>3, <1>4 DEF Changed, ExpandInit
<1>8. /\ expander = [pc |-> "idle", todo |-> <<>>, left |-> <<>>, out |-> <<>>, asked |-> <<>>, floor |-> 0]
      /\ changes = <<>> /\ inval.paths = <<>> /\ inval.submitted = 0 /\ inval.lost = FALSE /\ names = <<>>
  BY DEF ExpandInit, Idle, None
<1>9. \A dk, base : PathsOK(dk, <<>>, base)
  BY DEF PathsOK
<1>10. WalkOK(expander)
  <2>1. expander \in Walks
    BY <1>8 DEF Walks, Paths
  <2> QED BY <1>8, <2>1 DEF WalkOK, LongForm
<1>11. FloorOK(expander, inval) /\ OutFresh(volume, expander)
  BY <1>8 DEF FloorOK, OutFresh
<1>12. EntryOK(entry, expander)
  BY DEF ExpandInit, EntryOK, Paths, None
<1> QED BY <1>5, <1>6, <1>7, <1>8, <1>9, <1>10, <1>11, <1>12, EmptyCache DEF ExpandInv

\* A change on the disk.
LEMMA DiskStep ==
  ASSUME ExpandInv, NEW what \in {"dir", "file"}, NEW path, DiskChange(what, path)
  PROVE  ExpandInv'
<1>1. PICK n, b : n = Changed + 1 /\ b = volume'
  OBVIOUS
<1>2. /\ DiskOK(volume) /\ QueueOK(inval) /\ Changed = inval.submitted + Len(changes) /\ WalkOK(expander) /\ FloorOK(expander, inval)
      /\ PathsOK(volume, changes, inval.submitted) /\ PathsOK(volume, inval.paths, inval.submitted - Len(inval.paths))
      /\ PathsOK(volume, expander.todo, expander.floor - Len(expander.todo))
      /\ CacheShape(volume, names) /\ FreshTo(volume, names, Applied(expander, inval)) /\ OutFresh(volume, expander)
  BY DEF ExpandInv
<1>3. path \in PathsTo(what) /\ changes' = Append(changes, path) /\ UNCHANGED <<inval, names, expander, entry>>
  BY DEF DiskChange
<1>4. /\ DiskOK(b) /\ Grown(volume, b, n) /\ Cardinality(Range(b.gone)) = n
      /\ path \in Paths /\ (DirPath(b, path, n) \/ FilePath(b, path, n))
  <2>1. CASE what = "dir"
    <3>1. b = [d |-> NextName, t |-> NextName + 1, gone |-> WithAll(volume.gone, {volume.d, volume.t}, Changed + 1)]
      BY <1>1, <2>1 DEF DiskChange
    <3> QED BY <1>1, <1>2, <1>3, <2>1, <3>1, DirGoes
  <2>2. CASE what = "file"
    <3>1. PICK g, d, t, w : g = volume.gone /\ d = volume.d /\ t = volume.t /\ w = WithAll(g, {t}, Changed + 1)
      OBVIOUS
    <3>2. volume = [d |-> d, t |-> t, gone |-> g]
      BY <1>2, <3>1 DEF DiskOK
    <3>3. volume' = [volume EXCEPT !.t = NextName, !.gone = w]
      BY <2>2, <3>1 DEF DiskChange
    <3>4. b = [d |-> d, t |-> NextName, gone |-> w]
      BY <1>1, <3>2, <3>3
    <3>5. b = [d |-> volume.d, t |-> NextName, gone |-> WithAll(volume.gone, {volume.t}, Changed + 1)]
      BY <3>1, <3>4
    <3> QED BY <1>1, <1>2, <1>3, <2>2, <3>5, FileGoes
  <2> QED BY <2>1, <2>2
<1>5. PICK sub, app, fl : sub = inval.submitted /\ app = Applied(expander, inval) /\ fl = expander.floor
  OBVIOUS
<1>6. /\ app \in Nat /\ app <= sub /\ fl \in Nat /\ fl <= sub /\ sub \in Nat
      /\ Len(inval.paths) \in Nat /\ Len(inval.paths) <= sub /\ Len(expander.todo) \in Nat /\ Len(expander.todo) <= fl
  BY <1>2, <1>5, AppliedBound
<1>7. changes \in Seq(Paths) /\ Len(changes) \in Nat
  BY <1>2 DEF PathsOK
<1>8. n = sub + Len(changes) + 1 /\ n \in Nat
  BY <1>1, <1>2, <1>5, <1>6, <1>7
<1>9. Changed' = inval'.submitted + Len(changes')
  <2>1. Changed' = n
    BY <1>1, <1>4 DEF Changed
  <2>2. Len(changes') = Len(changes) + 1
    BY <1>3, <1>4, <1>7
  <2> QED BY <1>3, <1>5, <1>6, <1>7, <1>8, <2>1, <2>2
<1>10. PathsOK(b, changes, sub)
  BY <1>2, <1>4, <1>5, <1>6, <1>7, <1>8, PathsKept
<1>11. PathsOK(b, changes', sub)
  <2>1. changes' \in Seq(Paths) /\ Len(changes') = Len(changes) + 1
    BY <1>3, <1>4, <1>7
  <2>2. ASSUME NEW i \in DOMAIN changes' PROVE DirPath(b, changes'[i], sub + i) \/ FilePath(b, changes'[i], sub + i)
    <3>1. CASE i \in DOMAIN changes
      <4>1. changes'[i] = changes[i]
        BY <1>3, <1>4, <1>7, <3>1
      <4> QED BY <1>10, <3>1, <4>1 DEF PathsOK
    <3>2. CASE i = Len(changes) + 1
      <4>1. changes'[i] = path /\ sub + i = n
        BY <1>3, <1>4, <1>6, <1>7, <1>8, <3>2
      <4> QED BY <1>4, <4>1
    <3> QED BY <1>7, <2>1, <3>1, <3>2
  <2> QED BY <2>1, <2>2 DEF PathsOK
<1>12. PICK base, rest : base = sub - Len(inval.paths) /\ rest = fl - Len(expander.todo)
  OBVIOUS
<1>13. base \in Nat /\ base + Len(inval.paths) < n /\ rest \in Nat /\ rest + Len(expander.todo) < n
  BY <1>6, <1>7, <1>8, <1>12
<1>14. PathsOK(b, inval.paths, base) /\ PathsOK(b, expander.todo, rest)
  BY <1>2, <1>4, <1>5, <1>8, <1>12, <1>13, PathsKept
<1>15. CacheShape(b, names) /\ FreshTo(b, names, app)
  <2>1. app < n
    BY <1>6, <1>7, <1>8
  <2> QED BY <1>2, <1>4, <1>5, <1>6, <1>8, <2>1, CacheKept
<1>16. OutFresh(b, expander)
  <2>1. expander.floor < n /\ expander.floor \in Nat
    BY <1>5, <1>6, <1>7, <1>8
  <2> QED BY <1>2, <1>4, <1>8, <2>1, OutKept
<1>17. Applied(expander', inval') = app
  BY <1>3, <1>5
<1>18. EntryOK(entry, expander)
  BY DEF ExpandInv
<1>19. /\ inval' = inval /\ names' = names /\ expander' = expander /\ entry' = entry /\ volume' = b
  BY <1>1, <1>3
<1> QED BY <1>2, <1>4, <1>5, <1>9, <1>11, <1>12, <1>14, <1>15, <1>16, <1>17, <1>18, <1>19 DEF ExpandInv

\* The pipeline comes to a change.
LEMMA SubmitStep ==
  ASSUME ExpandInv, SubmitInvalidate
  PROVE  ExpandInv'
<1>1. PICK sub, ps, cs, p, lost : sub = inval.submitted /\ ps = inval.paths /\ cs = changes /\ p = Head(changes) /\ lost = inval.lost
  OBVIOUS
<1>2. /\ DiskOK(volume) /\ QueueOK(inval) /\ Changed = inval.submitted + Len(changes) /\ WalkOK(expander) /\ FloorOK(expander, inval)
      /\ PathsOK(volume, changes, inval.submitted) /\ PathsOK(volume, inval.paths, inval.submitted - Len(inval.paths))
      /\ PathsOK(volume, expander.todo, expander.floor - Len(expander.todo))
      /\ CacheShape(volume, names) /\ FreshTo(volume, names, Applied(expander, inval)) /\ OutFresh(volume, expander)
      /\ EntryOK(entry, expander)
  BY DEF ExpandInv
<1>3. cs # <<>> /\ changes' = Tail(cs) /\ UNCHANGED <<volume, names, expander, entry>>
  BY <1>1 DEF SubmitInvalidate
<1>4. /\ inval = [paths |-> ps, lost |-> lost, submitted |-> sub] /\ ps \in Seq(Paths) /\ lost \in BOOLEAN /\ sub \in Nat
      /\ Len(ps) \in Nat /\ Len(ps) <= InvCap /\ Len(ps) <= sub /\ (lost => ps = <<>>)
  BY <1>1, <1>2 DEF QueueOK
<1>5. cs \in Seq(Paths) /\ Len(cs) \in Nat /\ Len(cs) > 0 /\ p = cs[1] /\ p \in Paths
  BY <1>1, <1>2, <1>3 DEF PathsOK
<1>6. DirPath(volume, p, sub + 1) \/ FilePath(volume, p, sub + 1)
  <2>1. 1 \in DOMAIN cs
    BY <1>5
  <2> QED BY <1>1, <1>2, <1>5, <2>1 DEF PathsOK
<1>7. \/ inval' = [paths |-> ps, lost |-> TRUE, submitted |-> sub + 1] /\ ps = <<>> /\ lost
      \/ inval' = [paths |-> <<>>, lost |-> TRUE, submitted |-> sub + 1]
      \/ inval' = [paths |-> Append(ps, p), lost |-> FALSE, submitted |-> sub + 1] /\ ~lost /\ Len(ps) < InvCap
  <2>1. PICK q : q = [paths |-> ps, lost |-> lost, submitted |-> sub + 1]
    OBVIOUS
  <2>2. [inval EXCEPT !.submitted = @ + 1] = q
    BY <1>4, <2>1
  <2>3. inval' = IF q.lost THEN q ELSE IF Len(q.paths) >= InvCap THEN Full(q) ELSE [q EXCEPT !.paths = Append(@, p)]
    BY <1>1, <2>2 DEF SubmitInvalidate
  <2>4. q.lost = lost /\ q.paths = ps
    BY <2>1
  <2>5. CASE lost
    <3>1. lost = TRUE
      BY <1>4, <2>5
    <3> QED BY <1>4, <2>1, <2>3, <2>4, <2>5, <3>1
  <2>6. CASE ~lost /\ Len(ps) >= InvCap
    <3>1. inval' = Full(q)
      BY <2>3, <2>4, <2>6
    <3> QED BY <2>1, <3>1 DEF Full
  <2>7. CASE ~lost /\ ~(Len(ps) >= InvCap)
    <3>1. inval' = [q EXCEPT !.paths = Append(@, p)]
      BY <2>3, <2>4, <2>7
    <3>2. lost = FALSE
      BY <1>4, <2>7
    <3>3. Len(ps) < InvCap
      BY <1>4, <2>7, ExpandAssumption
    <3> QED BY <2>1, <2>7, <3>1, <3>2, <3>3
  <2> QED BY <2>5, <2>6, <2>7
<1>8. /\ inval'.submitted = sub + 1
      /\ \/ inval'.lost /\ inval'.paths = <<>>
         \/ ~inval'.lost /\ ~lost /\ inval'.paths = Append(ps, p) /\ Len(ps) < InvCap
  <2>1. CASE inval' = [paths |-> ps, lost |-> TRUE, submitted |-> sub + 1] /\ ps = <<>> /\ lost
    BY <2>1
  <2>2. CASE inval' = [paths |-> <<>>, lost |-> TRUE, submitted |-> sub + 1]
    BY <2>2
  <2>3. CASE inval' = [paths |-> Append(ps, p), lost |-> FALSE, submitted |-> sub + 1] /\ ~lost /\ Len(ps) < InvCap
    BY <2>3
  <2> QED BY <1>7, <2>1, <2>2, <2>3
<1>11. PathsOK(volume, changes', sub + 1) /\ Changed' = sub + 1 + Len(changes')
  <2>1. Changed' = Changed /\ Changed = sub + Len(cs)
    BY <1>1, <1>2, <1>3 DEF Changed
  <2>2. changes' \in Seq(Paths) /\ Len(changes') = Len(cs) - 1 /\ \A i \in DOMAIN changes' : i + 1 \in DOMAIN cs /\ changes'[i] = cs[i + 1] /\ i \in Nat
    BY <1>3, <1>5
  <2>3. ASSUME NEW i \in DOMAIN changes' PROVE DirPath(volume, changes'[i], sub + 1 + i) \/ FilePath(volume, changes'[i], sub + 1 + i)
    <3>1. PICK m : m = i + 1
      OBVIOUS
    <3>2. sub + 1 + i = sub + m /\ m \in DOMAIN cs /\ changes'[i] = cs[m]
      BY <1>4, <2>2, <3>1
    <3>3. DirPath(volume, cs[m], sub + m) \/ FilePath(volume, cs[m], sub + m)
      BY <1>1, <1>2, <3>2 DEF PathsOK
    <3> QED BY <3>2, <3>3
  <2> QED BY <1>4, <1>5, <2>1, <2>2, <2>3 DEF PathsOK
<1>12. SUFFICES /\ QueueOK(inval') /\ PathsOK(volume, inval'.paths, inval'.submitted - Len(inval'.paths))
                /\ FreshTo(volume, names, Applied(expander, inval')) /\ FloorOK(expander, inval')
  <2>1. volume' = volume /\ names' = names /\ expander' = expander /\ entry' = entry /\ inval'.submitted = sub + 1
    BY <1>3, <1>8
  <2> QED BY <1>2, <1>11, <2>1 DEF ExpandInv
<1>13. CASE inval'.lost /\ inval'.paths = <<>>
  <2>1. QueueOK(inval')
    <3>1. inval' = [paths |-> <<>>, lost |-> TRUE, submitted |-> sub + 1]
      BY <1>7, <1>13
    <3>2. Len(<<>>) <= InvCap /\ InvCap \in Nat
      BY ExpandAssumption
    <3> QED BY <1>4, <3>1, <3>2 DEF QueueOK
  <2>2. PathsOK(volume, inval'.paths, inval'.submitted - Len(inval'.paths))
    BY <1>13 DEF PathsOK
  <2>3. Applied(expander, inval') = Applied(expander, inval) \/ Applied(expander, inval') = 0
    BY <1>13 DEF Applied
  <2>4. FreshTo(volume, names, Applied(expander, inval'))
    BY <1>2, <2>3, FreshToNone
  <2>5. FloorOK(expander, inval')
    <3>1. Len(expander.todo) <= expander.floor /\ expander.floor <= sub /\ expander.floor \in Nat
      BY <1>1, <1>2, AppliedBound
    <3> QED BY <1>4, <1>8, <1>13, <3>1 DEF FloorOK
  <2> QED BY <2>1, <2>2, <2>4, <2>5
<1>14. CASE ~inval'.lost /\ ~lost /\ inval'.paths = Append(ps, p) /\ Len(ps) < InvCap
  <2>1. PICK qs : qs = Append(ps, p)
    OBVIOUS
  <2>2. qs \in Seq(Paths) /\ Len(qs) = Len(ps) + 1
    BY <1>4, <1>5, <2>1
  <2>3. QueueOK(inval')
    <3>1. inval' = [paths |-> qs, lost |-> FALSE, submitted |-> sub + 1]
      BY <1>7, <1>14, <2>1
    <3>2. Len(qs) <= InvCap /\ Len(qs) <= sub + 1 /\ sub + 1 \in Nat
      BY <1>4, <1>14, <2>2, ExpandAssumption
    <3> QED BY <2>2, <3>1, <3>2 DEF QueueOK
  <2>4. PICK base : base = sub - Len(ps)
    OBVIOUS
  <2>5. inval'.submitted - Len(qs) = base
    BY <1>4, <1>8, <2>2, <2>4
  <2>6. PathsOK(volume, ps, base)
    BY <1>1, <1>2, <2>4
  <2>7. PathsOK(volume, qs, base)
    <3>1. ASSUME NEW i \in DOMAIN qs PROVE DirPath(volume, qs[i], base + i) \/ FilePath(volume, qs[i], base + i)
      <4>1. CASE i \in DOMAIN ps
        <5>1. qs[i] = ps[i]
          BY <1>4, <1>5, <2>1, <4>1
        <5> QED BY <2>6, <4>1, <5>1 DEF PathsOK
      <4>2. CASE i = Len(ps) + 1
        <5>1. qs[i] = p /\ base + i = sub + 1
          BY <1>4, <1>5, <2>1, <2>4, <4>2
        <5> QED BY <1>6, <5>1
      <4> QED BY <1>4, <2>2, <4>1, <4>2
    <3> QED BY <2>2, <3>1 DEF PathsOK
  <2>8. Applied(expander, inval') = Applied(expander, inval)
    BY <1>1, <1>4, <1>8, <1>14, <2>1, <2>4, <2>5 DEF Applied
  <2>9. FloorOK(expander, inval')
    <3>1. Len(expander.todo) <= expander.floor /\ expander.floor <= sub /\ expander.floor \in Nat
      BY <1>1, <1>2, AppliedBound
    <3>2. expander.pc \in {"clear", "walk"} => expander.floor = base
      BY <1>1, <1>2, <1>14, <2>4 DEF FloorOK
    <3> QED BY <1>4, <1>8, <1>14, <2>1, <2>5, <3>1, <3>2 DEF FloorOK
  <2> QED BY <1>2, <1>14, <2>1, <2>3, <2>5, <2>7, <2>8, <2>9
<1> QED BY <1>8, <1>13, <1>14

\* The lane takes a job, and what waits to be cleared.
LEMMA TakeStep ==
  ASSUME ExpandInv, TakeJob
  PROVE  ExpandInv'
<1>1. PICK sub, ps, lost : sub = inval.submitted /\ ps = inval.paths /\ lost = inval.lost
  OBVIOUS
<1>2. /\ DiskOK(volume) /\ QueueOK(inval) /\ Changed = inval.submitted + Len(changes) /\ WalkOK(expander) /\ FloorOK(expander, inval)
      /\ PathsOK(volume, changes, inval.submitted) /\ PathsOK(volume, inval.paths, inval.submitted - Len(inval.paths))
      /\ CacheShape(volume, names) /\ FreshTo(volume, names, Applied(expander, inval)) /\ EntryOK(entry, expander)
  BY DEF ExpandInv
<1>3. PICK left, asked : left = expander.left /\ asked = expander.asked
  OBVIOUS
<1>4. /\ inval = [paths |-> ps, lost |-> lost, submitted |-> sub] /\ ps \in Seq(Paths) /\ lost \in BOOLEAN /\ sub \in Nat
      /\ Len(ps) \in Nat /\ Len(ps) <= InvCap /\ Len(ps) <= sub /\ (lost => ps = <<>>)
  BY <1>1, <1>2 DEF QueueOK
<1>5. inval' = [paths |-> <<>>, lost |-> FALSE, submitted |-> sub]
  BY <1>4 DEF TakeJob
<1>6. expander.pc = "queued" /\ expander \in Walks /\ expander.out = <<>> /\ left \in Paths /\ asked \in Paths
  BY <1>2, <1>3 DEF TakeJob, WalkOK, Walks
<1>7. expander' = [pc |-> "clear", todo |-> ps, left |-> left, out |-> <<>>, asked |-> asked, floor |-> sub]
  <2>1. PICK w, f : w = expander.todo /\ f = expander.floor
    OBVIOUS
  <2>2. expander = [pc |-> "queued", todo |-> w, left |-> left, out |-> <<>>, asked |-> asked, floor |-> f]
    BY <1>3, <1>6, <2>1 DEF Walks
  <2>3. expander' = [expander EXCEPT !.pc = "clear", !.todo = ps, !.floor = sub]
    BY <1>1 DEF TakeJob
  <2> QED BY <2>2, <2>3
<1>8. UNCHANGED <<volume, changes, entry>> /\ names' = IF lost THEN <<>> ELSE names
  BY <1>1 DEF TakeJob
<1>9. /\ expander'.pc = "clear" /\ expander'.todo = ps /\ expander'.left = left /\ expander'.out = <<>>
      /\ expander'.asked = asked /\ expander'.floor = sub
      /\ inval'.paths = <<>> /\ ~inval'.lost /\ inval'.submitted = sub
  BY <1>5, <1>7
<1>10. QueueOK(inval')
  BY <1>4, <1>5, ExpandAssumption DEF QueueOK
<1>11. PathsOK(volume, inval'.paths, inval'.submitted - Len(inval'.paths)) /\ PathsOK(volume, ps, sub - Len(ps))
  BY <1>1, <1>2, <1>9 DEF PathsOK
<1>12. CacheShape(volume, names') /\ FreshTo(volume, names', Applied(expander', inval'))
  <2>1. CASE lost
    BY <1>8, <2>1, EmptyCache
  <2>2. CASE ~lost
    <3>1. Applied(expander, inval) = sub - Len(ps)
      BY <1>1, <1>6, <2>2 DEF Applied
    <3>2. Applied(expander', inval') = sub - Len(ps)
      BY <1>9 DEF Applied
    <3> QED BY <1>2, <1>8, <2>2, <3>1, <3>2
  <2> QED BY <2>1, <2>2
<1>13. WalkOK(expander')
  <2>1. expander' \in Walks
    BY <1>4, <1>6, <1>7 DEF Walks, Paths
  <2>2. Len(asked) = Len(left) /\ \A i \in DOMAIN left : left[i] = asked[i]
    <3>1. /\ Len(asked) = Len(<<>>) + Len(left)
          /\ \A i \in DOMAIN left : left[i] = asked[Len(<<>>) + i]
      BY <1>2, <1>3, <1>6 DEF WalkOK
    <3>2. left \in Seq(Int) /\ asked \in Seq(Int) /\ Len(<<>>) = 0
      BY <1>6 DEF Paths
    <3> QED BY <3>1, <3>2
  <2>3. left \in Seq(Int) /\ asked \in Seq(Int) /\ Len(<<>>) = 0
    BY <1>6 DEF Paths
  <2>4. \A i \in DOMAIN left : left[i] = asked[0 + i]
    BY <2>2, <2>3
  <2>5. Len(asked) = 0 + Len(left)
    BY <2>2, <2>3
  <2>6. LongForm(<<>>, asked)
    BY DEF LongForm
  <2> QED BY <1>9, <2>1, <2>3, <2>4, <2>5, <2>6 DEF WalkOK
<1>14. FloorOK(expander', inval') /\ OutFresh(volume, expander')
  <2>1. FloorOK(expander', inval')
    BY <1>4, <1>9 DEF FloorOK
  <2>2. OutFresh(volume, expander')
    BY <1>9 DEF OutFresh
  <2> QED BY <2>1, <2>2
<1>15. EntryOK(entry, expander')
  BY <1>2, <1>3, <1>9 DEF EntryOK
<1>16. Changed' = Changed /\ volume' = volume /\ changes' = changes /\ entry' = entry
  BY <1>8 DEF Changed
<1> QED BY <1>1, <1>2, <1>9, <1>10, <1>11, <1>12, <1>13, <1>14, <1>15, <1>16 DEF ExpandInv

\* It clears what one change took.
LEMMA ClearStep ==
  ASSUME ExpandInv, Clears
  PROVE  ExpandInv'
<1>1. PICK todo, left, asked, fl, p : todo = expander.todo /\ left = expander.left /\ asked = expander.asked
                                      /\ fl = expander.floor /\ p = Head(expander.todo)
  OBVIOUS
<1>2. /\ DiskOK(volume) /\ QueueOK(inval) /\ Changed = inval.submitted + Len(changes) /\ WalkOK(expander) /\ FloorOK(expander, inval)
      /\ PathsOK(volume, changes, inval.submitted) /\ PathsOK(volume, inval.paths, inval.submitted - Len(inval.paths))
      /\ PathsOK(volume, expander.todo, expander.floor - Len(expander.todo))
      /\ CacheShape(volume, names) /\ FreshTo(volume, names, Applied(expander, inval)) /\ EntryOK(entry, expander)
  BY DEF ExpandInv
<1>3. /\ expander.pc = "clear" /\ todo # <<>> /\ names' = Invalidate(names, p)
      /\ expander' = [expander EXCEPT !.todo = Tail(@)] /\ UNCHANGED <<volume, changes, inval, entry>>
  BY <1>1 DEF Clears
<1>4. /\ expander \in Walks /\ todo \in Seq(Paths) /\ left \in Paths /\ asked \in Paths /\ fl \in Nat /\ expander.out = <<>>
  BY <1>1, <1>2, <1>3 DEF WalkOK, Walks
<1>5. PICK rest : rest = Tail(todo)
  OBVIOUS
<1>6. /\ rest \in Seq(Paths) /\ Len(rest) = Len(todo) - 1 /\ Len(todo) \in Nat /\ Len(todo) > 0 /\ p = todo[1]
      /\ \A i \in DOMAIN rest : i \in Nat /\ i + 1 \in DOMAIN todo /\ rest[i] = todo[i + 1]
  BY <1>1, <1>3, <1>4, <1>5
<1>7. expander' = [pc |-> "clear", todo |-> rest, left |-> left, out |-> <<>>, asked |-> asked, floor |-> fl]
  <2>1. expander = [pc |-> "clear", todo |-> todo, left |-> left, out |-> <<>>, asked |-> asked, floor |-> fl]
    BY <1>1, <1>3, <1>4 DEF Walks
  <2> QED BY <1>3, <1>5, <2>1
<1>8. /\ expander'.pc = "clear" /\ expander'.todo = rest /\ expander'.left = left /\ expander'.out = <<>>
      /\ expander'.asked = asked /\ expander'.floor = fl
  BY <1>7
<1>9. Len(todo) <= fl
  BY <1>1, <1>2, AppliedBound
<1>10. PICK n : n = fl - Len(rest)
  OBVIOUS
<1>11. n \in Nat /\ n - 1 = fl - Len(todo)
  BY <1>4, <1>6, <1>9, <1>10
<1>12. Applied(expander, inval) = n - 1 /\ Applied(expander', inval') = n
  BY <1>1, <1>3, <1>8, <1>10, <1>11 DEF Applied
<1>13. DirPath(volume, p, n) \/ FilePath(volume, p, n)
  <2>1. 1 \in DOMAIN todo /\ fl - Len(todo) + 1 = n
    BY <1>4, <1>6, <1>9, <1>10
  <2>2. DirPath(volume, todo[1], fl - Len(todo) + 1) \/ FilePath(volume, todo[1], fl - Len(todo) + 1)
    BY <1>1, <1>2, <2>1 DEF PathsOK
  <2> QED BY <1>6, <2>1, <2>2
<1>14. CacheShape(volume, names') /\ FreshTo(volume, names', n)
  <2>1. FreshTo(volume, names, n - 1)
    BY <1>2, <1>12
  <2> QED BY <1>2, <1>3, <1>11, <1>13, <2>1, Invalidated
<1>15. PathsOK(volume, rest, n)
  <2>1. ASSUME NEW i \in DOMAIN rest PROVE DirPath(volume, rest[i], n + i) \/ FilePath(volume, rest[i], n + i)
    <3>1. PICK m : m = i + 1
      OBVIOUS
    <3>2. m \in DOMAIN todo /\ rest[i] = todo[m] /\ n + i = fl - Len(todo) + m
      BY <1>4, <1>6, <1>10, <3>1
    <3>3. DirPath(volume, todo[m], fl - Len(todo) + m) \/ FilePath(volume, todo[m], fl - Len(todo) + m)
      BY <1>1, <1>2, <3>2 DEF PathsOK
    <3> QED BY <3>2, <3>3
  <2> QED BY <1>6, <2>1 DEF PathsOK
<1>16. WalkOK(expander')
  <2>1. expander' \in Walks
    BY <1>4, <1>6, <1>7 DEF Walks, Paths
  <2>2. /\ Len(asked) = Len(<<>>) + Len(left) /\ LongForm(<<>>, asked)
        /\ \A i \in DOMAIN left : left[i] = asked[Len(<<>>) + i]
    BY <1>1, <1>2, <1>4 DEF WalkOK
  <2> QED BY <1>8, <2>1, <2>2 DEF WalkOK
<1>17. FloorOK(expander', inval) /\ OutFresh(volume, expander')
  <2>1. FloorOK(expander', inval)
    BY <1>1, <1>2, <1>3, <1>4, <1>6, <1>8 DEF FloorOK
  <2>2. OutFresh(volume, expander')
    BY <1>8 DEF OutFresh
  <2> QED BY <2>1, <2>2
<1>18. EntryOK(entry, expander')
  BY <1>1, <1>2, <1>8 DEF EntryOK
<1>19. Changed' = Changed /\ volume' = volume /\ changes' = changes /\ entry' = entry /\ inval' = inval
  BY <1>3 DEF Changed
<1> QED BY <1>2, <1>8, <1>10, <1>12, <1>14, <1>15, <1>16, <1>17, <1>18, <1>19 DEF ExpandInv

\* It goes on to expand.
LEMMA ClearEndStep ==
  ASSUME ExpandInv, ClearEnds
  PROVE  ExpandInv'
<1>1. PICK left, asked, fl : left = expander.left /\ asked = expander.asked /\ fl = expander.floor
  OBVIOUS
<1>2. /\ DiskOK(volume) /\ QueueOK(inval) /\ Changed = inval.submitted + Len(changes) /\ WalkOK(expander) /\ FloorOK(expander, inval)
      /\ PathsOK(volume, changes, inval.submitted) /\ PathsOK(volume, inval.paths, inval.submitted - Len(inval.paths))
      /\ PathsOK(volume, expander.todo, expander.floor - Len(expander.todo))
      /\ CacheShape(volume, names) /\ FreshTo(volume, names, Applied(expander, inval)) /\ EntryOK(entry, expander)
  BY DEF ExpandInv
<1>3. expander.pc = "clear" /\ expander.todo = <<>> /\ expander' = [expander EXCEPT !.pc = "walk"]
  BY DEF ClearEnds, None
<1>4. UNCHANGED <<volume, changes, inval, names, entry>>
  BY DEF ClearEnds
<1>5. expander \in Walks /\ left \in Paths /\ asked \in Paths /\ fl \in Nat /\ expander.out = <<>>
  BY <1>1, <1>2, <1>3 DEF WalkOK, Walks
<1>6. expander' = [pc |-> "walk", todo |-> <<>>, left |-> left, out |-> <<>>, asked |-> asked, floor |-> fl]
  <2>1. expander = [pc |-> "clear", todo |-> <<>>, left |-> left, out |-> <<>>, asked |-> asked, floor |-> fl]
    BY <1>1, <1>3, <1>5 DEF Walks
  <2> QED BY <1>3, <2>1
<1>7. /\ expander'.pc = "walk" /\ expander'.todo = <<>> /\ expander'.left = left /\ expander'.out = <<>>
      /\ expander'.asked = asked /\ expander'.floor = fl
  BY <1>6
<1>8. Applied(expander', inval') = Applied(expander, inval)
  BY <1>1, <1>3, <1>5, <1>7 DEF Applied
<1>9. WalkOK(expander')
  <2>1. expander' \in Walks
    BY <1>5, <1>6 DEF Walks, Paths
  <2>2. /\ Len(asked) = Len(<<>>) + Len(left) /\ LongForm(<<>>, asked)
        /\ \A i \in DOMAIN left : left[i] = asked[Len(<<>>) + i]
    BY <1>1, <1>2, <1>5 DEF WalkOK
  <2> QED BY <1>7, <2>1, <2>2 DEF WalkOK
<1>10. FloorOK(expander', inval) /\ OutFresh(volume, expander')
  BY <1>1, <1>2, <1>3, <1>5, <1>7 DEF FloorOK, OutFresh
<1>11. EntryOK(entry, expander')
  BY <1>1, <1>2, <1>7 DEF EntryOK
<1>12. /\ Changed' = Changed /\ volume' = volume /\ changes' = changes /\ entry' = entry /\ inval' = inval /\ names' = names
       /\ PathsOK(volume, expander'.todo, expander'.floor - Len(expander'.todo))
  BY <1>1, <1>2, <1>3, <1>4, <1>7 DEF Changed
<1> QED BY <1>2, <1>8, <1>9, <1>10, <1>11, <1>12 DEF ExpandInv

\* The lane's record on its walk.
Walk(left, out, asked, fl) == [pc |-> "walk", todo |-> <<>>, left |-> left, out |-> out, asked |-> asked, floor |-> fl]
\* What may stand for a component.
StandsFor(dk, out, c, v, fl) ==
    /\ IF IsShort(c) THEN ~IsShort(v) ELSE v = c
    /\ IsShort(c) /\ v \in DOMAIN dk.gone /\ dk.gone[v] <= fl => \E j \in DOMAIN out : out[j] \in DOMAIN dk.gone

\* The fields of it.
LEMMA WalkFields ==
  ASSUME NEW left, NEW out, NEW asked, NEW fl, NEW f, f = Walk(left, out, asked, fl)
  PROVE  f.pc = "walk" /\ f.todo = <<>> /\ f.left = left /\ f.out = out /\ f.asked = asked /\ f.floor = fl
BY DEF Walk

\* The lane has this record when it walks.
LEMMA WalkRecord ==
  ASSUME NEW e, WalkOK(e), e.pc = "walk"
  PROVE  /\ e = Walk(e.left, e.out, e.asked, e.floor)
         /\ e.left \in Seq(Int) /\ e.out \in Seq(Int) /\ e.asked \in Seq(Int) /\ e.floor \in Nat
<1>1. e \in Walks /\ e.todo = <<>>
  BY DEF WalkOK
<1> QED BY <1>1 DEF Walks, Paths, Walk

\* One component more.
LEMMA WalkRecordAfter ==
  ASSUME NEW left, NEW out, NEW asked, NEW fl, NEW v, NEW e, e = Walk(left, out, asked, fl),
         NEW f, f = Advance(e, v)
  PROVE  f = Walk(Tail(left), Append(out, v), asked, fl)
BY DEF Walk, Advance

\* The answer gets one more component.
LEMMA OutGrows ==
  ASSUME NEW dk, NEW left, NEW out, NEW asked, NEW fl, NEW v \in Int, NEW e, NEW f,
         WalkOK(e), OutFresh(dk, e), left # <<>>, StandsFor(dk, out, left[1], v, fl),
         left \in Seq(Int), out \in Seq(Int), asked \in Seq(Int), fl \in Nat,
         e = Walk(left, out, asked, fl), f = Walk(Tail(left), Append(out, v), asked, fl)
  PROVE  WalkOK(f) /\ OutFresh(dk, f)
<1>1. PICK rest, more : rest = Tail(left) /\ more = Append(out, v)
  OBVIOUS
<1>2. e.left = left /\ e.out = out /\ e.asked = asked /\ e.floor = fl
  BY WalkFields
<1>3. f = Walk(rest, more, asked, fl)
  BY <1>1
<1>4. f.pc = "walk" /\ f.todo = <<>> /\ f.left = rest /\ f.out = more /\ f.asked = asked /\ f.floor = fl
  BY <1>3, WalkFields
<1>5. /\ Len(asked) = Len(out) + Len(left) /\ Len(left) \in Nat /\ Len(left) > 0 /\ Len(out) \in Nat
      /\ \A i \in DOMAIN left : left[i] = asked[Len(out) + i]
      /\ LongForm(out, asked)
  <2>1. /\ Len(asked) = Len(out) + Len(left) /\ (\A i \in DOMAIN left : left[i] = asked[Len(out) + i])
        /\ LongForm(out, asked)
    BY <1>2 DEF WalkOK
  <2>2. Len(left) \in Nat /\ Len(out) \in Nat /\ Len(left) > 0
    OBVIOUS
  <2> QED BY <2>1, <2>2
<1>6. /\ rest \in Seq(Int) /\ more \in Seq(Int) /\ Len(rest) = Len(left) - 1 /\ Len(more) = Len(out) + 1
      /\ \A i \in DOMAIN rest : i \in Nat /\ i + 1 \in DOMAIN left /\ rest[i] = left[i + 1]
      /\ \A i \in DOMAIN out : i \in DOMAIN more /\ more[i] = out[i]
      /\ more[Len(out) + 1] = v
      /\ \A i \in DOMAIN more : i \in DOMAIN out \/ i = Len(out) + 1
  <2>1. rest \in Seq(Int) /\ Len(rest) = Len(left) - 1
    BY <1>1
  <2>2. \A i \in DOMAIN rest : i \in Nat /\ i + 1 \in DOMAIN left /\ rest[i] = left[i + 1]
    BY <1>1, <2>1
  <2>3. more \in Seq(Int) /\ Len(more) = Len(out) + 1
    BY <1>1
  <2>4. (\A i \in DOMAIN out : i \in DOMAIN more /\ more[i] = out[i]) /\ more[Len(out) + 1] = v
    BY <1>1, <2>3
  <2>5. \A i \in DOMAIN more : i \in DOMAIN out \/ i = Len(out) + 1
    BY <2>3
  <2> QED BY <2>1, <2>2, <2>3, <2>4, <2>5
<1>7. left[1] = asked[Len(out) + 1]
  <2>1. 1 \in DOMAIN left
    BY <1>5
  <2> QED BY <1>5, <2>1
<1>8. LongForm(more, asked)
  <2>1. ASSUME NEW i \in DOMAIN more PROVE IF IsShort(asked[i]) THEN ~IsShort(more[i]) ELSE more[i] = asked[i]
    <3>1. CASE i \in DOMAIN out
      BY <1>5, <1>6, <3>1 DEF LongForm
    <3>2. CASE i = Len(out) + 1
      <4>1. more[i] = v /\ asked[i] = left[1]
        BY <1>6, <1>7, <3>2
      <4> QED BY <4>1 DEF StandsFor
    <3> QED BY <1>6, <3>1, <3>2
  <2> QED BY <2>1 DEF LongForm
<1>9. \A i \in DOMAIN rest : rest[i] = asked[Len(more) + i]
  <2> SUFFICES ASSUME NEW i \in DOMAIN rest PROVE rest[i] = asked[Len(more) + i]
    OBVIOUS
  <2>1. PICK m : m = i + 1
    OBVIOUS
  <2>2. m \in DOMAIN left /\ rest[i] = left[m] /\ Len(out) + m = Len(more) + i
    BY <1>5, <1>6, <2>1
  <2> QED BY <1>5, <2>2
<1>10. WalkOK(f)
  <2>1. f \in Walks
    BY <1>3, <1>6 DEF Walks, Paths, Walk
  <2>2. Len(asked) = Len(more) + Len(rest)
    BY <1>5, <1>6
  <2> QED BY <1>4, <1>8, <1>9, <2>1, <2>2 DEF WalkOK
<1>11. OutFresh(dk, f)
  <2> SUFFICES ASSUME NEW i \in DOMAIN more, IsShort(asked[i]), more[i] \in DOMAIN dk.gone, dk.gone[more[i]] <= fl
               PROVE  \E j \in 1..(i - 1) : more[j] \in DOMAIN dk.gone
    BY <1>4 DEF OutFresh
  <2>1. CASE i \in DOMAIN out
    <3>1. out[i] \in DOMAIN dk.gone /\ dk.gone[out[i]] <= fl
      BY <1>6, <2>1
    <3>2. PICK j \in 1..(i - 1) : out[j] \in DOMAIN dk.gone
      BY <1>2, <2>1, <3>1 DEF OutFresh
    <3>3. j \in DOMAIN out
      BY <1>5, <2>1
    <3> QED BY <1>6, <3>2, <3>3
  <2>2. CASE i = Len(out) + 1
    <3>1. more[i] = v /\ IsShort(left[1])
      BY <1>6, <1>7, <2>2
    <3>2. PICK j \in DOMAIN out : out[j] \in DOMAIN dk.gone
      BY <3>1 DEF StandsFor
    <3>3. j \in 1..(i - 1)
      <4>1. DOMAIN out = 1..Len(out)
        OBVIOUS
      <4> QED BY <1>5, <2>2, <4>1
    <3> QED BY <1>6, <3>2, <3>3
  <2> QED BY <1>6, <2>1, <2>2
<1> QED BY <1>10, <1>11

\* The same of the lane's record.
LEMMA OutGrown ==
  ASSUME NEW dk, NEW e, WalkOK(e), e.pc = "walk", OutFresh(dk, e), e.left # <<>>, NEW v \in Int,
         StandsFor(dk, e.out, e.left[1], v, e.floor),
         NEW f, f = Advance(e, v)
  PROVE  WalkOK(f) /\ OutFresh(dk, f) /\ f.pc = "walk" /\ f.todo = e.todo /\ f.asked = e.asked /\ f.floor = e.floor
<1>1. PICK left, out, asked, fl : left = e.left /\ out = e.out /\ asked = e.asked /\ fl = e.floor
  OBVIOUS
<1>2. e = Walk(left, out, asked, fl) /\ left \in Seq(Int) /\ out \in Seq(Int) /\ asked \in Seq(Int) /\ fl \in Nat
  BY <1>1, WalkRecord
<1>3. f = Walk(Tail(left), Append(out, v), asked, fl)
  BY <1>2, WalkRecordAfter
<1>4. WalkOK(f) /\ OutFresh(dk, f)
  BY <1>1, <1>2, <1>3, OutGrows
<1>5. f.pc = "walk" /\ f.todo = <<>> /\ f.asked = asked /\ f.floor = fl
  BY <1>3, WalkFields
<1>6. e.todo = <<>>
  BY <1>2, WalkFields
<1> QED BY <1>1, <1>4, <1>5, <1>6

\* A step of the walk, with the cache as fresh as the answer must be.
LEMMA WalkGoes ==
  ASSUME ExpandInv, expander.pc = "walk", UNCHANGED <<volume, changes, inval, entry>>,
         expander'.pc \in {"walk", "done", "failed"}, expander'.asked = expander.asked, expander'.floor = expander.floor,
         expander'.todo = expander.todo, WalkOK(expander'), OutFresh(volume, expander'),
         CacheShape(volume, names'), FreshTo(volume, names', expander.floor)
  PROVE  ExpandInv'
<1>1. /\ DiskOK(volume) /\ QueueOK(inval) /\ Changed = inval.submitted + Len(changes) /\ WalkOK(expander) /\ FloorOK(expander, inval)
      /\ PathsOK(volume, changes, inval.submitted) /\ PathsOK(volume, inval.paths, inval.submitted - Len(inval.paths))
      /\ PathsOK(volume, expander.todo, expander.floor - Len(expander.todo)) /\ EntryOK(entry, expander)
  BY DEF ExpandInv
<1>2. FloorOK(expander', inval)
  BY <1>1 DEF FloorOK
<1>3. FreshTo(volume, names', Applied(expander', inval))
  <2>1. CASE expander'.pc = "walk"
    BY <2>1 DEF Applied
  <2>2. CASE expander'.pc # "walk" /\ inval.lost
    <3>1. Applied(expander', inval) = 0
      BY <2>2 DEF Applied
    <3> QED BY <1>1, <3>1, FreshToNone
  <2>3. CASE expander'.pc # "walk" /\ ~inval.lost
    <3>1. Applied(expander', inval) = expander.floor
      BY <1>1, <2>3 DEF Applied, FloorOK
    <3> QED BY <3>1
  <2> QED BY <2>1, <2>2, <2>3
<1>4. EntryOK(entry, expander')
  BY <1>1 DEF EntryOK
<1>5. Changed' = Changed /\ volume' = volume /\ changes' = changes /\ entry' = entry /\ inval' = inval
  BY DEF Changed
<1> QED BY <1>1, <1>2, <1>3, <1>4, <1>5 DEF ExpandInv

\* What the walk starts from.
LEMMA Walking ==
  ASSUME ExpandInv, expander.pc = "walk"
  PROVE  /\ DiskOK(volume) /\ WalkOK(expander) /\ OutFresh(volume, expander)
         /\ CacheShape(volume, names) /\ FreshTo(volume, names, expander.floor)
BY DEF ExpandInv, Applied

\* A long name stays.
LEMMA LongStep ==
  ASSUME ExpandInv, StepLong
  PROVE  ExpandInv'
<1>1. expander.pc = "walk" /\ expander.left # <<>> /\ ~IsShort(Head(expander.left)) /\ names' = names
  BY DEF StepLong, None
<1>2. UNCHANGED <<volume, changes, inval, entry>>
  BY DEF StepLong
<1>3. /\ DiskOK(volume) /\ WalkOK(expander) /\ OutFresh(volume, expander)
      /\ CacheShape(volume, names) /\ FreshTo(volume, names, expander.floor)
  BY <1>1, Walking
<1>4. PICK v : v = Head(expander.left)
  OBVIOUS
<1>5. v \in Int /\ v = expander.left[1]
  <2>1. expander.left \in Seq(Int)
    BY <1>3 DEF WalkOK, Walks, Paths
  <2> QED BY <1>1, <1>4, <2>1
<1>6. PICK f : f = expander'
  OBVIOUS
<1>7. f = Advance(expander, v)
  BY <1>4, <1>6 DEF StepLong
<1>8. WalkOK(f) /\ OutFresh(volume, f) /\ f.pc = "walk" /\ f.todo = expander.todo /\ f.asked = expander.asked /\ f.floor = expander.floor
  <2>1. StandsFor(volume, expander.out, expander.left[1], v, expander.floor)
    BY <1>1, <1>4, <1>5 DEF StandsFor
  <2> QED BY <1>1, <1>3, <1>4, <1>5, <1>7, <2>1, OutGrown
<1> QED BY <1>1, <1>2, <1>3, <1>6, <1>8, WalkGoes

\* A short name the cache has.
LEMMA CachedStep ==
  ASSUME ExpandInv, StepCached
  PROVE  ExpandInv'
<1>1. PICK k, v : k = Key(expander.out, Head(expander.left)) /\ v = names[k]
  OBVIOUS
<1>2. /\ expander.pc = "walk" /\ expander.left # <<>> /\ k \in DOMAIN names /\ names' = names
      /\ UNCHANGED <<volume, changes, inval, entry>>
  BY <1>1 DEF StepCached, None
<1>3. /\ DiskOK(volume) /\ WalkOK(expander) /\ OutFresh(volume, expander)
      /\ CacheShape(volume, names) /\ FreshTo(volume, names, expander.floor)
  BY <1>2, Walking
<1>4. expander.left \in Seq(Int) /\ Head(expander.left) = expander.left[1]
  <2>1. expander.left \in Seq(Int)
    BY <1>3 DEF WalkOK, Walks, Paths
  <2> QED BY <1>2, <2>1
<1>5. k[1] = expander.out /\ k[2] = expander.left[1]
  BY <1>1, <1>4 DEF Key
<1>6. v \in Nat \ {0} /\ (RootEntry(volume, k, v) \/ DirEntry(volume, k, v))
  BY <1>1, <1>2, <1>3 DEF CacheShape
<1>7. IsShort(expander.left[1])
  <2>1. RootEntry(volume, k, v) => k[2] = S
    BY DEF RootEntry
  <2>2. DirEntry(volume, k, v) => k[2] = T
    BY DEF DirEntry
  <2> QED BY <1>5, <1>6, <2>1, <2>2, ShortNames
<1>8. v \in Int /\ ~IsShort(v)
  BY <1>6 DEF IsShort
<1>9. v \in DOMAIN volume.gone /\ volume.gone[v] <= expander.floor => \E j \in DOMAIN expander.out : expander.out[j] \in DOMAIN volume.gone
  BY <1>1, <1>2, <1>3, <1>5 DEF FreshTo
<1>10. PICK f : f = expander'
  OBVIOUS
<1>11. f = Advance(expander, v)
  BY <1>1, <1>10 DEF StepCached
<1>12. WalkOK(f) /\ OutFresh(volume, f) /\ f.pc = "walk" /\ f.todo = expander.todo /\ f.asked = expander.asked /\ f.floor = expander.floor
  <2>1. StandsFor(volume, expander.out, expander.left[1], v, expander.floor)
    BY <1>7, <1>8, <1>9 DEF StandsFor
  <2> QED BY <1>2, <1>3, <1>8, <1>11, <2>1, OutGrown
<1> QED BY <1>2, <1>3, <1>10, <1>12, WalkGoes

\* One it does not have: what the disk says now goes into the cache.
LEMMA KeptNew ==
  ASSUME NEW dk, DiskOK(dk), NEW c, CacheShape(dk, c), NEW n, FreshTo(dk, c, n), NEW k, k \notin DOMAIN c,
         NEW v \in Nat \ {0}, RootEntry(dk, k, v) \/ DirEntry(dk, k, v), v \notin DOMAIN dk.gone,
         NEW room, room = IF Cardinality(DOMAIN c) >= ExpandCap THEN <<>> ELSE c, NEW f, f = WithAll(room, {k}, v)
  PROVE  CacheShape(dk, f) /\ FreshTo(dk, f, n)
<1>1. CacheShape(dk, room) /\ FreshTo(dk, room, n)
  BY EmptyCache
<1>2. PICK D, E : D = DOMAIN room /\ E = DOMAIN f
  OBVIOUS
<1>3. E = D \cup {k} /\ f[k] = v /\ \A x \in E : x # k => x \in D /\ f[x] = room[x]
  <2>1. k \in {k}
    OBVIOUS
  <2> QED BY <1>2, <2>1 DEF WithAll
<1>4. IsFiniteSet(D) /\ k \notin D /\ Cardinality(D) < ExpandCap /\ Cardinality(D) \in Nat
  <2>1. CASE Cardinality(DOMAIN c) >= ExpandCap
    <3>1. PICK none : none = {}
      OBVIOUS
    <3>2. D = none
      BY <1>2, <2>1, <3>1
    <3>3. IsFiniteSet(none) /\ Cardinality(none) = 0
      BY <3>1, FS_EmptySet
    <3> QED BY <3>1, <3>2, <3>3, ExpandAssumption
  <2>2. CASE ~(Cardinality(DOMAIN c) >= ExpandCap)
    <3>1. D = DOMAIN c
      BY <1>2, <2>2
    <3>2. IsFiniteSet(D)
      BY <3>1 DEF CacheShape
    <3>3. Cardinality(D) \in Nat
      BY <3>2, FS_CardinalityType
    <3> QED BY <2>2, <3>1, <3>2, <3>3, ExpandAssumption
  <2> QED BY <2>1, <2>2
<1>5. IsFiniteSet(E) /\ Cardinality(E) = Cardinality(D) + 1
  BY <1>3, <1>4, FS_AddElement
<1>6. IsFiniteSet(DOMAIN f) /\ Cardinality(DOMAIN f) <= ExpandCap
  BY <1>2, <1>4, <1>5, ExpandAssumption
<1>7. ASSUME NEW x \in DOMAIN f PROVE f[x] \in Nat \ {0} /\ (RootEntry(dk, x, f[x]) \/ DirEntry(dk, x, f[x]))
  <2>1. CASE x = k
    BY <1>3, <2>1
  <2>2. CASE x # k
    <3>1. x \in DOMAIN room /\ f[x] = room[x]
      BY <1>2, <1>3, <2>2
    <3> QED BY <1>1, <3>1 DEF CacheShape
  <2> QED BY <2>1, <2>2
<1>8. CacheShape(dk, f)
  BY <1>6, <1>7 DEF CacheShape
<1>9. FreshTo(dk, f, n)
  <2> SUFFICES ASSUME NEW x \in DOMAIN f, f[x] \in DOMAIN dk.gone, dk.gone[f[x]] <= n
               PROVE  \E j \in DOMAIN x[1] : x[1][j] \in DOMAIN dk.gone
    BY DEF FreshTo
  <2>1. x # k
    BY <1>3
  <2>2. x \in DOMAIN room /\ f[x] = room[x]
    BY <1>2, <1>3, <2>1
  <2> QED BY <1>1, <2>2 DEF FreshTo
<1> QED BY <1>8, <1>9

\* One it does not have, or no longer: the disk is asked.
LEMMA LookedUpStep ==
  ASSUME ExpandInv, StepLookedUp
  PROVE  ExpandInv'
<1>1. PICK c, k, long, kept, room : /\ c = Head(expander.left) /\ k = Key(expander.out, c) /\ long = LongName(expander.out, c)
                                    /\ kept = Without(names, {k})
                                    /\ room = IF Cardinality(DOMAIN kept) >= ExpandCap THEN <<>> ELSE kept
  OBVIOUS
<1>2. /\ expander.pc = "walk" /\ expander.left # <<>> /\ IsShort(c) /\ UNCHANGED <<volume, changes, inval, entry>>
      /\ IF long = None
         THEN expander' = [expander EXCEPT !.pc = "failed"] /\ names' = kept
         ELSE expander' = Advance(expander, Head(long)) /\ names' = WithAll(room, {k}, Head(long))
  BY <1>1 DEF StepLookedUp, None
<1>3. /\ DiskOK(volume) /\ WalkOK(expander) /\ OutFresh(volume, expander)
      /\ CacheShape(volume, names) /\ FreshTo(volume, names, expander.floor)
  BY <1>2, Walking
<1>4. expander.left \in Seq(Int) /\ c = expander.left[1]
  <2>1. expander.left \in Seq(Int)
    BY <1>3 DEF WalkOK, Walks, Paths
  <2> QED BY <1>1, <1>2, <2>1
<1>5. CacheShape(volume, kept) /\ FreshTo(volume, kept, expander.floor) /\ DOMAIN kept = DOMAIN names \ {k}
  <2>1. PICK n, keys : n = expander.floor /\ keys = {k}
    OBVIOUS
  <2>2. kept = Without(names, keys) /\ CacheShape(volume, names) /\ FreshTo(volume, names, n)
    BY <1>1, <1>3, <2>1
  <2>3. CacheShape(volume, kept) /\ FreshTo(volume, kept, n) /\ DOMAIN kept = DOMAIN names \ keys
    BY <2>2, FewerCached
  <2> QED BY <2>1, <2>3
<1>6. CASE long = None
  <2>1. expander' = [expander EXCEPT !.pc = "failed"] /\ names' = kept
    BY <1>2, <1>6
  <2>2. PICK left, out, asked, fl : left = expander.left /\ out = expander.out /\ asked = expander.asked /\ fl = expander.floor
    OBVIOUS
  <2>3. expander = Walk(left, out, asked, fl) /\ left \in Seq(Int) /\ out \in Seq(Int) /\ asked \in Seq(Int) /\ fl \in Nat
    BY <1>2, <1>3, <2>2, WalkRecord
  <2>4. expander' = [pc |-> "failed", todo |-> <<>>, left |-> left, out |-> out, asked |-> asked, floor |-> fl]
    BY <2>1, <2>3 DEF Walk
  <2>5. /\ expander'.pc = "failed" /\ expander'.todo = <<>> /\ expander'.left = left /\ expander'.out = out
        /\ expander'.asked = asked /\ expander'.floor = fl
    BY <2>4
  <2>6. WalkOK(expander')
    <3>1. expander' \in Walks
      BY <2>3, <2>4 DEF Walks, Paths
    <3>2. /\ Len(asked) = Len(out) + Len(left) /\ LongForm(out, asked)
          /\ \A i \in DOMAIN left : left[i] = asked[Len(out) + i]
      BY <1>3, <2>2 DEF WalkOK
    <3> QED BY <2>5, <3>1, <3>2 DEF WalkOK
  <2>7. OutFresh(volume, expander')
    BY <1>3, <2>2, <2>5 DEF OutFresh
  <2>8. expander.todo = <<>>
    BY <2>3, WalkFields
  <2> QED BY <1>2, <1>5, <2>1, <2>2, <2>5, <2>6, <2>7, <2>8, WalkGoes
<1>7. CASE long # None
  <2>1. PICK v : v = Head(long)
    OBVIOUS
  <2>2. \/ c = S /\ expander.out = <<>> /\ long = <<volume.d>>
        \/ c = T /\ expander.out = <<volume.d>> /\ long = <<volume.t>>
    BY <1>1, <1>7, ShortNames DEF LongName
  <2>3. v \in Nat \ {0} /\ v \notin DOMAIN volume.gone /\ (RootEntry(volume, k, v) \/ DirEntry(volume, k, v))
    <3>1. CASE c = S /\ expander.out = <<>> /\ long = <<volume.d>>
      <4>1. v = volume.d /\ k = <<None, S>>
        BY <1>1, <2>1, <3>1, ShortNames DEF Key
      <4> QED BY <1>3, <4>1, DiskOrder DEF RootEntry
    <3>2. CASE c = T /\ expander.out = <<volume.d>> /\ long = <<volume.t>>
      <4>1. v = volume.t /\ k = <<<<volume.d>>, T>>
        BY <1>1, <2>1, <3>2 DEF Key
      <4>2. volume.t > volume.d
        BY <1>3, DiskOrder
      <4> QED BY <1>3, <4>1, <4>2, DiskOrder DEF DirEntry
    <3> QED BY <2>2, <3>1, <3>2
  <2>4. PICK n : n = expander.floor
    OBVIOUS
  <2>5. names' = WithAll(room, {k}, v)
    BY <1>2, <1>7, <2>1
  <2>6. CacheShape(volume, names') /\ FreshTo(volume, names', n)
    <3>1. k \notin DOMAIN kept
      BY <1>5
    <3>2. PICK f : f = names'
      OBVIOUS
    <3> QED BY <1>1, <1>3, <1>5, <2>3, <2>4, <2>5, <3>1, <3>2, KeptNew
  <2>7. PICK f : f = expander'
    OBVIOUS
  <2>8. f = Advance(expander, v)
    BY <1>2, <1>7, <2>1, <2>7
  <2>9. v \in Int /\ StandsFor(volume, expander.out, expander.left[1], v, expander.floor)
    BY <1>2, <1>4, <2>3 DEF StandsFor, IsShort
  <2>10. WalkOK(f) /\ OutFresh(volume, f) /\ f.pc = "walk" /\ f.todo = expander.todo /\ f.asked = expander.asked /\ f.floor = expander.floor
    BY <1>2, <1>3, <2>8, <2>9, OutGrown
  <2> QED BY <1>2, <2>4, <2>6, <2>7, <2>10, WalkGoes
<1> QED BY <1>6, <1>7

\* Nothing is left.
LEMMA EndStep ==
  ASSUME ExpandInv, WalkEnds
  PROVE  ExpandInv'
<1>1. expander.pc = "walk" /\ expander.left = <<>> /\ UNCHANGED <<volume, changes, inval, names, entry>>
  BY DEF WalkEnds, None
<1>2. /\ DiskOK(volume) /\ WalkOK(expander) /\ OutFresh(volume, expander)
      /\ CacheShape(volume, names) /\ FreshTo(volume, names, expander.floor)
  BY <1>1, Walking
<1>3. PICK left, out, asked, fl : left = expander.left /\ out = expander.out /\ asked = expander.asked /\ fl = expander.floor
  OBVIOUS
<1>4. expander = Walk(left, out, asked, fl) /\ left \in Seq(Int) /\ out \in Seq(Int) /\ asked \in Seq(Int) /\ fl \in Nat
  BY <1>1, <1>2, <1>3, WalkRecord
<1>5. expander' = [pc |-> "done", todo |-> <<>>, left |-> left, out |-> out, asked |-> asked, floor |-> fl]
  <2>1. expander' = [expander EXCEPT !.pc = "done"]
    BY DEF WalkEnds
  <2> QED BY <1>4, <2>1 DEF Walk
<1>6. /\ expander'.pc = "done" /\ expander'.todo = <<>> /\ expander'.left = left /\ expander'.out = out
      /\ expander'.asked = asked /\ expander'.floor = fl
  BY <1>5
<1>7. WalkOK(expander')
  <2>1. expander' \in Walks
    BY <1>4, <1>5 DEF Walks, Paths
  <2>2. /\ Len(asked) = Len(out) + Len(left) /\ LongForm(out, asked)
        /\ \A i \in DOMAIN left : left[i] = asked[Len(out) + i]
    BY <1>2, <1>3 DEF WalkOK
  <2>3. left = <<>>
    BY <1>1, <1>3
  <2> QED BY <1>6, <2>1, <2>2, <2>3 DEF WalkOK
<1>8. OutFresh(volume, expander')
  BY <1>2, <1>3, <1>6 DEF OutFresh
<1>9. expander.todo = <<>>
  BY <1>4, WalkFields
<1> QED BY <1>1, <1>2, <1>3, <1>6, <1>7, <1>8, <1>9, WalkGoes

\* The entry's record.
LEMMA EntryRecord ==
  ASSUME NEW n, NEW e, EntryOK(n, e)
  PROVE  /\ n = [nt |-> n.nt, expanded |-> n.expanded, asked |-> n.asked, asks |-> n.asks]
         /\ n.nt \in Paths /\ n.expanded \in Paths /\ n.asked \in Paths /\ n.asks \in Nat
BY DEF EntryOK

\* A step of the pipeline that leaves the lane alone.
LEMMA EntryGoes ==
  ASSUME ExpandInv, UNCHANGED <<volume, changes, inval, names, expander>>, EntryOK(entry', expander)
  PROVE  ExpandInv'
<1>1. Changed' = Changed
  BY DEF Changed
<1> QED BY <1>1 DEF ExpandInv

\* The handle is opened.
LEMMA OpenStep ==
  ASSUME ExpandInv, NEW path \in Paths, OpenEntry(path)
  PROVE  ExpandInv'
<1>1. EntryOK(entry, expander)
  BY DEF ExpandInv
<1>2. PICK x, a, n : x = entry.expanded /\ a = entry.asked /\ n = entry.asks
  OBVIOUS
<1>3. entry.nt = <<>> /\ entry = [nt |-> <<>>, expanded |-> x, asked |-> a, asks |-> n] /\ x \in Paths /\ a \in Paths /\ n \in Nat
  BY <1>1, <1>2, EntryRecord DEF OpenEntry, None
<1>4. x = <<>>
  <2>1. x # <<>> => Len(x) = Len(<<>>)
    BY <1>1, <1>2, <1>3 DEF EntryOK
  <2>2. x \in Seq(Int)
    BY <1>3 DEF Paths
  <2> QED BY <2>1, <2>2
<1>5. entry' = [nt |-> path, expanded |-> <<>>, asked |-> a, asks |-> n]
  <2>1. entry' = [entry EXCEPT !.nt = path]
    BY DEF OpenEntry
  <2> QED BY <1>3, <1>4, <2>1
<1>6. EntryOK(entry', expander)
  <2>1. entry' \in [nt : Paths, expanded : Paths, asked : Paths, asks : Nat]
    BY <1>3, <1>4, <1>5
  <2>2. entry'.nt = path /\ entry'.expanded = <<>> /\ entry'.asked = a
    BY <1>5
  <2> QED BY <1>1, <1>2, <2>1, <2>2 DEF EntryOK
<1> QED BY <1>6, EntryGoes DEF OpenEntry

\* It is closed.
LEMMA CloseStep ==
  ASSUME ExpandInv, CloseEntry
  PROVE  ExpandInv'
<1>1. EntryOK(entry, expander)
  BY DEF ExpandInv
<1>2. PICK t, x, a, n : t = entry.nt /\ x = entry.expanded /\ a = entry.asked /\ n = entry.asks
  OBVIOUS
<1>3. entry = [nt |-> t, expanded |-> x, asked |-> a, asks |-> n] /\ a \in Paths /\ n \in Nat
  BY <1>1, <1>2, EntryRecord
<1>4. entry' = [nt |-> <<>>, expanded |-> <<>>, asked |-> a, asks |-> n]
  <2>1. entry' = [entry EXCEPT !.nt = <<>>, !.expanded = <<>>]
    BY DEF CloseEntry, None
  <2> QED BY <1>3, <2>1
<1>5. EntryOK(entry', expander)
  <2>1. entry' \in [nt : Paths, expanded : Paths, asked : Paths, asks : Nat]
    BY <1>3, <1>4 DEF Paths
  <2>2. entry'.nt = <<>> /\ entry'.expanded = <<>> /\ entry'.asked = a
    BY <1>4
  <2> QED BY <1>1, <1>2, <2>1, <2>2 DEF EntryOK
<1> QED BY <1>5, EntryGoes DEF CloseEntry

\* The slot is forgotten.
LEMMA ForgetStep ==
  ASSUME ExpandInv, ForgetSlot
  PROVE  ExpandInv'
<1>1. EntryOK(entry, expander)
  BY DEF ExpandInv
<1>2. PICK t, x, a, n : t = entry.nt /\ x = entry.expanded /\ a = entry.asked /\ n = entry.asks
  OBVIOUS
<1>3. entry = [nt |-> t, expanded |-> x, asked |-> a, asks |-> n] /\ t \in Paths /\ x \in Paths /\ n \in Nat
  BY <1>1, <1>2, EntryRecord
<1>4. entry' = [nt |-> t, expanded |-> x, asked |-> <<>>, asks |-> n]
  <2>1. entry' = [entry EXCEPT !.asked = <<>>]
    BY DEF ForgetSlot, None
  <2> QED BY <1>3, <2>1
<1>5. EntryOK(entry', expander)
  <2>1. entry' \in [nt : Paths, expanded : Paths, asked : Paths, asks : Nat]
    BY <1>3, <1>4 DEF Paths
  <2>2. entry'.nt = t /\ entry'.expanded = x /\ entry'.asked = <<>>
    BY <1>4
  <2>3. x # <<>> => Len(x) = Len(t) /\ LongForm(x, t)
    BY <1>1, <1>2 DEF EntryOK
  <2> QED BY <2>1, <2>2, <2>3 DEF EntryOK
<1> QED BY <1>5, EntryGoes DEF ForgetSlot

\* A step of the lane between two jobs: it has seen what it had seen.
LEMMA IdleGoes ==
  ASSUME ExpandInv, expander.pc \notin {"clear", "walk"}, expander'.pc \notin {"clear", "walk"}, UNCHANGED <<volume, changes, inval, names>>,
         expander'.todo = <<>>, expander'.out = <<>>, expander'.floor = 0, WalkOK(expander'), EntryOK(entry', expander')
  PROVE  ExpandInv'
<1>1. /\ QueueOK(inval) /\ Changed' = Changed /\ FreshTo(volume, names, Applied(expander, inval))
  BY DEF ExpandInv, Changed
<1>2. Applied(expander', inval) = Applied(expander, inval)
  BY DEF Applied
<1>3. FloorOK(expander', inval)
  <2>1. inval.submitted \in Nat
    BY <1>1 DEF QueueOK
  <2> QED BY <2>1 DEF FloorOK
<1>4. OutFresh(volume, expander')
  BY DEF OutFresh
<1>5. PathsOK(volume, <<>>, expander'.floor - Len(expander'.todo))
  BY DEF PathsOK
<1> QED BY <1>1, <1>2, <1>3, <1>4, <1>5 DEF ExpandInv

\* An event asks.
LEMMA EmitStep ==
  ASSUME ExpandInv, EmitFile
  PROVE  ExpandInv'
<1>1. EntryOK(entry, expander) /\ expander.pc = "idle"
  BY DEF ExpandInv, EmitFile
<1>2. PICK t, x, a, n : t = entry.nt /\ x = entry.expanded /\ a = entry.asked /\ n = entry.asks
  OBVIOUS
<1>3. entry = [nt |-> t, expanded |-> x, asked |-> a, asks |-> n] /\ t \in Paths /\ x \in Paths /\ n \in Nat
  BY <1>1, <1>2, EntryRecord
<1>4. entry' = [nt |-> t, expanded |-> x, asked |-> t, asks |-> n + 1]
  <2>1. entry' = [entry EXCEPT !.asked = t, !.asks = @ + 1]
    BY <1>2 DEF EmitFile
  <2> QED BY <1>3, <2>1
<1>5. expander' = [pc |-> "queued", todo |-> <<>>, left |-> t, out |-> <<>>, asked |-> t, floor |-> 0]
  BY <1>2 DEF EmitFile, Idle, None
<1>6. expander'.pc = "queued" /\ expander'.todo = <<>> /\ expander'.left = t /\ expander'.out = <<>> /\ expander'.asked = t /\ expander'.floor = 0
  BY <1>5
<1>7. WalkOK(expander')
  <2>1. expander' \in Walks
    BY <1>3, <1>5 DEF Walks, Paths
  <2>2. t \in Seq(Int) /\ Len(<<>>) = 0
    BY <1>3 DEF Paths
  <2>3. Len(t) = 0 + Len(t) /\ \A i \in DOMAIN t : t[i] = t[0 + i]
    BY <2>2
  <2>4. LongForm(<<>>, t)
    BY DEF LongForm
  <2> QED BY <1>6, <2>1, <2>2, <2>3, <2>4 DEF WalkOK
<1>8. EntryOK(entry', expander')
  <2>1. entry' \in [nt : Paths, expanded : Paths, asked : Paths, asks : Nat]
    BY <1>3, <1>4
  <2>2. entry'.nt = t /\ entry'.expanded = x /\ entry'.asked = t
    BY <1>4
  <2>3. x # <<>> => Len(x) = Len(t) /\ LongForm(x, t)
    BY <1>1, <1>2 DEF EntryOK
  <2> QED BY <1>6, <2>1, <2>2, <2>3 DEF EntryOK
<1>9. UNCHANGED <<volume, changes, inval, names>>
  BY DEF EmitFile
<1> QED BY <1>1, <1>6, <1>7, <1>8, <1>9, IdleGoes

\* The answer comes.
LEMMA AnswerStep ==
  ASSUME ExpandInv, OnExpanded
  PROVE  ExpandInv'
<1>1. EntryOK(entry, expander) /\ WalkOK(expander) /\ expander.pc \in {"done", "failed"}
  BY DEF ExpandInv, OnExpanded
<1>2. PICK t, x, a, n, out, new : /\ t = entry.nt /\ x = entry.expanded /\ a = entry.asked /\ n = entry.asks /\ out = expander.out
                                  /\ new = IF a # <<>> /\ expander.pc = "done" /\ t = a THEN out ELSE x
  OBVIOUS
<1>3. entry = [nt |-> t, expanded |-> x, asked |-> a, asks |-> n] /\ t \in Paths /\ x \in Paths /\ n \in Nat
  BY <1>1, <1>2, EntryRecord
<1>4. entry' = [nt |-> t, expanded |-> new, asked |-> <<>>, asks |-> n]
  <2>1. new = IF entry.asked # None /\ expander.pc = "done" /\ SameFile(entry.asked) THEN expander.out ELSE entry.expanded
    BY <1>2 DEF None, SameFile
  <2>2. entry' = [entry EXCEPT !.asked = <<>>, !.expanded = new]
    BY <1>3, <2>1 DEF OnExpanded, None
  <2> QED BY <1>3, <2>2
<1>5. expander' = [pc |-> "idle", todo |-> <<>>, left |-> <<>>, out |-> <<>>, asked |-> <<>>, floor |-> 0]
  BY DEF OnExpanded, Idle, None
<1>6. /\ expander'.pc = "idle" /\ expander'.todo = <<>> /\ expander'.left = <<>> /\ expander'.out = <<>>
      /\ expander'.asked = <<>> /\ expander'.floor = 0
  BY <1>5
<1>7. WalkOK(expander')
  <2>1. expander' \in Walks
    BY <1>5 DEF Walks, Paths
  <2> QED BY <1>6, <2>1 DEF WalkOK, LongForm
<1>8. new \in Paths /\ (new # <<>> => Len(new) = Len(t) /\ LongForm(new, t))
  <2>1. CASE a # <<>> /\ expander.pc = "done" /\ t = a
    <3>1. new = out /\ t = expander.asked /\ expander.left = <<>>
      BY <1>1, <1>2, <2>1 DEF EntryOK, WalkOK
    <3>2. Len(expander.asked) = Len(out) + Len(expander.left) /\ LongForm(out, expander.asked) /\ out \in Paths
      BY <1>1, <1>2 DEF WalkOK, Walks
    <3>3. Len(<<>>) = 0 /\ Len(out) \in Nat
      BY <3>2 DEF Paths
    <3> QED BY <3>1, <3>2, <3>3
  <2>2. CASE ~(a # <<>> /\ expander.pc = "done" /\ t = a)
    <3>1. new = x
      BY <1>2, <2>2
    <3> QED BY <1>1, <1>2, <1>3, <3>1 DEF EntryOK
  <2> QED BY <2>1, <2>2
<1>9. EntryOK(entry', expander')
  <2>1. entry' \in [nt : Paths, expanded : Paths, asked : Paths, asks : Nat]
    BY <1>3, <1>4, <1>8 DEF Paths
  <2>2. entry'.nt = t /\ entry'.expanded = new /\ entry'.asked = <<>>
    BY <1>4
  <2> QED BY <1>8, <2>1, <2>2 DEF EntryOK
<1>10. UNCHANGED <<volume, changes, inval, names>>
  BY DEF OnExpanded
<1> QED BY <1>1, <1>6, <1>7, <1>9, <1>10, IdleGoes

-----------------------------------------------------------------------------
(* The expander is right                                                     *)

\* The paths a handle may be opened by.
LEMMA OpenPaths ==
  ASSUME ExpandInv, NEW path \in {<<S, T>>} \cup {<<d, T>> : d \in Dirs}
  PROVE  path \in Paths
<1>1. DiskOK(volume)
  BY DEF ExpandInv
<1>2. \A d \in Dirs : d \in Int
  BY <1>1, DiskOrder DEF Dirs
<1>3. S \in Int /\ T \in Int
  BY ShortNames
<1>4. \A d \in Int : <<d, T>> \in Paths
  BY <1>3 DEF Paths
<1> QED BY <1>2, <1>3, <1>4

\* Every step keeps what the cache may hold.
LEMMA ExpandStep == ExpandInv /\ [ExpandNext]_expandVars => ExpandInv'
<1> SUFFICES ASSUME ExpandInv, [ExpandNext]_expandVars PROVE ExpandInv'
  OBVIOUS
<1>1. ASSUME NEW what \in {"dir", "file"}, NEW path \in PathsTo(what), DiskChange(what, path) PROVE ExpandInv'
  BY <1>1, DiskStep
<1>2. ASSUME NEW path \in {<<S, T>>} \cup {<<d, T>> : d \in Dirs}, OpenEntry(path) PROVE ExpandInv'
  BY <1>2, OpenPaths, OpenStep
<1>3. CASE CloseEntry
  BY <1>3, CloseStep
<1>4. CASE SubmitInvalidate
  BY <1>4, SubmitStep
<1>5. CASE EmitFile
  BY <1>5, EmitStep
<1>6. CASE ForgetSlot
  BY <1>6, ForgetStep
<1>7. CASE OnExpanded
  BY <1>7, AnswerStep
<1>8. CASE TakeJob
  BY <1>8, TakeStep
<1>9. CASE Clears
  BY <1>9, ClearStep
<1>10. CASE ClearEnds
  BY <1>10, ClearEndStep
<1>11. CASE StepLong
  BY <1>11, LongStep
<1>12. CASE StepCached
  BY <1>12, CachedStep
<1>13. CASE StepLookedUp
  BY <1>13, LookedUpStep
<1>14. CASE WalkEnds
  BY <1>14, EndStep
<1>15. CASE UNCHANGED expandVars
  <2>1. UNCHANGED <<volume, changes, inval, names, expander, entry>>
    BY <1>15 DEF expandVars
  <2>2. Changed' = Changed /\ Applied(expander, inval)' = Applied(expander, inval)
    BY <2>1 DEF Changed, Applied
  <2> QED BY <2>1, <2>2 DEF ExpandInv
<1> QED BY <1>1, <1>2, <1>3, <1>4, <1>5, <1>6, <1>7, <1>8, <1>9, <1>10, <1>11, <1>12, <1>13, <1>14, <1>15 DEF ExpandNext

\* What the answer names, what is kept of it and how much is cached.
LEMMA ExpandGood == ExpandInv => ExpandOK
<1> SUFFICES ASSUME ExpandInv PROVE ExpandOK
  OBVIOUS
<1>1. NoStaleName
  BY DEF ExpandInv, OutFresh, NoStaleName, Stale
<1>2. EntryExpanded
  <2> SUFFICES ASSUME entry.expanded # None
               PROVE  /\ Len(entry.expanded) = Len(entry.nt)
                      /\ \A i \in DOMAIN entry.nt : IF IsShort(entry.nt[i]) THEN ~IsShort(entry.expanded[i])
                                                    ELSE entry.expanded[i] = entry.nt[i]
    BY DEF EntryExpanded
  <2>1. entry.nt \in Seq(Int) /\ entry.expanded \in Seq(Int)
    BY EntryRecord DEF ExpandInv, Paths
  <2>2. Len(entry.expanded) = Len(entry.nt) /\ LongForm(entry.expanded, entry.nt)
    BY DEF ExpandInv, EntryOK, None
  <2>3. DOMAIN entry.nt = DOMAIN entry.expanded
    BY <2>1, <2>2
  <2> QED BY <2>2, <2>3 DEF LongForm
<1>3. ExpandBounds
  BY DEF ExpandInv, QueueOK, CacheShape, ExpandBounds
<1> QED BY <1>1, <1>2, <1>3 DEF ExpandOK

\* No answer names what was seen to be replaced, whatever the disk does and
\* whatever waits, is lost, forgotten or cleared (expander_lane, invalidate).
THEOREM ExpandAlwaysOK == ExpandSpec => []ExpandOK
<1>1. ExpandInit => ExpandInv
  BY ExpandFirst
<1>2. ExpandInv /\ [ExpandNext]_expandVars => ExpandInv'
  BY ExpandStep
<1>3. ExpandInv => ExpandOK
  BY ExpandGood
<1> QED BY <1>1, <1>2, <1>3, PTL DEF ExpandSpec
=============================================================================
