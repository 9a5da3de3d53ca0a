----------------------------- MODULE ActorsProofs -----------------------------
(* The three properties of Actors, for any processes, PIDs, caps, delays and *)
(* lost events: what the tables keep, whom the pipeline blames, and how often *)
(* a process gets a Launch. First facts about orders and the cache; then the *)
(* invariant, in parts, each with its step lemmas.                           *)
EXTENDS Actors, TLAPS, FiniteSetTheorems, WellFoundedInduction

-----------------------------------------------------------------------------
(* Numbers and orders                                                        *)

\* The larger and the smaller of two.
LEMMA MaxTwo ==
  ASSUME NEW a \in Int, NEW b \in Int
  PROVE  Max({a, b}) \in {a, b} /\ Max({a, b}) >= a /\ Max({a, b}) >= b
<1>1. \E x \in {a, b} : \A y \in {a, b} : x >= y
  OBVIOUS
<1> QED BY <1>1 DEF Max

\* The smaller of two numbers.
LEMMA MinTwo ==
  ASSUME NEW a \in Int, NEW b \in Int
  PROVE  Min({a, b}) \in {a, b} /\ Min({a, b}) <= a /\ Min({a, b}) <= b
<1>1. \E x \in {a, b} : \A y \in {a, b} : x <= y
  OBVIOUS
<1> QED BY <1>1 DEF Min

\* A strict order on a set, as a set of pairs.
Strict(R, S) ==
  /\ \A x \in S : <<x, x>> \notin R
  /\ \A x, y, z \in S : <<x, y>> \in R /\ <<y, z>> \in R => <<x, z>> \in R

\* A finite set has an element no other comes before.
LEMMA FirstOf ==
  ASSUME NEW S, IsFiniteSet(S), S # {}, NEW R, Strict(R, S)
  PROVE  \E m \in S : \A x \in S : <<x, m>> \notin R
<1> DEFINE Endless == {T \in FiniteSubsetsOf(S) : T # {} /\ \A m \in T : \E x \in T : <<x, m>> \in R}
<1>1. SUFFICES ASSUME S \in Endless PROVE FALSE
  BY FS_Subset DEF FiniteSubsetsOf
<1>2. PICK T \in Endless : \A U \in Endless : ~(<<U, T>> \in StrictSubsetOrdering(S))
  <2>1. IsWellFoundedOn(StrictSubsetOrdering(S), FiniteSubsetsOf(S))
    BY FS_StrictSubsetOrderingWellFounded
  <2>2. PICK ends : ends = Endless
    OBVIOUS
  <2>3. S \in ends /\ ends \subseteq FiniteSubsetsOf(S)
    BY <1>1, <2>2
  <2>4. \E T \in ends : \A U \in ends : ~(<<U, T>> \in StrictSubsetOrdering(S))
    BY <2>1, <2>3, WFMin
  <2> QED BY <2>2, <2>4
<1>3. T \subseteq S /\ T # {} /\ \A m \in T : \E x \in T : <<x, m>> \in R
  BY <1>2 DEF FiniteSubsetsOf
<1>4. PICK m \in T : TRUE
  BY <1>3
<1> DEFINE U == {x \in T : <<x, m>> \in R}
<1>5. U \subseteq T /\ m \notin U /\ m \in S /\ U \subseteq S /\ IsFiniteSet(U)
  <2>1. U \subseteq T /\ m \in S /\ U \subseteq S
    BY <1>3, <1>4
  <2>2. m \notin U
    BY <2>1 DEF Strict
  <2>3. PICK V : V = U
    OBVIOUS
  <2>4. IsFiniteSet(V)
    BY <2>1, <2>3, FS_Subset
  <2> QED BY <2>1, <2>2, <2>3, <2>4
<1>6. U \in Endless
  <2>1. U # {}
    BY <1>3, <1>4
  <2>2. ASSUME NEW x \in U PROVE \E y \in U : <<y, x>> \in R
    <3>1. PICK y \in T : <<y, x>> \in R
      BY <1>3, <2>2
    <3>2. <<y, m>> \in R
      BY <1>3, <1>4, <2>2, <3>1 DEF Strict
    <3> QED BY <3>1, <3>2
  <2> QED BY <1>5, <2>1, <2>2 DEF FiniteSubsetsOf
<1>7. <<U, T>> \in StrictSubsetOrdering(S)
  BY <1>3, <1>4, <1>5 DEF StrictSubsetOrdering
<1> QED BY <1>2, <1>6, <1>7

\* A set of numbers has a least one.
LEMMA LeastOf ==
  ASSUME NEW S \in SUBSET Nat, S # {}
  PROVE  \E m \in S : \A y \in S : m <= y
<1>1. IsWellFoundedOn(OpToRel(<, Nat), Nat)
  BY NatLessThanWellFounded
<1>2. PICK m \in S : \A y \in S : ~(<<y, m>> \in OpToRel(<, Nat))
  BY <1>1, WFMin
<1>3. ASSUME NEW y \in S PROVE m <= y
  <2>1. ~(y < m)
    BY <1>2 DEF OpToRel
  <2> QED BY <2>1
<1> QED BY <1>3

\* And as many first ones as one likes.
LEMMA FirstOnes ==
  ASSUME NEW S, IsFiniteSet(S), NEW R, Strict(R, S), NEW n \in Nat, n <= Cardinality(S)
  PROVE  \E old \in SUBSET S : Cardinality(old) = n /\ \A p \in old, q \in S \ old : <<q, p>> \notin R
<1> DEFINE Counts == {k \in Nat : \E old \in SUBSET S :
                         Cardinality(old) = k /\ \A p \in old, q \in S \ old : <<q, p>> \notin R}
           None == {k \in Nat : k <= Cardinality(S)} \ Counts
<1>1. SUFFICES ASSUME n \in None PROVE FALSE
  OBVIOUS
<1>2. PICK k \in None : \A j \in None : k <= j
  <2>1. None \in SUBSET Nat /\ None # {}
    BY <1>1
  <2> HIDE DEF None
  <2> QED BY <2>1, LeastOf
<1>3. Cardinality(S) \in Nat /\ k \in Nat /\ k <= Cardinality(S)
  BY <1>2, FS_CardinalityType
<1>4. 0 \in Counts
  BY FS_EmptySet
<1>5. k \notin Counts /\ \A j \in Nat : j < k => j \in Counts
  BY <1>2, <1>3
<1>6. k # 0 /\ k - 1 \in Nat /\ k - 1 < k
  BY <1>3, <1>4, <1>5
<1>7. k - 1 \in Counts
  BY <1>5, <1>6
<1>8. PICK old \in SUBSET S : Cardinality(old) = k - 1 /\ \A p \in old, q \in S \ old : <<q, p>> \notin R
  BY <1>7
<1> HIDE DEF None
<1>9. IsFiniteSet(S \ old) /\ IsFiniteSet(old)
  BY FS_Subset, FS_Difference
<1>10. S \ old # {}
  <2>1. CASE S \ old = {}
    <3>1. S = old
      BY <2>1
    <3> QED BY <3>1, <1>3, <1>6, <1>8
  <2> QED BY <2>1
<1>11. Strict(R, S \ old)
  BY DEF Strict
<1>12. PICK m \in S \ old : \A x \in S \ old : <<x, m>> \notin R
  BY <1>9, <1>10, <1>11, FirstOf
<1>13. PICK more : more = old \cup {m}
  OBVIOUS
<1>14. Cardinality(more) = Cardinality(old) + 1
  BY <1>9, <1>12, <1>13, FS_AddElement
<1>15. Cardinality(more) = k
  BY <1>3, <1>8, <1>14
<1>16. more \in SUBSET S /\ \A p \in more, q \in S \ more : <<q, p>> \notin R
  BY <1>8, <1>12, <1>13
<1>17. k \in Counts
  BY <1>3, <1>15, <1>16
<1> QED BY <1>5, <1>17


-----------------------------------------------------------------------------
(* The cache                                                                 *)

Entries == [cmd : SUBSET Procs, start : Int, end : Int]

CacheOK(c) ==
  /\ c = [entries |-> c.entries, byPid |-> c.byPid, added |-> c.added, touched |-> c.touched, evicted |-> c.evicted]
  /\ c.entries \in [Cached(c) -> Entries] /\ Cached(c) \subseteq Procs /\ IsFiniteSet(Cached(c))
  /\ c.byPid = [i \in Pids |-> {p \in Cached(c) : PidOf[p] = i}]
  /\ Strict(c.touched, Cached(c)) /\ Ordered(c.touched, Cached(c))
  /\ \A i \in Pids : Strict(c.added, c.byPid[i]) /\ Ordered(c.added, c.byPid[i])
Capped(c) == Cardinality(Cached(c)) <= ProcessCap

\* What may become of a cache: an entry goes once it has ended or as an evicted
\* one, and has the start it had or one of the new ones.
Becomes(c, d, new) ==
  /\ c.evicted \subseteq d.evicted
  /\ \A p \in Cached(c) : p \in Cached(d) \/ c.entries[p].end # Open \/ p \in d.evicted
  /\ \A p \in Cached(d) : /\ (p \in Cached(c) /\ d.entries[p].start = c.entries[p].start) \/ <<p, d.entries[p].start>> \in new
                          /\ d.entries[p].end = Open \/ (p \in Cached(c) /\ d.entries[p].end = c.entries[p].end)

\* Two such changes in a row are one.
LEMMA BecomesTwice ==
  ASSUME NEW c, NEW d, NEW e, NEW new, Becomes(c, d, new), Becomes(d, e, new)
  PROVE  Becomes(c, e, new)
BY DEF Becomes

\* What may become of a cache may become of it when more fits.
LEMMA BecomesMore ==
  ASSUME NEW c, NEW d, NEW new, NEW more, Becomes(c, d, new), new \subseteq more
  PROVE  Becomes(c, d, more)
BY DEF Becomes

\* A key that is put last comes after the others.
LEMMA PutLastOrder ==
  ASSUME NEW order, NEW ps, NEW p, Strict(order, ps), Ordered(order, ps)
  PROVE  Strict(PutLast(order, ps, p), ps \cup {p}) /\ Ordered(PutLast(order, ps, p), ps \cup {p})
<1>1. PICK after : after = PutLast(order, ps, p)
  OBVIOUS
<1>2. \A q, r : <<q, r>> \in after <=> \/ <<q, r>> \in order /\ q # p /\ r # p
                                       \/ q \in ps /\ q # p /\ r = p
  BY <1>1 DEF PutLast
<1>3. Strict(after, ps \cup {p})
  BY <1>2 DEF Strict
<1>4. Ordered(after, ps \cup {p})
  BY <1>2 DEF Ordered
<1> QED BY <1>1, <1>3, <1>4

\* The order of the others does not change.
LEMMA PutLastOthers ==
  ASSUME NEW order, NEW ps, NEW qs, NEW p, p \notin qs, Strict(order, qs), Ordered(order, qs)
  PROVE  Strict(PutLast(order, ps, p), qs) /\ Ordered(PutLast(order, ps, p), qs)
<1>1. PICK after : after = PutLast(order, ps, p)
  OBVIOUS
<1>2. \A q, r : r # p => (<<q, r>> \in after <=> <<q, r>> \in order /\ q # p)
  BY <1>1 DEF PutLast
<1>3. Strict(after, qs)
  BY <1>2 DEF Strict
<1>4. Ordered(after, qs)
  BY <1>2 DEF Ordered
<1> QED BY <1>1, <1>3, <1>4

\* The order of some of the keys.
LEMMA AmongOrder ==
  ASSUME NEW order, NEW ps, NEW qs, NEW left, Strict(order, ps), Ordered(order, ps), qs \subseteq ps, qs \subseteq left
  PROVE  Strict(Among(order, left), qs) /\ Ordered(Among(order, left), qs)
<1>1. PICK after : after = Among(order, left)
  OBVIOUS
<1>2. \A q, r \in qs : <<q, r>> \in after <=> <<q, r>> \in order
  BY <1>1 DEF Among
<1>3. Strict(after, qs)
  BY <1>2 DEF Strict
<1>4. Ordered(after, qs)
  BY <1>2 DEF Ordered
<1> QED BY <1>1, <1>3, <1>4

\* remove: the entry, its place in the list of its PID and its last lookup.
LEMMA RemovedOK ==
  ASSUME NEW c, CacheOK(c), NEW gone
  PROVE  LET d == Removed(c, gone)
         IN /\ CacheOK(d) /\ Cached(d) = Cached(c) \ gone /\ d.evicted = c.evicted
            /\ \A p \in Cached(d) : d.entries[p] = c.entries[p]
<1>1. PICK d : d = Removed(c, gone)
  OBVIOUS
<1>2. /\ d.entries = [p \in Cached(c) \ gone |-> c.entries[p]]
      /\ d.byPid = [i \in Pids |-> c.byPid[i] \ gone]
      /\ d.added = Among(c.added, Cached(c) \ gone) /\ d.touched = Among(c.touched, Cached(c) \ gone)
      /\ d.evicted = c.evicted
  BY <1>1 DEF Removed
<1>3. Cached(d) = Cached(c) \ gone /\ \A p \in Cached(d) : d.entries[p] = c.entries[p]
  BY <1>2 DEF Cached
<1>4. d = [entries |-> d.entries, byPid |-> d.byPid, added |-> d.added, touched |-> d.touched, evicted |-> d.evicted]
  BY <1>1 DEF Removed
<1>5. IsFiniteSet(Cached(d)) /\ Cached(d) \subseteq Procs
  BY <1>3, FS_Subset DEF CacheOK
<1>6. d.entries \in [Cached(d) -> Entries]
  BY <1>2, <1>3 DEF CacheOK
<1>7. d.byPid = [i \in Pids |-> {p \in Cached(d) : PidOf[p] = i}]
  BY <1>2, <1>3 DEF CacheOK
<1>8. Strict(d.touched, Cached(d)) /\ Ordered(d.touched, Cached(d))
  BY <1>2, <1>3, AmongOrder DEF CacheOK
<1>9. ASSUME NEW i \in Pids PROVE Strict(d.added, d.byPid[i]) /\ Ordered(d.added, d.byPid[i])
  <2>1. Strict(c.added, c.byPid[i]) /\ Ordered(c.added, c.byPid[i]) /\ d.byPid[i] \subseteq c.byPid[i]
    BY <1>2 DEF CacheOK
  <2>2. d.byPid[i] \subseteq Cached(c) \ gone
    BY <1>3, <1>7
  <2> QED BY <1>2, <2>1, <2>2, AmongOrder
<1>10. CacheOK(d)
  BY <1>4, <1>5, <1>6, <1>7, <1>8, <1>9 DEF CacheOK
<1> QED BY <1>1, <1>2, <1>3, <1>10

\* lookup_at finds the last started by then, if any.
LEMMA LatestIs ==
  ASSUME NEW c, CacheOK(c), NEW pid \in Pids, NEW ts, StartedBy(c, pid, ts) # {}
  PROVE  /\ Latest(c, pid, ts) \in StartedBy(c, pid, ts)
         /\ \A q \in StartedBy(c, pid, ts) : c.entries[q].start <= c.entries[Latest(c, pid, ts)].start
<1>1. PICK S : S = StartedBy(c, pid, ts)
  OBVIOUS
<1>2. S \subseteq c.byPid[pid] /\ S \subseteq Cached(c) /\ S # {}
  BY <1>1 DEF StartedBy, CacheOK
<1>3. IsFiniteSet(S)
  BY <1>2, FS_Subset DEF CacheOK
<1>4. \A p \in S : c.entries[p].start \in Int
  BY <1>2 DEF CacheOK, Entries
<1>5. Strict(c.added, S) /\ Ordered(c.added, S)
  <2>1. Strict(c.added, c.byPid[pid]) /\ Ordered(c.added, c.byPid[pid])
    BY DEF CacheOK
  <2> QED BY <1>2, <2>1 DEF Strict, Ordered
<1>6. PICK R : R = {x \in S \X S : \/ c.entries[x[2]].start < c.entries[x[1]].start
                                   \/ c.entries[x[2]].start = c.entries[x[1]].start /\ <<x[2], x[1]>> \in c.added}
  OBVIOUS
<1>7. \A p, q \in S : <<p, q>> \in R <=> \/ c.entries[q].start < c.entries[p].start
                                         \/ c.entries[q].start = c.entries[p].start /\ <<q, p>> \in c.added
  BY <1>6
<1>8. Strict(R, S)
  <2>1. ASSUME NEW x \in S PROVE <<x, x>> \notin R
    <3>1. c.entries[x].start \in Int /\ <<x, x>> \notin c.added
      BY <1>4, <1>5 DEF Strict
    <3>2. ~(c.entries[x].start < c.entries[x].start)
      BY <3>1
    <3> QED BY <1>7, <3>1, <3>2
  <2>2. ASSUME NEW x \in S, NEW y \in S, NEW z \in S, <<x, y>> \in R, <<y, z>> \in R PROVE <<x, z>> \in R
    <3>1. /\ c.entries[x].start \in Int /\ c.entries[y].start \in Int /\ c.entries[z].start \in Int
      BY <1>4
    <3>2. <<z, y>> \in c.added /\ <<y, x>> \in c.added => <<z, x>> \in c.added
      BY <1>5 DEF Strict
    <3> QED BY <1>7, <2>2, <3>1, <3>2
  <2> QED BY <2>1, <2>2 DEF Strict
<1>9. PICK m \in S : \A x \in S : <<x, m>> \notin R
  BY <1>2, <1>3, <1>8, FirstOf
<1>10. \A q \in S \ {m} : \/ c.entries[q].start < c.entries[m].start
                          \/ c.entries[q].start = c.entries[m].start /\ <<q, m>> \in c.added
  <2> SUFFICES ASSUME NEW q \in S \ {m}
               PROVE  \/ c.entries[q].start < c.entries[m].start
                      \/ c.entries[q].start = c.entries[m].start /\ <<q, m>> \in c.added
    OBVIOUS
  <2>1. c.entries[q].start \in Int /\ c.entries[m].start \in Int
    BY <1>4
  <2>2. <<q, m>> \in c.added \/ <<m, q>> \in c.added
    BY <1>5 DEF Ordered
  <2>3. ~(c.entries[m].start < c.entries[q].start) /\ ~(c.entries[m].start = c.entries[q].start /\ <<m, q>> \in c.added)
    BY <1>7, <1>9
  <2> QED BY <2>1, <2>2, <2>3
<1>11. PICK l : l = Latest(c, pid, ts)
  OBVIOUS
<1>12. l \in S /\ \A q \in S \ {l} : \/ c.entries[q].start < c.entries[l].start
                                     \/ c.entries[q].start = c.entries[l].start /\ <<q, l>> \in c.added
  BY <1>1, <1>10, <1>11 DEF Latest
<1>13. ASSUME NEW q \in S PROVE c.entries[q].start <= c.entries[l].start
  <2>1. c.entries[q].start \in Int /\ c.entries[l].start \in Int
    BY <1>4, <1>12
  <2>2. PICK a, b \in Int : a = c.entries[q].start /\ b = c.entries[l].start
    BY <2>1
  <2>3. a = b \/ a < b
    BY <1>12, <2>2
  <2> QED BY <2>2, <2>3
<1> QED BY <1>1, <1>11, <1>12, <1>13

\* lookup_at changes the order of the lookups only.
LEMMA LookedUpOK ==
  ASSUME NEW c, CacheOK(c), NEW pid \in Pids, NEW ts
  PROVE  LET d == LookedUp(c, pid, ts)
         IN CacheOK(d) /\ d.entries = c.entries /\ d.evicted = c.evicted
<1>1. CASE StartedBy(c, pid, ts) = {}
  BY <1>1 DEF LookedUp
<1>2. CASE StartedBy(c, pid, ts) # {}
  <2>1. PICK p : p = Latest(c, pid, ts)
    OBVIOUS
  <2>2. p \in Cached(c)
    BY <1>2, <2>1, LatestIs DEF StartedBy, CacheOK
  <2>3. PICK d : d = LookedUp(c, pid, ts)
    OBVIOUS
  <2>4. d = [c EXCEPT !.touched = PutLast(@, Cached(c), p)]
    BY <1>2, <2>1, <2>3 DEF LookedUp, Touch
  <2>5. /\ d.entries = c.entries /\ d.byPid = c.byPid /\ d.added = c.added /\ d.evicted = c.evicted
        /\ d.touched = PutLast(c.touched, Cached(c), p) /\ Cached(d) = Cached(c)
        /\ d = [entries |-> d.entries, byPid |-> d.byPid, added |-> d.added, touched |-> d.touched, evicted |-> d.evicted]
    BY <2>4 DEF CacheOK, Cached
  <2>6. Cached(c) \cup {p} = Cached(c)
    BY <2>2
  <2>7. Strict(d.touched, Cached(c)) /\ Ordered(d.touched, Cached(c))
    BY <2>5, <2>6, PutLastOrder DEF CacheOK
  <2>8. CacheOK(d)
    BY <2>5, <2>7 DEF CacheOK
  <2> QED BY <2>3, <2>5, <2>8
<1> QED BY <1>1, <1>2

\* Older is a strict order, by the ends and the last lookups.
LEMMA OlderStrict ==
  ASSUME NEW c, CacheOK(c)
  PROVE  \E R : /\ Strict(R, Cached(c))
                /\ \A p, q \in Cached(c) : <<p, q>> \in R <=> Older(c, p, q)
<1>1. PICK R : R = {x \in Cached(c) \X Cached(c) : Older(c, x[1], x[2])}
  OBVIOUS
<1>2. \A p, q \in Cached(c) : <<p, q>> \in R <=> Older(c, p, q)
  BY <1>1
<1>3. ASSUME NEW p \in Cached(c) PROVE <<p, p>> \notin R
  <2>1. <<p, p>> \notin c.touched /\ c.entries[p].end \in Int
    BY DEF CacheOK, Strict, Entries
  <2>2. PICK a \in Int : a = c.entries[p].end
    BY <2>1
  <2>3. ~Older(c, p, p)
    BY <2>1, <2>2 DEF Older
  <2> QED BY <1>2, <2>3
<1>4. ASSUME NEW x \in Cached(c), NEW y \in Cached(c), NEW z \in Cached(c), <<x, y>> \in R, <<y, z>> \in R
      PROVE  <<x, z>> \in R
  <2>1. c.entries[x].end \in Int /\ c.entries[y].end \in Int /\ c.entries[z].end \in Int
    BY DEF CacheOK, Entries
  <2>2. PICK a, b, d \in Int : a = c.entries[x].end /\ b = c.entries[y].end /\ d = c.entries[z].end
    BY <2>1
  <2>3. <<x, y>> \in c.touched /\ <<y, z>> \in c.touched => <<x, z>> \in c.touched
    BY DEF CacheOK, Strict
  <2>4. Older(c, x, y) /\ Older(c, y, z)
    BY <1>2, <1>4
  <2>5. Older(c, x, z)
    BY <2>2, <2>3, <2>4 DEF Older
  <2> QED BY <1>2, <2>5
<1>5. Strict(R, Cached(c))
  BY <1>3, <1>4 DEF Strict
<1> QED BY <1>2, <1>5

\* evict_batch: the cap is kept, and who goes while it runs is noted.
LEMMA EvictOK ==
  ASSUME NEW c, CacheOK(c)
  PROVE  LET d == Evict(c)
         IN /\ CacheOK(d) /\ Cached(d) \subseteq Cached(c) /\ c.evicted \subseteq d.evicted
            /\ \A p \in Cached(d) : d.entries[p] = c.entries[p]
            /\ \A p \in Cached(c) : p \in Cached(d) \/ c.entries[p].end # Open \/ p \in d.evicted
            /\ Cardinality(Cached(c)) <= ProcessCap + 1 => Capped(d)
<1>1. ProcessCap \in Nat \ {0}
  BY CacheAssumption
<1>2. IsFiniteSet(Cached(c)) /\ Cardinality(Cached(c)) \in Nat
  BY FS_CardinalityType DEF CacheOK
<1>3. CASE Cardinality(Cached(c)) <= ProcessCap
  BY <1>3 DEF Evict, Capped
<1>4. CASE ~(Cardinality(Cached(c)) <= ProcessCap)
  <2>1. PICK old : old = Oldest(c)
    OBVIOUS
  <2>2. PICK n : n = Max({Cardinality(Cached(c)) \div 8, 1})
    OBVIOUS
  <2>3. n \in Nat /\ 1 <= n /\ n <= Cardinality(Cached(c))
    <3>1. PICK k \in Nat : k = Cardinality(Cached(c)) /\ k >= 1
      BY <1>1, <1>2, <1>4
    <3>2. k \div 8 \in Int /\ k \div 8 <= k /\ k \div 8 >= 0
      BY <3>1
    <3>3. PICK e \in Int : e = k \div 8
      BY <3>2
    <3>4. n = Max({e, 1})
      BY <2>2, <3>1, <3>3
    <3>5. n \in {e, 1} /\ n >= 1
      BY <3>4, MaxTwo
    <3> QED BY <3>1, <3>2, <3>3, <3>5
  <2>4. PICK R : Strict(R, Cached(c)) /\ \A p, q \in Cached(c) : <<p, q>> \in R <=> Older(c, p, q)
    BY OlderStrict
  <2>5. \E o \in SUBSET Cached(c) : Cardinality(o) = n /\ \A p \in o, q \in Cached(c) \ o : <<q, p>> \notin R
    BY <1>2, <2>3, <2>4, FirstOnes
  <2>6. \E o \in SUBSET Cached(c) : Cardinality(o) = n /\ \A p \in o, q \in Cached(c) \ o : ~Older(c, q, p)
    BY <2>4, <2>5
  <2>7. old \in SUBSET Cached(c) /\ Cardinality(old) = n
    BY <2>1, <2>2, <2>6 DEF Oldest
  <2>8. PICK f : f = [c EXCEPT !.evicted = @ \cup Running(c, old)]
    OBVIOUS
  <2>9. PICK d : d = Removed(f, old)
    OBVIOUS
  <2>10. Evict(c) = d
    BY <1>4, <2>1, <2>8, <2>9 DEF Evict
  <2>11. /\ f.entries = c.entries /\ f.byPid = c.byPid /\ f.added = c.added /\ f.touched = c.touched
         /\ f.evicted = c.evicted \cup Running(c, old) /\ Cached(f) = Cached(c)
         /\ f = [entries |-> f.entries, byPid |-> f.byPid, added |-> f.added, touched |-> f.touched, evicted |-> f.evicted]
    BY <2>8 DEF CacheOK, Cached
  <2>12. CacheOK(f)
    BY <2>11 DEF CacheOK
  <2>13. /\ CacheOK(d) /\ Cached(d) = Cached(f) \ old /\ d.evicted = f.evicted
         /\ \A p \in Cached(d) : d.entries[p] = f.entries[p]
    BY <2>9, <2>12, RemovedOK
  <2>14. \A p \in Cached(c) : p \in Cached(d) \/ c.entries[p].end # Open \/ p \in d.evicted
    BY <2>11, <2>13 DEF Running
  <2>15. Cardinality(Cached(d)) = Cardinality(Cached(c)) - n
    <3>1. Cached(c) \cap old = old
      BY <2>7
    <3>2. PICK S : S = Cached(c)
      OBVIOUS
    <3>3. Cardinality(S \ old) = Cardinality(S) - Cardinality(S \cap old)
      BY <1>2, <3>2, FS_Difference
    <3>4. Cached(d) = S \ old
      BY <2>11, <2>13, <3>2
    <3> QED BY <2>7, <3>1, <3>2, <3>3, <3>4
  <2>16. Cardinality(Cached(c)) <= ProcessCap + 1 => Capped(d)
    BY <1>1, <1>2, <2>3, <2>15 DEF Capped
  <2> QED BY <2>10, <2>11, <2>13, <2>14, <2>16
<1> QED BY <1>3, <1>4

\* insert: the process is there after, or was evicted at once.
LEMMA InsertOK ==
  ASSUME NEW c, CacheOK(c), Capped(c), NEW p \in Procs, NEW cmd \in SUBSET Procs, NEW start \in Int,
         NEW new, <<p, start>> \in new
  PROVE  LET d == Insert(c, p, cmd, start)
         IN /\ CacheOK(d) /\ Capped(d) /\ Becomes(c, d, new)
            /\ p \in Cached(d) \/ p \in d.evicted
<1>1. PICK d : d = Insert(c, p, cmd, start)
  OBVIOUS
<1>2. CASE p \in Cached(c)
  <2>1. PICK s \in Int : s = Min({c.entries[p].start, start})
    <3>1. c.entries[p].start \in Int
      BY <1>2 DEF CacheOK, Entries
    <3> QED BY <3>1, MinTwo
  <2>2. PICK e : e = [c.entries[p] EXCEPT !.cmd = cmd, !.start = s]
    OBVIOUS
  <2>3. c.entries[p] \in Entries
    BY <1>2 DEF CacheOK
  <2>4. e \in Entries /\ e.start = s /\ e.end = c.entries[p].end
    BY <2>2, <2>3 DEF Entries
  <2>5. d = [c EXCEPT !.entries = [c.entries EXCEPT ![p] = e]]
    BY <1>1, <1>2, <2>1, <2>2, <2>3 DEF Insert, CacheOK
  <2>6. /\ d.entries = [c.entries EXCEPT ![p] = e] /\ d.byPid = c.byPid /\ d.added = c.added
        /\ d.touched = c.touched /\ d.evicted = c.evicted
        /\ d = [entries |-> d.entries, byPid |-> d.byPid, added |-> d.added, touched |-> d.touched, evicted |-> d.evicted]
    BY <2>5 DEF CacheOK
  <2>7. /\ Cached(d) = Cached(c) /\ d.entries \in [Cached(c) -> Entries]
        /\ d.entries[p] = e /\ \A q \in Cached(c) : q # p => d.entries[q] = c.entries[q]
    BY <1>2, <2>4, <2>6 DEF CacheOK, Cached
  <2>8. CacheOK(d)
    BY <2>6, <2>7 DEF CacheOK
  <2>9. s = c.entries[p].start \/ s = start
    <3>1. c.entries[p].start \in Int
      BY <2>3 DEF Entries
    <3> QED BY <2>1, <3>1, MinTwo
  <2>10. Becomes(c, d, new)
    BY <2>4, <2>6, <2>7, <2>9 DEF Becomes
  <2> QED BY <1>1, <1>2, <2>7, <2>8, <2>10 DEF Capped
<1>3. CASE p \notin Cached(c)
  <2>1. PICK e : e = [entries |-> [q \in Cached(c) \cup {p} |->
                                IF q = p THEN [cmd |-> cmd, start |-> start, end |-> Open] ELSE c.entries[q]],
                byPid |-> [c.byPid EXCEPT ![PidOf[p]] = @ \cup {p}],
                added |-> PutLast(c.added, c.byPid[PidOf[p]], p),
                touched |-> PutLast(c.touched, Cached(c), p),
                evicted |-> c.evicted]
    OBVIOUS
  <2>2. d = Evict(e)
    BY <1>1, <1>3, <2>1 DEF Insert
  <2>3. PICK new1 : new1 = [cmd |-> cmd, start |-> start, end |-> Open]
    OBVIOUS
  <2>4. new1 \in Entries /\ new1.start = start /\ new1.end = Open
    BY <2>3 DEF Entries, Open
  <2>5. /\ e.entries = [q \in Cached(c) \cup {p} |-> IF q = p THEN new1 ELSE c.entries[q]]
        /\ e.byPid = [c.byPid EXCEPT ![PidOf[p]] = c.byPid[PidOf[p]] \cup {p}]
        /\ e.added = PutLast(c.added, c.byPid[PidOf[p]], p)
        /\ e.touched = PutLast(c.touched, Cached(c), p) /\ e.evicted = c.evicted
        /\ e = [entries |-> e.entries, byPid |-> e.byPid, added |-> e.added, touched |-> e.touched, evicted |-> e.evicted]
    BY <2>1, <2>3
  <2>6. /\ Cached(e) = Cached(c) \cup {p} /\ e.entries \in [Cached(e) -> Entries]
        /\ e.entries[p] = new1 /\ \A q \in Cached(c) : e.entries[q] = c.entries[q]
    BY <1>3, <2>4, <2>5 DEF CacheOK, Cached
  <2>7. PidOf[p] \in Pids
    BY DEF Pids
  <2>8. e.byPid = [i \in Pids |-> {q \in Cached(e) : PidOf[q] = i}]
    <3>1. PICK S, b, x : S = Cached(c) /\ b = c.byPid /\ x = PidOf[p]
      OBVIOUS
    <3>2. b = [i \in Pids |-> {q \in S : PidOf[q] = i}]
      BY <3>1 DEF CacheOK
    <3>3. Cached(e) = S \cup {p} /\ x \in Pids /\ e.byPid = [b EXCEPT ![x] = b[x] \cup {p}]
      BY <2>5, <2>6, <2>7, <3>1
    <3>4. ASSUME NEW i \in Pids PROVE e.byPid[i] = {q \in S \cup {p} : PidOf[q] = i}
      <4>1. b[i] = {q \in S : PidOf[q] = i}
        BY <3>2, <3>4
      <4>2. CASE i = x
        <5>1. e.byPid[i] = b[i] \cup {p} /\ PidOf[p] = i
          BY <3>1, <3>2, <3>3, <4>2
        <5> QED BY <4>1, <5>1
      <4>3. CASE i # x
        <5>1. e.byPid[i] = b[i] /\ PidOf[p] # i
          BY <3>1, <3>2, <3>3, <4>3
        <5> QED BY <4>1, <5>1
      <4> QED BY <4>2, <4>3
    <3>5. DOMAIN e.byPid = Pids /\ e.byPid = [i \in DOMAIN e.byPid |-> e.byPid[i]]
      <4>1. DOMAIN b = Pids
        BY <3>2
      <4>2. PICK B : B = b[x] \cup {p}
        OBVIOUS
      <4>3. e.byPid = [b EXCEPT ![x] = B]
        BY <3>3, <4>2
      <4>4. PICK f : f = e.byPid
        OBVIOUS
      <4>5. f = [i \in Pids |-> IF i = x THEN B ELSE b[i]]
        BY <4>1, <4>3, <4>4
      <4> QED BY <4>4, <4>5
    <3> QED BY ZenonT(30), <3>3, <3>4, <3>5
  <2>9. IsFiniteSet(Cached(e)) /\ Cardinality(Cached(e)) = Cardinality(Cached(c)) + 1 /\ Cached(e) \subseteq Procs
    <3>1. PICK S : S = Cached(c)
      OBVIOUS
    <3>2. IsFiniteSet(S) /\ p \notin S /\ S \subseteq Procs
      BY <1>3, <3>1 DEF CacheOK
    <3>3. IsFiniteSet(S \cup {p}) /\ Cardinality(S \cup {p}) = Cardinality(S) + 1
      BY <3>2, FS_AddElement
    <3>4. Cached(e) = S \cup {p}
      BY <2>6, <3>1
    <3> QED BY <3>1, <3>2, <3>3, <3>4
  <2>10. Strict(e.touched, Cached(e)) /\ Ordered(e.touched, Cached(e))
    BY <2>5, <2>6, PutLastOrder DEF CacheOK
  <2>11. ASSUME NEW i \in Pids PROVE Strict(e.added, e.byPid[i]) /\ Ordered(e.added, e.byPid[i])
    <3>1. Strict(c.added, c.byPid[i]) /\ Ordered(c.added, c.byPid[i])
      BY DEF CacheOK
    <3>2. CASE i = PidOf[p]
      <4>1. e.byPid[i] = c.byPid[i] \cup {p}
        BY <2>5, <2>7, <3>2 DEF CacheOK
      <4> QED BY <2>5, <3>1, <3>2, <4>1, PutLastOrder
    <3>3. CASE i # PidOf[p]
      <4>1. e.byPid[i] = c.byPid[i] /\ p \notin c.byPid[i]
        BY <2>5, <2>7, <3>3 DEF CacheOK
      <4> QED BY <2>5, <3>1, <4>1, PutLastOthers
    <3> QED BY <3>2, <3>3
  <2>12. CacheOK(e)
    BY <2>5, <2>6, <2>8, <2>9, <2>10, <2>11 DEF CacheOK
  <2>13. /\ CacheOK(d) /\ Cached(d) \subseteq Cached(e) /\ e.evicted \subseteq d.evicted
         /\ \A q \in Cached(d) : d.entries[q] = e.entries[q]
         /\ \A q \in Cached(e) : q \in Cached(d) \/ e.entries[q].end # Open \/ q \in d.evicted
         /\ Cardinality(Cached(e)) <= ProcessCap + 1 => Capped(d)
    BY <2>2, <2>12, EvictOK
  <2>14. Capped(d)
    <3>1. Cardinality(Cached(c)) \in Nat /\ ProcessCap \in Nat
      BY FS_CardinalityType, CacheAssumption DEF CacheOK
    <3> QED BY <2>9, <2>13, <3>1 DEF Capped
  <2>15. Becomes(c, d, new)
    BY <1>3, <2>4, <2>5, <2>6, <2>13 DEF Becomes
  <2>16. p \in Cached(d) \/ p \in d.evicted
    BY <2>4, <2>6, <2>13
  <2> QED BY <1>1, <2>13, <2>14, <2>15, <2>16
<1> QED BY <1>2, <1>3

\* get_mut, end and expire.
LEMMA SetCommandOK ==
  ASSUME NEW c, CacheOK(c), Capped(c), NEW p \in Procs, NEW cmd \in SUBSET Procs, NEW new
  PROVE  LET d == SetCommand(c, p, cmd) IN CacheOK(d) /\ Capped(d) /\ Becomes(c, d, new)
<1>1. CASE p \notin Cached(c)
  BY <1>1 DEF SetCommand, Becomes
<1>2. CASE p \in Cached(c)
  <2>1. PICK d : d = SetCommand(c, p, cmd)
    OBVIOUS
  <2>2. c.entries[p] \in Entries
    BY <1>2 DEF CacheOK
  <2>3. PICK e : e = [c.entries[p] EXCEPT !.cmd = cmd]
    OBVIOUS
  <2>4. e \in Entries /\ e.start = c.entries[p].start /\ e.end = c.entries[p].end
    BY <2>2, <2>3 DEF Entries
  <2>5. d = [c EXCEPT !.entries = [c.entries EXCEPT ![p] = e]]
    BY <1>2, <2>1, <2>2, <2>3 DEF SetCommand, CacheOK
  <2>6. /\ d.entries = [c.entries EXCEPT ![p] = e] /\ d.byPid = c.byPid /\ d.added = c.added
        /\ d.touched = c.touched /\ d.evicted = c.evicted
        /\ d = [entries |-> d.entries, byPid |-> d.byPid, added |-> d.added, touched |-> d.touched, evicted |-> d.evicted]
    BY <2>5 DEF CacheOK
  <2>7. /\ Cached(d) = Cached(c) /\ d.entries \in [Cached(c) -> Entries]
        /\ d.entries[p] = e /\ \A q \in Cached(c) : q # p => d.entries[q] = c.entries[q]
    BY <1>2, <2>4, <2>6 DEF CacheOK, Cached
  <2>8. CacheOK(d)
    BY <2>6, <2>7 DEF CacheOK
  <2>9. Becomes(c, d, new)
    BY <2>4, <2>6, <2>7 DEF Becomes
  <2> QED BY <2>1, <2>7, <2>8, <2>9 DEF Capped
<1> QED BY <1>1, <1>2

\* An exit ends the record of whoever had the PID.
LEMMA EndOK ==
  ASSUME NEW c, CacheOK(c), Capped(c), NEW p \in Procs, NEW ts \in Int
  PROVE  LET d == End(c, p, ts)
         IN /\ CacheOK(d) /\ Capped(d) /\ Cached(d) = Cached(c) /\ d.evicted = c.evicted
            /\ \A q \in Cached(c) : /\ d.entries[q].start = c.entries[q].start
                                    /\ q # p => d.entries[q].end = c.entries[q].end
<1>1. CASE p \notin Cached(c)
  BY <1>1 DEF End
<1>2. CASE p \in Cached(c)
  <2>1. PICK d : d = End(c, p, ts)
    OBVIOUS
  <2>2. c.entries[p] \in Entries
    BY <1>2 DEF CacheOK
  <2>3. PICK e : e = [c.entries[p] EXCEPT !.end = ts]
    OBVIOUS
  <2>4. e \in Entries /\ e.start = c.entries[p].start
    BY <2>2, <2>3 DEF Entries
  <2>5. d = [c EXCEPT !.entries = [c.entries EXCEPT ![p] = e]]
    BY <1>2, <2>1, <2>2, <2>3 DEF End, CacheOK
  <2>6. /\ d.entries = [c.entries EXCEPT ![p] = e] /\ d.byPid = c.byPid /\ d.added = c.added
        /\ d.touched = c.touched /\ d.evicted = c.evicted
        /\ d = [entries |-> d.entries, byPid |-> d.byPid, added |-> d.added, touched |-> d.touched, evicted |-> d.evicted]
    BY <2>5 DEF CacheOK
  <2>7. /\ Cached(d) = Cached(c) /\ d.entries \in [Cached(c) -> Entries]
        /\ d.entries[p] = e /\ \A q \in Cached(c) : q # p => d.entries[q] = c.entries[q]
    BY <1>2, <2>4, <2>6 DEF CacheOK, Cached
  <2>8. CacheOK(d)
    BY <2>6, <2>7 DEF CacheOK
  <2> QED BY <2>1, <2>4, <2>6, <2>7, <2>8 DEF Capped
<1> QED BY <1>1, <1>2

\* Ended records are forgotten after a while.
LEMMA ExpireOK ==
  ASSUME NEW c, CacheOK(c), Capped(c), NEW now, NEW new
  PROVE  LET d == Expire(c, now) IN CacheOK(d) /\ Capped(d) /\ Becomes(c, d, new)
<1>1. PICK gone : gone = {p \in Cached(c) : c.entries[p].end # Open /\ c.entries[p].end + Retention < now}
  OBVIOUS
<1>2. PICK d : d = Removed(c, gone)
  OBVIOUS
<1>3. Expire(c, now) = d
  BY <1>1, <1>2 DEF Expire
<1>4. /\ CacheOK(d) /\ Cached(d) = Cached(c) \ gone /\ d.evicted = c.evicted
      /\ \A p \in Cached(d) : d.entries[p] = c.entries[p]
  BY <1>2, RemovedOK
<1>5. Becomes(c, d, new)
  BY <1>1, <1>4 DEF Becomes
<1>6. Cardinality(Cached(d)) <= Cardinality(Cached(c)) /\ Cardinality(Cached(d)) \in Nat /\ Cardinality(Cached(c)) \in Nat
  BY <1>4, FS_Subset, FS_CardinalityType DEF CacheOK
<1>7. Capped(d)
  BY <1>6, CacheAssumption DEF Capped
<1> QED BY <1>3, <1>4, <1>5, <1>7

-----------------------------------------------------------------------------
(* The invariant                                                             *)

\* The pipeline handles no event now.
Rests == {Resting, At("sweep"), At("stopping"), At("stopped")}
\* Events on their way or in hand.
UnderWay == coming \cup ({cur} \ Rests)

MachineOK ==
  /\ clock \in Nat /\ stream \in Int
  /\ born \in [Procs -> Nat \cup {Unborn}] /\ died \in [Procs -> Nat \cup {Unborn}]
  /\ \A p \in Procs : /\ born[p] <= clock
                      /\ died[p] # Unborn => born[p] # Unborn /\ born[p] <= died[p] /\ died[p] <= clock
  /\ born[IdleProc] = 0
  /\ stream <= clock \/ cur \in {At("stopping"), At("stopped")}

\* p had exited, and its PID had rested, when q started.
Before(p, q) == died[p] # Unborn /\ died[p] + PidRest < born[q]
PidsOK ==
  \A p, q \in Procs : PidOf[p] = PidOf[q] /\ p # q /\ born[p] # Unborn /\ born[q] # Unborn => Before(p, q) \/ Before(q, p)

\* p was alive at some time in ts.
There(p, ts) == born[p] # Unborn /\ born[p] <= ts /\ ts <= clock /\ (died[p] # Unborn => ts <= died[p])
EventOK(m) ==
  /\ m = [what |-> m.what, of |-> m.of, ts |-> m.ts]
  /\ m.what \in {"start", "classic", "stop", "dcstart"} \cup Doing
  /\ m.of \in Procs /\ m.ts \in Nat /\ There(m.of, m.ts)
  /\ m.what \in {"start", "classic"} => m.ts = born[m.of] /\ There(Parent[m.of], m.ts)
  /\ m.what = "dcstart" => m.ts = 0
  /\ m.what = "stop" => died[m.of] # Unborn

\* Each start is under way once, and what stream time has passed may be late.
EventsOK ==
  /\ \A m \in UnderWay : EventOK(m) /\ (m.ts < stream => m.what \in MayBeLate)
  /\ cur.what = "start" => cur \notin coming

\* A half waits under its process's PID, the later one since the process started.
KernelHalf(i, h) ==
  /\ h = [ts |-> h.ts, id |-> h.id, of |-> h.of] /\ h.of \in Procs /\ PidOf[h.of] = i
  /\ h.ts = born[h.of] /\ h.ts # Unborn
  /\ h.id \in DOMAIN launches /\ launches[h.id].of = h.of
ClassicHalf(i, h) ==
  /\ h = [ts |-> h.ts, of |-> h.of] /\ h.of \in Procs /\ PidOf[h.of] = i
  /\ h.ts = born[h.of] /\ There(h.of, h.ts) /\ There(Parent[h.of], h.ts)
HalvesOK ==
  /\ kernel = [i \in Pids |-> kernel[i]] /\ classic = [i \in Pids |-> classic[i]]
  /\ \A i \in Pids : Waiting(kernel[i]) => kernel[i] = <<kernel[i][1]>> /\ KernelHalf(i, kernel[i][1])
  /\ \A i \in Pids : Waiting(classic[i]) => classic[i] = <<classic[i][1]>> /\ ClassicHalf(i, classic[i][1])

\* The start the cache has for p is one p could have, if Windows named p rightly.
Fits(p, start) ==
  \/ PidOf[p] \in mistaken
  \/ /\ born[p] # Unborn /\ start <= clock /\ (died[p] # Unborn => start <= died[p])
     /\ start >= born[p] \/ (start = Always /\ born[p] = 0)
Fitting == {x \in Procs \X Int : Fits(x[1], x[2])}
EntriesOK == \A p \in Cached(procs) : /\ Fits(p, procs.entries[p].start)
                                      /\ procs.entries[p].end # Open => died[p] # Unborn

\* What a Launch says.
Said == [of : Procs, cmd : SUBSET Procs, waits : BOOLEAN]

\* A process with a Launch has no start to come, and is cached while it runs,
\* unless it was evicted.
StillKnown(p) == p \in Cached(procs) \/ p \in procs.evicted
Launched(p) ==
  /\ born[p] # Unborn
  /\ "start" \notin MayBeLate => \A m \in UnderWay : m.what = "start" => m.of # p
  /\ Alive(p) => StillKnown(p)
LaunchesOK ==
  /\ launches \in Seq(Said)
  /\ \A i \in DOMAIN launches : PidOf[launches[i].of] \notin mistaken =>
        /\ Launched(launches[i].of)
        /\ JoinWindow <= PidRest => launches[i].cmd \subseteq {launches[i].of}
  /\ \A i, j \in DOMAIN launches : i < j /\ launches[i].of = launches[j].of =>
        "start" \in MayBeLate \/ PidOf[launches[i].of] \in mistaken \/ launches[i].of \in procs.evicted

\* The tables of the network; each flow was opened once more than closed.
TablesKept(n) ==
  /\ n = [tcp |-> n.tcp, flows |-> n.flows]
  /\ IsFiniteSet(DOMAIN n.tcp) /\ Cardinality(DOMAIN n.tcp) <= FlowCap
  /\ IsFiniteSet(DOMAIN n.flows) /\ Cardinality(DOMAIN n.flows) <= FlowCap
  /\ DOMAIN n.flows \subseteq Procs \X Ends
  /\ n.flows \in [DOMAIN n.flows -> [direction : {Outbound, Inbound}, last : Int]]
Balanced(n) == [k \in Procs \X Ends |-> IF k \in DOMAIN n.flows THEN 1 ELSE 0]
NetOK ==
  /\ TablesKept(net) /\ balance = Balanced(net)
  /\ cur = At("stopped") => DOMAIN net.flows = {}

AInv ==
  /\ MachineOK /\ PidsOK /\ EventsOK /\ HalvesOK
  /\ CacheOK(procs) /\ Capped(procs) /\ EntriesOK
  /\ LaunchesOK /\ BlamedRight /\ NetOK

-----------------------------------------------------------------------------
(* The network tables                                                        *)

\* Flows that go leave the others as they are.
LEMMA WithoutOK ==
  ASSUME NEW n, TablesKept(n), NEW gone
  PROVE  LET d == Without(n, gone)
         IN /\ TablesKept(d) /\ DOMAIN d.flows = DOMAIN n.flows \ gone /\ d.tcp = n.tcp
<1>1. PICK d : d = Without(n, gone)
  OBVIOUS
<1>2. PICK left : left = [k \in DOMAIN n.flows \ gone |-> n.flows[k]]
  OBVIOUS
<1>3. d = [tcp |-> n.tcp, flows |-> left]
  BY <1>1, <1>2 DEF Without, Restrict, TablesKept
<1>4. d.flows = left /\ d.tcp = n.tcp /\ DOMAIN left = DOMAIN n.flows \ gone
  BY <1>2, <1>3
<1>5. PICK S, T : S = DOMAIN n.flows /\ T = DOMAIN n.flows \ gone
  OBVIOUS
<1>6. IsFiniteSet(S) /\ T \subseteq S
  BY <1>5 DEF TablesKept
<1>7. IsFiniteSet(T) /\ Cardinality(T) <= Cardinality(S) /\ Cardinality(T) \in Nat /\ Cardinality(S) \in Nat
  BY <1>6, FS_Subset, FS_CardinalityType
<1>8. Cardinality(S) <= FlowCap /\ FlowCap \in Nat
  BY <1>5, NetworkAssumption DEF TablesKept
<1>9. Cardinality(T) <= FlowCap
  BY <1>7, <1>8
<1>10. left \in [T -> [direction : {Outbound, Inbound}, last : Int]]
  BY <1>2, <1>5 DEF TablesKept
<1>11. TablesKept(d)
  BY <1>3, <1>4, <1>5, <1>7, <1>9, <1>10 DEF TablesKept
<1> QED BY <1>1, <1>4, <1>11

\* The flows a new one displaces: an eighth of a full table, one at least.
LEMMA DisplacedOK ==
  ASSUME NEW n, TablesKept(n)
  PROVE  /\ Displaced(n) \subseteq DOMAIN n.flows
         /\ Cardinality(DOMAIN n.flows \ Displaced(n)) < FlowCap
<1>1. PICK S : S = DOMAIN n.flows
  OBVIOUS
<1>2. IsFiniteSet(S) /\ Cardinality(S) \in Nat /\ Cardinality(S) <= FlowCap /\ FlowCap \in Nat \ {0}
  BY <1>1, FS_CardinalityType, NetworkAssumption DEF TablesKept
<1>3. CASE ~Full(n)
  <2>1. Displaced(n) = {} /\ ~(Cardinality(S) >= FlowCap)
    BY <1>1, <1>3 DEF Displaced, Full
  <2> QED BY <1>1, <1>2, <2>1
<1>4. CASE Full(n)
  <2>1. Cardinality(S) >= FlowCap
    BY <1>1, <1>4 DEF Full
  <2>2. PICK R : R = {x \in S \X S : n.flows[x[1]].last < n.flows[x[2]].last}
    OBVIOUS
  <2>3. \A k \in S : n.flows[k].last \in Int
    BY <1>1 DEF TablesKept
  <2>4. \A k, l \in S : <<k, l>> \in R <=> n.flows[k].last < n.flows[l].last
    BY <2>2
  <2>5. Strict(R, S)
    <3>1. \A k \in S : <<k, k>> \notin R
      BY <2>3, <2>4
    <3>2. ASSUME NEW j \in S, NEW k \in S, NEW l \in S, <<j, k>> \in R, <<k, l>> \in R PROVE <<j, l>> \in R
      <4>1. PICK a \in Int, b \in Int, c \in Int : a = n.flows[j].last /\ b = n.flows[k].last /\ c = n.flows[l].last
        BY <2>3
      <4>2. a < b /\ b < c
        BY <2>4, <3>2, <4>1
      <4>3. n.flows[j].last < n.flows[l].last
        BY <4>1, <4>2
      <4> QED BY <2>4, <4>3
    <3> QED BY <3>1, <3>2 DEF Strict
  <2>6. PICK m : m = Max({Cardinality(S) \div 8, 1})
    OBVIOUS
  <2>7. Cardinality(S) \div 8 \in Int /\ Cardinality(S) \div 8 <= Cardinality(S)
    BY <1>2
  <2>8. m \in Nat /\ m >= 1 /\ m <= Cardinality(S)
    <3>1. PICK size, d : size = Cardinality(S) /\ d = size \div 8
      OBVIOUS
    <3>2. size \in Nat /\ size >= 1 /\ d \in Int /\ d <= size
      BY <1>2, <2>1, <2>7, <3>1
    <3>3. m = Max({d, 1})
      BY <2>6, <3>1
    <3>4. m \in {d, 1} /\ m >= 1
      BY <3>2, <3>3, MaxTwo
    <3> QED BY <3>1, <3>2, <3>4
  <2>9. PICK old \in SUBSET S : Cardinality(old) = m /\ \A p \in old, q \in S \ old : <<q, p>> \notin R
    BY <1>2, <2>5, <2>8, FirstOnes
  <2>10. \A k \in old, l \in S \ old : n.flows[k].last <= n.flows[l].last
    <3>1. SUFFICES ASSUME NEW k \in old, NEW l \in S \ old PROVE n.flows[k].last <= n.flows[l].last
      OBVIOUS
    <3>2. ~(n.flows[l].last < n.flows[k].last)
      BY <2>4, <2>9
    <3>3. n.flows[l].last \in Int /\ n.flows[k].last \in Int
      BY <2>3
    <3> QED BY <3>2, <3>3
  <2>11. PICK v : v = Victims(n)
    OBVIOUS
  <2>12. v \in SUBSET S /\ Cardinality(v) = m
    BY <1>1, <2>6, <2>9, <2>10, <2>11 DEF Victims
  <2>13. IsFiniteSet(v) /\ S \cap v = v
    BY <1>2, <2>12, FS_Subset
  <2>14. Cardinality(S \ v) = Cardinality(S) - Cardinality(S \cap v)
    BY <1>2, <2>13, FS_Difference
  <2>15. Cardinality(S \ v) < FlowCap
    BY <1>2, <2>8, <2>12, <2>13, <2>14
  <2>16. Displaced(n) = v
    BY <1>4, <2>11 DEF Displaced
  <2> QED BY <1>1, <2>12, <2>15, <2>16
<1> QED BY <1>3, <1>4

\* A datagram of a known flow moves its time.
LEMMA SeenOK ==
  ASSUME NEW n, TablesKept(n), NEW key \in DOMAIN n.flows, NEW ts \in Int
  PROVE  LET d == Seen(n, key, ts) IN TablesKept(d) /\ DOMAIN d.flows = DOMAIN n.flows
<1>1. PICK d : d = Seen(n, key, ts)
  OBVIOUS
<1>2. n.flows[key].last \in Int
  BY DEF TablesKept
<1>3. PICK f : f = [n.flows[key] EXCEPT !.last = Max({n.flows[key].last, ts})]
  OBVIOUS
<1>4. f \in [direction : {Outbound, Inbound}, last : Int]
  <2>1. PICK g : g = n.flows[key]
    OBVIOUS
  <2>2. g \in [direction : {Outbound, Inbound}, last : Int]
    BY <2>1 DEF TablesKept
  <2>3. PICK last : last = Max({g.last, ts})
    OBVIOUS
  <2>4. last \in Int
    BY <1>2, <2>1, <2>3, MaxTwo
  <2> QED BY <1>3, <2>1, <2>2, <2>3, <2>4
<1>5. d = [tcp |-> n.tcp, flows |-> [n.flows EXCEPT ![key] = f]]
  BY <1>1, <1>3 DEF Seen, TablesKept
<1>6. d.tcp = n.tcp /\ d.flows = [n.flows EXCEPT ![key] = f] /\ DOMAIN d.flows = DOMAIN n.flows
  BY <1>5
<1>7. TablesKept(d)
  BY <1>4, <1>5, <1>6 DEF TablesKept
<1> QED BY <1>1, <1>6, <1>7

\* A new flow takes the place of those it displaces.
LEMMA FlowOpenOK ==
  ASSUME NEW n, TablesKept(n), NEW key \in Procs \X Ends, key \notin DOMAIN n.flows,
         NEW direction \in {Outbound, Inbound}, NEW ts \in Int
  PROVE  LET d == FlowOpen(n, key, direction, ts)
         IN TablesKept(d) /\ DOMAIN d.flows = (DOMAIN n.flows \ Displaced(n)) \cup {key}
<1>1. PICK d : d = FlowOpen(n, key, direction, ts)
  OBVIOUS
<1>2. PICK left : left = Without(n, Displaced(n))
  OBVIOUS
<1>3. TablesKept(left) /\ DOMAIN left.flows = DOMAIN n.flows \ Displaced(n)
  BY <1>2, WithoutOK
<1>4. PICK S : S = DOMAIN left.flows
  OBVIOUS
<1>5. Cardinality(S) < FlowCap /\ FlowCap \in Nat /\ IsFiniteSet(S) /\ key \notin S /\ Cardinality(S) \in Nat
  BY <1>3, <1>4, DisplacedOK, NetworkAssumption, FS_CardinalityType DEF TablesKept
<1>6. PICK fs : fs = [k \in S \cup {key} |-> IF k = key THEN [direction |-> direction, last |-> ts] ELSE left.flows[k]]
  OBVIOUS
<1>7. d = [tcp |-> left.tcp, flows |-> fs]
  BY <1>1, <1>2, <1>3, <1>4, <1>6 DEF FlowOpen, TablesKept
<1>8. d.tcp = left.tcp /\ d.flows = fs /\ DOMAIN fs = S \cup {key}
  BY <1>6, <1>7
<1>9. Cardinality(S \cup {key}) = Cardinality(S) + 1 /\ IsFiniteSet(S \cup {key})
  BY <1>5, FS_AddElement
<1>10. Cardinality(S \cup {key}) <= FlowCap
  BY <1>5, <1>9
<1>11. fs \in [S \cup {key} -> [direction : {Outbound, Inbound}, last : Int]]
  BY <1>3, <1>4, <1>6 DEF TablesKept
<1>12. TablesKept(d)
  BY <1>3, <1>4, <1>7, <1>8, <1>9, <1>10, <1>11 DEF TablesKept
<1> QED BY <1>1, <1>3, <1>4, <1>8, <1>12

\* The connections: a full table is cleared before the next one is added.
LEMMA TcpOpenOK ==
  ASSUME NEW n, TablesKept(n), NEW key, NEW direction
  PROVE  LET d == TcpOpen(n, key, direction) IN TablesKept(d) /\ d.flows = n.flows
<1>1. PICK d : d = TcpOpen(n, key, direction)
  OBVIOUS
<1>2. PICK old : old = IF Cardinality(DOMAIN n.tcp) >= FlowCap THEN <<>> ELSE n.tcp
  OBVIOUS
<1>3. PICK S : S = DOMAIN old
  OBVIOUS
<1>4. FlowCap \in Nat \ {0} /\ IsFiniteSet(DOMAIN n.tcp) /\ Cardinality(DOMAIN n.tcp) \in Nat
  BY NetworkAssumption, FS_CardinalityType DEF TablesKept
<1>5. IsFiniteSet(S) /\ Cardinality(S) < FlowCap /\ Cardinality(S) \in Nat
  <2>1. CASE Cardinality(DOMAIN n.tcp) >= FlowCap
    <3>1. S = {}
      BY <1>2, <1>3, <2>1
    <3> QED BY <1>4, <3>1, FS_EmptySet
  <2>2. CASE ~(Cardinality(DOMAIN n.tcp) >= FlowCap)
    <3>1. S = DOMAIN n.tcp
      BY <1>2, <1>3, <2>2
    <3> QED BY <1>4, <2>2, <3>1
  <2> QED BY <2>1, <2>2
<1>6. IsFiniteSet(S \cup {key}) /\ Cardinality(S \cup {key}) <= FlowCap
  <2>1. CASE key \in S
    <3>1. S \cup {key} = S
      BY <2>1
    <3> QED BY <1>4, <1>5, <3>1
  <2>2. CASE key \notin S
    <3>1. IsFiniteSet(S \cup {key}) /\ Cardinality(S \cup {key}) = Cardinality(S) + 1
      BY <1>5, <2>2, FS_AddElement
    <3> QED BY <1>4, <1>5, <3>1
  <2> QED BY <2>1, <2>2
<1>7. PICK ts : ts = [k \in S \cup {key} |-> IF k = key THEN direction ELSE old[k]]
  OBVIOUS
<1>8. d = [tcp |-> ts, flows |-> n.flows]
  BY <1>1, <1>2, <1>3, <1>7 DEF TcpOpen, TablesKept
<1>9. d.tcp = ts /\ d.flows = n.flows /\ DOMAIN ts = S \cup {key}
  BY <1>7, <1>8
<1>10. TablesKept(d)
  BY <1>6, <1>8, <1>9 DEF TablesKept
<1> QED BY <1>1, <1>9, <1>10

\* A connection that is closed goes.
LEMMA TcpCloseOK ==
  ASSUME NEW n, TablesKept(n), NEW key
  PROVE  LET d == TcpClose(n, key) IN TablesKept(d) /\ d.flows = n.flows
<1>1. PICK d : d = TcpClose(n, key)
  OBVIOUS
<1>2. PICK S, T : S = DOMAIN n.tcp /\ T = DOMAIN n.tcp \ {key}
  OBVIOUS
<1>3. IsFiniteSet(T) /\ Cardinality(T) <= Cardinality(S) /\ Cardinality(T) \in Nat /\ Cardinality(S) \in Nat
  <2>1. IsFiniteSet(S) /\ T \subseteq S
    BY <1>2 DEF TablesKept
  <2> QED BY <2>1, FS_Subset, FS_CardinalityType
<1>4. Cardinality(T) <= FlowCap
  BY <1>2, <1>3, NetworkAssumption DEF TablesKept
<1>5. PICK ts : ts = [k \in T |-> n.tcp[k]]
  OBVIOUS
<1>6. d = [tcp |-> ts, flows |-> n.flows]
  BY <1>1, <1>2, <1>5 DEF TcpClose, Restrict, TablesKept
<1>7. d.tcp = ts /\ d.flows = n.flows /\ DOMAIN ts = T
  BY <1>5, <1>6
<1>8. TablesKept(d)
  BY <1>3, <1>4, <1>6, <1>7 DEF TablesKept
<1> QED BY <1>1, <1>7, <1>8

\* The balance when flows close.
LEMMA ClosedOK ==
  ASSUME balance = Balanced(net), TablesKept(net), NEW gone, gone \subseteq DOMAIN net.flows
  PROVE  Closed(gone) = [k \in Procs \X Ends |-> IF k \in DOMAIN net.flows \ gone THEN 1 ELSE 0]
<1>1. \A k \in Procs \X Ends : balance[k] - (IF k \in gone THEN 1 ELSE 0) = IF k \in DOMAIN net.flows \ gone THEN 1 ELSE 0
  BY DEF Balanced
<1> QED BY <1>1 DEF Closed

-----------------------------------------------------------------------------
(* Whom the pipeline names                                                   *)

\* A lookup changes no entry.
LEMMA LookedUpBecomes ==
  ASSUME NEW c, CacheOK(c), Capped(c), NEW p \in Procs, NEW ts, NEW new
  PROVE  LET d == LookedUp(c, PidOf[p], ts) IN CacheOK(d) /\ Capped(d) /\ Becomes(c, d, new)
<1>1. PICK d : d = LookedUp(c, PidOf[p], ts)
  OBVIOUS
<1>2. PidOf[p] \in Pids
  BY DEF Pids
<1>3. CacheOK(d) /\ d.entries = c.entries /\ d.evicted = c.evicted
  BY <1>1, <1>2, LookedUpOK
<1>4. Cached(d) = Cached(c)
  BY <1>3 DEF Cached
<1> QED BY <1>1, <1>3, <1>4 DEF Capped, Becomes

\* The actor is the key's process if the event has a key; without one, whom the
\* cache had at that time. The cache gains at most the key's process.
LEMMA ActorSyncOK ==
  ASSUME NEW c, CacheOK(c), Capped(c), NEW p \in Procs, NEW key \in {{}, {p}}, NEW ts \in Int,
         NEW live \in SUBSET Procs, NEW new, <<p, ts>> \in new
  PROVE  LET r == ActorSync(c, p, key, ts, live)
         IN /\ CacheOK(r.cache) /\ Capped(r.cache) /\ Becomes(c, r.cache, new)
            /\ \A q \in r.named \ {p} : q \in LookupAt(c, PidOf[p], ts)
<1>1. PICK r : r = ActorSync(c, p, key, ts, live)
  OBVIOUS
<1>2. PICK known, after : known = LookupAt(c, PidOf[p], ts) /\ after = LookedUp(c, PidOf[p], ts)
  OBVIOUS
<1>3. CacheOK(after) /\ Capped(after) /\ Becomes(c, after, new)
  BY <1>2, LookedUpBecomes
<1>4. CASE known # {} /\ (key = {} \/ key = known)
  <2>1. r = [named |-> known, cache |-> after]
    BY <1>1, <1>2, <1>4 DEF ActorSync
  <2> QED BY <1>1, <1>2, <1>3, <2>1
<1>5. CASE ~(known # {} /\ (key = {} \/ key = known)) /\ key = {}
  <2>1. r = [named |-> {IdleProc} \cap {p}, cache |-> after]
    BY <1>1, <1>2, <1>5 DEF ActorSync
  <2> QED BY <1>1, <1>3, <2>1
<1>6. CASE ~(known # {} /\ (key = {} \/ key = known)) /\ key # {} /\ live = key
  <2>1. r = [named |-> key, cache |-> Insert(after, p, live, ts)]
    BY <1>1, <1>2, <1>6 DEF ActorSync
  <2>2. PICK d : d = Insert(after, p, live, ts)
    OBVIOUS
  <2>3. CacheOK(d) /\ Capped(d) /\ Becomes(after, d, new)
    BY <1>3, <2>2, InsertOK
  <2>4. Becomes(c, d, new)
    BY <1>3, <2>3, BecomesTwice
  <2> QED BY <1>1, <2>1, <2>2, <2>3, <2>4
<1>7. CASE ~(known # {} /\ (key = {} \/ key = known)) /\ key # {} /\ live # key
  <2>1. r = [named |-> key, cache |-> after]
    BY <1>1, <1>2, <1>7 DEF ActorSync
  <2> QED BY <1>1, <1>3, <2>1
<1> QED BY <1>4, <1>5, <1>6, <1>7

\* A process the cache names instead of the one that acted: its life would have
\* to overlap with the other's.
LEMMA NamedRight ==
  ASSUME AInv, NEW p \in Procs, NEW ts \in Int, There(p, ts), NEW q \in LookupAt(procs, PidOf[p], ts), q # p,
         Knew(procs, p, ts)
  PROVE  PidOf[p] \in mistaken
<1>1. PICK i : i = PidOf[p]
  OBVIOUS
<1>2. i \in Pids /\ CacheOK(procs)
  BY <1>1 DEF Pids, AInv
<1>3. StartedBy(procs, i, ts) # {} /\ q = Latest(procs, i, ts)
  BY <1>1 DEF LookupAt
<1>4. p \in StartedBy(procs, i, ts)
  BY <1>1, <1>2 DEF Knew, StartedBy, CacheOK
<1>5. /\ q \in StartedBy(procs, i, ts)
      /\ procs.entries[p].start <= procs.entries[q].start
  BY <1>2, <1>3, <1>4, LatestIs
<1>6. /\ p \in Cached(procs) /\ q \in Cached(procs) /\ q \in Procs /\ PidOf[q] = PidOf[p]
      /\ procs.entries[q].start <= ts
  BY <1>1, <1>2, <1>4, <1>5 DEF StartedBy, CacheOK
<1>7. PICK s, t : s = procs.entries[p].start /\ t = procs.entries[q].start
  OBVIOUS
<1>8. s \in Int /\ t \in Int /\ s <= t /\ t <= ts
  BY <1>2, <1>5, <1>6, <1>7 DEF CacheOK, Entries
<1>9. SUFFICES ASSUME PidOf[p] \notin mistaken PROVE FALSE
  OBVIOUS
<1>10. Fits(p, s) /\ Fits(q, t)
  BY <1>6, <1>7 DEF AInv, EntriesOK
<1>11. /\ born[p] \in Nat \cup {Unborn} /\ born[q] \in Nat \cup {Unborn} /\ died[p] \in Nat \cup {Unborn} /\ died[q] \in Nat \cup {Unborn}
       /\ PidRest \in Nat /\ ts \in Int
  BY <1>6, ActorsAssumption DEF AInv, MachineOK
<1>12. born[p] # Unborn /\ born[q] # Unborn /\ born[p] <= ts
       /\ (died[p] # Unborn => ts <= died[p]) /\ (died[q] # Unborn => t <= died[q])
       /\ (s >= born[p] \/ (s = -1 /\ born[p] = 0)) /\ (t >= born[q] \/ (t = -1 /\ born[q] = 0))
  BY <1>6, <1>9, <1>10 DEF Fits, There, Always
<1>13. Before(p, q) \/ Before(q, p)
  BY <1>6, <1>12 DEF AInv, PidsOK
<1>14. CASE Before(p, q)
  <2>1. died[p] # -1 /\ died[p] + PidRest < born[q]
    BY <1>14 DEF Before, Unborn
  <2> QED BY <2>1, <1>8, <1>11, <1>12 DEF Unborn
<1>15. CASE Before(q, p)
  <2>1. died[q] # -1 /\ died[q] + PidRest < born[p]
    BY <1>15 DEF Before, Unborn
  <2> QED BY <2>1, <1>8, <1>11, <1>12 DEF Unborn
<1> QED BY <1>13, <1>14, <1>15

\* So the blame of an event is right when those it names are.
LEMMA BlamesOK ==
  ASSUME AInv, NEW p \in Procs, NEW ts \in Int, There(p, ts), NEW named,
         \A q \in named \ {p} : q \in LookupAt(procs, PidOf[p], ts),
         Blames(p, named, ts), mistaken' = mistaken
  PROVE  BlamedRight'
<1>1. SUFFICES ASSUME NEW b \in blamed', b[3] PROVE PidOf[b[1]] \in mistaken
  BY DEF BlamedRight
<1>2. CASE b \in blamed
  BY <1>1, <1>2 DEF AInv, BlamedRight
<1>3. CASE b \notin blamed
  <2>1. PICK q \in named \ {p} : b = <<p, q, Knew(procs, p, ts)>>
    BY <1>1, <1>3 DEF Blames
  <2>2. b[1] = p /\ Knew(procs, p, ts)
    BY <1>1, <2>1
  <2> QED BY <2>1, <2>2, NamedRight
<1> QED BY <1>2, <1>3

-----------------------------------------------------------------------------
(* What a step of the pipeline keeps                                         *)

\* The entries of the cache and the processes it knows.
LEMMA CacheStep ==
  ASSUME CacheOK(procs), EntriesOK, UNCHANGED <<clock, born, died>>, mistaken \subseteq mistaken',
         Becomes(procs, procs', Fitting')
  PROVE  /\ EntriesOK' /\ procs.evicted \subseteq procs'.evicted
         /\ \A p \in Procs : Alive(p) /\ StillKnown(p) => StillKnown(p)'
<1>1. \A p, s : Fits(p, s) => Fits(p, s)'
  BY DEF Fits
<1>2. \A p, s : <<p, s>> \in Fitting' => Fits(p, s)'
  BY DEF Fitting
<1>3. EntriesOK'
  <2>1. SUFFICES ASSUME NEW p \in Cached(procs')
                 PROVE  Fits(p, procs.entries[p].start)' /\ (procs'.entries[p].end # Open => died[p] # Unborn)
    BY DEF EntriesOK
  <2>2. /\ (p \in Cached(procs) /\ procs'.entries[p].start = procs.entries[p].start)
           \/ <<p, procs'.entries[p].start>> \in Fitting'
        /\ procs'.entries[p].end = Open \/ (p \in Cached(procs) /\ procs'.entries[p].end = procs.entries[p].end)
    BY <2>1 DEF Becomes
  <2> QED BY <1>1, <1>2, <2>2 DEF EntriesOK
<1>4. \A p \in Procs : Alive(p) /\ StillKnown(p) => StillKnown(p)'
  BY DEF Becomes, EntriesOK, StillKnown, Alive
<1> QED BY <1>3, <1>4 DEF Becomes

\* Each of the Launches.
LEMMA SaidAt ==
  ASSUME NEW s \in Seq(Said), NEW i \in DOMAIN s
  PROVE  s[i] \in Said /\ s[i].of \in Procs
<1>1. s[i] \in Said
  OBVIOUS
<1> QED BY <1>1 DEF Said

\* The Launches that were made.
LEMMA LaunchesStep ==
  ASSUME LaunchesOK, UNCHANGED <<clock, born, died>>, mistaken \subseteq mistaken', UnderWay' \subseteq UnderWay,
         procs.evicted \subseteq procs'.evicted, \A p \in Procs : Alive(p) /\ StillKnown(p) => StillKnown(p)',
         launches' \in Seq(Said),
         DOMAIN launches' = DOMAIN launches,
         \A i \in DOMAIN launches : /\ launches'[i].of = launches[i].of
                                    /\ launches'[i].cmd = launches[i].cmd \/
                                       (PidOf[launches[i].of] \notin mistaken' /\ JoinWindow <= PidRest
                                          => launches'[i].cmd \subseteq {launches[i].of})
  PROVE  LaunchesOK'
<1>1. \A i \in DOMAIN launches : launches[i].of \in Procs
  BY SaidAt DEF LaunchesOK
<1>2. ASSUME NEW i \in DOMAIN launches, PidOf[launches[i].of] \notin mistaken'
      PROVE  Launched(launches[i].of)' /\ (JoinWindow <= PidRest => launches'[i].cmd \subseteq {launches[i].of})
  <2>1. PICK p \in Procs : p = launches[i].of
    BY <1>1, <1>2
  <2>2. Launched(p) /\ (JoinWindow <= PidRest => launches[i].cmd \subseteq {p})
    BY <1>2, <2>1 DEF LaunchesOK
  <2>3. Launched(p)'
    BY <2>2 DEF Launched, Alive
  <2>4. launches'[i].of = p
    BY <1>2, <2>1
  <2> QED BY <1>2, <2>1, <2>2, <2>3, <2>4
<1>3. ASSUME NEW i \in DOMAIN launches', NEW j \in DOMAIN launches', i < j, launches'[i].of = launches'[j].of
      PROVE  "start" \in MayBeLate \/ PidOf[launches'[i].of] \in mistaken' \/ launches'[i].of \in procs'.evicted
  BY <1>3 DEF LaunchesOK
<1> QED BY <1>2, <1>3 DEF LaunchesOK

\* The pipeline's clock and the events, when a step handles one or none.
LEMMA EventsStep ==
  ASSUME MachineOK, PidsOK, EventsOK, UNCHANGED <<machine, coming, stream>>,
         cur' = cur \/ (cur' = Resting /\ stream <= clock)
  PROVE  MachineOK' /\ PidsOK' /\ EventsOK' /\ UnderWay' \subseteq UnderWay
<1>1. UNCHANGED <<clock, born, died>>
  BY DEF machine
<1>2. UnderWay' \subseteq UnderWay
  BY DEF UnderWay, Rests
<1>3. cur' = Resting => cur'.what # "start"
  BY DEF Resting, At
<1>4. \A m : EventOK(m) => EventOK(m)'
  BY <1>1 DEF EventOK, There
<1>5. EventsOK'
  BY <1>2, <1>3, <1>4 DEF EventsOK
<1>6. MachineOK'
  BY <1>1 DEF MachineOK
<1> QED BY <1>1, <1>2, <1>5, <1>6 DEF PidsOK, Before

\* The halves that wait, when a step takes some of them.
LEMMA HalvesStep ==
  ASSUME HalvesOK, UNCHANGED <<clock, born, died>>,
         DOMAIN launches \subseteq DOMAIN launches', \A i \in DOMAIN launches : launches'[i].of = launches[i].of,
         kernel' = [i \in Pids |-> kernel'[i]], \A i \in Pids : kernel'[i] \in {<<>>, kernel[i]},
         classic' = [i \in Pids |-> classic'[i]], \A i \in Pids : classic'[i] \in {<<>>, classic[i]}
  PROVE  HalvesOK'
<1>1. \A i \in Pids : \A h : KernelHalf(i, h) => KernelHalf(i, h)'
  BY DEF KernelHalf
<1>2. \A i \in Pids : \A h : ClassicHalf(i, h) => ClassicHalf(i, h)'
  BY DEF ClassicHalf, There
<1>3. \A i \in Pids : Waiting(kernel'[i]) => kernel'[i] = kernel[i] /\ Waiting(kernel[i])
  BY DEF Waiting
<1>4. \A i \in Pids : Waiting(classic'[i]) => classic'[i] = classic[i] /\ Waiting(classic[i])
  BY DEF Waiting
<1> QED BY <1>1, <1>2, <1>3, <1>4 DEF HalvesOK

\* An event that is handled: it is one of the machine's, and no other start of
\* its process is under way.
LEMMA HandlingOK ==
  ASSUME AInv, NEW kinds, Handling(kinds),
         kinds \cap {"rest", "sweep", "stopping", "stopped"} = {}
  PROVE  /\ EventOK(cur) /\ cur \in UnderWay
         /\ cur.what \in kinds /\ stream <= clock /\ cur' = Resting
         /\ UNCHANGED <<clock, born, died, stream>>
         /\ MachineOK' /\ PidsOK' /\ EventsOK' /\ UnderWay' \subseteq UnderWay
         /\ cur.what = "start" => \A m \in UnderWay' : m.what = "start" => m.of # cur.of
<1>1. /\ cur.what \in kinds /\ cur' = Resting /\ UNCHANGED <<machine, coming, stream>>
      /\ UNCHANGED <<clock, born, died, stream>>
  BY DEF Handling, machine
<1>2. cur \notin Rests
  BY <1>1 DEF Rests, Resting, At
<1>3. cur \in UnderWay /\ stream <= clock
  BY <1>2 DEF UnderWay, AInv, MachineOK, Rests
<1>4. EventOK(cur)
  BY <1>3 DEF AInv, EventsOK
<1>5. MachineOK' /\ PidsOK' /\ EventsOK' /\ UnderWay' \subseteq UnderWay
  BY <1>1, <1>3, EventsStep DEF AInv
<1>6. ASSUME cur.what = "start", NEW m \in UnderWay', m.what = "start", m.of = cur.of PROVE FALSE
  <2>1. m \in coming
    BY <1>1, <1>6 DEF UnderWay, Rests
  <2>2. EventOK(m)
    BY <2>1 DEF UnderWay, AInv, EventsOK
  <2>3. m.ts = cur.ts
    BY <1>4, <1>6, <2>2 DEF EventOK
  <2>4. m = cur
    BY <1>4, <1>6, <2>2, <2>3 DEF EventOK
  <2> QED BY <1>6, <2>1, <2>4 DEF AInv, EventsOK
<1> QED BY <1>1, <1>3, <1>4, <1>5, <1>6

\* A process as the events and halves name it is one the cache may have.
LEMMA ThereFits ==
  ASSUME AInv, NEW p \in Procs, NEW ts \in Int, There(p, ts), UNCHANGED <<clock, born, died>>
  PROVE  <<p, ts>> \in Fitting'
<1>1. Fits(p, ts)'
  BY DEF Fits, There, AInv, MachineOK
<1> QED BY <1>1 DEF Fitting

-----------------------------------------------------------------------------
(* The events                                                                *)

\* on_process_stop.
LEMMA ProcessStopInv == ASSUME AInv, ProcessStop PROVE AInv'
<1>1. /\ Handling({"stop"}) /\ procs' = End(procs, cur.of, cur.ts)
      /\ UNCHANGED <<kernel, classic, launches, net, balance, blamed, mistaken>>
  BY DEF ProcessStop, books
<1>2. /\ EventOK(cur) /\ cur.what = "stop" /\ cur' = Resting
      /\ UNCHANGED <<clock, born, died, stream>>
      /\ MachineOK' /\ PidsOK' /\ EventsOK' /\ UnderWay' \subseteq UnderWay
  BY <1>1, HandlingOK
<1>3. PICK p, ts : p = cur.of /\ ts = cur.ts
  OBVIOUS
<1>4. p \in Procs /\ ts \in Int /\ died[p] # Unborn
  BY <1>2, <1>3 DEF EventOK
<1>5. /\ CacheOK(procs') /\ Capped(procs') /\ Cached(procs') = Cached(procs) /\ procs'.evicted = procs.evicted
      /\ \A q \in Cached(procs) : /\ procs'.entries[q].start = procs.entries[q].start
                                  /\ q # p => procs'.entries[q].end = procs.entries[q].end
  BY <1>1, <1>3, <1>4, EndOK DEF AInv
<1>6. EntriesOK'
  BY <1>1, <1>2, <1>4, <1>5 DEF AInv, EntriesOK, Fits
<1>7. \A q \in Procs : Alive(q) /\ StillKnown(q) => StillKnown(q)'
  BY <1>5 DEF StillKnown
<1>8. LaunchesOK'
  BY <1>1, <1>2, <1>5, <1>7, LaunchesStep DEF AInv, LaunchesOK
<1>9. HalvesOK'
  BY <1>1, <1>2, HalvesStep DEF AInv, HalvesOK
<1>10. BlamedRight' /\ NetOK'
  BY <1>1, <1>2 DEF AInv, BlamedRight, NetOK, Balanced, Resting, At
<1> QED BY <1>2, <1>5, <1>6, <1>8, <1>9, <1>10 DEF AInv

\* What the handlers have in common that add to the cache only.
LEMMA AddsInv ==
  ASSUME AInv, MachineOK', PidsOK', EventsOK', UnderWay' \subseteq UnderWay, UNCHANGED <<clock, born, died>>,
         mistaken \subseteq mistaken', CacheOK(procs'), Capped(procs'), Becomes(procs, procs', Fitting'),
         UNCHANGED <<kernel, classic, launches>>, BlamedRight', NetOK'
  PROVE  AInv'
<1>1. /\ EntriesOK' /\ procs.evicted \subseteq procs'.evicted
      /\ \A q \in Procs : Alive(q) /\ StillKnown(q) => StillKnown(q)'
  BY CacheStep DEF AInv
<1>2. LaunchesOK'
  BY <1>1, LaunchesStep DEF AInv, LaunchesOK
<1>3. HalvesOK'
  BY HalvesStep DEF AInv, HalvesOK
<1> QED BY <1>1, <1>2, <1>3 DEF AInv

\* on_classic DcStart: a process that has the PID now is cached as one that
\* always ran, and it is the one of the rundown or the PID is a mistaken one.
LEMMA RundownInv == ASSUME AInv, NEW live, Rundown(live) PROVE AInv'
<1>1. /\ Handling({"dcstart"}) /\ live \in LiveAnswers(PidOf[cur.of])
      /\ procs' = IF live = {} THEN procs ELSE Insert(procs, CHOOSE q \in live : TRUE, {cur.of}, Always)
      /\ mistaken' = mistaken \cup {PidOf[q] : q \in live \ {cur.of}}
      /\ UNCHANGED <<kernel, classic, launches, net, balance, blamed>>
  BY DEF Rundown
<1>2. /\ EventOK(cur) /\ cur.what = "dcstart" /\ cur' = Resting
      /\ UNCHANGED <<clock, born, died, stream>>
      /\ MachineOK' /\ PidsOK' /\ EventsOK' /\ UnderWay' \subseteq UnderWay
  BY <1>1, HandlingOK
<1>3. PICK p : p = cur.of
  OBVIOUS
<1>4. p \in Procs /\ born[p] = 0
  BY <1>2, <1>3 DEF EventOK, There, AInv, MachineOK, Unborn
<1>5. CacheOK(procs') /\ Capped(procs') /\ Becomes(procs, procs', Fitting')
  <2>1. CASE live = {}
    BY <1>1, <2>1 DEF AInv, Becomes
  <2>2. CASE live # {}
    <3>1. PICK q \in Procs : live = {q} /\ PidOf[q] = PidOf[p]
      BY <1>1, <1>3, <2>2 DEF LiveAnswers, Live
    <3>2. procs' = Insert(procs, q, {p}, Always)
      BY <1>1, <1>3, <3>1
    <3>3. q = p \/ PidOf[q] \in mistaken'
      BY <1>1, <1>3, <3>1
    <3>4. Fits(q, Always)'
      BY <1>2, <1>4, <3>3 DEF Fits, Always, AInv, MachineOK, Unborn
    <3>5. <<q, Always>> \in Fitting'
      BY <3>4 DEF Fitting, Always
    <3>6. PICK new : new = Fitting'
      OBVIOUS
    <3>7. CacheOK(procs') /\ Capped(procs') /\ Becomes(procs, procs', new)
      BY <1>4, <3>2, <3>5, <3>6, InsertOK DEF AInv, Always
    <3> QED BY <3>6, <3>7
  <2> QED BY <2>1, <2>2
<1>6. BlamedRight' /\ NetOK'
  BY <1>1, <1>2 DEF AInv, BlamedRight, NetOK, Balanced, Resting, At
<1> QED BY <1>1, <1>2, <1>5, <1>6, AddsInv

\* on_dns, on_image_load.
LEMMA CallInv == ASSUME AInv, NEW live, Call(live) PROVE AInv'
<1>1. PICK key, actor : /\ key = (IF cur.what = "call" THEN {cur.of} ELSE {})
                        /\ actor = ActorSync(procs, cur.of, key, cur.ts, live)
  OBVIOUS
<1>2. /\ Handling({"call", "bare"}) /\ live \in LiveAnswers(PidOf[cur.of])
      /\ procs' = actor.cache /\ Blames(cur.of, actor.named, cur.ts)
      /\ UNCHANGED <<kernel, classic, launches, net, balance, mistaken>>
  BY <1>1 DEF Call
<1>3. /\ EventOK(cur) /\ cur' = Resting
      /\ UNCHANGED <<clock, born, died, stream>>
      /\ MachineOK' /\ PidsOK' /\ EventsOK' /\ UnderWay' \subseteq UnderWay
  BY <1>2, HandlingOK
<1>4. PICK p, ts : p = cur.of /\ ts = cur.ts
  OBVIOUS
<1>5. p \in Procs /\ ts \in Int /\ There(p, ts) /\ key \in {{}, {p}} /\ live \in SUBSET Procs
  BY <1>1, <1>2, <1>3, <1>4 DEF EventOK, LiveAnswers, Live
<1>6. PICK new : new = Fitting'
  OBVIOUS
<1>7. <<p, ts>> \in new
  BY <1>3, <1>5, <1>6, ThereFits
<1>8. /\ CacheOK(procs') /\ Capped(procs') /\ Becomes(procs, procs', new)
      /\ \A q \in actor.named \ {p} : q \in LookupAt(procs, PidOf[p], ts)
  BY <1>1, <1>2, <1>4, <1>5, <1>7, ActorSyncOK DEF AInv
<1>9. BlamedRight'
  BY <1>2, <1>4, <1>5, <1>8, BlamesOK
<1>10. NetOK'
  BY <1>2, <1>3 DEF AInv, NetOK, Balanced, Resting, At
<1> QED BY <1>2, <1>3, <1>6, <1>8, <1>9, <1>10, AddsInv

\* The cache at the event's time, for the events that name a PID only.
LEMMA PayloadOK ==
  ASSUME AInv, NEW p \in Procs, NEW ts \in Int, There(p, ts), procs' = LookedUp(procs, PidOf[p], ts),
         NEW named, named = ActorPayload(procs, p, ts), Blames(p, named, ts), mistaken' = mistaken
  PROVE  /\ CacheOK(procs') /\ Capped(procs') /\ Becomes(procs, procs', Fitting')
         /\ BlamedRight' /\ named \subseteq Procs
<1>1. CacheOK(procs') /\ Capped(procs') /\ Becomes(procs, procs', Fitting')
  <2>1. PICK new : new = Fitting'
    OBVIOUS
  <2>2. CacheOK(procs') /\ Capped(procs') /\ Becomes(procs, procs', new)
    BY LookedUpBecomes DEF AInv
  <2> QED BY <2>1, <2>2
<1>2. \A q \in named \ {p} : q \in LookupAt(procs, PidOf[p], ts)
  BY DEF ActorPayload
<1>3. BlamedRight'
  BY <1>2, BlamesOK
<1>4. LookupAt(procs, PidOf[p], ts) \subseteq Procs
  <2>1. PidOf[p] \in Pids /\ CacheOK(procs)
    BY DEF Pids, AInv
  <2>2. CASE StartedBy(procs, PidOf[p], ts) = {}
    BY <2>2 DEF LookupAt
  <2>3. CASE StartedBy(procs, PidOf[p], ts) # {}
    <3>1. Latest(procs, PidOf[p], ts) \in StartedBy(procs, PidOf[p], ts)
      BY <2>1, <2>3, LatestIs
    <3>2. Latest(procs, PidOf[p], ts) \in Procs
      BY <2>1, <3>1 DEF StartedBy, CacheOK
    <3> QED BY <2>3, <3>2 DEF LookupAt
  <2> QED BY <2>2, <2>3
<1>5. named \subseteq Procs
  BY <1>4 DEF ActorPayload
<1> QED BY <1>1, <1>3, <1>5

\* on_tcp.
LEMMA TcpInv == ASSUME AInv, NEW end, Tcp(end) PROVE AInv'
<1>1. PICK p, ts, named, key : /\ p = cur.of /\ ts = cur.ts /\ named = ActorPayload(procs, cur.of, cur.ts)
                               /\ key = <<PidOf[cur.of], end>>
  OBVIOUS
<1>2. /\ Handling({"connect", "accept", "disconnect"})
      /\ procs' = LookedUp(procs, PidOf[p], ts) /\ Blames(p, named, ts)
      /\ net' \in {net, TcpOpen(net, key, Outbound), TcpOpen(net, key, Inbound), TcpClose(net, key)}
      /\ UNCHANGED <<kernel, classic, launches, balance, mistaken>>
  BY <1>1 DEF Tcp
<1>3. /\ EventOK(cur) /\ cur' = Resting
      /\ UNCHANGED <<clock, born, died, stream>>
      /\ MachineOK' /\ PidsOK' /\ EventsOK' /\ UnderWay' \subseteq UnderWay
  BY <1>2, HandlingOK
<1>4. p \in Procs /\ ts \in Int /\ There(p, ts)
  BY <1>1, <1>3 DEF EventOK
<1>5. CacheOK(procs') /\ Capped(procs') /\ Becomes(procs, procs', Fitting') /\ BlamedRight'
  BY <1>1, <1>2, <1>4, PayloadOK
<1>6. TablesKept(net') /\ net'.flows = net.flows
  BY <1>2, TcpOpenOK, TcpCloseOK DEF AInv, NetOK
<1>7. NetOK'
  BY <1>2, <1>3, <1>6 DEF AInv, NetOK, Balanced, Resting, At
<1> QED BY <1>2, <1>3, <1>5, <1>7, AddsInv

\* on_udp.
LEMMA UdpInv == ASSUME AInv, NEW end \in Ends, Udp(end) PROVE AInv'
<1>1. PICK p, ts, named, key, direction :
         /\ p = cur.of /\ ts = cur.ts /\ named = ActorPayload(procs, cur.of, cur.ts)
         /\ key = <<CHOOSE q \in named : TRUE, end>>
         /\ direction = IF cur.what = "send" THEN Outbound ELSE Inbound
  OBVIOUS
<1>2. /\ Handling({"send", "receive"})
      /\ procs' = LookedUp(procs, PidOf[p], ts) /\ Blames(p, named, ts)
      /\ \/ named = {} /\ UNCHANGED <<net, balance>>
         \/ named # {} /\ key \in DOMAIN net.flows /\ net' = Seen(net, key, ts) /\ UNCHANGED balance
         \/ /\ named # {} /\ key \notin DOMAIN net.flows
            /\ net' = FlowOpen(net, key, direction, ts)
            /\ balance' = [Closed(Displaced(net)) EXCEPT ![key] = @ + 1]
      /\ UNCHANGED <<kernel, classic, launches, mistaken>>
  BY <1>1 DEF Udp
<1>3. /\ EventOK(cur) /\ cur' = Resting
      /\ UNCHANGED <<clock, born, died, stream>>
      /\ MachineOK' /\ PidsOK' /\ EventsOK' /\ UnderWay' \subseteq UnderWay
  BY <1>2, HandlingOK
<1>4. p \in Procs /\ ts \in Int /\ There(p, ts)
  BY <1>1, <1>3 DEF EventOK
<1>5. /\ CacheOK(procs') /\ Capped(procs') /\ Becomes(procs, procs', Fitting') /\ BlamedRight'
      /\ named \subseteq Procs
  BY <1>1, <1>2, <1>4, PayloadOK
<1>6. TablesKept(net) /\ balance = Balanced(net)
  BY DEF AInv, NetOK
<1>7. TablesKept(net') /\ balance' = Balanced(net')
  <2>1. CASE named = {} /\ UNCHANGED <<net, balance>>
    BY <2>1, <1>6 DEF Balanced
  <2>2. CASE named # {} /\ key \in DOMAIN net.flows /\ net' = Seen(net, key, ts) /\ UNCHANGED balance
    BY <2>2, <1>4, <1>6, SeenOK DEF Balanced
  <2>3. CASE /\ named # {} /\ key \notin DOMAIN net.flows
             /\ net' = FlowOpen(net, key, direction, ts)
             /\ balance' = [Closed(Displaced(net)) EXCEPT ![key] = @ + 1]
    <3>1. key \in Procs \X Ends /\ direction \in {Outbound, Inbound}
      BY <1>1, <1>5, <2>3
    <3>2. TablesKept(net') /\ DOMAIN net'.flows = (DOMAIN net.flows \ Displaced(net)) \cup {key}
      BY <2>3, <1>4, <1>6, <3>1, FlowOpenOK
    <3>3. PICK left : left = DOMAIN net.flows \ Displaced(net)
      OBVIOUS
    <3>4. Closed(Displaced(net)) = [k \in Procs \X Ends |-> IF k \in left THEN 1 ELSE 0]
      <4>1. PICK gone : gone = Displaced(net)
        OBVIOUS
      <4>2. gone \subseteq DOMAIN net.flows
        BY <1>6, <4>1, DisplacedOK
      <4>3. Closed(gone) = [k \in Procs \X Ends |-> IF k \in DOMAIN net.flows \ gone THEN 1 ELSE 0]
        BY <1>6, <4>2, ClosedOK
      <4> QED BY <3>3, <4>1, <4>3
    <3>5. key \notin left
      BY <2>3, <3>3
    <3>6. balance' = [k \in Procs \X Ends |-> IF k \in left \cup {key} THEN 1 ELSE 0]
      <4>1. PICK f : f = Closed(Displaced(net))
        OBVIOUS
      <4>2. f = [k \in Procs \X Ends |-> IF k \in left THEN 1 ELSE 0] /\ balance' = [f EXCEPT ![key] = @ + 1]
        BY <2>3, <3>4, <4>1
      <4>3. PICK D : D = Procs \X Ends
        OBVIOUS
      <4>4. f = [k \in D |-> IF k \in left THEN 1 ELSE 0] /\ key \in D
        BY <3>1, <4>2, <4>3
      <4>5. PICK one : one = f[key] + 1
        OBVIOUS
      <4>6. f[key] = 0
        BY <3>5, <4>4
      <4>7. one = 1
        BY <4>5, <4>6
      <4>8. balance' = [f EXCEPT ![key] = one]
        BY <4>2, <4>5
      <4>9. balance' = [k \in D |-> IF k \in left \cup {key} THEN 1 ELSE 0]
        BY <4>4, <4>7, <4>8
      <4> QED BY <4>3, <4>9
    <3> QED BY <3>2, <3>3, <3>6 DEF Balanced
  <2> QED BY <1>2, <2>1, <2>2, <2>3
<1>8. NetOK'
  BY <1>3, <1>7 DEF NetOK, Resting, At
<1> QED BY <1>2, <1>3, <1>5, <1>8, AddsInv

-----------------------------------------------------------------------------
(* Launches                                                                  *)

\* Two processes with the same PID do not start within the join window.
LEMMA StartsApart ==
  ASSUME AInv, NEW p \in Procs, NEW q \in Procs, PidOf[p] = PidOf[q], born[p] # Unborn, born[q] # Unborn,
         JoinWindow <= PidRest, Within(born[p], born[q])
  PROVE  p = q
<1>1. SUFFICES ASSUME p # q PROVE FALSE
  OBVIOUS
<1>2. Before(p, q) \/ Before(q, p)
  BY <1>1 DEF AInv, PidsOK
<1>3. /\ born[p] \in Int /\ born[q] \in Int /\ died[p] \in Int /\ died[q] \in Int
      /\ died[p] # Unborn => born[p] <= died[p]
      /\ died[q] # Unborn => born[q] <= died[q]
      /\ JoinWindow \in Nat /\ PidRest \in Nat
  BY ActorsAssumption DEF AInv, MachineOK, Unborn
<1>4. born[p] - born[q] <= JoinWindow /\ born[q] - born[p] <= JoinWindow
  BY DEF Within
<1>5. CASE Before(p, q)
  BY <1>3, <1>4, <1>5 DEF Before
<1>6. CASE Before(q, p)
  BY <1>3, <1>4, <1>6 DEF Before
<1> QED BY <1>2, <1>5, <1>6

\* A Launch is added for a process that has none, or that was evicted.
LEMMA LaunchAdded ==
  ASSUME AInv, UNCHANGED <<clock, born, died>>, mistaken \subseteq mistaken', UnderWay' \subseteq UnderWay,
         procs.evicted \subseteq procs'.evicted, \A p \in Procs : Alive(p) /\ StillKnown(p) => StillKnown(p)',
         NEW l \in Said, launches' = Append(launches, l),
         PidOf[l.of] \notin mistaken' =>
            /\ Launched(l.of)'
            /\ JoinWindow <= PidRest => l.cmd \subseteq {l.of}
            /\ (\E i \in DOMAIN launches : launches[i].of = l.of) => "start" \in MayBeLate \/ l.of \in procs'.evicted
  PROVE  LaunchesOK'
<1>1. launches \in Seq(Said)
  BY DEF AInv, LaunchesOK
<1>2. PICK n \in Nat : n = Len(launches) + 1
  BY <1>1
<1>3. /\ launches' \in Seq(Said)
      /\ DOMAIN launches' = DOMAIN launches \cup {n} /\ launches'[n] = l
      /\ \A i \in DOMAIN launches : launches'[i] = launches[i] /\ i < n /\ i \in Nat
  BY <1>1, <1>2
<1>4. ASSUME NEW i \in DOMAIN launches, PidOf[launches[i].of] \notin mistaken'
      PROVE  Launched(launches[i].of)' /\ (JoinWindow <= PidRest => launches[i].cmd \subseteq {launches[i].of})
  <2>1. PICK p \in Procs : p = launches[i].of
    BY <1>1, <1>4, SaidAt
  <2>2. Launched(p) /\ (JoinWindow <= PidRest => launches[i].cmd \subseteq {p})
    BY <1>4, <2>1 DEF AInv, LaunchesOK
  <2>3. Launched(p)'
    BY <2>2 DEF Launched, Alive
  <2> QED BY <2>1, <2>2, <2>3
<1>5. ASSUME NEW i \in DOMAIN launches', PidOf[launches'[i].of] \notin mistaken'
      PROVE  Launched(launches[i].of)' /\ (JoinWindow <= PidRest => launches'[i].cmd \subseteq {launches'[i].of})
  <2>1. CASE i = n
    <3>1. launches'[i] = l
      BY <1>3, <2>1
    <3> QED BY <1>5, <3>1
  <2>2. CASE i \in DOMAIN launches
    <3>1. launches'[i] = launches[i]
      BY <1>3, <2>2
    <3> QED BY <1>4, <1>5, <2>2, <3>1
  <2> QED BY <1>3, <2>1, <2>2
<1>6. ASSUME NEW i \in DOMAIN launches', NEW j \in DOMAIN launches', i < j, launches'[i].of = launches'[j].of
      PROVE  "start" \in MayBeLate \/ PidOf[launches'[i].of] \in mistaken' \/ launches'[i].of \in procs'.evicted
  <2>1. i \in DOMAIN launches /\ launches'[i] = launches[i]
    BY <1>3, <1>6
  <2>2. CASE j = n
    BY <1>3, <1>6, <2>1, <2>2
  <2>3. CASE j \in DOMAIN launches
    <3>1. launches'[j] = launches[j]
      BY <1>3, <2>3
    <3> QED BY <1>6, <2>1, <2>3, <3>1 DEF AInv, LaunchesOK
  <2> QED BY <1>3, <2>2, <2>3
<1> QED BY <1>3, <1>5, <1>6 DEF LaunchesOK

\* A process that was inserted first and runs is still known at the end.
LEMMA InsertedKnown ==
  ASSUME EntriesOK, NEW p, NEW c, NEW new, Becomes(procs, c, new), p \in Cached(c) \/ p \in c.evicted,
         Becomes(c, procs', new), Alive(p)
  PROVE  StillKnown(p)'
<1>1. CASE p \in c.evicted
  BY <1>1 DEF Becomes, StillKnown
<1>2. CASE p \in Cached(c)
  <2>1. c.entries[p].end = Open \/ (p \in Cached(procs) /\ c.entries[p].end = procs.entries[p].end)
    BY <1>2 DEF Becomes
  <2>2. p \in Cached(procs) => procs.entries[p].end = Open
    BY DEF EntriesOK, Alive
  <2>3. c.entries[p].end = Open
    BY <2>1, <2>2
  <2> QED BY <1>2, <2>3 DEF Becomes, StillKnown
<1> QED BY <1>1, <1>2

\* on_process_start: its event was the only one, so no Launch of the process
\* was made before it unless it is late.
LEMMA ProcessStartInv ==
  ASSUME AInv, NEW key, NEW live, ProcessStart(key, live)
  PROVE  AInv'
<1>1. PICK p, ts, pid, par, joined, cmd, inserted, actor :
         /\ p = cur.of /\ ts = cur.ts /\ pid = PidOf[cur.of] /\ par = Parent[cur.of]
         /\ joined = (Waiting(classic[pid]) /\ Within(classic[pid][1].ts, cur.ts))
         /\ cmd = (IF joined THEN {classic[pid][1].of} ELSE {})
         /\ inserted = Insert(procs, p, cmd, ts)
         /\ actor = ActorSync(inserted, par, key, ts, live)
  OBVIOUS
<1>2. /\ Handling({"start"})
      /\ key \in {{}, {par}} /\ live \in LiveAnswers(PidOf[par])
      /\ classic' = (IF joined THEN [classic EXCEPT ![pid] = <<>>] ELSE classic)
      /\ procs' = actor.cache
      /\ \/ UNCHANGED <<launches, kernel>>
         \/ /\ launches' = Append(launches, Launch(p, cmd, joined))
            /\ kernel' = IF joined THEN kernel
                         ELSE [kernel EXCEPT ![pid] = <<[ts |-> ts, id |-> Len(launches) + 1, of |-> p]>>]
      /\ UNCHANGED <<net, balance, blamed, mistaken>>
  BY <1>1 DEF ProcessStart
<1>3. /\ EventOK(cur) /\ cur \in UnderWay /\ cur.what = "start" /\ cur' = Resting
      /\ UNCHANGED <<clock, born, died, stream>>
      /\ MachineOK' /\ PidsOK' /\ EventsOK' /\ UnderWay' \subseteq UnderWay
      /\ \A m \in UnderWay' : m.what = "start" => m.of # cur.of
  BY <1>2, HandlingOK
<1>4. /\ p \in Procs /\ ts \in Int /\ There(p, ts) /\ ts = born[p] /\ pid = PidOf[p] /\ pid \in Pids
      /\ par \in Procs /\ There(par, ts) /\ live \in SUBSET Procs /\ born[p] # Unborn
  <2>1. /\ p \in Procs /\ ts \in Nat /\ There(p, ts)
        /\ ts = born[p] /\ There(par, ts)
    BY <1>1, <1>3 DEF EventOK
  <2>2. pid = PidOf[p] /\ pid \in Pids
    BY <1>1, <2>1 DEF Pids
  <2>3. par \in Procs
    BY <1>1, <2>1, ActorsAssumption
  <2>4. live \in SUBSET Procs
    BY <1>2 DEF LiveAnswers, Live
  <2>5. born[p] # Unborn
    BY <2>1 DEF There
  <2> QED BY <2>1, <2>2, <2>3, <2>4, <2>5
<1>5. joined => /\ ClassicHalf(pid, classic[pid][1]) /\ cmd = {classic[pid][1].of} /\ Within(classic[pid][1].ts, ts)
  BY <1>1, <1>4 DEF AInv, HalvesOK
<1>6. cmd \in SUBSET Procs
  BY <1>1, <1>5 DEF ClassicHalf
<1>7. JoinWindow <= PidRest => cmd \subseteq {p}
  <2>1. CASE ~joined
    BY <1>1, <2>1
  <2>2. CASE joined
    <3>1. PICK q : q = classic[pid][1].of
      OBVIOUS
    <3>2. q \in Procs /\ PidOf[q] = PidOf[p] /\ born[q] # Unborn /\ Within(born[q], born[p]) /\ cmd = {q}
      BY <1>4, <1>5, <2>2, <3>1 DEF ClassicHalf, There
    <3> QED BY <1>4, <3>2, StartsApart
  <2> QED BY <2>1, <2>2
<1>8. PICK new : new = Fitting'
  OBVIOUS
<1>9. <<p, ts>> \in new /\ <<par, ts>> \in new
  BY <1>3, <1>4, <1>8, ThereFits
<1>10. /\ CacheOK(inserted) /\ Capped(inserted) /\ Becomes(procs, inserted, new)
       /\ p \in Cached(inserted) \/ p \in inserted.evicted
  BY <1>1, <1>4, <1>6, <1>9, InsertOK DEF AInv
<1>11. CacheOK(procs') /\ Capped(procs') /\ Becomes(inserted, procs', new)
  <2>1. actor = ActorSync(inserted, par, key, ts, live) /\ procs' = actor.cache
    BY <1>1, <1>2
  <2>2. key \in {{}, {par}} /\ par \in Procs /\ ts \in Int /\ live \in SUBSET Procs /\ <<par, ts>> \in new
    BY <1>2, <1>4, <1>9
  <2>3. CacheOK(actor.cache) /\ Capped(actor.cache) /\ Becomes(inserted, actor.cache, new)
    BY <1>10, <2>1, <2>2, ActorSyncOK
  <2> QED BY <2>1, <2>3
<1>12. Becomes(procs, procs', Fitting')
  BY <1>8, <1>10, <1>11, BecomesTwice
<1>13. /\ EntriesOK' /\ procs.evicted \subseteq procs'.evicted
       /\ \A q \in Procs : Alive(q) /\ StillKnown(q) => StillKnown(q)'
  BY <1>2, <1>3, <1>12, CacheStep DEF AInv
<1>14. Alive(p) => StillKnown(p)'
  BY <1>10, <1>11, InsertedKnown DEF AInv
<1>15. LaunchesOK'
  <2>1. CASE UNCHANGED <<launches, kernel>>
    BY <1>2, <1>3, <1>13, <2>1, LaunchesStep DEF AInv, LaunchesOK
  <2>2. CASE launches' = Append(launches, Launch(p, cmd, joined))
    <3>1. PICK l : l = Launch(p, cmd, joined)
      OBVIOUS
    <3>2. l \in Said /\ l.of = p /\ l.cmd = cmd
      <4>1. joined \in BOOLEAN
        BY <1>1 DEF Waiting
      <4> QED BY <1>4, <1>6, <3>1, <4>1 DEF Launch, Said
    <3>3. ASSUME PidOf[p] \notin mistaken' PROVE Launched(p)'
      BY <1>1, <1>2, <1>3, <1>4, <1>14, <3>3 DEF Launched, Alive
    <3>4. ASSUME PidOf[p] \notin mistaken', NEW i \in DOMAIN launches, launches[i].of = p PROVE "start" \in MayBeLate
      <4>1. Launched(p)
        BY <1>2, <3>4 DEF AInv, LaunchesOK
      <4> QED BY <1>1, <1>3, <4>1 DEF Launched
    <3> QED BY <1>2, <1>3, <1>7, <1>13, <2>2, <3>1, <3>2, <3>3, <3>4, LaunchAdded
  <2> QED BY <1>2, <2>1, <2>2
<1>16. launches \in Seq(Said)
  BY DEF AInv, LaunchesOK
<1>17. DOMAIN launches \subseteq DOMAIN launches' /\ \A i \in DOMAIN launches : launches'[i].of = launches[i].of
  BY <1>2, <1>16
<1>18. /\ classic' = [i \in Pids |-> classic'[i]] /\ \A i \in Pids : classic'[i] \in {<<>>, classic[i]}
  BY <1>2, <1>4 DEF AInv, HalvesOK
<1>19. HalvesOK'
  <2>1. CASE kernel' = kernel
    BY <1>3, <1>17, <1>18, <2>1, HalvesStep DEF AInv, HalvesOK
  <2>2. CASE /\ launches' = Append(launches, Launch(p, cmd, joined))
             /\ kernel' = [kernel EXCEPT ![pid] = <<[ts |-> ts, id |-> Len(launches) + 1, of |-> p]>>]
    <3>1. PICK h : h = [ts |-> ts, id |-> Len(launches) + 1, of |-> p]
      OBVIOUS
    <3>2. kernel' = [i \in Pids |-> IF i = pid THEN <<h>> ELSE kernel[i]]
      BY <2>2, <3>1 DEF AInv, HalvesOK
    <3>3. h.id \in DOMAIN launches' /\ launches'[h.id].of = p
      BY <1>16, <2>2, <3>1 DEF Launch
    <3>4. KernelHalf(pid, h)'
      BY <1>3, <1>4, <3>1, <3>3 DEF KernelHalf
    <3>5. \A i \in Pids : \A k : KernelHalf(i, k) => KernelHalf(i, k)'
      BY <1>3, <1>17 DEF KernelHalf
    <3>6. \A i \in Pids : \A k : ClassicHalf(i, k) => ClassicHalf(i, k)'
      BY <1>3 DEF ClassicHalf, There
    <3>7. \A i \in Pids : Waiting(kernel'[i]) => kernel'[i] = <<kernel'[i][1]>> /\ KernelHalf(i, kernel[i][1])'
      BY <3>2, <3>4, <3>5 DEF AInv, HalvesOK
    <3>8. \A i \in Pids : Waiting(classic'[i]) => classic'[i] = <<classic'[i][1]>> /\ ClassicHalf(i, classic[i][1])'
      BY <1>18, <3>6 DEF AInv, HalvesOK, Waiting
    <3> QED BY <1>18, <3>2, <3>7, <3>8 DEF HalvesOK
  <2> QED BY <1>2, <2>1, <2>2
<1>20. BlamedRight' /\ NetOK'
  BY <1>2, <1>3 DEF AInv, BlamedRight, NetOK, Balanced, Resting, At
<1> QED BY <1>3, <1>11, <1>13, <1>15, <1>19, <1>20 DEF AInv

\* on_classic Start: the half that waits under the PID is the process's own.
LEMMA ClassicStartInv == ASSUME AInv, ClassicStart PROVE AInv'
<1>1. PICK p, ts, pid, joins : /\ p = cur.of /\ ts = cur.ts /\ pid = PidOf[cur.of]
                               /\ joins = (Waiting(kernel[pid]) /\ Within(kernel[pid][1].ts, cur.ts))
  OBVIOUS
<1>2. PICK h : h = kernel[pid][1]
  OBVIOUS
<1>3. /\ Handling({"classic"})
      /\ \/ /\ joins
            /\ procs' = Insert(procs, h.of, {p}, h.ts)
            /\ launches' = IF ~launches[h.id].waits THEN launches
                           ELSE [launches EXCEPT ![h.id].cmd = {p}, ![h.id].waits = FALSE]
            /\ kernel' = [kernel EXCEPT ![pid] = <<>>]
            /\ UNCHANGED classic
         \/ /\ ~joins
            /\ classic' = [classic EXCEPT ![pid] = <<[ts |-> ts, of |-> p]>>]
            /\ UNCHANGED <<procs, launches, kernel>>
      /\ UNCHANGED <<net, balance, blamed, mistaken>>
  BY <1>1, <1>2 DEF ClassicStart, books
<1>4. /\ EventOK(cur) /\ cur.what = "classic" /\ cur' = Resting
      /\ UNCHANGED <<clock, born, died, stream>>
      /\ MachineOK' /\ PidsOK' /\ EventsOK' /\ UnderWay' \subseteq UnderWay
  BY <1>3, HandlingOK
<1>5. /\ p \in Procs /\ ts \in Int /\ There(p, ts) /\ ts = born[p] /\ pid = PidOf[p] /\ pid \in Pids
      /\ There(Parent[p], ts) /\ born[p] # Unborn
  BY <1>1, <1>4 DEF EventOK, There, Pids
<1>6. BlamedRight' /\ NetOK'
  BY <1>3, <1>4 DEF AInv, BlamedRight, NetOK, Balanced, Resting, At
<1>7. CASE /\ ~joins
           /\ classic' = [classic EXCEPT ![pid] = <<[ts |-> ts, of |-> p]>>]
           /\ UNCHANGED <<procs, launches, kernel>>
  <2>1. PICK k : k = [ts |-> ts, of |-> p]
    OBVIOUS
  <2>2. classic' = [i \in Pids |-> IF i = pid THEN <<k>> ELSE classic[i]]
    BY <1>7, <2>1 DEF AInv, HalvesOK
  <2>3. ClassicHalf(pid, k)'
    BY <1>4, <1>5, <2>1 DEF ClassicHalf, There
  <2>4. \A i \in Pids : \A j : ClassicHalf(i, j) => ClassicHalf(i, j)'
    BY <1>4 DEF ClassicHalf, There
  <2>5. \A i \in Pids : \A j : KernelHalf(i, j) => KernelHalf(i, j)'
    BY <1>4, <1>7 DEF KernelHalf
  <2>6. \A i \in Pids : Waiting(classic'[i]) => classic'[i] = <<classic'[i][1]>> /\ ClassicHalf(i, classic[i][1])'
    BY <2>2, <2>3, <2>4 DEF AInv, HalvesOK
  <2>7. HalvesOK'
    BY <1>7, <2>2, <2>5, <2>6 DEF AInv, HalvesOK
  <2>8. EntriesOK' /\ procs'.evicted = procs.evicted /\ \A q \in Procs : Alive(q) /\ StillKnown(q) => StillKnown(q)'
    BY <1>3, <1>4, <1>7 DEF AInv, EntriesOK, Fits, StillKnown
  <2>9. LaunchesOK'
    BY <1>3, <1>4, <1>7, <2>8, LaunchesStep DEF AInv, LaunchesOK
  <2> QED BY <1>4, <1>6, <1>7, <2>7, <2>8, <2>9 DEF AInv
<1>8. CASE /\ joins
           /\ procs' = Insert(procs, h.of, {p}, h.ts)
           /\ launches' = IF ~launches[h.id].waits THEN launches
                          ELSE [launches EXCEPT ![h.id].cmd = {p}, ![h.id].waits = FALSE]
           /\ kernel' = [kernel EXCEPT ![pid] = <<>>]
           /\ UNCHANGED classic
  <2>1. KernelHalf(pid, h) /\ Within(h.ts, ts)
    BY <1>1, <1>2, <1>5, <1>8 DEF AInv, HalvesOK
  <2>2. PICK q : q = h.of
    OBVIOUS
  <2>3. /\ q \in Procs /\ PidOf[q] = PidOf[p] /\ h.ts = born[q] /\ born[q] # Unborn
        /\ h.id \in DOMAIN launches /\ launches[h.id].of = q
    BY <1>5, <2>1, <2>2 DEF KernelHalf
  <2>4. JoinWindow <= PidRest => p = q
    BY <1>5, <2>1, <2>3, StartsApart
  <2>5. h.ts \in Int /\ There(q, h.ts)
    BY <2>3 DEF AInv, MachineOK, There, Unborn
  <2>6. PICK new : new = Fitting'
    OBVIOUS
  <2>7. <<q, h.ts>> \in new
    BY <1>4, <2>3, <2>5, <2>6, ThereFits
  <2>8. PICK start : start = h.ts
    OBVIOUS
  <2>9. CacheOK(procs') /\ Capped(procs') /\ Becomes(procs, procs', new)
    BY <1>5, <1>8, <2>2, <2>3, <2>5, <2>7, <2>8, InsertOK DEF AInv
  <2>10. /\ EntriesOK' /\ procs.evicted \subseteq procs'.evicted
         /\ \A r \in Procs : Alive(r) /\ StillKnown(r) => StillKnown(r)'
    BY <1>3, <1>4, <2>6, <2>9, CacheStep DEF AInv
  <2>11. launches \in Seq(Said)
    BY DEF AInv, LaunchesOK
  <2>12. PICK l : l = [launches[h.id] EXCEPT !.cmd = {p}, !.waits = FALSE]
    OBVIOUS
  <2>13. l \in Said /\ l.of = q /\ l.cmd = {p}
    <3>1. launches[h.id] \in Said
      BY <2>3, <2>11, SaidAt
    <3> QED BY <1>5, <2>3, <2>12, <3>1 DEF Said
  <2>14. launches' = launches \/ launches' = [launches EXCEPT ![h.id] = l]
    BY <1>8, <2>3, <2>11, <2>12
  <2>15. /\ launches' \in Seq(Said)
         /\ DOMAIN launches' = DOMAIN launches
         /\ \A i \in DOMAIN launches : launches'[i] = launches[i] \/ (i = h.id /\ launches'[i] = l)
    BY <2>3, <2>11, <2>13, <2>14
  <2>16. \A i \in DOMAIN launches : /\ launches'[i].of = launches[i].of
                                    /\ launches'[i].cmd = launches[i].cmd \/
                                       (JoinWindow <= PidRest => launches'[i].cmd \subseteq {launches[i].of})
    BY <2>3, <2>4, <2>13, <2>15
  <2>17. LaunchesOK'
    BY <1>3, <1>4, <2>10, <2>15, <2>16, LaunchesStep DEF AInv
  <2>18. kernel' = [i \in Pids |-> kernel'[i]] /\ \A i \in Pids : kernel'[i] \in {<<>>, kernel[i]}
    BY <1>5, <1>8 DEF AInv, HalvesOK
  <2>19. HalvesOK'
    BY <1>4, <1>8, <2>15, <2>16, <2>18, HalvesStep DEF AInv, HalvesOK
  <2> QED BY <1>4, <1>6, <2>9, <2>10, <2>17, <2>19 DEF AInv
<1> QED BY <1>3, <1>7, <1>8

\* launch_expiry: the half is of a process whose start is not under way any
\* more unless it is late; the cache does not know it, so if it had a Launch
\* it was evicted.
LEMMA ExpireClassicInv ==
  ASSUME AInv, NEW pid \in Pids, NEW live, live \in LiveAnswers(pid), NEW key, ExpireClassic(pid, live, key)
  PROVE  AInv'
<1>1. PICK h, q, par : h = classic[pid][1] /\ q = h.of /\ par = Parent[h.of]
  OBVIOUS
<1>2. /\ Expired(pid) /\ key \in {{}, {par}}
      /\ classic' = [classic EXCEPT ![pid] = <<>>]
      /\ mistaken' = mistaken \cup {PidOf[r] : r \in live \ {q}}
      /\ UNCHANGED <<machine, coming, stream, cur, kernel, net, balance, blamed>>
  BY <1>1 DEF ExpireClassic
<1>3. /\ ClassicHalf(pid, h) /\ h.ts + JoinWindow < stream
  BY <1>1, <1>2 DEF AInv, HalvesOK, Expired
<1>4. /\ q \in Procs /\ PidOf[q] = pid /\ h.ts = born[q] /\ There(q, h.ts) /\ par \in Procs /\ There(par, h.ts)
      /\ h.ts \in Int /\ h.ts < stream /\ born[q] # Unborn
  <2>1. q \in Procs /\ PidOf[q] = pid /\ h.ts = born[q] /\ There(q, h.ts) /\ There(par, h.ts)
    BY <1>1, <1>3 DEF ClassicHalf
  <2>2. par \in Procs
    BY <1>1, <2>1, ActorsAssumption
  <2>3. born[q] # Unborn
    BY <2>1 DEF There
  <2>4. stream \in Int /\ born[q] \in Nat
    BY <2>1, <2>3 DEF AInv, MachineOK
  <2>5. h.ts \in Int /\ h.ts < stream
    BY <1>3, <2>1, <2>4, ActorsAssumption
  <2> QED BY <2>1, <2>2, <2>3, <2>5
<1>5. UNCHANGED <<clock, born, died>>
  BY <1>2 DEF machine
<1>6. MachineOK' /\ PidsOK' /\ EventsOK' /\ UnderWay' \subseteq UnderWay
  BY <1>2, EventsStep DEF AInv
<1>7. BlamedRight' /\ NetOK'
  BY <1>2 DEF AInv, BlamedRight, NetOK, Balanced
<1>8. classic' = [i \in Pids |-> classic'[i]] /\ \A i \in Pids : classic'[i] \in {<<>>, classic[i]}
  BY <1>2 DEF AInv, HalvesOK
<1>9. launches \in Seq(Said)
  BY DEF AInv, LaunchesOK
<1>10. PICK new : new = Fitting'
  OBVIOUS
<1>11. <<par, h.ts>> \in new /\ <<q, h.ts>> \in new
  BY <1>4, <1>5, <1>10, ThereFits
<1>12. PICK ts : ts = h.ts
  OBVIOUS
<1>13. ASSUME CacheOK(procs') /\ Capped(procs') /\ Becomes(procs, procs', new), launches' = launches
       PROVE  AInv'
  <2>1. /\ EntriesOK' /\ procs.evicted \subseteq procs'.evicted
        /\ \A r \in Procs : Alive(r) /\ StillKnown(r) => StillKnown(r)'
    BY <1>2, <1>5, <1>10, <1>13, CacheStep DEF AInv
  <2>2. LaunchesOK'
    BY <1>2, <1>5, <1>6, <1>13, <2>1, LaunchesStep DEF AInv, LaunchesOK
  <2>3. HalvesOK'
    BY <1>2, <1>5, <1>8, <1>13, HalvesStep DEF AInv, HalvesOK
  <2> QED BY <1>6, <1>7, <1>13, <2>1, <2>2, <2>3 DEF AInv
<1>14. CASE live = {} /\ UNCHANGED <<procs, launches>>
  <2>1. Becomes(procs, procs', new)
    BY <1>14 DEF Becomes, AInv
  <2> QED BY <1>13, <1>14, <2>1 DEF AInv
<1>15. ASSUME live # {} PROVE \E r \in Procs : live = {r} /\ (CHOOSE s \in live : TRUE) = r /\ PidOf[r] = pid /\ Alive(r)
                                               /\ (r # q => pid \in mistaken')
  <2>1. PICK r \in Procs : live = {r} /\ PidOf[r] = pid /\ Alive(r)
    BY <1>15 DEF LiveAnswers, Live
  <2> QED BY <1>2, <2>1
<1>16. CASE /\ live # {} /\ HalfCame(procs, CHOOSE s \in live : TRUE)
            /\ procs' = (IF procs.entries[CHOOSE s \in live : TRUE].cmd = {}
                         THEN SetCommand(procs, CHOOSE s \in live : TRUE, {q}) ELSE procs)
            /\ launches' = launches
  <2>1. PICK p \in Procs : p = CHOOSE s \in live : TRUE
    BY <1>15, <1>16
  <2>2. procs' = SetCommand(procs, p, {q}) \/ procs' = procs
    BY <1>16, <2>1
  <2>3. CacheOK(procs') /\ Capped(procs') /\ Becomes(procs, procs', new)
    <3>1. PICK cmd \in SUBSET Procs : cmd = {q}
      BY <1>4
    <3>2. CASE procs' = procs
      BY <3>2 DEF AInv, Becomes
    <3>3. CASE procs' = SetCommand(procs, p, cmd)
      BY <3>3, SetCommandOK DEF AInv
    <3> QED BY <2>2, <3>1, <3>2, <3>3
  <2> QED BY <1>13, <1>16, <2>3
<1>17. CASE /\ live # {} /\ ~HalfCame(procs, CHOOSE s \in live : TRUE)
            /\ LET actor == ActorSync(Insert(procs, CHOOSE s \in live : TRUE, {q}, ts), par, key, ts, Live(PidOf[par]))
               IN /\ procs' = actor.cache
                  /\ launches' = IF actor.named = {} THEN launches
                                 ELSE Append(launches, Launch(CHOOSE s \in live : TRUE, {q}, TRUE))
  <2>1. PICK p \in Procs : p = (CHOOSE s \in live : TRUE) /\ PidOf[p] = pid /\ Alive(p) /\ (p # q => pid \in mistaken')
    BY <1>15, <1>17
  <2>2. PICK c, actor : c = Insert(procs, p, {q}, ts) /\ actor = ActorSync(c, par, key, ts, Live(PidOf[par]))
    OBVIOUS
  <2>3. /\ p \notin Cached(procs) /\ procs' = actor.cache
        /\ launches' = launches \/ launches' = Append(launches, Launch(p, {q}, TRUE))
    BY <1>17, <2>1, <2>2 DEF HalfCame
  <2>4. Fits(p, ts)'
    BY <1>4, <1>5, <1>10, <1>11, <1>12, <2>1 DEF Fitting, Fits
  <2>5. <<p, ts>> \in new /\ ts \in Int
    BY <1>4, <1>10, <1>12, <2>4 DEF Fitting
  <2>6. CacheOK(c) /\ Capped(c) /\ Becomes(procs, c, new) /\ (p \in Cached(c) \/ p \in c.evicted)
    BY <1>4, <2>2, <2>5, InsertOK DEF AInv
  <2>7. CacheOK(procs') /\ Capped(procs') /\ Becomes(c, procs', new)
    <3>1. Live(PidOf[par]) \in SUBSET Procs
      BY DEF Live
    <3> QED BY <1>2, <1>4, <1>11, <1>12, <2>2, <2>3, <2>5, <2>6, <3>1, ActorSyncOK
  <2>8. Becomes(procs, procs', new)
    BY <2>6, <2>7, BecomesTwice
  <2>9. CASE launches' = launches
    BY <1>13, <2>7, <2>8, <2>9
  <2>10. CASE launches' = Append(launches, Launch(p, {q}, TRUE))
    <3>1. PICK l : l = Launch(p, {q}, TRUE)
      OBVIOUS
    <3>2. l \in Said /\ l.of = p /\ l.cmd = {q}
      BY <1>4, <3>1 DEF Launch, Said
    <3>3. /\ EntriesOK' /\ procs.evicted \subseteq procs'.evicted
          /\ \A r \in Procs : Alive(r) /\ StillKnown(r) => StillKnown(r)'
      BY <1>2, <1>5, <1>10, <2>8, CacheStep DEF AInv
    <3>4. StillKnown(p)'
      BY <2>1, <2>6, <2>7, InsertedKnown DEF AInv
    <3>5. ASSUME p = q, "start" \notin MayBeLate, NEW m \in UnderWay', m.what = "start", m.of = p PROVE FALSE
      <4>1. EventOK(m) /\ (m.ts < stream => m.what \in MayBeLate)
        BY <1>6, <3>5 DEF AInv, EventsOK
      <4>2. m.ts = h.ts
        BY <1>4, <3>5, <4>1 DEF EventOK
      <4> QED BY <1>4, <3>5, <4>1, <4>2
    <3>6. ASSUME p = q PROVE Launched(p)'
      <4>1. born'[p] # Unborn
        BY <1>4, <1>5, <3>6
      <4>2. "start" \notin MayBeLate => \A m \in UnderWay' : m.what = "start" => m.of # p
        BY <3>5, <3>6
      <4> QED BY <3>4, <4>1, <4>2 DEF Launched
    <3>7. ASSUME NEW i \in DOMAIN launches, launches[i].of = p, PidOf[p] \notin mistaken' PROVE p \in procs'.evicted
      <4>1. Launched(p)
        BY <1>2, <3>7 DEF AInv, LaunchesOK
      <4> QED BY <2>1, <2>3, <3>3, <4>1 DEF Launched, StillKnown
    <3>8. LaunchesOK'
      <4>1. ASSUME PidOf[l.of] \notin mistaken'
            PROVE  /\ Launched(l.of)'
                   /\ JoinWindow <= PidRest => l.cmd \subseteq {l.of}
                   /\ (\E i \in DOMAIN launches : launches[i].of = l.of) => "start" \in MayBeLate \/ l.of \in procs'.evicted
        <5>1. p = q
          BY <2>1, <3>2, <4>1
        <5> QED BY <3>2, <3>6, <3>7, <4>1, <5>1
      <4>2. mistaken \subseteq mistaken' /\ launches' = Append(launches, l)
        BY <1>2, <2>10, <3>1
      <4>3. l \in Said /\ UNCHANGED <<clock, born, died>> /\ UnderWay' \subseteq UnderWay
        BY <1>5, <1>6, <3>2
      <4> QED BY <3>3, <4>1, <4>2, <4>3, LaunchAdded
    <3>9. DOMAIN launches \subseteq DOMAIN launches' /\ \A i \in DOMAIN launches : launches'[i].of = launches[i].of
      <4>1. launches' = Append(launches, l)
        BY <2>10, <3>1
      <4> QED BY <1>9, <3>2, <4>1
    <3>10. HalvesOK'
      BY <1>2, <1>5, <1>8, <3>9, HalvesStep DEF AInv, HalvesOK
    <3> QED BY <1>6, <1>7, <2>7, <3>3, <3>8, <3>10 DEF AInv
  <2> QED BY <2>3, <2>9, <2>10
<1> QED BY <1>1, <1>12, <1>14, <1>16, <1>17 DEF ExpireClassic

\* finish_incomplete, join_fallback: the process's own command line if Windows
\* names it, none otherwise.
LEMMA LeaveOK ==
  ASSUME NEW l \in Said, NEW live
  PROVE  LET k == Leave(l, live)
         IN /\ k \in Said /\ k.of = l.of
            /\ k.cmd = l.cmd \/ k.cmd \subseteq {l.of}
BY DEF Leave, Said

\* A Launch leaves.
LEMMA LeavesInv ==
  ASSUME AInv, NEW i \in DOMAIN launches, NEW live, Leaves(i, live)
  PROVE  AInv'
<1>1. /\ launches' = [launches EXCEPT ![i] = Leave(launches[i], live)]
      /\ procs' = (IF live = {launches[i].of} THEN SetCommand(procs, launches[i].of, live) ELSE procs)
      /\ UNCHANGED <<machine, coming, stream, cur, kernel, classic, net, balance, blamed, mistaken>>
  BY DEF Leaves, books
<1>2. UNCHANGED <<clock, born, died>>
  BY <1>1 DEF machine
<1>3. MachineOK' /\ PidsOK' /\ EventsOK' /\ UnderWay' \subseteq UnderWay
  BY <1>1, EventsStep DEF AInv
<1>4. launches \in Seq(Said)
  BY DEF AInv, LaunchesOK
<1>5. PICK k : k = Leave(launches[i], live)
  OBVIOUS
<1>6. PICK p \in Procs : p = launches[i].of
  BY <1>4, SaidAt
<1>7. /\ k \in Said /\ k.of = p
      /\ k.cmd = launches[i].cmd \/ k.cmd \subseteq {p}
  <2>1. launches[i] \in Said
    BY <1>4, SaidAt
  <2> QED BY <1>5, <1>6, <2>1, LeaveOK
<1>8. /\ launches' \in Seq(Said)
      /\ DOMAIN launches' = DOMAIN launches
      /\ \A j \in DOMAIN launches : launches'[j] = launches[j] \/ (j = i /\ launches'[j] = k)
  BY <1>1, <1>4, <1>5, <1>7
<1>9. PICK new : new = Fitting'
  OBVIOUS
<1>10. CacheOK(procs') /\ Capped(procs') /\ Becomes(procs, procs', new)
  <2>1. procs' = SetCommand(procs, p, {p}) \/ procs' = procs
    BY <1>1, <1>6
  <2>2. CacheOK(procs) /\ Capped(procs)
    BY DEF AInv
  <2>3. CASE procs' = procs
    <3>1. Becomes(procs, procs, new)
      BY DEF Becomes
    <3> QED BY <2>2, <2>3, <3>1
  <2>4. CASE procs' = SetCommand(procs, p, {p})
    <3>1. PICK d : d = SetCommand(procs, p, {p})
      OBVIOUS
    <3>2. CacheOK(d) /\ Capped(d) /\ Becomes(procs, d, new)
      BY <2>2, <3>1, SetCommandOK
    <3> QED BY <2>4, <3>1, <3>2
  <2> QED BY <2>1, <2>3, <2>4
<1>11. /\ EntriesOK' /\ procs.evicted \subseteq procs'.evicted
       /\ \A q \in Procs : Alive(q) /\ StillKnown(q) => StillKnown(q)'
  BY <1>1, <1>2, <1>9, <1>10, CacheStep DEF AInv
<1>12. \A j \in DOMAIN launches : /\ launches'[j].of = launches[j].of
                                  /\ launches'[j].cmd = launches[j].cmd \/ launches'[j].cmd \subseteq {launches[j].of}
  BY <1>6, <1>7, <1>8
<1>13. LaunchesOK'
  BY <1>1, <1>2, <1>3, <1>8, <1>11, <1>12, LaunchesStep DEF AInv
<1>14. HalvesOK'
  BY <1>1, <1>2, <1>8, <1>12, HalvesStep DEF AInv, HalvesOK
<1>15. BlamedRight' /\ NetOK'
  BY <1>1 DEF AInv, BlamedRight, NetOK, Balanced
<1> QED BY <1>3, <1>10, <1>11, <1>13, <1>14, <1>15 DEF AInv

-----------------------------------------------------------------------------
(* Stream time                                                               *)

\* step: kernel halves go when their window has passed.
LEMMA StepHalves ==
  ASSUME HalvesOK, NEW to, Step(to), UNCHANGED <<clock, born, died, launches, classic>>
  PROVE  HalvesOK'
<1>1. kernel' = [i \in Pids |-> kernel'[i]] /\ \A i \in Pids : kernel'[i] \in {<<>>, kernel[i]}
  BY DEF Step
<1> QED BY <1>1, HalvesStep DEF HalvesOK

\* A step of stream time: what the cache, the Launches and the flows hold stays.
LEMMA TimeInv ==
  ASSUME AInv, UNCHANGED <<clock, born, died, procs, launches, blamed, mistaken, balance, net>>, cur' # At("stopped"),
         MachineOK', EventsOK', UnderWay' \subseteq UnderWay, HalvesOK'
  PROVE  AInv'
<1>1. EntriesOK' /\ \A q \in Procs : Alive(q) /\ StillKnown(q) => StillKnown(q)'
  BY DEF AInv, EntriesOK, Fits, StillKnown
<1>2. LaunchesOK'
  BY <1>1, LaunchesStep DEF AInv, LaunchesOK
<1> QED BY <1>1, <1>2 DEF AInv, PidsOK, Before, BlamedRight, NetOK, Balanced

\* The next event: stream time reaches it, and what is left behind may be late.
LEMMA TakeInv == ASSUME AInv, NEW m \in coming, Take(m) PROVE AInv'
<1>1. /\ cur = Resting
      /\ m.ts < stream \/ (m.ts <= clock - Hold /\ InTime(m.ts))
      /\ coming' = coming \ {m} /\ cur' = m /\ Step(m.ts) /\ stream' = Max({stream, m.ts})
      /\ UNCHANGED <<clock, born, died, classic, procs, launches, blamed, mistaken, balance, net>>
  BY DEF Take, Step, machine, books
<1>2. EventOK(m) /\ (m.ts < stream => m.what \in MayBeLate)
  BY DEF AInv, EventsOK, UnderWay
<1>3. m \notin Rests
  BY <1>2, ActorsAssumption DEF EventOK, Rests, Resting, At
<1>4. UnderWay' \subseteq UnderWay
  BY <1>1 DEF UnderWay
<1>5. stream \in Int /\ m.ts \in Int /\ clock \in Int /\ Hold \in Nat /\ m.ts <= clock /\ stream <= clock
  BY <1>1, <1>2, ActorsAssumption DEF AInv, MachineOK, EventOK, There, Resting, At
<1>6. stream' \in {stream, m.ts} /\ stream' >= stream /\ stream' >= m.ts
  BY <1>1, <1>5, MaxTwo
<1>7. MachineOK'
  BY <1>1, <1>5, <1>6 DEF AInv, MachineOK
<1>8. \A k : EventOK(k) => EventOK(k)'
  BY <1>1 DEF EventOK, There
<1>9. ASSUME NEW k \in UnderWay' PROVE EventOK(k)' /\ (k.ts < stream' => k.what \in MayBeLate)
  <2>1. EventOK(k) /\ (k.ts < stream => k.what \in MayBeLate)
    BY <1>4, <1>9 DEF AInv, EventsOK
  <2>2. k \in coming
    BY <1>1, <1>9 DEF UnderWay
  <2>3. k.ts \in Int
    BY <2>1 DEF EventOK
  <2>4. ASSUME k.ts < stream', ~(k.ts < stream) PROVE k.what \in MayBeLate
    <3>1. stream' = m.ts /\ ~(m.ts < stream)
      BY <1>5, <1>6, <2>3, <2>4
    <3>2. InTime(m.ts)
      BY <1>1, <3>1
    <3> QED BY <2>2, <2>4, <3>1, <3>2 DEF InTime
  <2> QED BY <1>8, <2>1, <2>4
<1>10. EventsOK'
  BY <1>1, <1>9 DEF EventsOK
<1>11. HalvesOK'
  BY <1>1, StepHalves DEF AInv
<1>12. cur' # At("stopped")
  BY <1>1, <1>3 DEF Rests
<1> QED BY <1>1, <1>4, <1>7, <1>10, <1>11, <1>12, TimeInv

\* The end of a tick.
LEMMA AdvanceInv == ASSUME AInv, Advance PROVE AInv'
<1>1. /\ cur = Resting /\ stream < clock - Hold /\ InTime(clock - Hold + 1)
      /\ coming' = coming /\ cur' = At("sweep") /\ Step(clock - Hold) /\ stream' = Max({stream, clock - Hold})
      /\ UNCHANGED <<clock, born, died, classic, procs, launches, blamed, mistaken, balance, net>>
  BY DEF Advance, Step, machine, books
<1>2. stream \in Int /\ clock \in Int /\ Hold \in Nat
  BY ActorsAssumption DEF AInv, MachineOK
<1>3. stream' = clock - Hold /\ stream' \in Int /\ stream' <= clock
  BY <1>1, <1>2, MaxTwo
<1>4. MachineOK'
  BY <1>1, <1>3 DEF AInv, MachineOK
<1>5. UnderWay' = coming /\ UnderWay = coming
  BY <1>1 DEF UnderWay, Rests
<1>6. \A k : EventOK(k) => EventOK(k)'
  BY <1>1 DEF EventOK, There
<1>7. ASSUME NEW k \in coming PROVE EventOK(k)' /\ (k.ts < stream' => k.what \in MayBeLate)
  <2>1. EventOK(k)
    BY <1>5, <1>7 DEF AInv, EventsOK
  <2>2. k.ts \in Int
    BY <2>1 DEF EventOK
  <2>3. k.ts < stream' => k.ts < clock - Hold + 1
    BY <1>2, <1>3, <2>2
  <2> QED BY <1>1, <1>6, <1>7, <2>1, <2>3 DEF InTime
<1>8. EventsOK'
  BY <1>1, <1>5, <1>7 DEF EventsOK, At
<1>9. HalvesOK'
  BY <1>1, StepHalves DEF AInv
<1> QED BY <1>1, <1>4, <1>5, <1>8, <1>9, TimeInv DEF At

\* The sweeps close what was idle and forget what ended.
LEMMA SweepInv == ASSUME AInv, Sweep PROVE AInv'
<1>1. PICK gone : gone = Idle(net, stream)
  OBVIOUS
<1>2. /\ cur = At("sweep") /\ cur' = Resting
      /\ \/ UNCHANGED <<net, procs, balance>>
         \/ /\ net' = Without(net, gone) /\ balance' = Closed(gone)
            /\ procs' = Expire(procs, stream)
      /\ UNCHANGED <<machine, coming, stream, kernel, classic, launches, blamed, mistaken>>
  BY <1>1 DEF Sweep
<1>3. UNCHANGED <<clock, born, died>> /\ stream <= clock
  BY <1>2 DEF machine, AInv, MachineOK, At
<1>4. MachineOK' /\ PidsOK' /\ EventsOK' /\ UnderWay' \subseteq UnderWay
  BY <1>2, <1>3, EventsStep DEF AInv
<1>5. gone \subseteq DOMAIN net.flows
  BY <1>1 DEF Idle
<1>6. TablesKept(net) /\ balance = Balanced(net)
  BY DEF AInv, NetOK
<1>7. TablesKept(net') /\ balance' = Balanced(net')
  <2>1. CASE UNCHANGED <<net, procs, balance>>
    BY <1>6, <2>1 DEF Balanced
  <2>2. CASE net' = Without(net, gone) /\ balance' = Closed(gone)
    <3>1. TablesKept(net') /\ DOMAIN net'.flows = DOMAIN net.flows \ gone
      BY <1>6, <2>2, WithoutOK
    <3>2. balance' = [k \in Procs \X Ends |-> IF k \in DOMAIN net.flows \ gone THEN 1 ELSE 0]
      BY <1>5, <1>6, <2>2, ClosedOK
    <3> QED BY <3>1, <3>2 DEF Balanced
  <2> QED BY <1>2, <2>1, <2>2
<1>8. NetOK'
  BY <1>2, <1>7 DEF NetOK, Resting, At
<1>9. PICK new : new = Fitting'
  OBVIOUS
<1>10. CacheOK(procs') /\ Capped(procs') /\ Becomes(procs, procs', new)
  <2>1. CacheOK(procs) /\ Capped(procs)
    BY DEF AInv
  <2>2. CASE procs' = procs
    <3>1. Becomes(procs, procs, new)
      BY DEF Becomes
    <3> QED BY <2>1, <2>2, <3>1
  <2>3. CASE procs' = Expire(procs, stream)
    <3>1. PICK d : d = Expire(procs, stream)
      OBVIOUS
    <3>2. CacheOK(d) /\ Capped(d) /\ Becomes(procs, d, new)
      BY <2>1, <3>1, ExpireOK
    <3> QED BY <2>3, <3>1, <3>2
  <2> QED BY <1>2, <2>2, <2>3
<1>11. BlamedRight'
  BY <1>2 DEF AInv, BlamedRight
<1> QED BY <1>2, <1>3, <1>4, <1>8, <1>9, <1>10, <1>11, AddsInv

\* A stop waits for nothing any more.
LEMMA StopInv == ASSUME AInv, Stop PROVE AInv'
<1>1. /\ coming = {} /\ coming' = {} /\ cur = Resting /\ cur' = At("stopping") /\ stream' = MaxClock + JoinWindow + 1
      /\ kernel' = NoHalf
      /\ UNCHANGED <<clock, born, died, classic, procs, launches, blamed, mistaken, balance, net>>
  BY DEF Stop, machine, books
<1>2. UnderWay' = {}
  BY <1>1 DEF UnderWay, Rests
<1>3. EventsOK'
  BY <1>1, <1>2 DEF EventsOK, At
<1>4. stream' \in Int
  BY <1>1, ActorsAssumption
<1>5. MachineOK'
  BY <1>1, <1>4 DEF AInv, MachineOK
<1>6. HalvesOK'
  BY <1>1, HalvesStep DEF AInv, HalvesOK, NoHalf
<1> QED BY <1>1, <1>2, <1>3, <1>5, <1>6, TimeInv DEF At

\* Every flow is closed, every Launch leaves.
LEMMA StopEndsInv == ASSUME AInv, StopEnds PROVE AInv'
<1>1. PICK gone : gone = DOMAIN net.flows
  OBVIOUS
<1>2. /\ cur = At("stopping") /\ cur' = At("stopped")
      /\ balance' = Closed(gone) /\ net' = Without(net, gone)
      /\ launches' = [i \in DOMAIN launches |->
                       IF launches[i].waits THEN Leave(launches[i], Live(PidOf[launches[i].of])) ELSE launches[i]]
      /\ UNCHANGED <<machine, coming, stream, procs, kernel, classic, blamed, mistaken>>
  BY <1>1 DEF StopEnds
<1>3. UNCHANGED <<clock, born, died>>
  BY <1>2 DEF machine
<1>4. UnderWay' = UnderWay /\ cur'.what # "start"
  BY <1>2 DEF UnderWay, Rests, At
<1>5. \A m : EventOK(m) => EventOK(m)'
  BY <1>3 DEF EventOK, There
<1>6. EventsOK' /\ MachineOK' /\ PidsOK'
  BY <1>2, <1>3, <1>4, <1>5 DEF AInv, EventsOK, MachineOK, PidsOK, Before
<1>7. launches \in Seq(Said)
  BY DEF AInv, LaunchesOK
<1>8. \A i \in DOMAIN launches :
         /\ launches'[i] \in Said /\ launches'[i].of = launches[i].of
         /\ launches'[i].cmd = launches[i].cmd \/ launches'[i].cmd \subseteq {launches[i].of}
  <2>1. SUFFICES ASSUME NEW i \in DOMAIN launches
                 PROVE  /\ launches'[i] \in Said
                        /\ launches'[i].of = launches[i].of
                        /\ launches'[i].cmd = launches[i].cmd \/ launches'[i].cmd \subseteq {launches[i].of}
    OBVIOUS
  <2>2. PICK l : l = launches[i]
    OBVIOUS
  <2>3. l \in Said
    BY <1>7, <2>2, SaidAt
  <2>4. launches'[i] = l \/ launches'[i] = Leave(l, Live(PidOf[l.of]))
    BY <1>2, <2>2
  <2> QED BY <2>2, <2>3, <2>4, LeaveOK
<1>9. /\ launches' \in Seq(Said)
      /\ DOMAIN launches' = DOMAIN launches
  <2>1. PICK n \in Nat : DOMAIN launches = 1..n
    BY <1>7
  <2>2. launches' \in [1..n -> Said]
    BY <1>2, <1>8, <2>1
  <2> QED BY <2>1, <2>2
<1>10. EntriesOK' /\ \A q \in Procs : Alive(q) /\ StillKnown(q) => StillKnown(q)'
  BY <1>2, <1>3 DEF AInv, EntriesOK, Fits, StillKnown
<1>11. LaunchesOK'
  BY <1>2, <1>3, <1>4, <1>8, <1>9, <1>10, LaunchesStep DEF AInv
<1>12. HalvesOK'
  BY <1>2, <1>3, <1>8, <1>9, HalvesStep DEF AInv, HalvesOK
<1>13. TablesKept(net) /\ balance = Balanced(net)
  BY DEF AInv, NetOK
<1>14. TablesKept(net') /\ DOMAIN net'.flows = {}
  BY <1>1, <1>2, <1>13, WithoutOK
<1>15. balance' = [k \in Procs \X Ends |-> IF k \in DOMAIN net.flows \ gone THEN 1 ELSE 0]
  BY <1>1, <1>2, <1>13, ClosedOK
<1>16. NetOK'
  BY <1>1, <1>14, <1>15 DEF NetOK, Balanced
<1>17. BlamedRight'
  BY <1>2 DEF AInv, BlamedRight
<1> QED BY <1>2, <1>6, <1>10, <1>11, <1>12, <1>16, <1>17 DEF AInv

-----------------------------------------------------------------------------
(* The machine                                                               *)

\* Processes start and exit, time passes: what was true of a process that was
\* born stays so, and new events are of now.
LEMMA MachineInv ==
  ASSUME AInv, cur = Resting, UNCHANGED <<stream, cur, state, books>>,
         MachineOK', PidsOK', clock <= clock',
         \A p \in Procs : /\ born[p] # Unborn => born'[p] = born[p]
                          /\ died[p] # Unborn => died'[p] = died[p]
                          /\ died'[p] # died[p] => died'[p] = clock,
         coming \subseteq coming',
         \A m \in coming' \ coming : /\ EventOK(m)' /\ m.ts = clock
                                     /\ m.what = "start" => born[m.of] = Unborn
  PROVE  AInv'
<1>1. UNCHANGED <<procs, kernel, classic, launches, net, balance, blamed, mistaken>>
  BY DEF state, books
<1>2. stream \in Int /\ clock \in Int /\ clock' \in Int /\ stream <= clock
  BY DEF AInv, MachineOK, Resting, At
<1>3. ASSUME NEW p \in Procs, NEW ts \in Int, There(p, ts) PROVE There(p, ts)'
  <2>1. born[p] # Unborn /\ born[p] <= ts /\ ts <= clock /\ (died[p] # Unborn => ts <= died[p])
    BY <1>3 DEF There
  <2>2. born'[p] = born[p] /\ (died'[p] = died[p] \/ died'[p] = clock) /\ ts <= clock'
    BY <1>2, <1>3, <2>1
  <2> QED BY <2>1, <2>2 DEF There
<1>4. ASSUME NEW m, EventOK(m) PROVE EventOK(m)'
  <2>1. PICK p, q : p = m.of /\ q = Parent[m.of]
    OBVIOUS
  <2>2. p \in Procs /\ q \in Procs /\ m.ts \in Int /\ There(p, m.ts)
    BY <1>4, <2>1, ActorsAssumption DEF EventOK
  <2>3. There(p, m.ts)' /\ (There(q, m.ts) => There(q, m.ts)') /\ born'[p] = born[p] /\ (died[p] # Unborn => died'[p] # Unborn)
    BY <1>3, <2>2 DEF There
  <2> QED BY <1>4, <2>1, <2>3 DEF EventOK
<1>5. UnderWay' = coming' /\ UnderWay = coming /\ cur'.what # "start"
  BY DEF UnderWay, Rests, Resting, At
<1>6. ASSUME NEW m \in coming' PROVE EventOK(m)' /\ (m.ts < stream' => m.what \in MayBeLate)
  <2>1. CASE m \in coming
    BY <1>4, <1>5, <2>1 DEF AInv, EventsOK
  <2>2. CASE m \notin coming
    BY <1>2, <1>6, <2>2
  <2> QED BY <2>1, <2>2
<1>7. EventsOK'
  BY <1>5, <1>6 DEF EventsOK
<1>8. HalvesOK'
  <2>1. ASSUME NEW i \in Pids, NEW h, KernelHalf(i, h) PROVE KernelHalf(i, h)'
    <3>1. PICK p \in Procs : p = h.of
      BY <2>1 DEF KernelHalf
    <3>2. born[p] # Unborn
      BY <2>1, <3>1 DEF KernelHalf
    <3> QED BY <1>1, <2>1, <3>1, <3>2 DEF KernelHalf
  <2>2. ASSUME NEW i \in Pids, NEW h, ClassicHalf(i, h) PROVE ClassicHalf(i, h)'
    <3>1. PICK p, q : p = h.of /\ q = Parent[h.of]
      OBVIOUS
    <3>2. p \in Procs /\ q \in Procs /\ h.ts \in Int /\ There(p, h.ts) /\ There(q, h.ts) /\ born[p] # Unborn /\ h.ts = born[p]
      BY <2>2, <3>1, ActorsAssumption DEF ClassicHalf, There, AInv, MachineOK, Unborn
    <3>3. There(p, h.ts)' /\ There(q, h.ts)' /\ born'[p] = born[p]
      BY <1>3, <3>2
    <3> QED BY <2>2, <3>1, <3>2, <3>3 DEF ClassicHalf
  <2> QED BY <1>1, <2>1, <2>2 DEF AInv, HalvesOK
<1>9. EntriesOK'
  <2>1. SUFFICES ASSUME NEW p \in Cached(procs)
                 PROVE  Fits(p, procs.entries[p].start)' /\ (procs.entries[p].end # Open => died'[p] # Unborn)
    BY <1>1 DEF EntriesOK
  <2>2. p \in Procs /\ procs.entries[p].start \in Int
    BY DEF AInv, CacheOK, Entries
  <2>3. PICK s \in Int : s = procs.entries[p].start
    BY <2>2
  <2>4. Fits(p, s) /\ (procs.entries[p].end # Open => died[p] # Unborn)
    BY <2>3 DEF AInv, EntriesOK
  <2>5. Fits(p, s)'
    <3>1. CASE PidOf[p] \in mistaken
      BY <1>1, <3>1 DEF Fits
    <3>2. CASE PidOf[p] \notin mistaken
      <4>1. /\ born[p] # Unborn /\ s <= clock /\ (died[p] # Unborn => s <= died[p])
            /\ s >= born[p] \/ (s = Always /\ born[p] = 0)
        BY <2>4, <3>2 DEF Fits
      <4>2. born'[p] = born[p] /\ (died'[p] = died[p] \/ died'[p] = clock) /\ s <= clock'
        BY <1>2, <2>2, <4>1
      <4> QED BY <4>1, <4>2 DEF Fits
    <3> QED BY <3>1, <3>2
  <2> QED BY <1>1, <2>2, <2>3, <2>4, <2>5
<1>10. ASSUME NEW p \in Procs, Launched(p) PROVE Launched(p)'
  <2>1. born[p] # Unborn /\ born'[p] = born[p] /\ (died[p] # Unborn => died'[p] # Unborn)
    BY <1>10 DEF Launched
  <2>2. Alive(p)' => Alive(p)
    BY <2>1 DEF Alive
  <2>3. \A m \in UnderWay' : m \in UnderWay \/ (m.what = "start" => m.of # p)
    BY <1>5, <2>1
  <2> QED BY <1>1, <1>10, <2>1, <2>2, <2>3 DEF Launched, StillKnown
<1>11. LaunchesOK'
  <2>1. \A i \in DOMAIN launches : launches[i].of \in Procs
    BY SaidAt DEF AInv, LaunchesOK
  <2> QED BY <1>1, <1>10, <2>1 DEF AInv, LaunchesOK
<1>12. BlamedRight' /\ NetOK'
  BY <1>1 DEF AInv, BlamedRight, NetOK, Balanced
<1> QED BY <1>1, <1>7, <1>8, <1>9, <1>11, <1>12 DEF AInv

\* A new process's PID has rested since the last one that had it.
LEMMA StartsInv == ASSUME AInv, NEW p \in Procs, Starts(p) PROVE AInv'
<1>1. PICK par : par = Parent[p]
  OBVIOUS
<1>2. /\ cur = Resting /\ born[p] = Unborn /\ Alive(par) /\ par \in Procs
      /\ \A q \in Procs : PidOf[q] = PidOf[p] /\ born[q] # Unborn => ~Alive(q) /\ clock > died[q] + PidRest
      /\ born' = [born EXCEPT ![p] = clock]
      /\ UNCHANGED <<clock, died, stream, cur, state, books>>
  BY <1>1, ActorsAssumption DEF Starts, Acting, Machine
<1>3. coming \subseteq coming' /\ \A m \in coming' \ coming : m.what \in {"start", "classic"} /\ m = [what |-> m.what, of |-> p, ts |-> clock]
  BY DEF Starts, Log
<1>4. clock \in Nat /\ born[IdleProc] = 0
  BY DEF AInv, MachineOK
<1>5. born' \in [Procs -> Nat \cup {Unborn}] /\ born'[p] = clock /\ \A q \in Procs : q # p => born'[q] = born[q]
  BY <1>2, <1>4 DEF AInv, MachineOK
<1>6. died[p] = Unborn
  BY <1>2 DEF AInv, MachineOK
<1>7. MachineOK'
  BY <1>2, <1>4, <1>5, <1>6, ActorsAssumption DEF AInv, MachineOK, Unborn
<1>8. PidsOK'
  <2>1. SUFFICES ASSUME NEW q \in Procs, NEW r \in Procs, PidOf[q] = PidOf[r], q # r, born'[q] # Unborn, born'[r] # Unborn
                 PROVE  Before(q, r)' \/ Before(r, q)'
    BY DEF PidsOK
  <2>2. CASE q = p
    BY <1>2, <1>5, <2>1, <2>2 DEF Before, Alive
  <2>3. CASE r = p
    BY <1>2, <1>5, <2>1, <2>3 DEF Before, Alive
  <2>4. CASE q # p /\ r # p
    BY <1>2, <1>5, <2>1, <2>4 DEF AInv, PidsOK, Before
  <2> QED BY <2>2, <2>3, <2>4
<1>9. par # p /\ There(par, clock)'
  BY <1>2, <1>4, <1>5 DEF There, Alive, AInv, MachineOK
<1>10. There(p, clock)'
  BY <1>2, <1>4, <1>5, <1>6 DEF There, Unborn
<1>11. ASSUME NEW m \in coming' \ coming PROVE EventOK(m)' /\ m.ts = clock /\ (m.what = "start" => born[m.of] = Unborn)
  <2>1. m.what \in {"start", "classic"} /\ m.of = p /\ m.ts = clock /\ m = [what |-> m.what, of |-> m.of, ts |-> m.ts]
    BY <1>3, <1>11
  <2> QED BY <1>1, <1>2, <1>4, <1>5, <1>9, <1>10, <2>1 DEF EventOK
<1> QED BY <1>2, <1>3, <1>4, <1>5, <1>7, <1>8, <1>11, MachineInv

\* A process exits: its events so far are not after that.
LEMMA ExitsInv == ASSUME AInv, NEW p \in Procs, Exits(p) PROVE AInv'
<1>1. /\ cur = Resting /\ Alive(p)
      /\ died' = [died EXCEPT ![p] = clock]
      /\ UNCHANGED <<clock, born, stream, cur, state, books>>
  BY DEF Exits, Acting, Machine
<1>2. coming \subseteq coming' /\ \A m \in coming' \ coming : m = [what |-> "stop", of |-> p, ts |-> clock]
  BY DEF Exits, Log
<1>3. clock \in Nat /\ born[p] # Unborn /\ died[p] = Unborn /\ born[p] <= clock
  BY <1>1 DEF AInv, MachineOK, Alive
<1>4. died' \in [Procs -> Nat \cup {Unborn}] /\ died'[p] = clock /\ \A q \in Procs : q # p => died'[q] = died[q]
  BY <1>1, <1>3 DEF AInv, MachineOK
<1>5. MachineOK'
  BY <1>1, <1>3, <1>4 DEF AInv, MachineOK
<1>6. PidsOK'
  <2>1. \A q, r \in Procs : Before(q, r) => Before(q, r)'
    BY <1>1, <1>3, <1>4 DEF Before
  <2> QED BY <1>1, <2>1 DEF AInv, PidsOK
<1>7. There(p, clock)'
  BY <1>1, <1>3, <1>4 DEF There
<1>8. clock # Unborn
  BY <1>3 DEF Unborn
<1>9. ASSUME NEW m \in coming' \ coming PROVE EventOK(m)' /\ m.ts = clock /\ (m.what = "start" => born[m.of] = Unborn)
  <2>1. m.what = "stop" /\ m.of = p /\ m.ts = clock /\ m = [what |-> m.what, of |-> m.of, ts |-> m.ts]
    BY <1>2, <1>9
  <2> QED BY <1>1, <1>3, <1>4, <1>7, <1>8, <2>1 DEF EventOK
<1> QED BY <1>1, <1>2, <1>3, <1>4, <1>5, <1>6, <1>9, MachineInv

\* A process does something while it runs.
LEMMA ActsInv == ASSUME AInv, NEW p \in Procs, NEW a \in Doing, Acts(p, a) PROVE AInv'
<1>1. /\ cur = Resting /\ Alive(p) /\ UNCHANGED <<clock, born, died, stream, cur, state, books>>
  BY DEF Acts, Acting, Machine
<1>2. coming \subseteq coming' /\ \A m \in coming' \ coming : m = [what |-> a, of |-> p, ts |-> clock]
  BY DEF Acts, Log
<1>3. clock \in Nat /\ MachineOK' /\ PidsOK'
  BY <1>1 DEF AInv, MachineOK, PidsOK, Before
<1>4. There(p, clock)'
  BY <1>1 DEF There, Alive, AInv, MachineOK
<1>5. a \notin {"start", "classic", "stop", "dcstart"}
  BY ActorsAssumption
<1>6. ASSUME NEW m \in coming' \ coming PROVE EventOK(m)' /\ m.ts = clock /\ (m.what = "start" => born[m.of] = Unborn)
  <2>1. m.what = a /\ m.of = p /\ m.ts = clock /\ m = [what |-> m.what, of |-> m.of, ts |-> m.ts]
    BY <1>2, <1>6
  <2> QED BY <1>1, <1>3, <1>4, <1>5, <2>1 DEF EventOK
<1> QED BY <1>1, <1>2, <1>3, <1>6, MachineInv

\* Time passes.
LEMMA PassesInv == ASSUME AInv, Passes PROVE AInv'
<1>1. cur = Resting /\ clock' = clock + 1 /\ UNCHANGED <<born, died, coming, stream, cur, state, books>>
  BY DEF Passes, Machine
<1>2. clock \in Nat /\ clock <= clock'
  BY <1>1 DEF AInv, MachineOK
<1>3. MachineOK'
  <2>1. \A q \in Procs : born'[q] <= clock' /\ (died'[q] # Unborn => died'[q] <= clock')
    <3>1. SUFFICES ASSUME NEW q \in Procs PROVE born[q] <= clock + 1 /\ (died[q] # Unborn => died[q] <= clock + 1)
      BY <1>1
    <3>2. born[q] \in Int /\ died[q] \in Int /\ born[q] <= clock /\ (died[q] # Unborn => died[q] <= clock)
      BY DEF AInv, MachineOK, Unborn
    <3> QED BY <1>2, <3>2
  <2>2. clock' \in Nat /\ (stream <= clock => stream <= clock') /\ stream \in Int
    BY <1>1, <1>2 DEF AInv, MachineOK
  <2> QED BY <1>1, <2>1, <2>2 DEF AInv, MachineOK
<1>4. PidsOK'
  BY <1>1 DEF AInv, PidsOK, Before
<1> QED BY <1>1, <1>2, <1>3, <1>4, MachineInv

-----------------------------------------------------------------------------
(* The theorems                                                              *)

\* The first cache has the built-in process only.
LEMMA InitInv == Init => AInv
<1> SUFFICES ASSUME Init PROVE AInv
  OBVIOUS
<1>1. PICK running \in SUBSET MayRun :
        /\ born = [p \in Procs |-> IF p \in running \cup {IdleProc} THEN 0 ELSE Unborn]
        /\ coming = {[what |-> "dcstart", of |-> p, ts |-> 0] : p \in running}
  BY DEF Init
<1>2. /\ clock = 0 /\ died = [p \in Procs |-> Unborn] /\ stream = -1 /\ nextSweep = 0 /\ cur = Resting
      /\ procs = Insert(EmptyCache, IdleProc, {}, Always)
      /\ kernel = NoHalf /\ classic = NoHalf /\ launches = <<>> /\ net = NoNetwork
      /\ balance = [k \in Procs \X Ends |-> 0] /\ blamed = {} /\ mistaken = {}
  BY DEF Init
<1>3. IdleProc \in Procs /\ MayRun \subseteq Procs
  BY ActorsAssumption
<1>4. MachineOK
  BY <1>1, <1>2, <1>3 DEF MachineOK, Unborn
<1>5. PidsOK
  BY <1>1, <1>3, ActorsAssumption DEF PidsOK
<1>6. EventsOK
  <2>1. UnderWay = coming /\ cur.what # "start"
    BY <1>2 DEF UnderWay, Rests, Resting, At
  <2>2. ASSUME NEW m \in coming PROVE EventOK(m) /\ ~(m.ts < stream)
    <3>1. PICK p \in running : m = [what |-> "dcstart", of |-> p, ts |-> 0]
      BY <1>1, <2>2
    <3> QED BY <1>1, <1>2, <1>3, <3>1 DEF EventOK, There, Unborn
  <2> QED BY <2>1, <2>2 DEF EventsOK
<1>7. HalvesOK
  BY <1>2 DEF HalvesOK, NoHalf, Waiting
<1>8. PICK e : e = EmptyCache
  OBVIOUS
<1>9. CacheOK(e) /\ Capped(e) /\ Cached(e) = {}
  <2>1. Cached(e) = {} /\ e.byPid = [i \in Pids |-> {}] /\ e.added = {} /\ e.touched = {}
    BY <1>8 DEF EmptyCache, Cached
  <2>2. CacheOK(e)
    BY <1>8, <2>1, FS_EmptySet DEF CacheOK, EmptyCache, Strict, Ordered, Cached
  <2> QED BY <2>1, <2>2, FS_EmptySet, CacheAssumption DEF Capped
<1>10. PICK new : new = Fitting
  OBVIOUS
<1>11. <<IdleProc, Always>> \in new
  BY <1>1, <1>2, <1>3, <1>10 DEF Fitting, Fits, Always, Unborn
<1>12. CacheOK(procs) /\ Capped(procs) /\ Becomes(e, procs, new)
  BY <1>2, <1>3, <1>8, <1>9, <1>11, InsertOK DEF Always
<1>13. EntriesOK
  BY <1>9, <1>10, <1>12 DEF EntriesOK, Becomes, Fitting
<1>14. LaunchesOK
  BY <1>2 DEF LaunchesOK
<1>15. NetOK
  BY <1>2, FS_EmptySet, NetworkAssumption DEF NetOK, TablesKept, Balanced, NoNetwork, Resting, At
<1> QED BY <1>2, <1>4, <1>5, <1>6, <1>7, <1>12, <1>13, <1>14, <1>15 DEF AInv, BlamedRight

\* No step breaks the invariant.
LEMMA NextInv == AInv /\ [Next]_vars => AInv'
<1> SUFFICES ASSUME AInv, [Next]_vars PROVE AInv'
  OBVIOUS
<1>1. ASSUME NEW p \in Procs, Starts(p) \/ Exits(p) PROVE AInv'
  BY <1>1, StartsInv, ExitsInv
<1>2. ASSUME NEW p \in Procs, NEW a \in Doing, Acts(p, a) PROVE AInv'
  BY <1>2, ActsInv
<1>3. ASSUME NEW m \in coming, Take(m) PROVE AInv'
  BY <1>3, TakeInv
<1>4. CASE Passes \/ Advance \/ Sweep \/ Stop \/ StopEnds
  BY <1>4, PassesInv, AdvanceInv, SweepInv, StopInv, StopEndsInv
<1>5. ASSUME NEW key, NEW live, ProcessStart(key, live) PROVE AInv'
  BY <1>5, ProcessStartInv
<1>6. ASSUME NEW live, Rundown(live) \/ Call(live) PROVE AInv'
  BY <1>6, RundownInv, CallInv
<1>7. CASE ClassicStart \/ ProcessStop
  BY <1>7, ClassicStartInv, ProcessStopInv
<1>8. ASSUME NEW end \in Ends, Tcp(end) \/ Udp(end) PROVE AInv'
  BY <1>8, TcpInv, UdpInv
<1>9. ASSUME NEW pid \in Pids, NEW live \in LiveAnswers(pid), NEW key, ExpireClassic(pid, live, key) PROVE AInv'
  BY <1>9, ExpireClassicInv
<1>10. ASSUME NEW i \in DOMAIN launches, NEW live, Leaves(i, live) PROVE AInv'
  BY <1>10, LeavesInv
<1>11. CASE UNCHANGED vars
  <2>1. UNCHANGED <<clock, born, died, acted, stream, coming, cur, procs, kernel, classic, launches, net, balance, blamed, mistaken>>
    BY <1>11 DEF vars, machine, state, books
  <2>2. MachineOK' /\ PidsOK' /\ EventsOK' /\ UnderWay' \subseteq UnderWay
    BY <2>1, EventsStep DEF AInv, machine, vars
  <2>3. UNCHANGED <<kernel, classic, launches>> /\ mistaken \subseteq mistaken' /\ UNCHANGED <<clock, born, died>>
    BY <2>1
  <2>4. CacheOK(procs') /\ Capped(procs') /\ Becomes(procs, procs', Fitting') /\ BlamedRight' /\ NetOK'
    BY <2>1 DEF AInv, Becomes, BlamedRight, NetOK, Balanced
  <2> QED BY <2>2, <2>3, <2>4, AddsInv
<1> QED BY <1>1, <1>2, <1>3, <1>4, <1>5, <1>6, <1>7, <1>8, <1>9, <1>10, <1>11 DEF Next, Stopped

\* The invariant of the tables, the machine and the events in between.
THEOREM ActorsInvariant == Spec => []AInv
BY InitInv, NextInv, PTL DEF Spec

\* TablesOK: the cache's index, orders and cap, the network's tables and caps,
\* one Close for every UDP Open (process.rs, pipeline/net.rs).
THEOREM TablesAlwaysOK == Spec => []TablesOK
<1>1. AInv => TablesOK
  <2> SUFFICES ASSUME AInv PROVE TablesOK
    OBVIOUS
  <2>1. ActorsTypeOK
    BY DEF ActorsTypeOK, AInv, CacheOK, Capped, NetOK, TablesKept
  <2>2. OpensClosed
    BY DEF OpensClosed, AInv, NetOK, Balanced
  <2> QED BY <2>1, <2>2 DEF TablesOK
<1> QED BY <1>1, ActorsInvariant, PTL

\* BlamedRight: no event is blamed on a process that had the PID before or
\* after the one that acted, if the cache knew that one (actor_sync,
\* actor_payload).
THEOREM BlamedAlwaysRight == Spec => []BlamedRight
<1>1. AInv => BlamedRight
  BY DEF AInv
<1> QED BY <1>1, ActorsInvariant, PTL

\* OneLaunch: a process gets one Launch and its own command line, as long as a
\* PID rests for the join window (on_process_start, on_classic, launch_expiry).
THEOREM LaunchedOnce ==
  ASSUME JoinWindow <= PidRest
  PROVE  Spec => []OneLaunch
<1>1. AInv => OneLaunch
  BY DEF AInv, LaunchesOK, OneLaunch
<1> QED BY <1>1, ActorsInvariant, PTL
=============================================================================
