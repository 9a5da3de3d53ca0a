--------------------------- MODULE PipelineProofs ---------------------------
(* Proofs about Pipeline, for any events, caps, holds, windows and deadlines:  *)
(* the events are processed by time and emitted as they were produced, the     *)
(* oldest pending ones are forced (OrderKept), and what waits leaves in time,  *)
(* with its books, and before the stop ends (PendingOK).                       *)
EXTENDS Pipeline, SequenceTheorems, FiniteSetTheorems, WellFoundedInduction, TLAPS

-----------------------------------------------------------------------------
(* Positions in a sequence without repetitions                               *)

At(s, e) == CHOOSE i \in DOMAIN s : s[i] = e
Distinct(s) == \A i, j \in DOMAIN s : s[i] = s[j] => i = j

\* t has N elements of s, those at the positions in I, in order: pos.
Picks(t, s, I, N, pos) ==
    /\ pos \in [1..N -> I] /\ DOMAIN t = 1..N
    /\ \A k \in 1..N : t[k] = s[pos[k]]
    /\ \A k, l \in 1..N : k < l => pos[k] < pos[l]
    /\ \A i \in I : \E k \in 1..N : pos[k] = i

-----------------------------------------------------------------------------
(* The completion stage                                                      *)

Wait == [reason : {"enrich", "expand", "confirm"}, deadline : Int, drop : BOOLEAN]
Slot == [ev : Events, ready : BOOLEAN]
CompType == [line : Seq(Slot), pending : SUBSET Events, waits : [Events -> SUBSET Wait],
             forced : SUBSET Events, order : Seq(Events), exited : SUBSET Events]

\* The line is in the order of m, and a pending event has its slot.
LineKept(c, m) ==
    /\ \A i \in DOMAIN c.line : c.line[i].ev \in ToSet(m)
    /\ \A i, j \in DOMAIN c.line : i < j => At(m, c.line[i].ev) < At(m, c.line[j].ev)
    /\ \A e \in c.pending : \E i \in DOMAIN c.line : c.line[i] = [ev |-> e, ready |-> FALSE]
\* The order queue has every pending event that may still be forced, in the
\* order of m and behind the forced ones.
OverflowKept(c, m) ==
    /\ c.exited \subseteq ToSet(m) /\ c.exited \cap c.pending = {} /\ c.forced \subseteq c.pending
    /\ \A i \in DOMAIN c.order : c.order[i] \in ToSet(m)
    /\ \A i, j \in DOMAIN c.order : i < j => At(m, c.order[i]) < At(m, c.order[j])
    /\ c.pending \ c.forced \subseteq ToSet(c.order)
    /\ \A f \in c.forced : \A i \in DOMAIN c.order : At(m, f) < At(m, c.order[i])
    /\ IsFiniteSet(c.pending)
CapKept(c) == Cardinality(c.pending \ c.forced) <= PendingCap
CompOK(c, m) == c \in CompType /\ LineKept(c, m) /\ OverflowKept(c, m) /\ CapKept(c)

-----------------------------------------------------------------------------
(* The invariant                                                             *)

HeldType == [ts : Nat, seq : Nat, ev : Events]
OperationType == [ev : Events, ts : Nat, irp : Irps, live : BOOLEAN]
Fates == {"new", "refused", "queued", "made", "used"} \cup Left
Requests == Events \X (0..2)

Types ==
    /\ clock \in Nat /\ now \in Nat /\ stream \in Int /\ now <= clock /\ clock < Forever
    /\ queue \in [Queues -> Seq(Events)] /\ closed \subseteq Queues /\ open \subseteq Queues
    /\ \A q \in Queues : Len(queue[q]) <= QueueCap[q]
    /\ pc \in Queues \cup {"replies", "release", "process", "done"}
    /\ back \in Queues \cup {"release", None} /\ cur \in Events \cup {None}
    /\ room \in Nat /\ stopping \in BOOLEAN
    /\ ord \in [held : SUBSET HeldType, seq : Nat, last : Int]
    /\ files = [held |-> files.held, latest |-> files.latest, failed |-> files.failed,
                confirmed |-> files.confirmed]
    /\ files.held \in Seq(OperationType) /\ files.latest \in [Irps -> Events \cup {None}]
    /\ enrich \subseteq Events /\ slots \subseteq Events \X {1, 2}
    /\ requests \subseteq Requests /\ asked \subseteq Requests
    /\ replies \subseteq [to : Requests, matches : BOOLEAN]
    /\ fate \in [Events -> Fates] /\ since \in [Events -> Nat]
    /\ made \in Seq(Events) /\ sink \in Seq(Events)

\* Where the thread may be.
Control ==
    /\ pc = "process" => cur \in Events /\ back \in Queues \cup {"release"}
    /\ pc # "process" => cur = None
    /\ stopping => pc \in {"replies", "release", "done"} \/ (pc = "process" /\ back = "release")
    /\ pc = "done" => stopping
    /\ pc = "kernel" => room <= QueueCap["kernel"]
    /\ pc = "process" /\ back = "kernel" => room < QueueCap["kernel"]

\* An event is queued in one place: its queue, the ordering stage or in process.
InQueue(e) == \E q \in Queues : e \in ToSet(queue[q])
InHeld(e) == \E h \in ord.held : h.ev = e
Queued ==
    /\ \A q \in Queues : Distinct(queue[q]) /\ \A e \in ToSet(queue[q]) : QueueOf(e) = q
    /\ \A h \in ord.held : h.ts = Ts(h.ev)
    /\ \A g, h \in ord.held : g.ev = h.ev => g = h
    /\ \A e \in Events : fate[e] = "queued" <=> InQueue(e) \/ InHeld(e) \/ e = cur
    /\ \A e \in Events : ~(InQueue(e) /\ InHeld(e)) /\ ~(InQueue(e) /\ e = cur) /\ ~(InHeld(e) /\ e = cur)

\* An event is made once, and one not yet gone is in the line.
MadeOnce ==
    /\ Distinct(made)
    /\ \A e \in ToSet(made) : fate[e] \in {"made"} \cup Left
    /\ \A irp \in Irps : files.latest[irp] # None => files.latest[irp] \in ToSet(made)
    /\ \A e \in Events : fate[e] = "made" =>
         \E i \in DOMAIN comp.line : comp.line[i].ev = e /\ (comp.line[i].ready \/ e \in comp.pending)

\* The sink, k, has what was made before the line, in order.
SinkOK(k, c, m) ==
    /\ \A i \in DOMAIN k : k[i] \in ToSet(m)
    /\ \A i, j \in DOMAIN k : i < j => At(m, k[i]) < At(m, k[j])
    /\ \A i \in DOMAIN k, j \in DOMAIN c.line : At(m, k[i]) < At(m, c.line[j].ev)
SinkKept == SinkOK(sink, comp, made)

\* Stream time is the hold behind, and the ordering stage is not behind it.
TimeKept ==
    /\ ~stopping => stream = Never \/ stream + Hold <= now
    /\ ~stopping => ord.last = Never \/ ord.last + Hold <= now
    /\ \A h \in ord.held : h.ts >= stream /\ h.ts >= ord.last
    /\ pc # "done" => stream < Forever
    /\ StreamOrder

\* A wait without a deadline is for an operation in its window.
WaitKept(e, w) ==
    IF w.deadline = NoDeadline
    THEN w.reason = "confirm" /\ \E k \in DOMAIN files.held : files.held[k].ev = e /\ files.held[k].live
    ELSE w.deadline <= since[e] + MayWait
\* What still is in its window closes it after one before it, or came late.
InWindow(k) ==
    \/ \E j \in 1..k : files.held[j].ts + Window > stream
    \/ since[files.held[k].ev] >= stream + Hold
HeldKept ==
    /\ \A k \in DOMAIN files.held : files.held[k].ev \in ToSet(made) /\ files.held[k].ts = Ts(files.held[k].ev)
    /\ \A j, k \in DOMAIN files.held : j < k => At(made, files.held[j].ev) < At(made, files.held[k].ev)
SinceKept ==
    /\ \A i \in DOMAIN comp.line : since[comp.line[i].ev] <= now
    /\ \A i, j \in DOMAIN comp.line : i < j => since[comp.line[i].ev] <= since[comp.line[j].ev]
WaitsKept ==
    /\ HeldKept /\ SinceKept
    /\ \A e \in comp.pending : \A w \in comp.waits[e] : WaitKept(e, w)
    /\ ~stopping => \A k \in DOMAIN files.held : files.held[k].ev \in comp.pending => InWindow(k)

\* A queue that a pass found closed is empty and stays so.
Passed(q) ==
    \/ pc \in {"replies", "release"} \/ (pc = "process" /\ back = "release")
    \/ q = "kernel" /\ (pc = "user" \/ (pc = "process" /\ back = "user"))
StopKept ==
    /\ ~stopping => \A q \in Queues : Passed(q) /\ q \notin open => q \in closed /\ queue[q] = <<>>
    /\ stopping => \A q \in Queues : q \in closed /\ queue[q] = <<>>

PInv ==
    /\ Types /\ Control /\ Queued /\ CompOK(comp, made) /\ MadeOnce /\ SinkKept /\ TimeKept /\ WaitsKept
    /\ StopKept /\ BooksOfPending /\ LeavesInTime /\ CleanStop

-----------------------------------------------------------------------------
(* Numbers, sequences and what is taken from them                            *)

\* A set of numbers has a least one.
LEMMA LeastOf ==
  ASSUME NEW S \in SUBSET Nat, S # {}
  PROVE  \E m \in S : \A y \in S : m <= y
<1>1. PICK x \in S : TRUE
  OBVIOUS
<1>2. IsWellFoundedOn(OpToRel(<, Nat), Nat)
  BY NatLessThanWellFounded
<1>3. PICK m \in S : \A y \in S : ~(<<y, m>> \in OpToRel(<, Nat))
  BY <1>1, <1>2, WFMin
<1>4. ASSUME NEW y \in S PROVE m <= y
  <2>1. ~(y < m)
    BY <1>3 DEF OpToRel
  <2> QED BY <2>1
<1> QED BY <1>4

\* The first of the numbers up to n with a property that the last one has:
\* the positions where Due, Drainable and After stop.
LEMMA FirstUpTo ==
  ASSUME NEW n \in Nat, NEW S \in SUBSET (1..n)
  PROVE  \E k \in 0..n : (\A i \in 1..k : i \notin S) /\ (k < n => k + 1 \in S)
<1>1. CASE S = {}
  BY <1>1
<1>2. CASE S # {}
  <2>1. PICK m \in S : \A y \in S : m <= y
    BY <1>2, LeastOf
  <2>2. m - 1 \in 0..n /\ (\A i \in 1..m - 1 : i \notin S) /\ (m - 1 < n => (m - 1) + 1 \in S)
    BY <2>1
  <2> QED BY <2>2
<1> QED BY <1>1, <1>2

\* The position of an element.
LEMMA AtFacts ==
  ASSUME NEW s, NEW e \in ToSet(s)
  PROVE  At(s, e) \in DOMAIN s /\ s[At(s, e)] = e
BY DEF At, ToSet

\* It is the only one, if nothing repeats.
LEMMA AtOf ==
  ASSUME NEW s, Distinct(s), NEW i \in DOMAIN s
  PROVE  At(s, s[i]) = i /\ s[i] \in ToSet(s)
<1>1. s[i] \in ToSet(s)
  BY DEF ToSet
<1>2. At(s, s[i]) \in DOMAIN s /\ s[At(s, s[i])] = s[i]
  BY <1>1, AtFacts
<1> QED BY <1>1, <1>2 DEF Distinct

\* The elements of a sequence.
LEMMA ToSetType ==
  ASSUME NEW S, NEW s \in Seq(S)
  PROVE  ToSet(s) \subseteq S
<1> SUFFICES ASSUME NEW x \in ToSet(s) PROVE x \in S
  OBVIOUS
<1>1. PICK i \in DOMAIN s : x = s[i]
  BY DEF ToSet
<1>2. DOMAIN s = 1..Len(s) /\ \A j \in 1..Len(s) : s[j] \in S
  OBVIOUS
<1> QED BY <1>1, <1>2

\* The first element leaves.
LEMMA TailFacts ==
  ASSUME NEW s \in Seq(Events), s # <<>>, Distinct(s)
  PROVE  /\ Head(s) \in ToSet(s) /\ Head(s) \in Events /\ Tail(s) \in Seq(Events)
         /\ Len(Tail(s)) <= Len(s) /\ Distinct(Tail(s))
         /\ ToSet(Tail(s)) = ToSet(s) \ {Head(s)}
<1>1. /\ Len(s) \in Nat \ {0} /\ DOMAIN s = 1..Len(s) /\ Head(s) = s[1]
      /\ Tail(s) \in Seq(Events) /\ Len(Tail(s)) = Len(s) - 1 /\ DOMAIN Tail(s) = 1..Len(s) - 1
      /\ \A i \in 1..Len(s) - 1 : Tail(s)[i] = s[i + 1]
  OBVIOUS
<1>2. \A i \in 1..Len(s) - 1 : i + 1 \in DOMAIN s
  BY <1>1
<1>3. Head(s) \in ToSet(s) /\ Head(s) \in Events
  BY <1>1 DEF ToSet
<1>4. Distinct(Tail(s))
  <2> SUFFICES ASSUME NEW i \in 1..Len(s) - 1, NEW j \in 1..Len(s) - 1, Tail(s)[i] = Tail(s)[j] PROVE i = j
    BY <1>1 DEF Distinct
  <2>1. i + 1 = j + 1
    BY <1>1, <1>2 DEF Distinct
  <2> QED BY <1>1, <2>1
<1>5. ASSUME NEW x \in ToSet(Tail(s)) PROVE x \in ToSet(s) /\ x # Head(s)
  <2>1. PICK i \in 1..Len(s) - 1 : Tail(s)[i] = x
    BY <1>1 DEF ToSet
  <2>2. s[i + 1] = x /\ i + 1 \in DOMAIN s /\ i + 1 # 1
    BY <1>1, <1>2, <2>1
  <2>3. 1 \in DOMAIN s
    BY <1>1
  <2> QED BY <1>1, <2>2, <2>3 DEF ToSet, Distinct
<1>6. ASSUME NEW x \in ToSet(s), x # Head(s) PROVE x \in ToSet(Tail(s))
  <2>1. PICK i \in 1..Len(s) : s[i] = x
    BY <1>1 DEF ToSet
  <2>2. i # 1
    BY <1>1, <1>6, <2>1
  <2>3. i - 1 \in 1..Len(s) - 1 /\ (i - 1) + 1 = i
    BY <1>1, <2>2
  <2>4. Tail(s)[i - 1] = x
    BY <1>1, <2>1, <2>3
  <2> QED BY <1>1, <2>3, <2>4 DEF ToSet
<1>7. Len(Tail(s)) <= Len(s)
  BY <1>1
<1> QED BY <1>1, <1>3, <1>4, <1>5, <1>6, <1>7

\* One more element leaves the others where they are.
LEMMA AtAppend ==
  ASSUME NEW s \in Seq(Events), Distinct(s), NEW e \in Events, e \notin ToSet(s)
  PROVE  /\ Distinct(Append(s, e)) /\ ToSet(Append(s, e)) = ToSet(s) \cup {e}
         /\ \A x \in ToSet(s) : At(Append(s, e), x) = At(s, x) /\ At(s, x) \in 1..Len(s)
         /\ At(Append(s, e), e) = Len(s) + 1
<1> DEFINE t == Append(s, e)
<1>1. t \in Seq(Events) /\ Len(t) = Len(s) + 1 /\ DOMAIN t = 1..Len(s) + 1 /\ DOMAIN s = 1..Len(s)
  OBVIOUS
<1>2. \A i \in 1..Len(s) : t[i] = s[i]
  OBVIOUS
<1>3. t[Len(s) + 1] = e
  OBVIOUS
<1>4. \A i \in DOMAIN s : s[i] # e
  BY DEF ToSet
<1> HIDE DEF t
<1>5. Distinct(t)
  BY <1>1, <1>2, <1>3, <1>4 DEF Distinct
<1>6. ToSet(t) = ToSet(s) \cup {e}
  BY <1>1, <1>2, <1>3 DEF ToSet
<1>7. ASSUME NEW x \in ToSet(s) PROVE At(t, x) = At(s, x) /\ At(s, x) \in 1..Len(s)
  <2>1. At(s, x) \in 1..Len(s) /\ s[At(s, x)] = x
    BY AtFacts, <1>1
  <2>2. t[At(s, x)] = x /\ At(s, x) \in DOMAIN t
    BY <2>1, <1>1, <1>2
  <2>3. At(t, t[At(s, x)]) = At(s, x)
    BY <2>2, <1>5, AtOf
  <2> QED BY <2>1, <2>2, <2>3
<1>8. At(t, e) = Len(s) + 1
  <2>1. Len(s) + 1 \in DOMAIN t
    BY <1>1
  <2> QED BY <2>1, <1>3, <1>5, AtOf
<1> QED BY <1>5, <1>6, <1>7, <1>8 DEF t

\* Taken picks the elements at the positions in I, each once and in order.
LEMMA TakenFacts ==
  ASSUME NEW n \in Nat, NEW s, NEW I \in SUBSET (1..n), 1..n \subseteq DOMAIN s
  PROVE  Cardinality(I) \in Nat /\ \E pos : Picks(Taken(s, I), s, I, Cardinality(I), pos)
<1> DEFINE upto(i) == {j \in I : j <= i}
           c == Cardinality(I)
           rank == [i \in I |-> Cardinality(upto(i))]
           pos == [k \in 1..c |-> CHOOSE i \in I : Cardinality(upto(i)) = k]
<1>1. IsFiniteSet(I)
  <2>1. IsFiniteSet(1..n)
    BY FS_Interval
  <2> QED BY <2>1, FS_Subset
<1>2. c \in Nat
  BY <1>1, FS_CardinalityType
<1>3. \A i \in I : IsFiniteSet(upto(i)) /\ Cardinality(upto(i)) \in 1..c
  <2> SUFFICES ASSUME NEW i \in I PROVE IsFiniteSet(upto(i)) /\ Cardinality(upto(i)) \in 1..c
    OBVIOUS
  <2>1. upto(i) \in SUBSET I
    OBVIOUS
  <2>2. IsFiniteSet(upto(i)) /\ Cardinality(upto(i)) <= c
    BY <1>1, <2>1, FS_Subset
  <2>3. upto(i) # {}
    OBVIOUS
  <2>4. Cardinality(upto(i)) # 0 /\ Cardinality(upto(i)) \in Nat
    BY <2>2, <2>3, FS_EmptySet, FS_CardinalityType
  <2> QED BY <1>2, <2>2, <2>4
<1>4. ASSUME NEW i \in I, NEW j \in I, i < j PROVE rank[i] < rank[j]
  <2>1. upto(i) \in SUBSET upto(j) /\ j \in upto(j) /\ j \notin upto(i)
    <3>1. \A x \in I : x <= i => x <= j
      BY <1>4
    <3>2. ~(j <= i) /\ j <= j
      BY <1>4
    <3> QED BY <3>1, <3>2
  <2>2. IsFiniteSet(upto(j)) /\ Cardinality(upto(i)) \in Nat /\ Cardinality(upto(j)) \in Nat
    BY <1>3
  <2>3. Cardinality(upto(i)) <= Cardinality(upto(j)) /\ Cardinality(upto(j)) # Cardinality(upto(i))
    BY <2>1, <2>2, FS_Subset
  <2> QED BY <2>2, <2>3
<1>5. rank \in [I -> 1..c] /\ I \subseteq Nat
  BY <1>3
<1> HIDE DEF rank
<1>6. \A i, j \in I : rank[i] = rank[j] => i = j
  <2> SUFFICES ASSUME NEW i \in I, NEW j \in I, rank[i] = rank[j] PROVE i = j
    OBVIOUS
  <2>1. ~(i < j) /\ ~(j < i)
    BY <1>4, <1>5
  <2> QED BY <2>1, <1>5
<1>7. rank \in Injection(I, 1..c)
  BY <1>5, <1>6 DEF Injection, IsInjective
<1>8. Cardinality(1..c) = c /\ IsFiniteSet(1..c)
  BY <1>2, FS_Interval
<1>9. rank \in Surjection(I, 1..c)
  BY <1>7, <1>8, FS_Injection
<1>10. \A k \in 1..c : \E i \in I : rank[i] = k
  BY <1>9 DEF Surjection
<1>11. \A k \in 1..c : pos[k] \in I /\ rank[pos[k]] = k
  BY <1>10 DEF rank
<1>12. pos \in [1..c -> I] /\ \A k \in 1..c : Taken(s, I)[k] = s[pos[k]]
  <2>1. pos \in [1..c -> I]
    BY <1>11
  <2>2. Taken(s, I) = [k \in 1..c |-> s[pos[k]]]
    BY DEF Taken
  <2> QED BY <2>1, <2>2
<1>13. \A k, l \in 1..c : k < l => pos[k] < pos[l]
  <2> SUFFICES ASSUME NEW k \in 1..c, NEW l \in 1..c, k < l PROVE pos[k] < pos[l]
    OBVIOUS
  <2>1. rank[pos[k]] = k /\ rank[pos[l]] = l /\ pos[k] \in I /\ pos[l] \in I
    BY <1>11
  <2> HIDE DEF pos
  <2>2. pos[k] # pos[l] /\ pos[k] \in Nat /\ pos[l] \in Nat
    <3>1. k # l
      BY <1>2
    <3> QED BY <3>1, <2>1, <1>5
  <2>3. ~(pos[l] < pos[k])
    <3>1. pos[l] < pos[k] => rank[pos[l]] < rank[pos[k]]
      BY <2>1, <1>4
    <3> QED BY <3>1, <2>1
  <2> QED BY <2>2, <2>3
<1>14. \A i \in I : \E k \in 1..c : pos[k] = i
  <2> SUFFICES ASSUME NEW i \in I PROVE \E k \in 1..c : pos[k] = i
    OBVIOUS
  <2>1. rank[i] \in 1..c
    BY <1>5
  <2>2. pos[rank[i]] \in I /\ rank[pos[rank[i]]] = rank[i]
    BY <2>1, <1>11
  <2> QED BY <2>1, <2>2, <1>6
<1>15. DOMAIN Taken(s, I) = 1..c
  BY DEF Taken
<1> HIDE DEF pos
<1>16. Picks(Taken(s, I), s, I, c, pos)
  BY <1>12, <1>13, <1>14, <1>15 DEF Picks
<1> QED BY <1>2, <1>16

-----------------------------------------------------------------------------
(* The operators of the completion stage                                     *)

\* The events of m have positions.
LEMMA AtNat ==
  ASSUME NEW m \in Seq(Events)
  PROVE  \A e \in ToSet(m) : At(m, e) \in Nat /\ At(m, e) <= Len(m)
<1> SUFFICES ASSUME NEW e \in ToSet(m) PROVE At(m, e) \in Nat /\ At(m, e) <= Len(m)
  OBVIOUS
<1>1. At(m, e) \in DOMAIN m
  BY AtFacts
<1>2. DOMAIN m = 1..Len(m) /\ Len(m) \in Nat
  OBVIOUS
<1> QED BY <1>1, <1>2

\* The stage is the record of its six fields.
LEMMA CompFields ==
  ASSUME NEW c \in CompType
  PROVE  c = [line |-> c.line, pending |-> c.pending, waits |-> c.waits, forced |-> c.forced,
              order |-> c.order, exited |-> c.exited]
BY DEF CompType

\* Pending events have been made.
LEMMA PendingMade ==
  ASSUME NEW c, NEW m, LineKept(c, m)
  PROVE  c.pending \subseteq ToSet(m)
<1> SUFFICES ASSUME NEW e \in c.pending PROVE e \in ToSet(m)
  OBVIOUS
<1>1. PICK i \in DOMAIN c.line : c.line[i] = [ev |-> e, ready |-> FALSE]
  BY DEF LineKept
<1>2. c.line[i].ev = e
  BY <1>1
<1>3. c.line[i].ev \in ToSet(m)
  BY DEF LineKept
<1> QED BY <1>2, <1>3

\* The slots are of events.
LEMMA LineEvents ==
  ASSUME NEW c, NEW m, CompOK(c, m)
  PROVE  /\ c.line \in Seq(Slot) /\ Len(c.line) \in Nat /\ DOMAIN c.line = 1..Len(c.line)
         /\ \A i \in DOMAIN c.line : c.line[i].ev \in Events
<1>1. c.line \in Seq(Slot)
  BY DEF CompOK, CompType
<1>2. Len(c.line) \in Nat /\ DOMAIN c.line = 1..Len(c.line) /\ \A i \in DOMAIN c.line : c.line[i] \in Slot
  BY <1>1
<1> QED BY <1>1, <1>2 DEF Slot

\* A new slot at the end of the line.
LEMMA LineAppend ==
  ASSUME NEW c, c \in CompType, NEW m \in Seq(Events), Distinct(m), LineKept(c, m),
         NEW e \in Events, e \notin ToSet(m), NEW slot \in Slot, slot.ev = e
  PROVE  LET line == Append(c.line, slot) IN
         /\ line \in Seq(Slot) /\ Len(line) = Len(c.line) + 1
         /\ \A i \in 1..Len(c.line) : line[i] = c.line[i]
         /\ line[Len(c.line) + 1] = slot
         /\ \A i \in DOMAIN line : line[i].ev \in ToSet(Append(m, e))
         /\ \A i, j \in DOMAIN line : i < j => At(Append(m, e), line[i].ev) < At(Append(m, e), line[j].ev)
<1> DEFINE line == Append(c.line, slot)
<1>1. c.line \in Seq(Slot)
  BY DEF CompType
<1> DEFINE L == Len(c.line)
<1>2. line \in Seq(Slot) /\ Len(line) = L + 1 /\ L \in Nat /\ DOMAIN line = 1..L + 1 /\ DOMAIN c.line = 1..L
  BY <1>1
<1>3. \A i \in 1..L : line[i] = c.line[i]
  BY <1>1
<1>4. line[L + 1] = slot
  BY <1>1
<1>5. line[L + 1].ev = e
  BY <1>4
<1> HIDE DEF L, line
<1>6. /\ ToSet(Append(m, e)) = ToSet(m) \cup {e}
      /\ \A x \in ToSet(m) : At(Append(m, e), x) = At(m, x) /\ At(m, x) \in 1..Len(m)
      /\ At(Append(m, e), e) = Len(m) + 1
  BY AtAppend
<1>7. \A i \in 1..L : line[i].ev \in ToSet(m)
  BY <1>2, <1>3 DEF LineKept
<1>8. \A i, j \in 1..L : i < j => At(m, line[i].ev) < At(m, line[j].ev)
  BY <1>2, <1>3 DEF LineKept
<1>9. \A i \in DOMAIN line : line[i].ev \in ToSet(Append(m, e))
  BY <1>2, <1>5, <1>6, <1>7
<1>10. ASSUME NEW i \in 1..L + 1, NEW j \in 1..L + 1, i < j
       PROVE  At(Append(m, e), line[i].ev) < At(Append(m, e), line[j].ev)
  <2>1. i \in 1..L /\ line[i].ev \in ToSet(m) /\ Len(m) \in Nat
    BY <1>2, <1>7, <1>10
  <2>2. CASE j \in 1..L
    <3>1. At(m, line[i].ev) < At(m, line[j].ev) /\ line[j].ev \in ToSet(m)
      BY <1>7, <1>8, <1>10, <2>1, <2>2
    <3> QED BY <3>1, <1>6, <2>1
  <2>3. CASE j = L + 1
    <3>1. At(Append(m, e), line[i].ev) \in 1..Len(m)
      BY <1>6, <2>1
    <3>2. At(Append(m, e), line[j].ev) = Len(m) + 1
      BY <1>5, <1>6, <2>3
    <3>3. \A a \in 1..Len(m) : a < Len(m) + 1
      BY <2>1
    <3> QED BY <3>1, <3>2, <3>3
  <2> QED BY <1>2, <2>2, <2>3
<1> QED BY <1>2, <1>3, <1>4, <1>9, <1>10 DEF L, line

\* Completion::push keeps the line and the order queue.
LEMMA PushReadyFacts ==
  ASSUME NEW c, NEW m \in Seq(Events), Distinct(m), CompOK(c, m), NEW e \in Events, e \notin ToSet(m)
  PROVE  /\ CompOK(PushReady(c, e), Append(m, e))
         /\ PushReady(c, e).line = Append(c.line, [ev |-> e, ready |-> TRUE])
         /\ PushReady(c, e).pending = c.pending /\ PushReady(c, e).waits = c.waits
         /\ PushReady(c, e).exited = c.exited
<1> DEFINE d == PushReady(c, e)
<1>1. c \in CompType /\ LineKept(c, m) /\ OverflowKept(c, m) /\ CapKept(c)
  BY DEF CompOK
<1> DEFINE slot == [ev |-> e, ready |-> TRUE]
           line == Append(c.line, slot)
<1>20. d = [c EXCEPT !.line = line]
  BY DEF PushReady
<1>21. slot \in Slot /\ slot.ev = e
  BY DEF Slot
<1> HIDE DEF d, slot, line
<1>2. d = [line |-> line, pending |-> c.pending, waits |-> c.waits, forced |-> c.forced,
           order |-> c.order, exited |-> c.exited]
  BY <1>1, <1>20, CompFields
<1>22. /\ d.line = line /\ d.pending = c.pending /\ d.waits = c.waits /\ d.forced = c.forced
       /\ d.order = c.order /\ d.exited = c.exited
  BY <1>2
<1>23. d.line = Append(c.line, slot)
  BY <1>22 DEF line
<1>24. LET l == Append(c.line, slot) IN
       /\ l \in Seq(Slot) /\ Len(l) = Len(c.line) + 1
       /\ \A i \in 1..Len(c.line) : l[i] = c.line[i]
       /\ \A i \in DOMAIN l : l[i].ev \in ToSet(Append(m, e))
       /\ \A i, j \in DOMAIN l : i < j => At(Append(m, e), l[i].ev) < At(Append(m, e), l[j].ev)
  BY <1>1, <1>21, LineAppend
<1>3. /\ d.line \in Seq(Slot) /\ Len(d.line) = Len(c.line) + 1
      /\ \A i \in 1..Len(c.line) : d.line[i] = c.line[i]
      /\ \A i \in DOMAIN d.line : d.line[i].ev \in ToSet(Append(m, e))
      /\ \A i, j \in DOMAIN d.line : i < j => At(Append(m, e), d.line[i].ev) < At(Append(m, e), d.line[j].ev)
  BY <1>23, <1>24
<1>4. d \in CompType
  BY <1>1, <1>2, <1>22, <1>3 DEF CompType
<1>5. c.line \in Seq(Slot)
  BY <1>1 DEF CompType
<1>6. LineKept(d, Append(m, e))
  <2>1. ASSUME NEW x \in d.pending
        PROVE  \E i \in DOMAIN d.line : d.line[i] = [ev |-> x, ready |-> FALSE]
    <3>1. PICK i \in DOMAIN c.line : c.line[i] = [ev |-> x, ready |-> FALSE]
      BY <1>1, <1>22, <2>1 DEF LineKept
    <3>2. i \in DOMAIN d.line /\ d.line[i] = c.line[i]
      BY <1>3, <1>5, <3>1
    <3> QED BY <3>1, <3>2
  <2> QED BY <1>3, <2>1 DEF LineKept
<1>7. OverflowKept(d, Append(m, e)) /\ CapKept(d)
  <2>1. /\ ToSet(Append(m, e)) = ToSet(m) \cup {e}
        /\ \A x \in ToSet(m) : At(Append(m, e), x) = At(m, x)
    BY AtAppend
  <2>2. c.forced \subseteq ToSet(m)
    BY <1>1, PendingMade DEF OverflowKept
  <2>3. CapKept(d)
    BY <1>1, <1>22 DEF CapKept
  <2> QED BY <1>1, <1>22, <2>1, <2>2, <2>3 DEF OverflowKept
<1>8. CompOK(d, Append(m, e))
  BY <1>4, <1>6, <1>7 DEF CompOK
<1> QED BY <1>22, <1>8 DEF d, line, slot

\* An event at the end of the order queue.
LEMMA OrderAppend ==
  ASSUME NEW c \in CompType, NEW m \in Seq(Events), Distinct(m), OverflowKept(c, m), LineKept(c, m),
         NEW e \in Events, e \notin ToSet(m)
  PROVE  LET order == Append(c.order, e) IN
         /\ order \in Seq(Events)
         /\ \A i \in DOMAIN order : order[i] \in ToSet(Append(m, e))
         /\ \A i, j \in DOMAIN order : i < j => At(Append(m, e), order[i]) < At(Append(m, e), order[j])
         /\ ToSet(order) = ToSet(c.order) \cup {e}
         /\ \A f \in c.forced : \A i \in DOMAIN order : At(Append(m, e), f) < At(Append(m, e), order[i])
<1> DEFINE order == Append(c.order, e)
           L == Len(c.order)
           at(x) == At(Append(m, e), x)
<1>1. c.order \in Seq(Events)
  BY DEF CompType
<1>2. order \in Seq(Events) /\ L \in Nat /\ DOMAIN order = 1..L + 1 /\ DOMAIN c.order = 1..L
  BY <1>1
<1>3. \A i \in 1..L : order[i] = c.order[i]
  BY <1>1
<1>4. order[L + 1] = e
  BY <1>1
<1> HIDE DEF L, order
<1>5. /\ ToSet(Append(m, e)) = ToSet(m) \cup {e}
      /\ \A x \in ToSet(m) : at(x) = At(m, x) /\ at(x) < Len(m) + 1
      /\ at(e) = Len(m) + 1
  <2>1. /\ ToSet(Append(m, e)) = ToSet(m) \cup {e}
        /\ \A x \in ToSet(m) : at(x) = At(m, x) /\ At(m, x) \in 1..Len(m)
        /\ at(e) = Len(m) + 1
    BY AtAppend
  <2>2. \A a \in 1..Len(m) : a < Len(m) + 1
    BY LenProperties
  <2> QED BY <2>1, <2>2
<1> HIDE DEF at
<1>6. \A i \in 1..L : order[i] \in ToSet(m)
  BY <1>2, <1>3 DEF OverflowKept
<1>7. \A i \in 1..L + 1 : order[i] \in ToSet(Append(m, e))
  BY <1>2, <1>4, <1>5, <1>6
<1>8. ASSUME NEW i \in 1..L + 1, NEW j \in 1..L + 1, i < j PROVE at(order[i]) < at(order[j])
  <2>1. i \in 1..L
    BY <1>2, <1>8
  <2>2. CASE j \in 1..L
    <3>1. At(m, order[i]) < At(m, order[j])
      BY <1>2, <1>3, <1>8, <2>1, <2>2 DEF OverflowKept
    <3> QED BY <3>1, <1>5, <1>6, <2>1, <2>2
  <2>3. CASE j = L + 1
    BY <2>1, <2>3, <1>4, <1>5, <1>6
  <2> QED BY <1>2, <2>2, <2>3
<1>9. ToSet(order) = ToSet(c.order) \cup {e}
  BY <1>2, <1>3, <1>4 DEF ToSet
<1>10. ASSUME NEW f \in c.forced, NEW i \in 1..L + 1 PROVE at(f) < at(order[i])
  <2>1. f \in ToSet(m)
    BY PendingMade DEF OverflowKept
  <2>2. CASE i \in 1..L
    <3>1. At(m, f) < At(m, order[i])
      BY <1>2, <1>3, <2>2 DEF OverflowKept
    <3> QED BY <3>1, <1>5, <1>6, <2>1, <2>2
  <2>3. CASE i = L + 1
    BY <2>1, <2>3, <1>4, <1>5
  <2> QED BY <1>2, <2>2, <2>3
<1> QED BY <1>2, <1>7, <1>8, <1>9, <1>10 DEF order, at

\* push_pending past the cap: the first of the order queue that is pending is
\* forced; it is the oldest one not yet forced.
LEMMA ForceOldestFacts ==
  ASSUME NEW c \in CompType, NEW m \in Seq(Events), OverflowKept(c, m), LineKept(c, m),
         c.pending \ c.forced # {}
  PROVE  LET d == ForceOldest(c) IN
         /\ d \in CompType /\ OverflowKept(d, m)
         /\ d.line = c.line /\ d.pending = c.pending /\ d.waits = c.waits /\ d.exited = c.exited
         /\ \E x \in c.pending \ c.forced : d.forced = c.forced \cup {x}
<1> DEFINE d == ForceOldest(c)
           L == Len(c.order)
           S == {i \in 1..L : c.order[i] \in c.pending}
           i == FirstPending(c)
           order == SubSeq(c.order, i + 1, L)
           forced == c.forced \cup {c.order[i]}
<1>1. c.order \in Seq(Events) /\ L \in Nat /\ DOMAIN c.order = 1..L
  BY DEF CompType
<1>2. S # {}
  <2>1. PICK e \in c.pending \ c.forced : TRUE
    OBVIOUS
  <2>2. e \in ToSet(c.order)
    BY <2>1 DEF OverflowKept
  <2>3. PICK k \in DOMAIN c.order : c.order[k] = e
    BY <2>2 DEF ToSet
  <2>4. k \in S
    BY <1>1, <2>1, <2>3
  <2> QED BY <2>4
<1>3. PICK k \in S : \A y \in S : k <= y
  <2>1. S \in SUBSET Nat
    BY <1>1
  <2> QED BY <1>2, <2>1, LeastOf
<1>4. /\ i \in 1..L /\ c.order[i] \in c.pending
      /\ \A j \in 1..i - 1 : c.order[j] \notin c.pending
  <2>1. k \in DOMAIN c.order /\ c.order[k] \in c.pending
    BY <1>1, <1>3
  <2>2. \A j \in 1..k - 1 : c.order[j] \notin c.pending
    <3> SUFFICES ASSUME NEW j \in 1..k - 1, c.order[j] \in c.pending PROVE FALSE
      OBVIOUS
    <3>1. j \in S
      BY <1>1, <1>3
    <3> QED BY <3>1, <1>1, <1>3
  <2> QED BY <1>1, <2>1, <2>2 DEF FirstPending
<1> HIDE DEF i
<1>5. c.order[i] \notin c.forced
  <2> SUFFICES ASSUME c.order[i] \in c.forced PROVE FALSE
    OBVIOUS
  <2>1. At(m, c.order[i]) < At(m, c.order[i])
    BY <1>1, <1>4 DEF OverflowKept
  <2>2. At(m, c.order[i]) \in Nat
    BY <1>1, <1>4, AtNat DEF OverflowKept
  <2> QED BY <2>1, <2>2
<1>6. /\ order \in Seq(Events) /\ DOMAIN order = 1..L - i
      /\ \A j \in 1..L - i : order[j] = c.order[j + i]
  <2>1. order \in Seq(Events) /\ Len(order) = L - i
    BY <1>1, <1>4
  <2>2. \A j \in 1..L - i : order[j] = c.order[j + i]
    BY <1>1, <1>4
  <2> QED BY SMTT(30), <2>1, <2>2
<1>61. d = [c EXCEPT !.forced = forced, !.order = order]
  BY DEF ForceOldest, i
<1> HIDE DEF order, forced, d
<1>7. d = [line |-> c.line, pending |-> c.pending, waits |-> c.waits, forced |-> forced,
           order |-> order, exited |-> c.exited]
  <2>1. PICK l, p, w, f, o, x : c = [line |-> l, pending |-> p, waits |-> w, forced |-> f, order |-> o, exited |-> x]
    BY CompFields
  <2> QED BY <1>61, <2>1
<1>8. forced \subseteq c.pending
  BY <1>4 DEF forced, OverflowKept
<1>9. d \in CompType
  <2>1. forced \subseteq Events
    BY <1>8 DEF CompType
  <2> QED BY <1>6, <1>7, <2>1 DEF CompType
<1>10. \A j \in 1..L - i : j + i \in 1..L /\ i < j + i
  BY <1>1, <1>4
<1>11. c.pending \ forced \subseteq ToSet(order)
  <2> SUFFICES ASSUME NEW e \in c.pending, e \notin forced PROVE e \in ToSet(order)
    OBVIOUS
  <2>1. e \in ToSet(c.order)
    BY DEF OverflowKept, forced
  <2>2. PICK j \in 1..L : c.order[j] = e
    BY <1>1, <2>1 DEF ToSet
  <2>3. j # i
    BY <2>2 DEF forced
  <2>4. ~(j < i)
    BY <1>1, <1>4, <2>2
  <2>5. j - i \in 1..L - i /\ (j - i) + i = j
    BY <1>1, <1>4, <2>3, <2>4
  <2>6. order[j - i] = e
    BY <1>6, <2>2, <2>5
  <2> QED BY <1>6, <2>5, <2>6 DEF ToSet
<1>12. \A f \in forced : \A j \in 1..L - i : At(m, f) < At(m, order[j])
  <2> SUFFICES ASSUME NEW f \in forced, NEW j \in 1..L - i PROVE At(m, f) < At(m, c.order[j + i])
    BY <1>6
  <2>1. CASE f \in c.forced
    BY <1>1, <1>10, <2>1 DEF OverflowKept
  <2>2. CASE f = c.order[i]
    BY <1>1, <1>4, <1>10, <2>2 DEF OverflowKept
  <2> QED BY <2>1, <2>2 DEF forced
<1>13. \A j, l \in 1..L - i : j < l => At(m, order[j]) < At(m, order[l])
  <2> SUFFICES ASSUME NEW j \in 1..L - i, NEW l \in 1..L - i, j < l
               PROVE  At(m, c.order[j + i]) < At(m, c.order[l + i])
    BY <1>6
  <2>1. j + i < l + i
    BY <1>1, <1>4
  <2> QED BY <1>1, <1>10, <2>1 DEF OverflowKept
<1>14. \A j \in 1..L - i : order[j] \in ToSet(m)
  BY <1>1, <1>6, <1>10 DEF OverflowKept
<1>15. OverflowKept(d, m)
  BY <1>6, <1>7, <1>8, <1>11, <1>12, <1>13, <1>14 DEF OverflowKept
<1>16. d.forced = c.forced \cup {c.order[i]} /\ c.order[i] \in c.pending \ c.forced
  BY <1>4, <1>5, <1>7 DEF forced
<1> QED BY <1>7, <1>9, <1>15, <1>16 DEF d

\* Completion::push_pending keeps the line, the order queue and the cap.
LEMMA PushPendingFacts ==
  ASSUME NEW c, NEW m \in Seq(Events), Distinct(m), CompOK(c, m), NEW e \in Events, e \notin ToSet(m),
         NEW waits \in SUBSET Wait
  PROVE  LET d == PushPending(c, e, waits) IN
         /\ CompOK(d, Append(m, e))
         /\ d.line = Append(c.line, [ev |-> e, ready |-> FALSE])
         /\ d.pending = c.pending \cup {e} /\ d.waits = [c.waits EXCEPT ![e] = waits]
         /\ d.exited = c.exited
<1> DEFINE slot == [ev |-> e, ready |-> FALSE]
           line == Append(c.line, slot)
           pending == c.pending \cup {e}
           w == [c.waits EXCEPT ![e] = waits]
           order == Append(c.order, e)
           d == [c EXCEPT !.line = line, !.pending = pending, !.waits = w, !.order = order]
           p == PushPending(c, e, waits)
<1>1. c \in CompType /\ LineKept(c, m) /\ OverflowKept(c, m) /\ CapKept(c)
  BY DEF CompOK
<1>2. p = IF Cardinality(d.pending) > PendingCap THEN ForceOldest(d) ELSE d
  BY DEF PushPending
<1>3. slot \in Slot /\ slot.ev = e
  BY DEF Slot
<1>4. /\ line \in Seq(Slot) /\ Len(line) = Len(c.line) + 1
      /\ \A i \in 1..Len(c.line) : line[i] = c.line[i]
      /\ line[Len(c.line) + 1] = slot
      /\ \A i \in DOMAIN line : line[i].ev \in ToSet(Append(m, e))
      /\ \A i, j \in DOMAIN line : i < j => At(Append(m, e), line[i].ev) < At(Append(m, e), line[j].ev)
  <2> HIDE DEF slot
  <2> QED BY <1>1, <1>3, LineAppend
<1>5. /\ order \in Seq(Events)
      /\ \A i \in DOMAIN order : order[i] \in ToSet(Append(m, e))
      /\ \A i, j \in DOMAIN order : i < j => At(Append(m, e), order[i]) < At(Append(m, e), order[j])
      /\ ToSet(order) = ToSet(c.order) \cup {e}
      /\ \A f \in c.forced : \A i \in DOMAIN order : At(Append(m, e), f) < At(Append(m, e), order[i])
  BY <1>1, OrderAppend
<1>6. w \in [Events -> SUBSET Wait] /\ pending \subseteq Events
  BY <1>1 DEF CompType
<1>61. d = [c EXCEPT !.line = line, !.pending = pending, !.waits = w, !.order = order]
  OBVIOUS
<1> HIDE DEF slot, line, pending, w, order, d
<1>7. d = [line |-> line, pending |-> pending, waits |-> w, forced |-> c.forced,
           order |-> order, exited |-> c.exited]
  <2>1. PICK l, q, x, f, o, y : c = [line |-> l, pending |-> q, waits |-> x, forced |-> f, order |-> o, exited |-> y]
    BY <1>1, CompFields
  <2> QED BY <1>61, <2>1
<1> HIDE DEF p
<1>8. d \in CompType
  BY <1>1, <1>4, <1>5, <1>6, <1>7 DEF CompType
<1>9. c.pending \subseteq ToSet(m) /\ e \notin c.pending /\ c.forced \subseteq ToSet(m)
  BY <1>1, PendingMade DEF OverflowKept
<1>10. Distinct(Append(m, e)) /\ ToSet(Append(m, e)) = ToSet(m) \cup {e}
  BY AtAppend
<1>11. LineKept(d, Append(m, e))
  <2>1. ASSUME NEW x \in pending
        PROVE  \E i \in DOMAIN line : line[i] = [ev |-> x, ready |-> FALSE]
    <3>0. Len(c.line) \in Nat /\ DOMAIN c.line = 1..Len(c.line) /\ DOMAIN line = 1..Len(c.line) + 1
      BY <1>1, <1>4 DEF CompType
    <3>1. CASE x \in c.pending
      <4>1. PICK i \in DOMAIN c.line : c.line[i] = [ev |-> x, ready |-> FALSE]
        BY <1>1, <3>1 DEF LineKept
      <4>2. i \in DOMAIN line /\ line[i] = c.line[i]
        BY <1>4, <3>0, <4>1
      <4> QED BY <4>1, <4>2
    <3>2. CASE x = e
      <4>1. Len(c.line) + 1 \in DOMAIN line /\ line[Len(c.line) + 1] = slot
        BY <1>4, <3>0
      <4> QED BY <4>1, <3>2 DEF slot
    <3> QED BY <3>1, <3>2 DEF pending
  <2> QED BY <1>4, <1>7, <2>1 DEF LineKept
<1>12. OverflowKept(d, Append(m, e))
  <2>1. c.exited \subseteq ToSet(Append(m, e)) /\ c.exited \cap pending = {} /\ c.forced \subseteq pending
    BY <1>1, <1>10 DEF OverflowKept, pending
  <2>2. pending \ c.forced \subseteq ToSet(order)
    BY <1>1, <1>5 DEF OverflowKept, pending
  <2>3. IsFiniteSet(pending)
    BY <1>1, FS_AddElement DEF OverflowKept, pending
  <2> QED BY <1>5, <1>7, <2>1, <2>2, <2>3 DEF OverflowKept
<1>13. e \notin c.forced /\ IsFiniteSet(c.pending \ c.forced)
       /\ Cardinality(c.pending \ c.forced) <= PendingCap
       /\ Cardinality(c.pending \ c.forced) \in Nat
  <2>1. IsFiniteSet(c.pending \ c.forced)
    BY <1>1, FS_Subset DEF OverflowKept
  <2> QED BY <1>1, <1>9, <2>1, FS_CardinalityType DEF CapKept, OverflowKept
<1>14. /\ pending \ c.forced = (c.pending \ c.forced) \cup {e} /\ IsFiniteSet(pending \ c.forced)
       /\ Cardinality(pending \ c.forced) = Cardinality(c.pending \ c.forced) + 1
  <2>1. pending \ c.forced = (c.pending \ c.forced) \cup {e}
    BY <1>13 DEF pending
  <2>2. e \notin c.pending \ c.forced
    BY <1>9
  <2> DEFINE S == c.pending \ c.forced
  <2>3. IsFiniteSet(S) /\ e \notin S
    BY <1>13, <2>2
  <2> HIDE DEF S
  <2>4. IsFiniteSet(S \cup {e}) /\ Cardinality(S \cup {e}) = Cardinality(S) + 1
    BY <2>3, FS_AddElement
  <2> QED BY <2>1, <2>4 DEF S
<1>15. CASE Cardinality(d.pending) > PendingCap
  <2>1. d.pending \ d.forced # {}
    BY <1>7, <1>14
  <2>2. /\ ForceOldest(d) \in CompType /\ OverflowKept(ForceOldest(d), Append(m, e))
        /\ ForceOldest(d).line = d.line /\ ForceOldest(d).pending = d.pending
        /\ ForceOldest(d).waits = d.waits /\ ForceOldest(d).exited = d.exited
        /\ \E x \in d.pending \ d.forced : ForceOldest(d).forced = d.forced \cup {x}
    <3>1. Append(m, e) \in Seq(Events)
      OBVIOUS
    <3> QED BY <3>1, <1>8, <1>11, <1>12, <2>1, ForceOldestFacts
  <2>3. p = ForceOldest(d)
    BY <1>2, <1>15
  <2>4. LineKept(p, Append(m, e))
    BY <1>11, <2>2, <2>3 DEF LineKept
  <2>5. CapKept(p)
    <3>1. PICK x \in pending \ c.forced : p.forced = c.forced \cup {x}
      BY <1>7, <2>2, <2>3
    <3>2. p.pending \ p.forced = (pending \ c.forced) \ {x}
      BY <1>7, <2>2, <2>3, <3>1
    <3>3. Cardinality((pending \ c.forced) \ {x}) = Cardinality(pending \ c.forced) - 1
      BY <1>14, <3>1, FS_RemoveElement
    <3>4. PICK a \in Nat : a = Cardinality(c.pending \ c.forced) /\ a <= PendingCap
      BY <1>13
    <3>5. Cardinality(pending \ c.forced) = a + 1
      BY <1>14, <3>4
    <3>6. Cardinality(p.pending \ p.forced) = (a + 1) - 1
      BY <3>2, <3>3, <3>5
    <3>7. Cardinality(p.pending \ p.forced) = a
      BY <3>6
    <3> QED BY <3>4, <3>7 DEF CapKept
  <2>6. CompOK(p, Append(m, e))
    BY <2>2, <2>3, <2>4, <2>5 DEF CompOK
  <2> QED BY <1>7, <2>2, <2>3, <2>6 DEF p, line, slot, pending, w
<1>16. CASE ~(Cardinality(d.pending) > PendingCap)
  <2>1. p = d
    BY <1>2, <1>16
  <2>2. CapKept(d)
    <3>1. IsFiniteSet(d.pending) /\ d.pending \ d.forced \in SUBSET d.pending
      BY <1>12 DEF OverflowKept
    <3>2. /\ Cardinality(d.pending \ d.forced) <= Cardinality(d.pending)
          /\ Cardinality(d.pending) \in Nat /\ IsFiniteSet(d.pending \ d.forced)
      BY <3>1, FS_Subset, FS_CardinalityType
    <3>3. Cardinality(d.pending \ d.forced) \in Nat
      BY <3>2, FS_CardinalityType
    <3> QED BY <3>2, <3>3, <1>16, CapAssumption DEF CapKept
  <2>3. CompOK(p, Append(m, e))
    BY <1>8, <1>11, <1>12, <2>1, <2>2 DEF CompOK
  <2> QED BY <1>7, <2>1, <2>3 DEF p, line, slot, pending, w
<1> QED BY <1>15, <1>16

\* Waits are resolved: the line and the order queue stay.
LEMMA ResolveAllFacts ==
  ASSUME NEW c, NEW m, CompOK(c, m), NEW es, NEW reason
  PROVE  LET d == ResolveAll(c, es, reason) IN
         /\ CompOK(d, m)
         /\ d.line = c.line /\ d.pending = c.pending /\ d.exited = c.exited /\ d.forced = c.forced
         /\ \A e \in Events : d.waits[e] = IF e \in es THEN {w \in c.waits[e] : w.reason # reason} ELSE c.waits[e]
<1> DEFINE d == ResolveAll(c, es, reason)
           waits == [e \in Events |-> IF e \in es THEN {w \in c.waits[e] : w.reason # reason} ELSE c.waits[e]]
<1>1. c \in CompType /\ LineKept(c, m) /\ OverflowKept(c, m) /\ CapKept(c)
  BY DEF CompOK
<1>2. d = [c EXCEPT !.waits = waits]
  BY DEF ResolveAll
<1>3. waits \in [Events -> SUBSET Wait]
  BY <1>1 DEF CompType
<1>4. \A e \in Events : waits[e] = IF e \in es THEN {w \in c.waits[e] : w.reason # reason} ELSE c.waits[e]
  OBVIOUS
<1> HIDE DEF waits, d
<1>5. d = [line |-> c.line, pending |-> c.pending, waits |-> waits, forced |-> c.forced,
           order |-> c.order, exited |-> c.exited]
  <2>1. PICK l, q, x, f, o, y : c = [line |-> l, pending |-> q, waits |-> x, forced |-> f, order |-> o, exited |-> y]
    BY <1>1, CompFields
  <2> QED BY <1>2, <2>1
<1>6. d \in CompType
  BY <1>1, <1>3, <1>5 DEF CompType
<1>7. LineKept(d, m)
  BY <1>1, <1>5 DEF LineKept
<1>8. OverflowKept(d, m) /\ CapKept(d)
  BY <1>1, <1>5 DEF OverflowKept, CapKept
<1> QED BY <1>4, <1>5, <1>6, <1>7, <1>8 DEF d, CompOK

\* Events leave: the line keeps their slots, the order queue their ids.
LEMMA GoneFacts ==
  ASSUME NEW c, NEW m, CompOK(c, m), NEW es
  PROVE  LET d == Gone(c, es) IN
         /\ CompOK(d, m)
         /\ d.line = c.line /\ d.pending = c.pending \ es /\ d.exited = c.exited \cup (es \cap c.pending)
         /\ d.order = c.order /\ d.forced = c.forced \ es
         /\ \A e \in Events : d.waits[e] = IF e \in es THEN {} ELSE c.waits[e]
<1> DEFINE d == Gone(c, es)
           waits == [e \in Events |-> IF e \in es THEN {} ELSE c.waits[e]]
           pending == c.pending \ es
           forced == c.forced \ es
           exited == c.exited \cup (es \cap c.pending)
<1>1. c \in CompType /\ LineKept(c, m) /\ OverflowKept(c, m) /\ CapKept(c)
  BY DEF CompOK
<1>2. d = [c EXCEPT !.pending = pending, !.forced = forced, !.exited = exited, !.waits = waits]
  BY DEF Gone
<1>3. /\ waits \in [Events -> SUBSET Wait] /\ pending \subseteq Events /\ forced \subseteq Events
      /\ exited \subseteq Events
  BY <1>1 DEF CompType
<1>4. \A e \in Events : waits[e] = IF e \in es THEN {} ELSE c.waits[e]
  OBVIOUS
<1> HIDE DEF waits, d, pending, forced, exited
<1>5. d = [line |-> c.line, pending |-> pending, waits |-> waits, forced |-> forced,
           order |-> c.order, exited |-> exited]
  <2>1. PICK l, q, x, f, o, y : c = [line |-> l, pending |-> q, waits |-> x, forced |-> f, order |-> o, exited |-> y]
    BY <1>1, CompFields
  <2> QED BY <1>2, <2>1
<1>6. d \in CompType
  BY <1>1, <1>3, <1>5 DEF CompType
<1>7. LineKept(d, m)
  <2>1. pending \subseteq c.pending
    BY DEF pending
  <2> QED BY <1>1, <1>5, <2>1 DEF LineKept
<1>8. exited \subseteq ToSet(m)
  BY <1>1, PendingMade DEF OverflowKept, exited
<1>9. IsFiniteSet(pending)
  BY <1>1, FS_Subset DEF OverflowKept, pending
<1>10. pending \ forced \subseteq c.pending \ c.forced
  BY DEF pending, forced
<1>11. OverflowKept(d, m)
  <2>1. exited \cap pending = {} /\ forced \subseteq pending
    BY <1>1 DEF OverflowKept, exited, pending, forced
  <2>2. pending \ forced \subseteq ToSet(c.order)
    BY <1>1, <1>10 DEF OverflowKept
  <2>3. \A f \in forced : f \in c.forced
    BY DEF forced
  <2> QED BY <1>1, <1>5, <1>8, <1>9, <2>1, <2>2, <2>3 DEF OverflowKept
<1>12. CapKept(d)
  <2>1. IsFiniteSet(c.pending \ c.forced)
    BY <1>1, FS_Subset DEF OverflowKept
  <2>2. /\ Cardinality(pending \ forced) <= Cardinality(c.pending \ c.forced)
        /\ Cardinality(c.pending \ c.forced) \in Nat /\ IsFiniteSet(pending \ forced)
    BY <1>10, <2>1, FS_Subset, FS_CardinalityType
  <2>3. Cardinality(pending \ forced) \in Nat
    BY <2>2, FS_CardinalityType
  <2> QED BY <1>1, <1>5, <2>2, <2>3, CapAssumption DEF CapKept
<1> QED BY <1>4, <1>5, <1>6, <1>7, <1>11, <1>12 DEF d, CompOK, pending, forced, exited

\* The front of the order queue that is not pending is popped.
LEMMA TrimFacts ==
  ASSUME NEW c \in CompType, NEW m \in Seq(Events), OverflowKept(c, m),
         NEW k \in 0..Len(c.order), \A i \in 1..k : c.order[i] \notin c.pending,
         NEW order, order = SubSeq(c.order, k + 1, Len(c.order))
  PROVE  /\ order \in Seq(Events) /\ \A i \in DOMAIN order : order[i] \in ToSet(m)
         /\ \A i, j \in DOMAIN order : i < j => At(m, order[i]) < At(m, order[j])
         /\ c.pending \ c.forced \subseteq ToSet(order)
         /\ \A f \in c.forced : \A i \in DOMAIN order : At(m, f) < At(m, order[i])
<1> DEFINE L == Len(c.order)
<1>1. c.order \in Seq(Events) /\ L \in Nat /\ DOMAIN c.order = 1..L
  BY DEF CompType
<1>2. order \in Seq(Events) /\ DOMAIN order = 1..L - k /\ \A j \in 1..L - k : order[j] = c.order[j + k]
  <2>1. order \in Seq(Events) /\ Len(order) = L - k
    BY <1>1
  <2>2. \A j \in 1..L - k : order[j] = c.order[j + k]
    BY <1>1
  <2> QED BY <2>1, <2>2
<1>3. \A j \in 1..L - k : j + k \in DOMAIN c.order
  BY <1>1
<1>4. c.pending \ c.forced \subseteq ToSet(order)
  <2> SUFFICES ASSUME NEW e \in c.pending, e \notin c.forced PROVE e \in ToSet(order)
    OBVIOUS
  <2>1. e \in ToSet(c.order)
    BY DEF OverflowKept
  <2>2. PICK j \in 1..L : c.order[j] = e
    BY <1>1, <2>1 DEF ToSet
  <2>3. ~(j <= k)
    BY <1>1, <2>2
  <2>4. j - k \in 1..L - k /\ (j - k) + k = j
    BY <1>1, <2>3
  <2>5. order[j - k] = e
    BY <1>2, <2>2, <2>4
  <2> QED BY <1>2, <2>4, <2>5 DEF ToSet
<1>5. \A i \in DOMAIN order : order[i] \in ToSet(m)
  BY <1>2, <1>3 DEF OverflowKept
<1>6. \A f \in c.forced : \A i \in DOMAIN order : At(m, f) < At(m, order[i])
  BY <1>2, <1>3 DEF OverflowKept
<1>7. ASSUME NEW i \in 1..L - k, NEW j \in 1..L - k, i < j PROVE At(m, order[i]) < At(m, order[j])
  <2>1. i + k < j + k
    BY <1>1, <1>7
  <2> QED BY <1>2, <1>3, <2>1 DEF OverflowKept
<1> QED BY <1>2, <1>4, <1>5, <1>6, <1>7

\* A drain's rest: the first n slots go, with their pending events.
LEMMA AfterFacts ==
  ASSUME NEW c, NEW m \in Seq(Events), CompOK(c, m), NEW n \in 0..Len(c.line)
  PROVE  LET d == After(c, n)
             f == [d EXCEPT !.exited = {}]
         IN /\ CompOK(f, m)
            /\ Len(f.line) = Len(c.line) - n /\ \A i \in 1..Len(c.line) - n : f.line[i] = c.line[i + n]
            /\ f.pending = c.pending \ Leaving(c, n)
            /\ \A e \in f.pending : f.waits[e] = c.waits[e]
            /\ f.exited = {} /\ d.exited = c.exited \cup Leaving(c, n) /\ d.line = f.line
<1> DEFINE L == Len(c.line)
           line == SubSeq(c.line, n + 1, L)
           es == Leaving(c, n)
           b == [c EXCEPT !.line = line]
           g == Gone(c, es)
           h == Gone(b, es)
           K == Len(h.order)
           k == CHOOSE k \in 0..K : /\ \A i \in 1..k : h.order[i] \notin h.pending
                                    /\ k < K => h.order[k + 1] \in h.pending
           order == SubSeq(h.order, k + 1, K)
           d == After(c, n)
           f == [d EXCEPT !.exited = {}]
<1>1. c \in CompType /\ LineKept(c, m)
  BY DEF CompOK
<1>2. /\ CompOK(g, m)
      /\ g.line = c.line /\ g.pending = c.pending \ es /\ g.exited = c.exited \cup (es \cap c.pending)
      /\ g.order = c.order /\ g.forced = c.forced \ es
      /\ \A e \in Events : g.waits[e] = IF e \in es THEN {} ELSE c.waits[e]
  BY GoneFacts
<1>3. g \in CompType /\ OverflowKept(g, m) /\ CapKept(g)
  BY <1>2 DEF CompOK
<1>4. d = [h EXCEPT !.order = order]
  BY DEF After
<1>5. /\ c.line \in Seq(Slot) /\ L \in Nat /\ DOMAIN c.line = 1..L
      /\ line \in Seq(Slot) /\ DOMAIN line = 1..L - n /\ Len(line) = L - n
      /\ \A i \in 1..L - n : line[i] = c.line[i + n]
  <2>1. c.line \in Seq(Slot) /\ L \in Nat
    BY <1>1 DEF CompType
  <2>2. line \in Seq(Slot) /\ Len(line) = L - n
    BY <2>1
  <2>3. \A i \in 1..L - n : line[i] = c.line[i + n]
    BY <2>1
  <2> QED BY <2>1, <2>2, <2>3
<1>6. es \subseteq c.pending
  BY DEF Leaving
<1>7. h = [line |-> line, pending |-> g.pending, waits |-> g.waits, forced |-> g.forced,
           order |-> g.order, exited |-> g.exited]
  <2>1. PICK l, q, x, fo, o, y :
          c = [line |-> l, pending |-> q, waits |-> x, forced |-> fo, order |-> o, exited |-> y]
    BY <1>1, CompFields
  <2> HIDE DEF line, es
  <2>2. b = [line |-> line, pending |-> q, waits |-> x, forced |-> fo, order |-> o, exited |-> y]
    BY <2>1
  <2> DEFINE w == [e \in Events |-> IF e \in es THEN {} ELSE x[e]]
  <2>3. b.pending = q /\ b.forced = fo /\ b.exited = y /\ b.waits = x
    BY <2>2
  <2>4. c.pending = q /\ c.forced = fo /\ c.exited = y /\ c.waits = x
    BY <2>1
  <2>5. h = [b EXCEPT !.pending = q \ es, !.forced = fo \ es, !.exited = y \cup (es \cap q), !.waits = w]
    BY <2>3 DEF Gone
  <2>6. g = [c EXCEPT !.pending = q \ es, !.forced = fo \ es, !.exited = y \cup (es \cap q), !.waits = w]
    BY <2>4 DEF Gone
  <2> HIDE DEF w, b, g, h
  <2> DEFINE q2 == q \ es
             f2 == fo \ es
             y2 == y \cup (es \cap q)
  <2>7. h = [b EXCEPT !.pending = q2, !.forced = f2, !.exited = y2, !.waits = w]
    BY <2>5
  <2>8. g = [c EXCEPT !.pending = q2, !.forced = f2, !.exited = y2, !.waits = w]
    BY <2>6
  <2> HIDE DEF q2, f2, y2
  <2>9. h = [line |-> line, pending |-> q2, waits |-> w, forced |-> f2, order |-> o, exited |-> y2]
    BY <2>2, <2>7
  <2>10. g = [line |-> l, pending |-> q2, waits |-> w, forced |-> f2, order |-> o, exited |-> y2]
    BY <2>1, <2>8
  <2> QED BY <2>9, <2>10
<1>8. h.order = g.order /\ h.pending = g.pending
  BY <1>7
<1>9. k \in 0..K /\ \A i \in 1..k : h.order[i] \notin h.pending
  <2> HIDE DEF h
  <2>1. K \in Nat
    BY <1>3, <1>8 DEF CompType
  <2> DEFINE S == {i \in 1..K : h.order[i] \in h.pending}
  <2>2. \E j \in 0..K : (\A i \in 1..j : i \notin S) /\ (j < K => j + 1 \in S)
    <3>1. S \in SUBSET (1..K)
      OBVIOUS
    <3> HIDE DEF S, K
    <3> QED BY <2>1, <3>1, FirstUpTo
  <2>3. \E j \in 0..K : (\A i \in 1..j : h.order[i] \notin h.pending) /\ (j < K => h.order[j + 1] \in h.pending)
    <3>1. PICK j \in 0..K : (\A i \in 1..j : i \notin S) /\ (j < K => j + 1 \in S)
      BY <2>2
    <3>2. \A i \in 1..j : i \in 1..K
      BY <2>1
    <3> QED BY <3>1, <3>2
  <2> QED BY <2>3
<1> HIDE DEF line, es, b, h, k, d
<1>10. order = SubSeq(g.order, k + 1, Len(g.order)) /\ k \in 0..Len(g.order)
       /\ \A i \in 1..k : g.order[i] \notin g.pending
  BY <1>8, <1>9
<1> HIDE DEF order, g
<1>11. /\ order \in Seq(Events) /\ \A i \in DOMAIN order : order[i] \in ToSet(m)
       /\ \A i, j \in DOMAIN order : i < j => At(m, order[i]) < At(m, order[j])
       /\ g.pending \ g.forced \subseteq ToSet(order)
       /\ \A x \in g.forced : \A i \in DOMAIN order : At(m, x) < At(m, order[i])
  BY <1>3, <1>10, TrimFacts
<1>12. d = [line |-> line, pending |-> g.pending, waits |-> g.waits, forced |-> g.forced,
            order |-> order, exited |-> g.exited]
  BY <1>4, <1>7
<1>13. f = [line |-> line, pending |-> g.pending, waits |-> g.waits, forced |-> g.forced,
            order |-> order, exited |-> {}]
  <2>1. f = [d EXCEPT !.exited = {}]
    OBVIOUS
  <2> HIDE DEF f
  <2>2. PICK q, x, y, z : d = [line |-> line, pending |-> q, waits |-> x, forced |-> y, order |-> order, exited |-> z]
                          /\ q = g.pending /\ x = g.waits /\ y = g.forced
    BY <1>12
  <2>3. f = [line |-> line, pending |-> q, waits |-> x, forced |-> y, order |-> order, exited |-> {}]
    BY <2>1, <2>2
  <2> QED BY <2>2, <2>3
<1> HIDE DEF f
<1>14. f \in CompType
  BY <1>3, <1>5, <1>11, <1>13 DEF CompType
<1>15. OverflowKept(f, m) /\ CapKept(f)
  BY <1>3, <1>11, <1>13 DEF OverflowKept, CapKept
<1>16. \A i \in 1..L - n : i + n \in DOMAIN c.line
  BY <1>5
<1>17. LineKept(f, m)
  <2>1. \A i \in 1..L - n : line[i].ev \in ToSet(m)
    BY <1>1, <1>5, <1>16 DEF LineKept
  <2>2. ASSUME NEW i \in 1..L - n, NEW j \in 1..L - n, i < j PROVE At(m, line[i].ev) < At(m, line[j].ev)
    <3>1. i + n < j + n
      BY <1>5, <2>2
    <3> QED BY <1>1, <1>5, <1>16, <3>1 DEF LineKept
  <2>3. ASSUME NEW e \in f.pending
        PROVE  \E i \in 1..L - n : line[i] = [ev |-> e, ready |-> FALSE]
    <3>1. e \in c.pending /\ e \notin es
      BY <1>2, <1>13, <2>3
    <3>2. PICK i \in 1..L : c.line[i] = [ev |-> e, ready |-> FALSE]
      BY <1>1, <1>5, <3>1 DEF LineKept
    <3>3. ~(i \in 1..n)
      <4>1. c.line[i].ev = e
        BY <3>2
      <4> QED BY <4>1, <3>1 DEF es, Leaving
    <3>4. i - n \in 1..L - n /\ (i - n) + n = i
      BY <1>5, <3>3
    <3>5. line[i - n] = c.line[i]
      BY <1>5, <3>4
    <3> QED BY <3>2, <3>4, <3>5
  <2> QED BY <1>5, <1>13, <2>1, <2>2, <2>3 DEF LineKept
<1>18. \A e \in f.pending : f.waits[e] = c.waits[e]
  <2>1. c.pending \subseteq Events
    BY <1>1 DEF CompType
  <2> QED BY <2>1, <1>2, <1>13
<1>19. d.exited = c.exited \cup es /\ d.line = line /\ f.line = line /\ f.exited = {} /\ f.pending = c.pending \ es
  BY <1>2, <1>6, <1>12, <1>13
<1>20. CompOK(f, m)
  BY <1>14, <1>15, <1>17 DEF CompOK
<1> QED BY <1>5, <1>18, <1>19, <1>20 DEF d, f, es

\* What the first n slots emit: at the positions pos in the line.
DrawnFrom(c, n, K, pos) ==
    /\ pos \in [1..K -> 1..n] /\ DOMAIN Out(c, n) = 1..K
    /\ \A k \in 1..K : pos[k] \in Emitting(c, n) /\ Out(c, n)[k] = c.line[pos[k]].ev
    /\ \A k, l \in 1..K : k < l => pos[k] < pos[l]
    /\ \A i \in Emitting(c, n) : c.line[i].ev \in ToSet(Out(c, n))

\* What a drain emits is in the line, in order.
LEMMA OutFacts ==
  ASSUME NEW c, NEW m \in Seq(Events), CompOK(c, m), NEW n \in 0..Len(c.line)
  PROVE  \E K \in Nat : \E pos : DrawnFrom(c, n, K, pos)
<1> DEFINE s == [i \in DOMAIN c.line |-> c.line[i].ev]
           I == Emitting(c, n)
           K == Cardinality(I)
<1>1. c.line \in Seq(Slot) /\ Len(c.line) \in Nat /\ DOMAIN c.line = 1..Len(c.line)
  BY DEF CompOK, CompType
<1>2. n \in Nat /\ 1..n \subseteq DOMAIN s /\ I \in SUBSET (1..n)
  BY <1>1 DEF Emitting
<1>3. \A i \in 1..n : s[i] = c.line[i].ev
  BY <1>1
<1>4. Out(c, n) = Taken(s, I)
  BY DEF Out
<1> HIDE DEF s, I
<1>5. K \in Nat /\ \E pos : Picks(Taken(s, I), s, I, K, pos)
  BY <1>2, TakenFacts
<1> HIDE DEF K
<1>51. PICK pos : Picks(Taken(s, I), s, I, K, pos)
  BY <1>5
<1>6. /\ pos \in [1..K -> I] /\ DOMAIN Taken(s, I) = 1..K
      /\ \A k \in 1..K : Taken(s, I)[k] = s[pos[k]]
      /\ \A k, l \in 1..K : k < l => pos[k] < pos[l]
      /\ \A i \in I : \E k \in 1..K : pos[k] = i
  BY <1>51 DEF Picks
<1>7. pos \in [1..K -> 1..n] /\ \A k \in 1..K : pos[k] \in I
  BY <1>2, <1>6
<1>8. \A k \in 1..K : Out(c, n)[k] = c.line[pos[k]].ev
  BY <1>3, <1>4, <1>6, <1>7
<1>9. DOMAIN Out(c, n) = 1..K
  BY <1>4, <1>6
<1>10. \A i \in I : c.line[i].ev \in ToSet(Out(c, n))
  <2> SUFFICES ASSUME NEW i \in I PROVE c.line[i].ev \in ToSet(Out(c, n))
    OBVIOUS
  <2>1. PICK k \in 1..K : pos[k] = i
    BY <1>6
  <2>2. Out(c, n)[k] = c.line[i].ev
    BY <1>8, <2>1
  <2> QED BY <1>9, <2>2 DEF ToSet
<1>11. K \in Nat
  BY <1>5
<1>12. DrawnFrom(c, n, K, pos)
  BY <1>6, <1>7, <1>8, <1>9, <1>10 DEF I, DrawnFrom
<1> QED BY <1>11, <1>12

\* What the drain hands to the sink comes after what it has, and before what
\* stays in the line.
LEMMA SinkEmits ==
  ASSUME NEW c, NEW m \in Seq(Events), Distinct(m), CompOK(c, m), NEW n \in 0..Len(c.line),
         NEW k \in Seq(Events), SinkOK(k, c, m), NEW J \in SUBSET DOMAIN Out(c, n)
  PROVE  /\ k \o Taken(Out(c, n), J) \in Seq(Events)
         /\ SinkOK(k \o Taken(Out(c, n), J), [After(c, n) EXCEPT !.exited = {}], m)
<1> DEFINE f == [After(c, n) EXCEPT !.exited = {}]
           out == Out(c, n)
           t == Taken(out, J)
           N == Cardinality(J)
           s == k \o t
<1>1. /\ c \in CompType /\ LineKept(c, m) /\ Len(c.line) \in Nat /\ DOMAIN c.line = 1..Len(c.line)
      /\ c.line \in Seq(Slot)
  BY DEF CompOK, CompType
<1>21. PICK K \in Nat : \E pos : DrawnFrom(c, n, K, pos)
  BY OutFacts
<1>2. PICK pos : DrawnFrom(c, n, K, pos)
  BY <1>21
<1>3. /\ pos \in [1..K -> 1..n] /\ DOMAIN out = 1..K
      /\ \A i \in 1..K : pos[i] \in Emitting(c, n) /\ out[i] = c.line[pos[i]].ev
      /\ \A i, j \in 1..K : i < j => pos[i] < pos[j]
  BY <1>2 DEF DrawnFrom
<1> HIDE DEF out
<1>31. N \in Nat /\ \E q : Picks(t, out, J, N, q)
  <2>1. J \in SUBSET (1..K) /\ 1..K \subseteq DOMAIN out
    BY <1>3 DEF out
  <2> QED BY <2>1, TakenFacts
<1>32. PICK q : Picks(t, out, J, N, q)
  BY <1>31
<1>4. N \in Nat /\ DOMAIN t = 1..N
  BY <1>31, <1>32 DEF Picks
<1>5. /\ q \in [1..N -> J]
      /\ \A i \in 1..N : t[i] = out[q[i]]
      /\ \A i, j \in 1..N : i < j => q[i] < q[j]
  BY <1>32 DEF Picks
<1> DEFINE p == [i \in 1..N |-> pos[q[i]]]
<1>6. \A i \in 1..N : q[i] \in 1..K
  BY <1>3, <1>5 DEF out
<1>7. \A i \in 1..N : p[i] \in 1..n /\ t[i] = c.line[p[i]].ev
  BY <1>3, <1>5, <1>6
<1>8. \A i, j \in 1..N : i < j => p[i] < p[j]
  BY <1>3, <1>5, <1>6
<1>9. t \in Seq(Events)
  <2>1. \A i \in 1..N : t[i] \in Events
    <3> SUFFICES ASSUME NEW i \in 1..N PROVE t[i] \in Events
      OBVIOUS
    <3>1. p[i] \in DOMAIN c.line
      BY <1>1, <1>7
    <3>2. c.line[p[i]] \in Slot
      BY <1>1, <3>1
    <3> HIDE DEF p, t
    <3> QED BY <1>7, <3>2 DEF Slot
  <2>2. t = [i \in 1..N |-> t[i]]
    BY <1>4 DEF Taken
  <2> HIDE DEF t, N
  <2>3. PICK a \in Nat : a = N
    BY <1>4
  <2>4. t \in [1..a -> Events]
    BY <2>1, <2>2, <2>3
  <2> QED BY <2>4, SeqDef
<1>10. Len(t) = N
  BY <1>4, <1>9
<1> HIDE DEF t, N, p
<1> DEFINE M == Len(k)
<1>11. /\ s \in Seq(Events) /\ M \in Nat /\ DOMAIN k = 1..M /\ DOMAIN s = 1..M + N
       /\ \A i \in 1..M : s[i] = k[i]
       /\ \A i \in M + 1..M + N : s[i] = t[i - M]
  <2>1. s \in Seq(Events) /\ M \in Nat /\ DOMAIN k = 1..M /\ Len(s) = M + N
    BY SMTT(30), <1>9, <1>10
  <2>2. DOMAIN s = 1..M + N
    BY <2>1
  <2>3. \A i \in 1..M : s[i] = k[i]
    BY <1>9, <1>10, <2>1, ConcatProperties
  <2>4. ASSUME NEW i \in M + 1..M + N PROVE s[i] = t[i - M]
    <3>1. i \in 1..M + N /\ ~(i <= M)
      BY <2>1, <1>4
    <3> QED BY <1>9, <1>10, <3>1, ConcatProperties
  <2> QED BY <2>1, <2>2, <2>3, <2>4
<1> HIDE DEF s, M
<1>12. \A i \in M + 1..M + N : i - M \in 1..N
  BY <1>4, <1>11
<1>13. \A i \in 1..N : p[i] \in DOMAIN c.line
  BY <1>1, <1>7
<1>14. \A i \in DOMAIN s : s[i] \in ToSet(m)
  <2> SUFFICES ASSUME NEW i \in 1..M + N PROVE s[i] \in ToSet(m)
    BY <1>11
  <2>1. CASE i \in 1..M
    BY <2>1, <1>11 DEF SinkOK
  <2>2. CASE i \in M + 1..M + N
    <3>1. s[i] = c.line[p[i - M]].ev /\ p[i - M] \in DOMAIN c.line
      BY <2>2, <1>7, <1>11, <1>12, <1>13
    <3> QED BY <3>1, <1>1 DEF LineKept
  <2> QED BY <2>1, <2>2, <1>11, <1>4
<1>15. ASSUME NEW i \in 1..M + N, NEW j \in 1..M + N, i < j PROVE At(m, s[i]) < At(m, s[j])
  <2>1. CASE j \in 1..M
    <3>1. i \in 1..M
      BY <1>4, <1>11, <1>15, <2>1
    <3> QED BY <3>1, <2>1, <1>11, <1>15 DEF SinkOK
  <2>2. CASE j \in M + 1..M + N /\ i \in 1..M
    <3>1. s[j] = c.line[p[j - M]].ev /\ p[j - M] \in DOMAIN c.line
      BY <2>2, <1>7, <1>11, <1>12, <1>13
    <3>2. s[i] = k[i] /\ i \in DOMAIN k
      BY <2>2, <1>11
    <3> QED BY <3>1, <3>2 DEF SinkOK
  <2>3. CASE j \in M + 1..M + N /\ i \in M + 1..M + N
    <3>1. s[j] = c.line[p[j - M]].ev /\ p[j - M] \in DOMAIN c.line
      BY <2>3, <1>7, <1>11, <1>12, <1>13
    <3>2. s[i] = c.line[p[i - M]].ev /\ p[i - M] \in DOMAIN c.line
      BY <2>3, <1>7, <1>11, <1>12, <1>13
    <3>3. i - M < j - M
      BY <1>4, <1>11, <1>15
    <3>4. p[i - M] < p[j - M]
      BY <3>3, <1>8, <1>12, <2>3
    <3> QED BY <3>1, <3>2, <3>4, <1>1 DEF LineKept
  <2> QED BY <2>1, <2>2, <2>3, <1>4, <1>11
<1>16. /\ Len(f.line) = Len(c.line) - n /\ \A i \in 1..Len(c.line) - n : f.line[i] = c.line[i + n]
       /\ CompOK(f, m)
  BY AfterFacts
<1>17. DOMAIN f.line = 1..Len(c.line) - n
  BY <1>1, <1>16 DEF CompOK, CompType
<1> HIDE DEF f
<1>18. ASSUME NEW i \in 1..M + N, NEW j \in 1..Len(c.line) - n PROVE At(m, s[i]) < At(m, f.line[j].ev)
  <2>1. f.line[j] = c.line[j + n] /\ j + n \in DOMAIN c.line
    BY <1>1, <1>16
  <2>2. CASE i \in 1..M
    <3>1. s[i] = k[i] /\ i \in DOMAIN k
      BY <2>2, <1>11
    <3> QED BY <3>1, <2>1 DEF SinkOK
  <2>3. CASE i \in M + 1..M + N
    <3>1. s[i] = c.line[p[i - M]].ev /\ p[i - M] \in DOMAIN c.line /\ p[i - M] \in 1..n
      BY <2>3, <1>7, <1>11, <1>12, <1>13
    <3>2. p[i - M] < j + n
      BY <3>1, <1>1
    <3> QED BY <2>1, <3>1, <3>2, <1>1 DEF LineKept
  <2> QED BY <2>2, <2>3, <1>4, <1>11
<1>19. SinkOK(s, f, m)
  BY <1>11, <1>14, <1>15, <1>17, <1>18 DEF SinkOK
<1> QED BY <1>11, <1>19 DEF s, t, out, f

-----------------------------------------------------------------------------
(* The constants and the initial state                                       *)

\* What the inputs and the caps are.
LEMMA InputFacts ==
  /\ \A e \in Events : /\ Ts(e) \in Nat /\ Ts(e) + Window < Forever /\ Irp(e) \in Irps
                       /\ QueueOf(e) \in Queues /\ Slots(e) \subseteq Events \X {1, 2}
                       /\ \A s \in Slots(e) : s[1] = e
  /\ QueueCap["kernel"] \in Nat \ {0} /\ QueueCap["user"] \in Nat \ {0}
  /\ \A q \in Queues : QueueCap[q] \in Nat \ {0}
  /\ Window \in Nat /\ Forever \in Nat /\ Never \in Int /\ Never < 0 /\ Hold \in Nat
  /\ EnrichDeadline \in Nat \ {0} /\ ExpandDeadline \in Nat \ {0}
  /\ MayWait \in Nat \ {0} /\ EnrichDeadline <= MayWait /\ ExpandDeadline <= MayWait
<1>1. \A e \in Events : /\ Input[e].ts \in Nat /\ Input[e].irp \in Irps /\ Input[e].slots \in 0..2
                        /\ Input[e].ts + Window < Forever
  BY InputAssumption
<1>2. \A e \in Events : Ts(e) \in Nat /\ Ts(e) + Window < Forever /\ Irp(e) \in Irps
  BY <1>1 DEF Ts, Irp
<1>3. \A e \in Events : QueueOf(e) \in Queues
  BY DEF QueueOf, Queues
<1>4. \A e \in Events : Slots(e) \subseteq Events \X {1, 2} /\ \A s \in Slots(e) : s[1] = e
  <2> SUFFICES ASSUME NEW e \in Events, NEW s \in Slots(e) PROVE s \in Events \X {1, 2} /\ s[1] = e
    OBVIOUS
  <2>1. PICK i \in 1..Input[e].slots : s = <<e, i>>
    BY DEF Slots
  <2>2. i \in {1, 2}
    BY <1>1
  <2> QED BY <2>1, <2>2
<1>5. /\ Window \in Nat /\ EnrichDeadline \in Nat \ {0} /\ ExpandDeadline \in Nat \ {0}
      /\ Forever \in Nat /\ Never \in Int /\ Never < 0 /\ Hold \in Nat
  BY InputAssumption, HoldAssumption
<1>6. MayWait \in Nat \ {0} /\ EnrichDeadline <= MayWait /\ ExpandDeadline <= MayWait
  BY <1>5 DEF MayWait, Later
<1>7. /\ QueueCap["kernel"] \in Nat \ {0} /\ QueueCap["user"] \in Nat \ {0}
      /\ \A q \in Queues : QueueCap[q] \in Nat \ {0}
  BY InputAssumption DEF Queues
<1> QED BY <1>2, <1>3, <1>4, <1>5, <1>6, <1>7

\* The empty stage.
LEMMA NewCompOK == CompOK(NewCompletion, <<>>)
<1>1. NewCompletion \in CompType
  BY DEF NewCompletion, CompType
<1>2. LineKept(NewCompletion, <<>>)
  BY DEF NewCompletion, LineKept
<1>3. OverflowKept(NewCompletion, <<>>)
  BY FS_EmptySet DEF NewCompletion, OverflowKept
<1>4. CapKept(NewCompletion)
  BY FS_EmptySet, CapAssumption DEF NewCompletion, CapKept
<1> QED BY <1>1, <1>2, <1>3, <1>4 DEF CompOK

\* The initial state satisfies the invariant.
LEMMA InitInv == Init => PInv
<1> SUFFICES ASSUME Init PROVE PInv
  OBVIOUS
<1>1. Types
  <2>1. queue \in [Queues -> Seq(Events)] /\ \A q \in Queues : Len(queue[q]) <= QueueCap[q]
    <3>1. \A q \in Queues : queue[q] = <<>>
      BY DEF Init
    <3> QED BY <3>1, InputFacts DEF Init
  <2>2. ord \in [held : SUBSET HeldType, seq : Nat, last : Int]
    BY InputFacts DEF Init, NoneHeld
  <2>3. files.held \in Seq(OperationType) /\ files.latest \in [Irps -> Events \cup {None}]
    BY DEF Init
  <2>4. /\ fate \in [Events -> Fates] /\ since \in [Events -> Nat]
        /\ made \in Seq(Events) /\ sink \in Seq(Events)
    BY DEF Init, Fates
  <2>5. /\ clock \in Nat /\ now \in Nat /\ stream \in Int /\ now <= clock /\ clock < Forever
        /\ room \in Nat
    BY InputFacts, HoldAssumption DEF Init
  <2> QED BY <2>1, <2>2, <2>3, <2>4, <2>5 DEF Init, Types, Queues
<1>2. Control
  BY InputFacts DEF Init, Control
<1>3. Queued
  <2>1. \A q \in Queues : queue[q] = <<>>
    BY DEF Init
  <2>2. ord.held = {}
    BY DEF Init, NoneHeld
  <2>3. \A e \in Events : fate[e] = "new" /\ e # cur
    BY NoneAssumption DEF Init
  <2> QED BY <2>1, <2>2, <2>3 DEF Queued, InQueue, InHeld, Distinct, ToSet
<1>4. CompOK(comp, made)
  BY NewCompOK DEF Init
<1>5. MadeOnce
  BY DEF Init, MadeOnce, Distinct, ToSet
<1>6. SinkKept
  BY DEF Init, SinkKept, SinkOK
<1>7. TimeKept
  BY InputFacts DEF Init, TimeKept, NoneHeld, StreamOrder
<1>8. WaitsKept
  BY DEF Init, WaitsKept, HeldKept, SinceKept, NewCompletion
<1>9. StopKept
  BY DEF Init, StopKept, Passed
<1>10. BooksOfPending
  BY DEF Init, BooksOfPending
<1>11. LeavesInTime
  BY DEF Init, LeavesInTime, NoneHeld, NewCompletion
<1>12. CleanStop
  BY DEF Init, CleanStop
<1> QED BY <1>1, <1>2, <1>3, <1>4, <1>5, <1>6, <1>7, <1>8, <1>9, <1>10, <1>11, <1>12 DEF PInv

-----------------------------------------------------------------------------
(* The callbacks, the lanes and time                                         *)

\* A callback queues an event.
LEMMA ArriveInv == ASSUME PInv, NEW e \in Events, Arrive(e) PROVE PInv'
<1>1. /\ pc \in Queues /\ pc = QueueOf(e) /\ pc \notin closed /\ fate[e] = "new"
      /\ UNCHANGED <<clock, closed, threadVars, stateVars, laneVars, sink, late, made, since>>
  BY InputFacts DEF Arrive, LooksAt
<1> DEFINE q == QueueOf(e)
<1>2. \/ /\ Len(queue[q]) < QueueCap[q] /\ queue' = [queue EXCEPT ![q] = Append(@, e)]
         /\ fate' = [fate EXCEPT ![e] = "queued"]
      \/ queue' = queue /\ fate' = [fate EXCEPT ![e] = "refused"]
  BY DEF Arrive
<1>3. Types /\ Control /\ Queued /\ MadeOnce /\ StopKept /\ TimeKept
  BY DEF PInv
<1>4. q \in Queues /\ queue \in [Queues -> Seq(Events)] /\ QueueCap[q] \in Nat /\ fate \in [Events -> Fates]
  BY <1>3, InputFacts DEF Types
<1>5. ~InQueue(e) /\ ~InHeld(e) /\ e # cur
  BY <1>1, <1>3 DEF Queued
<1> HIDE DEF q
<1>6. CASE /\ Len(queue[q]) < QueueCap[q] /\ queue' = [queue EXCEPT ![q] = Append(@, e)]
           /\ fate' = [fate EXCEPT ![e] = "queued"]
  <2>1. \A p \in Queues : queue'[p] = IF p = q THEN Append(queue[q], e) ELSE queue[p]
    BY <1>4, <1>6
  <2>2. e \notin ToSet(queue[q]) /\ queue[q] \in Seq(Events) /\ Distinct(queue[q])
    BY <1>3, <1>4, <1>5 DEF InQueue, Queued
  <2>3. /\ Distinct(Append(queue[q], e)) /\ ToSet(Append(queue[q], e)) = ToSet(queue[q]) \cup {e}
        /\ Append(queue[q], e) \in Seq(Events) /\ Len(Append(queue[q], e)) = Len(queue[q]) + 1
        /\ Len(queue[q]) \in Nat
    BY <2>2, AtAppend
  <2> DEFINE s == Append(queue[q], e)
  <2> HIDE DEF s
  <2>4. /\ Distinct(s) /\ ToSet(s) = ToSet(queue[q]) \cup {e} /\ s \in Seq(Events) /\ Len(s) <= QueueCap[q]
        /\ \A p \in Queues : queue'[p] = IF p = q THEN s ELSE queue[p]
    BY <1>4, <1>6, <2>1, <2>3 DEF s
  <2>5. queue' \in [Queues -> Seq(Events)] /\ \A p \in Queues : Len(queue'[p]) <= QueueCap[p]
    <3>1. queue' = [queue EXCEPT ![q] = s]
      BY <1>6 DEF s
    <3>2. queue' \in [Queues -> Seq(Events)]
      BY <1>4, <2>4, <3>1
    <3> QED BY <1>3, <2>4, <3>2 DEF Types
  <2>6. fate' \in [Events -> Fates] /\ \A x \in Events : fate'[x] = IF x = e THEN "queued" ELSE fate[x]
    BY <1>4, <1>6 DEF Fates
  <2>7. Types'
    BY <1>1, <1>3, <2>5, <2>6 DEF Types, threadVars, stateVars, laneVars
  <2>8. \A x \in Events : InQueue(x)' <=> (InQueue(x) \/ x = e)
    BY <1>4, <2>4 DEF InQueue
  <2>9. \A x \in Events : InHeld(x)' <=> InHeld(x)
    BY <1>1 DEF InHeld, stateVars
  <2>10. Queued'
    <3>1. \A p \in Queues : Distinct(queue'[p]) /\ \A x \in ToSet(queue'[p]) : QueueOf(x) = p
      BY <1>3, <2>4 DEF Queued, q
    <3>2. ord' = ord /\ cur' = cur
      BY <1>1 DEF stateVars, threadVars
    <3>3. \A x \in Events : fate'[x] = "queued" <=> InQueue(x)' \/ InHeld(x)' \/ x = cur'
      BY <1>3, <2>6, <2>8, <2>9, <3>2 DEF Queued
    <3>4. \A x \in Events : ~(InQueue(x)' /\ InHeld(x)') /\ ~(InQueue(x)' /\ x = cur') /\ ~(InHeld(x)' /\ x = cur')
      BY <1>3, <1>5, <2>8, <2>9, <3>2 DEF Queued
    <3> QED BY <1>3, <3>1, <3>2, <3>3, <3>4 DEF Queued
  <2>11. MadeOnce'
    <3>1. \A x \in ToSet(made) : x \in Events /\ x # e
      <4>1. ToSet(made) \subseteq Events
        BY <1>3, ToSetType DEF Types
      <4> QED BY <4>1, <1>1, <1>3 DEF MadeOnce, Left
    <3> QED BY <1>1, <1>3, <2>6, <3>1 DEF MadeOnce, stateVars
  <2>12. StopKept'
    <3>1. \A p \in Queues : p \in closed => queue'[p] = queue[p]
      BY <1>1, <2>4 DEF q
    <3>2. ~stopping
      BY <1>1, <1>3 DEF Control, Queues
    <3>3. /\ pc' = pc /\ back' = back /\ open' = open /\ stopping' = stopping /\ closed' = closed
      BY <1>1 DEF threadVars
    <3> QED BY <1>3, <3>1, <3>2, <3>3 DEF StopKept, Passed
  <2> QED BY <2>7, <2>10, <2>11, <2>12, <1>1 DEF PInv, Control, SinkKept, TimeKept, StreamOrder, WaitsKept, HeldKept,
             SinceKept, WaitKept, InWindow, BooksOfPending, LeavesInTime, CleanStop, Index, threadVars,
             stateVars, laneVars, Queues
<1>7. CASE queue' = queue /\ fate' = [fate EXCEPT ![e] = "refused"]
  <2>1. fate' \in [Events -> Fates] /\ \A x \in Events : fate'[x] = IF x = e THEN "refused" ELSE fate[x]
    BY <1>4, <1>7 DEF Fates
  <2>2. Types'
    BY <1>1, <1>3, <1>7, <2>1 DEF Types, threadVars, stateVars, laneVars
  <2>3. Queued'
    BY <1>1, <1>3, <1>5, <1>7, <2>1 DEF Queued, InQueue, InHeld, stateVars, threadVars
  <2>4. MadeOnce'
    <3>1. \A x \in ToSet(made) : x \in Events /\ x # e
      <4>1. ToSet(made) \subseteq Events
        BY <1>3, ToSetType DEF Types
      <4> QED BY <4>1, <1>1, <1>3 DEF MadeOnce, Left
    <3> QED BY <1>1, <1>3, <2>1, <3>1 DEF MadeOnce, stateVars
  <2> QED BY <2>2, <2>3, <2>4, <1>1, <1>7 DEF PInv, Control, SinkKept, TimeKept, StreamOrder, WaitsKept, HeldKept,
             SinceKept, WaitKept, InWindow, StopKept, Passed, BooksOfPending, LeavesInTime, CleanStop, Index,
             threadVars, stateVars, laneVars, Queues
<1> QED BY <1>2, <1>6, <1>7 DEF q

\* The senders of a queue go.
LEMMA CloseQueueInv == ASSUME PInv, NEW q \in Queues, CloseQueue(q) PROVE PInv'
<1>1. /\ pc = q /\ closed' = closed \cup {q}
      /\ UNCHANGED <<clock, queue, threadVars, stateVars, laneVars, history>>
  BY DEF CloseQueue, LooksAt
<1>2. Types'
  BY <1>1 DEF PInv, Types, threadVars, stateVars, laneVars, history
<1>3. StopKept'
  BY <1>1 DEF PInv, StopKept, Passed, threadVars
<1>4. Control' /\ Queued' /\ MadeOnce' /\ SinkKept'
  BY <1>1 DEF PInv, Control, Queued, InQueue, InHeld, MadeOnce, SinkKept, SinkOK, threadVars, stateVars, history
<1>5. TimeKept' /\ WaitsKept'
  BY <1>1 DEF PInv, TimeKept, StreamOrder, WaitsKept, HeldKept, SinceKept, WaitKept, InWindow, threadVars,
                  stateVars, history
<1>6. BooksOfPending' /\ LeavesInTime' /\ CleanStop' /\ CompOK(comp, made)'
  BY <1>1 DEF PInv, BooksOfPending, LeavesInTime, CleanStop, Index, threadVars, stateVars, history
<1> QED BY <1>2, <1>3, <1>4, <1>5, <1>6 DEF PInv

\* A lane answers.
LEMMA AnswerInv == ASSUME PInv, NEW r \in asked, NEW matches \in BOOLEAN, Answer(r, matches) PROVE PInv'
<1>1. /\ asked' = asked \ {r} /\ replies' = replies \cup {[to |-> r, matches |-> matches]}
      /\ UNCHANGED <<clock, queue, closed, threadVars, stateVars, history>>
  BY DEF Answer
<1>2. Types'
  <2>1. r \in Requests
    BY DEF PInv, Types
  <2>2. [to |-> r, matches |-> matches] \in [to : Requests, matches : BOOLEAN]
    BY <2>1
  <2>3. asked' \subseteq Requests /\ replies' \subseteq [to : Requests, matches : BOOLEAN]
    BY <1>1, <2>2 DEF PInv, Types
  <2> QED BY <1>1, <2>3 DEF PInv, Types, threadVars, stateVars, history
<1>3. StopKept'
  BY <1>1 DEF PInv, StopKept, Passed, threadVars
<1>4. Control' /\ Queued' /\ MadeOnce' /\ SinkKept'
  BY <1>1 DEF PInv, Control, Queued, InQueue, InHeld, MadeOnce, SinkKept, SinkOK, threadVars, stateVars, history
<1>5. TimeKept' /\ WaitsKept'
  BY <1>1 DEF PInv, TimeKept, StreamOrder, WaitsKept, HeldKept, SinceKept, WaitKept, InWindow, threadVars,
                  stateVars, history
<1>6. BooksOfPending' /\ LeavesInTime' /\ CleanStop' /\ CompOK(comp, made)'
  BY <1>1 DEF PInv, BooksOfPending, LeavesInTime, CleanStop, Index, threadVars, stateVars, history
<1> QED BY <1>2, <1>3, <1>4, <1>5, <1>6 DEF PInv

\* Time passes.
LEMMA PassesInv == ASSUME PInv, Passes PROVE PInv'
<1>1. /\ pc = "kernel" /\ clock + 1 < Forever /\ clock' = clock + 1
      /\ UNCHANGED <<queue, closed, threadVars, stateVars, laneVars, history>>
  BY DEF Passes, LooksAt
<1>2. Types'
  <2>0. clock \in Nat /\ now \in Nat /\ now <= clock
    BY DEF PInv, Types
  <2>1. clock' \in Nat /\ now <= clock' /\ clock' < Forever
    BY <1>1, <2>0
  <2> QED BY <1>1, <2>1 DEF PInv, Types, threadVars, stateVars, laneVars, history
<1>3. StopKept'
  BY <1>1 DEF PInv, StopKept, Passed, threadVars
<1>4. Control' /\ Queued' /\ MadeOnce' /\ SinkKept'
  BY <1>1 DEF PInv, Control, Queued, InQueue, InHeld, MadeOnce, SinkKept, SinkOK, threadVars, stateVars, history
<1>5. TimeKept' /\ WaitsKept'
  BY <1>1 DEF PInv, TimeKept, StreamOrder, WaitsKept, HeldKept, SinceKept, WaitKept, InWindow, threadVars,
                  stateVars, history
<1>6. BooksOfPending' /\ LeavesInTime' /\ CleanStop' /\ CompOK(comp, made)'
  BY <1>1 DEF PInv, BooksOfPending, LeavesInTime, CleanStop, Index, threadVars, stateVars, history
<1> QED BY <1>2, <1>3, <1>4, <1>5, <1>6 DEF PInv

-----------------------------------------------------------------------------
(* The queues and the replies                                                *)

\* A drain ends: a queue it found closed is empty.
LEMMA DrainEndsInv == ASSUME PInv, DrainEnds PROVE PInv'
<1>1. /\ pc \in Queues /\ (room = 0 \/ queue[pc] = <<>>)
      /\ open' = IF room = 0 \/ pc \notin closed THEN open \cup {pc} ELSE open
      /\ pc' = IF pc = "kernel" THEN "user" ELSE "replies"
      /\ room' = QueueCap["user"]
      /\ UNCHANGED <<clock, queue, closed, back, cur, stopping, stateVars, laneVars, history>>
  BY DEF DrainEnds, EndDrain
<1>2. Types'
  <2>1. room' \in Nat /\ open' \subseteq Queues /\ pc' \in {"user", "replies"}
    BY <1>1, InputFacts DEF PInv, Types
  <2> QED BY <1>1, <2>1 DEF PInv, Types, stateVars, laneVars, history, Queues
<1>3. ~stopping /\ ~stopping' /\ cur = None
  BY <1>1 DEF PInv, Control, Queues
<1>4. StopKept'
  <2>1. ASSUME NEW q \in Queues, Passed(q)', q \notin open' PROVE q \in closed /\ queue[q] = <<>>
    <3>1. CASE q = pc
      BY <1>1, <2>1, <3>1
    <3>2. CASE q # pc
      <4>1. Passed(q)
        BY <1>1, <2>1, <3>2 DEF Passed, Queues
      <4>2. q \notin open
        BY <1>1, <2>1
      <4> QED BY <1>3, <4>1, <4>2 DEF PInv, StopKept
    <3> QED BY <3>1, <3>2
  <2> QED BY <1>1, <1>3, <2>1 DEF StopKept
<1>5. Control'
  BY <1>1, <1>3 DEF PInv, Control, Queues
<1>6. Queued' /\ MadeOnce' /\ SinkKept'
  BY <1>1 DEF PInv, Queued, InQueue, InHeld, MadeOnce, SinkKept, SinkOK, stateVars, history
<1>7. TimeKept' /\ WaitsKept'
  <2>1. pc # "done" /\ pc' # "process" /\ pc' # "done"
    BY <1>1 DEF Queues
  <2>2. UNCHANGED <<stopping, stream, now, ord, clock>>
    BY <1>1 DEF stateVars
  <2>3. UNCHANGED <<files, comp, since, made, stream, now, stopping>>
    BY <1>1 DEF stateVars, history
  <2>4. TimeKept'
    BY <2>1, <2>2 DEF PInv, TimeKept, StreamOrder
  <2>5. WaitsKept'
    BY <2>3 DEF PInv, WaitsKept, HeldKept, SinceKept, WaitKept, InWindow
  <2> QED BY <2>4, <2>5
<1>8. BooksOfPending' /\ LeavesInTime' /\ CleanStop' /\ CompOK(comp, made)'
  BY <1>1 DEF PInv, BooksOfPending, LeavesInTime, CleanStop, stateVars, history
<1> QED BY <1>2, <1>4, <1>5, <1>6, <1>7, <1>8 DEF PInv

\* The replies are applied, and the tick reads the clock.
LEMMA RepliesEndInv == ASSUME PInv, RepliesEnd PROVE PInv'
<1>1. /\ pc = "replies" /\ pc' = "release" /\ now' = IF stopping THEN now ELSE clock
      /\ UNCHANGED <<clock, queue, closed, back, cur, room, open, stopping, ord, comp, files, enrich,
                     slots, requests, stream, laneVars, history>>
  BY DEF RepliesEnd
<1>2. now \in Nat /\ clock \in Nat /\ now <= clock /\ now' \in Nat /\ now' <= clock /\ now <= now'
  BY <1>1 DEF PInv, Types
<1>3. Types'
  BY <1>1, <1>2 DEF PInv, Types, laneVars, history
<1>4. StopKept'
  BY <1>1 DEF PInv, StopKept, Passed
<1>5. Control'
  BY <1>1 DEF PInv, Control, Queues
<1>6. Queued' /\ MadeOnce' /\ SinkKept'
  BY <1>1 DEF PInv, Queued, InQueue, InHeld, MadeOnce, SinkKept, SinkOK, history
<1>7. TimeKept'
  <2>1. stream \in Int /\ ord.last \in Int
    BY DEF PInv, Types
  <2> QED BY <1>1, <1>2, <2>1, InputFacts DEF PInv, TimeKept, StreamOrder
<1>8. WaitsKept'
  <2>1. \A i \in DOMAIN comp.line : since[comp.line[i].ev] <= now'
    <3> SUFFICES ASSUME NEW i \in DOMAIN comp.line PROVE since[comp.line[i].ev] <= now'
      OBVIOUS
    <3>1. since[comp.line[i].ev] <= now
      BY DEF PInv, WaitsKept, SinceKept
    <3>2. comp.line[i].ev \in Events
      BY LineEvents DEF PInv
    <3>3. since[comp.line[i].ev] \in Nat
      BY <3>2 DEF PInv, Types
    <3> QED BY <1>2, <3>1, <3>3
  <2> QED BY <1>1, <2>1 DEF PInv, WaitsKept, HeldKept, SinceKept, WaitKept, InWindow, history
<1>9. BooksOfPending' /\ LeavesInTime' /\ CleanStop' /\ CompOK(comp, made)'
  BY <1>1 DEF PInv, BooksOfPending, LeavesInTime, CleanStop, history
<1> QED BY <1>3, <1>4, <1>5, <1>6, <1>7, <1>8, <1>9 DEF PInv

\* What a drain takes from a queue.
LEMMA DrainFacts ==
  ASSUME PInv, pc \in Queues, room > 0, queue[pc] # <<>>, room' = room - 1,
         queue' = [queue EXCEPT ![pc] = Tail(@)], NEW e, e = Head(queue[pc])
  PROVE  /\ e \in Events /\ fate[e] = "queued" /\ ~InQueue(e)' /\ ~InHeld(e)
         /\ \A x \in Events : InQueue(x) <=> (InQueue(x)' \/ x = e)
         /\ room' \in Nat /\ room' < room /\ queue' \in [Queues -> Seq(Events)]
         /\ \A q \in Queues : /\ Len(queue'[q]) <= QueueCap[q] /\ Distinct(queue'[q])
                              /\ \A x \in ToSet(queue'[q]) : QueueOf(x) = q
                              /\ queue[q] = <<>> => queue'[q] = <<>>
         /\ cur = None /\ ~stopping /\ pc # "done" /\ pc # "process"
<1> DEFINE s == queue[pc]
           t == Tail(s)
<1>1. queue \in [Queues -> Seq(Events)] /\ room \in Nat /\ s \in Seq(Events) /\ s # <<>> /\ Distinct(s)
  BY DEF PInv, Types, Queued
<1>2. /\ e \in ToSet(s) /\ e \in Events /\ t \in Seq(Events)
      /\ Len(t) <= Len(s) /\ Distinct(t) /\ ToSet(t) = ToSet(s) \ {e}
  BY <1>1, TailFacts
<1>3. \A q \in Queues : queue'[q] = IF q = pc THEN t ELSE queue[q]
  BY <1>1
<1>4. queue' \in [Queues -> Seq(Events)]
  BY <1>1, <1>2
<1>5. \A q \in Queues : Len(queue[q]) \in Nat /\ QueueCap[q] \in Nat /\ Len(queue[q]) <= QueueCap[q]
  <2>1. \A q \in Queues : queue[q] \in Seq(Events) /\ QueueCap[q] \in Nat
    BY <1>1, InputFacts
  <2>2. \A q \in Queues : Len(queue[q]) <= QueueCap[q]
    BY DEF PInv, Types
  <2>3. \A q \in Queues : Len(queue[q]) \in Nat
    BY <2>1, LenProperties
  <2> QED BY <2>1, <2>2, <2>3
<1>6. Len(t) \in Nat /\ Len(s) \in Nat
  BY <1>1, <1>2
<1> HIDE DEF t
<1>7. \A q \in Queues : /\ Len(queue'[q]) <= QueueCap[q] /\ Distinct(queue'[q])
                        /\ \A x \in ToSet(queue'[q]) : QueueOf(x) = q
                        /\ queue[q] = <<>> => queue'[q] = <<>>
  <2> SUFFICES ASSUME NEW q \in Queues
               PROVE  /\ Len(queue'[q]) <= QueueCap[q] /\ Distinct(queue'[q])
                      /\ \A x \in ToSet(queue'[q]) : QueueOf(x) = q
                      /\ queue[q] = <<>> => queue'[q] = <<>>
    OBVIOUS
  <2>1. Distinct(queue[q]) /\ \A x \in ToSet(queue[q]) : QueueOf(x) = q
    BY DEF PInv, Queued
  <2>2. CASE q = pc
    BY <1>1, <1>2, <1>3, <1>5, <1>6, <2>1, <2>2
  <2>3. CASE q # pc
    BY <1>3, <1>5, <2>1, <2>3
  <2> QED BY <2>2, <2>3
<1>8. InQueue(e) /\ QueueOf(e) = pc
  BY <1>2 DEF InQueue, PInv, Queued
<1>9. fate[e] = "queued" /\ ~InHeld(e)
  BY <1>2, <1>8 DEF PInv, Queued
<1>10. ~InQueue(e)'
  <2> SUFFICES ASSUME NEW q \in Queues, e \in ToSet(queue'[q]) PROVE FALSE
    BY DEF InQueue
  <2>1. QueueOf(e) = q
    BY <1>7
  <2> QED BY <1>2, <1>3, <1>8, <2>1
<1>11. \A x \in Events : InQueue(x) <=> (InQueue(x)' \/ x = e)
  BY <1>2, <1>3, <1>8 DEF InQueue
<1>12. cur = None /\ ~stopping /\ pc # "done" /\ pc # "process"
  BY DEF PInv, Control, Queues
<1>13. room' \in Nat /\ room' < room
  BY <1>1
<1> QED BY <1>2, <1>4, <1>7, <1>9, <1>10, <1>11, <1>12, <1>13

\* Pipeline::push: a late event is processed at once, the others are held.
LEMMA DrainInv == ASSUME PInv, Drain PROVE PInv'
<1>0. PICK e : e = Head(queue[pc])
  OBVIOUS
<1>1. /\ pc \in Queues /\ room > 0 /\ queue[pc] # <<>> /\ room' = room - 1
      /\ queue' = [queue EXCEPT ![pc] = Tail(@)]
      /\ UNCHANGED <<clock, closed, open, stopping, comp, files, enrich, slots, requests,
                     stream, now, laneVars, history>>
  BY DEF Drain
<1>2. /\ e \in Events /\ fate[e] = "queued" /\ ~InQueue(e)' /\ ~InHeld(e)
      /\ \A x \in Events : InQueue(x) <=> (InQueue(x)' \/ x = e)
      /\ room' \in Nat /\ room' < room /\ queue' \in [Queues -> Seq(Events)]
      /\ \A q \in Queues : /\ Len(queue'[q]) <= QueueCap[q] /\ Distinct(queue'[q])
                           /\ \A x \in ToSet(queue'[q]) : QueueOf(x) = q
                           /\ queue[q] = <<>> => queue'[q] = <<>>
      /\ cur = None /\ ~stopping /\ pc # "done" /\ pc # "process"
  BY <1>0, <1>1, DrainFacts
<1>3. \/ /\ Ts(e) < stream \/ TooLate(ord, Ts(e))
         /\ cur' = e /\ pc' = "process" /\ back' = pc /\ ord' = ord
      \/ /\ Ts(e) >= stream /\ ~TooLate(ord, Ts(e))
         /\ ord' = PushHeld(ord, e, Ts(e)) /\ UNCHANGED <<pc, back, cur>>
  BY <1>0 DEF Drain, Process
<1>4. MadeOnce' /\ SinkKept' /\ WaitsKept'
  BY <1>1 DEF PInv, MadeOnce, SinkKept, SinkOK, WaitsKept, HeldKept, SinceKept, WaitKept, InWindow, history
<1>5. BooksOfPending' /\ CompOK(comp, made)'
  BY <1>1 DEF PInv, BooksOfPending, history
<1>6. room \in Nat /\ ord \in [held : SUBSET HeldType, seq : Nat, last : Int] /\ Ts(e) \in Nat
      /\ stream \in Int /\ now \in Nat /\ clock \in Nat /\ now <= clock
  BY <1>2, InputFacts DEF PInv, Types
<1>7. e # None
  BY <1>2, NoneAssumption
<1>8. QueueCap["kernel"] \in Nat /\ (pc = "kernel" => room <= QueueCap["kernel"])
  BY InputFacts DEF PInv, Control
<1>9. CASE /\ Ts(e) < stream \/ TooLate(ord, Ts(e))
           /\ cur' = e /\ pc' = "process" /\ back' = pc /\ ord' = ord
  <2>1. Types'
    BY <1>1, <1>2, <1>9 DEF PInv, Types, laneVars, history
  <2>2. Control'
    BY <1>1, <1>2, <1>6, <1>8, <1>9 DEF PInv, Control, Queues
  <2>3. Queued'
    <3>1. \A x \in Events : InHeld(x)' <=> InHeld(x)
      BY <1>9 DEF InHeld
    <3>2. \A x \in Events : fate'[x] = "queued" <=> InQueue(x)' \/ InHeld(x)' \/ x = cur'
      BY <1>1, <1>2, <1>9, <3>1, NoneAssumption DEF PInv, Queued, history
    <3>3. \A x \in Events : ~(InQueue(x)' /\ InHeld(x)') /\ ~(InQueue(x)' /\ x = cur') /\ ~(InHeld(x)' /\ x = cur')
      <4> SUFFICES ASSUME NEW x \in Events
                   PROVE  ~(InQueue(x)' /\ InHeld(x)') /\ ~(InQueue(x)' /\ x = cur') /\ ~(InHeld(x)' /\ x = cur')
        OBVIOUS
      <4>1. ~(InQueue(x) /\ InHeld(x))
        BY DEF PInv, Queued
      <4> QED BY <1>2, <1>9, <3>1, <4>1
    <3> QED BY <1>2, <1>9, <3>2, <3>3 DEF PInv, Queued
  <2>4. TimeKept'
    <3>1. clock > Ts(e) + Hold
      <4>1. stream = Never \/ stream + Hold <= now
        BY <1>2 DEF PInv, TimeKept
      <4>2. ord.last = Never \/ ord.last + Hold <= now
        BY <1>2 DEF PInv, TimeKept
      <4>3. CASE Ts(e) < stream
        BY <1>6, <4>1, <4>3, InputFacts
      <4>4. CASE Ts(e) < ord.last
        <5>1. ord.last \in Int
          BY <1>6
        <5> QED BY <1>6, <4>2, <4>4, <5>1, InputFacts
      <4> QED BY <1>9, <4>3, <4>4 DEF TooLate
    <3>2. StreamOrder'
      BY <1>1, <1>9, <3>1 DEF StreamOrder, Ts
    <3> QED BY <1>1, <1>2, <1>9, <3>2 DEF PInv, TimeKept
  <2>5. StopKept'
    <3>1. \A q \in Queues : Passed(q)' => Passed(q)
      BY <1>1, <1>9 DEF Passed, Queues
    <3> QED BY <1>1, <1>2, <3>1 DEF PInv, StopKept
  <2>6. LeavesInTime' /\ CleanStop'
    BY <1>9 DEF LeavesInTime, CleanStop
  <2> QED BY <1>4, <1>5, <2>1, <2>2, <2>3, <2>4, <2>5, <2>6 DEF PInv
<1>10. CASE /\ Ts(e) >= stream /\ ~TooLate(ord, Ts(e))
            /\ ord' = PushHeld(ord, e, Ts(e)) /\ UNCHANGED <<pc, back, cur>>
  <2> DEFINE h == [ts |-> Ts(e), seq |-> ord.seq + 1, ev |-> e]
  <2>1. h \in HeldType /\ h.ev = e /\ h.ts = Ts(e)
    BY <1>2, <1>6 DEF HeldType
  <2> DEFINE held == ord.held \cup {h}
             seq == ord.seq + 1
  <2>2. held \subseteq HeldType /\ seq \in Nat
    BY <1>6, <2>1
  <2>3. ord' = [ord EXCEPT !.held = held, !.seq = seq]
    BY <1>10 DEF PushHeld
  <2> HIDE DEF held, seq
  <2>4. ord' = [held |-> held, seq |-> seq, last |-> ord.last]
    <3>1. PICK a, b, c : ord = [held |-> a, seq |-> b, last |-> c]
      BY <1>6
    <3> QED BY <2>3, <3>1
  <2>5. ord' \in [held : SUBSET HeldType, seq : Nat, last : Int]
    BY <1>6, <2>2, <2>4
  <2>6. ord'.held = ord.held \cup {h} /\ ord'.last = ord.last
    BY <2>4 DEF held
  <2> HIDE DEF h
  <2>7. Types'
    BY <1>1, <1>2, <1>10, <2>5 DEF PInv, Types, laneVars, history
  <2>8. Control'
    BY <1>1, <1>2, <1>6, <1>8, <1>10 DEF PInv, Control, Queues
  <2>9. Queued'
    <3>1. \A x \in Events : InHeld(x)' <=> InHeld(x) \/ x = e
      BY <2>1, <2>6 DEF InHeld
    <3>2. \A x \in Events : fate'[x] = "queued" <=> InQueue(x)' \/ InHeld(x)' \/ x = cur'
      BY <1>1, <1>2, <1>10, <3>1 DEF PInv, Queued, history
    <3>3. \A x \in Events : ~(InQueue(x)' /\ InHeld(x)') /\ ~(InQueue(x)' /\ x = cur') /\ ~(InHeld(x)' /\ x = cur')
      <4> SUFFICES ASSUME NEW x \in Events
                   PROVE  ~(InQueue(x)' /\ InHeld(x)') /\ ~(InQueue(x)' /\ x = cur') /\ ~(InHeld(x)' /\ x = cur')
        OBVIOUS
      <4>1. ~(InQueue(x) /\ InHeld(x)) /\ x # cur'
        BY <1>2, <1>10, NoneAssumption DEF PInv, Queued
      <4> QED BY <1>2, <3>1, <4>1
    <3>4. \A x \in ord'.held : x.ts = Ts(x.ev)
      BY <2>1, <2>6 DEF PInv, Queued
    <3>5. \A x, y \in ord'.held : x.ev = y.ev => x = y
      BY <1>2, <2>1, <2>6 DEF PInv, Queued, InHeld
    <3> QED BY <1>2, <3>2, <3>3, <3>4, <3>5 DEF PInv, Queued
  <2>10. TimeKept'
    <3>1. Ts(e) >= ord.last
      BY <1>6, <1>10 DEF TooLate
    <3>2. \A x \in ord'.held : x.ts >= stream /\ x.ts >= ord.last
      BY <1>10, <2>1, <2>6, <3>1 DEF PInv, TimeKept
    <3>3. StreamOrder'
      BY <1>2, <1>10 DEF StreamOrder
    <3> QED BY <1>1, <1>2, <1>10, <2>6, <3>2, <3>3 DEF PInv, TimeKept
  <2>11. StopKept'
    <3>1. \A q \in Queues : Passed(q)' => Passed(q)
      BY <1>1, <1>10 DEF Passed
    <3> QED BY <1>1, <1>2, <3>1 DEF PInv, StopKept
  <2>12. LeavesInTime'
    <3>1. ~(pc' = "kernel" /\ room' = QueueCap["kernel"])
      BY <1>2, <1>6, <1>8, <1>10
    <3> QED BY <3>1 DEF LeavesInTime
  <2>13. CleanStop'
    BY <1>2, <1>10 DEF CleanStop
  <2> QED BY <1>4, <1>5, <2>7, <2>8, <2>9, <2>10, <2>11, <2>12, <2>13 DEF PInv
<1> QED BY <1>3, <1>9, <1>10

\* on_enriched: an answer resolves a wait at most, and the request is closed.
LEMMA EnrichedInv == ASSUME PInv, Enriched PROVE PInv'
<1>1. /\ pc = "replies"
      /\ UNCHANGED <<clock, queue, closed, threadVars, ord, files, slots, requests, stream, now, asked, history>>
  BY DEF Enriched
<1>2. PICK r \in replies :
        /\ replies' = replies \ {r} /\ enrich' = enrich \ {r.to[1]}
        /\ comp' = IF r.to[1] \in enrich /\ IsWaiting(comp, r.to[1], "enrich")
                   THEN Resolve(comp, r.to[1], "enrich") ELSE comp
  BY DEF Enriched
<1> DEFINE d == ResolveAll(comp, {r.to[1]}, "enrich")
<1>3. CompOK(comp, made)
  BY DEF PInv
<1>4. /\ CompOK(d, made) /\ d.line = comp.line /\ d.pending = comp.pending /\ d.exited = comp.exited
      /\ \A e \in Events : d.waits[e] = IF e \in {r.to[1]} THEN {w \in comp.waits[e] : w.reason # "enrich"}
                                        ELSE comp.waits[e]
  BY <1>3, ResolveAllFacts
<1>5. comp' = d \/ comp' = comp
  BY <1>2 DEF Resolve
<1> HIDE DEF d
<1>6. /\ CompOK(comp', made) /\ comp'.line = comp.line /\ comp'.pending = comp.pending /\ comp'.exited = comp.exited
      /\ \A e \in Events : comp'.waits[e] \subseteq comp.waits[e]
  BY <1>3, <1>4, <1>5
<1>7. Types'
  BY <1>1, <1>2 DEF PInv, Types, threadVars, history
<1>8. Control' /\ Queued' /\ StopKept'
  BY <1>1 DEF PInv, Control, Queued, InQueue, InHeld, StopKept, Passed, threadVars, history
<1>9. MadeOnce' /\ SinkKept' /\ CompOK(comp, made)'
  BY <1>1, <1>6 DEF PInv, MadeOnce, SinkKept, SinkOK, history
<1>10. TimeKept'
  BY <1>1 DEF PInv, TimeKept, StreamOrder, threadVars
<1>11. WaitsKept'
  <2>1. comp.pending \subseteq Events
    BY <1>3 DEF CompOK, CompType
  <2>2. \A e \in comp.pending : \A w \in comp'.waits[e] : WaitKept(e, w)
    BY <1>6, <2>1 DEF PInv, WaitsKept
  <2>3. UNCHANGED <<files, made, since, stream, now, stopping>>
    BY <1>1 DEF history, threadVars
  <2> QED BY <1>6, <2>2, <2>3 DEF PInv, WaitsKept, HeldKept, SinceKept, WaitKept, InWindow
<1>12. BooksOfPending'
  BY <1>1, <1>2, <1>6 DEF PInv, BooksOfPending
<1>13. LeavesInTime' /\ CleanStop'
  BY <1>1 DEF LeavesInTime, CleanStop, threadVars
<1> QED BY <1>7, <1>8, <1>9, <1>10, <1>11, <1>12, <1>13 DEF PInv

\* on_expanded: the last answer resolves a wait, or an Open is cancelled.
LEMMA ExpandedInv == ASSUME PInv, Expanded PROVE PInv'
<1>1. /\ pc = "replies"
      /\ UNCHANGED <<clock, queue, closed, threadVars, ord, files, enrich, requests, stream, now,
                     asked, sink, late, made, since>>
  BY DEF Expanded
<1>2. PICK r \in replies :
        LET e == r.to[1]
            waits == r.to \in slots /\ IsWaiting(comp, e, "expand")
        IN /\ replies' = replies \ {r} /\ slots' = slots \ {r.to}
           /\ comp' = IF waits /\ Unmatched(r) THEN Cancel(comp, e)
                      ELSE IF waits /\ LastSlot(e) THEN Resolve(comp, e, "expand")
                      ELSE comp
           /\ fate' = IF waits /\ Unmatched(r) THEN [fate EXCEPT ![e] = "unmatched"] ELSE fate
  BY DEF Expanded
<1>3. PICK e : e = r.to[1]
  OBVIOUS
<1> DEFINE waits == r.to \in slots /\ IsWaiting(comp, e, "expand")
           cancels == waits /\ Unmatched(r)
           d == ResolveAll(comp, {e}, "expand")
           g == Gone(comp, {e})
<1>4. CompOK(comp, made) /\ comp.pending \subseteq Events /\ comp.pending \subseteq ToSet(made)
  BY PendingMade DEF PInv, CompOK, CompType
<1>5. /\ replies' = replies \ {r} /\ slots' = slots \ {r.to}
      /\ cancels => comp' = g /\ fate' = [fate EXCEPT ![e] = "unmatched"]
      /\ ~cancels => (comp' = d \/ comp' = comp) /\ fate' = fate
  BY <1>2, <1>3 DEF Cancel, Resolve
<1>6. /\ CompOK(d, made) /\ d.line = comp.line /\ d.pending = comp.pending /\ d.exited = comp.exited
      /\ \A x \in Events : d.waits[x] \subseteq comp.waits[x]
  <2>1. PICK es : es = {e}
    OBVIOUS
  <2>2. LET f == ResolveAll(comp, es, "expand") IN
        /\ CompOK(f, made) /\ f.line = comp.line /\ f.pending = comp.pending /\ f.exited = comp.exited
        /\ \A y \in Events : f.waits[y] = IF y \in es THEN {w \in comp.waits[y] : w.reason # "expand"}
                                          ELSE comp.waits[y]
    BY <1>4, ResolveAllFacts
  <2>3. d = ResolveAll(comp, es, "expand")
    BY <2>1
  <2> HIDE DEF d
  <2> QED BY <2>2, <2>3
<1>7. /\ CompOK(g, made)
      /\ g.line = comp.line /\ g.pending = comp.pending \ {e}
      /\ g.exited = comp.exited \cup ({e} \cap comp.pending)
      /\ \A x \in Events : g.waits[x] = IF x \in {e} THEN {} ELSE comp.waits[x]
  BY <1>4, GoneFacts
<1>8. cancels => e \in comp.pending
  BY DEF IsWaiting
<1> HIDE DEF d, g, cancels
<1>9. /\ CompOK(comp', made) /\ comp'.line = comp.line
      /\ comp'.pending = IF cancels THEN comp.pending \ {e} ELSE comp.pending
      /\ comp'.exited = IF cancels THEN comp.exited \cup {e} ELSE comp.exited
      /\ \A x \in Events : comp'.waits[x] \subseteq comp.waits[x]
  <2>1. CASE cancels
    BY <1>5, <1>7, <1>8, <2>1
  <2>2. CASE ~cancels
    BY <1>4, <1>5, <1>6, <2>2
  <2> QED BY <2>1, <2>2
<1>10. /\ fate' \in [Events -> Fates]
       /\ \A x \in Events : fate'[x] = IF cancels /\ x = e THEN "unmatched" ELSE fate[x]
  <2>1. fate \in [Events -> Fates]
    BY DEF PInv, Types
  <2>2. "unmatched" \in Fates
    BY DEF Fates, Left
  <2>3. CASE cancels
    BY <1>4, <1>5, <1>8, <2>1, <2>2, <2>3
  <2>4. CASE ~cancels
    BY <1>5, <2>1, <2>4
  <2> QED BY <2>3, <2>4
<1>11. Types'
  BY <1>1, <1>5, <1>10 DEF PInv, Types, threadVars
<1>12. Control' /\ StopKept'
  BY <1>1 DEF PInv, Control, StopKept, Passed, threadVars
<1>13. cancels => fate[e] \in {"made"} \cup Left
  BY <1>4, <1>8 DEF PInv, MadeOnce
<1>14. Queued'
  <2>1. \A x \in Events : fate'[x] = "queued" <=> fate[x] = "queued"
    BY <1>10, <1>13 DEF Left
  <2> QED BY <1>1, <2>1 DEF PInv, Queued, InQueue, InHeld, threadVars
<1>15. MadeOnce'
  <2>1. \A x \in ToSet(made) : fate'[x] \in {"made"} \cup Left
    <3>1. ToSet(made) \subseteq Events
      BY ToSetType DEF PInv, Types
    <3> QED BY <1>10, <3>1 DEF PInv, MadeOnce, Left
  <2>2. ASSUME NEW x \in Events, fate'[x] = "made"
        PROVE  \E i \in DOMAIN comp'.line : comp'.line[i].ev = x /\ (comp'.line[i].ready \/ x \in comp'.pending)
    <3>1. fate[x] = "made" /\ ~(cancels /\ x = e)
      BY <1>10, <2>2
    <3>2. PICK i \in DOMAIN comp.line : comp.line[i].ev = x /\ (comp.line[i].ready \/ x \in comp.pending)
      BY <3>1 DEF PInv, MadeOnce
    <3>3. x \in comp.pending => x \in comp'.pending
      BY <1>9, <3>1
    <3> QED BY <1>9, <3>2, <3>3
  <2> QED BY <1>1, <2>1, <2>2 DEF PInv, MadeOnce
<1>16. SinkKept' /\ CompOK(comp, made)'
  BY <1>1, <1>9 DEF PInv, SinkKept, SinkOK
<1>17. TimeKept'
  BY <1>1 DEF PInv, TimeKept, StreamOrder, threadVars
<1>18. WaitsKept'
  <2>1. comp'.pending \subseteq comp.pending
    BY <1>9
  <2>2. \A x \in comp'.pending : \A w \in comp'.waits[x] : WaitKept(x, w)
    BY <1>4, <1>9, <2>1 DEF PInv, WaitsKept
  <2>3. UNCHANGED <<files, made, since, stream, now, stopping>>
    BY <1>1 DEF threadVars
  <2> QED BY <1>9, <2>1, <2>2, <2>3 DEF PInv, WaitsKept, HeldKept, SinceKept, WaitKept, InWindow
<1>19. BooksOfPending'
  BY <1>1, <1>5, <1>9 DEF PInv, BooksOfPending
<1>20. LeavesInTime' /\ CleanStop'
  BY <1>1 DEF LeavesInTime, CleanStop, threadVars
<1> QED BY <1>11, <1>12, <1>14, <1>15, <1>16, <1>17, <1>18, <1>19, <1>20 DEF PInv

-----------------------------------------------------------------------------
(* Pipeline::process                                                         *)

\* The event in process is in no other place, and not made yet.
LEMMA CurFacts ==
  ASSUME PInv, pc = "process"
  PROVE  /\ cur \in Events /\ cur # None /\ fate[cur] = "queued" /\ cur \notin ToSet(made)
         /\ ~InQueue(cur) /\ ~InHeld(cur) /\ back \in Queues \cup {"release"}
<1>1. cur \in Events /\ back \in Queues \cup {"release"}
  BY DEF PInv, Control
<1>2. fate[cur] = "queued" /\ ~InQueue(cur) /\ ~InHeld(cur)
  BY <1>1 DEF PInv, Queued
<1>3. cur \notin ToSet(made)
  BY <1>2 DEF PInv, MadeOnce, Left
<1> QED BY <1>1, <1>2, <1>3, NoneAssumption

\* What every handler leaves as it is, as long as the event is queued no more.
LEMMA ProcessFrame ==
  ASSUME PInv, pc = "process", pc' = back, back' = None, cur' = None,
         UNCHANGED <<clock, queue, closed, room, open, stopping, ord, stream, now, laneVars, sink>>,
         fate' \in [Events -> Fates], fate'[cur] # "queued",
         \A x \in Events : x # cur => (fate'[x] = "queued" <=> fate[x] = "queued")
  PROVE  Control' /\ Queued' /\ TimeKept' /\ StopKept' /\ LeavesInTime' /\ CleanStop'
<1>1. /\ cur \in Events /\ cur # None /\ fate[cur] = "queued" /\ ~InQueue(cur) /\ ~InHeld(cur)
      /\ back \in Queues \cup {"release"}
  BY CurFacts
<1>2. pc' # "process" /\ pc' # "done" /\ pc' = back
  BY <1>1 DEF Queues
<1>3. room \in Nat /\ QueueCap["kernel"] \in Nat /\ (pc' = "kernel" => room < QueueCap["kernel"])
  BY InputFacts DEF PInv, Types, Control
<1>4. Control'
  BY <1>1, <1>2, <1>3 DEF PInv, Control
<1>5. Queued'
  <2>1. \A x \in Events : (InQueue(x)' <=> InQueue(x)) /\ (InHeld(x)' <=> InHeld(x))
    BY DEF InQueue, InHeld
  <2>2. \A x \in Events : fate'[x] = "queued" <=> InQueue(x)' \/ InHeld(x)' \/ x = cur'
    BY <1>1, <2>1, NoneAssumption DEF PInv, Queued
  <2>3. ASSUME NEW x \in Events
        PROVE  ~(InQueue(x)' /\ InHeld(x)') /\ ~(InQueue(x)' /\ x = cur') /\ ~(InHeld(x)' /\ x = cur')
    <3>1. ~(InQueue(x) /\ InHeld(x)) /\ x # cur'
      BY NoneAssumption DEF PInv, Queued
    <3> QED BY <2>1, <3>1
  <2> QED BY <2>2, <2>3 DEF PInv, Queued
<1>6. TimeKept'
  BY <1>2 DEF PInv, TimeKept, StreamOrder
<1>7. StopKept'
  <2>1. \A q \in Queues : Passed(q)' <=> Passed(q)
    BY <1>1, <1>2 DEF Passed, Queues
  <2> QED BY <2>1 DEF PInv, StopKept
<1>8. LeavesInTime'
  <2>1. ~(pc' = "kernel" /\ room' = QueueCap["kernel"])
    BY <1>3
  <2> QED BY <2>1 DEF LeavesInTime
<1>9. CleanStop'
  BY <1>2 DEF CleanStop
<1> QED BY <1>4, <1>5, <1>6, <1>7, <1>8, <1>9

\* An event enters the line: what was there before it stays.
LEMMA MadeFacts ==
  ASSUME PInv, pc = "process", Made(cur), sink' = sink, now' = now, CompOK(comp', made'),
         NEW slot \in Slot, slot.ev = cur, comp'.line = Append(comp.line, slot)
  PROVE  /\ made' \in Seq(Events) /\ since' \in [Events -> Nat] /\ Distinct(made')
         /\ ToSet(made') = ToSet(made) \cup {cur}
         /\ \A x \in ToSet(made) : x # cur /\ At(made', x) = At(made, x) /\ At(made, x) < At(made', cur)
         /\ since'[cur] = now /\ \A x \in Events : x # cur => since'[x] = since[x]
         /\ SinkKept' /\ SinceKept'
         /\ \A i \in DOMAIN comp.line : i \in DOMAIN comp'.line /\ comp'.line[i] = comp.line[i]
         /\ \E i \in DOMAIN comp'.line : comp'.line[i] = slot
<1>1. cur \in Events /\ cur \notin ToSet(made)
  BY CurFacts
<1>2. made' = Append(made, cur) /\ since' = [since EXCEPT ![cur] = now]
  BY DEF Made
<1>3. made \in Seq(Events) /\ since \in [Events -> Nat] /\ now \in Nat /\ Distinct(made)
  BY DEF PInv, Types, MadeOnce
<1>4. /\ Distinct(made') /\ ToSet(made') = ToSet(made) \cup {cur} /\ made' \in Seq(Events)
      /\ \A x \in ToSet(made) : At(made', x) = At(made, x) /\ At(made, x) \in 1..Len(made)
      /\ At(made', cur) = Len(made) + 1
  BY <1>1, <1>2, <1>3, AtAppend
<1>5. \A x \in ToSet(made) : x # cur /\ At(made', x) = At(made, x) /\ At(made, x) < At(made', cur)
  <2>1. \A a \in 1..Len(made) : a < Len(made) + 1
    BY <1>3, LenProperties
  <2> QED BY <1>1, <1>4, <2>1
<1>6. since' \in [Events -> Nat] /\ since'[cur] = now /\ \A x \in Events : x # cur => since'[x] = since[x]
  BY <1>1, <1>2, <1>3
<1>7. CompOK(comp, made) /\ LineKept(comp, made)
  BY DEF PInv, CompOK
<1> DEFINE L == Len(comp.line)
<1>8. comp.line \in Seq(Slot) /\ L \in Nat /\ DOMAIN comp.line = 1..L /\ \A i \in 1..L : comp.line[i].ev \in Events
  BY <1>7, LineEvents
<1>9. /\ DOMAIN comp'.line = 1..L + 1 /\ comp'.line[L + 1] = slot
      /\ \A i \in 1..L : comp'.line[i] = comp.line[i]
  BY <1>8
<1> HIDE DEF L
<1>10. \A i \in 1..L : comp.line[i].ev \in ToSet(made) /\ comp.line[i].ev # cur
  BY <1>1, <1>7, <1>8 DEF LineKept
<1>11. SinkKept'
  <2>1. SinkOK(sink, comp, made)
    BY DEF PInv, SinkKept
  <2>2. \A i \in DOMAIN sink : sink[i] \in ToSet(made)
    BY <2>1 DEF SinkOK
  <2>3. ASSUME NEW i \in DOMAIN sink, NEW j \in 1..L + 1 PROVE At(made', sink[i]) < At(made', comp'.line[j].ev)
    <3>1. CASE j \in 1..L
      <4>1. At(made, sink[i]) < At(made, comp.line[j].ev)
        BY <1>8, <2>1, <3>1 DEF SinkOK
      <4> QED BY <4>1, <1>5, <1>9, <1>10, <2>2, <3>1
    <3>2. CASE j = L + 1
      BY <1>5, <1>9, <2>2, <3>2
    <3> QED BY <1>8, <3>1, <3>2
  <2>4. \A i, j \in DOMAIN sink : i < j => At(made', sink[i]) < At(made', sink[j])
    BY <1>5, <2>1, <2>2 DEF SinkOK
  <2>5. \A i \in DOMAIN sink : sink[i] \in ToSet(made')
    BY <1>4, <2>2
  <2> QED BY <1>9, <2>3, <2>4, <2>5 DEF SinkKept, SinkOK
<1>12. SinceKept'
  <2>1. /\ \A i \in 1..L : since[comp.line[i].ev] <= now
        /\ \A i, j \in 1..L : i < j => since[comp.line[i].ev] <= since[comp.line[j].ev]
    BY <1>8 DEF PInv, WaitsKept, SinceKept
  <2>2. \A i \in 1..L : since'[comp'.line[i].ev] = since[comp.line[i].ev]
    BY <1>6, <1>8, <1>9, <1>10
  <2>3. since'[comp'.line[L + 1].ev] = now
    BY <1>6, <1>9
  <2>4. \A i \in 1..L + 1 : since'[comp'.line[i].ev] <= now
    <3> SUFFICES ASSUME NEW i \in 1..L + 1 PROVE since'[comp'.line[i].ev] <= now
      OBVIOUS
    <3>1. CASE i \in 1..L
      BY <2>1, <2>2, <3>1
    <3>2. CASE i = L + 1
      <4>1. now <= now
        BY <1>3
      <4>2. since'[comp'.line[i].ev] = now
        BY <2>3, <3>2
      <4> QED BY <4>1, <4>2
    <3> QED BY <1>8, <3>1, <3>2
  <2>5. ASSUME NEW i \in 1..L + 1, NEW j \in 1..L + 1, i < j
        PROVE  since'[comp'.line[i].ev] <= since'[comp'.line[j].ev]
    <3>1. i \in 1..L
      BY <1>8, <2>5
    <3>2. CASE j \in 1..L
      BY <2>1, <2>2, <2>5, <3>1, <3>2
    <3>3. CASE j = L + 1
      BY <2>3, <2>4, <3>3
    <3> QED BY <1>8, <3>2, <3>3
  <2> QED BY <1>9, <2>4, <2>5 DEF SinceKept
<1>13. L + 1 \in DOMAIN comp'.line /\ \A i \in 1..L : i \in DOMAIN comp'.line
  BY <1>8, <1>9
<1> QED BY <1>4, <1>5, <1>6, <1>8, <1>9, <1>11, <1>12, <1>13

\* The parts of the state that the handlers edit.
ProcessParts == Types /\ CompOK(comp, made) /\ MadeOnce /\ SinkKept /\ WaitsKept /\ BooksOfPending

\* A handler keeps the invariant if it keeps these parts.
LEMMA HandlerInv ==
  ASSUME PInv, pc = "process", pc' = back, back' = None, cur' = None,
         UNCHANGED <<clock, queue, closed, room, open, stopping, ord, stream, now, laneVars, sink>>,
         fate'[cur] # "queued",
         \A x \in Events : x # cur => (fate'[x] = "queued" <=> fate[x] = "queued"),
         ProcessParts'
  PROVE  PInv'
<1>1. fate' \in [Events -> Fates]
  BY DEF ProcessParts, Types
<1>2. Control' /\ Queued' /\ TimeKept' /\ StopKept' /\ LeavesInTime' /\ CleanStop'
  BY <1>1, ProcessFrame
<1> QED BY <1>2 DEF PInv, ProcessParts

\* The frame of the handlers, and the types they leave.
HandlerFrame ==
    /\ pc = "process" /\ pc' = back /\ back' = None /\ cur' = None
    /\ UNCHANGED <<clock, queue, closed, room, open, stopping, ord, stream, now, laneVars, sink>>

\* A fate is given to the event in process.
LEMMA NewFate ==
  ASSUME PInv, pc = "process", NEW f \in Fates, f # "queued", fate' = [fate EXCEPT ![cur] = f]
  PROVE  /\ fate' \in [Events -> Fates] /\ fate'[cur] = f
         /\ \A x \in Events : x # cur => fate'[x] = fate[x]
<1>1. cur \in Events /\ fate \in [Events -> Fates]
  BY CurFacts DEF PInv, Types
<1> QED BY <1>1

\* Ready events enter the line.
LEMMA ReadyInv == ASSUME PInv, HandlerFrame, Ready PROVE PInv'
<1> DEFINE slot == [ev |-> cur, ready |-> TRUE]
<1>1. /\ comp' = PushReady(comp, cur) /\ fate' = [fate EXCEPT ![cur] = "made"] /\ Made(cur)
      /\ UNCHANGED <<files, enrich, slots, requests>>
  BY DEF Ready
<1>2. cur \in Events /\ cur # None /\ fate[cur] = "queued" /\ cur \notin ToSet(made)
  BY CurFacts DEF HandlerFrame
<1>3. /\ fate' \in [Events -> Fates] /\ fate'[cur] = "made"
      /\ \A x \in Events : x # cur => fate'[x] = fate[x]
  BY <1>1, NewFate DEF HandlerFrame, Fates
<1>4. made \in Seq(Events) /\ Distinct(made) /\ CompOK(comp, made) /\ made' = Append(made, cur)
  BY <1>1 DEF PInv, Types, MadeOnce, Made
<1>5. /\ CompOK(comp', made') /\ comp'.line = Append(comp.line, slot)
      /\ comp'.pending = comp.pending /\ comp'.waits = comp.waits /\ comp'.exited = comp.exited
  BY <1>1, <1>2, <1>4, PushReadyFacts
<1>6. slot \in Slot /\ slot.ev = cur /\ slot.ready
  BY <1>2 DEF Slot
<1> HIDE DEF slot
<1>7. /\ made' \in Seq(Events) /\ since' \in [Events -> Nat] /\ Distinct(made')
      /\ ToSet(made') = ToSet(made) \cup {cur}
      /\ \A x \in ToSet(made) : x # cur /\ At(made', x) = At(made, x) /\ At(made, x) < At(made', cur)
      /\ since'[cur] = now /\ \A x \in Events : x # cur => since'[x] = since[x]
      /\ SinkKept' /\ SinceKept'
      /\ \A i \in DOMAIN comp.line : i \in DOMAIN comp'.line /\ comp'.line[i] = comp.line[i]
      /\ \E i \in DOMAIN comp'.line : comp'.line[i] = slot
  BY <1>1, <1>5, <1>6, MadeFacts DEF HandlerFrame
<1>8. ToSet(made) \subseteq Events /\ comp.pending \subseteq ToSet(made)
  BY <1>4, ToSetType, PendingMade DEF CompOK
<1>9. Types'
  BY <1>1, <1>2, <1>3, <1>7 DEF PInv, Types, HandlerFrame, laneVars, Control
<1>10. MadeOnce'
  <2>1. \A x \in ToSet(made') : fate'[x] \in {"made"} \cup Left
    BY <1>3, <1>7, <1>8 DEF PInv, MadeOnce
  <2>2. ASSUME NEW x \in Events, fate'[x] = "made"
        PROVE  \E i \in DOMAIN comp'.line : comp'.line[i].ev = x /\ (comp'.line[i].ready \/ x \in comp'.pending)
    <3>1. CASE x = cur
      BY <1>6, <1>7, <3>1
    <3>2. CASE x # cur
      <4>1. PICK i \in DOMAIN comp.line : comp.line[i].ev = x /\ (comp.line[i].ready \/ x \in comp.pending)
        BY <1>3, <2>2, <3>2 DEF PInv, MadeOnce
      <4> QED BY <1>5, <1>7, <4>1
    <3> QED BY <3>1, <3>2
  <2> QED BY <1>1, <1>7, <2>1, <2>2 DEF PInv, MadeOnce
<1>11. WaitsKept'
  <2>1. UNCHANGED <<files, stream, stopping>>
    BY <1>1 DEF HandlerFrame
  <2>2. HeldKept'
    BY <1>7, <2>1 DEF PInv, WaitsKept, HeldKept
  <2>3. \A e \in comp'.pending : since'[e] = since[e]
    BY <1>5, <1>7, <1>8
  <2>4. \A e \in comp'.pending : \A w \in comp'.waits[e] : WaitKept(e, w)'
    BY <1>5, <2>1, <2>3 DEF PInv, WaitsKept, WaitKept
  <2>5. ~stopping' => \A k \in DOMAIN files'.held : files'.held[k].ev \in comp'.pending => InWindow(k)'
    BY <1>5, <2>1, <2>3 DEF PInv, WaitsKept, InWindow
  <2> QED BY <1>7, <2>2, <2>4, <2>5 DEF WaitsKept
<1>12. BooksOfPending'
  BY <1>1, <1>5 DEF PInv, BooksOfPending
<1>13. ProcessParts'
  BY <1>5, <1>7, <1>9, <1>10, <1>11, <1>12 DEF ProcessParts
<1> QED BY <1>3, <1>13, HandlerInv DEF HandlerFrame

\* The waits with a deadline that a handler gives an event.
LEMMA ExpandsFacts ==
  ASSUME PInv, NEW e \in Events, NEW drop \in BOOLEAN
  PROVE  /\ Expands(e, drop) \in SUBSET Wait
         /\ \A w \in Expands(e, drop) : w.reason = "expand" /\ w.deadline # NoDeadline /\ w.deadline <= now + MayWait
         /\ WaitFor("enrich", now + EnrichDeadline, FALSE) \in Wait
         /\ WaitFor("enrich", now + EnrichDeadline, FALSE).deadline # NoDeadline
         /\ WaitFor("enrich", now + EnrichDeadline, FALSE).deadline <= now + MayWait
         /\ WaitFor("confirm", NoDeadline, FALSE) \in Wait
<1>1. now \in Nat
  BY DEF PInv, Types
<1>2. /\ EnrichDeadline \in Nat \ {0} /\ ExpandDeadline \in Nat \ {0} /\ MayWait \in Nat \ {0}
      /\ EnrichDeadline <= MayWait /\ ExpandDeadline <= MayWait
  BY InputFacts
<1>3. /\ now + EnrichDeadline \in Nat /\ now + ExpandDeadline \in Nat
      /\ now + EnrichDeadline <= now + MayWait /\ now + ExpandDeadline <= now + MayWait
      /\ now + EnrichDeadline # NoDeadline /\ now + ExpandDeadline # NoDeadline /\ NoDeadline \in Int
      /\ now + EnrichDeadline \in Int /\ now + ExpandDeadline \in Int
  BY <1>1, <1>2 DEF NoDeadline
<1> HIDE DEF NoDeadline
<1> QED BY <1>3 DEF Expands, WaitFor, Wait

\* An event that waits enters the line: waits is what it waits for.
LEMMA EntersFacts ==
  ASSUME PInv, HandlerFrame, NEW waits \in SUBSET Wait
  PROVE  LET c == PushPending(comp, cur, waits) IN
         /\ CompOK(c, Append(made, cur)) /\ c.line = Append(comp.line, [ev |-> cur, ready |-> FALSE])
         /\ c.pending = comp.pending \cup {cur} /\ c.exited = comp.exited
         /\ c.waits[cur] = waits /\ \A e \in Events : e # cur => c.waits[e] = comp.waits[e]
         /\ cur \in Events /\ cur \notin ToSet(made) /\ cur \notin comp.pending
         /\ comp.pending \subseteq ToSet(made) /\ ToSet(made) \subseteq Events
<1>1. cur \in Events /\ cur \notin ToSet(made)
  BY CurFacts DEF HandlerFrame
<1>2. made \in Seq(Events) /\ Distinct(made) /\ CompOK(comp, made)
  BY DEF PInv, Types, MadeOnce
<1> DEFINE c == PushPending(comp, cur, waits)
<1>3. /\ CompOK(c, Append(made, cur))
      /\ c.line = Append(comp.line, [ev |-> cur, ready |-> FALSE])
      /\ c.pending = comp.pending \cup {cur} /\ c.waits = [comp.waits EXCEPT ![cur] = waits]
      /\ c.exited = comp.exited
  BY <1>1, <1>2, PushPendingFacts
<1>4. comp.waits \in [Events -> SUBSET Wait]
  BY <1>2 DEF CompOK, CompType
<1>5. comp.pending \subseteq ToSet(made) /\ ToSet(made) \subseteq Events
  BY <1>2, PendingMade, ToSetType DEF CompOK
<1> QED BY <1>1, <1>3, <1>4, <1>5

\* An image load waits for its hash and its paths, each with a deadline.
LEMMA ImageLoadInv == ASSUME PInv, HandlerFrame, ImageLoad PROVE PInv'
<1> DEFINE slot == [ev |-> cur, ready |-> FALSE]
           W == WaitFor("enrich", now + EnrichDeadline, FALSE)
           waits == {W} \cup Expands(cur, FALSE)
<1>1. /\ comp' = PushPending(comp, cur, waits) /\ fate' = [fate EXCEPT ![cur] = "made"] /\ Made(cur)
      /\ enrich' = enrich \cup {cur} /\ slots' = slots \cup Slots(cur)
      /\ requests' = requests \cup Slots(cur) \cup {<<cur, 0>>} /\ UNCHANGED files
  BY DEF ImageLoad
<1>2. cur \in Events /\ cur # None /\ fate[cur] = "queued" /\ cur \notin ToSet(made)
  BY CurFacts DEF HandlerFrame
<1>3. /\ fate' \in [Events -> Fates] /\ fate'[cur] = "made"
      /\ \A x \in Events : x # cur => fate'[x] = fate[x]
  BY <1>1, NewFate DEF HandlerFrame, Fates
<1>4. /\ Expands(cur, FALSE) \in SUBSET Wait /\ W \in Wait
      /\ \A w \in Expands(cur, FALSE) : w.deadline # NoDeadline /\ w.deadline <= now + MayWait
      /\ W.deadline # NoDeadline /\ W.deadline <= now + MayWait
  BY <1>2, ExpandsFacts
<1> HIDE DEF W
<1>5. waits \in SUBSET Wait /\ \A w \in waits : w.deadline # NoDeadline /\ w.deadline <= now + MayWait
  BY <1>4
<1> HIDE DEF waits
<1>6. /\ CompOK(comp', Append(made, cur)) /\ comp'.line = Append(comp.line, slot)
      /\ comp'.pending = comp.pending \cup {cur} /\ comp'.exited = comp.exited
      /\ comp'.waits[cur] = waits /\ \A e \in Events : e # cur => comp'.waits[e] = comp.waits[e]
      /\ cur \notin comp.pending /\ comp.pending \subseteq ToSet(made) /\ ToSet(made) \subseteq Events
  <2>1. PICK ws \in SUBSET Wait : ws = waits
    BY <1>5
  <2> DEFINE c == PushPending(comp, cur, ws)
  <2>3. /\ CompOK(c, Append(made, cur)) /\ c.line = Append(comp.line, slot)
        /\ c.pending = comp.pending \cup {cur} /\ c.exited = comp.exited
        /\ c.waits[cur] = ws /\ \A e \in Events : e # cur => c.waits[e] = comp.waits[e]
        /\ cur \notin comp.pending /\ comp.pending \subseteq ToSet(made) /\ ToSet(made) \subseteq Events
    BY EntersFacts
  <2>4. comp' = c
    BY <1>1, <2>1
  <2> HIDE DEF c
  <2> QED BY <2>1, <2>3, <2>4
<1>7. slot \in Slot /\ slot.ev = cur /\ made' = Append(made, cur)
  BY <1>1, <1>2 DEF Slot, Made
<1> HIDE DEF slot
<1>8. CompOK(comp', made')
  BY <1>6, <1>7
<1>9. /\ made' \in Seq(Events) /\ since' \in [Events -> Nat] /\ Distinct(made')
      /\ ToSet(made') = ToSet(made) \cup {cur}
      /\ \A x \in ToSet(made) : x # cur /\ At(made', x) = At(made, x) /\ At(made, x) < At(made', cur)
      /\ since'[cur] = now /\ \A x \in Events : x # cur => since'[x] = since[x]
      /\ SinkKept' /\ SinceKept'
      /\ \A i \in DOMAIN comp.line : i \in DOMAIN comp'.line /\ comp'.line[i] = comp.line[i]
      /\ \E i \in DOMAIN comp'.line : comp'.line[i] = slot
  BY <1>1, <1>6, <1>7, <1>8, MadeFacts DEF HandlerFrame
<1>10. Types'
  <2>1. Slots(cur) \subseteq Events \X {1, 2}
    BY <1>2, InputFacts
  <2>2. Slots(cur) \subseteq Requests /\ <<cur, 0>> \in Requests
    BY <1>2, <2>1 DEF Requests
  <2>3. enrich' \subseteq Events /\ slots' \subseteq Events \X {1, 2} /\ requests' \subseteq Requests
    BY <1>1, <1>2, <2>1, <2>2 DEF PInv, Types
  <2> QED BY <1>1, <1>2, <1>3, <1>9, <2>3 DEF PInv, Types, HandlerFrame, laneVars, Control
<1>11. MadeOnce'
  <2>1. \A x \in ToSet(made') : fate'[x] \in {"made"} \cup Left
    BY <1>3, <1>6, <1>9 DEF PInv, MadeOnce
  <2>2. ASSUME NEW x \in Events, fate'[x] = "made"
        PROVE  \E i \in DOMAIN comp'.line : comp'.line[i].ev = x /\ (comp'.line[i].ready \/ x \in comp'.pending)
    <3>1. CASE x = cur
      BY <1>6, <1>7, <1>9, <3>1
    <3>2. CASE x # cur
      <4>1. PICK i \in DOMAIN comp.line : comp.line[i].ev = x /\ (comp.line[i].ready \/ x \in comp.pending)
        BY <1>3, <2>2, <3>2 DEF PInv, MadeOnce
      <4> QED BY <1>6, <1>9, <4>1
    <3> QED BY <3>1, <3>2
  <2> QED BY <1>1, <1>9, <2>1, <2>2 DEF PInv, MadeOnce
<1>12. WaitsKept'
  <2>1. UNCHANGED <<files, stream, stopping>>
    BY <1>1 DEF HandlerFrame
  <2>2. HeldKept'
    BY <1>9, <2>1 DEF PInv, WaitsKept, HeldKept
  <2>3. \A e \in comp.pending : e \in Events /\ e # cur /\ since'[e] = since[e] /\ comp'.waits[e] = comp.waits[e]
    BY <1>6, <1>9
  <2>4. ASSUME NEW e \in comp'.pending, NEW w \in comp'.waits[e] PROVE WaitKept(e, w)'
    <3>1. CASE e \in comp.pending
      BY <2>1, <2>3, <3>1 DEF PInv, WaitsKept, WaitKept
    <3>2. CASE e = cur
      <4>1. w.deadline # NoDeadline /\ w.deadline <= since'[e] + MayWait
        BY <1>5, <1>6, <1>9, <3>2
      <4> QED BY <4>1 DEF WaitKept
    <3> QED BY <1>6, <3>1, <3>2
  <2>5. ASSUME ~stopping', NEW k \in DOMAIN files'.held, files'.held[k].ev \in comp'.pending PROVE InWindow(k)'
    <3>1. files.held[k].ev \in ToSet(made)
      BY <2>1 DEF PInv, WaitsKept, HeldKept
    <3>2. files.held[k].ev \in comp.pending
      BY <1>2, <1>6, <2>1, <2>5, <3>1
    <3> QED BY <2>1, <2>3, <2>5, <3>2 DEF PInv, WaitsKept, InWindow
  <2> QED BY <1>9, <2>2, <2>4, <2>5 DEF WaitsKept
<1>13. BooksOfPending'
  <2>1. \A s \in Slots(cur) : s[1] = cur
    BY <1>2, InputFacts
  <2> QED BY <1>1, <1>6, <2>1 DEF PInv, BooksOfPending
<1>14. ProcessParts'
  BY <1>8, <1>9, <1>10, <1>11, <1>12, <1>13 DEF ProcessParts
<1> QED BY <1>3, <1>14, HandlerInv DEF HandlerFrame

\* What the handler of a file operation starts from: c is the completion stage
\* with the operation pending.
OperationEnters(c, waits) ==
    /\ CompOK(c, Append(made, cur)) /\ c.line = Append(comp.line, [ev |-> cur, ready |-> FALSE])
    /\ c.pending = comp.pending \cup {cur} /\ c.exited = comp.exited
    /\ c.waits[cur] = waits /\ \A e \in Events : e # cur => c.waits[e] = comp.waits[e]
    /\ cur \in Events /\ cur \notin ToSet(made) /\ cur \notin comp.pending
    /\ comp.pending \subseteq ToSet(made) /\ ToSet(made) \subseteq Events
    /\ \A w \in waits : w.deadline = NoDeadline => w.reason = "confirm"
    /\ \A w \in waits : w.deadline # NoDeadline => w.deadline <= now + MayWait

\* Its failure came first: it leaves at once.
LEMMA EarlyInv ==
  ASSUME PInv, HandlerFrame, Made(cur), NEW c, NEW waits, OperationEnters(c, waits),
         files' = [files EXCEPT !.failed = RecentRemove(@, Irp(cur))],
         comp' = Cancel(c, cur), fate' = [fate EXCEPT ![cur] = "failed"],
         slots' = slots \cup Slots(cur), requests' = requests \cup Slots(cur), enrich' = enrich
  PROVE  PInv'
<1> DEFINE slot == [ev |-> cur, ready |-> FALSE]
<1>1. /\ CompOK(c, Append(made, cur)) /\ c.line = Append(comp.line, slot)
      /\ c.pending = comp.pending \cup {cur} /\ c.exited = comp.exited
      /\ \A e \in Events : e # cur => c.waits[e] = comp.waits[e]
      /\ cur \in Events /\ cur \notin ToSet(made) /\ cur \notin comp.pending
      /\ comp.pending \subseteq ToSet(made) /\ ToSet(made) \subseteq Events
  BY DEF OperationEnters
<1>2. /\ fate' \in [Events -> Fates] /\ fate'[cur] = "failed"
      /\ \A x \in Events : x # cur => fate'[x] = fate[x]
  BY NewFate DEF HandlerFrame, Fates, Left
<1>3. slot \in Slot /\ slot.ev = cur /\ made' = Append(made, cur)
  BY <1>1 DEF Slot, Made
<1> HIDE DEF slot
<1>4. /\ CompOK(comp', made') /\ comp'.line = Append(comp.line, slot) /\ comp'.pending = comp.pending
      /\ comp'.exited = comp.exited \cup {cur}
      /\ \A e \in comp.pending : comp'.waits[e] = comp.waits[e]
  <2>1. PICK es : es = {cur}
    OBVIOUS
  <2>2. comp' = Gone(c, es)
    BY <2>1 DEF Cancel
  <2>3. LET d == Gone(c, es) IN
         /\ CompOK(d, made') /\ d.line = c.line /\ d.pending = c.pending \ es
         /\ d.exited = c.exited \cup (es \cap c.pending)
         /\ \A e \in Events : d.waits[e] = IF e \in es THEN {} ELSE c.waits[e]
    BY <1>1, <1>3, GoneFacts
  <2>4. /\ CompOK(comp', made') /\ comp'.line = c.line /\ comp'.pending = c.pending \ es
        /\ comp'.exited = c.exited \cup (es \cap c.pending)
        /\ \A e \in Events : comp'.waits[e] = IF e \in es THEN {} ELSE c.waits[e]
    BY <2>2, <2>3
  <2>5. \A e \in comp.pending : e \in Events /\ e # cur
    BY <1>1
  <2> QED BY <1>1, <2>1, <2>4, <2>5
<1>5. /\ made' \in Seq(Events) /\ since' \in [Events -> Nat] /\ Distinct(made')
      /\ ToSet(made') = ToSet(made) \cup {cur}
      /\ \A x \in ToSet(made) : x # cur /\ At(made', x) = At(made, x) /\ At(made, x) < At(made', cur)
      /\ since'[cur] = now /\ \A x \in Events : x # cur => since'[x] = since[x]
      /\ SinkKept' /\ SinceKept'
      /\ \A i \in DOMAIN comp.line : i \in DOMAIN comp'.line /\ comp'.line[i] = comp.line[i]
      /\ \E i \in DOMAIN comp'.line : comp'.line[i] = slot
  BY <1>3, <1>4, MadeFacts DEF HandlerFrame
<1>6. /\ files'.held = files.held /\ files'.latest = files.latest
      /\ files' = [held |-> files'.held, latest |-> files'.latest, failed |-> files'.failed,
                   confirmed |-> files'.confirmed]
  BY DEF PInv, Types
<1>7. Slots(cur) \subseteq Events \X {1, 2} /\ Slots(cur) \subseteq Requests /\ \A s \in Slots(cur) : s[1] = cur
  BY <1>1, InputFacts DEF Requests
<1>8. Types'
  BY <1>1, <1>2, <1>5, <1>6, <1>7 DEF PInv, Types, HandlerFrame, laneVars, Control
<1>9. MadeOnce'
  <2>1. \A x \in ToSet(made') : fate'[x] \in {"made"} \cup Left
    BY <1>1, <1>2, <1>5 DEF PInv, MadeOnce, Left
  <2>2. ASSUME NEW x \in Events, fate'[x] = "made"
        PROVE  \E i \in DOMAIN comp'.line : comp'.line[i].ev = x /\ (comp'.line[i].ready \/ x \in comp'.pending)
    <3>1. fate[x] = "made"
      BY <1>2, <2>2
    <3>2. PICK i \in DOMAIN comp.line : comp.line[i].ev = x /\ (comp.line[i].ready \/ x \in comp.pending)
      BY <3>1 DEF PInv, MadeOnce
    <3> QED BY <1>4, <1>5, <3>2
  <2> QED BY <1>5, <1>6, <2>1, <2>2 DEF PInv, MadeOnce
<1>10. WaitsKept'
  <2>1. UNCHANGED <<stream, stopping>> /\ files'.held = files.held
    BY <1>6 DEF HandlerFrame
  <2>2. HeldKept'
    BY <1>5, <2>1 DEF PInv, WaitsKept, HeldKept
  <2>3. \A e \in comp.pending : since'[e] = since[e] /\ comp'.waits[e] = comp.waits[e]
    BY <1>1, <1>4, <1>5
  <2>4. \A e \in comp'.pending : \A w \in comp'.waits[e] : WaitKept(e, w)'
    BY <1>4, <2>1, <2>3 DEF PInv, WaitsKept, WaitKept
  <2>5. ~stopping' => \A k \in DOMAIN files'.held : files'.held[k].ev \in comp'.pending => InWindow(k)'
    BY <1>4, <2>1, <2>3 DEF PInv, WaitsKept, InWindow
  <2> QED BY <1>5, <2>2, <2>4, <2>5 DEF WaitsKept
<1>11. BooksOfPending'
  BY <1>4, <1>7 DEF PInv, BooksOfPending
<1>12. ProcessParts'
  BY <1>4, <1>5, <1>8, <1>9, <1>10, <1>11 DEF ProcessParts
<1> QED BY <1>2, <1>12, HandlerInv DEF HandlerFrame

\* It is held for its window, the latest on its Irp.
LEMMA HeldInv ==
  ASSUME PInv, HandlerFrame, Made(cur), NEW waits, OperationEnters(comp', waits),
         files'.held = Append(files.held, Held(cur)), files'.latest = [files.latest EXCEPT ![Irp(cur)] = cur],
         files' = [held |-> files'.held, latest |-> files'.latest, failed |-> files'.failed,
                   confirmed |-> files'.confirmed],
         fate' = [fate EXCEPT ![cur] = "made"],
         slots' = slots \cup Slots(cur), requests' = requests \cup Slots(cur), enrich' = enrich
  PROVE  PInv'
<1> DEFINE slot == [ev |-> cur, ready |-> FALSE]
           H == Len(files.held)
<1>1. /\ CompOK(comp', Append(made, cur)) /\ comp'.line = Append(comp.line, slot)
      /\ comp'.pending = comp.pending \cup {cur} /\ comp'.exited = comp.exited
      /\ comp'.waits[cur] = waits /\ \A e \in Events : e # cur => comp'.waits[e] = comp.waits[e]
      /\ cur \in Events /\ cur \notin ToSet(made) /\ cur \notin comp.pending
      /\ comp.pending \subseteq ToSet(made) /\ ToSet(made) \subseteq Events
      /\ \A w \in waits : w.deadline = NoDeadline => w.reason = "confirm"
      /\ \A w \in waits : w.deadline # NoDeadline => w.deadline <= now + MayWait
  BY DEF OperationEnters
<1>2. /\ fate' \in [Events -> Fates] /\ fate'[cur] = "made"
      /\ \A x \in Events : x # cur => fate'[x] = fate[x]
  BY NewFate DEF HandlerFrame, Fates, Left
<1>3. slot \in Slot /\ slot.ev = cur /\ made' = Append(made, cur) /\ CompOK(comp', made')
  BY <1>1 DEF Slot, Made
<1> HIDE DEF slot
<1>5. /\ made' \in Seq(Events) /\ since' \in [Events -> Nat] /\ Distinct(made')
      /\ ToSet(made') = ToSet(made) \cup {cur}
      /\ \A x \in ToSet(made) : x # cur /\ At(made', x) = At(made, x) /\ At(made, x) < At(made', cur)
      /\ since'[cur] = now /\ \A x \in Events : x # cur => since'[x] = since[x]
      /\ SinkKept' /\ SinceKept'
      /\ \A i \in DOMAIN comp.line : i \in DOMAIN comp'.line /\ comp'.line[i] = comp.line[i]
      /\ \E i \in DOMAIN comp'.line : comp'.line[i] = slot
  BY <1>1, <1>3, MadeFacts DEF HandlerFrame
<1>6. Held(cur) \in OperationType /\ Held(cur).ev = cur /\ Held(cur).ts = Ts(cur) /\ Held(cur).live
  BY <1>1, InputFacts DEF Held, OperationType
<1>8. files.held \in Seq(OperationType) /\ files.latest \in [Irps -> Events \cup {None}] /\ H \in Nat
  BY DEF PInv, Types
<1>9. /\ files'.held \in Seq(OperationType) /\ DOMAIN files.held = 1..H /\ DOMAIN files'.held = 1..H + 1
      /\ files'.held[H + 1] = Held(cur) /\ \A k \in 1..H : files'.held[k] = files.held[k]
  <2> DEFINE h == Held(cur)
  <2> HIDE DEF h
  <2>1. h \in OperationType
    BY <1>6 DEF h
  <2>2. /\ Append(files.held, h) \in Seq(OperationType) /\ DOMAIN files.held = 1..H
        /\ DOMAIN Append(files.held, h) = 1..H + 1 /\ Append(files.held, h)[H + 1] = h
        /\ \A k \in 1..H : Append(files.held, h)[k] = files.held[k]
    BY <1>8, <2>1
  <2> QED BY <2>2 DEF h
<1>10. \A irp \in Irps : files'.latest[irp] = IF irp = Irp(cur) THEN cur ELSE files.latest[irp]
  BY <1>8
<1> HIDE DEF H
<1>7. \A k \in 1..H + 1 : k \in 1..H \/ k = H + 1
  BY <1>8
<1>11. Slots(cur) \subseteq Events \X {1, 2} /\ Slots(cur) \subseteq Requests /\ \A s \in Slots(cur) : s[1] = cur
  BY SMTT(30), <1>1, InputFacts DEF Requests
<1>12. Types'
  <2>1. files'.latest \in [Irps -> Events \cup {None}]
    BY <1>1, <1>8
  <2>2. slots' \subseteq Events \X {1, 2} /\ requests' \subseteq Requests
    BY <1>11 DEF PInv, Types
  <2> QED BY <1>1, <1>2, <1>5, <1>9, <2>1, <2>2 DEF PInv, Types, HandlerFrame, laneVars, Control
<1>13. MadeOnce'
  <2>1. \A x \in ToSet(made') : fate'[x] \in {"made"} \cup Left
    BY <1>1, <1>2, <1>5 DEF PInv, MadeOnce
  <2>2. ASSUME NEW x \in Events, fate'[x] = "made"
        PROVE  \E i \in DOMAIN comp'.line : comp'.line[i].ev = x /\ (comp'.line[i].ready \/ x \in comp'.pending)
    <3>1. CASE x = cur
      BY <1>1, <1>3, <1>5, <3>1
    <3>2. CASE x # cur
      <4>1. PICK i \in DOMAIN comp.line : comp.line[i].ev = x /\ (comp.line[i].ready \/ x \in comp.pending)
        BY <1>2, <2>2, <3>2 DEF PInv, MadeOnce
      <4> QED BY <1>1, <1>5, <4>1
    <3> QED BY <3>1, <3>2
  <2>3. \A irp \in Irps : files'.latest[irp] # None => files'.latest[irp] \in ToSet(made')
    BY <1>5, <1>10 DEF PInv, MadeOnce
  <2> QED BY <1>5, <2>1, <2>2, <2>3 DEF MadeOnce
<1>14. WaitsKept'
  <2>1. UNCHANGED <<stream, stopping>>
    BY DEF HandlerFrame
  <2>2. \A k \in 1..H : files.held[k].ev \in ToSet(made) /\ files.held[k].ev \in Events /\ files.held[k].ev # cur
    BY <1>1, <1>9 DEF PInv, WaitsKept, HeldKept
  <2>3. HeldKept'
    <3>1. ASSUME NEW k \in 1..H + 1
          PROVE  files'.held[k].ev \in ToSet(made') /\ files'.held[k].ts = Ts(files'.held[k].ev)
      <4>1. CASE k \in 1..H
        BY <1>5, <1>9, <4>1 DEF PInv, WaitsKept, HeldKept
      <4>2. CASE k = H + 1
        BY <1>5, <1>6, <1>9, <4>2
      <4> QED BY <1>7, <4>1, <4>2
    <3>2. ASSUME NEW j \in 1..H + 1, NEW k \in 1..H + 1, j < k
          PROVE  At(made', files'.held[j].ev) < At(made', files'.held[k].ev)
      <4>1. j \in 1..H
        BY <1>8, <3>2
      <4>2. CASE k \in 1..H
        <5>1. At(made, files.held[j].ev) < At(made, files.held[k].ev)
          BY <1>9, <3>2, <4>1, <4>2 DEF PInv, WaitsKept, HeldKept
        <5> QED BY <1>5, <1>9, <2>2, <4>1, <4>2, <5>1
      <4>3. CASE k = H + 1
        BY <1>5, <1>6, <1>9, <2>2, <4>1, <4>3
      <4> QED BY <1>7, <4>2, <4>3
    <3> QED BY <1>9, <3>1, <3>2 DEF HeldKept
  <2>4. \A e \in comp.pending : e \in Events /\ e # cur /\ since'[e] = since[e] /\ comp'.waits[e] = comp.waits[e]
    BY <1>1, <1>5
  <2>5. ASSUME NEW e \in comp'.pending, NEW w \in comp'.waits[e] PROVE WaitKept(e, w)'
    <3>1. CASE e \in comp.pending
      <4>1. WaitKept(e, w)
        BY <2>4, <3>1 DEF PInv, WaitsKept
      <4>2. CASE w.deadline = NoDeadline
        <5>1. PICK k \in 1..H : files.held[k].ev = e /\ files.held[k].live
          BY <1>9, <4>1, <4>2 DEF WaitKept
        <5>2. k \in DOMAIN files'.held /\ files'.held[k] = files.held[k]
          BY <1>8, <1>9
        <5> QED BY <4>1, <4>2, <5>1, <5>2 DEF WaitKept
      <4>3. CASE w.deadline # NoDeadline
        BY <2>4, <3>1, <4>1, <4>3 DEF WaitKept
      <4> QED BY <4>2, <4>3
    <3>2. CASE e = cur
      <4>1. w.deadline = NoDeadline => w.reason = "confirm"
        BY <1>1, <3>2
      <4>2. w.deadline # NoDeadline => w.deadline <= since'[e] + MayWait
        BY <1>1, <1>5, <3>2
      <4>3. H + 1 \in DOMAIN files'.held /\ files'.held[H + 1].ev = e /\ files'.held[H + 1].live
        BY <1>6, <1>8, <1>9, <3>2
      <4> QED BY <4>1, <4>2, <4>3 DEF WaitKept
    <3> QED BY <1>1, <3>1, <3>2
  <2>6. ASSUME ~stopping', NEW k \in 1..H + 1, files'.held[k].ev \in comp'.pending PROVE InWindow(k)'
    <3>1. CASE k \in 1..H
      <4>1. files.held[k].ev \in comp.pending
        BY <1>1, <1>9, <2>2, <2>6, <3>1
      <4>2. InWindow(k)
        BY <1>9, <2>1, <2>6, <3>1, <4>1 DEF PInv, WaitsKept
      <4>3. CASE since[files.held[k].ev] >= stream + Hold
        <5>1. since'[files'.held[k].ev] = since[files.held[k].ev]
          BY <1>9, <2>4, <3>1, <4>1
        <5> QED BY <2>1, <4>3, <5>1 DEF InWindow
      <4>4. CASE \E j \in 1..k : files.held[j].ts + Window > stream
        <5>1. PICK j \in 1..k : files.held[j].ts + Window > stream
          BY <4>4
        <5>2. j \in 1..H
          BY <1>8, <3>1
        <5> QED BY <1>9, <2>1, <5>1, <5>2 DEF InWindow
      <4> QED BY <4>2, <4>3, <4>4 DEF InWindow
    <3>2. CASE k = H + 1
      <4>1. stream = Never \/ stream + Hold <= now
        BY <2>1, <2>6 DEF PInv, TimeKept
      <4>2. files'.held[k] = Held(cur) /\ files'.held[k].ev = cur /\ files'.held[k].ts = Ts(cur)
        BY <1>6, <1>9, <3>2
      <4>3. Ts(cur) \in Nat /\ Window \in Nat /\ Never < 0 /\ Never \in Int
        BY <1>1, InputFacts
      <4>4. now \in Nat /\ stream \in Int /\ k \in 1..k
        BY <1>8, <3>2 DEF PInv, Types
      <4>5. CASE stream = Never
        <5>1. \A ts \in Nat : ts + Window > Never
          BY <4>3
        <5>2. files'.held[k].ts + Window > stream'
          BY <2>1, <4>2, <4>3, <4>5, <5>1
        <5> QED BY <4>4, <5>2 DEF InWindow
      <4>6. CASE stream + Hold <= now
        <5>1. since'[files'.held[k].ev] = now
          BY <1>5, <4>2
        <5>2. now >= stream + Hold
          BY <4>4, <4>6, InputFacts
        <5> QED BY <2>1, <5>1, <5>2 DEF InWindow
      <4> QED BY <4>1, <4>5, <4>6
    <3> QED BY <1>7, <3>1, <3>2
  <2> QED BY <1>5, <1>9, <2>3, <2>5, <2>6 DEF WaitsKept
<1>15. BooksOfPending'
  BY <1>1, <1>11 DEF PInv, BooksOfPending
<1>16. ProcessParts'
  BY <1>3, <1>5, <1>12, <1>13, <1>14, <1>15 DEF ProcessParts
<1> QED BY <1>2, <1>16, HandlerInv DEF HandlerFrame

\* A file operation: in its window, or failed already.
LEMMA FileOperationInv == ASSUME PInv, HandlerFrame, FileOperation PROVE PInv'
<1> DEFINE W == WaitFor("confirm", NoDeadline, FALSE)
           X == Expands(cur, Kind(cur) = "open")
           waits == {W} \cup X
           c == PushPending(comp, cur, waits)
<1>1. /\ HoldOperation(cur, c) /\ Made(cur)
      /\ slots' = slots \cup Slots(cur) /\ requests' = requests \cup Slots(cur) /\ enrich' = enrich
  BY DEF FileOperation
<1>2. cur \in Events
  BY CurFacts DEF HandlerFrame
<1>3. /\ X \in SUBSET Wait /\ W \in Wait
      /\ \A w \in X : w.deadline # NoDeadline /\ w.deadline <= now + MayWait
  <2>1. PICK drop \in BOOLEAN : drop = (Kind(cur) = "open")
    OBVIOUS
  <2>2. X = Expands(cur, drop)
    BY <2>1
  <2> HIDE DEF X
  <2>3. /\ Expands(cur, drop) \in SUBSET Wait
        /\ \A w \in Expands(cur, drop) : w.deadline # NoDeadline /\ w.deadline <= now + MayWait
        /\ W \in Wait
    BY <1>2, ExpandsFacts
  <2> QED BY <2>2, <2>3
<1>4. W.deadline = NoDeadline /\ W.reason = "confirm"
  BY DEF WaitFor
<1> HIDE DEF W, X
<1>5. /\ waits \in SUBSET Wait
      /\ \A w \in waits : w.deadline = NoDeadline => w.reason = "confirm"
      /\ \A w \in waits : w.deadline # NoDeadline => w.deadline <= now + MayWait
  BY <1>3, <1>4
<1>6. OperationEnters(c, waits)
  <2>1. PICK ws \in SUBSET Wait : ws = waits
    BY <1>5
  <2>2. /\ CompOK(c, Append(made, cur)) /\ c.line = Append(comp.line, [ev |-> cur, ready |-> FALSE])
        /\ c.pending = comp.pending \cup {cur} /\ c.exited = comp.exited
        /\ c.waits[cur] = ws /\ \A e \in Events : e # cur => c.waits[e] = comp.waits[e]
        /\ cur \in Events /\ cur \notin ToSet(made) /\ cur \notin comp.pending
        /\ comp.pending \subseteq ToSet(made) /\ ToSet(made) \subseteq Events
    <3> DEFINE d == PushPending(comp, cur, ws)
    <3>1. /\ CompOK(d, Append(made, cur)) /\ d.line = Append(comp.line, [ev |-> cur, ready |-> FALSE])
          /\ d.pending = comp.pending \cup {cur} /\ d.exited = comp.exited
          /\ d.waits[cur] = ws /\ \A e \in Events : e # cur => d.waits[e] = comp.waits[e]
          /\ cur \in Events /\ cur \notin ToSet(made) /\ cur \notin comp.pending
          /\ comp.pending \subseteq ToSet(made) /\ ToSet(made) \subseteq Events
      BY EntersFacts
    <3>2. c = d
      BY <2>1
    <3> HIDE DEF c, d
    <3> QED BY <3>1, <3>2
  <2> QED BY <1>5, <2>1, <2>2 DEF OperationEnters
<1> HIDE DEF waits, c
<1>7. CASE /\ files' = [files EXCEPT !.failed = RecentRemove(@, Irp(cur))]
           /\ comp' = Cancel(c, cur) /\ fate' = [fate EXCEPT ![cur] = "failed"]
  BY <1>1, <1>6, <1>7, EarlyInv
<1>8. CASE /\ files' = [files EXCEPT !.held = Append(@, Held(cur)), !.latest[Irp(cur)] = cur]
           /\ comp' = c /\ fate' = [fate EXCEPT ![cur] = "made"]
  <2>1. OperationEnters(comp', waits)
    BY <1>6, <1>8
  <2>2. /\ files'.held = Append(files.held, Held(cur)) /\ files'.latest = [files.latest EXCEPT ![Irp(cur)] = cur]
        /\ files' = [held |-> files'.held, latest |-> files'.latest, failed |-> files'.failed,
                     confirmed |-> files'.confirmed]
    <3> DEFINE h == Append(files.held, Held(cur))
               l == [files.latest EXCEPT ![Irp(cur)] = cur]
    <3> HIDE DEF h, l
    <3>1. files = [held |-> files.held, latest |-> files.latest, failed |-> files.failed,
                   confirmed |-> files.confirmed]
      BY DEF PInv, Types
    <3>2. files' = [files EXCEPT !.held = h, !.latest = l]
      BY <1>8, <3>1 DEF h, l
    <3>3. files' = [held |-> h, latest |-> l, failed |-> files.failed, confirmed |-> files.confirmed]
      BY <3>1, <3>2
    <3> QED BY <3>3 DEF h, l
  <2>3. fate' = [fate EXCEPT ![cur] = "made"]
    BY <1>8
  <2> QED BY <1>1, <2>1, <2>2, <2>3, HeldInv
<1> QED BY <1>1, <1>7, <1>8 DEF HoldOperation

\* A failure cancels the operation its Irp held last.
LEMMA CancelsInv ==
  ASSUME PInv, HandlerFrame, NEW o \in Events, o \in ToSet(made), comp' = Cancel(comp, o),
         fate' \in [Events -> Fates], fate'[cur] = "used", o \in comp.pending => fate'[o] = "failed",
         \A x \in Events : x # cur /\ x # o => fate'[x] = fate[x], o \notin comp.pending => fate'[o] = fate[o],
         files'.held \in Seq(OperationType), Len(files'.held) = Len(files.held),
         \A k \in 1..Len(files.held) :
             /\ files'.held[k].ev = files.held[k].ev /\ files'.held[k].ts = files.held[k].ts
             /\ files.held[k].live /\ files.held[k].ev # o => files'.held[k].live,
         files'.latest \in [Irps -> Events \cup {None}],
         \A irp \in Irps : files'.latest[irp] \in {files.latest[irp], None},
         files' = [held |-> files'.held, latest |-> files'.latest, failed |-> files'.failed,
                   confirmed |-> files'.confirmed],
         UNCHANGED <<enrich, slots, requests, made, since>>
  PROVE  PInv'
<1>1. /\ cur \in Events /\ cur \notin ToSet(made) /\ fate[cur] = "queued" /\ cur # o
  BY CurFacts DEF HandlerFrame
<1>2. CompOK(comp, made)
  BY DEF PInv
<1>3. /\ CompOK(comp', made) /\ comp'.line = comp.line /\ comp'.pending = comp.pending \ {o}
      /\ comp'.exited = comp.exited \cup ({o} \cap comp.pending)
      /\ \A e \in Events : e # o => comp'.waits[e] = comp.waits[e]
  <2>1. PICK es : es = {o}
    OBVIOUS
  <2>2. comp' = Gone(comp, es)
    BY <2>1 DEF Cancel
  <2>3. LET d == Gone(comp, es) IN
         /\ CompOK(d, made) /\ d.line = comp.line /\ d.pending = comp.pending \ es
         /\ d.exited = comp.exited \cup (es \cap comp.pending)
         /\ \A e \in Events : d.waits[e] = IF e \in es THEN {} ELSE comp.waits[e]
    BY <1>2, GoneFacts
  <2> QED BY ZenonT(30), <2>1, <2>2, <2>3
<1>4. comp.pending \subseteq ToSet(made) /\ ToSet(made) \subseteq Events
  BY <1>2, PendingMade, ToSetType DEF CompOK, PInv, Types
<1>5. Types'
  BY <1>1 DEF PInv, Types, HandlerFrame, laneVars, Control
<1>6. MadeOnce'
  <2>1. \A x \in ToSet(made) : fate'[x] \in {"made"} \cup Left
    BY <1>1, <1>4 DEF PInv, MadeOnce, Left
  <2>2. ASSUME NEW x \in Events, fate'[x] = "made"
        PROVE  \E i \in DOMAIN comp'.line : comp'.line[i].ev = x /\ (comp'.line[i].ready \/ x \in comp'.pending)
    <3>1. x # cur /\ fate[x] = "made" /\ (x = o => x \notin comp.pending)
      BY <2>2
    <3>2. PICK i \in DOMAIN comp.line : comp.line[i].ev = x /\ (comp.line[i].ready \/ x \in comp.pending)
      BY <3>1 DEF PInv, MadeOnce
    <3> QED BY <1>3, <3>1, <3>2
  <2>3. \A irp \in Irps : files'.latest[irp] # None => files'.latest[irp] \in ToSet(made)
    BY DEF PInv, MadeOnce
  <2> QED BY <2>1, <2>2, <2>3 DEF PInv, MadeOnce
<1>7. SinkKept'
  BY <1>3 DEF PInv, SinkKept, SinkOK, HandlerFrame
<1>8. WaitsKept'
  <2>1. UNCHANGED <<stream, stopping, now, made, since>>
    BY DEF HandlerFrame
  <2> DEFINE H == Len(files.held)
  <2>2. DOMAIN files.held = 1..H /\ DOMAIN files'.held = 1..H /\ H \in Nat
    BY DEF PInv, Types
  <2> HIDE DEF H
  <2>3. \A k \in 1..H : /\ files'.held[k].ev = files.held[k].ev /\ files'.held[k].ts = files.held[k].ts
                        /\ files.held[k].live /\ files.held[k].ev # o => files'.held[k].live
    BY DEF H
  <2>4. HeldKept'
    BY <2>1, <2>2, <2>3 DEF PInv, WaitsKept, HeldKept
  <2>5. SinceKept'
    BY <1>3, <2>1 DEF PInv, WaitsKept, SinceKept
  <2>6. ASSUME NEW e \in comp'.pending, NEW w \in comp'.waits[e] PROVE WaitKept(e, w)'
    <3>1. e \in comp.pending /\ e # o /\ e \in Events /\ comp'.waits[e] = comp.waits[e]
      BY <1>3, <1>4, <2>6
    <3>2. WaitKept(e, w)
      BY <2>6, <3>1 DEF PInv, WaitsKept
    <3>3. CASE w.deadline = NoDeadline
      <4>1. PICK k \in 1..H : files.held[k].ev = e /\ files.held[k].live
        BY <2>2, <3>2, <3>3 DEF WaitKept
      <4>2. k \in DOMAIN files'.held /\ files'.held[k].ev = e /\ files'.held[k].live
        BY <2>2, <2>3, <3>1, <4>1
      <4> QED BY <3>2, <3>3, <4>2 DEF WaitKept
    <3>4. CASE w.deadline # NoDeadline
      BY <2>1, <3>2, <3>4 DEF WaitKept
    <3> QED BY <3>3, <3>4
  <2>7. ASSUME ~stopping', NEW k \in 1..H, files'.held[k].ev \in comp'.pending PROVE InWindow(k)'
    <3>1. InWindow(k)
      BY <1>3, <2>1, <2>2, <2>3, <2>7 DEF PInv, WaitsKept
    <3>2. \A j \in 1..k : j \in 1..H
      BY <2>2
    <3> QED BY <2>1, <2>3, <3>1, <3>2 DEF InWindow
  <2> QED BY <2>2, <2>4, <2>5, <2>6, <2>7 DEF WaitsKept
<1>9. BooksOfPending'
  BY <1>3 DEF PInv, BooksOfPending
<1>10. ProcessParts'
  BY <1>3, <1>5, <1>6, <1>7, <1>8, <1>9 DEF ProcessParts
<1>11. \A x \in Events : x # cur => (fate'[x] = "queued" <=> fate[x] = "queued")
  <2>1. fate[o] # "queued"
    BY DEF PInv, MadeOnce, Left
  <2> QED BY <2>1
<1> QED BY <1>10, <1>11, HandlerInv DEF HandlerFrame

\* A failure that cancels nothing is only noted.
LEMMA NotedInv ==
  ASSUME PInv, HandlerFrame, fate' = [fate EXCEPT ![cur] = "used"],
         files'.held = files.held, files'.latest = files.latest,
         files' = [held |-> files'.held, latest |-> files'.latest, failed |-> files'.failed,
                   confirmed |-> files'.confirmed],
         UNCHANGED <<comp, enrich, slots, requests, made, since>>
  PROVE  PInv'
<1>1. cur \in Events /\ cur \notin ToSet(made)
  BY CurFacts DEF HandlerFrame
<1>2. /\ fate' \in [Events -> Fates] /\ fate'[cur] = "used"
      /\ \A x \in Events : x # cur => fate'[x] = fate[x]
  BY NewFate DEF HandlerFrame, Fates
<1>3. Types'
  BY <1>1, <1>2 DEF PInv, Types, HandlerFrame, laneVars, Control
<1>4. ToSet(made) \subseteq Events
  BY ToSetType DEF PInv, Types
<1>5. MadeOnce'
  BY <1>1, <1>2, <1>4 DEF PInv, MadeOnce
<1>6. SinkKept' /\ BooksOfPending' /\ CompOK(comp', made')
  BY DEF PInv, SinkKept, SinkOK, HandlerFrame, BooksOfPending, CompOK, LineKept, OverflowKept, CapKept
<1>7. WaitsKept'
  <2>1. HeldKept' /\ SinceKept'
    BY DEF PInv, WaitsKept, HeldKept, SinceKept, HandlerFrame
  <2>2. \A e \in comp'.pending : \A w \in comp'.waits[e] : WaitKept(e, w)'
    BY DEF PInv, WaitsKept, WaitKept
  <2>3. ~stopping' => \A k \in DOMAIN files'.held : files'.held[k].ev \in comp'.pending => InWindow(k)'
    BY DEF PInv, WaitsKept, InWindow, HandlerFrame
  <2> QED BY <2>1, <2>2, <2>3 DEF WaitsKept
<1>8. ProcessParts'
  BY <1>3, <1>5, <1>6, <1>7 DEF ProcessParts
<1> QED BY <1>2, <1>8, HandlerInv DEF HandlerFrame

\* A failed OperationEnd.
LEMMA OperationFailsInv == ASSUME PInv, HandlerFrame, OperationFails PROVE PInv'
<1> DEFINE irp == Irp(cur)
           o == files.latest[irp]
<1>1. UNCHANGED <<enrich, slots, requests, made, since>>
  BY DEF OperationFails
<1>2. cur \in Events /\ irp \in Irps /\ fate[cur] = "queued" /\ cur \notin ToSet(made)
  BY CurFacts, InputFacts DEF HandlerFrame
<1>3. /\ files = [held |-> files.held, latest |-> files.latest, failed |-> files.failed,
                  confirmed |-> files.confirmed]
      /\ files.held \in Seq(OperationType) /\ files.latest \in [Irps -> Events \cup {None}]
      /\ fate \in [Events -> Fates]
  BY DEF PInv, Types
<1>4. CASE /\ o # None
           /\ files' = [files EXCEPT !.latest[irp] = None, !.held = HeldWithout(o)]
           /\ comp' = Cancel(comp, o)
           /\ fate' = [fate EXCEPT ![cur] = "used", ![o] = IF o \in comp.pending THEN "failed" ELSE @]
  <2>1. o \in Events /\ o \in ToSet(made) /\ o # cur
    BY <1>2, <1>3, <1>4 DEF PInv, MadeOnce
  <2> DEFINE l == [files.latest EXCEPT ![irp] = None]
             h == HeldWithout(o)
             H == Len(files.held)
  <2>2. files' = [files EXCEPT !.latest = l, !.held = h]
    BY <1>3, <1>4
  <2>3. DOMAIN files.held = 1..H /\ H \in Nat /\ \A k \in 1..H : files.held[k] \in OperationType
    BY <1>3
  <2>4. \A k \in 1..H : /\ h[k] \in OperationType /\ h[k].ev = files.held[k].ev /\ h[k].ts = files.held[k].ts
                        /\ files.held[k].live /\ files.held[k].ev # o => h[k].live
    BY <2>3 DEF OperationType, HeldWithout
  <2>5. h \in Seq(OperationType) /\ Len(h) = H
    <3>1. h = [k \in 1..H |-> h[k]]
      BY <2>3 DEF HeldWithout
    <3> HIDE DEF h
    <3>2. h \in [1..H -> OperationType]
      BY <2>4, <3>1
    <3> QED BY <2>3, <3>2, SeqDef
  <2>6. l \in [Irps -> Events \cup {None}] /\ \A i \in Irps : l[i] \in {files.latest[i], None}
    BY <1>3
  <2> HIDE DEF l, h
  <2>7. /\ files'.held = h /\ files'.latest = l
        /\ files' = [held |-> files'.held, latest |-> files'.latest, failed |-> files'.failed,
                     confirmed |-> files'.confirmed]
    <3>1. files' = [held |-> h, latest |-> l, failed |-> files.failed, confirmed |-> files.confirmed]
      BY <1>3, <2>2
    <3> QED BY <3>1
  <2>8. /\ fate' \in [Events -> Fates] /\ fate'[cur] = "used" /\ (o \in comp.pending => fate'[o] = "failed")
        /\ \A x \in Events : x # cur /\ x # o => fate'[x] = fate[x]
        /\ o \notin comp.pending => fate'[o] = fate[o]
    <3>1. PICK p : p = o
      OBVIOUS
    <3>2. fate' = [fate EXCEPT ![cur] = "used", ![p] = IF p \in comp.pending THEN "failed" ELSE @]
      BY <1>4, <3>1
    <3>3. p \in Events /\ p # cur
      BY <2>1, <3>1
    <3> HIDE DEF o
    <3> QED BY <1>2, <1>3, <3>1, <3>2, <3>3 DEF Fates, Left
  <2>9. PICK p : p = o
    OBVIOUS
  <2>10. /\ p \in Events /\ p \in ToSet(made) /\ comp' = Cancel(comp, p)
         /\ fate' \in [Events -> Fates] /\ fate'[cur] = "used" /\ (p \in comp.pending => fate'[p] = "failed")
         /\ \A x \in Events : x # cur /\ x # p => fate'[x] = fate[x]
         /\ p \notin comp.pending => fate'[p] = fate[p]
    BY <1>4, <2>1, <2>8, <2>9
  <2>11. /\ files'.held \in Seq(OperationType) /\ Len(files'.held) = Len(files.held)
         /\ \A k \in 1..Len(files.held) :
              /\ files'.held[k].ev = files.held[k].ev /\ files'.held[k].ts = files.held[k].ts
              /\ files.held[k].live /\ files.held[k].ev # p => files'.held[k].live
    BY <2>4, <2>5, <2>7, <2>9
  <2>12. /\ files'.latest \in [Irps -> Events \cup {None}]
         /\ \A i \in Irps : files'.latest[i] \in {files.latest[i], None}
    BY <2>6, <2>7
  <2> HIDE DEF o, irp
  <2> QED BY <1>1, <2>7, <2>10, <2>11, <2>12, CancelsInv
<1>5. CASE UNCHANGED <<files, comp>> /\ fate' = [fate EXCEPT ![cur] = "used"]
  BY <1>1, <1>3, <1>5, NotedInv
<1>6. CASE /\ files' = [files EXCEPT !.failed = RecentInsert(@, irp, Ts(cur))]
           /\ fate' = [fate EXCEPT ![cur] = "used"] /\ UNCHANGED comp
  <2>1. /\ files'.held = files.held /\ files'.latest = files.latest
        /\ files' = [held |-> files'.held, latest |-> files'.latest, failed |-> files'.failed,
                     confirmed |-> files'.confirmed]
    BY <1>3, <1>6
  <2> QED BY <1>1, <1>6, <2>1, NotedInv
<1> QED BY <1>4, <1>5, <1>6 DEF OperationFails

\* Pipeline::process.
LEMMA ProcessOneInv == ASSUME PInv, ProcessOne PROVE PInv'
<1>1. HandlerFrame
  BY DEF ProcessOne, HandlerFrame
<1> QED BY <1>1, ReadyInv, ImageLoadInv, FileOperationInv, OperationFailsInv DEF ProcessOne

-----------------------------------------------------------------------------
(* A step of stream time                                                     *)

\* The windows that have passed at s are those of a front of the line.
LEMMA DueFacts ==
  ASSUME Types, NEW s \in Int
  PROVE  /\ Due(s) \in 0..Len(files.held)
         /\ \A i \in 1..Due(s) : files.held[i].ts + Window <= s
         /\ Due(s) < Len(files.held) => files.held[Due(s) + 1].ts + Window > s
<1> DEFINE H == Len(files.held)
           S == {i \in 1..H : files.held[i].ts + Window > s}
<1>1. H \in Nat /\ \A i \in 1..H : files.held[i].ts \in Nat
  <2>1. files.held \in Seq(OperationType)
    BY DEF Types
  <2>2. H \in Nat /\ \A i \in 1..H : files.held[i] \in OperationType
    BY <2>1
  <2> QED BY <2>2 DEF OperationType
<1>2. Window \in Nat
  BY InputFacts
<1> HIDE DEF H
<1>3. \E k \in 0..H : (\A i \in 1..k : i \notin S) /\ (k < H => k + 1 \in S)
  <2>1. S \in SUBSET (1..H)
    OBVIOUS
  <2> HIDE DEF S
  <2> QED BY <1>1, <2>1, FirstUpTo
<1>4. PICK k \in 0..H : (\A i \in 1..k : i \notin S) /\ (k < H => k + 1 \in S)
  BY <1>3
<1>5. \A i \in 1..k : files.held[i].ts + Window <= s
  <2> SUFFICES ASSUME NEW i \in 1..k PROVE files.held[i].ts + Window <= s
    OBVIOUS
  <2>1. i \in 1..H /\ i \notin S
    BY <1>1, <1>4
  <2>2. files.held[i].ts \in Nat
    BY <1>1, <2>1
  <2> QED BY <1>2, <2>1, <2>2
<1>6. k < H => files.held[k + 1].ts + Window > s
  BY <1>4
<1>7. \E n \in 0..H : /\ \A i \in 1..n : files.held[i].ts + Window <= s
                      /\ n < H => files.held[n + 1].ts + Window > s
  BY <1>5, <1>6
<1> QED BY <1>7 DEF Due, H

\* What the windows that stay look like: in the line held, for the completion
\* stage c and the stream time t.
WindowsOK(held, c, t) ==
    /\ held \in Seq(OperationType)
    /\ \A k \in DOMAIN held : held[k].ev \in ToSet(made) /\ held[k].ts = Ts(held[k].ev)
    /\ \A j, k \in DOMAIN held : j < k => At(made, held[j].ev) < At(made, held[k].ev)
    /\ \A e \in c.pending : \A w \in c.waits[e] :
         IF w.deadline = NoDeadline
         THEN w.reason = "confirm" /\ \E k \in DOMAIN held : held[k].ev = e /\ held[k].live
         ELSE w.deadline <= since[e] + MayWait
    /\ ~stopping => \A k \in DOMAIN held : held[k].ev \in c.pending =>
         (\E j \in 1..k : held[j].ts + Window > t) \/ since[held[k].ev] >= t + Hold

\* file_confirm: what is left of the held operations, and of what they wait for.
LEMMA FilesAtFacts ==
  ASSUME PInv, NEW s \in Int
  PROVE  /\ WindowsOK(FilesAt(s).held, CompAt(s), s)
         /\ Len(FilesAt(s).held) = Len(files.held) - Due(s)
         /\ FilesAt(s).latest \in [Irps -> Events \cup {None}]
         /\ \A irp \in Irps : FilesAt(s).latest[irp] \in {files.latest[irp], None}
         /\ FilesAt(s) = [held |-> FilesAt(s).held, latest |-> FilesAt(s).latest, failed |-> FilesAt(s).failed,
                          confirmed |-> FilesAt(s).confirmed]
         /\ CompOK(CompAt(s), made) /\ CompAt(s).line = comp.line /\ CompAt(s).pending = comp.pending
         /\ CompAt(s).exited = comp.exited
<1> DEFINE H == Len(files.held)
           n == Due(s)
           held == SubSeq(files.held, n + 1, H)
           passed == {files.held[i].ev : i \in 1..n}
           latest == [i \in Irps |-> IF files.latest[i] \in passed THEN None ELSE files.latest[i]]
           failed == RecentExpire(files.failed, s - Window)
           confirmed == Confirmed(s)
           es == {files.held[i].ev : i \in Standing(s)}
<1>1. /\ files.held \in Seq(OperationType) /\ files.latest \in [Irps -> Events \cup {None}]
      /\ H \in Nat /\ DOMAIN files.held = 1..H /\ \A k \in 1..H : files.held[k] \in OperationType
      /\ n \in 0..H /\ \A i \in 1..n : files.held[i].ts + Window <= s
      /\ n < H => files.held[n + 1].ts + Window > s
  <2>1. Types /\ files.held \in Seq(OperationType) /\ files.latest \in [Irps -> Events \cup {None}]
    BY DEF PInv, Types
  <2>2. H \in Nat /\ DOMAIN files.held = 1..H /\ \A k \in 1..H : files.held[k] \in OperationType
    BY <2>1
  <2>3. /\ n \in 0..H /\ \A i \in 1..n : files.held[i].ts + Window <= s
        /\ n < H => files.held[n + 1].ts + Window > s
    BY <2>1, DueFacts
  <2> QED BY <2>1, <2>2, <2>3
<1>2. FilesAt(s) = [held |-> held, latest |-> latest, failed |-> failed, confirmed |-> confirmed]
  BY DEF FilesAt
<1>3. latest \in [Irps -> Events \cup {None}] /\ \A irp \in Irps : latest[irp] \in {files.latest[irp], None}
  BY <1>1
<1> HIDE DEF H, n
<1>4. /\ held \in Seq(OperationType) /\ Len(held) = H - n /\ DOMAIN held = 1..H - n
      /\ \A k \in 1..H - n : held[k] = files.held[k + n] /\ k + n \in 1..H
  <2>1. held \in Seq(OperationType)
    BY <1>1
  <2>2. Len(held) = H - n
    BY <1>1
  <2>3. \A k \in 1..H - n : held[k] = files.held[k + n] /\ k + n \in 1..H
    BY <1>1
  <2> QED BY <1>1, <2>1, <2>2, <2>3
<1> HIDE DEF held, latest, failed, confirmed
<1>5. FilesAt(s).held = held /\ FilesAt(s).latest = latest
  BY <1>2
<1>6. FilesAt(s) = [held |-> FilesAt(s).held, latest |-> FilesAt(s).latest, failed |-> FilesAt(s).failed,
                    confirmed |-> FilesAt(s).confirmed]
  BY <1>2
<1>7. /\ CompOK(CompAt(s), made) /\ CompAt(s).line = comp.line /\ CompAt(s).pending = comp.pending
      /\ CompAt(s).exited = comp.exited
      /\ \A e \in Events : CompAt(s).waits[e] = IF e \in es THEN {w \in comp.waits[e] : w.reason # "confirm"}
                                                ELSE comp.waits[e]
  <2>1. CompOK(comp, made)
    BY DEF PInv
  <2>2. CompAt(s) = ResolveAll(comp, es, "confirm")
    BY DEF CompAt
  <2> HIDE DEF es
  <2> QED BY <2>1, <2>2, ResolveAllFacts
<1>8. comp.pending \subseteq Events
  BY DEF PInv, CompOK, CompType
<1>9. \A k \in 1..H - n : held[k].ev \in ToSet(made) /\ held[k].ts = Ts(held[k].ev)
  BY <1>1, <1>4 DEF PInv, WaitsKept, HeldKept
<1>10. \A j, k \in 1..H - n : j < k => At(made, held[j].ev) < At(made, held[k].ev)
  <2> SUFFICES ASSUME NEW j \in 1..H - n, NEW k \in 1..H - n, j < k
               PROVE  At(made, held[j].ev) < At(made, held[k].ev)
    OBVIOUS
  <2>1. j + n < k + n /\ j + n \in 1..H /\ k + n \in 1..H
    BY <1>1, <1>4
  <2>2. At(made, files.held[j + n].ev) < At(made, files.held[k + n].ev)
    BY <1>1, <2>1 DEF PInv, WaitsKept, HeldKept
  <2> QED BY <1>4, <2>2
<1>11. ASSUME NEW e \in comp.pending, NEW w \in CompAt(s).waits[e]
       PROVE  IF w.deadline = NoDeadline
              THEN w.reason = "confirm" /\ \E k \in 1..H - n : held[k].ev = e /\ held[k].live
              ELSE w.deadline <= since[e] + MayWait
  <2>1. e \in Events /\ w \in comp.waits[e] /\ (e \in es => w.reason # "confirm")
    BY <1>7, <1>8, <1>11
  <2>2. WaitKept(e, w)
    BY <2>1 DEF PInv, WaitsKept
  <2>3. CASE w.deadline = NoDeadline
    <3>1. PICK k \in 1..H : files.held[k].ev = e /\ files.held[k].live
      BY <1>1, <2>2, <2>3 DEF WaitKept
    <3>2. w.reason = "confirm"
      BY <2>2, <2>3 DEF WaitKept
    <3>3. k \notin 1..n
      BY <2>1, <3>1, <3>2 DEF Standing, es, n
    <3>4. k - n \in 1..H - n /\ (k - n) + n = k
      BY <1>1, <3>3
    <3>5. held[k - n] = files.held[k]
      BY <1>4, <3>4
    <3> QED BY <2>3, <3>1, <3>2, <3>4, <3>5
  <2>4. CASE w.deadline # NoDeadline
    BY <2>2, <2>4 DEF WaitKept
  <2> QED BY <2>3, <2>4
<1>12. ASSUME NEW k \in 1..H - n PROVE \E j \in 1..k : held[j].ts + Window > s
  <2>1. n < H /\ 1 \in 1..k /\ 1 \in 1..H - n
    BY <1>1
  <2>2. held[1] = files.held[1 + n] /\ 1 + n = n + 1
    BY <1>1, <1>4, <2>1
  <2> QED BY <1>1, <2>1, <2>2
<1>13. WindowsOK(held, CompAt(s), s)
  BY <1>4, <1>7, <1>9, <1>10, <1>11, <1>12 DEF WindowsOK
<1> QED BY <1>3, <1>4, <1>5, <1>6, <1>7, <1>13 DEF H, n

\* Pipeline::step: stream time is s at least, and the windows that closed
\* before are applied; if that are all, none stays.
LEMMA StepFacts ==
  ASSUME PInv, NEW s \in Int
  PROVE  /\ WindowsOK(FilesStepped(s).held, CompStepped(s), Stepped(s))
         /\ FilesStepped(s).latest \in [Irps -> Events \cup {None}]
         /\ \A irp \in Irps : FilesStepped(s).latest[irp] \in {files.latest[irp], None}
         /\ FilesStepped(s) = [held |-> FilesStepped(s).held, latest |-> FilesStepped(s).latest,
                               failed |-> FilesStepped(s).failed, confirmed |-> FilesStepped(s).confirmed]
         /\ CompOK(CompStepped(s), made) /\ CompStepped(s).line = comp.line
         /\ CompStepped(s).pending = comp.pending /\ CompStepped(s).exited = comp.exited
         /\ Stepped(s) \in {stream, s} /\ Stepped(s) >= stream /\ Stepped(s) >= s /\ Stepped(s) \in Int
         /\ s > stream /\ (\A k \in DOMAIN files.held : files.held[k].ts + Window <= s)
              => FilesStepped(s).held = <<>>
<1>1. stream \in Int
  BY DEF PInv, Types
<1>2. Stepped(s) \in {stream, s} /\ Stepped(s) >= stream /\ Stepped(s) >= s /\ Stepped(s) \in Int
  BY <1>1 DEF Stepped, Later
<1>3. CASE s > stream
  <2>1. FilesStepped(s) = FilesAt(s) /\ CompStepped(s) = CompAt(s) /\ Stepped(s) = s
    BY <1>1, <1>3 DEF FilesStepped, CompStepped, Stepped, Later
  <2>2. ASSUME \A k \in DOMAIN files.held : files.held[k].ts + Window <= s PROVE FilesAt(s).held = <<>>
    <3> DEFINE H == Len(files.held)
    <3>1. Types /\ files.held \in Seq(OperationType)
      BY DEF PInv, Types
    <3>2. DOMAIN files.held = 1..H /\ H \in Nat /\ \A k \in 1..H : files.held[k] \in OperationType
      BY <3>1
    <3>3. Due(s) \in 0..H /\ (Due(s) < H => files.held[Due(s) + 1].ts + Window > s)
      BY <3>1, DueFacts
    <3> HIDE DEF H
    <3>4. \A k \in 1..H : files.held[k].ts \in Nat
      BY <3>2 DEF OperationType
    <3>5. ~(Due(s) < H)
      <4>1. SUFFICES ASSUME Due(s) < H PROVE FALSE
        OBVIOUS
      <4>2. Due(s) + 1 \in 1..H
        BY <3>2, <3>3, <4>1
      <4>3. files.held[Due(s) + 1].ts \in Nat /\ files.held[Due(s) + 1].ts + Window <= s
        BY <2>2, <3>2, <3>4, <4>2
      <4> QED BY <3>3, <4>1, <4>3, InputFacts
    <3>6. Len(FilesAt(s).held) = 0 /\ FilesAt(s).held \in Seq(OperationType)
      <4>1. Len(FilesAt(s).held) = Len(files.held) - Due(s) /\ WindowsOK(FilesAt(s).held, CompAt(s), s)
        BY FilesAtFacts
      <4> QED BY <3>2, <3>3, <3>5, <4>1 DEF H, WindowsOK
    <3> QED BY <3>6, EmptySeq
  <2>3. FilesStepped(s).held = FilesAt(s).held /\ FilesStepped(s).latest = FilesAt(s).latest
    BY <2>1
  <2> QED BY <1>2, <2>1, <2>2, FilesAtFacts
<1>4. CASE ~(s > stream)
  <2>1. FilesStepped(s) = files /\ CompStepped(s) = comp /\ Stepped(s) = stream
    BY <1>1, <1>4 DEF FilesStepped, CompStepped, Stepped, Later
  <2>2. /\ files = [held |-> files.held, latest |-> files.latest, failed |-> files.failed,
                    confirmed |-> files.confirmed]
        /\ files.held \in Seq(OperationType) /\ files.latest \in [Irps -> Events \cup {None}]
    BY DEF PInv, Types
  <2>3. WindowsOK(files.held, comp, stream)
    BY <2>2 DEF PInv, WaitsKept, HeldKept, WaitKept, InWindow, WindowsOK
  <2>4. CompOK(comp, made)
    BY DEF PInv
  <2> QED BY <1>2, <1>4, <2>1, <2>2, <2>3, <2>4
<1> QED BY <1>3, <1>4

\* If no held event is due, all are past the limit.
LEMMA NextFacts ==
  ASSUME PInv, NEW limit \in Int, NextUntil(ord, limit) = {}
  PROVE  \A h \in ord.held : h.ts > limit
<1> SUFFICES ASSUME NEW x \in ord.held, ~(x.ts > limit) PROVE FALSE
  OBVIOUS
<1>1. \A h \in ord.held : h.ts \in Nat /\ h.seq \in Nat
  BY DEF PInv, Types, HeldType
<1> DEFINE T == {h.ts : h \in ord.held}
<1>2. T \in SUBSET Nat /\ T # {} /\ x.ts \in T
  BY <1>1
<1> HIDE DEF T
<1>3. PICK t \in T : \A y \in T : t <= y
  BY <1>2, LeastOf
<1> DEFINE Q == {h.seq : h \in {g \in ord.held : g.ts = t}}
<1>4. Q \in SUBSET Nat /\ Q # {}
  BY <1>1, <1>3 DEF T
<1> HIDE DEF Q
<1>5. PICK q \in Q : \A y \in Q : q <= y
  BY <1>4, LeastOf
<1>6. PICK h \in ord.held : h.ts = t /\ h.seq = q
  BY <1>5 DEF Q
<1>7. h.ts <= limit
  <2>1. t <= x.ts
    BY <1>2, <1>3
  <2> QED BY <2>1, <1>1, <1>6
<1>8. ASSUME NEW g \in ord.held PROVE h.ts < g.ts \/ (h.ts = g.ts /\ h.seq <= g.seq)
  <2>1. t <= g.ts
    BY <1>3 DEF T
  <2>2. g.ts = t => q <= g.seq
    BY <1>5 DEF Q
  <2> QED BY <1>1, <1>6, <2>1, <2>2
<1>9. h \in NextUntil(ord, limit)
  BY <1>7, <1>8 DEF NextUntil
<1> QED BY <1>9

\* The oldest held event is processed, after the windows that closed before it.
LEMMA ReleaseOneInv == ASSUME PInv, ReleaseOne PROVE PInv'
<1>1. PICK h \in NextUntil(ord, Limit) :
        /\ ord' = PopHeld(ord, h)
        /\ files' = FilesStepped(h.ts) /\ comp' = CompStepped(h.ts) /\ stream' = Stepped(h.ts)
        /\ cur' = h.ev /\ pc' = "process" /\ back' = "release"
  BY DEF ReleaseOne, Process
<1>2. /\ pc = "release"
      /\ UNCHANGED <<clock, queue, closed, room, open, stopping, enrich, slots, requests, now, laneVars, history>>
  BY DEF ReleaseOne
<1>3. /\ ord \in [held : SUBSET HeldType, seq : Nat, last : Int] /\ stream \in Int /\ now \in Nat
      /\ now <= clock /\ clock < Forever /\ clock \in Nat /\ stopping \in BOOLEAN
  BY DEF PInv, Types
<1>4. /\ h \in ord.held /\ h.ts <= Limit
      /\ \A g \in ord.held : h.ts < g.ts \/ (h.ts = g.ts /\ h.seq <= g.seq)
  BY DEF NextUntil
<1>5. h \in HeldType /\ h.ts \in Nat /\ h.ts \in Int /\ h.ev \in Events
  BY <1>3, <1>4 DEF HeldType
<1>6. h.ts = Ts(h.ev) /\ h.ts >= stream /\ h.ts >= ord.last
  BY <1>4 DEF PInv, Queued, TimeKept
<1>7. ord' = [ord EXCEPT !.held = ord.held \ {h}, !.last = h.ts]
  <2>1. ord.last \in Int /\ Later(ord.last, h.ts) = h.ts
    BY <1>3, <1>5, <1>6 DEF Later
  <2> QED BY <1>1, <2>1 DEF PopHeld
<1>8. /\ ord' \in [held : SUBSET HeldType, seq : Nat, last : Int]
      /\ ord'.held = ord.held \ {h} /\ ord'.last = h.ts
  BY <1>3, <1>5, <1>7
<1>9. stream' = h.ts
  BY <1>1, <1>3, <1>5, <1>6 DEF Stepped, Later
<1>10. /\ WindowsOK(files'.held, comp', stream')
       /\ files'.latest \in [Irps -> Events \cup {None}]
       /\ \A irp \in Irps : files'.latest[irp] \in {files.latest[irp], None}
       /\ files' = [held |-> files'.held, latest |-> files'.latest, failed |-> files'.failed,
                    confirmed |-> files'.confirmed]
       /\ CompOK(comp', made) /\ comp'.line = comp.line /\ comp'.pending = comp.pending
       /\ comp'.exited = comp.exited
  BY <1>1, <1>5, StepFacts
<1>11. UNCHANGED <<clock, queue, closed, room, open, stopping, enrich, slots, requests, now, asked, replies,
                   sink, fate, late, made, since>>
  BY <1>2 DEF laneVars, history
<1>12. Types'
  <2>1. files'.held \in Seq(OperationType)
    BY <1>10 DEF WindowsOK
  <2>2. stream' \in Int
    BY <1>5, <1>9
  <2> QED BY <1>1, <1>5, <1>8, <1>10, <1>11, <2>1, <2>2 DEF PInv, Types
<1>13. Control'
  BY <1>1, <1>5, <1>11 DEF PInv, Control, Queues
<1>14. cur = None
  BY <1>2 DEF PInv, Control
<1>15. Queued'
  <2>1. \A x \in Events : InQueue(x)' <=> InQueue(x)
    BY <1>11 DEF InQueue
  <2>2. \A x \in Events : InHeld(x) <=> (InHeld(x)' \/ x = h.ev)
    BY <1>4, <1>8 DEF InHeld
  <2>3. ~InHeld(h.ev)'
    BY <1>4, <1>8 DEF InHeld, PInv, Queued
  <2>4. \A x \in Events : x # cur
    BY <1>14, NoneAssumption
  <2>5. \A x \in Events : fate'[x] = "queued" <=> InQueue(x)' \/ InHeld(x)' \/ x = cur'
    BY <1>1, <1>11, <2>1, <2>2, <2>4 DEF PInv, Queued
  <2>6. ASSUME NEW x \in Events
        PROVE  ~(InQueue(x)' /\ InHeld(x)') /\ ~(InQueue(x)' /\ x = cur') /\ ~(InHeld(x)' /\ x = cur')
    <3>1. ~(InQueue(x) /\ InHeld(x))
      BY DEF PInv, Queued
    <3> QED BY <1>1, <2>1, <2>2, <2>3, <3>1
  <2>7. /\ \A g \in ord'.held : g.ts = Ts(g.ev)
        /\ \A g, k \in ord'.held : k.ev = g.ev => k = g
    BY <1>8 DEF PInv, Queued
  <2>8. \A q \in Queues : Distinct(queue'[q]) /\ \A e \in ToSet(queue'[q]) : QueueOf(e) = q
    BY <1>11 DEF PInv, Queued
  <2> QED BY <2>5, <2>6, <2>7, <2>8 DEF Queued
<1>16. MadeOnce'
  <2>1. \A irp \in Irps : files'.latest[irp] # None => files'.latest[irp] \in ToSet(made)
    BY <1>10 DEF PInv, MadeOnce
  <2> QED BY <1>10, <1>11, <2>1 DEF PInv, MadeOnce
<1>17. SinkKept'
  BY <1>10, <1>11 DEF PInv, SinkKept, SinkOK
<1>18. TimeKept'
  <2>1. ~stopping => h.ts + Hold <= now
    BY <1>3, <1>4, <1>5, InputFacts DEF Limit
  <2>2. h.ts < Forever
    <3>1. Ts(h.ev) + Window < Forever /\ Window \in Nat /\ Forever \in Nat
      BY <1>5, InputFacts
    <3> QED BY <1>5, <1>6, <3>1
  <2>3. \A g \in ord'.held : g.ts >= h.ts
    <3>1. \A g \in ord.held : g.ts \in Nat
      BY <1>3 DEF HeldType
    <3> QED BY <1>4, <1>5, <1>8, <3>1
  <2>4. StreamOrder'
    BY <1>1, <1>6, <1>9, <2>3 DEF StreamOrder
  <2> QED BY <1>8, <1>9, <1>11, <2>1, <2>2, <2>3, <2>4 DEF TimeKept
<1>19. WaitsKept'
  <2>1. HeldKept'
    BY <1>10, <1>11 DEF WindowsOK, HeldKept
  <2>2. SinceKept'
    BY <1>10, <1>11 DEF PInv, WaitsKept, SinceKept
  <2>3. \A e \in comp'.pending : \A w \in comp'.waits[e] : WaitKept(e, w)'
    BY <1>10, <1>11 DEF WindowsOK, WaitKept
  <2>4. ~stopping' => \A k \in DOMAIN files'.held : files'.held[k].ev \in comp'.pending => InWindow(k)'
    BY <1>10, <1>11 DEF WindowsOK, InWindow
  <2> QED BY <2>1, <2>2, <2>3, <2>4 DEF WaitsKept
<1>20. StopKept'
  <2>1. \A q \in Queues : Passed(q)' <=> Passed(q)
    BY <1>1, <1>2 DEF Passed
  <2> QED BY <1>11, <2>1 DEF PInv, StopKept
<1>21. BooksOfPending' /\ LeavesInTime' /\ CleanStop'
  BY <1>1, <1>10, <1>11 DEF PInv, BooksOfPending, LeavesInTime, CleanStop
<1>22. CompOK(comp, made)'
  BY <1>10, <1>11
<1> QED BY <1>12, <1>13, <1>15, <1>16, <1>17, <1>18, <1>19, <1>20, <1>21, <1>22 DEF PInv

\* The events of c's first n slots that are not gone leave, each with a fate.
LEMMA EmitsFates ==
  ASSUME PInv, NEW c, CompOK(c, made), c.line = comp.line, c.pending = comp.pending, NEW n \in 0..Len(c.line),
         Emits(c, n)
  PROVE  /\ fate' \in [Events -> Fates] /\ \A x \in Events : fate'[x] = "queued" <=> fate[x] = "queued"
         /\ \A x \in ToSet(made) : fate'[x] \in {"made"} \cup Left
         /\ \A x \in Events : fate'[x] = "made" =>
              \E i \in DOMAIN c.line :
                i > n /\ c.line[i].ev = x /\ (c.line[i].ready \/ x \in c.pending \ Leaving(c, n))
<1> DEFINE L == Len(c.line)
           O == ToSet(Out(c, n))
           G == Leaving(c, n)
<1>1. /\ c.line \in Seq(Slot) /\ L \in Nat /\ DOMAIN c.line = 1..L /\ \A i \in 1..L : c.line[i].ev \in Events
      /\ \A i \in 1..L : c.line[i].ev \in ToSet(made)
  BY LineEvents DEF CompOK, LineKept
<1>2. made \in Seq(Events)
  BY DEF PInv, Types
<1>31. PICK K \in Nat : \E pos : DrawnFrom(c, n, K, pos)
  BY <1>2, OutFacts
<1>3. PICK pos : DrawnFrom(c, n, K, pos)
  BY <1>31
<1> HIDE DEF L
<1>4. \A i \in 1..n : i \in 1..L
  BY <1>1 DEF L
<1>5. O \subseteq ToSet(made)
  <2> SUFFICES ASSUME NEW x \in O PROVE x \in ToSet(made)
    OBVIOUS
  <2>1. PICK k \in 1..K : x = Out(c, n)[k]
    BY <1>3 DEF DrawnFrom, ToSet
  <2>2. pos[k] \in 1..n /\ x = c.line[pos[k]].ev
    BY <1>3, <2>1 DEF DrawnFrom
  <2> QED BY <1>1, <1>4, <2>2
<1>6. G \subseteq ToSet(made)
  BY <1>1, <1>4 DEF Leaving
<1>7. \A i \in Emitting(c, n) : c.line[i].ev \in O
  BY <1>3 DEF DrawnFrom
<1>8. fate' = [e \in Events |-> IF e \in O THEN IF e \in c.forced THEN "forced" ELSE "emitted"
                               ELSE IF e \in G THEN "expired" ELSE fate[e]]
  BY DEF Emits
<1> HIDE DEF O, G
<1>9. ToSet(made) \subseteq Events
  BY <1>2, ToSetType
<1>10. \A x \in Events : /\ x \in O => fate'[x] \in {"forced", "emitted"}
                         /\ x \notin O /\ x \in G => fate'[x] = "expired"
                         /\ x \notin O /\ x \notin G => fate'[x] = fate[x]
  BY <1>8
<1>11. \A x \in ToSet(made) : fate[x] \in {"made"} \cup Left
  BY DEF PInv, MadeOnce
<1>12. \A x \in ToSet(made) : fate'[x] \in {"made"} \cup Left
  BY <1>9, <1>10, <1>11 DEF Left
<1>13. \A x \in Events : fate'[x] = "queued" <=> fate[x] = "queued"
  BY <1>5, <1>6, <1>10, <1>11 DEF Left
<1>14. fate' \in [Events -> Fates]
  <2>1. fate \in [Events -> Fates]
    BY DEF PInv, Types
  <2>2. \A x \in Events : fate'[x] \in Fates
    BY <1>10, <2>1 DEF Fates, Left
  <2>3. fate' = [e \in Events |-> fate'[e]]
    BY <1>8
  <2> QED BY <2>2, <2>3
<1>15. ASSUME NEW x \in Events, fate'[x] = "made"
       PROVE  \E i \in DOMAIN c.line : i > n /\ c.line[i].ev = x /\ (c.line[i].ready \/ x \in c.pending \ G)
  <2>1. x \notin O /\ x \notin G /\ fate[x] = "made"
    BY <1>10, <1>15
  <2>2. PICK i \in 1..L : c.line[i].ev = x /\ (c.line[i].ready \/ x \in c.pending)
    BY <1>1, <2>1 DEF PInv, MadeOnce
  <2>3. ~(i \in 1..n)
    <3> SUFFICES ASSUME i \in 1..n PROVE FALSE
      OBVIOUS
    <3>1. x \notin c.pending
      BY <2>1, <2>2 DEF G, Leaving
    <3>2. i \in Emitting(c, n)
      BY <2>2, <3>1 DEF Emitting, Dropped
    <3> QED BY <1>7, <2>1, <2>2, <3>2
  <2>4. i > n
    BY <1>1, <2>3
  <2> QED BY <1>1, <2>1, <2>2, <2>4
<1> QED BY <1>12, <1>13, <1>14, <1>15 DEF G

\* Pipeline::emit: the first n slots go, the events that leave are noted and
\* forgotten, and the sink gets the others.
LEMMA EmitsFacts ==
  ASSUME PInv, NEW c, CompOK(c, made), c.line = comp.line, c.pending = comp.pending, c.exited = comp.exited,
         NEW n \in 0..Len(c.line), Emits(c, n), made' = made
  PROVE  /\ CompOK(comp', made) /\ DOMAIN comp'.line = 1..Len(c.line) - n
         /\ \A i \in 1..Len(c.line) - n : i + n \in 1..Len(c.line) /\ comp'.line[i] = c.line[i + n]
         /\ comp'.pending \subseteq comp.pending /\ \A e \in comp'.pending : comp'.waits[e] = c.waits[e]
         /\ \A e \in comp'.pending : \E i \in DOMAIN comp'.line : comp'.line[i].ev = e
         /\ comp'.exited = {}
         /\ since' \in [Events -> Nat]
         /\ \A i \in DOMAIN comp'.line : since'[comp'.line[i].ev] = since[comp'.line[i].ev]
         /\ \A x \in Events : fate'[x] = "made" =>
              \E i \in DOMAIN comp'.line : comp'.line[i].ev = x /\ (comp'.line[i].ready \/ x \in comp'.pending)
         /\ sink' \in Seq(Events) /\ SinkKept' /\ BooksOfPending'
         /\ enrich' \subseteq enrich /\ slots' \subseteq slots
<1> DEFINE L == Len(c.line)
           d == After(c, n)
           f == [d EXCEPT !.exited = {}]
           G == Leaving(c, n)
           J == {i \in DOMAIN Out(c, n) : ~Input[Out(c, n)[i]].own}
<1>1. /\ c.line \in Seq(Slot) /\ L \in Nat /\ DOMAIN c.line = 1..L /\ \A i \in 1..L : c.line[i].ev \in Events
  BY LineEvents
<1>2. made \in Seq(Events) /\ Distinct(made) /\ sink \in Seq(Events) /\ SinkOK(sink, c, made)
  BY DEF PInv, Types, MadeOnce, SinkKept, SinkOK
<1>3. /\ CompOK(f, made)
      /\ Len(f.line) = L - n /\ \A i \in 1..L - n : f.line[i] = c.line[i + n]
      /\ f.pending = c.pending \ G
      /\ \A e \in f.pending : f.waits[e] = c.waits[e]
      /\ f.exited = {} /\ d.exited = c.exited \cup G /\ d.line = f.line
  BY <1>2, AfterFacts
<1>4. /\ sink \o Taken(Out(c, n), J) \in Seq(Events)
      /\ SinkOK(sink \o Taken(Out(c, n), J), f, made)
  <2>1. J \in SUBSET DOMAIN Out(c, n)
    OBVIOUS
  <2> HIDE DEF J
  <2> QED BY <1>2, <2>1, SinkEmits
<1>5. /\ sink' = sink \o Taken(Out(c, n), J) /\ comp' = f
      /\ since' = [e \in Events |-> IF \E i \in DOMAIN d.line : d.line[i].ev = e THEN since[e] ELSE 0]
      /\ enrich' = enrich \ d.exited /\ slots' = {s \in slots : s[1] \notin d.exited}
  BY DEF Emits
<1> HIDE DEF d, f, J, L
<1>6. DOMAIN comp'.line = 1..L - n
  <2>1. f.line \in Seq(Slot)
    BY <1>3 DEF CompOK, CompType
  <2> QED BY <1>3, <1>5, <2>1
<1>7. \A i \in 1..L - n : i + n \in 1..L /\ comp'.line[i] = c.line[i + n]
  BY SMTT(30), <1>1, <1>3, <1>5 DEF L
<1>8. \A i \in DOMAIN comp'.line : comp'.line[i].ev \in Events
  BY <1>1, <1>6, <1>7
<1>9. since' \in [Events -> Nat] /\ \A i \in DOMAIN comp'.line : since'[comp'.line[i].ev] = since[comp'.line[i].ev]
  <2>1. since \in [Events -> Nat]
    BY DEF PInv, Types
  <2> QED BY <1>3, <1>5, <1>8, <2>1
<1>10. \A e \in comp'.pending : \E i \in DOMAIN comp'.line : comp'.line[i].ev = e
  <2>1. LineKept(f, made)
    BY <1>3 DEF CompOK
  <2>2. \A e \in f.pending : \E i \in DOMAIN f.line : f.line[i].ev = e
    <3> SUFFICES ASSUME NEW e \in f.pending PROVE \E i \in DOMAIN f.line : f.line[i].ev = e
      OBVIOUS
    <3>1. PICK i \in DOMAIN f.line : f.line[i] = [ev |-> e, ready |-> FALSE]
      BY <2>1 DEF LineKept
    <3>2. f.line[i].ev = e
      BY <3>1
    <3> QED BY <3>2
  <2>3. comp' = f
    BY <1>5
  <2> QED BY <2>2, <2>3
<1>11. ASSUME NEW x \in Events, fate'[x] = "made"
       PROVE  \E i \in DOMAIN comp'.line : comp'.line[i].ev = x /\ (comp'.line[i].ready \/ x \in comp'.pending)
  <2>1. PICK i \in DOMAIN c.line : i > n /\ c.line[i].ev = x /\ (c.line[i].ready \/ x \in c.pending \ G)
    BY <1>11, EmitsFates
  <2>2. i - n \in 1..L - n /\ (i - n) + n = i
    BY <1>1, <2>1
  <2>3. comp'.line[i - n] = c.line[i]
    BY <1>7, <2>2
  <2> QED BY <1>3, <1>5, <1>6, <2>1, <2>2, <2>3
<1>12. SinkKept'
  BY <1>4, <1>5 DEF SinkKept
<1>13. BooksOfPending'
  BY <1>3, <1>5 DEF PInv, BooksOfPending
<1> QED BY <1>3, <1>4, <1>5, <1>6, <1>7, <1>9, <1>10, <1>11, <1>12, <1>13 DEF L

\* The drain stops at the first slot that is blocked.
LEMMA DrainableFacts ==
  ASSUME NEW c, NEW m, CompOK(c, m), NEW t
  PROVE  Drainable(c, t) \in 0..Len(c.line)
         /\ (Drainable(c, t) < Len(c.line) => Blocked(c, c.line[Drainable(c, t) + 1], t))
<1> DEFINE L == Len(c.line)
           S == {i \in 1..L : Blocked(c, c.line[i], t)}
<1>1. L \in Nat
  BY LineEvents
<1> HIDE DEF L
<1>2. PICK k \in 0..L : (\A i \in 1..k : i \notin S) /\ (k < L => k + 1 \in S)
  <2>1. S \in SUBSET (1..L)
    OBVIOUS
  <2> HIDE DEF S
  <2> QED BY <1>1, <2>1, FirstUpTo
<1>3. \A i \in 1..k : ~Blocked(c, c.line[i], t)
  <2> SUFFICES ASSUME NEW i \in 1..k PROVE ~Blocked(c, c.line[i], t)
    OBVIOUS
  <2>1. i \in 1..L /\ i \notin S
    BY <1>1, <1>2
  <2> QED BY <2>1
<1>4. k < L => Blocked(c, c.line[k + 1], t)
  BY <1>2
<1>5. \E n \in 0..L : /\ \A i \in 1..n : ~Blocked(c, c.line[i], t)
                      /\ n < L => Blocked(c, c.line[n + 1], t)
  BY <1>3, <1>4
<1> QED BY <1>5 DEF Drainable, L

\* What the end of a pass and the stop have in common: windows close up to s,
\* then the first n slots leave.
LEMMA EmitsKeep ==
  ASSUME PInv, pc = "release", NEW s \in Int, files' = FilesStepped(s), stream' = Stepped(s),
         NEW n \in 0..Len(CompStepped(s).line), Emits(CompStepped(s), n),
         UNCHANGED <<clock, queue, closed, cur, back, ord, now, replies, late, made>>, ~stopping' => ~stopping,
         open' \subseteq Queues, room' \in Nat, stopping' \in BOOLEAN, requests' \subseteq Requests,
         asked' \subseteq Requests, pc' \in {"kernel", "replies", "done"}
  PROVE  Types' /\ Queued' /\ CompOK(comp, made)' /\ MadeOnce' /\ SinkKept' /\ WaitsKept' /\ BooksOfPending'
<1> DEFINE L == Len(comp.line)
<1>1. PICK c : c = CompStepped(s)
  OBVIOUS
<1>2. /\ WindowsOK(files'.held, c, stream')
      /\ files'.latest \in [Irps -> Events \cup {None}]
      /\ \A irp \in Irps : files'.latest[irp] \in {files.latest[irp], None}
      /\ files' = [held |-> files'.held, latest |-> files'.latest, failed |-> files'.failed,
                   confirmed |-> files'.confirmed]
      /\ CompOK(c, made) /\ c.line = comp.line /\ c.pending = comp.pending /\ c.exited = comp.exited
      /\ stream' \in Int
  BY <1>1, StepFacts
<1>3. Emits(c, n) /\ n \in 0..Len(c.line) /\ made' = made
  BY <1>1
<1>4. /\ CompOK(comp', made) /\ DOMAIN comp'.line = 1..L - n
      /\ \A i \in 1..L - n : i + n \in 1..L /\ comp'.line[i] = comp.line[i + n]
      /\ comp'.pending \subseteq comp.pending /\ \A e \in comp'.pending : comp'.waits[e] = c.waits[e]
      /\ \A e \in comp'.pending : \E i \in DOMAIN comp'.line : comp'.line[i].ev = e
      /\ since' \in [Events -> Nat] /\ \A i \in DOMAIN comp'.line : since'[comp'.line[i].ev] = since[comp'.line[i].ev]
      /\ \A x \in Events : fate'[x] = "made" =>
           \E i \in DOMAIN comp'.line : comp'.line[i].ev = x /\ (comp'.line[i].ready \/ x \in comp'.pending)
      /\ sink' \in Seq(Events) /\ SinkKept' /\ BooksOfPending'
      /\ enrich' \subseteq enrich /\ slots' \subseteq slots
  BY SMTT(30), <1>2, <1>3, EmitsFacts
<1>5. /\ fate' \in [Events -> Fates] /\ \A x \in Events : fate'[x] = "queued" <=> fate[x] = "queued"
      /\ \A x \in ToSet(made) : fate'[x] \in {"made"} \cup Left
  BY <1>2, <1>3, EmitsFates
<1>6. ASSUME NEW e \in comp'.pending PROVE since'[e] = since[e]
  <2>1. PICK i \in DOMAIN comp'.line : comp'.line[i].ev = e
    BY <1>4
  <2>2. since'[comp'.line[i].ev] = since[comp'.line[i].ev]
    BY <1>4
  <2> QED BY <2>1, <2>2
<1>7. L \in Nat /\ DOMAIN comp.line = 1..L /\ \A i \in 1..L : comp.line[i].ev \in Events
  <2>1. CompOK(comp, made)
    BY DEF PInv
  <2> QED BY <2>1, LineEvents
<1> HIDE DEF L
<1>8. Types'
  <2>1. files'.held \in Seq(OperationType)
    BY <1>2 DEF WindowsOK
  <2>2. enrich' \subseteq Events /\ slots' \subseteq Events \X {1, 2}
    <3>1. enrich \subseteq Events /\ slots \subseteq Events \X {1, 2}
      BY DEF PInv, Types
    <3>2. enrich' \subseteq enrich /\ slots' \subseteq slots
      BY <1>4
    <3> QED BY <3>1, <3>2
  <2>3. fate' \in [Events -> Fates] /\ since' \in [Events -> Nat] /\ sink' \in Seq(Events) /\ made' = made
    BY <1>4, <1>5
  <2>4. /\ files'.latest \in [Irps -> Events \cup {None}] /\ stream' \in Int
        /\ files' = [held |-> files'.held, latest |-> files'.latest, failed |-> files'.failed,
                     confirmed |-> files'.confirmed]
    BY <1>2
  <2>5. pc' \in Queues \cup {"replies", "release", "process", "done"}
    BY DEF Queues
  <2> QED BY <2>1, <2>2, <2>3, <2>4, <2>5 DEF PInv, Types
<1>9. Queued'
  <2>1. \A x \in Events : (InQueue(x)' <=> InQueue(x)) /\ (InHeld(x)' <=> InHeld(x))
    BY DEF InQueue, InHeld
  <2> QED BY <1>5, <2>1 DEF PInv, Queued
<1>10. MadeOnce'
  <2>1. \A irp \in Irps : files'.latest[irp] # None => files'.latest[irp] \in ToSet(made)
    BY <1>2 DEF PInv, MadeOnce
  <2> QED BY <1>4, <1>5, <2>1 DEF PInv, MadeOnce
<1>11. SinceKept'
  <2>1. \A i \in 1..L - n : since'[comp'.line[i].ev] = since[comp.line[i + n].ev] /\ i + n \in 1..L
    BY <1>4
  <2>2. \A i \in 1..L : since[comp.line[i].ev] <= now
    BY <1>7 DEF PInv, WaitsKept, SinceKept
  <2>3. ASSUME NEW i \in 1..L - n, NEW j \in 1..L - n, i < j
        PROVE  since'[comp'.line[i].ev] <= since'[comp'.line[j].ev]
    <3>1. i + n < j + n
      BY <1>2, <1>3, <1>7, <2>3
    <3>2. since[comp.line[i + n].ev] <= since[comp.line[j + n].ev]
      BY <1>7, <2>1, <3>1 DEF PInv, WaitsKept, SinceKept
    <3> QED BY <2>1, <3>2
  <2> QED BY <1>4, <2>1, <2>2, <2>3 DEF SinceKept
<1>12. WaitsKept'
  <2>1. HeldKept'
    BY <1>2 DEF WindowsOK, HeldKept
  <2>2. \A e \in comp'.pending : \A w \in comp'.waits[e] : WaitKept(e, w)'
    <3> SUFFICES ASSUME NEW e \in comp'.pending, NEW w \in comp'.waits[e] PROVE WaitKept(e, w)'
      OBVIOUS
    <3>1. e \in c.pending /\ w \in c.waits[e] /\ since'[e] = since[e]
      BY <1>2, <1>4, <1>6
    <3>2. IF w.deadline = NoDeadline
          THEN w.reason = "confirm" /\ \E k \in DOMAIN files'.held : files'.held[k].ev = e /\ files'.held[k].live
          ELSE w.deadline <= since[e] + MayWait
      BY <1>2, <3>1 DEF WindowsOK
    <3> QED BY <3>1, <3>2 DEF WaitKept
  <2>3. ~stopping' => \A k \in DOMAIN files'.held : files'.held[k].ev \in comp'.pending => InWindow(k)'
    BY <1>2, <1>4, <1>6 DEF WindowsOK, InWindow
  <2> QED BY <1>11, <2>1, <2>2, <2>3 DEF WaitsKept
<1> QED BY <1>4, <1>8, <1>9, <1>10, <1>12

\* What a pass leaves in the line is there for a wait that may still be
\* answered, or for a window that is open.
LEMMA LineInTime ==
  ASSUME PInv, ~stopping, NEW s \in Int, s >= now - Hold, WindowsOK(FilesStepped(s).held, CompStepped(s), Stepped(s)),
         CompOK(CompStepped(s), made), CompStepped(s).line = comp.line, CompStepped(s).pending = comp.pending,
         NEW i \in 1..Len(comp.line), i > Drainable(CompStepped(s), now)
  PROVE  \/ now < since[comp.line[i].ev] + MayWait
         \/ \E j \in 1..At(made, comp.line[i].ev) : now < Ts(made[j]) + Window + Hold
<1> DEFINE L == Len(comp.line)
           e == comp.line[i].ev
<1>1. PICK c, held, t : c = CompStepped(s) /\ held = FilesStepped(s).held /\ t = Stepped(s)
  OBVIOUS
<1>2. /\ WindowsOK(held, c, t) /\ CompOK(c, made) /\ c.line = comp.line /\ c.pending = comp.pending
      /\ t \in Int /\ t >= s
  BY <1>1, StepFacts
<1>3. PICK n : n = Drainable(c, now)
  OBVIOUS
<1>4. n \in 0..Len(c.line) /\ (n < Len(c.line) => Blocked(c, c.line[n + 1], now))
  BY <1>2, <1>3, DrainableFacts
<1>5. L \in Nat /\ DOMAIN comp.line = 1..L /\ \A k \in 1..L : comp.line[k].ev \in Events
  <2>1. CompOK(comp, made)
    BY DEF PInv
  <2> QED BY <2>1, LineEvents
<1> HIDE DEF L
<1>6. n + 1 \in 1..L /\ n + 1 <= i /\ i \in 1..L /\ Blocked(c, comp.line[n + 1], now)
  BY <1>1, <1>2, <1>3, <1>4, <1>5 DEF L
<1> DEFINE x == comp.line[n + 1].ev
<1>7. /\ x \in c.pending
      /\ \E w \in c.waits[x] : w.deadline = NoDeadline \/ now < w.deadline
  BY <1>6 DEF Blocked
<1>8. PICK w \in c.waits[x] : w.deadline = NoDeadline \/ now < w.deadline
  BY <1>7
<1>9. since[x] <= since[e] /\ since[x] \in Nat /\ since[e] \in Nat /\ x \in Events /\ e \in Events
  <2>1. since \in [Events -> Nat]
    BY DEF PInv, Types
  <2>2. \A j, k \in 1..L : j < k => since[comp.line[j].ev] <= since[comp.line[k].ev]
    BY <1>5 DEF PInv, WaitsKept, SinceKept
  <2>3. n + 1 = i \/ n + 1 < i
    BY <1>5, <1>6
  <2>4. x \in Events /\ e \in Events
    BY <1>5, <1>6
  <2> QED BY <1>6, <2>1, <2>2, <2>3, <2>4
<1>10. /\ At(made, x) <= At(made, e) /\ x \in ToSet(made) /\ e \in ToSet(made)
       /\ At(made, x) \in Nat /\ At(made, e) \in Nat
  <2>1. /\ \A j \in 1..L : comp.line[j].ev \in ToSet(made)
        /\ \A j, k \in 1..L : j < k => At(made, comp.line[j].ev) < At(made, comp.line[k].ev)
    BY <1>5 DEF PInv, CompOK, LineKept
  <2>2. n + 1 = i \/ n + 1 < i
    BY <1>5, <1>6
  <2>3. \A y \in ToSet(made) : At(made, y) \in Nat
    BY AtNat DEF PInv, Types
  <2>4. x \in ToSet(made) /\ e \in ToSet(made)
    BY <1>6, <2>1
  <2>5. n + 1 < i => At(made, x) < At(made, e)
    BY <1>6, <2>1
  <2> QED BY <2>2, <2>3, <2>4, <2>5
<1> HIDE DEF x, e
<1>11. now \in Nat /\ MayWait \in Nat \ {0} /\ Hold \in Nat /\ Window \in Nat
  BY InputFacts DEF PInv, Types
<1>12. IF w.deadline = NoDeadline
       THEN w.reason = "confirm" /\ \E k \in DOMAIN held : held[k].ev = x /\ held[k].live
       ELSE w.deadline <= since[x] + MayWait
  BY <1>2, <1>7, <1>8 DEF WindowsOK
<1>13. CASE w.deadline # NoDeadline
  <2>1. now < w.deadline /\ w.deadline <= since[x] + MayWait
    BY <1>8, <1>12, <1>13
  <2>2. w.deadline \in Int
    <3>1. c.waits[x] \subseteq Wait
      BY <1>2, <1>9 DEF CompOK, CompType
    <3> QED BY <3>1 DEF Wait
  <2>3. now < since[e] + MayWait
    BY <1>9, <1>11, <2>1, <2>2
  <2> QED BY <2>3 DEF e
<1>14. CASE w.deadline = NoDeadline
  <2>1. PICK k \in DOMAIN held : held[k].ev = x
    BY <1>12, <1>14
  <2>2. (\E j \in 1..k : held[j].ts + Window > t) \/ since[x] >= t + Hold
    BY <1>2, <1>7, <2>1 DEF WindowsOK
  <2>3. CASE since[x] >= t + Hold
    <3>1. now < since[e] + MayWait
      BY <1>2, <1>9, <1>11, <2>3
    <3> QED BY <3>1 DEF e
  <2>4. CASE \E j \in 1..k : held[j].ts + Window > t
    <3>1. PICK j \in 1..k : held[j].ts + Window > t
      BY <2>4
    <3>2. /\ held \in Seq(OperationType)
          /\ \A a \in DOMAIN held : held[a].ev \in ToSet(made) /\ held[a].ts = Ts(held[a].ev)
          /\ \A a, b \in DOMAIN held : a < b => At(made, held[a].ev) < At(made, held[b].ev)
      BY <1>2 DEF WindowsOK
    <3>3. DOMAIN held = 1..Len(held) /\ Len(held) \in Nat
      BY <3>2
    <3>4. j \in DOMAIN held /\ (j = k \/ j < k)
      BY <2>1, <3>3
    <3> DEFINE y == held[j].ev
    <3>5. y \in ToSet(made) /\ held[j].ts = Ts(y) /\ (j < k => At(made, y) < At(made, x)) /\ (j = k => y = x)
      BY <2>1, <3>2, <3>4
    <3> HIDE DEF y
    <3>6. At(made, y) \in DOMAIN made /\ made[At(made, y)] = y /\ At(made, y) \in Nat /\ y \in Events
      <4>1. made \in Seq(Events)
        BY DEF PInv, Types
      <4>2. At(made, y) \in Nat /\ At(made, y) \in DOMAIN made /\ made[At(made, y)] = y
        BY <3>5, <4>1, AtFacts, AtNat
      <4> QED BY <3>5, <4>1, <4>2, ToSetType
    <3>7. Ts(y) \in Nat
      BY <3>6, InputFacts
    <3>8. At(made, y) \in 1..At(made, e)
      <4>1. At(made, y) <= At(made, x)
        BY <1>10, <3>4, <3>5, <3>6
      <4>2. DOMAIN made = 1..Len(made)
        BY DEF PInv, Types
      <4> QED BY <1>10, <3>6, <4>1, <4>2
    <3>9. now < Ts(made[At(made, y)]) + Window + Hold
      BY <1>2, <1>11, <3>1, <3>5, <3>6, <3>7
    <3> QED BY <3>8, <3>9 DEF e
  <2> QED BY <2>2, <2>3, <2>4
<1> QED BY <1>13, <1>14

\* The end of a pass.
LEMMA TickEndsInv == ASSUME PInv, TickEnds PROVE PInv'
<1> DEFINE L == Len(comp.line)
<1>1. PICK s : s = Watermark(ord, now)
  OBVIOUS
<1>2. PICK n : n = Drainable(CompStepped(s), now)
  OBVIOUS
<1>3. /\ pc = "release" /\ ~stopping /\ NextUntil(ord, now - Hold) = {}
      /\ files' = FilesStepped(s) /\ stream' = Stepped(s) /\ Emits(CompStepped(s), n)
      /\ asked' = asked \cup requests /\ requests' = {}
      /\ pc' = (IF open = {} THEN "replies" ELSE "kernel") /\ stopping' = (open = {})
      /\ open' = {} /\ room' = QueueCap["kernel"]
      /\ UNCHANGED <<clock, queue, closed, back, cur, ord, now, replies, late, made>>
  BY <1>1, <1>2 DEF TickEnds, Limit
<1>4. /\ ord.last \in Int /\ stream \in Int /\ now \in Nat /\ now <= clock /\ clock < Forever /\ clock \in Nat
      /\ requests \subseteq Requests /\ asked \subseteq Requests
  BY DEF PInv, Types
<1>5. /\ Hold \in Nat /\ Window \in Nat /\ Forever \in Nat /\ Never \in Int /\ Never < 0
      /\ QueueCap["kernel"] \in Nat
  BY InputFacts
<1>6. s \in Int /\ s >= now - Hold /\ s \in {ord.last, now - Hold}
  BY <1>1, <1>4, <1>5 DEF Watermark, Later
<1>7. /\ WindowsOK(FilesStepped(s).held, CompStepped(s), Stepped(s))
      /\ CompOK(CompStepped(s), made) /\ CompStepped(s).line = comp.line /\ CompStepped(s).pending = comp.pending
      /\ CompStepped(s).exited = comp.exited
      /\ stream' \in {stream, s} /\ stream' >= stream /\ stream' >= s /\ stream' \in Int
  BY <1>3, <1>6, StepFacts
<1>8. n \in 0..L /\ n \in 0..Len(CompStepped(s).line)
  BY <1>2, <1>7, DrainableFacts
<1>9. /\ cur = None /\ \A q \in Queues : q \notin open => q \in closed /\ queue[q] = <<>>
  BY <1>3 DEF PInv, Control, StopKept, Passed
<1>10. Types' /\ Queued' /\ CompOK(comp, made)' /\ MadeOnce' /\ SinkKept' /\ WaitsKept' /\ BooksOfPending'
  <2>1. /\ UNCHANGED <<clock, queue, closed, cur, back, ord, now, replies, late, made>> /\ (~stopping' => ~stopping)
        /\ open' \subseteq Queues /\ room' \in Nat /\ stopping' \in BOOLEAN /\ requests' \subseteq Requests
        /\ asked' \subseteq Requests /\ pc' \in {"kernel", "replies", "done"}
    BY <1>3, <1>4, <1>5
  <2> QED BY <1>3, <1>6, <1>8, <2>1, EmitsKeep
<1>11. Control'
  <2>1. room' <= QueueCap["kernel"]
    BY <1>3, <1>5
  <2> QED BY <1>3, <1>9, <2>1 DEF Control
<1>12. \A h \in ord.held : h.ts > now - Hold /\ h.ts \in Nat /\ h.ts >= stream /\ h.ts >= ord.last
  <2>1. now - Hold \in Int
    BY <1>4, <1>5
  <2>2. \A h \in ord.held : h.ts > now - Hold
    BY <1>3, <2>1, NextFacts
  <2>3. \A h \in ord.held : h.ts \in Nat
    BY DEF PInv, Types, HeldType
  <2> QED BY <2>2, <2>3 DEF PInv, TimeKept
<1>13. TimeKept'
  <2>1. (stream = Never \/ stream + Hold <= now) /\ (ord.last = Never \/ ord.last + Hold <= now)
    BY <1>3 DEF PInv, TimeKept
  <2>2. stream' = Never \/ stream' + Hold <= now
    <3>1. stream' \in {stream, ord.last, now - Hold}
      BY <1>6, <1>7
    <3>2. (now - Hold) + Hold <= now
      BY <1>4, <1>5
    <3> QED BY <2>1, <3>1, <3>2
  <2>3. stream' < Forever
    BY <1>4, <1>5, <1>7, <2>2
  <2>4. \A h \in ord.held : h.ts >= stream'
    BY <1>4, <1>5, <1>6, <1>7, <1>12
  <2>5. StreamOrder'
    BY <1>3 DEF StreamOrder
  <2> QED BY <1>3, <1>12, <2>1, <2>2, <2>3, <2>4, <2>5 DEF TimeKept
<1>14. StopKept'
  <2>1. \A q \in Queues : ~stopping' => ~Passed(q)'
    BY <1>3 DEF Passed, Queues
  <2>2. stopping' => \A q \in Queues : q \in closed /\ queue[q] = <<>>
    BY <1>3, <1>9
  <2> QED BY <1>3, <2>1, <2>2 DEF StopKept
<1>15. LeavesInTime'
  <2>1. \A h \in ord.held : now < h.ts + Hold
    BY <1>4, <1>5, <1>12
  <2>2. CompOK(comp, made) /\ L \in Nat
    <3>1. CompOK(comp, made)
      BY DEF PInv
    <3> QED BY <3>1, LineEvents
  <2>3. /\ DOMAIN comp'.line = 1..L - n
        /\ \A i \in 1..L - n : i + n \in 1..L /\ comp'.line[i] = comp.line[i + n]
        /\ \A i \in DOMAIN comp'.line : since'[comp'.line[i].ev] = since[comp'.line[i].ev]
    <3>1. PICK c : c = CompStepped(s)
      OBVIOUS
    <3>2. /\ CompOK(c, made) /\ c.line = comp.line /\ c.pending = comp.pending /\ c.exited = comp.exited
          /\ n \in 0..Len(c.line) /\ Emits(c, n) /\ made' = made
      BY <1>3, <1>7, <1>8, <3>1
    <3>3. /\ DOMAIN comp'.line = 1..Len(c.line) - n
          /\ \A i \in 1..Len(c.line) - n : i + n \in 1..Len(c.line) /\ comp'.line[i] = c.line[i + n]
          /\ \A i \in DOMAIN comp'.line : since'[comp'.line[i].ev] = since[comp'.line[i].ev]
      BY <3>2, EmitsFacts, SMTT(60)
    <3>4. c.line = comp.line /\ Len(c.line) = L
      BY <3>2
    <3>5. DOMAIN comp'.line = 1..L - n
      BY <3>3, <3>4
    <3>6. \A i \in 1..L - n : i + n \in 1..L /\ comp'.line[i] = comp.line[i + n]
      BY <3>3, <3>4
    <3> QED BY <3>3, <3>5, <3>6
  <2>4. ASSUME NEW i \in DOMAIN comp'.line
        PROVE  \/ now < since'[comp'.line[i].ev] + MayWait
               \/ \E j \in 1..At(made, comp'.line[i].ev) : now < Ts(made[j]) + Window + Hold
    <3>1. i \in 1..L - n /\ i + n \in 1..L /\ comp'.line[i] = comp.line[i + n]
      BY <2>3
    <3>2. i + n > n
      BY <1>8, <2>2, <3>1
    <3>3. PICK k \in 1..L : k = i + n
      BY <3>1
    <3>4. \/ now < since[comp.line[k].ev] + MayWait
          \/ \E j \in 1..At(made, comp.line[k].ev) : now < Ts(made[j]) + Window + Hold
      BY <1>2, <1>3, <1>6, <1>7, <3>2, <3>3, LineInTime
    <3>5. comp'.line[i] = comp.line[k] /\ since'[comp'.line[i].ev] = since[comp.line[k].ev]
      BY <2>3, <3>1, <3>3
    <3> QED BY <3>4, <3>5
  <2>5. \A e : Index(e)' = At(made, e)
    BY <1>3 DEF Index, At
  <2> QED BY <1>3, <2>1, <2>4, <2>5 DEF LeavesInTime
<1>16. CleanStop'
  BY <1>3 DEF CleanStop
<1> QED BY <1>10, <1>11, <1>13, <1>14, <1>15, <1>16 DEF PInv

\* The stop: every window closes and the whole line leaves.
LEMMA StopsInv == ASSUME PInv, Stops PROVE PInv'
<1> DEFINE L == Len(comp.line)
<1>1. /\ pc = "release" /\ stopping /\ NextUntil(ord, Forever) = {}
      /\ files' = FilesStepped(Forever) /\ stream' = Stepped(Forever) /\ Emits(CompStepped(Forever), L)
      /\ pc' = "done" /\ stream' = Forever
      /\ UNCHANGED <<clock, queue, closed, back, cur, room, open, stopping, ord, requests, now, asked, replies,
                     late, made>>
  <2>1. stream \in Int /\ stream < Forever /\ Forever \in Int
    BY InputFacts DEF Stops, PInv, Types, TimeKept
  <2>2. Stepped(Forever) = Forever
    BY <2>1 DEF Stepped, Later
  <2> QED BY <2>2 DEF Stops, Limit, laneVars
<1>2. Forever \in Nat /\ Forever \in Int /\ Window \in Nat /\ stream \in Int /\ stream < Forever
  BY <1>1, InputFacts DEF PInv, Types, TimeKept
<1>3. /\ CompOK(CompStepped(Forever), made) /\ CompStepped(Forever).line = comp.line
      /\ CompStepped(Forever).pending = comp.pending /\ CompStepped(Forever).exited = comp.exited
      /\ (\A k \in DOMAIN files.held : files.held[k].ts + Window <= Forever) => files'.held = <<>>
  BY <1>1, <1>2, StepFacts
<1>4. CompOK(comp, made)
  BY DEF PInv
<1>5. L \in Nat /\ L \in 0..Len(CompStepped(Forever).line)
  BY <1>3, <1>4, LineEvents
<1>6. Types' /\ Queued' /\ CompOK(comp, made)' /\ MadeOnce' /\ SinkKept' /\ WaitsKept' /\ BooksOfPending'
  <2>1. /\ UNCHANGED <<clock, queue, closed, cur, back, ord, now, replies, late, made>> /\ (~stopping' => ~stopping)
        /\ open' \subseteq Queues /\ room' \in Nat /\ stopping' \in BOOLEAN /\ requests' \subseteq Requests
        /\ asked' \subseteq Requests /\ pc' \in {"kernel", "replies", "done"}
    BY <1>1 DEF PInv, Types
  <2> QED BY <1>1, <1>2, <1>5, <2>1, EmitsKeep
<1>7. cur = None /\ Control'
  BY <1>1 DEF PInv, Control
<1>8. ord.held = {}
  <2>1. \A h \in ord.held : h.ts > Forever
    BY <1>1, <1>2, NextFacts
  <2>2. \A h \in ord.held : h.ev \in Events /\ h.ts \in Nat /\ h.ts = Ts(h.ev)
    BY DEF PInv, Types, HeldType, Queued
  <2>3. \A h \in ord.held : h.ts + Window < Forever
    BY <2>2, InputFacts
  <2> QED BY <1>2, <2>1, <2>2, <2>3
<1>9. files'.held = <<>>
  <2>1. ASSUME NEW k \in DOMAIN files.held PROVE files.held[k].ts + Window <= Forever
    <3>1. files.held[k].ev \in ToSet(made) /\ files.held[k].ts = Ts(files.held[k].ev)
      BY DEF PInv, WaitsKept, HeldKept
    <3>2. ToSet(made) \subseteq Events
      BY ToSetType DEF PInv, Types
    <3>3. files.held[k].ts \in Nat /\ files.held[k].ts + Window < Forever
      BY <3>1, <3>2, InputFacts
    <3> QED BY <1>2, <3>3
  <2> QED BY <1>3, <2>1
<1>10. TimeKept'
  BY <1>1, <1>8 DEF TimeKept, StreamOrder
<1>11. StopKept'
  BY <1>1 DEF PInv, StopKept
<1>12. LeavesInTime'
  BY <1>1 DEF LeavesInTime
<1>13. /\ DOMAIN comp'.line = {} /\ comp'.pending = {} /\ comp'.exited = {}
       /\ \A e \in Events : fate'[e] # "made"
  <2>1. PICK c : c = CompStepped(Forever)
    OBVIOUS
  <2>2. /\ CompOK(c, made) /\ c.line = comp.line /\ c.pending = comp.pending /\ c.exited = comp.exited
        /\ L \in 0..Len(c.line) /\ Emits(c, L) /\ made' = made
    BY <1>1, <1>3, <1>5, <2>1
  <2>3. /\ DOMAIN comp'.line = 1..Len(c.line) - L
        /\ \A e \in comp'.pending : \E i \in DOMAIN comp'.line : comp'.line[i].ev = e
        /\ comp'.exited = {}
        /\ \A x \in Events : fate'[x] = "made" => \E i \in DOMAIN comp'.line : comp'.line[i].ev = x
    BY <2>2, EmitsFacts
  <2>4. DOMAIN comp'.line = {}
    BY <1>5, <2>2, <2>3
  <2> QED BY <2>3, <2>4
<1>14. CleanStop'
  <2>1. comp'.line = <<>>
    <3>1. comp'.line \in Seq(Slot)
      BY <1>6 DEF CompOK, CompType
    <3>2. PICK l \in Seq(Slot) : l = comp'.line
      BY <3>1
    <3>3. DOMAIN l = {}
      BY <1>13, <3>2
    <3>4. Len(l) = 0
      BY <3>3
    <3> QED BY <3>2, <3>4, EmptySeq
  <2>2. enrich' = {} /\ slots' = {}
    BY <1>6, <1>13 DEF BooksOfPending
  <2>3. \A e \in Events : fate'[e] # "queued"
    <3>1. \A q \in Queues : queue[q] = <<>>
      BY <1>1 DEF PInv, StopKept
    <3>2. \A e \in Events : ~InQueue(e)' /\ ~InHeld(e)' /\ e # cur'
      BY <1>1, <1>7, <1>8, <3>1, NoneAssumption DEF InQueue, InHeld, ToSet
    <3> QED BY <1>6, <3>2 DEF Queued
  <2> QED BY <1>1, <1>8, <1>9, <1>13, <2>1, <2>2, <2>3 DEF CleanStop
<1> QED BY <1>6, <1>7, <1>10, <1>11, <1>12, <1>14 DEF PInv

-----------------------------------------------------------------------------
(* The theorems                                                              *)

\* A step that changes nothing keeps the invariant.
LEMMA StutterInv == ASSUME PInv, UNCHANGED vars PROVE PInv'
<1>1. /\ UNCHANGED <<clock, queue, closed, pc, back, cur, room, open, stopping>>
      /\ UNCHANGED <<ord, comp, files, enrich, slots, requests, stream, now>>
      /\ UNCHANGED <<asked, replies, sink, fate, late, made, since>>
  BY DEF vars, threadVars, stateVars, laneVars, history
<1>2. Types' /\ Control' /\ CompOK(comp, made)' /\ MadeOnce' /\ SinkKept'
  BY <1>1 DEF PInv, Types, Control, CompOK, LineKept, OverflowKept, CapKept, MadeOnce, SinkKept, SinkOK
<1>3. Queued'
  <2>1. \A x \in Events : (InQueue(x)' <=> InQueue(x)) /\ (InHeld(x)' <=> InHeld(x))
    BY <1>1 DEF InQueue, InHeld
  <2> QED BY <1>1, <2>1 DEF PInv, Queued
<1>4. TimeKept'
  BY <1>1 DEF PInv, TimeKept, StreamOrder
<1>5. WaitsKept'
  BY <1>1 DEF PInv, WaitsKept, HeldKept, SinceKept, WaitKept, InWindow
<1>6. StopKept'
  <2>1. \A q \in Queues : Passed(q)' <=> Passed(q)
    BY <1>1 DEF Passed
  <2> QED BY <1>1, <2>1 DEF PInv, StopKept
<1>7. BooksOfPending' /\ CleanStop'
  BY <1>1 DEF PInv, BooksOfPending, CleanStop
<1>8. LeavesInTime'
  <2>1. \A e : Index(e)' = Index(e)
    BY <1>1 DEF Index
  <2> QED BY <1>1, <2>1 DEF PInv, LeavesInTime
<1> QED BY <1>2, <1>3, <1>4, <1>5, <1>6, <1>7, <1>8 DEF PInv

\* Every step keeps the invariant: one lemma for each action.
LEMMA NextInv == ASSUME PInv, [Next]_vars PROVE PInv'
<1>1. CASE Thread
  BY <1>1, DrainInv, DrainEndsInv, EnrichedInv, ExpandedInv, RepliesEndInv, ProcessOneInv, ReleaseOneInv,
     TickEndsInv, StopsInv DEF Thread
<1>2. CASE Others
  BY <1>2, ArriveInv, CloseQueueInv, PassesInv, AnswerInv DEF Others, Callbacks, Closing, Lanes
<1>3. CASE UNCHANGED vars
  BY <1>3, StutterInv
<1> QED BY <1>1, <1>2, <1>3 DEF Next, Done

\* Overload, from what the order queue keeps: the forced events are older than
\* every pending one that is not.
LEMMA OverflowOrder == ASSUME PInv PROVE OverflowTakesOldest
<1>1. OverflowKept(comp, made) /\ LineKept(comp, made) /\ CapKept(comp) /\ comp \in CompType
  BY DEF PInv, CompOK
<1>2. ASSUME NEW e \in comp.pending, NEW f \in comp.forced, Index(e) < Index(f), e \notin comp.forced
      PROVE  FALSE
  <2>1. At(made, e) < At(made, f)
    BY <1>2 DEF Index, At
  <2>2. PICK i \in DOMAIN comp.order : comp.order[i] = e
    BY <1>1, <1>2 DEF OverflowKept, ToSet
  <2>3. At(made, f) < At(made, e)
    BY <1>1, <2>2 DEF OverflowKept
  <2>4. e \in ToSet(made) /\ f \in ToSet(made)
    BY <1>1, PendingMade DEF OverflowKept
  <2>5. At(made, e) \in Nat /\ At(made, f) \in Nat
    BY <2>4, AtNat DEF PInv, Types
  <2> QED BY <2>1, <2>3, <2>5
<1> QED BY <1>1, <1>2 DEF CapKept, OverflowTakesOldest

\* The invariant of the pipeline: where an event is, what the completion stage
\* keeps, how far stream time is, and what each wait is for.
THEOREM PipelineInvariant == Spec => []PInv
<1>1. Init => PInv
  BY InitInv
<1>2. PInv /\ [Next]_vars => PInv'
  BY NextInv
<1> QED BY <1>1, <1>2, PTL DEF Spec

\* Events are processed in order of time with stream time in step, reach the
\* sink in the order they were produced, and overload forces out the oldest
\* (Pipeline::push and tick, Completion::drain and push_pending).
THEOREM OrderKeptAlways == Spec => []OrderKept
<1>1. ASSUME PInv PROVE OrderKept
  <2>1. PipelineTypeOK
    <3>1. comp \in CompType /\ OverflowKept(comp, made)
      BY <1>1 DEF PInv, CompOK
    <3>2. comp.pending \subseteq Events /\ comp.forced \subseteq comp.pending /\ comp.exited \cap comp.pending = {}
      BY <3>1 DEF CompType, OverflowKept
    <3>3. ToSet(comp.order) \subseteq Events
      BY <3>1, ToSetType DEF CompType
    <3> QED BY <1>1, <3>2, <3>3 DEF PInv, Types, PipelineTypeOK, Fates, Requests
  <2>2. StreamOrder
    BY <1>1 DEF PInv, TimeKept
  <2>3. EmittedInOrder
    <3>1. \A e : Index(e) = At(made, e)
      BY DEF Index, At
    <3> QED BY <1>1, <3>1 DEF PInv, SinkKept, SinkOK, EmittedInOrder
  <2>4. OverflowTakesOldest
    BY <1>1, OverflowOrder
  <2> QED BY <2>1, <2>2, <2>3, <2>4 DEF OrderKept
<1> QED BY <1>1, PipelineInvariant, PTL

\* What is kept for a pending event goes with it, nothing stays in the line
\* past its deadlines and the windows before it, and a stop leaves nothing
\* behind (take_exited, Completion::drain, Pipeline::stop).
THEOREM PendingOKAlways == Spec => []PendingOK
<1>1. PInv => PendingOK
  BY DEF PInv, PendingOK
<1> QED BY <1>1, PipelineInvariant, PTL

=============================================================================
