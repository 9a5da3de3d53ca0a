---------------------------- MODULE StoreProofs ------------------------------
(* Proofs about Store, for any bounds: SinkOK, EveryEventAccounted, LogRight  *)
(* and ReportsRight. The inductive invariant comes first, then the lemmas on  *)
(* sequences of messages and on the counters, then one lemma for each action, *)
(* and the four theorems at the end.                                          *)
EXTENDS Store, FiniteSetTheorems, SequenceTheorems, TLAPS

-----------------------------------------------------------------------------
(* The inductive invariant                                                   *)

EventMsgs == [kind : {"event"}, n : Nat \ {0}]
RawReports == [kind : {"report"}, n : Nat \ {0}, final : BOOLEAN]
FullReports == [kind : {"report"}, n : Nat \ {0}, final : BOOLEAN,
                rejected : Nat, gap : Nat, recovery : BOOLEAN, drops : Nat]
Sent == EventMsgs \cup RawReports
Stored == EventMsgs \cup FullReports
Msgs == Sent \cup FullReports

QTypes ==
    /\ chan \in Seq(Sent) /\ adding \in [Senders -> Seq(Sent)]
    /\ len \in Int /\ backing \in SUBSET {"pipeline"} /\ taken \in BOOLEAN /\ rxOpen \in BOOLEAN
RTypes ==
    /\ cur \in Seq(Sent) /\ held \in Seq(FullReports) /\ backlog \in Seq(Stored) /\ log \in Seq(Stored)
    /\ stats \in [rejected : Nat, gaps : Nat]
    /\ reported \in [rejected : Nat, drops : Nat, recovery : BOOLEAN]
NTypes ==
    /\ base \in [count : Nat, lost : Nat, drops : Nat] /\ told \in [count : Nat, lost : Nat]
    /\ answer \in Nat \cup {NotRead}
    /\ emitted \in Nat /\ count \in Nat /\ lost \in Nat /\ nreports \in Nat /\ drops \in Nat /\ evicted \in Nat
PTypes ==
    /\ ppc \in {"run", "send", "drop", "ended", "panicked"}
    /\ hpc \in {"wait", "asked", "answered", "send", "ended"}
    /\ mpc \in {"running", "joinHealth", "joinPipeline", "send", "join", "done"}
    /\ wpc \in {"recv", "taken", "handle", "drain", "tick", "close", "closed", "failed", "dead"}
Types == QTypes /\ RTypes /\ NTypes /\ PTypes

\* Where each thread is when it has a message in its hands, and who has ended.
SenderControl ==
    /\ \A s \in Senders : Len(adding[s]) <= 1
    /\ adding["pipeline"] # <<>> => ppc = "send" /\ backing = {}
    /\ backing # {} => ppc = "send"
    /\ adding["health"] # <<>> => hpc = "send"
    /\ adding["main"] # <<>> => mpc = "send"
    /\ mpc \in {"joinPipeline", "send", "join", "done"} => hpc = "ended"
    /\ mpc \in {"send", "join", "done"} => PipelineGone
WriterControl ==
    /\ taken <=> wpc = "taken"
    /\ IF wpc \in {"taken", "handle"} THEN Len(cur) = 1 ELSE wpc # "dead" => cur = <<>>
    /\ rxOpen <=> wpc \notin {"closed", "failed", "dead"}
    /\ ~rxOpen => chan = <<>>
    /\ wpc \in {"close", "closed", "failed"} => SendersGone /\ chan = <<>>

\* What senders have counted and not sent is theirs; the rest of the counter is
\* the channel, or what it held when the receiver went.
Hands == Len(adding["pipeline"]) + Len(adding["health"]) + Len(adding["main"])
Stuck == len - Hands - (IF backing = {} THEN 0 ELSE 1) - (IF taken THEN 1 ELSE 0)
QueueInv ==
    /\ rxOpen => Stuck = Len(chan)
    /\ Stuck \in 0..(Cap + nreports)
    /\ EventsIn(chan) + Len(adding["pipeline"]) <= Cap
    /\ Len(chan) - EventsIn(chan) + Len(adding["health"]) + Len(adding["main"]) <= nreports

\* What senders hold is the newest of its kind.
AddingInv ==
    /\ adding["pipeline"] # <<>> => adding["pipeline"] = <<Event(emitted)>>
    /\ adding["health"] # <<>> => adding["health"] = <<[kind |-> "report", n |-> nreports, final |-> FALSE]>>
    /\ adding["main"] # <<>> => adding["main"] = <<[kind |-> "report", n |-> nreports, final |-> TRUE]>>

\* The records given to the buffer, those completed, and all on their way.
Written == log \o backlog
Completed == Written \o held
Line == Completed \o cur \o chan

\* Records of a kind are in the order of their numbers, all below the newest.
Ordered(s) == \A i, j \in DOMAIN s : i < j /\ s[i].kind = s[j].kind => s[i].n < s[j].n
Below(s, e, r) == \A i \in DOMAIN s : s[i].n <= (IF IsEvent(s[i]) THEN e ELSE r)
OrderInv ==
    /\ Ordered(Line)
    /\ Below(Line, emitted - Len(adding["pipeline"]), nreports - Len(adding["health"]) - Len(adding["main"]))

\* Every event is somewhere or counted, once.
Refused == IF backing # {} \/ ppc = "drop" THEN 1 ELSE 0
Seen == EventsIn(Line) + Len(adding["pipeline"]) + stats.rejected + drops + Refused
AccountInv ==
    /\ Seen <= emitted /\ emitted <= MaxEvents
    /\ wpc # "dead" => Seen = emitted

\* The reports sent so far add up to what they are measured from.
CounterInv ==
    /\ told.count = base.count /\ base.count <= count /\ count <= MaxCount
    /\ answer # NotRead => hpc = "answered" /\ base.count <= answer /\ answer <= count
    /\ told.lost <= lost /\ lost - told.lost < Wrap /\ told.lost % Wrap = base.lost
    /\ base.drops <= drops
    /\ mpc \in {"send", "join", "done"} /\ ppc = "ended" => told.count = count

\* While no report is missing, the completed ones say all that was reported.
NoneMissing == Numbers(Reports(Line \o adding["health"] \o adding["main"])) = 1..nreports
FigureInv ==
    /\ reported.drops <= drops /\ reported.rejected <= stats.rejected
    /\ wpc # "dead" /\ NoneMissing =>
        /\ evicted = Told(Completed, "gap") + stats.gaps
        /\ reported.drops = Told(Completed, "drops")
        /\ reported.rejected = Told(Completed, "rejected")

\* The final report is the newest and nothing is behind it.
Final(m) == ~IsEvent(m) /\ m.final
NoFinal(s) == \A i \in DOMAIN s : ~Final(s[i])
FinalLast(s) == \A i \in DOMAIN s : Final(s[i]) => i = Len(s)
FinalInv ==
    /\ FinalLast(Line)
    /\ mpc \notin {"join", "done"} => NoFinal(Line)
    /\ mpc \in {"send", "join", "done"} =>
        /\ nreports > 0
        /\ \A i \in DOMAIN Line : ~IsEvent(Line[i]) /\ Line[i].n = nreports => Final(Line[i])
    /\ NoFinal(Completed) \/ (reported.drops = drops /\ reported.rejected = stats.rejected)

RoomInv == Bytes(backlog) <= BacklogCap /\ Len(held) <= HeldCap

StoreInv ==
    /\ Types /\ SenderControl /\ WriterControl /\ QueueInv /\ AddingInv /\ OrderInv /\ AccountInv
    /\ CounterInv /\ FigureInv /\ FinalInv /\ RoomInv

-----------------------------------------------------------------------------
(* Sequences of messages, by their concatenations                            *)

\* Every record of one is before every record of the other, of its kind.
Before(s, t) == \A i \in DOMAIN s, j \in DOMAIN t : s[i].kind = t[j].kind => s[i].n < t[j].n

\* The report with number n is a final one.
Newest(s, n) == \A i \in DOMAIN s : ~IsEvent(s[i]) /\ s[i].n = n => Final(s[i])

\* The records of a sequence that are events, by their places.
Places(s) == {i \in DOMAIN s : IsEvent(s[i])}

\* Every report of a sequence has the figure.
Has(s, f) == \A i \in DOMAIN s : ~IsEvent(s[i]) => s[i][f] \in Nat

\* One pair for each unit that a report tells.
Units(s, f) == UNION {{i} \X (1..s[i][f]) : i \in {j \in DOMAIN s : ~IsEvent(s[j])}}

\* A message is an event or a report and has a number.
LEMMA MsgFacts ==
    ASSUME NEW m \in Msgs
    PROVE  m.kind \in {"event", "report"} /\ m.n \in Nat /\ m.n > 0
<1>1. CASE m \in EventMsgs
  BY <1>1 DEF EventMsgs
<1>2. CASE m \in RawReports
  BY <1>2 DEF RawReports
<1>3. CASE m \in FullReports
  BY <1>3 DEF FullReports
<1> QED BY <1>1, <1>2, <1>3 DEF Msgs, Sent

\* The places of a concatenation are those of its parts.
LEMMA CatSeq ==
    ASSUME NEW M, NEW s \in Seq(M), NEW t \in Seq(M)
    PROVE  /\ s \o t \in Seq(M)
           /\ Len(s \o t) = Len(s) + Len(t) /\ Len(s) \in Nat /\ Len(t) \in Nat
           /\ DOMAIN s = 1..Len(s) /\ DOMAIN t = 1..Len(t)
           /\ DOMAIN (s \o t) = 1..(Len(s) + Len(t))
           /\ \A i \in DOMAIN s : i \in DOMAIN (s \o t) /\ (s \o t)[i] = s[i]
           /\ \A j \in DOMAIN t : Len(s) + j \in DOMAIN (s \o t) /\ (s \o t)[Len(s) + j] = t[j]
           /\ \A k \in DOMAIN (s \o t) : k \in DOMAIN s \/ \E j \in DOMAIN t : k = Len(s) + j
<1>1. /\ s \o t \in Seq(M)
      /\ Len(s \o t) = Len(s) + Len(t) /\ Len(s) \in Nat /\ Len(t) \in Nat
      /\ DOMAIN s = 1..Len(s) /\ DOMAIN t = 1..Len(t)
      /\ DOMAIN (s \o t) = 1..Len(s \o t)
  BY ConcatProperties, LenProperties
<1>2. \A i \in 1..(Len(s) + Len(t)) : (s \o t)[i] = IF i <= Len(s) THEN s[i] ELSE t[i - Len(s)]
  BY ConcatProperties
<1>3. ASSUME NEW i \in DOMAIN s
      PROVE  i \in DOMAIN (s \o t) /\ (s \o t)[i] = s[i]
  BY <1>1, <1>2
<1>4. ASSUME NEW j \in DOMAIN t
      PROVE  Len(s) + j \in DOMAIN (s \o t) /\ (s \o t)[Len(s) + j] = t[j]
  <2>1. Len(s) + j \in 1..(Len(s) + Len(t)) /\ ~(Len(s) + j <= Len(s)) /\ (Len(s) + j) - Len(s) = j
    BY <1>1
  <2> QED BY <1>1, <1>2, <2>1
<1>5. ASSUME NEW k \in DOMAIN (s \o t), k \notin DOMAIN s
      PROVE  \E j \in DOMAIN t : k = Len(s) + j
  <2>1. k - Len(s) \in DOMAIN t /\ k = Len(s) + (k - Len(s))
    BY <1>1, <1>5
  <2> QED BY <2>1
<1> QED BY <1>1, <1>3, <1>4, <1>5

\* Moving a finite set of numbers along keeps its size.
LEMMA Shift ==
    ASSUME NEW S \in SUBSET Nat, IsFiniteSet(S), NEW n \in Nat
    PROVE  IsFiniteSet({n + i : i \in S}) /\ Cardinality({n + i : i \in S}) = Cardinality(S)
<1> DEFINE T == {n + i : i \in S}
<1> DEFINE g == [i \in S |-> n + i]
<1>1. g \in [S -> T]
  OBVIOUS
<1>2. \A i, j \in S : g[i] = g[j] => i = j
  OBVIOUS
<1>3. \A y \in T : \E i \in S : g[i] = y
  OBVIOUS
<1> HIDE DEF g, T
<1>4. g \in Bijection(S, T)
  BY <1>1, <1>2, <1>3 DEF Bijection, Injection, Surjection, IsInjective
<1>5. ExistsBijection(S, T)
  BY <1>4 DEF ExistsBijection
<1>6. IsFiniteSet(T) /\ Cardinality(T) = Cardinality(S)
  BY <1>5, FS_Bijection
<1> QED BY <1>6 DEF T

\* A sequence has finitely many events, no more than records.
LEMMA EventsNat ==
    ASSUME NEW s \in Seq(Msgs)
    PROVE  /\ Places(s) \in SUBSET (1..Len(s)) /\ IsFiniteSet(Places(s))
           /\ EventsIn(s) = Cardinality(Places(s))
           /\ EventsIn(s) \in Nat /\ EventsIn(s) <= Len(s) /\ Len(s) \in Nat
<1>1. Len(s) \in Nat /\ DOMAIN s = 1..Len(s)
  BY LenProperties
<1>2. Places(s) \in SUBSET (1..Len(s))
  BY <1>1 DEF Places
<1>3. IsFiniteSet(1..Len(s)) /\ Cardinality(1..Len(s)) = Len(s)
  <2>1. \A l \in Nat : IsFiniteSet(1..l) /\ Cardinality(1..l) = IF 1 > l THEN 0 ELSE l - 1 + 1
    BY FS_Interval
  <2>2. \A l \in Nat : (IF 1 > l THEN 0 ELSE l - 1 + 1) = l
    OBVIOUS
  <2> QED BY <1>1, <2>1, <2>2
<1>4. IsFiniteSet(Places(s)) /\ Cardinality(Places(s)) <= Len(s)
  BY <1>2, <1>3, FS_Subset
<1>5. Cardinality(Places(s)) \in Nat
  BY <1>4, FS_CardinalityType
<1> QED BY <1>1, <1>2, <1>4, <1>5 DEF EventsIn, Places

\* The events of a concatenation are those of its parts.
LEMMA EventsCat ==
    ASSUME NEW s \in Seq(Msgs), NEW t \in Seq(Msgs)
    PROVE  EventsIn(s \o t) = EventsIn(s) + EventsIn(t)
<1> DEFINE T == {Len(s) + j : j \in Places(t)}
<1>1. /\ DOMAIN s = 1..Len(s) /\ DOMAIN t = 1..Len(t) /\ Len(s) \in Nat /\ Len(t) \in Nat
      /\ \A i \in DOMAIN s : i \in DOMAIN (s \o t) /\ (s \o t)[i] = s[i]
      /\ \A j \in DOMAIN t : Len(s) + j \in DOMAIN (s \o t) /\ (s \o t)[Len(s) + j] = t[j]
      /\ \A k \in DOMAIN (s \o t) : k \in DOMAIN s \/ \E j \in DOMAIN t : k = Len(s) + j
      /\ s \o t \in Seq(Msgs)
  BY CatSeq
<1>2. /\ Places(s) \in SUBSET (1..Len(s)) /\ IsFiniteSet(Places(s)) /\ EventsIn(s) = Cardinality(Places(s))
      /\ Places(t) \in SUBSET (1..Len(t)) /\ IsFiniteSet(Places(t)) /\ EventsIn(t) = Cardinality(Places(t))
      /\ EventsIn(s \o t) = Cardinality(Places(s \o t)) /\ EventsIn(s) \in Nat /\ EventsIn(t) \in Nat
  BY <1>1, EventsNat
<1>3. Places(s \o t) = Places(s) \cup T
  <2>1. ASSUME NEW k \in Places(s \o t) PROVE k \in Places(s) \cup T
    BY <1>1, <2>1 DEF Places
  <2>2. ASSUME NEW k \in Places(s) PROVE k \in Places(s \o t)
    BY <1>1, <2>2 DEF Places
  <2>3. ASSUME NEW k \in T PROVE k \in Places(s \o t)
    <3>1. PICK j \in Places(t) : k = Len(s) + j
      BY <2>3
    <3> QED BY <1>1, <3>1 DEF Places
  <2> QED BY <2>1, <2>2, <2>3
<1>4. Places(t) \in SUBSET Nat
  BY <1>1, <1>2
<1>5. IsFiniteSet(T) /\ Cardinality(T) = Cardinality(Places(t))
  BY <1>1, <1>2, <1>4, Shift
<1>6. Places(s) \cap T = {}
  BY <1>1, <1>2
<1> HIDE DEF T
<1>7. Cardinality(Places(s) \cup T) = Cardinality(Places(s)) + Cardinality(T) - Cardinality(Places(s) \cap T)
  BY <1>2, <1>5, FS_Union
<1>8. Cardinality(Places(s) \cap T) = 0
  BY <1>6, FS_EmptySet
<1>9. Cardinality(Places(s \o t)) = Cardinality(Places(s)) + Cardinality(Places(t))
  BY <1>2, <1>3, <1>5, <1>7, <1>8
<1> QED BY <1>2, <1>9

\* The units of a sequence are finitely many.
LEMMA UnitsFinite ==
    ASSUME NEW s \in Seq(Msgs), NEW f, Has(s, f)
    PROVE  IsFiniteSet(Units(s, f)) /\ Told(s, f) = Cardinality(Units(s, f)) /\ Told(s, f) \in Nat
<1> DEFINE D == {j \in DOMAIN s : ~IsEvent(s[j])}
<1> DEFINE g == [i \in D |-> {i} \X (1..s[i][f])]
<1> DEFINE G == {{i} \X (1..s[i][f]) : i \in D}
<1>1. Len(s) \in Nat /\ DOMAIN s = 1..Len(s)
  BY LenProperties
<1>2. IsFiniteSet(D)
  <2>1. \A l \in Nat : IsFiniteSet(1..l)
    BY FS_Interval
  <2>2. D \in SUBSET (1..Len(s))
    BY <1>1
  <2> QED BY <1>1, <2>1, <2>2, FS_Subset
<1>3. g \in Surjection(D, G)
  BY DEF Surjection
<1>4. \A S \in G : IsFiniteSet(S)
  <2> SUFFICES ASSUME NEW i \in D PROVE IsFiniteSet({i} \X (1..s[i][f]))
    OBVIOUS
  <2>1. s[i][f] \in Nat
    BY DEF Has
  <2>2. IsFiniteSet(1..s[i][f])
    BY <2>1, FS_Interval
  <2>3. IsFiniteSet({i})
    BY FS_Singleton
  <2> QED BY <2>2, <2>3, FS_Product
<1> HIDE DEF g, G, D
<1>5. IsFiniteSet(G)
  BY <1>2, <1>3, FS_Surjection
<1>6. IsFiniteSet(UNION G)
  BY <1>4, <1>5, FS_UNION
<1>7. Units(s, f) = UNION G
  BY DEF Units, G, D
<1>8. Told(s, f) = Cardinality(Units(s, f))
  BY DEF Told, Units
<1> QED BY <1>6, <1>7, <1>8, FS_CardinalityType

\* A pair is a unit of a sequence when it counts one of a report's figure.
LEMMA UnitIn ==
    ASSUME NEW s \in Seq(Msgs), NEW f, NEW p
    PROVE  p \in Units(s, f) <=> \E i \in DOMAIN s : ~IsEvent(s[i]) /\ \E u \in 1..s[i][f] : p = <<i, u>>
BY DEF Units

\* The units of a concatenation are those of its parts.
LEMMA ToldCat ==
    ASSUME NEW s \in Seq(Msgs), NEW t \in Seq(Msgs), NEW f, Has(s, f), Has(t, f)
    PROVE  Has(s \o t, f) /\ Told(s \o t, f) = Told(s, f) + Told(t, f)
<1> DEFINE n == Len(s)
<1> DEFINE g == [p \in Units(t, f) |-> <<n + p[1], p[2]>>]
<1> DEFINE T == {<<n + p[1], p[2]>> : p \in Units(t, f)}
<1>1. /\ DOMAIN s = 1..n /\ DOMAIN t = 1..Len(t) /\ n \in Nat /\ Len(t) \in Nat
      /\ \A i \in DOMAIN s : i \in DOMAIN (s \o t) /\ (s \o t)[i] = s[i]
      /\ \A j \in DOMAIN t : n + j \in DOMAIN (s \o t) /\ (s \o t)[n + j] = t[j]
      /\ \A k \in DOMAIN (s \o t) : k \in DOMAIN s \/ \E j \in DOMAIN t : k = n + j
      /\ s \o t \in Seq(Msgs)
  BY CatSeq
<1> HIDE DEF n
<1>2. Has(s \o t, f)
  BY <1>1 DEF Has
<1>3. /\ IsFiniteSet(Units(s, f)) /\ Told(s, f) = Cardinality(Units(s, f)) /\ Told(s, f) \in Nat
      /\ IsFiniteSet(Units(t, f)) /\ Told(t, f) = Cardinality(Units(t, f)) /\ Told(t, f) \in Nat
      /\ Told(s \o t, f) = Cardinality(Units(s \o t, f))
  BY <1>1, <1>2, UnitsFinite
<1>4. ASSUME NEW p \in Units(t, f)
      PROVE  \E j \in 1..Len(t) : ~IsEvent(t[j]) /\ \E u \in 1..t[j][f] : p = <<j, u>> /\ p[1] = j /\ p[2] = u
  BY <1>1, UnitIn
<1>5. ASSUME NEW p \in Units(s, f)
      PROVE  p[1] \in 1..n
  BY <1>1, UnitIn
<1>6. ASSUME NEW p \in T PROVE p[1] \in Nat /\ p[1] > n
  BY <1>1, <1>4
<1>7. Units(s, f) \cap T = {}
  BY <1>1, <1>5, <1>6
<1>8. Units(s \o t, f) = Units(s, f) \cup T
  <2>1. ASSUME NEW p \in Units(s \o t, f) PROVE p \in Units(s, f) \cup T
    <3>1. PICK k \in DOMAIN (s \o t) : ~IsEvent((s \o t)[k]) /\ \E u \in 1..(s \o t)[k][f] : p = <<k, u>>
      BY <2>1 DEF Units
    <3>2. CASE k \in DOMAIN s
      <4>1. ~IsEvent(s[k]) /\ \E u \in 1..s[k][f] : p = <<k, u>>
        BY <1>1, <3>1, <3>2
      <4> QED BY <3>2, <4>1, UnitIn
    <3>3. CASE k \notin DOMAIN s
      <4>1. PICK j \in DOMAIN t : k = n + j
        BY <1>1, <3>3
      <4>2. ~IsEvent(t[j]) /\ \E u \in 1..t[j][f] : p = <<n + j, u>>
        BY <1>1, <3>1, <4>1
      <4>3. PICK u \in 1..t[j][f] : p = <<n + j, u>>
        BY <4>2
      <4>4. <<j, u>> \in Units(t, f)
        BY <4>2, UnitIn
      <4>5. p = <<n + <<j, u>>[1], <<j, u>>[2]>>
        BY <4>3
      <4> QED BY <4>4, <4>5
    <3> QED BY <3>2, <3>3
  <2>2. ASSUME NEW p \in Units(s, f) PROVE p \in Units(s \o t, f)
    <3>1. PICK i \in DOMAIN s : ~IsEvent(s[i]) /\ \E u \in 1..s[i][f] : p = <<i, u>>
      BY <2>2, UnitIn
    <3>2. i \in DOMAIN (s \o t) /\ ~IsEvent((s \o t)[i]) /\ \E u \in 1..(s \o t)[i][f] : p = <<i, u>>
      BY <1>1, <3>1
    <3> QED BY <1>1, <3>2, UnitIn
  <2>3. ASSUME NEW p \in T PROVE p \in Units(s \o t, f)
    <3>1. PICK q \in Units(t, f) : p = <<n + q[1], q[2]>>
      BY <2>3
    <3>2. PICK j \in 1..Len(t) : ~IsEvent(t[j]) /\ \E u \in 1..t[j][f] : q = <<j, u>> /\ q[1] = j /\ q[2] = u
      BY <1>4
    <3>3. n + j \in DOMAIN (s \o t) /\ ~IsEvent((s \o t)[n + j]) /\ \E u \in 1..(s \o t)[n + j][f] : p = <<n + j, u>>
      BY <1>1, <3>1, <3>2
    <3> QED BY <1>1, <3>3, UnitIn
  <2> QED BY <2>1, <2>2, <2>3
<1>9. g \in Bijection(Units(t, f), T)
  <2>1. g \in [Units(t, f) -> T] /\ \A y \in T : \E p \in Units(t, f) : g[p] = y
    OBVIOUS
  <2>2. ASSUME NEW p \in Units(t, f), NEW q \in Units(t, f), g[p] = g[q] PROVE p = q
    <3>1. PICK j \in 1..Len(t) : \E u \in 1..t[j][f] : p = <<j, u>> /\ p[1] = j /\ p[2] = u
      BY <1>4
    <3>2. PICK k \in 1..Len(t) : \E u \in 1..t[k][f] : q = <<k, u>> /\ q[1] = k /\ q[2] = u
      BY <1>4
    <3>3. n + p[1] = n + q[1] /\ p[2] = q[2]
      BY <2>2
    <3>4. j = k
      BY <1>1, <3>1, <3>2, <3>3
    <3> QED BY <3>1, <3>2, <3>3, <3>4
  <2> HIDE DEF g, T
  <2> QED BY <2>1, <2>2 DEF Bijection, Injection, Surjection, IsInjective
<1> HIDE DEF g, T
<1>10. ExistsBijection(Units(t, f), T)
  BY <1>9 DEF ExistsBijection
<1>11. IsFiniteSet(T) /\ Cardinality(T) = Cardinality(Units(t, f))
  BY <1>3, <1>10, FS_Bijection
<1>12. Cardinality(Units(s, f) \cup T) = Cardinality(Units(s, f)) + Cardinality(T) - Cardinality(Units(s, f) \cap T)
  BY <1>3, <1>11, FS_Union
<1>13. Cardinality(Units(s, f) \cap T) = 0
  BY <1>7, FS_EmptySet
<1>14. Cardinality(Units(s \o t, f)) = Cardinality(Units(s, f)) + Cardinality(Units(t, f))
  BY <1>3, <1>8, <1>11, <1>12, <1>13
<1> QED BY <1>2, <1>3, <1>14

\* One report tells its own figure, one event nothing.
LEMMA ToldOne ==
    ASSUME NEW m \in Msgs, NEW f
    PROVE  /\ IsEvent(m) => Has(<<m>>, f) /\ Told(<<m>>, f) = 0
           /\ ~IsEvent(m) /\ m[f] \in Nat => Has(<<m>>, f) /\ Told(<<m>>, f) = m[f]
<1>1. <<m>> \in Seq(Msgs) /\ DOMAIN <<m>> = {1} /\ <<m>>[1] = m
  OBVIOUS
<1>2. CASE IsEvent(m)
  <2>1. Has(<<m>>, f)
    BY <1>1, <1>2 DEF Has
  <2>2. Units(<<m>>, f) = {}
    BY <1>1, <1>2 DEF Units
  <2> QED BY <1>2, <2>1, <2>2, FS_EmptySet DEF Told, Units
<1>3. CASE ~IsEvent(m) /\ m[f] \in Nat
  <2> DEFINE d == m[f]
  <2> DEFINE U == Units(<<m>>, f)
  <2> DEFINE g == [u \in 1..d |-> <<1, u>>]
  <2>1. Has(<<m>>, f)
    BY <1>1, <1>3 DEF Has
  <2>2. d \in Nat
    BY <1>3
  <2>3. \A p : p \in U <=> \E u \in 1..d : p = <<1, u>>
    <3> SUFFICES ASSUME NEW p PROVE p \in U <=> \E u \in 1..d : p = <<1, u>>
      OBVIOUS
    <3>1. p \in Units(<<m>>, f) <=> \E i \in DOMAIN <<m>> : ~IsEvent(<<m>>[i]) /\ \E u \in 1..<<m>>[i][f] : p = <<i, u>>
      BY DEF Units
    <3> QED BY <1>1, <1>3, <3>1
  <2> HIDE DEF U, d
  <2>4. g \in [1..d -> U] /\ \A y \in U : \E u \in 1..d : g[u] = y
    BY <2>3
  <2>5. \A u, v \in 1..d : g[u] = g[v] => u = v
    OBVIOUS
  <2> HIDE DEF g
  <2>6. ExistsBijection(1..d, U)
    BY <2>4, <2>5 DEF ExistsBijection, Bijection, Injection, Surjection, IsInjective
  <2>7. Cardinality(U) = d
    BY <2>2, <2>6, FS_CountingElements
  <2>8. Told(<<m>>, f) = d
    BY <2>7 DEF Told, Units, U
  <2> QED BY <1>3, <2>1, <2>8 DEF d
<1> QED BY <1>2, <1>3

\* Order over a concatenation.
LEMMA OrderCat ==
    ASSUME NEW s \in Seq(Msgs), NEW t \in Seq(Msgs)
    PROVE  Ordered(s \o t) <=> Ordered(s) /\ Ordered(t) /\ Before(s, t)
<1>1. PICK w : w = s \o t
  OBVIOUS
<1>2. /\ DOMAIN s = 1..Len(s) /\ DOMAIN t = 1..Len(t) /\ Len(s) \in Nat /\ Len(t) \in Nat
      /\ \A i \in DOMAIN s : i \in DOMAIN w /\ w[i] = s[i]
      /\ \A j \in DOMAIN t : Len(s) + j \in DOMAIN w /\ w[Len(s) + j] = t[j]
      /\ \A k \in DOMAIN w : k \in DOMAIN s \/ \E j \in DOMAIN t : k = Len(s) + j
  BY <1>1, CatSeq
<1>3. ASSUME Ordered(w) PROVE Ordered(s) /\ Ordered(t) /\ Before(s, t)
  <2>1. Ordered(s)
    BY <1>2, <1>3 DEF Ordered
  <2>2. ASSUME NEW i \in DOMAIN t, NEW j \in DOMAIN t, i < j, t[i].kind = t[j].kind
        PROVE  t[i].n < t[j].n
    <3>1. Len(s) + i < Len(s) + j
      BY <1>2, <2>2
    <3> QED BY <1>2, <1>3, <2>2, <3>1 DEF Ordered
  <2>3. ASSUME NEW i \in DOMAIN s, NEW j \in DOMAIN t, s[i].kind = t[j].kind
        PROVE  s[i].n < t[j].n
    <3>1. i < Len(s) + j
      BY <1>2
    <3> QED BY <1>2, <1>3, <2>3, <3>1 DEF Ordered
  <2> QED BY <2>1, <2>2, <2>3 DEF Ordered, Before
<1>4. ASSUME Ordered(s), Ordered(t), Before(s, t),
             NEW i \in DOMAIN w, NEW j \in DOMAIN w, i < j, w[i].kind = w[j].kind
      PROVE  w[i].n < w[j].n
  <2>1. CASE i \in DOMAIN s /\ j \in DOMAIN s
    BY <1>2, <1>4, <2>1 DEF Ordered
  <2>2. CASE i \in DOMAIN s /\ j \notin DOMAIN s
    BY <1>2, <1>4, <2>2 DEF Before
  <2>3. CASE i \notin DOMAIN s
    <3>1. PICK k \in DOMAIN t : i = Len(s) + k
      BY <1>2, <2>3
    <3>2. PICK l \in DOMAIN t : j = Len(s) + l
      BY <1>2, <1>4, <3>1
    <3>3. k < l /\ w[i] = t[k] /\ w[j] = t[l]
      BY <1>2, <1>4, <3>1, <3>2
    <3> QED BY <1>4, <3>3 DEF Ordered
  <2> QED BY <2>1, <2>2, <2>3
<1>5. Ordered(s) /\ Ordered(t) /\ Before(s, t) => Ordered(w)
  BY <1>4 DEF Ordered
<1> QED BY <1>1, <1>3, <1>5

\* What is before, or behind, a concatenation is so for both parts.
LEMMA BeforeCat ==
    ASSUME NEW s \in Seq(Msgs), NEW t \in Seq(Msgs), NEW u \in Seq(Msgs)
    PROVE  /\ Before(s \o t, u) <=> Before(s, u) /\ Before(t, u)
           /\ Before(u, s \o t) <=> Before(u, s) /\ Before(u, t)
<1>1. PICK w : w = s \o t
  OBVIOUS
<1>2. /\ \A i \in DOMAIN s : i \in DOMAIN w /\ w[i] = s[i]
      /\ \A j \in DOMAIN t : Len(s) + j \in DOMAIN w /\ w[Len(s) + j] = t[j]
      /\ \A k \in DOMAIN w : k \in DOMAIN s \/ \E j \in DOMAIN t : k = Len(s) + j
  BY <1>1, CatSeq
<1>3. ASSUME Before(w, u) PROVE Before(s, u) /\ Before(t, u)
  <2>1. ASSUME NEW i \in DOMAIN s, NEW j \in DOMAIN u, s[i].kind = u[j].kind PROVE s[i].n < u[j].n
    BY <1>2, <1>3, <2>1 DEF Before
  <2>2. ASSUME NEW i \in DOMAIN t, NEW j \in DOMAIN u, t[i].kind = u[j].kind PROVE t[i].n < u[j].n
    BY <1>2, <1>3, <2>2 DEF Before
  <2> QED BY <2>1, <2>2 DEF Before
<1>4. ASSUME Before(s, u), Before(t, u), NEW i \in DOMAIN w, NEW j \in DOMAIN u, w[i].kind = u[j].kind
      PROVE  w[i].n < u[j].n
  <2>1. CASE i \in DOMAIN s
    BY <1>2, <1>4, <2>1 DEF Before
  <2>2. CASE i \notin DOMAIN s
    <3>1. PICK k \in DOMAIN t : w[i] = t[k]
      BY <1>2, <2>2
    <3> QED BY <1>4, <3>1 DEF Before
  <2> QED BY <2>1, <2>2
<1>5. ASSUME Before(u, w) PROVE Before(u, s) /\ Before(u, t)
  <2>1. ASSUME NEW i \in DOMAIN u, NEW j \in DOMAIN s, u[i].kind = s[j].kind PROVE u[i].n < s[j].n
    BY <1>2, <1>5, <2>1 DEF Before
  <2>2. ASSUME NEW i \in DOMAIN u, NEW j \in DOMAIN t, u[i].kind = t[j].kind PROVE u[i].n < t[j].n
    BY <1>2, <1>5, <2>2 DEF Before
  <2> QED BY <2>1, <2>2 DEF Before
<1>6. ASSUME Before(u, s), Before(u, t), NEW i \in DOMAIN u, NEW j \in DOMAIN w, u[i].kind = w[j].kind
      PROVE  u[i].n < w[j].n
  <2>1. CASE j \in DOMAIN s
    BY <1>2, <1>6, <2>1 DEF Before
  <2>2. CASE j \notin DOMAIN s
    <3>1. PICK k \in DOMAIN t : w[j] = t[k]
      BY <1>2, <2>2
    <3> QED BY <1>6, <3>1 DEF Before
  <2> QED BY <2>1, <2>2
<1>7. (Before(w, u) <=> Before(s, u) /\ Before(t, u)) /\ (Before(u, w) <=> Before(u, s) /\ Before(u, t))
  BY <1>3, <1>4, <1>5, <1>6 DEF Before
<1> QED BY <1>1, <1>7

\* The bounds, the final reports and the reports of a concatenation.
LEMMA EachCat ==
    ASSUME NEW s \in Seq(Msgs), NEW t \in Seq(Msgs)
    PROVE  /\ \A e, r : Below(s \o t, e, r) <=> Below(s, e, r) /\ Below(t, e, r)
           /\ NoFinal(s \o t) <=> NoFinal(s) /\ NoFinal(t)
           /\ \A n : Newest(s \o t, n) <=> Newest(s, n) /\ Newest(t, n)
           /\ Reports(s \o t) = Reports(s) \cup Reports(t)
<1>1. PICK w : w = s \o t
  OBVIOUS
<1>2. /\ \A i \in DOMAIN s : i \in DOMAIN w /\ w[i] = s[i]
      /\ \A j \in DOMAIN t : Len(s) + j \in DOMAIN w /\ w[Len(s) + j] = t[j]
      /\ \A k \in DOMAIN w : k \in DOMAIN s \/ \E j \in DOMAIN t : k = Len(s) + j
  BY <1>1, CatSeq
<1>3. \A e, r : Below(w, e, r) <=> Below(s, e, r) /\ Below(t, e, r)
  BY <1>2 DEF Below
<1>4. NoFinal(w) <=> NoFinal(s) /\ NoFinal(t)
  BY <1>2 DEF NoFinal
<1>5. \A n : Newest(w, n) <=> Newest(s, n) /\ Newest(t, n)
  BY <1>2 DEF Newest
<1>6. Reports(w) = Reports(s) \cup Reports(t)
  <2>1. ASSUME NEW r \in Reports(w) PROVE r \in Reports(s) \cup Reports(t)
    <3>1. PICK k \in DOMAIN w : ~IsEvent(w[k]) /\ r = w[k]
      BY <2>1 DEF Reports
    <3> QED BY <1>2, <3>1 DEF Reports
  <2>2. ASSUME NEW r \in Reports(s) PROVE r \in Reports(w)
    <3>1. PICK k \in DOMAIN s : ~IsEvent(s[k]) /\ r = s[k]
      BY <2>2 DEF Reports
    <3> QED BY <1>2, <3>1 DEF Reports
  <2>3. ASSUME NEW r \in Reports(t) PROVE r \in Reports(w)
    <3>1. PICK k \in DOMAIN t : ~IsEvent(t[k]) /\ r = t[k]
      BY <2>3 DEF Reports
    <3> QED BY <1>2, <3>1 DEF Reports
  <2> QED BY <2>1, <2>2, <2>3
<1> QED BY <1>1, <1>3, <1>4, <1>5, <1>6

\* The last record of a concatenation is the last one of what is not empty.
LEMMA FinalCat ==
    ASSUME NEW s \in Seq(Msgs), NEW t \in Seq(Msgs)
    PROVE  FinalLast(s \o t) <=> FinalLast(t) /\ (NoFinal(s) \/ (t = <<>> /\ FinalLast(s)))
<1>1. PICK w : w = s \o t
  OBVIOUS
<1>2. /\ DOMAIN s = 1..Len(s) /\ DOMAIN t = 1..Len(t) /\ Len(s) \in Nat /\ Len(t) \in Nat
      /\ Len(w) = Len(s) + Len(t)
      /\ \A i \in DOMAIN s : i \in DOMAIN w /\ w[i] = s[i]
      /\ \A j \in DOMAIN t : Len(s) + j \in DOMAIN w /\ w[Len(s) + j] = t[j]
      /\ \A k \in DOMAIN w : k \in DOMAIN s \/ \E j \in DOMAIN t : k = Len(s) + j
  BY <1>1, CatSeq
<1>3. t = <<>> <=> Len(t) = 0
  BY EmptySeq
<1>4. ASSUME FinalLast(w) PROVE FinalLast(t) /\ (NoFinal(s) \/ (t = <<>> /\ FinalLast(s)))
  <2>1. FinalLast(t)
    BY <1>2, <1>4 DEF FinalLast
  <2>2. ASSUME NEW i \in DOMAIN s, Final(s[i]) PROVE Len(t) = 0 /\ i = Len(s)
    BY <1>2, <1>4, <2>2 DEF FinalLast
  <2> QED BY <1>3, <2>1, <2>2 DEF FinalLast, NoFinal
<1>5. ASSUME FinalLast(t), NoFinal(s) \/ (t = <<>> /\ FinalLast(s)), NEW i \in DOMAIN w, Final(w[i])
      PROVE  i = Len(w)
  <2>1. CASE i \in DOMAIN s
    BY <1>2, <1>3, <1>5, <2>1 DEF FinalLast, NoFinal
  <2>2. CASE i \notin DOMAIN s
    <3>1. PICK j \in DOMAIN t : i = Len(s) + j
      BY <1>2, <2>2
    <3> QED BY <1>2, <1>5, <3>1 DEF FinalLast
  <2> QED BY <2>1, <2>2
<1> QED BY <1>1, <1>4, <1>5 DEF FinalLast

\* All of it for one message.
LEMMA One ==
    ASSUME NEW m \in Msgs
    PROVE  /\ <<m>> \in Seq(Msgs) /\ <<m>> # <<>> /\ Len(<<m>>) = 1
           /\ EventsIn(<<m>>) = IF IsEvent(m) THEN 1 ELSE 0
           /\ Ordered(<<m>>)
           /\ \A e, r : Below(<<m>>, e, r) <=> m.n <= (IF IsEvent(m) THEN e ELSE r)
           /\ NoFinal(<<m>>) <=> ~Final(m)
           /\ FinalLast(<<m>>)
           /\ \A n : Newest(<<m>>, n) <=> (~IsEvent(m) /\ m.n = n => Final(m))
           /\ Reports(<<m>>) = IF IsEvent(m) THEN {} ELSE {m}
<1>1. PICK s : s = <<m>>
  OBVIOUS
<1>2. s \in Seq(Msgs) /\ DOMAIN s = {1} /\ s[1] = m /\ Len(s) = 1 /\ s # <<>>
  BY <1>1
<1>3. EventsIn(s) = IF IsEvent(m) THEN 1 ELSE 0
  <2>1. {i \in DOMAIN s : IsEvent(s[i])} = IF IsEvent(m) THEN {1} ELSE {}
    BY <1>2
  <2> QED BY <2>1, FS_EmptySet, FS_Singleton DEF EventsIn
<1>4. Ordered(s)
  BY <1>2 DEF Ordered
<1>5. \A e, r : Below(s, e, r) <=> m.n <= (IF IsEvent(m) THEN e ELSE r)
  BY <1>2 DEF Below
<1>6. (NoFinal(s) <=> ~Final(m)) /\ FinalLast(s)
  BY <1>2 DEF NoFinal, FinalLast
<1>7. \A n : Newest(s, n) <=> (~IsEvent(m) /\ m.n = n => Final(m))
  BY <1>2 DEF Newest
<1>8. Reports(s) = IF IsEvent(m) THEN {} ELSE {m}
  BY <1>2 DEF Reports
<1> QED BY <1>1, <1>2, <1>3, <1>4, <1>5, <1>6, <1>7, <1>8

\* All of it for nothing.
LEMMA None ==
    /\ <<>> \in Seq(Msgs) /\ Len(<<>>) = 0 /\ EventsIn(<<>>) = 0 /\ Ordered(<<>>)
    /\ \A e, r : Below(<<>>, e, r)
    /\ NoFinal(<<>>) /\ FinalLast(<<>>)
    /\ \A n : Newest(<<>>, n)
    /\ Reports(<<>>) = {}
    /\ \A f : Has(<<>>, f) /\ Told(<<>>, f) = 0
    /\ \A s : Before(<<>>, s) /\ Before(s, <<>>)
<1>1. PICK s : s = <<>>
  OBVIOUS
<1>2. s \in Seq(Msgs) /\ DOMAIN s = {} /\ Len(s) = 0
  BY <1>1
<1>3. EventsIn(s) = 0
  <2>1. {i \in DOMAIN s : IsEvent(s[i])} = {}
    BY <1>2
  <2> QED BY <2>1, FS_EmptySet DEF EventsIn
<1>4. Ordered(s) /\ (\A e, r : Below(s, e, r)) /\ NoFinal(s) /\ FinalLast(s) /\ (\A n : Newest(s, n))
  BY <1>2 DEF Ordered, Below, NoFinal, FinalLast, Newest
<1>5. Reports(s) = {} /\ \A t : Before(s, t) /\ Before(t, s)
  BY <1>2 DEF Reports, Before
<1>6. ASSUME NEW f PROVE Has(s, f) /\ Told(s, f) = 0
  <2>1. Units(s, f) = {}
    BY <1>2 DEF Units
  <2>2. Has(s, f)
    BY <1>2 DEF Has
  <2> QED BY <2>1, <2>2, FS_EmptySet DEF Told, Units
<1> QED BY <1>1, <1>2, <1>3, <1>4, <1>5, <1>6

\* One message before a sequence, or behind it.
LEMMA OneBefore ==
    ASSUME NEW s \in Seq(Msgs), NEW m \in Msgs
    PROVE  /\ Before(<<m>>, s) <=> \A i \in DOMAIN s : m.kind = s[i].kind => m.n < s[i].n
           /\ Before(s, <<m>>) <=> \A i \in DOMAIN s : s[i].kind = m.kind => s[i].n < m.n
<1>1. PICK t : t = <<m>>
  OBVIOUS
<1>2. DOMAIN t = {1} /\ t[1] = m
  BY <1>1
<1>3. Before(t, s) <=> \A i \in DOMAIN s : m.kind = s[i].kind => m.n < s[i].n
  BY <1>2 DEF Before
<1>4. Before(s, t) <=> \A i \in DOMAIN s : s[i].kind = m.kind => s[i].n < m.n
  BY <1>2 DEF Before
<1> QED BY <1>1, <1>3, <1>4

\* The sequences of the module hold messages.
LEMMA SeqTypes ==
    /\ \A s \in Seq(Sent) : s \in Seq(Msgs)
    /\ \A s \in Seq(Stored) : s \in Seq(Msgs)
    /\ \A s \in Seq(FullReports) : s \in Seq(Msgs) /\ s \in Seq(Stored)
<1>1. Sent \subseteq Msgs /\ Stored \subseteq Msgs /\ FullReports \subseteq Msgs /\ FullReports \subseteq Stored
  BY DEF Msgs, Sent, Stored
<1> QED BY <1>1, SeqMonotonic

\* A completed report is a report and has every figure.
LEMMA FullFacts ==
    ASSUME NEW m \in FullReports
    PROVE  /\ m.kind = "report" /\ ~IsEvent(m) /\ m.n \in Nat /\ m.final \in BOOLEAN
           /\ \A f \in {"gap", "drops", "rejected"} : m[f] \in Nat
BY DEF FullReports, IsEvent

\* A sequence of completed reports has no event and every figure.
LEMMA FullSeq ==
    ASSUME NEW s \in Seq(FullReports)
    PROVE  EventsIn(s) = 0 /\ \A f \in {"gap", "drops", "rejected"} : Has(s, f)
<1>1. \A i \in DOMAIN s : s[i] \in FullReports
  BY ElementOfSeq, LenProperties
<1>2. \A i \in DOMAIN s : ~IsEvent(s[i]) /\ \A f \in {"gap", "drops", "rejected"} : s[i][f] \in Nat
  BY <1>1, FullFacts
<1>3. {i \in DOMAIN s : IsEvent(s[i])} = {}
  BY <1>2
<1> QED BY <1>2, <1>3, FS_EmptySet DEF EventsIn, Has

\* What is stored has every figure.
LEMMA StoredSeq ==
    ASSUME NEW s \in Seq(Stored)
    PROVE  \A f \in {"gap", "drops", "rejected"} : Has(s, f)
<1>1. \A i \in DOMAIN s : s[i] \in Stored
  BY ElementOfSeq, LenProperties
<1>2. \A m \in EventMsgs : IsEvent(m)
  BY DEF EventMsgs, IsEvent
<1>3. \A i \in DOMAIN s : ~IsEvent(s[i]) => s[i] \in FullReports
  BY <1>1, <1>2 DEF Stored
<1> QED BY <1>3, FullFacts DEF Has

\* Concatenation is associative.
LEMMA Assoc ==
    ASSUME NEW s \in Seq(Msgs), NEW t \in Seq(Msgs), NEW u \in Seq(Msgs)
    PROVE  (s \o t) \o u = s \o (t \o u)
BY ConcatAssociative

\* Concatenation, all in one.
LEMMA Cat ==
    ASSUME NEW s \in Seq(Msgs), NEW t \in Seq(Msgs)
    PROVE  /\ s \o t \in Seq(Msgs)
           /\ Len(s \o t) = Len(s) + Len(t) /\ Len(s) \in Nat /\ Len(t) \in Nat
           /\ EventsIn(s \o t) = EventsIn(s) + EventsIn(t) /\ EventsIn(s) \in Nat /\ EventsIn(t) \in Nat
           /\ Ordered(s \o t) <=> Ordered(s) /\ Ordered(t) /\ Before(s, t)
           /\ \A e, r : Below(s \o t, e, r) <=> Below(s, e, r) /\ Below(t, e, r)
           /\ NoFinal(s \o t) <=> NoFinal(s) /\ NoFinal(t)
           /\ FinalLast(s \o t) <=> FinalLast(t) /\ (NoFinal(s) \/ (t = <<>> /\ FinalLast(s)))
           /\ \A n : Newest(s \o t, n) <=> Newest(s, n) /\ Newest(t, n)
           /\ Reports(s \o t) = Reports(s) \cup Reports(t)
<1>1. s \o t \in Seq(Msgs) /\ Len(s \o t) = Len(s) + Len(t) /\ Len(s) \in Nat /\ Len(t) \in Nat
  BY CatSeq
<1>2. EventsIn(s \o t) = EventsIn(s) + EventsIn(t) /\ EventsIn(s) \in Nat /\ EventsIn(t) \in Nat
  BY EventsCat, EventsNat
<1>3. Ordered(s \o t) <=> Ordered(s) /\ Ordered(t) /\ Before(s, t)
  BY OrderCat
<1>4. /\ \A e, r : Below(s \o t, e, r) <=> Below(s, e, r) /\ Below(t, e, r)
      /\ NoFinal(s \o t) <=> NoFinal(s) /\ NoFinal(t)
      /\ \A n : Newest(s \o t, n) <=> Newest(s, n) /\ Newest(t, n)
      /\ Reports(s \o t) = Reports(s) \cup Reports(t)
  BY EachCat
<1>5. FinalLast(s \o t) <=> FinalLast(t) /\ (NoFinal(s) \/ (t = <<>> /\ FinalLast(s)))
  BY FinalCat
<1> QED BY <1>1, <1>2, <1>3, <1>4, <1>5

\* The sizes of a concatenation add up.
LEMMA BytesCat ==
    ASSUME NEW s \in Seq(Msgs), NEW t \in Seq(Msgs)
    PROVE  Bytes(s \o t) = Bytes(s) + Bytes(t) /\ Bytes(s) \in Nat /\ Bytes(t) \in Nat
<1>1. /\ Len(s \o t) = Len(s) + Len(t) /\ Len(s) \in Nat /\ Len(t) \in Nat
      /\ EventsIn(s \o t) = EventsIn(s) + EventsIn(t) /\ EventsIn(s) \in Nat /\ EventsIn(t) \in Nat
      /\ EventsIn(s) <= Len(s) /\ EventsIn(t) <= Len(t)
  BY Cat, EventsNat
<1>2. ReportSize \in Nat
  BY StoreAssumption
<1>3. \A a, b, c, d, r \in Nat : b <= a /\ d <= c =>
        /\ (b + d) + r * ((a + c) - (b + d)) = (b + r * (a - b)) + (d + r * (c - d))
        /\ b + r * (a - b) \in Nat
  <2> SUFFICES ASSUME NEW a \in Nat, NEW b \in Nat, NEW c \in Nat, NEW d \in Nat, NEW r \in Nat, b <= a, d <= c
               PROVE  /\ (b + d) + r * ((a + c) - (b + d)) = (b + r * (a - b)) + (d + r * (c - d))
                      /\ b + r * (a - b) \in Nat
    OBVIOUS
  <2>1. PICK x \in Nat : x = a - b
    OBVIOUS
  <2>2. PICK y \in Nat : y = c - d
    OBVIOUS
  <2>3. (a + c) - (b + d) = x + y
    BY <2>1, <2>2
  <2>4. r * (x + y) = r * x + r * y /\ r * x \in Nat /\ r * y \in Nat
    OBVIOUS
  <2> QED BY <2>1, <2>2, <2>3, <2>4
<1>4. PICK a \in Nat, b \in Nat, c \in Nat, d \in Nat : a = Len(s) /\ b = EventsIn(s) /\ c = Len(t) /\ d = EventsIn(t)
  BY <1>1
<1>5. Bytes(s \o t) = (b + d) + ReportSize * ((a + c) - (b + d))
  BY <1>1, <1>4 DEF Bytes
<1>6. Bytes(s) = b + ReportSize * (a - b) /\ Bytes(t) = d + ReportSize * (c - d)
  BY <1>4 DEF Bytes
<1>7. b <= a /\ d <= c
  BY <1>1, <1>4
<1>8. (b + d) + ReportSize * ((a + c) - (b + d)) = (b + ReportSize * (a - b)) + (d + ReportSize * (c - d))
  BY <1>2, <1>3, <1>7
<1>9. b + ReportSize * (a - b) \in Nat /\ d + ReportSize * (c - d) \in Nat
  BY <1>2, <1>3, <1>7
<1> QED BY <1>5, <1>6, <1>8, <1>9

\* One message takes its own size.
LEMMA BytesOne ==
    ASSUME NEW m \in Msgs
    PROVE  Bytes(<<m>>) = Size(m)
<1>1. Len(<<m>>) = 1 /\ EventsIn(<<m>>) = IF IsEvent(m) THEN 1 ELSE 0
  BY One
<1>2. ReportSize \in Nat
  BY StoreAssumption
<1>3. CASE IsEvent(m)
  BY <1>1, <1>2, <1>3 DEF Bytes, Size
<1>4. CASE ~IsEvent(m)
  BY <1>1, <1>2, <1>4 DEF Bytes, Size
<1> QED BY <1>3, <1>4

\* A set of numbers has a least one.
LEMMA Least ==
    ASSUME NEW S \in SUBSET Nat, S # {}
    PROVE  \E x \in S : \A y \in S : x <= y
<1> DEFINE R == {ss \in Nat \X Nat : ss[1] < ss[2]}
<1>1. IsWellFoundedOn(R, Nat)
  BY NatLessThanWellFounded DEF OpToRel
<1> HIDE DEF R
<1>2. PICK x \in S : \A y \in S : ~(<<y, x>> \in R)
  BY <1>1, WFMin
<1>3. \A a, b \in Nat : b < a => <<b, a>> \in R
  BY DEF R
<1>4. \A y \in S : ~(y < x)
  BY <1>2, <1>3
<1>5. \A y \in S : x <= y
  BY <1>4
<1> QED BY <1>5

\* retry_held takes as many of the held reports as there is room for.
LEMMA RetriedIs ==
    ASSUME Types, RoomInv
    PROVE  /\ Retried \in 0..Len(held)
           /\ Bytes(backlog \o SubSeq(held, 1, Retried)) <= BacklogCap
<1> DEFINE B(n) == Bytes(backlog \o SubSeq(held, 1, n))
<1> DEFINE P(n) == B(n) <= BacklogCap /\ (n = Len(held) \/ ~Fits(backlog \o SubSeq(held, 1, n), held[n + 1]))
<1>1. /\ held \in Seq(FullReports) /\ held \in Seq(Msgs) /\ backlog \in Seq(Msgs) /\ Len(held) \in Nat
      /\ DOMAIN held = 1..Len(held) /\ \A i \in 1..Len(held) : held[i] \in FullReports /\ held[i] \in Msgs
  <2>1. held \in Seq(FullReports) /\ held \in Seq(Msgs) /\ backlog \in Seq(Msgs)
    BY SeqTypes DEF Types, RTypes
  <2> QED BY <2>1, LenProperties, ElementOfSeq
<1>2. \A n \in 0..Len(held) : SubSeq(held, 1, n) \in Seq(Msgs)
  BY <1>1, SubSeqProperties
<1>3. ASSUME NEW n \in 0..Len(held), n # Len(held)
      PROVE  B(n + 1) = B(n) + Size(held[n + 1])
  <2>1. n + 1 \in 1..Len(held) /\ n + 1 \in 0..Len(held)
    <3>1. Len(held) \in Nat
      BY <1>1
    <3> QED BY <1>3, <3>1
  <2>2. SubSeq(held, 1, n + 1) = SubSeq(held, 1, n) \o <<held[n + 1]>>
    <3>1. \A k \in 1..Len(held) : SubSeq(held, 1, k) = SubSeq(held, 1, k - 1) \o <<held[k]>>
      BY <1>1, SubSeqRecursiveSecond
    <3>2. (n + 1) - 1 = n
      BY <1>1
    <3> QED BY <2>1, <3>1, <3>2
  <2>3. PICK x \in Seq(Msgs) : x = SubSeq(held, 1, n)
    BY <1>2
  <2>4. PICK m \in Msgs : m = held[n + 1]
    BY <1>1, <2>1
  <2>5. <<m>> \in Seq(Msgs) /\ Bytes(<<m>>) = Size(m)
    BY One, BytesOne
  <2>6. backlog \o (x \o <<m>>) = (backlog \o x) \o <<m>> /\ backlog \o x \in Seq(Msgs)
    BY <1>1, <2>5, ConcatAssociative, ConcatProperties
  <2>7. Bytes((backlog \o x) \o <<m>>) = Bytes(backlog \o x) + Bytes(<<m>>)
    BY <2>5, <2>6, BytesCat
  <2> QED BY <2>2, <2>3, <2>4, <2>5, <2>6, <2>7
<1>4. \A n \in 0..Len(held) : B(n) \in Nat
  <2> SUFFICES ASSUME NEW n \in 0..Len(held) PROVE B(n) \in Nat
    OBVIOUS
  <2>1. PICK x \in Seq(Msgs) : x = SubSeq(held, 1, n)
    BY <1>2
  <2>2. Bytes(backlog \o x) = Bytes(backlog) + Bytes(x) /\ Bytes(backlog) \in Nat /\ Bytes(x) \in Nat
    BY <1>1, BytesCat
  <2> QED BY <2>1, <2>2
<1>5. B(0) <= BacklogCap
  <2>1. SubSeq(held, 1, 0) = <<>>
    BY <1>1, SubSeqEmpty
  <2>2. backlog \o <<>> = backlog
    BY <1>1, ConcatEmptySeq
  <2> QED BY <2>1, <2>2 DEF RoomInv
<1> DEFINE S == {d \in Nat : d <= Len(held) /\ B(Len(held) - d) <= BacklogCap}
<1>6. Len(held) \in S
  BY <1>1, <1>5
<1>7. PICK d \in S : \A y \in S : d <= y
  BY <1>6, Least
<1>8. \E n \in 0..Len(held) : P(n)
  <2>0. Len(held) \in Nat /\ d \in Nat /\ d <= Len(held)
    BY <1>1, <1>7
  <2>1. PICK n \in 0..Len(held) : n = Len(held) - d
    <3>1. Len(held) - d \in 0..Len(held)
      BY <2>0
    <3> QED BY <3>1
  <2>2. B(n) <= BacklogCap
    BY <1>7, <2>1
  <2>3. ASSUME n # Len(held) PROVE ~Fits(backlog \o SubSeq(held, 1, n), held[n + 1])
    <3>1. d - 1 \in Nat /\ d - 1 <= Len(held) /\ Len(held) - (d - 1) = n + 1 /\ ~(d <= d - 1)
      BY <2>0, <2>1, <2>3
    <3>2. ~(B(n + 1) <= BacklogCap)
      BY <1>7, <3>1
    <3> QED BY <1>3, <2>3, <3>2 DEF Fits
  <2> QED BY <2>2, <2>3
<1> HIDE DEF S
<1>9. Retried = CHOOSE n \in 0..Len(held) : P(n)
  BY DEF Retried
<1> HIDE DEF P
<1>10. Retried \in 0..Len(held) /\ P(Retried)
  BY <1>8, <1>9
<1> QED BY <1>10 DEF P

\* What the held reports and the backlog are once the held ones were tried.
LEMMA Retry ==
    ASSUME Types, RoomInv
    PROVE  \E x, h \in Seq(FullReports) :
             /\ held = x \o h /\ HeldRetried = h /\ Len(h) <= Len(held)
             /\ BacklogRetried = backlog \o x /\ BacklogRetried \in Seq(Stored)
             /\ Bytes(BacklogRetried) <= BacklogCap
             /\ log \o BacklogRetried = Written \o x
<1>1. /\ held \in Seq(FullReports) /\ log \in Seq(Stored) /\ backlog \in Seq(Stored)
      /\ Len(held) \in Nat /\ DOMAIN held = 1..Len(held) /\ \A i \in 1..Len(held) : held[i] \in FullReports
  <2>1. held \in Seq(FullReports) /\ log \in Seq(Stored) /\ backlog \in Seq(Stored)
    BY DEF Types, RTypes
  <2> QED BY <2>1, LenProperties, ElementOfSeq
<1>2. PICK r \in 0..Len(held) : r = Retried /\ Bytes(backlog \o SubSeq(held, 1, r)) <= BacklogCap
  BY RetriedIs
<1>3. Len(held) \in Nat /\ r \in Nat /\ r <= Len(held) /\ 1 \in Int /\ r \in Int /\ r + 1 \in Int /\ Len(held) \in Int
  <2>1. Len(held) \in Nat
    BY <1>1
  <2> QED BY <2>1
<1>4. PICK x \in Seq(FullReports) : x = SubSeq(held, 1, r)
  <2>1. \A i \in 1..r : held[i] \in FullReports
    BY <1>1, <1>3
  <2> QED BY <1>3, <2>1, SubSeqProperties
<1>5. PICK h \in Seq(FullReports) : h = SubSeq(held, r + 1, Len(held))
  <2>1. \A i \in (r + 1)..Len(held) : held[i] \in FullReports
    BY <1>1, <1>3
  <2> QED BY <1>3, <2>1, SubSeqProperties
<1>6. held = x \o h
  <2>1. 1 \in 1..(Len(held) + 1) /\ r \in (1 - 1)..Len(held) /\ Len(held) \in r..Len(held)
    BY <1>3
  <2>2. SubSeq(held, 1, r) \o SubSeq(held, r + 1, Len(held)) = SubSeq(held, 1, Len(held))
    BY <1>1, <2>1, ConcatAdjacentSubSeq
  <2>3. SubSeq(held, 1, Len(held)) = held
    BY <1>1, SubSeqFull
  <2> QED BY <1>4, <1>5, <2>2, <2>3
<1>7. Len(h) <= Len(held)
  <2>1. Len(x \o h) = Len(x) + Len(h) /\ Len(x) \in Nat /\ Len(h) \in Nat
    BY CatSeq
  <2> QED BY <1>6, <2>1
<1>8. BacklogRetried = backlog \o x /\ HeldRetried = h
  BY <1>2, <1>4, <1>5 DEF BacklogRetried, HeldRetried
<1>9. x \in Seq(Stored)
  BY SeqTypes
<1>10. backlog \o x \in Seq(Stored) /\ log \o (backlog \o x) = (log \o backlog) \o x
  <2>1. backlog \o x \in Seq(Stored)
    BY <1>1, <1>9, CatSeq
  <2>2. (log \o backlog) \o x = log \o (backlog \o x)
    BY <1>1, <1>9, ConcatAssociative
  <2> QED BY <2>1, <2>2
<1>11. Bytes(BacklogRetried) <= BacklogCap
  BY <1>2, <1>4, <1>8
<1> QED BY <1>6, <1>7, <1>8, <1>10, <1>11 DEF Written

\* Writing a part of the queue moves records and keeps them all.
LEMMA WritesKeep ==
    ASSUME Types, RoomInv, NEW k \in 0..Len(BacklogRetried), Writes(k)
    PROVE  /\ log' \in Seq(Stored) /\ backlog' \in Seq(Stored) /\ held' \in Seq(FullReports)
           /\ Bytes(backlog') <= BacklogCap /\ Len(held') <= HeldCap
           /\ Completed' = Completed
           /\ k = Len(BacklogRetried) => backlog' = <<>>
<1>1. log \in Seq(Stored) /\ backlog \in Seq(Stored) /\ HeldCap \in Nat /\ Len(held) \in Nat /\ Len(held) <= HeldCap
  <2>1. log \in Seq(Stored) /\ backlog \in Seq(Stored) /\ held \in Seq(FullReports)
    BY DEF Types, RTypes
  <2> QED BY <2>1, StoreAssumption, LenProperties DEF RoomInv
<1>2. PICK x, h \in Seq(FullReports) :
             /\ held = x \o h /\ HeldRetried = h /\ Len(h) <= Len(held)
             /\ BacklogRetried = backlog \o x /\ BacklogRetried \in Seq(Stored)
             /\ Bytes(BacklogRetried) <= BacklogCap
             /\ log \o BacklogRetried = Written \o x
  BY Retry
<1>3. PICK b \in Seq(Stored) : b = BacklogRetried
  BY <1>2
<1>4. Len(b) \in Nat /\ DOMAIN b = 1..Len(b) /\ \A i \in 1..Len(b) : b[i] \in Stored
  BY LenProperties, ElementOfSeq
<1>5. k \in Nat /\ k <= Len(b) /\ k \in 0..Len(b) /\ 1 \in Int /\ k \in Int /\ k + 1 \in Int /\ Len(b) \in Int
  <2>1. Len(b) \in Nat /\ k \in 0..Len(b)
    BY <1>3, <1>4
  <2> QED BY <2>1
<1>6. PICK y \in Seq(Stored) : y = SubSeq(b, 1, k)
  <2>1. \A i \in 1..k : b[i] \in Stored
    BY <1>4, <1>5
  <2> QED BY <1>5, <2>1, SubSeqProperties
<1>7. PICK z \in Seq(Stored) : z = SubSeq(b, k + 1, Len(b))
  <2>1. \A i \in (k + 1)..Len(b) : b[i] \in Stored
    BY <1>4, <1>5
  <2> QED BY <1>5, <2>1, SubSeqProperties
<1>8. b = y \o z
  <2>1. 1 \in 1..(Len(b) + 1) /\ k \in (1 - 1)..Len(b) /\ Len(b) \in k..Len(b)
    BY <1>4, <1>5
  <2>2. SubSeq(b, 1, k) \o SubSeq(b, k + 1, Len(b)) = SubSeq(b, 1, Len(b))
    BY <2>1, ConcatAdjacentSubSeq
  <2>3. SubSeq(b, 1, Len(b)) = b
    BY SubSeqFull
  <2> QED BY <1>6, <1>7, <2>2, <2>3
<1>9. log' = log \o y /\ backlog' = z /\ held' = h
  BY <1>2, <1>3, <1>6, <1>7 DEF Writes
<1>10. log \o y \in Seq(Stored)
  BY <1>1, CatSeq
<1>11. Bytes(z) <= BacklogCap
  <2>0. y \in Seq(Msgs) /\ z \in Seq(Msgs)
    BY SeqTypes
  <2>1. Bytes(y \o z) = Bytes(y) + Bytes(z) /\ Bytes(y) \in Nat /\ Bytes(z) \in Nat
    BY <2>0, BytesCat
  <2>2. BacklogCap \in Nat
    BY StoreAssumption
  <2>3. Bytes(b) <= BacklogCap
    BY <1>2, <1>3
  <2> QED BY <1>8, <2>1, <2>2, <2>3
<1>12. (log \o y) \o z = log \o b
  <2>0. log \in Seq(Msgs) /\ y \in Seq(Msgs) /\ z \in Seq(Msgs)
    BY <1>1, SeqTypes
  <2>1. (log \o y) \o z = log \o (y \o z)
    BY <2>0, Assoc
  <2> QED BY <1>8, <2>1
<1>13. ((log \o y) \o z) \o h = Completed
  <2>1. ((log \o y) \o z) \o h = (Written \o x) \o h
    BY <1>2, <1>3, <1>12
  <2>2. Written \in Seq(Stored)
    <3>1. log \o backlog \in Seq(Stored)
      BY <1>1, CatSeq
    <3> QED BY <3>1 DEF Written
  <2>3. x \in Seq(Msgs) /\ h \in Seq(Msgs) /\ Written \in Seq(Msgs)
    BY <2>2, SeqTypes
  <2>4. (Written \o x) \o h = Written \o (x \o h)
    BY <2>3, Assoc
  <2> QED BY <1>2, <2>1, <2>4 DEF Completed
<1>14. Len(h) <= HeldCap
  <2>1. Len(h) \in Nat
    BY LenProperties
  <2> QED BY <1>1, <1>2, <2>1
<1>15. k = Len(BacklogRetried) => backlog' = <<>>
  <2>1. ASSUME k = Len(b) PROVE z = <<>>
    <3>1. Len(b) < k + 1 /\ k + 1 \in Int /\ Len(b) \in Int
      BY <1>4, <1>5, <2>1
    <3> QED BY <1>7, <3>1, SubSeqEmpty
  <2> QED BY <1>3, <1>9, <2>1
<1> QED BY <1>9, <1>10, <1>11, <1>13, <1>14, <1>15 DEF Completed, Written

\* What a sequence is by its four parts.
PartsOf(l, w, h, c, q) ==
    /\ l \in Seq(Msgs)
    /\ EventsIn(l) = EventsIn(w) + EventsIn(h) + EventsIn(c) + EventsIn(q)
    /\ EventsIn(w) \in Nat /\ EventsIn(h) \in Nat /\ EventsIn(c) \in Nat /\ EventsIn(q) \in Nat
    /\ Ordered(l) <=> /\ Ordered(w) /\ Ordered(h) /\ Ordered(c) /\ Ordered(q)
                      /\ Before(w, h) /\ Before(w, c) /\ Before(w, q)
                      /\ Before(h, c) /\ Before(h, q) /\ Before(c, q)
    /\ \A e, r : Below(l, e, r) <=> Below(w, e, r) /\ Below(h, e, r) /\ Below(c, e, r) /\ Below(q, e, r)
    /\ NoFinal(l) <=> NoFinal(w) /\ NoFinal(h) /\ NoFinal(c) /\ NoFinal(q)
    /\ \A n : Newest(l, n) <=> Newest(w, n) /\ Newest(h, n) /\ Newest(c, n) /\ Newest(q, n)
    /\ Reports(l) = Reports(w) \cup Reports(h) \cup Reports(c) \cup Reports(q)

\* The line of records, by its parts.
LEMMA Parts ==
    ASSUME NEW w \in Seq(Msgs), NEW h \in Seq(Msgs), NEW c \in Seq(Msgs), NEW q \in Seq(Msgs)
    PROVE  PartsOf(((w \o h) \o c) \o q, w, h, c, q)
<1>1. PICK a : a = w \o h
  OBVIOUS
<1>2. /\ a \in Seq(Msgs)
      /\ EventsIn(a) = EventsIn(w) + EventsIn(h) /\ EventsIn(w) \in Nat /\ EventsIn(h) \in Nat
      /\ Ordered(a) <=> Ordered(w) /\ Ordered(h) /\ Before(w, h)
      /\ \A e, r : Below(a, e, r) <=> Below(w, e, r) /\ Below(h, e, r)
      /\ NoFinal(a) <=> NoFinal(w) /\ NoFinal(h)
      /\ \A n : Newest(a, n) <=> Newest(w, n) /\ Newest(h, n)
      /\ Reports(a) = Reports(w) \cup Reports(h)
  BY <1>1, Cat
<1>3. PICK b : b = a \o c
  OBVIOUS
<1>4. /\ b \in Seq(Msgs)
      /\ EventsIn(b) = EventsIn(a) + EventsIn(c) /\ EventsIn(c) \in Nat
      /\ Ordered(b) <=> Ordered(a) /\ Ordered(c) /\ Before(a, c)
      /\ \A e, r : Below(b, e, r) <=> Below(a, e, r) /\ Below(c, e, r)
      /\ NoFinal(b) <=> NoFinal(a) /\ NoFinal(c)
      /\ \A n : Newest(b, n) <=> Newest(a, n) /\ Newest(c, n)
      /\ Reports(b) = Reports(a) \cup Reports(c)
  BY <1>2, <1>3, Cat
<1>5. /\ b \o q \in Seq(Msgs)
      /\ EventsIn(b \o q) = EventsIn(b) + EventsIn(q) /\ EventsIn(q) \in Nat
      /\ Ordered(b \o q) <=> Ordered(b) /\ Ordered(q) /\ Before(b, q)
      /\ \A e, r : Below(b \o q, e, r) <=> Below(b, e, r) /\ Below(q, e, r)
      /\ NoFinal(b \o q) <=> NoFinal(b) /\ NoFinal(q)
      /\ \A n : Newest(b \o q, n) <=> Newest(b, n) /\ Newest(q, n)
      /\ Reports(b \o q) = Reports(b) \cup Reports(q)
  BY <1>4, Cat
<1>6. /\ Before(a, c) <=> Before(w, c) /\ Before(h, c)
      /\ Before(a, q) <=> Before(w, q) /\ Before(h, q)
      /\ Before(b, q) <=> Before(a, q) /\ Before(c, q)
  BY <1>1, <1>2, <1>3, BeforeCat
<1>7. PartsOf(b \o q, w, h, c, q)
  BY <1>2, <1>4, <1>5, <1>6 DEF PartsOf
<1> QED BY <1>1, <1>3, <1>7

-----------------------------------------------------------------------------
(* Arithmetic of the counters that wrap                                      *)

\* What % returns, and that nothing else has its place.
LEMMA ModIs ==
    ASSUME NEW w \in Nat, w > 0, NEW z \in Int
    PROVE  z % w \in 0..(w - 1) /\ \E k \in Int : z = w * k + (z % w)
<1>1. z % w \in 0..(w - 1)
  OBVIOUS
<1>2. z \div w \in Int /\ z = w * (z \div w) + (z % w)
  OBVIOUS
<1> QED BY <1>1, <1>2

\* A multiple of w that is less than w away from nothing is nothing.
LEMMA NoMultiple ==
    ASSUME NEW w \in Nat, w > 0, NEW j \in Int, w * j < w, -w < w * j
    PROVE  j = 0
<1>1. ASSUME j >= 1 PROVE FALSE
  <2>1. PICK i \in Nat : j = 1 + i
    <3>1. j - 1 \in Nat /\ j = 1 + (j - 1)
      BY <1>1
    <3> QED BY <3>1
  <2>2. w * (1 + i) = w + w * i /\ w * i >= 0 /\ w * i \in Int
    OBVIOUS
  <2> QED BY <2>1, <2>2
<1>2. ASSUME j <= -1 PROVE FALSE
  <2>1. PICK i \in Nat : j = -1 - i
    <3>1. -1 - j \in Nat /\ j = -1 - (-1 - j)
      BY <1>2
    <3> QED BY <3>1
  <2>2. w * (-1 - i) = -w - w * i /\ w * i >= 0 /\ w * i \in Int
    OBVIOUS
  <2> QED BY <2>1, <2>2
<1> QED BY <1>1, <1>2

\* The remainder is the only number in its range.
LEMMA ModUnique ==
    ASSUME NEW w \in Nat, w > 0, NEW k \in Int, NEW r \in 0..(w - 1), NEW z \in Int, z = w * k + r
    PROVE  z % w = r
<1>1. PICK l \in Int : z = w * l + (z % w)
  BY ModIs
<1>2. PICK x \in 0..(w - 1) : x = z % w
  BY ModIs
<1>3. w * (l - k) = w * l - w * k /\ w * l \in Int /\ w * k \in Int
  OBVIOUS
<1>4. w * l - w * k = r - x
  BY <1>1, <1>2, <1>3
<1>5. w * (l - k) < w /\ -w < w * (l - k)
  BY <1>3, <1>4
<1>6. l - k = 0
  BY <1>5, NoMultiple
<1>7. w * l = w * k
  BY <1>6
<1> QED BY <1>1, <1>2, <1>3, <1>4, <1>7

\* What d32 returns for two counters that wrap at w.
WrapDiff(a, b, w) == ((a % w) - (b % w)) % w

\* The difference of two wrapped counters is the difference of the counters,
\* when they are less than a wrap apart.
LEMMA ModDiff ==
    ASSUME NEW w \in Nat, w > 0, NEW a \in Nat, NEW b \in Nat, b <= a, a - b < w
    PROVE  WrapDiff(a, b, w) = a - b
<1>0. a \in Int /\ b \in Int
  OBVIOUS
<1>1. PICK x \in 0..(w - 1), k \in Int : x = a % w /\ a = w * k + x
  <2>1. a % w \in 0..(w - 1) /\ \E k \in Int : a = w * k + (a % w)
    BY <1>0, ModIs
  <2> QED BY <2>1
<1>2. PICK y \in 0..(w - 1), l \in Int : y = b % w /\ b = w * l + y
  <2>1. b % w \in 0..(w - 1) /\ \E l \in Int : b = w * l + (b % w)
    BY <1>0, ModIs
  <2> QED BY <2>1
<1>3. w * k \in Int /\ w * l \in Int /\ w * (l - k) = w * l - w * k
  OBVIOUS
<1>4. x - y = w * (l - k) + (a - b)
  BY <1>1, <1>2, <1>3
<1>5. a - b \in 0..(w - 1) /\ l - k \in Int /\ x - y \in Int
  BY <1>1, <1>2
<1>6. (x - y) % w = a - b
  BY <1>4, <1>5, ModUnique
<1> QED BY <1>1, <1>2, <1>6 DEF WrapDiff

-----------------------------------------------------------------------------
(* The counters of the reports                                               *)

\* A report adds to what was told exactly what the counters rose.
LEMMA SendCounts ==
    ASSUME Types, CounterInv, NEW c \in Nat \cup {NotRead}, NEW l \in SessionReads, NEW s \in Senders,
           NEW final \in BOOLEAN,
           c # NotRead => base.count <= c /\ c <= count,
           SendReport(s, [count |-> c, lost |-> l, drops |-> drops], final)
    PROVE  /\ base' \in [count : Nat, lost : Nat, drops : Nat] /\ told' \in [count : Nat, lost : Nat]
           /\ told'.count = base'.count /\ base'.count <= count /\ (c # NotRead => base'.count = c)
           /\ told'.lost <= lost /\ lost - told'.lost < Wrap /\ told'.lost % Wrap = base'.lost
           /\ base'.drops <= drops
           /\ nreports' = nreports + 1
           /\ Reserve(s, [kind |-> "report", n |-> nreports + 1, final |-> final])
<1>1. /\ base \in [count : Nat, lost : Nat, drops : Nat] /\ told \in [count : Nat, lost : Nat]
      /\ drops \in Nat /\ lost \in Nat /\ count \in Nat /\ Wrap \in Nat /\ Wrap > 0
  BY StoreAssumption DEF Types, NTypes
<1>2. /\ told.count = base.count /\ base.count <= count /\ told.lost <= lost /\ lost - told.lost < Wrap
      /\ told.lost % Wrap = base.lost /\ base.drops <= drops
  BY DEF CounterInv
<1>3. PICK bc \in Nat, bl \in Nat, bd \in Nat, tc \in Nat, tl \in Nat :
        bc = base.count /\ bl = base.lost /\ bd = base.drops /\ tc = told.count /\ tl = told.lost
  BY <1>1
<1>4. /\ nreports' = nreports + 1
      /\ Reserve(s, [kind |-> "report", n |-> nreports + 1, final |-> final])
      /\ told' = [count |-> Plus(tc, Diff(bc, c)), lost |-> Plus(tl, Diff32(bl, l))]
      /\ base' = [count |-> IF c = NotRead THEN bc ELSE c, lost |-> IF l = NotRead THEN bl ELSE l, drops |-> drops]
  BY <1>3 DEF SendReport, Report, Advance
<1>5. PICK nc \in Nat : nc = Plus(tc, Diff(bc, c)) /\ nc = (IF c = NotRead THEN bc ELSE c) /\ nc <= count
  <2>1. CASE c = NotRead
    <3>1. Plus(tc, Diff(bc, c)) = tc
      BY <2>1 DEF Plus, Diff
    <3> QED BY <1>2, <1>3, <2>1, <3>1
  <2>2. CASE c # NotRead
    <3>1. c \in Nat /\ bc <= c /\ c <= count /\ bc = tc
      BY <1>2, <1>3, <2>2
    <3>2. Diff(bc, c) = c - bc
      BY <3>1 DEF Diff, NotRead
    <3>3. Plus(tc, c - bc) = c
      BY <3>1 DEF Plus, NotRead
    <3> QED BY <2>2, <3>1, <3>2, <3>3
  <2> QED BY <2>1, <2>2
<1>6. PICK nl \in Nat : /\ nl = Plus(tl, Diff32(bl, l)) /\ nl <= lost /\ lost - nl < Wrap
                        /\ nl % Wrap = (IF l = NotRead THEN bl ELSE l)
                        /\ (IF l = NotRead THEN bl ELSE l) \in Nat
  <2>1. CASE l = NotRead
    <3>1. Plus(tl, Diff32(bl, l)) = tl
      BY <2>1 DEF Plus, Diff32
    <3> QED BY <1>2, <1>3, <2>1, <3>1
  <2>2. CASE l # NotRead
    <3>1. l = lost % Wrap
      BY <2>2 DEF SessionReads
    <3>2. lost % Wrap \in Nat
      <4>1. \A w \in Nat, z \in Nat : w > 0 => z % w \in Nat
        OBVIOUS
      <4> QED BY <1>1, <4>1
    <3>3. tl <= lost /\ lost - tl < Wrap /\ bl = tl % Wrap
      BY <1>2, <1>3
    <3>4. (l - bl) % Wrap = lost - tl
      <4>1. lost \in Nat /\ tl \in Nat /\ Wrap \in Nat /\ Wrap > 0
        BY <1>1, <1>3
      <4>2. tl <= lost /\ lost - tl < Wrap
        BY <3>3
      <4>3. WrapDiff(lost, tl, Wrap) = lost - tl
        BY <4>1, <4>2, ModDiff
      <4> QED BY <3>1, <3>3, <4>3 DEF WrapDiff
    <3>5. Diff32(bl, l) = lost - tl
      <4>1. bl # NotRead
        BY <1>3 DEF NotRead
      <4>2. PICK d : d = (l - bl) % Wrap
        OBVIOUS
      <4>3. Diff32(bl, l) = d
        BY <2>2, <4>1, <4>2 DEF Diff32
      <4> QED BY <3>4, <4>2, <4>3
    <3>6. Plus(tl, lost - tl) = lost
      BY <1>1, <3>3 DEF Plus, NotRead
    <3> QED BY <1>1, <2>2, <3>1, <3>2, <3>5, <3>6
  <2> QED BY <2>1, <2>2
<1>7. PICK ml \in Nat : ml = IF l = NotRead THEN bl ELSE l
  BY <1>6
<1>8. told' = [count |-> nc, lost |-> nl] /\ base' = [count |-> nc, lost |-> ml, drops |-> drops]
  BY <1>4, <1>5, <1>6, <1>7
<1> QED BY <1>1, <1>4, <1>5, <1>6, <1>7, <1>8

\* The health thread's report.
LEMMA SnapshotCounts ==
    ASSUME Types, CounterInv, HealthSnapshot
    PROVE  /\ base' \in [count : Nat, lost : Nat, drops : Nat] /\ told' \in [count : Nat, lost : Nat]
           /\ told'.count = base'.count /\ base'.count <= count
           /\ told'.lost <= lost /\ lost - told'.lost < Wrap /\ told'.lost % Wrap = base'.lost
           /\ base'.drops <= drops /\ answer' = NotRead
           /\ \/ /\ hpc' = "wait" /\ nreports' = nreports /\ UNCHANGED queueVars
              \/ /\ hpc' = "send" /\ nreports' = nreports + 1
                 /\ Reserve("health", [kind |-> "report", n |-> nreports + 1, final |-> FALSE])
<1>1. PICK l \in SessionReads, due \in BOOLEAN :
        LET now == [count |-> answer, lost |-> l, drops |-> drops]
        IN  \/ /\ due \/ LossRose(base, now)
               /\ SendReport("health", now, FALSE)
               /\ hpc' = "send"
            \/ /\ ~(due \/ LossRose(base, now))
               /\ hpc' = "wait"
               /\ UNCHANGED <<queueVars, base, nreports, told>>
  BY DEF HealthSnapshot
<1>2. /\ answer \in Nat \cup {NotRead} /\ "health" \in Senders /\ FALSE \in BOOLEAN
      /\ answer # NotRead => base.count <= answer /\ answer <= count
  BY StoreAssumption DEF Types, NTypes, CounterInv
<1>3. answer' = NotRead
  BY DEF HealthSnapshot
<1>4. CASE SendReport("health", [count |-> answer, lost |-> l, drops |-> drops], FALSE) /\ hpc' = "send"
  BY <1>2, <1>3, <1>4, SendCounts
<1>5. CASE hpc' = "wait" /\ UNCHANGED <<queueVars, base, nreports, told>>
  BY <1>3, <1>5 DEF Types, NTypes, CounterInv
<1> QED BY <1>1, <1>4, <1>5

\* The final report.
LEMMA FinalCounts ==
    ASSUME Types, CounterInv, FinalReport
    PROVE  /\ base' \in [count : Nat, lost : Nat, drops : Nat] /\ told' \in [count : Nat, lost : Nat]
           /\ told'.count = base'.count /\ base'.count <= count
           /\ told'.lost <= lost /\ lost - told'.lost < Wrap /\ told'.lost % Wrap = base'.lost
           /\ base'.drops <= drops /\ (ppc = "ended" => base'.count = count)
           /\ nreports' = nreports + 1
           /\ Reserve("main", [kind |-> "report", n |-> nreports + 1, final |-> TRUE])
<1>1. PICK c : c = IF ppc = "ended" THEN count ELSE NotRead
  OBVIOUS
<1>2. PICK l \in SessionReads : SendReport("main", [count |-> c, lost |-> l, drops |-> drops], TRUE)
  BY <1>1 DEF FinalReport
<1>3. /\ c \in Nat \cup {NotRead} /\ "main" \in Senders /\ TRUE \in BOOLEAN
      /\ c # NotRead => base.count <= c /\ c <= count
  <2>1. count \in Nat /\ base.count <= count /\ base \in [count : Nat, lost : Nat, drops : Nat]
    BY DEF Types, NTypes, CounterInv
  <2> QED BY <1>1, <2>1, StoreAssumption
<1>4. ppc = "ended" => c = count /\ c # NotRead
  BY <1>1 DEF Types, NTypes, NotRead
<1> QED BY <1>2, <1>3, <1>4, SendCounts

-----------------------------------------------------------------------------
(* What handling a message does to the records                               *)

\* A sequence of one message is that message.
LEMMA OneOf ==
    ASSUME NEW M, NEW s \in Seq(M), Len(s) = 1
    PROVE  s[1] \in M /\ s = <<s[1]>>
<1>1. s[1] \in M /\ DOMAIN s = 1..1
  BY ElementOfSeq, LenProperties
<1>2. <<s[1]>> \in Seq(M) /\ Len(<<s[1]>>) = 1 /\ <<s[1]>>[1] = s[1]
  BY <1>1
<1> QED BY <1>1, <1>2, SeqEqual

\* The counters of the writer after one more rejected record.
LEMMA RejectedOne ==
    ASSUME stats \in [rejected : Nat, gaps : Nat], stats' = [stats EXCEPT !.rejected = @ + 1]
    PROVE  stats' \in [rejected : Nat, gaps : Nat] /\ stats'.rejected = stats.rejected + 1 /\ stats'.gaps = stats.gaps
OBVIOUS

\* An event goes behind what is written, or is counted.
LEMMA EventIs ==
    ASSUME Types, WriterControl, RoomInv, HandleEvent
    PROVE  \E x, h \in Seq(FullReports), e \in EventMsgs, a \in {0, 1}, j \in {0, 1}, d \in {0, 1} :
             /\ cur = <<e>> /\ cur' = <<>>
             /\ held = x \o h /\ held' = h /\ Len(h) <= Len(held)
             /\ log' \o backlog' = IF a = 1 THEN (Written \o x) \o <<e>> ELSE Written \o x
             /\ backlog' \in Seq(Stored) /\ log' = log /\ Bytes(backlog') <= BacklogCap
             /\ stats' \in [rejected : Nat, gaps : Nat]
             /\ stats'.gaps = stats.gaps /\ stats'.rejected = stats.rejected + j
             /\ drops' = drops + d
             /\ a + j + d = 1
<1>1. /\ cur \in Seq(Sent) /\ log \in Seq(Stored) /\ backlog \in Seq(Stored) /\ stats \in [rejected : Nat, gaps : Nat]
      /\ drops \in Nat /\ BacklogCap \in Nat
  BY StoreAssumption DEF Types, RTypes, NTypes
<1>2. wpc = "handle" /\ IsEvent(cur[1]) /\ Len(cur) = 1
  BY DEF HandleEvent, WriterControl
<1>3. PICK e \in EventMsgs : cur = <<e>> /\ cur[1] = e
  <2>1. cur[1] \in Sent /\ cur = <<cur[1]>>
    BY <1>1, <1>2, OneOf
  <2>2. \A m \in RawReports : ~IsEvent(m)
    BY DEF RawReports, IsEvent
  <2> QED BY <1>2, <2>1, <2>2 DEF Sent
<1>4. PICK x, h \in Seq(FullReports) :
             /\ held = x \o h /\ HeldRetried = h /\ Len(h) <= Len(held)
             /\ BacklogRetried = backlog \o x /\ BacklogRetried \in Seq(Stored)
             /\ Bytes(BacklogRetried) <= BacklogCap
             /\ log \o BacklogRetried = Written \o x
  BY Retry
<1>5. PICK b \in Seq(Stored) : b = BacklogRetried
  BY <1>4
<1>6. held' = h /\ cur' = <<>> /\ log' = log
  BY <1>4 DEF HandleEvent
<1>7. CASE e.n \in Oversized /\ stats' = [stats EXCEPT !.rejected = @ + 1] /\ backlog' = b /\ UNCHANGED drops
  <2>1. stats' \in [rejected : Nat, gaps : Nat] /\ stats'.rejected = stats.rejected + 1 /\ stats'.gaps = stats.gaps
    BY <1>1, <1>7, RejectedOne
  <2>2. log' \o backlog' = Written \o x /\ backlog' \in Seq(Stored) /\ Bytes(backlog') <= BacklogCap
    BY <1>4, <1>5, <1>6, <1>7
  <2>3. drops' = drops + 0
    BY <1>1, <1>7
  <2> WITNESS x \in Seq(FullReports), h \in Seq(FullReports), e \in EventMsgs, 0 \in {0, 1}, 1 \in {0, 1}, 0 \in {0, 1}
  <2> QED BY <1>3, <1>4, <1>6, <2>1, <2>2, <2>3
<1>8. CASE Fits(b, e) /\ backlog' = b \o <<e>> /\ UNCHANGED <<drops, stats>>
  <2>0. e \in Msgs /\ e \in Stored
    BY DEF Msgs, Sent, Stored
  <2>1. b \o <<e>> \in Seq(Stored)
    <3>1. <<e>> \in Seq(Stored)
      BY <2>0
    <3> QED BY <3>1, CatSeq
  <2>2. Bytes(b \o <<e>>) <= BacklogCap
    <3>1. b \in Seq(Msgs) /\ <<e>> \in Seq(Msgs)
      BY <2>0, SeqTypes
    <3>2. Bytes(b \o <<e>>) = Bytes(b) + Bytes(<<e>>) /\ Bytes(<<e>>) = Size(e)
      BY <2>0, <3>1, BytesCat, BytesOne
    <3> QED BY <1>8, <3>2 DEF Fits
  <2>3. log \o (b \o <<e>>) = (Written \o x) \o <<e>>
    <3>1. log \in Seq(Msgs) /\ b \in Seq(Msgs) /\ <<e>> \in Seq(Msgs)
      BY <1>1, <2>0, SeqTypes
    <3>2. (log \o b) \o <<e>> = log \o (b \o <<e>>)
      BY <3>1, Assoc
    <3> QED BY <1>4, <1>5, <3>2
  <2>4. /\ drops' = drops + 0 /\ stats' \in [rejected : Nat, gaps : Nat] /\ stats'.rejected = stats.rejected + 0
        /\ stats'.gaps = stats.gaps
    BY <1>1, <1>8
  <2> WITNESS x \in Seq(FullReports), h \in Seq(FullReports), e \in EventMsgs, 1 \in {0, 1}, 0 \in {0, 1}, 0 \in {0, 1}
  <2>5. log' \o backlog' = (Written \o x) \o <<e>> /\ backlog' \in Seq(Stored) /\ Bytes(backlog') <= BacklogCap
    BY <1>6, <1>8, <2>1, <2>2, <2>3
  <2> QED BY <1>3, <1>4, <1>6, <2>4, <2>5
<1>9. CASE drops' = drops + 1 /\ backlog' = b /\ UNCHANGED stats
  <2>1. stats' \in [rejected : Nat, gaps : Nat] /\ stats'.rejected = stats.rejected + 0 /\ stats'.gaps = stats.gaps
    BY <1>1, <1>9
  <2>2. log' \o backlog' = Written \o x /\ backlog' \in Seq(Stored) /\ Bytes(backlog') <= BacklogCap
    BY <1>4, <1>5, <1>6, <1>9
  <2> WITNESS x \in Seq(FullReports), h \in Seq(FullReports), e \in EventMsgs, 0 \in {0, 1}, 0 \in {0, 1}, 1 \in {0, 1}
  <2> QED BY <1>3, <1>4, <1>6, <1>9, <2>1, <2>2
<1> QED BY <1>3, <1>5, <1>7, <1>8, <1>9 DEF HandleEvent

\* What complete makes of a report.
LEMMA CompleteIs ==
    ASSUME Types, FigureInv, NEW m \in RawReports
    PROVE  \E r \in FullReports :
             /\ r = Complete(m) /\ r.n = m.n /\ r.final = m.final
             /\ r.gap = stats.gaps /\ r.drops = drops - reported.drops
             /\ r.rejected = stats.rejected - reported.rejected
<1>1. /\ stats \in [rejected : Nat, gaps : Nat] /\ drops \in Nat
      /\ reported \in [rejected : Nat, drops : Nat, recovery : BOOLEAN]
      /\ reported.drops <= drops /\ reported.rejected <= stats.rejected
  BY DEF Types, RTypes, NTypes, FigureInv
<1>2. PICK a \in Nat, b \in Nat, g \in Nat, v \in BOOLEAN :
        a = stats.rejected - reported.rejected /\ b = drops - reported.drops /\ g = stats.gaps /\ v = ~reported.recovery
  <2>1. stats.rejected - reported.rejected \in Nat /\ drops - reported.drops \in Nat /\ stats.gaps \in Nat
    BY <1>1
  <2>2. (~reported.recovery) \in BOOLEAN
    OBVIOUS
  <2> QED BY <2>1, <2>2
<1>3. Complete(m) = [kind |-> m.kind, n |-> m.n, final |-> m.final, rejected |-> a, gap |-> g, recovery |-> v, drops |-> b]
  BY <1>2 DEF Complete
<1>4. m.kind = "report" /\ m.n \in Nat \ {0} /\ m.final \in BOOLEAN
  BY DEF RawReports
<1>5. Complete(m) \in FullReports
  BY <1>2, <1>3, <1>4 DEF FullReports
<1> QED BY <1>2, <1>3, <1>4, <1>5

\* A report goes behind the others, and the oldest held one goes when there
\* are too many.
LEMMA ReportIs ==
    ASSUME Types, WriterControl, RoomInv, FigureInv, HandleReport
    PROVE  \E x, h, t \in Seq(FullReports), m \in RawReports, r \in FullReports :
             /\ cur = <<m>> /\ cur' = <<>> /\ log' = log
             /\ held = x \o h /\ backlog' \in Seq(Stored) /\ Bytes(backlog') <= BacklogCap
             /\ r.n = m.n /\ r.final = m.final /\ r.gap = stats.gaps
             /\ r.drops = drops - reported.drops /\ r.rejected = stats.rejected - reported.rejected
             /\ held' \in Seq(FullReports) /\ Len(held') <= HeldCap
             /\ \/ h = <<>> /\ t = <<>> /\ held' = <<>> /\ log' \o backlog' = (Written \o x) \o <<r>>
                \/ t = h /\ held' = t \o <<r>> /\ log' \o backlog' = Written \o x
                \/ /\ \E o \in FullReports : h = <<o>> \o t
                   /\ held' = t \o <<r>> /\ log' \o backlog' = Written \o x
<1>1. /\ cur \in Seq(Sent) /\ log \in Seq(Stored) /\ backlog \in Seq(Stored) /\ held \in Seq(FullReports)
      /\ BacklogCap \in Nat /\ HeldCap \in Nat /\ HeldCap > 0
  <2>1. cur \in Seq(Sent) /\ log \in Seq(Stored) /\ backlog \in Seq(Stored) /\ held \in Seq(FullReports)
    BY DEF Types, RTypes, NTypes
  <2>2. BacklogCap \in Nat /\ HeldCap \in Nat /\ HeldCap > 0
    BY StoreAssumption
  <2> QED BY <2>1, <2>2
<1>2. wpc = "handle" /\ ~IsEvent(cur[1]) /\ Len(cur) = 1
  BY DEF HandleReport, WriterControl
<1>3. PICK m \in RawReports : cur = <<m>> /\ cur[1] = m
  <2>1. cur[1] \in Sent /\ cur = <<cur[1]>>
    BY <1>1, <1>2, OneOf
  <2>2. \A e \in EventMsgs : IsEvent(e)
    BY DEF EventMsgs, IsEvent
  <2> QED BY <1>2, <2>1, <2>2 DEF Sent
<1>4. PICK r \in FullReports :
             /\ r = Complete(m) /\ r.n = m.n /\ r.final = m.final
             /\ r.gap = stats.gaps /\ r.drops = drops - reported.drops
             /\ r.rejected = stats.rejected - reported.rejected
  BY CompleteIs
<1>5. PICK x, h \in Seq(FullReports) :
             /\ held = x \o h /\ HeldRetried = h /\ Len(h) <= Len(held)
             /\ BacklogRetried = backlog \o x /\ BacklogRetried \in Seq(Stored)
             /\ Bytes(BacklogRetried) <= BacklogCap
             /\ log \o BacklogRetried = Written \o x
  BY Retry
<1>6. PICK b \in Seq(Stored) : b = BacklogRetried
  BY <1>5
<1>7. cur' = <<>> /\ log' = log
  BY DEF HandleReport
<1>8. Len(h) \in Nat /\ Len(h) <= HeldCap
  <2>1. Len(h) \in Nat /\ Len(held) \in Nat
    BY <1>1, <1>5, LenProperties
  <2> QED BY <1>1, <1>5, <2>1 DEF RoomInv
<1>9. <<r>> \in Seq(FullReports) /\ r \in Stored /\ r \in Msgs /\ Len(<<r>>) = 1
  BY DEF Stored, Msgs
<1>10. CASE held' = Hold(h, r) /\ backlog' = b
  <2>1. log' \o backlog' = Written \o x /\ backlog' \in Seq(Stored) /\ Bytes(backlog') <= BacklogCap
    BY <1>5, <1>6, <1>7, <1>10
  <2>2. CASE Len(h) = HeldCap
    <3>1. h # <<>>
      BY <1>1, <2>2, EmptySeq
    <3>2. PICK o \in FullReports, t \in Seq(FullReports) : o = Head(h) /\ t = Tail(h) /\ Len(t) = Len(h) - 1
      BY <3>1, HeadTailProperties
    <3>3. h = <<o>> \o t
      BY <3>1, <3>2
    <3>4. held' = t \o <<r>>
      <4>1. held' = Append(t, r)
        BY <1>10, <2>2, <3>2 DEF Hold
      <4> QED BY <4>1, AppendIsConcat
    <3>5. t \o <<r>> \in Seq(FullReports) /\ Len(t \o <<r>>) = Len(t) + 1
      BY <1>9, CatSeq
    <3>6. Len(held') <= HeldCap /\ held' \in Seq(FullReports)
      BY <1>8, <2>2, <3>2, <3>4, <3>5
    <3> QED BY <1>3, <1>4, <1>5, <1>7, <2>1, <3>3, <3>4, <3>6
  <2>3. CASE Len(h) # HeldCap
    <3>1. held' = Append(h, r)
      BY <1>10, <2>3 DEF Hold
    <3>2. held' = h \o <<r>>
      BY <3>1, AppendIsConcat
    <3>3. h \o <<r>> \in Seq(FullReports) /\ Len(h \o <<r>>) = Len(h) + 1
      BY <1>9, CatSeq
    <3>4. Len(held') <= HeldCap /\ held' \in Seq(FullReports)
      BY <1>1, <1>8, <2>3, <3>2, <3>3
    <3> QED BY <1>3, <1>4, <1>5, <1>7, <2>1, <3>2, <3>4
  <2> QED BY <2>2, <2>3
<1>11. CASE h = <<>> /\ Fits(b, r) /\ held' = <<>> /\ backlog' = Append(b, r)
  <2>1. backlog' = b \o <<r>>
    BY <1>9, <1>11, AppendIsConcat
  <2>2. b \in Seq(Msgs) /\ log \in Seq(Msgs) /\ <<r>> \in Seq(Msgs) /\ <<r>> \in Seq(Stored)
    BY <1>1, <1>9, SeqTypes
  <2>3. log \o (b \o <<r>>) = (Written \o x) \o <<r>>
    <3>1. (log \o b) \o <<r>> = log \o (b \o <<r>>)
      BY <2>2, Assoc
    <3> QED BY <1>5, <1>6, <3>1
  <2>4. b \o <<r>> \in Seq(Stored)
    BY <2>2, CatSeq
  <2>5. Bytes(b \o <<r>>) <= BacklogCap
    <3>1. Bytes(b \o <<r>>) = Bytes(b) + Bytes(<<r>>) /\ Bytes(<<r>>) = Size(r)
      BY <1>9, <2>2, BytesCat, BytesOne
    <3> QED BY <1>11, <3>1 DEF Fits
  <2>6. Len(held') <= HeldCap /\ held' \in Seq(FullReports)
    BY <1>1, <1>11
  <2> QED BY <1>3, <1>4, <1>5, <1>7, <1>11, <2>1, <2>3, <2>4, <2>5, <2>6
<1>12. \/ held' = Hold(h, r) /\ backlog' = b
       \/ h = <<>> /\ Fits(b, r) /\ held' = <<>> /\ backlog' = Append(b, r)
  BY <1>3, <1>4, <1>5, <1>6 DEF HandleReport
<1> QED BY <1>10, <1>11, <1>12

-----------------------------------------------------------------------------
(* Types                                                                     *)

\* What a sender counts is in its hands alone.
LEMMA ReserveIs ==
    ASSUME adding \in [Senders -> Seq(Sent)], NEW s \in Senders, NEW m \in Sent, Reserve(s, m)
    PROVE  /\ adding' \in [Senders -> Seq(Sent)] /\ adding'[s] = <<m>> /\ Len(adding'[s]) = 1
           /\ \A o \in Senders \ {s} : adding'[o] = adding[o]
           /\ len' = len + 1 /\ chan' = chan /\ backing' = backing /\ taken' = taken /\ rxOpen' = rxOpen
<1>1. <<m>> \in Seq(Sent) /\ Len(<<m>>) = 1
  OBVIOUS
<1>2. PICK a \in Seq(Sent) : a = <<m>>
  BY <1>1
<1>3. adding' = [adding EXCEPT ![s] = a]
  BY <1>2 DEF Reserve
<1>4. adding' \in [Senders -> Seq(Sent)] /\ adding'[s] = a /\ \A o \in Senders \ {s} : adding'[o] = adding[o]
  BY <1>3
<1>5. len' = len + 1 /\ chan' = chan /\ backing' = backing /\ taken' = taken /\ rxOpen' = rxOpen
  BY DEF Reserve
<1> QED BY <1>1, <1>2, <1>4, <1>5

\* A sender's hands are empty once its message is sent or refused.
LEMMA ClearIs ==
    ASSUME adding \in [Senders -> Seq(Sent)], NEW s \in Senders, Put(s) \/ PutFails(s)
    PROVE  /\ adding' \in [Senders -> Seq(Sent)] /\ adding'[s] = <<>> /\ Len(adding'[s]) = 0
           /\ \A o \in Senders \ {s} : adding'[o] = adding[o]
           /\ adding[s] # <<>> /\ backing' = backing /\ taken' = taken /\ rxOpen' = rxOpen
<1>1. <<>> \in Seq(Sent) /\ Len(<<>>) = 0
  OBVIOUS
<1>2. PICK a \in Seq(Sent) : a = <<>>
  BY <1>1
<1>3. adding' = [adding EXCEPT ![s] = a]
  BY <1>2 DEF Put, PutFails
<1>4. adding' \in [Senders -> Seq(Sent)] /\ adding'[s] = a /\ \A o \in Senders \ {s} : adding'[o] = adding[o]
  BY <1>3
<1>5. adding[s] # <<>> /\ backing' = backing /\ taken' = taken /\ rxOpen' = rxOpen
  BY DEF Put, PutFails
<1> QED BY <1>1, <1>2, <1>4, <1>5

\* The threads are at places of their own.
LEMMA PTypesStep ==
    ASSUME PTypes, Next
    PROVE  PTypes'
<1> USE DEF PTypes, queueVars, pipelineVars, healthVars, coreVars, others
<1>1. CASE Emit \/ EmitPut \/ EmitRefused \/ EmitDrop \/ PipelineCounts
  BY <1>1 DEF Emit, EmitPut, EmitRefused, EmitDrop, PipelineCounts
<1>2. CASE PipelineAnswers \/ PipelineEnds \/ PipelinePanics \/ SessionLoses
  BY <1>2 DEF PipelineAnswers, PipelineEnds, PipelinePanics, SessionLoses
<1>3. CASE HealthAsks \/ HealthTimesOut \/ HealthPut \/ HealthEnds
  BY <1>3 DEF HealthAsks, HealthTimesOut, HealthPut, HealthEnds
<1>4. CASE HealthSnapshot
  BY <1>4 DEF HealthSnapshot
<1>5. CASE Main
  BY <1>5 DEF Main, StopAsked, DeathSeen, JoinHealth, FinalReport, FinalPut, JoinWriter
<1>6. CASE Receive \/ Received \/ ReceiveEnds \/ Disconnected
  BY <1>6 DEF Receive, Received, ReceiveEnds, Disconnected
<1>7. CASE HandleEvent \/ HandleReport \/ WriterPanics
  BY <1>7 DEF HandleEvent, HandleReport, WriterPanics
<1>8. CASE Tick \/ Close \/ CloseFails
  BY <1>8 DEF Tick, TickIdle, TickWrites, TickFails, Close, CloseFails
<1> QED BY <1>1, <1>2, <1>3, <1>4, <1>5, <1>6, <1>7, <1>8 DEF Next, Pipeline, Health, Core

\* Retention counts what it deletes.
LEMMA EvictIs ==
    ASSUME stats \in [rejected : Nat, gaps : Nat], evicted \in Nat, MayEvict
    PROVE  \E e \in {0, 1} : /\ evicted' = evicted + e /\ stats' \in [rejected : Nat, gaps : Nat]
                             /\ stats'.gaps = stats.gaps + e /\ stats'.rejected = stats.rejected
<1>1. PICK e \in 0..1 : evicted' = evicted + e /\ stats' = [stats EXCEPT !.gaps = @ + e]
  BY DEF MayEvict
<1>2. e \in {0, 1}
  OBVIOUS
<1>3. stats' \in [rejected : Nat, gaps : Nat] /\ stats'.gaps = stats.gaps + e /\ stats'.rejected = stats.rejected
  BY <1>1, <1>2
<1> QED BY <1>1, <1>2, <1>3

\* The counters are numbers.
LEMMA NTypesStep ==
    ASSUME StoreInv, Next
    PROVE  NTypes'
<1>1. NTypes /\ RTypes /\ Types /\ CounterInv /\ WriterControl /\ RoomInv
  BY DEF StoreInv, Types
<1> USE DEF queueVars, pipelineVars, healthVars, coreVars, others, logVars
<1>2. CASE Emit \/ EmitPut \/ EmitRefused \/ EmitDrop \/ PipelineCounts
  BY <1>1, <1>2 DEF Emit, EmitPut, EmitRefused, EmitDrop, PipelineCounts, NTypes
<1>3. CASE PipelineAnswers \/ PipelineEnds \/ PipelinePanics \/ SessionLoses
  BY <1>1, <1>3 DEF PipelineAnswers, PipelineEnds, PipelinePanics, SessionLoses, NTypes
<1>4. CASE HealthAsks \/ HealthTimesOut \/ HealthPut \/ HealthEnds
  BY <1>1, <1>4 DEF HealthAsks, HealthTimesOut, HealthPut, HealthEnds, NTypes
<1>5. CASE HealthSnapshot
  <2>1. /\ base' \in [count : Nat, lost : Nat, drops : Nat] /\ told' \in [count : Nat, lost : Nat]
        /\ answer' = NotRead /\ (nreports' = nreports \/ nreports' = nreports + 1)
    BY <1>1, <1>5, SnapshotCounts
  <2>2. UNCHANGED <<pipelineVars, lost, drops, coreVars>>
    BY <1>5 DEF HealthSnapshot
  <2> QED BY <1>1, <2>1, <2>2 DEF NTypes
<1>6. CASE FinalReport
  <2>1. /\ base' \in [count : Nat, lost : Nat, drops : Nat] /\ told' \in [count : Nat, lost : Nat]
        /\ nreports' = nreports + 1
    BY <1>1, <1>6, FinalCounts
  <2>2. UNCHANGED <<pipelineVars, lost, answer, drops, coreVars>>
    BY <1>6 DEF FinalReport
  <2> QED BY <1>1, <2>1, <2>2 DEF NTypes
<1>7. CASE StopAsked \/ DeathSeen \/ JoinHealth \/ FinalPut \/ JoinWriter
  BY <1>1, <1>7 DEF StopAsked, DeathSeen, JoinHealth, FinalPut, JoinWriter, NTypes
<1>8. CASE Receive \/ Received \/ ReceiveEnds \/ Disconnected \/ HandleReport \/ WriterPanics \/ TickIdle
  BY <1>1, <1>8 DEF Receive, Received, ReceiveEnds, Disconnected, HandleReport, WriterPanics, TickIdle, NTypes
<1>9. CASE HandleEvent
  BY <1>1, <1>9 DEF HandleEvent, NTypes
<1>10. CASE TickWrites \/ TickFails \/ Close \/ CloseFails
  <2>1. MayEvict /\ UNCHANGED <<others, drops>>
    BY <1>10 DEF TickWrites, TickFails, Close, CloseFails
  <2>2. evicted' \in Nat
    BY <1>1, <2>1, EvictIs DEF NTypes, RTypes
  <2> QED BY <1>1, <2>1, <2>2 DEF NTypes
<1> QED BY <1>2, <1>3, <1>4, <1>5, <1>6, <1>7, <1>8, <1>9, <1>10 DEF Next, Pipeline, Health, Main, Core, Tick

\* The queue holds messages.
LEMMA QTypesStep ==
    ASSUME StoreInv, Next
    PROVE  QTypes'
<1>1. /\ QTypes /\ Types /\ CounterInv /\ Senders = {"pipeline", "health", "main"} /\ adding \in [Senders -> Seq(Sent)]
      /\ chan \in Seq(Sent) /\ len \in Int /\ backing \in SUBSET {"pipeline"} /\ emitted \in Nat /\ nreports \in Nat
  BY StoreAssumption DEF StoreInv, Types, QTypes, NTypes
<1> USE DEF queueVars, healthVars
<1>2. ASSUME NEW s \in Senders, Put(s) \/ PutFails(s)
      PROVE  QTypes'
  <2>1. adding' \in [Senders -> Seq(Sent)] /\ backing' = backing /\ taken' = taken /\ rxOpen' = rxOpen
    BY <1>1, <1>2, ClearIs
  <2>2. adding[s] \in Seq(Sent)
    BY <1>1
  <2>3. chan \o adding[s] \in Seq(Sent)
    BY <1>1, <2>2, CatSeq
  <2>4. \/ chan' = chan \o adding[s] /\ len' = len
        \/ chan' = chan /\ len' = len - 1
    BY <1>2 DEF Put, PutFails
  <2>5. chan' \in Seq(Sent)
    BY <1>1, <2>3, <2>4
  <2>6. len' \in Int
    <3>1. len \in Int
      BY <1>1
    <3> QED BY <2>4, <3>1
  <2> QED BY <1>1, <2>1, <2>5, <2>6 DEF QTypes
<1>3. ASSUME NEW s \in Senders, NEW m \in Sent, Reserve(s, m)
      PROVE  QTypes'
  <2>1. /\ adding' \in [Senders -> Seq(Sent)] /\ len' = len + 1
        /\ chan' = chan /\ backing' = backing /\ taken' = taken /\ rxOpen' = rxOpen
    BY <1>1, <1>3, ReserveIs
  <2> QED BY <1>1, <2>1 DEF QTypes
<1>4. CASE Emit
  <2>1. PICK m \in Sent : m = Event(emitted + 1)
    <3>1. emitted + 1 \in Nat \ {0}
      BY <1>1
    <3>2. Event(emitted + 1) \in EventMsgs
      BY <3>1 DEF Event, EventMsgs
    <3> QED BY <3>2 DEF Sent
  <2>2. CASE Reserve("pipeline", m)
    BY <1>1, <1>3, <2>2
  <2>3. CASE ~Reserve("pipeline", m)
    <3>1. TryReserve("pipeline", m)
      BY <1>4, <2>1 DEF Emit
    <3>2. len' = len + 1 /\ backing' = backing \cup {"pipeline"} /\ chan' = chan /\ adding' = adding /\ taken' = taken /\ rxOpen' = rxOpen
      BY <2>3, <3>1 DEF TryReserve
    <3> QED BY <1>1, <3>2 DEF QTypes
  <2> QED BY <2>2, <2>3
<1>5. CASE EmitPut \/ HealthPut \/ FinalPut
  BY <1>1, <1>2, <1>5 DEF EmitPut, HealthPut, FinalPut
<1>6. CASE EmitRefused
  <2>1. CASE Withdraw("pipeline")
    <3>1. len' = len - 1 /\ backing' = backing \ {"pipeline"} /\ chan' = chan /\ adding' = adding /\ taken' = taken /\ rxOpen' = rxOpen
      BY <2>1 DEF Withdraw
    <3> QED BY <1>1, <3>1 DEF QTypes
  <2>2. CASE PutFails("pipeline")
    BY <1>1, <1>2, <2>2
  <2> QED BY <1>6, <2>1, <2>2 DEF EmitRefused
<1>7. ASSUME NEW f \in BOOLEAN PROVE [kind |-> "report", n |-> nreports + 1, final |-> f] \in Sent
  BY <1>1 DEF Sent, RawReports
<1>8. CASE HealthSnapshot
  <2>1. \/ UNCHANGED queueVars
        \/ Reserve("health", [kind |-> "report", n |-> nreports + 1, final |-> FALSE])
    BY <1>1, <1>8, SnapshotCounts
  <2>2. CASE UNCHANGED queueVars
    BY <1>1, <2>2 DEF QTypes
  <2>3. CASE Reserve("health", [kind |-> "report", n |-> nreports + 1, final |-> FALSE])
    BY <1>1, <1>3, <1>7, <2>3
  <2> QED BY <2>1, <2>2, <2>3
<1>9. CASE FinalReport
  <2>1. Reserve("main", [kind |-> "report", n |-> nreports + 1, final |-> TRUE])
    BY <1>1, <1>9, FinalCounts
  <2> QED BY <1>1, <1>3, <1>7, <2>1
<1>10. CASE Receive
  <2>1. chan # <<>> /\ chan' = Tail(chan) /\ taken' = TRUE /\ len' = len /\ adding' = adding /\ backing' = backing /\ rxOpen' = rxOpen
    BY <1>10 DEF Receive, Take
  <2>2. chan' \in Seq(Sent)
    BY <1>1, <2>1, HeadTailProperties
  <2> QED BY <1>1, <2>1, <2>2 DEF QTypes
<1>11. CASE Received
  <2>1. chan' = chan /\ taken' = FALSE /\ len' = len - 1 /\ adding' = adding /\ backing' = backing /\ rxOpen' = rxOpen
    BY <1>11 DEF Received, Uncount
  <2>2. len' \in Int
    <3>1. len \in Int
      BY <1>1
    <3> QED BY <2>1, <3>1
  <2> QED BY <1>1, <2>1, <2>2 DEF QTypes
<1>12. CASE Close \/ CloseFails \/ WriterPanics
  <2>1. chan' = <<>> /\ taken' = taken /\ len' = len /\ adding' = adding /\ backing' = backing /\ rxOpen' = FALSE
    BY <1>12 DEF Close, CloseFails, WriterPanics, DropReceiver
  <2>2. <<>> \in Seq(Sent)
    OBVIOUS
  <2> QED BY <1>1, <2>1, <2>2 DEF QTypes
<1>13. CASE UNCHANGED queueVars
  BY <1>1, <1>13 DEF QTypes
<1>14. CASE EmitDrop \/ PipelineCounts \/ PipelineAnswers \/ PipelineEnds \/ PipelinePanics \/ SessionLoses
  BY <1>13, <1>14 DEF EmitDrop, PipelineCounts, PipelineAnswers, PipelineEnds, PipelinePanics, SessionLoses
<1>15. CASE HealthAsks \/ HealthTimesOut \/ HealthEnds \/ StopAsked \/ DeathSeen \/ JoinHealth \/ JoinWriter
  BY <1>13, <1>15 DEF HealthAsks, HealthTimesOut, HealthEnds, StopAsked, DeathSeen, JoinHealth, JoinWriter
<1>16. CASE ReceiveEnds \/ Disconnected \/ HandleEvent \/ HandleReport \/ Tick
  BY <1>13, <1>16 DEF ReceiveEnds, Disconnected, HandleEvent, HandleReport, Tick, TickIdle, TickWrites, TickFails
<1> QED
  BY <1>4, <1>5, <1>6, <1>8, <1>9, <1>10, <1>11, <1>12, <1>14, <1>15, <1>16 DEF Next, Pipeline, Health, Main, Core

\* Handling a report resets what the next one is measured from.
LEMMA ReportCounts ==
    ASSUME Types, HandleReport
    PROVE  /\ stats' \in [rejected : Nat, gaps : Nat] /\ stats'.gaps = 0 /\ stats'.rejected = stats.rejected
           /\ reported' \in [rejected : Nat, drops : Nat, recovery : BOOLEAN]
           /\ reported'.drops = drops /\ reported'.rejected = stats.rejected
           /\ drops' = drops /\ evicted' = evicted /\ nreports' = nreports
<1>1. stats \in [rejected : Nat, gaps : Nat] /\ drops \in Nat
  BY DEF Types, RTypes, NTypes
<1>2. /\ stats' = [stats EXCEPT !.gaps = 0] /\ reported' = [rejected |-> stats.rejected, drops |-> drops, recovery |-> TRUE]
      /\ drops' = drops /\ evicted' = evicted /\ nreports' = nreports
  BY DEF HandleReport, GapsLeft, ReportedNow, others, healthVars
<1> QED BY <1>1, <1>2

\* The steps that write records.
LEMMA WriteStep ==
    ASSUME Types, RoomInv, Tick \/ Close \/ CloseFails
    PROVE  \E k \in 0..Len(BacklogRetried) : Writes(k) /\ (TickWrites \/ Close => k = Len(BacklogRetried))
<1>1. PICK b \in Seq(Stored) : b = BacklogRetried
  BY Retry
<1>2. Len(b) \in Nat
  BY LenProperties
<1>3. 0 \in 0..Len(b) /\ Len(b) \in 0..Len(b)
  BY <1>2
<1>4. CASE TickWrites \/ Close
  BY <1>1, <1>3, <1>4 DEF TickWrites, Close
<1>5. CASE ~(TickWrites \/ Close)
  <2>1. CASE TickIdle
    BY <1>1, <1>3, <1>5, <2>1 DEF TickIdle
  <2>2. CASE TickFails \/ CloseFails
    BY <1>5, <2>2 DEF TickFails, CloseFails
  <2> QED BY <1>5, <2>1, <2>2 DEF Tick
<1> QED BY <1>4, <1>5

\* The records are records, within their bounds.
LEMMA RTypesStep ==
    ASSUME StoreInv, Next
    PROVE  RTypes' /\ RoomInv'
<1>1. /\ RTypes /\ Types /\ WriterControl /\ RoomInv /\ FigureInv
      /\ chan \in Seq(Sent) /\ stats \in [rejected : Nat, gaps : Nat] /\ evicted \in Nat
  BY DEF StoreInv, Types, QTypes, RTypes, NTypes
<1> USE DEF coreVars, logVars
<1>2. CASE UNCHANGED <<cur, held, backlog, log, stats, reported>>
  BY <1>1, <1>2 DEF RTypes, RoomInv
<1>3. CASE Pipeline
  BY <1>2, <1>3 DEF Pipeline, Emit, EmitPut, EmitRefused, EmitDrop, PipelineCounts, PipelineAnswers, PipelineEnds, PipelinePanics
<1>4. CASE SessionLoses \/ HealthAsks \/ HealthTimesOut \/ HealthSnapshot \/ HealthPut \/ HealthEnds
  BY <1>2, <1>4 DEF SessionLoses, HealthAsks, HealthTimesOut, HealthSnapshot, HealthPut, HealthEnds
<1>5. CASE Main
  BY <1>2, <1>5 DEF Main, StopAsked, DeathSeen, JoinHealth, FinalReport, FinalPut, JoinWriter
<1>6. CASE Received \/ ReceiveEnds \/ Disconnected \/ WriterPanics
  BY <1>2, <1>6 DEF Received, ReceiveEnds, Disconnected, WriterPanics
<1>7. CASE Receive
  <2>1. chan # <<>> /\ cur' = <<Head(chan)>> /\ UNCHANGED logVars
    BY <1>7 DEF Receive, Take
  <2>2. PICK m \in Sent : m = Head(chan)
    BY <1>1, <2>1, HeadTailProperties
  <2>3. <<m>> \in Seq(Sent)
    OBVIOUS
  <2> QED BY <1>1, <2>1, <2>2, <2>3 DEF RTypes, RoomInv
<1>8. CASE HandleEvent
  <2>1. \E h \in Seq(FullReports) :
          /\ cur' = <<>> /\ held' = h /\ Len(h) <= Len(held)
          /\ backlog' \in Seq(Stored) /\ log' = log /\ Bytes(backlog') <= BacklogCap
          /\ stats' \in [rejected : Nat, gaps : Nat]
    BY <1>1, <1>8, EventIs
  <2>2. reported' = reported
    BY <1>8 DEF HandleEvent
  <2>3. Len(held') <= HeldCap
    <3>1. Len(held') \in Nat /\ Len(held) \in Nat /\ HeldCap \in Nat /\ Len(held) <= HeldCap /\ Len(held') <= Len(held)
      BY <1>1, <2>1, LenProperties, StoreAssumption DEF RTypes, RoomInv
    <3> QED BY <3>1
  <2>4. <<>> \in Seq(Sent)
    OBVIOUS
  <2> QED BY <1>1, <2>1, <2>2, <2>3, <2>4 DEF RTypes, RoomInv
<1>9. CASE HandleReport
  <2>1. /\ cur' = <<>> /\ log' = log /\ backlog' \in Seq(Stored) /\ Bytes(backlog') <= BacklogCap
        /\ held' \in Seq(FullReports) /\ Len(held') <= HeldCap
    BY <1>1, <1>9, ReportIs
  <2>2. /\ stats' \in [rejected : Nat, gaps : Nat]
        /\ reported' \in [rejected : Nat, drops : Nat, recovery : BOOLEAN]
    BY <1>1, <1>9, ReportCounts
  <2>3. <<>> \in Seq(Sent)
    OBVIOUS
  <2> QED BY <1>1, <2>1, <2>2, <2>3 DEF RTypes, RoomInv
<1>10. CASE Tick \/ Close \/ CloseFails
  <2>1. PICK k \in 0..Len(BacklogRetried) : Writes(k)
    BY <1>1, <1>10, WriteStep
  <2>2. /\ log' \in Seq(Stored) /\ backlog' \in Seq(Stored) /\ held' \in Seq(FullReports)
        /\ Bytes(backlog') <= BacklogCap /\ Len(held') <= HeldCap
    BY <1>1, <2>1, WritesKeep
  <2>3. UNCHANGED <<cur, reported>> /\ (MayEvict \/ UNCHANGED stats)
    BY <1>10 DEF Tick, TickIdle, TickWrites, TickFails, Close, CloseFails
  <2>4. stats' \in [rejected : Nat, gaps : Nat]
    BY <1>1, <2>3, EvictIs
  <2> QED BY <1>1, <2>2, <2>3, <2>4 DEF RTypes, RoomInv
<1> QED BY <1>3, <1>4, <1>5, <1>6, <1>7, <1>8, <1>9, <1>10 DEF Next, Health, Core

\* The types are kept.
LEMMA TypesStep ==
    ASSUME StoreInv, Next
    PROVE  Types'
<1>1. PTypes
  BY DEF StoreInv, Types
<1> QED BY <1>1, PTypesStep, NTypesStep, QTypesStep, RTypesStep DEF Types

\* The reports' differences keep adding up.
LEMMA CounterStep ==
    ASSUME StoreInv, Next
    PROVE  CounterInv'
<1>1. Types /\ NTypes /\ CounterInv /\ NTypes' /\ PTypes
  BY NTypesStep DEF StoreInv, Types
<1>2. /\ mpc \in {"joinPipeline", "send", "join", "done"} => hpc = "ended"
      /\ mpc \in {"send", "join", "done"} => ppc \in {"ended", "panicked"}
      /\ emitted <= MaxEvents
  BY DEF StoreInv, SenderControl, PipelineGone, AccountInv
<1> USE DEF pipelineVars, healthVars, others
<1>3. CASE UNCHANGED <<told, base, count, answer, lost, hpc, ppc, mpc>> /\ drops' \in Nat /\ drops <= drops'
  BY <1>1, <1>3 DEF CounterInv, NTypes
<1>4. CASE Emit \/ EmitPut \/ EmitRefused \/ EmitDrop
  <2>1. UNCHANGED <<told, base, count, answer, lost, hpc, mpc>> /\ (drops' = drops \/ drops' = drops + 1)
    BY <1>4 DEF Emit, EmitPut, EmitRefused, EmitDrop
  <2>2. ppc' \in {"send", "run", "drop"}
    BY <1>4 DEF Emit, EmitPut, EmitRefused, EmitDrop
  <2> QED BY <1>1, <2>1, <2>2 DEF CounterInv, NTypes
<1>5. CASE PipelineCounts
  <2>1. MaxCount \in Nat
    BY StoreAssumption
  <2>2. /\ ppc = "run" /\ count < MaxCount /\ count' = count + 1
        /\ UNCHANGED <<told, base, answer, lost, hpc, ppc, mpc, drops>>
    BY <1>5 DEF PipelineCounts
  <2> QED BY <1>1, <2>1, <2>2 DEF CounterInv, NTypes
<1>6. CASE PipelineAnswers
  BY <1>1, <1>2, <1>6 DEF PipelineAnswers, CounterInv, NTypes
<1>7. CASE PipelineEnds \/ PipelinePanics
  BY <1>1, <1>2, <1>7 DEF PipelineEnds, PipelinePanics, CounterInv, NTypes
<1>8. CASE SessionLoses
  BY <1>1, <1>2, <1>8 DEF SessionLoses, CounterInv, NTypes
<1>9. CASE HealthAsks \/ HealthTimesOut \/ HealthEnds
  BY <1>1, <1>2, <1>9 DEF HealthAsks, HealthTimesOut, HealthEnds, CounterInv, NTypes
<1>10. CASE HealthPut
  <2>1. UNCHANGED <<told, base, count, answer, lost, ppc, mpc, drops>> /\ hpc' = "wait"
    BY <1>10 DEF HealthPut
  <2>2. hpc = "send"
    BY <1>10, StoreAssumption DEF HealthPut, Put, PutFails, StoreInv, SenderControl
  <2> QED BY <1>1, <2>1, <2>2 DEF CounterInv, NTypes
<1>11. CASE HealthSnapshot
  <2>1. /\ told'.count = base'.count /\ base'.count <= count
        /\ told'.lost <= lost /\ lost - told'.lost < Wrap /\ told'.lost % Wrap = base'.lost
        /\ base'.drops <= drops /\ answer' = NotRead
    BY <1>1, <1>11, SnapshotCounts
  <2>2. UNCHANGED <<count, lost, drops, mpc, ppc>> /\ hpc = "answered"
    BY <1>11 DEF HealthSnapshot
  <2> QED BY <1>1, <1>2, <2>1, <2>2 DEF CounterInv
<1>12. CASE FinalReport
  <2>1. /\ told'.count = base'.count /\ base'.count <= count
        /\ told'.lost <= lost /\ lost - told'.lost < Wrap /\ told'.lost % Wrap = base'.lost
        /\ base'.drops <= drops /\ (ppc = "ended" => base'.count = count)
    BY <1>1, <1>12, FinalCounts
  <2>2. UNCHANGED <<count, lost, drops, answer, hpc, ppc>> /\ mpc = "joinPipeline"
    BY <1>12 DEF FinalReport
  <2>3. answer = NotRead
    BY <1>1, <1>2, <2>2 DEF CounterInv
  <2> QED BY <1>1, <2>1, <2>2, <2>3 DEF CounterInv
<1>13. CASE StopAsked \/ DeathSeen \/ JoinHealth \/ FinalPut \/ JoinWriter
  <2>1. UNCHANGED <<told, base, count, answer, lost, hpc, ppc, drops>>
    BY <1>13 DEF StopAsked, DeathSeen, JoinHealth, FinalPut, JoinWriter
  <2>2. mpc' \in {"send", "join", "done"} => mpc \in {"send", "join", "done"}
    <3>1. CASE FinalPut
      BY <3>1, StoreAssumption DEF FinalPut, Put, PutFails, StoreInv, SenderControl
    <3>2. CASE ~FinalPut
      BY <1>13, <3>2 DEF StopAsked, DeathSeen, JoinHealth, JoinWriter
    <3> QED BY <3>1, <3>2
  <2> QED BY <1>1, <2>1, <2>2 DEF CounterInv
<1>14. CASE Receive \/ Received \/ ReceiveEnds \/ Disconnected \/ HandleReport \/ WriterPanics
  <2>1. UNCHANGED <<told, base, count, answer, lost, hpc, ppc, mpc, drops>>
    BY <1>14 DEF Receive, Received, ReceiveEnds, Disconnected, HandleReport, WriterPanics
  <2> QED BY <1>1, <1>3, <2>1 DEF NTypes
<1>15. CASE Tick \/ Close \/ CloseFails
  <2>1. UNCHANGED <<told, base, count, answer, lost, hpc, ppc, mpc, drops>>
    BY <1>15 DEF Tick, TickIdle, TickWrites, TickFails, Close, CloseFails
  <2> QED BY <1>1, <1>3, <2>1 DEF NTypes
<1>16. CASE HandleEvent
  <2>1. UNCHANGED <<told, base, count, answer, lost, hpc, ppc, mpc>> /\ (drops' = drops \/ drops' = drops + 1)
    BY <1>16 DEF HandleEvent
  <2> QED BY <1>1, <1>3, <2>1 DEF NTypes
<1> QED
  BY <1>4, <1>5, <1>6, <1>7, <1>8, <1>9, <1>10, <1>11, <1>12, <1>13, <1>14, <1>15, <1>16
  DEF Next, Pipeline, Health, Main, Core

-----------------------------------------------------------------------------
(* Control and the queue                                                     *)

\* Three threads send.
LEMMA Senders3 ==
    Senders = {"pipeline", "health", "main"} /\ "pipeline" \in Senders /\ "health" \in Senders /\ "main" \in Senders
BY StoreAssumption

\* A sequence of at most one message is empty or has one.
LEMMA ZeroOrOne ==
    ASSUME NEW M, NEW a \in Seq(M), Len(a) <= 1
    PROVE  Len(a) \in {0, 1} /\ (a = <<>> <=> Len(a) = 0)
<1>1. Len(a) \in Nat
  BY LenProperties
<1>2. a # <<>> => Len(a) \in Nat \ {0}
  BY EmptySeq
<1>3. a = <<>> => Len(a) = 0
  OBVIOUS
<1>4. Len(a) \in {0, 1}
  <2>1. \A l \in Nat : l <= 1 => l \in {0, 1}
    OBVIOUS
  <2> QED BY <1>1, <2>1
<1>5. Len(a) = 0 => a = <<>>
  BY <1>2
<1> QED BY <1>3, <1>4, <1>5

\* What the hands hold.
LEMMA HandsIs ==
    ASSUME QTypes, SenderControl, NEW s \in Senders
    PROVE  /\ adding[s] \in Seq(Sent) /\ Len(adding[s]) \in {0, 1}
           /\ adding[s] = <<>> <=> Len(adding[s]) = 0
<1>1. adding[s] \in Seq(Sent) /\ Len(adding[s]) <= 1
  BY DEF QTypes, SenderControl
<1>2. PICK a \in Seq(Sent) : a = adding[s]
  BY <1>1
<1>3. Len(a) \in {0, 1} /\ (a = <<>> <=> Len(a) = 0)
  BY <1>1, <1>2, ZeroOrOne
<1> QED BY <1>2, <1>3

\* The steps of a sender that puts its message in the queue, or cannot.
LEMMA PutIs ==
    ASSUME StoreInv, NEW s \in Senders, Put(s) \/ PutFails(s)
    PROVE  /\ adding'[s] = <<>> /\ Len(adding'[s]) = 0 /\ Len(adding[s]) = 1
           /\ \A o \in Senders \ {s} : adding'[o] = adding[o]
           /\ adding[s] # <<>> /\ backing' = backing /\ taken' = taken /\ rxOpen' = rxOpen
           /\ \/ rxOpen /\ chan' = chan \o adding[s] /\ len' = len
              \/ ~rxOpen /\ chan' = chan /\ len' = len - 1
<1>1. QTypes /\ SenderControl /\ adding \in [Senders -> Seq(Sent)]
  BY DEF StoreInv, Types, QTypes
<1>2. /\ adding'[s] = <<>> /\ Len(adding'[s]) = 0
      /\ \A o \in Senders \ {s} : adding'[o] = adding[o]
      /\ adding[s] # <<>> /\ backing' = backing /\ taken' = taken /\ rxOpen' = rxOpen
  BY <1>1, ClearIs
<1>3. Len(adding[s]) = 1
  BY <1>1, <1>2, HandsIs
<1>4. \/ rxOpen /\ chan' = chan \o adding[s] /\ len' = len
      \/ ~rxOpen /\ chan' = chan /\ len' = len - 1
  BY DEF Put, PutFails
<1> QED BY <1>2, <1>3, <1>4

\* Emit: the pipeline counts its event, or is refused.
LEMMA EmitIs ==
    ASSUME StoreInv, Emit
    PROVE  /\ ppc = "run" /\ ppc' = "send" /\ emitted' = emitted + 1 /\ emitted < MaxEvents /\ adding["pipeline"] = <<>> /\ backing = {}
           /\ \A o \in Senders \ {"pipeline"} : adding'[o] = adding[o]
           /\ len' = len + 1 /\ chan' = chan /\ taken' = taken /\ rxOpen' = rxOpen
           /\ \/ /\ len < Cap /\ adding'["pipeline"] = <<Event(emitted + 1)>> /\ Len(adding'["pipeline"]) = 1
                 /\ backing' = {} 
              \/ adding'["pipeline"] = <<>> /\ backing' = {"pipeline"} /\ Len(adding'["pipeline"]) = 0
<1>1. /\ adding \in [Senders -> Seq(Sent)] /\ emitted \in Nat /\ len \in Int /\ Cap \in Nat /\ SenderControl /\ "pipeline" \in Senders
      /\ backing \in SUBSET {"pipeline"}
  BY Senders3, QueueAssumption DEF StoreInv, Types, QTypes, NTypes
<1>2. ppc = "run" /\ ppc' = "send" /\ emitted' = emitted + 1 /\ emitted < MaxEvents /\ TryReserve("pipeline", Event(emitted + 1))
  BY DEF Emit
<1>3. adding["pipeline"] = <<>> /\ backing = {}
  BY <1>1, <1>2 DEF SenderControl
<1>4. PICK m \in Sent : m = Event(emitted + 1)
  <2>1. emitted + 1 \in Nat \ {0}
    BY <1>1
  <2>2. Event(emitted + 1) \in EventMsgs
    BY <2>1 DEF Event, EventMsgs
  <2> QED BY <2>2 DEF Sent
<1>5. CASE len < Cap /\ Reserve("pipeline", m)
  <2>1. /\ adding'["pipeline"] = <<m>> /\ Len(adding'["pipeline"]) = 1
        /\ \A o \in Senders \ {"pipeline"} : adding'[o] = adding[o]
        /\ len' = len + 1 /\ chan' = chan /\ backing' = backing /\ taken' = taken /\ rxOpen' = rxOpen
    BY <1>1, <1>5, ReserveIs
  <2> QED BY <1>2, <1>3, <1>4, <1>5, <2>1
<1>6. CASE len' = len + 1 /\ backing' = backing \cup {"pipeline"} /\ UNCHANGED <<chan, adding, taken, rxOpen>>
  <2>1. Len(<<>>) = 0
    OBVIOUS
  <2> QED BY <1>2, <1>3, <1>6, <2>1
<1>7. \/ ~(len >= Cap) /\ Reserve("pipeline", m)
      \/ len' = len + 1 /\ backing' = backing \cup {"pipeline"} /\ UNCHANGED <<chan, adding, taken, rxOpen>>
  BY <1>2, <1>4 DEF TryReserve, Full
<1>8. ~(len >= Cap) => len < Cap
  BY <1>1
<1> QED BY <1>5, <1>6, <1>7, <1>8

\* EmitRefused: the pipeline takes its count back.
LEMMA RefusedIs ==
    ASSUME StoreInv, EmitRefused
    PROVE  /\ ppc = "send" /\ ppc' = "drop" /\ adding'["pipeline"] = <<>> /\ Len(adding'["pipeline"]) = 0 /\ backing' = {}
           /\ \A o \in Senders \ {"pipeline"} : adding'[o] = adding[o]
           /\ len' = len - 1 /\ chan' = chan /\ taken' = taken /\ rxOpen' = rxOpen
           /\ \/ adding["pipeline"] = <<>> /\ Len(adding["pipeline"]) = 0 /\ backing # {}
              \/ adding["pipeline"] # <<>> /\ Len(adding["pipeline"]) = 1 /\ backing = {} /\ ~rxOpen
<1>1. SenderControl /\ "pipeline" \in Senders /\ backing \in SUBSET {"pipeline"} /\ QTypes
  BY Senders3 DEF StoreInv, Types, QTypes
<1>2. ppc' = "drop"
  BY DEF EmitRefused
<1>3. CASE Withdraw("pipeline")
  <2>1. backing # {} /\ backing' = {} /\ len' = len - 1 /\ chan' = chan /\ adding' = adding /\ taken' = taken /\ rxOpen' = rxOpen
    BY <1>1, <1>3 DEF Withdraw
  <2>2. ppc = "send" /\ adding["pipeline"] = <<>>
    BY <1>1, <2>1 DEF SenderControl
  <2>3. Len(<<>>) = 0
    OBVIOUS
  <2> QED BY <1>2, <2>1, <2>2, <2>3
<1>4. CASE PutFails("pipeline")
  <2>1. ~rxOpen /\ chan' = chan /\ len' = len - 1
    BY <1>4 DEF PutFails
  <2>2. /\ adding'["pipeline"] = <<>> /\ Len(adding'["pipeline"]) = 0 /\ Len(adding["pipeline"]) = 1
        /\ \A o \in Senders \ {"pipeline"} : adding'[o] = adding[o]
        /\ adding["pipeline"] # <<>> /\ backing' = backing /\ taken' = taken /\ rxOpen' = rxOpen
    BY <1>1, <1>4, PutIs
  <2>3. ppc = "send" /\ backing = {}
    BY <1>1, <2>2 DEF SenderControl
  <2> QED BY <1>2, <2>1, <2>2, <2>3
<1> QED BY <1>3, <1>4 DEF EmitRefused

\* HealthSnapshot and FinalReport: a report is counted, past the cap.
LEMMA ReportSent ==
    ASSUME StoreInv, NEW s \in Senders, NEW f \in BOOLEAN,
           Reserve(s, [kind |-> "report", n |-> nreports + 1, final |-> f])
    PROVE  /\ adding'[s] = <<[kind |-> "report", n |-> nreports + 1, final |-> f]>> /\ Len(adding'[s]) = 1
           /\ \A o \in Senders \ {s} : adding'[o] = adding[o]
           /\ len' = len + 1 /\ chan' = chan /\ backing' = backing /\ taken' = taken /\ rxOpen' = rxOpen
           /\ [kind |-> "report", n |-> nreports + 1, final |-> f] \in RawReports
<1>1. adding \in [Senders -> Seq(Sent)] /\ nreports \in Nat
  BY DEF StoreInv, Types, QTypes, NTypes
<1>2. PICK m \in RawReports : m = [kind |-> "report", n |-> nreports + 1, final |-> f]
  <2>1. nreports + 1 \in Nat \ {0}
    BY <1>1
  <2> QED BY <2>1 DEF RawReports
<1>3. m \in Sent
  BY DEF Sent
<1>4. Reserve(s, m)
  BY <1>2
<1>5. /\ adding'[s] = <<m>> /\ Len(adding'[s]) = 1
      /\ \A o \in Senders \ {s} : adding'[o] = adding[o]
      /\ len' = len + 1 /\ chan' = chan /\ backing' = backing /\ taken' = taken /\ rxOpen' = rxOpen
  BY <1>1, <1>3, <1>4, ReserveIs
<1> QED BY <1>2, <1>5

\* Each sender's message goes with its place.
LEMMA SenderStep ==
    ASSUME StoreInv, Next
    PROVE  SenderControl'
<1>1. SenderControl /\ PTypes /\ QTypes /\ Types /\ CounterInv
  BY DEF StoreInv, Types
<1>2. /\ Len(adding["pipeline"]) \in {0, 1} /\ Len(adding["health"]) \in {0, 1} /\ Len(adding["main"]) \in {0, 1}
      /\ adding["pipeline"] # <<>> => ppc = "send" /\ backing = {}
      /\ backing # {} => ppc = "send"
      /\ adding["health"] # <<>> => hpc = "send"
      /\ adding["main"] # <<>> => mpc = "send"
      /\ mpc \in {"joinPipeline", "send", "join", "done"} => hpc = "ended"
      /\ mpc \in {"send", "join", "done"} => ppc \in {"ended", "panicked"}
  <2>1. Len(adding["pipeline"]) \in {0, 1} /\ Len(adding["health"]) \in {0, 1} /\ Len(adding["main"]) \in {0, 1}
    BY <1>1, HandsIs, Senders3
  <2> QED BY <1>1, <2>1 DEF SenderControl, PipelineGone
<1> DEFINE Lengths == Len(adding'["pipeline"]) \in {0, 1} /\ Len(adding'["health"]) \in {0, 1} /\ Len(adding'["main"]) \in {0, 1}
<1> DEFINE Holds ==
      /\ adding'["pipeline"] # <<>> => ppc' = "send" /\ backing' = {}
      /\ backing' # {} => ppc' = "send"
      /\ adding'["health"] # <<>> => hpc' = "send"
      /\ adding'["main"] # <<>> => mpc' = "send"
      /\ mpc' \in {"joinPipeline", "send", "join", "done"} => hpc' = "ended"
      /\ mpc' \in {"send", "join", "done"} => ppc' \in {"ended", "panicked"}
<1>0. ASSUME Lengths, Holds PROVE SenderControl'
  <2>1. \A l \in {0, 1} : l <= 1
    OBVIOUS
  <2>2. \A s \in Senders : Len(adding'[s]) \in {0, 1}
    BY <1>0, Senders3
  <2>3. \A s \in Senders : Len(adding'[s]) <= 1
    BY <2>1, <2>2
  <2> QED BY <1>0, <2>3 DEF SenderControl, PipelineGone
<1> USE DEF queueVars, pipelineVars, healthVars, others
<1>3. CASE Emit
  <2>1. /\ ppc = "run" /\ ppc' = "send"
        /\ adding'["health"] = adding["health"] /\ adding'["main"] = adding["main"]
        /\ \/ backing' = {} /\ Len(adding'["pipeline"]) = 1
           \/ adding'["pipeline"] = <<>> /\ Len(adding'["pipeline"]) = 0
    BY <1>3, EmitIs, Senders3
  <2>2. hpc' = hpc /\ mpc' = mpc
    BY <1>3 DEF Emit
  <2> QED BY <1>0, <1>2, <2>1, <2>2
<1>4. CASE EmitPut
  <2>1. ppc = "send" /\ Len(adding'["pipeline"]) = 0 /\ adding'["pipeline"] = <<>> /\ backing = {} /\ backing' = {}
    BY <1>2, <1>4, PutIs, Senders3 DEF EmitPut
  <2>2. adding'["health"] = adding["health"] /\ adding'["main"] = adding["main"]
    BY <1>4, PutIs, Senders3 DEF EmitPut
  <2>3. hpc' = hpc /\ mpc' = mpc /\ ppc' = "run"
    BY <1>4 DEF EmitPut
  <2> QED BY <1>0, <1>2, <2>1, <2>2, <2>3
<1>5. CASE EmitRefused
  <2>1. /\ ppc = "send" /\ ppc' = "drop" /\ adding'["pipeline"] = <<>> /\ Len(adding'["pipeline"]) = 0 /\ backing' = {}
        /\ adding'["health"] = adding["health"] /\ adding'["main"] = adding["main"]
    BY <1>5, RefusedIs, Senders3
  <2>2. hpc' = hpc /\ mpc' = mpc
    BY <1>5 DEF EmitRefused
  <2> QED BY <1>0, <1>2, <2>1, <2>2
<1>6. CASE HealthPut
  <2>1. hpc = "send" /\ Len(adding'["health"]) = 0 /\ adding'["health"] = <<>> /\ backing' = backing
    BY <1>2, <1>6, PutIs, Senders3 DEF HealthPut
  <2>2. adding'["pipeline"] = adding["pipeline"] /\ adding'["main"] = adding["main"]
    BY <1>6, PutIs, Senders3 DEF HealthPut
  <2>3. hpc' = "wait" /\ mpc' = mpc /\ ppc' = ppc
    BY <1>6 DEF HealthPut
  <2> QED BY <1>0, <1>2, <2>1, <2>2, <2>3
<1>7. CASE FinalPut
  <2>1. mpc = "send" /\ Len(adding'["main"]) = 0 /\ adding'["main"] = <<>> /\ backing' = backing
    BY <1>2, <1>7, PutIs, Senders3 DEF FinalPut
  <2>2. adding'["pipeline"] = adding["pipeline"] /\ adding'["health"] = adding["health"]
    BY <1>7, PutIs, Senders3 DEF FinalPut
  <2>3. hpc' = hpc /\ mpc' = "join" /\ ppc' = ppc
    BY <1>7 DEF FinalPut
  <2> QED BY <1>0, <1>2, <2>1, <2>2, <2>3
<1>8. CASE HealthSnapshot
  <2>1. \/ /\ hpc' = "wait" /\ UNCHANGED queueVars
        \/ /\ hpc' = "send"
           /\ Reserve("health", [kind |-> "report", n |-> nreports + 1, final |-> FALSE])
    BY <1>1, <1>8, SnapshotCounts
  <2>2. ppc' = ppc /\ mpc' = mpc /\ hpc = "answered"
    BY <1>8 DEF HealthSnapshot
  <2>3. CASE hpc' = "wait" /\ UNCHANGED queueVars
    BY <1>0, <1>2, <2>2, <2>3
  <2>4. CASE hpc' = "send" /\ Reserve("health", [kind |-> "report", n |-> nreports + 1, final |-> FALSE])
    <3>1. Len(adding'["health"]) = 1 /\ backing' = backing /\ adding'["pipeline"] = adding["pipeline"] /\ adding'["main"] = adding["main"]
      BY <2>4, ReportSent, Senders3
    <3> QED BY <1>0, <1>2, <2>2, <2>4, <3>1
  <2> QED BY <2>1, <2>3, <2>4
<1>9. CASE FinalReport
  <2>1. Reserve("main", [kind |-> "report", n |-> nreports + 1, final |-> TRUE])
    BY <1>1, <1>9, FinalCounts
  <2>2. Len(adding'["main"]) = 1 /\ backing' = backing /\ adding'["pipeline"] = adding["pipeline"] /\ adding'["health"] = adding["health"]
    BY <2>1, ReportSent, Senders3
  <2>3. hpc' = hpc /\ ppc' = ppc /\ mpc = "joinPipeline" /\ mpc' = "send" /\ ppc \in {"ended", "panicked"}
    BY <1>9 DEF FinalReport, PipelineJoined, PipelineGone
  <2> QED BY <1>0, <1>2, <2>2, <2>3
<1>10. CASE UNCHANGED <<adding, backing>>
  <2>1. CASE EmitDrop \/ PipelineCounts \/ PipelineAnswers \/ PipelineEnds \/ PipelinePanics \/ SessionLoses
    BY <1>0, <1>2, <1>10, <2>1
    DEF EmitDrop, PipelineCounts, PipelineAnswers, PipelineEnds, PipelinePanics, SessionLoses
  <2>2. CASE HealthAsks \/ HealthTimesOut \/ HealthEnds
    BY <1>0, <1>2, <1>10, <2>2 DEF HealthAsks, HealthTimesOut, HealthEnds
  <2>3. CASE StopAsked \/ DeathSeen \/ JoinHealth \/ JoinWriter
    BY <1>0, <1>2, <1>10, <2>3 DEF StopAsked, DeathSeen, JoinHealth, JoinWriter
  <2>4. CASE UNCHANGED others
    BY <1>0, <1>2, <1>10, <2>4
  <2>5. CASE Core
    BY <2>4, <2>5 DEF Core, Tick, Receive, Received, ReceiveEnds, Disconnected, HandleEvent, HandleReport,
                      TickIdle, TickWrites, TickFails, Close, CloseFails, WriterPanics
  <2> QED
    BY <1>3, <1>4, <1>5, <1>6, <1>7, <1>8, <1>9, <2>1, <2>2, <2>3, <2>5 DEF Next, Pipeline, Health, Main
<1>11. UNCHANGED <<adding, backing>> \/ Emit \/ EmitPut \/ EmitRefused \/ HealthPut \/ FinalPut \/ HealthSnapshot \/ FinalReport
  <2>1. CASE EmitDrop \/ PipelineCounts \/ PipelineAnswers \/ PipelineEnds \/ PipelinePanics \/ SessionLoses
    BY <2>1 DEF EmitDrop, PipelineCounts, PipelineAnswers, PipelineEnds, PipelinePanics, SessionLoses
  <2>2. CASE HealthAsks \/ HealthTimesOut \/ HealthEnds \/ StopAsked \/ DeathSeen \/ JoinHealth \/ JoinWriter
    BY <2>2 DEF HealthAsks, HealthTimesOut, HealthEnds, StopAsked, DeathSeen, JoinHealth, JoinWriter
  <2>3. CASE Receive \/ Received \/ ReceiveEnds \/ Disconnected \/ HandleEvent \/ HandleReport \/ Tick
    BY <2>3 DEF Receive, Take, Received, Uncount, ReceiveEnds, Disconnected, HandleEvent, HandleReport,
                Tick, TickIdle, TickWrites, TickFails
  <2>4. CASE Close \/ CloseFails \/ WriterPanics
    BY <2>4 DEF Close, CloseFails, WriterPanics, DropReceiver
  <2> QED BY <2>1, <2>2, <2>3, <2>4 DEF Next, Pipeline, Health, Main, Core
<1> QED BY <1>3, <1>4, <1>5, <1>6, <1>7, <1>8, <1>9, <1>10, <1>11

\* The steps of other threads leave the writer its place.
LEMMA NotCore ==
    ASSUME Pipeline \/ SessionLoses \/ Health \/ Main
    PROVE  /\ UNCHANGED <<wpc, cur, held, backlog, log, stats, reported, failing, fails, evicted>>
           /\ taken' = taken /\ rxOpen' = rxOpen
<1> USE DEF queueVars, coreVars, logVars
<1>1. CASE Emit \/ EmitPut \/ EmitRefused
  BY <1>1 DEF Emit, EmitPut, EmitRefused, TryReserve, Reserve, Put, PutFails, Withdraw
<1>2. CASE EmitDrop \/ PipelineCounts \/ PipelineAnswers \/ PipelineEnds \/ PipelinePanics \/ SessionLoses
  BY <1>2 DEF EmitDrop, PipelineCounts, PipelineAnswers, PipelineEnds, PipelinePanics, SessionLoses
<1>3. CASE HealthAsks \/ HealthTimesOut \/ HealthEnds \/ HealthPut
  BY <1>3 DEF HealthAsks, HealthTimesOut, HealthEnds, HealthPut, Put, PutFails
<1>4. CASE HealthSnapshot
  BY <1>4 DEF HealthSnapshot, SendReport, Reserve
<1>5. CASE StopAsked \/ DeathSeen \/ JoinHealth \/ JoinWriter \/ FinalPut
  BY <1>5 DEF StopAsked, DeathSeen, JoinHealth, JoinWriter, FinalPut, Put, PutFails
<1>6. CASE FinalReport
  BY <1>6 DEF FinalReport, SendReport, Reserve
<1> QED BY <1>1, <1>2, <1>3, <1>4, <1>5, <1>6 DEF Pipeline, Health, Main

\* The writer closes once all senders are gone, for good.
LEMMA GoneStays ==
    ASSUME StoreInv, Next, SendersGone
    PROVE  SendersGone' /\ (chan = <<>> => chan' = <<>>)
<1>1. SenderControl /\ PTypes /\ QTypes /\ ppc \in {"ended", "panicked"} /\ hpc = "ended" /\ mpc \in {"join", "done"}
  BY DEF StoreInv, Types, SendersGone, PipelineGone
<1>2. adding["pipeline"] = <<>> /\ adding["health"] = <<>> /\ adding["main"] = <<>> /\ backing = {}
  BY <1>1 DEF SenderControl
<1> USE DEF queueVars, pipelineVars, healthVars, others
<1>3. ~Pipeline
  BY <1>1, <1>2
  DEF Pipeline, Emit, EmitPut, EmitRefused, Put, PutFails, Withdraw, EmitDrop, PipelineCounts, PipelineAnswers, PipelineEnds, PipelinePanics
<1>4. ~Health
  BY <1>1, <1>2 DEF Health, HealthAsks, HealthTimesOut, HealthSnapshot, HealthPut, HealthEnds, Put, PutFails
<1>5. CASE SessionLoses
  BY <1>1, <1>5 DEF SessionLoses, SendersGone, PipelineGone
<1>6. CASE Main
  BY <1>1, <1>2, <1>6
  DEF Main, StopAsked, DeathSeen, JoinHealth, FinalReport, FinalPut, JoinWriter, Put, PutFails, SendersGone, PipelineGone
<1>7. CASE Core
  <2>1. UNCHANGED others
    BY <1>7 DEF Core, Tick, Receive, Received, ReceiveEnds, Disconnected, HandleEvent, HandleReport,
                TickIdle, TickWrites, TickFails, Close, CloseFails, WriterPanics
  <2>2. SendersGone'
    BY <1>1, <2>1 DEF SendersGone, PipelineGone
  <2>3. chan = <<>> => chan' = <<>>
    BY <1>7 DEF Core, Tick, Receive, Received, ReceiveEnds, Disconnected, HandleEvent, HandleReport,
                TickIdle, TickWrites, TickFails, Close, CloseFails, WriterPanics, DropReceiver, Uncount, Take
  <2> QED BY <2>2, <2>3
<1> QED BY <1>3, <1>4, <1>5, <1>6, <1>7 DEF Next

\* A queue whose receiver is gone stays empty.
LEMMA GoneEmpty ==
    ASSUME StoreInv, Next, ~rxOpen
    PROVE  chan' = <<>>
<1>1. chan = <<>>
  BY DEF StoreInv, WriterControl
<1> USE DEF queueVars, pipelineVars, healthVars, others
<1>2. CASE Emit \/ EmitPut \/ EmitRefused
  BY <1>1, <1>2 DEF Emit, EmitPut, EmitRefused, TryReserve, Reserve, Put, PutFails, Withdraw
<1>3. CASE EmitDrop \/ PipelineCounts \/ PipelineAnswers \/ PipelineEnds \/ PipelinePanics \/ SessionLoses
  BY <1>1, <1>3 DEF EmitDrop, PipelineCounts, PipelineAnswers, PipelineEnds, PipelinePanics, SessionLoses
<1>4. CASE HealthAsks \/ HealthTimesOut \/ HealthEnds \/ HealthPut
  BY <1>1, <1>4 DEF HealthAsks, HealthTimesOut, HealthEnds, HealthPut, Put, PutFails
<1>5. CASE HealthSnapshot
  BY <1>1, <1>5 DEF HealthSnapshot, SendReport, Reserve
<1>6. CASE StopAsked \/ DeathSeen \/ JoinHealth \/ JoinWriter \/ FinalPut
  BY <1>1, <1>6 DEF StopAsked, DeathSeen, JoinHealth, JoinWriter, FinalPut, Put, PutFails
<1>7. CASE FinalReport
  BY <1>1, <1>7 DEF FinalReport, SendReport, Reserve
<1>8. CASE Core
  BY <1>1, <1>8 DEF Core, Tick, Receive, Received, ReceiveEnds, Disconnected, HandleEvent, HandleReport,
                TickIdle, TickWrites, TickFails, Close, CloseFails, WriterPanics, DropReceiver, Uncount, Take
<1> QED BY <1>2, <1>3, <1>4, <1>5, <1>6, <1>7, <1>8 DEF Next, Pipeline, Health, Main

\* The writer's message and its receiver go with its place.
LEMMA WriterStep ==
    ASSUME StoreInv, Next
    PROVE  WriterControl'
<1>1. /\ WriterControl /\ PTypes
      /\ taken <=> wpc = "taken"
      /\ wpc \in {"taken", "handle"} => Len(cur) = 1
      /\ wpc \notin {"taken", "handle", "dead"} => cur = <<>>
      /\ rxOpen <=> wpc \notin {"closed", "failed", "dead"}
      /\ wpc \in {"close", "closed", "failed"} => SendersGone /\ chan = <<>>
  BY DEF StoreInv, Types, WriterControl
<1>2. ~rxOpen => chan' = <<>>
  BY GoneEmpty
<1>3. wpc \in {"close", "closed", "failed"} => SendersGone' /\ chan' = <<>>
  BY <1>1, GoneStays
<1> USE DEF queueVars, coreVars, logVars
<1>4. CASE Pipeline \/ SessionLoses \/ Health \/ Main
  <2>1. wpc' = wpc /\ cur' = cur /\ taken' = taken /\ rxOpen' = rxOpen
    BY <1>4, NotCore
  <2> QED BY <1>1, <1>2, <1>3, <2>1 DEF WriterControl
<1>5. CASE Receive
  <2>1. Len(<<Head(chan)>>) = 1
    OBVIOUS
  <2>2. cur' = <<Head(chan)>> /\ wpc' = "taken" /\ taken' = TRUE /\ rxOpen' = rxOpen /\ rxOpen
    BY <1>5 DEF Receive, Take
  <2> QED BY <1>1, <1>2, <2>1, <2>2 DEF WriterControl
<1>6. CASE Received
  <2>1. cur' = cur /\ wpc = "taken" /\ wpc' = "handle" /\ taken' = FALSE /\ rxOpen' = rxOpen
    BY <1>6 DEF Received, Uncount
  <2> QED BY <1>1, <1>2, <2>1 DEF WriterControl
<1>7. CASE ReceiveEnds
  <2>1. cur' = cur /\ wpc \in {"drain", "recv"} /\ wpc' = "tick" /\ taken' = taken /\ rxOpen' = rxOpen
    BY <1>7 DEF ReceiveEnds
  <2> QED BY <1>1, <1>2, <2>1 DEF WriterControl
<1>8. CASE Disconnected
  <2>1. cur' = cur /\ wpc = "recv" /\ wpc' = "close" /\ taken' = taken /\ rxOpen' = rxOpen /\ SendersGone /\ chan = <<>>
    BY <1>8 DEF Disconnected
  <2>2. SendersGone' /\ chan' = <<>>
    BY <2>1, GoneStays
  <2> QED BY <1>1, <2>1, <2>2 DEF WriterControl
<1>9. CASE HandleEvent \/ HandleReport
  <2>1. cur' = <<>> /\ wpc = "handle" /\ wpc' = "drain" /\ taken' = taken /\ rxOpen' = rxOpen
    BY <1>9 DEF HandleEvent, HandleReport
  <2> QED BY <1>1, <1>2, <2>1 DEF WriterControl
<1>10. CASE Tick
  <2>1. cur' = cur /\ wpc = "tick" /\ wpc' = "recv" /\ taken' = taken /\ rxOpen' = rxOpen
    BY <1>10 DEF Tick, TickIdle, TickWrites, TickFails
  <2> QED BY <1>1, <1>2, <2>1 DEF WriterControl
<1>11. CASE Close \/ CloseFails
  <2>1. cur' = cur /\ wpc = "close" /\ wpc' \in {"closed", "failed"} /\ taken' = taken /\ rxOpen' = FALSE
    BY <1>11 DEF Close, CloseFails, DropReceiver
  <2> QED BY <1>1, <1>3, <2>1 DEF WriterControl
<1>12. CASE WriterPanics
  <2>1. cur' = cur /\ wpc \in {"handle", "tick"} /\ wpc' = "dead" /\ taken' = taken /\ rxOpen' = FALSE /\ chan' = <<>>
    BY <1>12 DEF WriterPanics, DropReceiver
  <2> QED BY <1>1, <2>1 DEF WriterControl
<1> QED BY <1>4, <1>5, <1>6, <1>7, <1>8, <1>9, <1>10, <1>11, <1>12 DEF Next, Core

\* What changes the hands, and what leaves them.
LEMMA HandsOrNot ==
    ASSUME Next
    PROVE  \/ Emit \/ EmitPut \/ EmitRefused \/ HealthPut \/ FinalPut \/ HealthSnapshot \/ FinalReport
           \/ /\ UNCHANGED <<adding, backing, emitted, nreports>>
              /\ \/ UNCHANGED <<chan, len, taken, rxOpen>>
                 \/ Receive \/ Received \/ Close \/ CloseFails \/ WriterPanics
<1> USE DEF queueVars, pipelineVars, healthVars, others
<1>1. CASE EmitDrop \/ PipelineCounts \/ PipelineAnswers \/ PipelineEnds \/ PipelinePanics \/ SessionLoses
  BY <1>1 DEF EmitDrop, PipelineCounts, PipelineAnswers, PipelineEnds, PipelinePanics, SessionLoses
<1>2. CASE HealthAsks \/ HealthTimesOut \/ HealthEnds \/ StopAsked \/ DeathSeen \/ JoinHealth \/ JoinWriter
  BY <1>2 DEF HealthAsks, HealthTimesOut, HealthEnds, StopAsked, DeathSeen, JoinHealth, JoinWriter
<1>3. CASE Receive \/ Received \/ ReceiveEnds \/ Disconnected \/ HandleEvent \/ HandleReport \/ Tick
  BY <1>3 DEF Receive, Take, Received, Uncount, ReceiveEnds, Disconnected, HandleEvent, HandleReport,
              Tick, TickIdle, TickWrites, TickFails
<1>4. CASE Close \/ CloseFails \/ WriterPanics
  BY <1>4 DEF Close, CloseFails, WriterPanics, DropReceiver
<1> QED BY <1>1, <1>2, <1>3, <1>4 DEF Next, Pipeline, Health, Main, Core

\* The report counted by the health thread or by main.
LEMMA SnapshotSends ==
    ASSUME StoreInv, HealthSnapshot
    PROVE  \/ UNCHANGED <<chan, len, adding, backing, taken, rxOpen, emitted, nreports>> /\ hpc' = "wait"
           \/ /\ nreports' = nreports + 1 /\ hpc' = "send"
              /\ adding["health"] = <<>> /\ adding["main"] = <<>>
              /\ adding'["health"] = <<[kind |-> "report", n |-> nreports + 1, final |-> FALSE]>>
              /\ Len(adding'["health"]) = 1
              /\ adding'["pipeline"] = adding["pipeline"] /\ adding'["main"] = adding["main"]
              /\ len' = len + 1 /\ emitted' = emitted
              /\ chan' = chan /\ backing' = backing /\ taken' = taken /\ rxOpen' = rxOpen
<1>1. Types /\ CounterInv /\ SenderControl
  BY DEF StoreInv
<1>2. emitted' = emitted /\ hpc = "answered"
  BY DEF HealthSnapshot, pipelineVars
<1>3. adding["health"] = <<>> /\ adding["main"] = <<>>
  BY <1>1, <1>2 DEF SenderControl
<1>4. \/ /\ hpc' = "wait" /\ nreports' = nreports /\ UNCHANGED queueVars
      \/ /\ hpc' = "send" /\ nreports' = nreports + 1
         /\ Reserve("health", [kind |-> "report", n |-> nreports + 1, final |-> FALSE])
  BY <1>1, SnapshotCounts
<1>5. CASE hpc' = "wait" /\ nreports' = nreports /\ UNCHANGED queueVars
  BY <1>2, <1>5 DEF queueVars
<1>6. CASE hpc' = "send" /\ nreports' = nreports + 1 /\ Reserve("health", [kind |-> "report", n |-> nreports + 1, final |-> FALSE])
  <2>1. /\ adding'["health"] = <<[kind |-> "report", n |-> nreports + 1, final |-> FALSE]>>
        /\ Len(adding'["health"]) = 1
        /\ adding'["pipeline"] = adding["pipeline"] /\ adding'["main"] = adding["main"]
        /\ len' = len + 1 /\ chan' = chan /\ backing' = backing /\ taken' = taken /\ rxOpen' = rxOpen
    BY <1>6, ReportSent, Senders3
  <2> QED BY <1>2, <1>3, <1>6, <2>1
<1> QED BY <1>4, <1>5, <1>6

\* The final report, counted by main.
LEMMA FinalSends ==
    ASSUME StoreInv, FinalReport
    PROVE  /\ nreports' = nreports + 1 /\ mpc' = "send"
           /\ adding["health"] = <<>> /\ adding["main"] = <<>>
           /\ adding'["main"] = <<[kind |-> "report", n |-> nreports + 1, final |-> TRUE]>>
           /\ Len(adding'["main"]) = 1
           /\ adding'["pipeline"] = adding["pipeline"] /\ adding'["health"] = adding["health"]
           /\ len' = len + 1 /\ emitted' = emitted
           /\ chan' = chan /\ backing' = backing /\ taken' = taken /\ rxOpen' = rxOpen
<1>1. Types /\ CounterInv /\ SenderControl
  BY DEF StoreInv
<1>2. emitted' = emitted /\ mpc = "joinPipeline" /\ mpc' = "send"
  BY DEF FinalReport, pipelineVars
<1>3. adding["health"] = <<>> /\ adding["main"] = <<>>
  BY <1>1, <1>2 DEF SenderControl
<1>4. nreports' = nreports + 1 /\ Reserve("main", [kind |-> "report", n |-> nreports + 1, final |-> TRUE])
  BY <1>1, FinalCounts
<1>5. /\ adding'["main"] = <<[kind |-> "report", n |-> nreports + 1, final |-> TRUE]>>
      /\ Len(adding'["main"]) = 1
      /\ adding'["pipeline"] = adding["pipeline"] /\ adding'["health"] = adding["health"]
      /\ len' = len + 1 /\ chan' = chan /\ backing' = backing /\ taken' = taken /\ rxOpen' = rxOpen
  BY <1>4, ReportSent, Senders3
<1> QED BY <1>2, <1>3, <1>4, <1>5

\* The puts of each thread.
LEMMA EachPut ==
    ASSUME StoreInv, EmitPut \/ HealthPut \/ FinalPut
    PROVE  \E s \in Senders :
             /\ Put(s) \/ PutFails(s)
             /\ adding'[s] = <<>> /\ Len(adding'[s]) = 0 /\ Len(adding[s]) = 1 /\ adding[s] # <<>>
             /\ \A o \in Senders \ {s} : adding'[o] = adding[o]
             /\ backing' = backing /\ taken' = taken /\ rxOpen' = rxOpen
             /\ \/ rxOpen /\ chan' = chan \o adding[s] /\ len' = len
                \/ ~rxOpen /\ chan' = chan /\ len' = len - 1
             /\ emitted' = emitted /\ nreports' = nreports
             /\ s = "pipeline" => rxOpen
<1>1. PICK s \in Senders : (Put(s) \/ PutFails(s)) /\ (s = "pipeline" => Put(s))
  BY Senders3 DEF EmitPut, HealthPut, FinalPut
<1>2. emitted' = emitted /\ nreports' = nreports
  BY DEF EmitPut, HealthPut, FinalPut, pipelineVars, healthVars
<1>3. s = "pipeline" => rxOpen
  BY <1>1 DEF Put
<1> QED BY <1>1, <1>2, <1>3, PutIs

\* What senders hold stays the newest of its kind.
LEMMA AddingStep ==
    ASSUME StoreInv, Next
    PROVE  AddingInv'
<1>1. AddingInv
  BY DEF StoreInv
<1>2. CASE Emit
  <2>1. /\ emitted' = emitted + 1
        /\ adding'["health"] = adding["health"] /\ adding'["main"] = adding["main"]
        /\ adding'["pipeline"] = <<Event(emitted + 1)>> \/ adding'["pipeline"] = <<>>
    BY <1>2, EmitIs, Senders3
  <2>2. nreports' = nreports
    BY <1>2 DEF Emit, healthVars
  <2> QED BY <1>1, <2>1, <2>2 DEF AddingInv, Event
<1>3. CASE EmitPut \/ HealthPut \/ FinalPut
  <2>1. PICK s \in Senders : /\ adding'[s] = <<>> /\ \A o \in Senders \ {s} : adding'[o] = adding[o]
                             /\ emitted' = emitted /\ nreports' = nreports
    BY <1>3, EachPut
  <2> QED BY <1>1, <2>1, Senders3 DEF AddingInv, Event
<1>4. CASE EmitRefused
  <2>1. /\ adding'["pipeline"] = <<>> /\ adding'["health"] = adding["health"] /\ adding'["main"] = adding["main"]
    BY <1>4, RefusedIs, Senders3
  <2>2. nreports' = nreports
    BY <1>4 DEF EmitRefused, healthVars
  <2> QED BY <1>1, <2>1, <2>2 DEF AddingInv
<1>5. CASE HealthSnapshot
  <2>1. CASE UNCHANGED <<adding, emitted, nreports>>
    BY <1>1, <2>1 DEF AddingInv, Event
  <2>2. CASE ~UNCHANGED <<adding, emitted, nreports>>
    BY <1>1, <1>5, <2>2, SnapshotSends DEF AddingInv, Event
  <2> QED BY <2>1, <2>2
<1>6. CASE FinalReport
  BY <1>1, <1>6, FinalSends DEF AddingInv, Event
<1>7. CASE UNCHANGED <<adding, backing, emitted, nreports>>
  BY <1>1, <1>7 DEF AddingInv, Event
<1> QED BY <1>2, <1>3, <1>4, <1>5, <1>6, <1>7, HandsOrNot

\* What an event, or a report, in the hands counts.
LEMMA InHands ==
    ASSUME StoreInv, NEW s \in Senders, adding[s] # <<>>
    PROVE  /\ adding[s] \in Seq(Msgs) /\ Len(adding[s]) = 1
           /\ EventsIn(adding[s]) = IF s = "pipeline" THEN 1 ELSE 0
           /\ \E m \in Sent : /\ adding[s] = <<m>> /\ (IsEvent(m) <=> s = "pipeline")
                              /\ m.n = (IF s = "pipeline" THEN emitted ELSE nreports)
                              /\ s # "pipeline" => (m.final <=> s = "main")
<1>1. QTypes /\ SenderControl /\ AddingInv
  BY DEF StoreInv, Types
<1>2. adding[s] \in Seq(Sent) /\ Len(adding[s]) = 1 /\ adding[s] \in Seq(Msgs)
  BY <1>1, HandsIs, SeqTypes
<1>3. PICK m \in Sent : adding[s] = <<m>>
  BY <1>2, OneOf
<1>4. CASE s = "pipeline"
  <2>1. m = [kind |-> "event", n |-> emitted]
    BY <1>1, <1>3, <1>4 DEF AddingInv, Event
  <2>2. IsEvent(m) /\ m.n = emitted
    BY <2>1 DEF IsEvent
  <2>3. EventsIn(<<m>>) = 1
    BY <2>2, One DEF Msgs
  <2> QED BY <1>2, <1>3, <1>4, <2>2, <2>3
<1>5. CASE s # "pipeline"
  <2>1. \/ s = "health" /\ m = [kind |-> "report", n |-> nreports, final |-> FALSE]
        \/ s = "main" /\ m = [kind |-> "report", n |-> nreports, final |-> TRUE]
    <3>1. CASE s = "health"
      BY <1>1, <1>3, <3>1 DEF AddingInv
    <3>2. CASE s = "main"
      <4>1. adding["main"] = <<[kind |-> "report", n |-> nreports, final |-> TRUE]>>
        BY <1>1, <3>2 DEF AddingInv
      <4>2. <<m>>[1] = m
        OBVIOUS
      <4>3. m = [kind |-> "report", n |-> nreports, final |-> TRUE]
        BY <1>3, <3>2, <4>1, <4>2
      <4> QED BY <3>2, <4>3
    <3>3. s = "health" \/ s = "main"
      BY <1>5, Senders3
    <3> QED BY <3>1, <3>2, <3>3
  <2>2. ~IsEvent(m) /\ m.n = nreports /\ (m.final <=> s = "main")
    BY <2>1 DEF IsEvent
  <2>3. EventsIn(<<m>>) = 0
    BY <2>2, One DEF Msgs
  <2> QED BY <1>2, <1>3, <1>5, <2>2, <2>3
<1> QED BY <1>4, <1>5

\* The counter stays the messages in the channel and those in between, and the
\* channel within its cap.
LEMMA QueueStep ==
    ASSUME StoreInv, Next
    PROVE  QueueInv'
<1>1. QTypes /\ QueueInv /\ SenderControl /\ WriterControl /\ Types /\ nreports \in Nat /\ chan \in Seq(Sent) /\ chan \in Seq(Msgs)
  BY SeqTypes DEF StoreInv, Types, QTypes, NTypes
<1>2. /\ Len(adding["pipeline"]) \in {0, 1} /\ Len(adding["health"]) \in {0, 1} /\ Len(adding["main"]) \in {0, 1}
      /\ EventsIn(chan) \in Nat /\ EventsIn(chan) <= Len(chan) /\ Len(chan) \in Nat
      /\ len \in Int
  <2>1. Len(adding["pipeline"]) \in {0, 1} /\ Len(adding["health"]) \in {0, 1} /\ Len(adding["main"]) \in {0, 1}
    BY <1>1, HandsIs, Senders3
  <2>2. EventsIn(chan) \in Nat /\ EventsIn(chan) <= Len(chan) /\ Len(chan) \in Nat
    BY <1>1, EventsNat
  <2> QED BY <1>1, <2>1, <2>2 DEF QTypes
<1>3. PICK c \in Nat, e \in Nat, p \in {0, 1}, h \in {0, 1}, m \in {0, 1}, b \in {0, 1}, t \in {0, 1}, l \in Int, n \in Nat :
        /\ c = Len(chan) /\ e = EventsIn(chan) /\ p = Len(adding["pipeline"]) /\ h = Len(adding["health"])
        /\ m = Len(adding["main"]) /\ b = (IF backing = {} THEN 0 ELSE 1) /\ t = (IF taken THEN 1 ELSE 0)
        /\ l = len /\ n = nreports
  BY <1>1, <1>2
<1>4. PICK k \in Nat :
        /\ k = l - (p + h + m) - b - t /\ k <= Cap + n /\ e + p <= Cap /\ c - e + h + m <= n
        /\ Cap \in Nat /\ Cap > 0 /\ e <= c /\ c \in Nat /\ e \in Nat /\ l \in Int /\ n \in Nat
        /\ p \in Nat /\ h \in Nat /\ m \in Nat /\ b \in Nat /\ t \in Nat
        /\ p <= 1 /\ h <= 1 /\ m <= 1 /\ b <= 1 /\ t <= 1
  <2>1. /\ l - (p + h + m) - b - t \in 0..(Cap + n) /\ e + p <= Cap /\ c - e + h + m <= n
    BY <1>1, <1>3 DEF QueueInv, Stuck, Hands
  <2>2. Cap \in Nat /\ Cap > 0
    BY QueueAssumption
  <2>3. e <= c
    BY <1>2, <1>3
  <2>4. \A x \in {0, 1} : x \in Nat /\ x <= 1
    OBVIOUS
  <2>5. l - (p + h + m) - b - t \in Nat /\ l - (p + h + m) - b - t <= Cap + n
    BY <2>1, <2>2
  <2> QED BY <1>3, <2>1, <2>2, <2>3, <2>4, <2>5
<1>5. (rxOpen => k = c) /\ (~rxOpen => c = 0 /\ e = 0)
  <2>1. rxOpen => Stuck = Len(chan)
    BY <1>1 DEF QueueInv
  <2>2. k = Stuck
    BY <1>3, <1>4 DEF Stuck, Hands
  <2>3. ~rxOpen => c = 0 /\ e = 0
    BY <1>1, <1>3, None DEF WriterControl
  <2> QED BY <1>3, <2>1, <2>2, <2>3
<1>6. ASSUME NEW k2 \in Nat,
             k2 = len' - (Len(adding'["pipeline"]) + Len(adding'["health"]) + Len(adding'["main"]))
                  - (IF backing' = {} THEN 0 ELSE 1) - (IF taken' THEN 1 ELSE 0),
             rxOpen' => k2 = Len(chan'), k2 <= Cap + nreports', nreports' \in Nat,
             EventsIn(chan') + Len(adding'["pipeline"]) <= Cap,
             Len(chan') - EventsIn(chan') + Len(adding'["health"]) + Len(adding'["main"]) <= nreports'
      PROVE  QueueInv'
  <2>1. (EventsIn(chan))' = EventsIn(chan')
    BY DEF EventsIn, IsEvent
  <2>2. Stuck' = k2
    BY <1>6 DEF Stuck, Hands
  <2>3. k2 \in 0..(Cap + nreports')
    <3>1. \A x, y, z \in Nat : x <= y + z => x \in 0..(y + z)
      OBVIOUS
    <3> QED BY <1>4, <1>6, <3>1
  <2> QED BY <1>6, <2>1, <2>2, <2>3 DEF QueueInv
<1>7. CASE Emit
  <2>1. /\ adding["pipeline"] = <<>> /\ backing = {}
        /\ adding'["health"] = adding["health"] /\ adding'["main"] = adding["main"]
        /\ len' = len + 1 /\ chan' = chan /\ taken' = taken /\ rxOpen' = rxOpen
        /\ \/ len < Cap /\ Len(adding'["pipeline"]) = 1 /\ backing' = {}
           \/ backing' = {"pipeline"} /\ Len(adding'["pipeline"]) = 0
    BY <1>7, EmitIs, Senders3
  <2>2. nreports' = nreports /\ Len(<<>>) = 0
    BY <1>7 DEF Emit, healthVars
  <2>3. p = 0 /\ b = 0
    BY <1>3, <2>1, <2>2
  <2>4. CASE len < Cap /\ Len(adding'["pipeline"]) = 1 /\ backing' = {}
    <3>1. e + 1 <= Cap
      <4>1. CASE rxOpen
        <5>1. l < Cap /\ k = c
          BY <1>3, <1>5, <2>4, <4>1
        <5> QED BY <1>4, <5>1
      <4>2. CASE ~rxOpen
        BY <1>4, <1>5, <4>2
      <4> QED BY <4>1, <4>2
    <3>2. /\ Len(chan') = c /\ EventsIn(chan') = e /\ Len(adding'["pipeline"]) = 1 /\ Len(adding'["health"]) = h
         /\ Len(adding'["main"]) = m /\ (IF backing' = {} THEN 0 ELSE 1) = 0 /\ (IF taken' THEN 1 ELSE 0) = t
         /\ len' = (l + 1) /\ nreports' = n
      BY <1>3, <2>1, <2>2, <2>4
    <3>3. /\ k = (l + 1) - (1 + h + m) - 0 - t /\ (k) \in Nat /\ k <= Cap + (n)
         /\ e + 1 <= Cap /\ (c) - (e) + h + m <= n /\ n \in Nat
      BY <1>4, <2>3, <3>1
    <3>4. rxOpen' => k = c
      BY <1>5, <2>1
    <3> QED BY <1>6, <3>2, <3>3, <3>4
  <2>5. CASE backing' = {"pipeline"} /\ Len(adding'["pipeline"]) = 0
    <3>1. /\ Len(chan') = c /\ EventsIn(chan') = e /\ Len(adding'["pipeline"]) = 0 /\ Len(adding'["health"]) = h
         /\ Len(adding'["main"]) = m /\ (IF backing' = {} THEN 0 ELSE 1) = 1 /\ (IF taken' THEN 1 ELSE 0) = t
         /\ len' = (l + 1) /\ nreports' = n
      BY <1>3, <2>1, <2>2, <2>5
    <3>2. /\ k = (l + 1) - (0 + h + m) - 1 - t /\ (k) \in Nat /\ k <= Cap + (n)
         /\ e + 0 <= Cap /\ (c) - (e) + h + m <= n /\ n \in Nat
      BY <1>4, <2>3
    <3>3. rxOpen' => k = c
      BY <1>5, <2>1
    <3> QED BY <1>6, <3>1, <3>2, <3>3
  <2> QED BY <2>1, <2>4, <2>5
<1>8. CASE EmitPut \/ HealthPut \/ FinalPut
  <2>1. PICK s \in Senders :
             /\ Len(adding'[s]) = 0 /\ Len(adding[s]) = 1 /\ adding[s] # <<>>
             /\ \A o \in Senders \ {s} : adding'[o] = adding[o]
             /\ backing' = backing /\ taken' = taken /\ rxOpen' = rxOpen
             /\ \/ rxOpen /\ chan' = chan \o adding[s] /\ len' = len
                \/ ~rxOpen /\ chan' = chan /\ len' = len - 1
             /\ nreports' = nreports
             /\ s = "pipeline" => rxOpen
    BY <1>8, EachPut
  <2>2. adding[s] \in Seq(Msgs) /\ EventsIn(adding[s]) = IF s = "pipeline" THEN 1 ELSE 0
    BY <2>1, InHands
  <2>3. PICK p2 \in Nat, h2 \in Nat, m2 \in Nat, d \in Nat :
          /\ p2 = Len(adding'["pipeline"]) /\ h2 = Len(adding'["health"]) /\ m2 = Len(adding'["main"])
          /\ d = EventsIn(adding[s])
          /\ \/ p = 1 /\ p2 = 0 /\ d = 1 /\ h2 = h /\ m2 = m
             \/ p2 = p /\ d = 0 /\ h = 1 /\ h2 = 0 /\ m2 = m
             \/ p2 = p /\ d = 0 /\ h2 = h /\ m = 1 /\ m2 = 0
    <3>0. 0 \in Nat /\ 1 \in Nat /\ p \in Nat /\ h \in Nat /\ m \in Nat
      BY <1>4
    <3>1. CASE s = "pipeline"
      <4>1. /\ 0 = Len(adding'["pipeline"]) /\ h = Len(adding'["health"]) /\ m = Len(adding'["main"])
            /\ p = 1 /\ 1 = EventsIn(adding[s])
        BY <1>3, <2>1, <2>2, <3>1, Senders3
      <4> QED BY <3>0, <4>1
    <3>2. CASE s = "health"
      <4>1. /\ p = Len(adding'["pipeline"]) /\ 0 = Len(adding'["health"]) /\ m = Len(adding'["main"])
            /\ h = 1 /\ 0 = EventsIn(adding[s])
        BY <1>3, <2>1, <2>2, <3>2, Senders3
      <4> QED BY <3>0, <4>1
    <3>3. CASE s = "main"
      <4>1. /\ p = Len(adding'["pipeline"]) /\ h = Len(adding'["health"]) /\ 0 = Len(adding'["main"])
            /\ m = 1 /\ 0 = EventsIn(adding[s])
        BY <1>3, <2>1, <2>2, <3>3, Senders3
      <4> QED BY <3>0, <4>1
    <3> QED BY <3>1, <3>2, <3>3, Senders3
  <2>4. CASE rxOpen /\ chan' = chan \o adding[s] /\ len' = len
    <3>1. Len(chan') = c + 1 /\ EventsIn(chan') = e + d
      BY <1>1, <1>3, <2>1, <2>2, <2>3, <2>4, Cat
    <3>0. k = c
      BY <1>5, <2>4
    <3>2. /\ Len(chan') = c + 1 /\ EventsIn(chan') = (e + d) /\ Len(adding'["pipeline"]) = p2 /\ Len(adding'["health"]) = h2
         /\ Len(adding'["main"]) = m2 /\ (IF backing' = {} THEN 0 ELSE 1) = b /\ (IF taken' THEN 1 ELSE 0) = t
         /\ len' = l /\ nreports' = n
      BY <1>3, <2>1, <2>3, <2>4, <3>1
    <3>3. /\ k + 1 = l - (p2 + h2 + m2) - b - t /\ (k + 1) \in Nat /\ k + 1 <= Cap + (n)
         /\ (e + d) + p2 <= Cap /\ (c + 1) - ((e + d)) + h2 + m2 <= n /\ n \in Nat
      <4>1. CASE p = 1 /\ p2 = 0 /\ d = 1 /\ h2 = h /\ m2 = m
        BY <1>4, <2>3, <3>0, <4>1
      <4>2. CASE p2 = p /\ d = 0 /\ h = 1 /\ h2 = 0 /\ m2 = m
        BY <1>4, <2>3, <3>0, <4>2
      <4>3. CASE p2 = p /\ d = 0 /\ h2 = h /\ m = 1 /\ m2 = 0
        BY <1>4, <2>3, <3>0, <4>3
      <4> QED BY <2>3, <3>0, <4>1, <4>2, <4>3
    <3>4. rxOpen' => k + 1 = c + 1
      BY <1>5, <2>4
    <3> QED BY <1>6, <3>2, <3>3, <3>4
  <2>5. CASE ~rxOpen /\ chan' = chan /\ len' = len - 1
    <3>1. /\ Len(chan') = c /\ EventsIn(chan') = e /\ Len(adding'["pipeline"]) = p2 /\ Len(adding'["health"]) = h2
         /\ Len(adding'["main"]) = m2 /\ (IF backing' = {} THEN 0 ELSE 1) = b /\ (IF taken' THEN 1 ELSE 0) = t
         /\ len' = (l - 1) /\ nreports' = n
      BY <1>3, <2>1, <2>3, <2>5
    <3>2. /\ k = (l - 1) - (p2 + h2 + m2) - b - t /\ (k) \in Nat /\ k <= Cap + (n)
         /\ e + p2 <= Cap /\ (c) - (e) + h2 + m2 <= n /\ n \in Nat
      <4>1. CASE p = 1 /\ p2 = 0 /\ d = 1 /\ h2 = h /\ m2 = m
        BY <1>4, <2>3, <4>1
      <4>2. CASE p2 = p /\ d = 0 /\ h = 1 /\ h2 = 0 /\ m2 = m
        BY <1>4, <2>3, <4>2
      <4>3. CASE p2 = p /\ d = 0 /\ h2 = h /\ m = 1 /\ m2 = 0
        BY <1>4, <2>3, <4>3
      <4> QED BY <2>3, <4>1, <4>2, <4>3
    <3>3. rxOpen' => k = c
      BY <1>5, <2>1, <2>5
    <3> QED BY <1>6, <3>1, <3>2, <3>3
  <2> QED BY <2>1, <2>4, <2>5
<1>9. CASE EmitRefused
  <2>1. /\ Len(adding'["pipeline"]) = 0 /\ backing' = {}
        /\ adding'["health"] = adding["health"] /\ adding'["main"] = adding["main"]
        /\ len' = len - 1 /\ chan' = chan /\ taken' = taken /\ rxOpen' = rxOpen
        /\ \/ Len(adding["pipeline"]) = 0 /\ backing # {}
           \/ Len(adding["pipeline"]) = 1 /\ backing = {}
    BY <1>9, RefusedIs, Senders3
  <2>2. nreports' = nreports
    BY <1>9 DEF EmitRefused, healthVars
  <2>3. (p = 0 /\ b = 1) \/ (p = 1 /\ b = 0)
    BY <1>3, <2>1
  <2>4. /\ Len(chan') = c /\ EventsIn(chan') = e /\ Len(adding'["pipeline"]) = 0 /\ Len(adding'["health"]) = h
       /\ Len(adding'["main"]) = m /\ (IF backing' = {} THEN 0 ELSE 1) = 0 /\ (IF taken' THEN 1 ELSE 0) = t
       /\ len' = (l - 1) /\ nreports' = n
    BY <1>3, <2>1, <2>2
  <2>5. /\ k = (l - 1) - (0 + h + m) - 0 - t /\ (k) \in Nat /\ k <= Cap + (n)
       /\ e + 0 <= Cap /\ (c) - (e) + h + m <= n /\ n \in Nat
    BY <1>4, <2>3
  <2>6. rxOpen' => k = c
    BY <1>5, <2>1
  <2> QED BY <1>6, <2>4, <2>5, <2>6
<1>10. CASE UNCHANGED <<chan, len, adding, backing, taken, rxOpen, nreports>>
  <2>1. /\ Len(chan') = c /\ EventsIn(chan') = e /\ Len(adding'["pipeline"]) = p /\ Len(adding'["health"]) = h
       /\ Len(adding'["main"]) = m /\ (IF backing' = {} THEN 0 ELSE 1) = b /\ (IF taken' THEN 1 ELSE 0) = t
       /\ len' = l /\ nreports' = n
    BY <1>3, <1>10
  <2>2. /\ k = l - (p + h + m) - b - t /\ (k) \in Nat /\ k <= Cap + (n)
       /\ e + p <= Cap /\ (c) - (e) + h + m <= n /\ n \in Nat
    BY <1>4
  <2>3. rxOpen' => k = c
    BY <1>5, <1>10
  <2> QED BY <1>6, <2>1, <2>2, <2>3
<1>11. CASE HealthSnapshot /\ nreports' # nreports
  <2>1. /\ nreports' = nreports + 1 /\ Len(adding'["health"]) = 1 /\ adding["health"] = <<>>
        /\ adding'["pipeline"] = adding["pipeline"] /\ adding'["main"] = adding["main"]
        /\ len' = len + 1 /\ chan' = chan /\ backing' = backing /\ taken' = taken /\ rxOpen' = rxOpen
    BY <1>11, SnapshotSends
  <2>2. h = 0
    BY <1>3, <2>1, None
  <2>3. /\ Len(chan') = c /\ EventsIn(chan') = e /\ Len(adding'["pipeline"]) = p /\ Len(adding'["health"]) = 1
       /\ Len(adding'["main"]) = m /\ (IF backing' = {} THEN 0 ELSE 1) = b /\ (IF taken' THEN 1 ELSE 0) = t
       /\ len' = (l + 1) /\ nreports' = n + 1
    BY <1>3, <2>1
  <2>4. /\ k = (l + 1) - (p + 1 + m) - b - t /\ (k) \in Nat /\ k <= Cap + (n + 1)
       /\ e + p <= Cap /\ (c) - (e) + 1 + m <= n + 1 /\ n + 1 \in Nat
    BY <1>4, <2>2
  <2>5. rxOpen' => k = c
    BY <1>5, <2>1
  <2> QED BY <1>6, <2>3, <2>4, <2>5
<1>12. CASE FinalReport
  <2>1. /\ nreports' = nreports + 1 /\ Len(adding'["main"]) = 1 /\ adding["main"] = <<>>
        /\ adding'["pipeline"] = adding["pipeline"] /\ adding'["health"] = adding["health"]
        /\ len' = len + 1 /\ chan' = chan /\ backing' = backing /\ taken' = taken /\ rxOpen' = rxOpen
    BY <1>12, FinalSends
  <2>2. m = 0
    BY <1>3, <2>1, None
  <2>3. /\ Len(chan') = c /\ EventsIn(chan') = e /\ Len(adding'["pipeline"]) = p /\ Len(adding'["health"]) = h
       /\ Len(adding'["main"]) = 1 /\ (IF backing' = {} THEN 0 ELSE 1) = b /\ (IF taken' THEN 1 ELSE 0) = t
       /\ len' = (l + 1) /\ nreports' = n + 1
    BY <1>3, <2>1
  <2>4. /\ k = (l + 1) - (p + h + 1) - b - t /\ (k) \in Nat /\ k <= Cap + (n + 1)
       /\ e + p <= Cap /\ (c) - (e) + h + 1 <= n + 1 /\ n + 1 \in Nat
    BY <1>4, <2>2
  <2>5. rxOpen' => k = c
    BY <1>5, <2>1
  <2> QED BY <1>6, <2>3, <2>4, <2>5
<1>13. ASSUME UNCHANGED <<adding, backing, emitted, nreports>>, Receive
       PROVE  QueueInv'
  <2>1. rxOpen /\ chan # <<>> /\ chan' = Tail(chan) /\ taken' = TRUE /\ len' = len /\ rxOpen' = rxOpen /\ wpc # "taken"
    BY <1>13 DEF Receive, Take
  <2>2. PICK x \in Sent, y \in Seq(Sent) : y = Tail(chan) /\ chan = <<x>> \o y
    <3>1. Head(chan) \in Sent /\ Tail(chan) \in Seq(Sent) /\ chan = <<Head(chan)>> \o Tail(chan)
      BY <1>1, <2>1, HeadTailProperties
    <3> QED BY <3>1
  <2>3. y \in Seq(Msgs) /\ x \in Msgs
    BY SeqTypes DEF Msgs
  <2>4. <<x>> \in Seq(Msgs) /\ Len(<<x>>) = 1 /\ EventsIn(<<x>>) \in {0, 1}
    BY <2>3, One
  <2>5. /\ Len(chan) = Len(<<x>>) + Len(y) /\ EventsIn(chan) = EventsIn(<<x>>) + EventsIn(y)
        /\ Len(y) \in Nat /\ EventsIn(y) \in Nat
    <3>1. PICK u \in Seq(Msgs) : u = <<x>>
      BY <2>4
    <3>2. Len(u \o y) = Len(u) + Len(y) /\ EventsIn(u \o y) = EventsIn(u) + EventsIn(y) /\ Len(y) \in Nat /\ EventsIn(y) \in Nat
      BY <2>3, Cat
    <3> QED BY <2>2, <3>1, <3>2
  <2>6. PICK c2 \in Nat, e2 \in Nat, d \in {0, 1} :
          /\ c2 = Len(chan') /\ e2 = EventsIn(chan') /\ c = 1 + c2 /\ e = d + e2
          /\ c2 \in Nat /\ e2 \in Nat /\ (d = 0 \/ d = 1)
    BY <1>3, <2>1, <2>2, <2>4, <2>5
  <2>7. t = 0
    BY <1>1, <1>3, <2>1 DEF WriterControl
  <2>8. k = c /\ c = 1 + c2 /\ e = d + e2 /\ c2 \in Nat /\ e2 \in Nat /\ (d = 0 \/ d = 1)
    BY <1>5, <2>1, <2>6
  <2>9. /\ Len(chan') = c2 /\ EventsIn(chan') = e2 /\ Len(adding'["pipeline"]) = p /\ Len(adding'["health"]) = h
       /\ Len(adding'["main"]) = m /\ (IF backing' = {} THEN 0 ELSE 1) = b /\ (IF taken' THEN 1 ELSE 0) = 1
       /\ len' = l /\ nreports' = n
    BY <1>3, <1>13, <2>1, <2>6
  <2>10. /\ k - 1 = l - (p + h + m) - b - 1 /\ (k - 1) \in Nat /\ k - 1 <= Cap + (n)
       /\ e2 + p <= Cap /\ (c2) - (e2) + h + m <= n /\ n \in Nat
    <3>1. CASE d = 0
      BY <1>4, <2>7, <2>8, <3>1
    <3>2. CASE d = 1
      BY <1>4, <2>7, <2>8, <3>2
    <3> QED BY <2>7, <2>8, <3>1, <3>2
  <2>11. rxOpen' => k - 1 = c2
    BY <1>5, <2>8, <1>4
  <2> QED BY <1>6, <2>9, <2>10, <2>11
<1>14. ASSUME UNCHANGED <<adding, backing, emitted, nreports>>, Received
       PROVE  QueueInv'
  <2>1. taken /\ taken' = FALSE /\ len' = len - 1 /\ chan' = chan /\ rxOpen' = rxOpen
    BY <1>14 DEF Received, Uncount
  <2>2. t = 1
    BY <1>3, <2>1
  <2>3. /\ Len(chan') = c /\ EventsIn(chan') = e /\ Len(adding'["pipeline"]) = p /\ Len(adding'["health"]) = h
       /\ Len(adding'["main"]) = m /\ (IF backing' = {} THEN 0 ELSE 1) = b /\ (IF taken' THEN 1 ELSE 0) = 0
       /\ len' = (l - 1) /\ nreports' = n
    BY <1>3, <1>14, <2>1
  <2>4. /\ k = (l - 1) - (p + h + m) - b - 0 /\ (k) \in Nat /\ k <= Cap + (n)
       /\ e + p <= Cap /\ (c) - (e) + h + m <= n /\ n \in Nat
    BY <1>4, <2>2
  <2>5. rxOpen' => k = c
    BY <1>5, <2>1
  <2> QED BY <1>6, <2>3, <2>4, <2>5
<1>15. ASSUME UNCHANGED <<adding, backing, emitted, nreports>>, Close \/ CloseFails \/ WriterPanics
       PROVE  QueueInv'
  <2>1. chan' = <<>> /\ rxOpen' = FALSE /\ len' = len /\ taken' = taken
    BY <1>15 DEF Close, CloseFails, WriterPanics, DropReceiver
  <2>2. Len(chan') = 0 /\ EventsIn(chan') = 0
    BY <2>1, None
  <2>3. /\ Len(chan') = 0 /\ EventsIn(chan') = 0 /\ Len(adding'["pipeline"]) = p /\ Len(adding'["health"]) = h
       /\ Len(adding'["main"]) = m /\ (IF backing' = {} THEN 0 ELSE 1) = b /\ (IF taken' THEN 1 ELSE 0) = t
       /\ len' = l /\ nreports' = n
    BY <1>3, <1>15, <2>1, <2>2
  <2>4. /\ k = l - (p + h + m) - b - t /\ (k) \in Nat /\ k <= Cap + (n)
       /\ 0 + p <= Cap /\ (0) - (0) + h + m <= n /\ n \in Nat
    BY <1>4
  <2>5. rxOpen' => k = 0
    BY <1>5, <2>1
  <2> QED BY <1>6, <2>3, <2>4, <2>5
<1>16. CASE HealthSnapshot
  <2>1. \/ UNCHANGED <<chan, len, adding, backing, taken, rxOpen, nreports>>
        \/ nreports' = nreports + 1
    BY <1>16, SnapshotSends
  <2>2. nreports + 1 # nreports
    BY <1>1
  <2> QED BY <1>10, <1>11, <1>16, <2>1, <2>2
<1> QED BY <1>7, <1>8, <1>9, <1>10, <1>12, <1>13, <1>14, <1>15, <1>16, HandsOrNot

-----------------------------------------------------------------------------
(* What a step does to the line of records                                   *)

\* A bound may rise.
LEMMA BelowMore ==
    ASSUME NEW s \in Seq(Msgs), NEW e \in Int, NEW r \in Int, NEW e2 \in Int, NEW r2 \in Int,
           Below(s, e, r), e <= e2, r <= r2
    PROVE  Below(s, e2, r2)
<1>1. \A i \in DOMAIN s : s[i] \in Msgs
  BY ElementOfSeq, LenProperties
<1>2. ASSUME NEW i \in DOMAIN s
      PROVE  s[i].n <= (IF IsEvent(s[i]) THEN e2 ELSE r2)
  <2>1. PICK n \in Nat : n = s[i].n
    BY <1>1, MsgFacts
  <2>2. n <= (IF IsEvent(s[i]) THEN e ELSE r)
    BY <2>1 DEF Below
  <2>3. \A x, y, z \in Int : x <= y /\ y <= z => x <= z
    OBVIOUS
  <2> QED BY <2>1, <2>2, <2>3
<1> QED BY <1>2 DEF Below

\* The reports of two parts have the numbers of both.
LEMMA NumbersCup ==
    ASSUME NEW S, NEW T
    PROVE  Numbers(S \cup T) = Numbers(S) \cup Numbers(T)
BY DEF Numbers

\* A report's number is in nothing before it or behind it.
LEMMA NotIn ==
    ASSUME NEW s \in Seq(Msgs), NEW o \in Msgs, ~IsEvent(o), Before(s, <<o>>) \/ Before(<<o>>, s)
    PROVE  o.n \notin Numbers(Reports(s))
<1>1. \A i \in DOMAIN s : s[i] \in Msgs
  BY ElementOfSeq, LenProperties
<1>2. \A x \in Msgs : ~IsEvent(x) => x.kind = "report" /\ x.n \in Nat
  BY MsgFacts DEF IsEvent
<1>3. ASSUME NEW i \in DOMAIN s, ~IsEvent(s[i]), s[i].n = o.n
      PROVE  FALSE
  <2>1. s[i].kind = o.kind
    BY <1>1, <1>2, <1>3
  <2>2. s[i].n < o.n \/ o.n < s[i].n
    BY <2>1, OneBefore
  <2>3. PICK x \in Nat : x = o.n
    BY <1>2
  <2> QED BY <1>3, <2>2, <2>3
<1> QED BY <1>3 DEF Numbers, Reports

\* The reports below a bound have numbers below it.
LEMMA NumbersBelow ==
    ASSUME NEW s \in Seq(Msgs), NEW e \in Int, NEW r \in Int, Below(s, e, r)
    PROVE  \A n \in Numbers(Reports(s)) : n \in Nat /\ n > 0 /\ n <= r
<1>1. \A i \in DOMAIN s : s[i] \in Msgs
  BY ElementOfSeq, LenProperties
<1>2. ASSUME NEW i \in DOMAIN s, ~IsEvent(s[i])
      PROVE  s[i].n \in Nat /\ s[i].n > 0 /\ s[i].n <= r
  BY <1>1, <1>2, MsgFacts DEF Below
<1> QED BY <1>2 DEF Numbers, Reports

\* A message is added behind all of its kind.
LEMMA AddBehind ==
    ASSUME NEW s \in Seq(Msgs), NEW m \in Msgs, NEW e \in Int, NEW r \in Int, Below(s, e, r), Ordered(s),
           m.n > (IF IsEvent(m) THEN e ELSE r)
    PROVE  Ordered(s \o <<m>>)
<1>1. \A i \in DOMAIN s : s[i] \in Msgs
  BY ElementOfSeq, LenProperties
<1>2. ASSUME NEW i \in DOMAIN s, s[i].kind = m.kind
      PROVE  s[i].n < m.n
  <2>1. IsEvent(s[i]) <=> IsEvent(m)
    BY <1>2 DEF IsEvent
  <2>2. PICK b \in Int : b = IF IsEvent(m) THEN e ELSE r
    OBVIOUS
  <2>3. s[i].n <= b
    BY <2>1, <2>2 DEF Below
  <2>4. PICK x \in Nat, y \in Nat : x = s[i].n /\ y = m.n
    BY <1>1, MsgFacts
  <2> QED BY <2>2, <2>3, <2>4
<1>3. Before(s, <<m>>)
  BY <1>2, OneBefore
<1>4. PICK t \in Seq(Msgs) : t = <<m>> /\ Ordered(t)
  BY One
<1> QED BY <1>3, <1>4, Cat

\* What the line keeps when an event is handled.
EventMoved(C, L, C2, L2, a) ==
    /\ Ordered(L) => Ordered(L2)
    /\ \A x, r : Below(L, x, r) => Below(L2, x, r)
    /\ EventsIn(L) = EventsIn(L2) + 1 - a /\ EventsIn(L2) \in Nat
    /\ NoFinal(L) => NoFinal(L2)
    /\ FinalLast(L) => FinalLast(L2) /\ NoFinal(C2)
    /\ \A n : Newest(L, n) => Newest(L2, n)
    /\ Reports(L2) = Reports(L)
    /\ \A f \in {"gap", "drops", "rejected"} : Told(C2, f) = Told(C, f)

\* Handling an event takes it from behind the completed records to behind those
\* written, or away.
LEMMA MoveEvent ==
    ASSUME NEW A \in Seq(Stored), NEW B \in Seq(FullReports), NEW e \in EventMsgs, NEW Q \in Seq(Msgs),
           NEW a \in {0, 1}, NEW C2, C2 = IF a = 1 THEN (A \o <<e>>) \o B ELSE A \o B
    PROVE  EventMoved(A \o B, ((A \o B) \o <<e>>) \o Q, C2, C2 \o Q, a)
<1>1. /\ A \in Seq(Msgs) /\ B \in Seq(Msgs) /\ B \in Seq(Stored) /\ e \in Msgs /\ IsEvent(e) /\ ~Final(e) /\ e.kind = "event"
  BY SeqTypes DEF Msgs, Sent, EventMsgs, IsEvent, Final
<1>2. PICK E \in Seq(Msgs) : /\ E = <<e>> /\ EventsIn(E) = 1 /\ NoFinal(E) /\ Reports(E) = {} /\ E # <<>> /\ Ordered(E)
  BY <1>1, One
<1>3. PICK C \in Seq(Msgs) : C = A \o B /\ (NoFinal(C) <=> NoFinal(A) /\ NoFinal(B))
  BY <1>1, Cat
<1>4. PICK L : L = (C \o E) \o Q
  OBVIOUS
<1>a. A \in Seq(Msgs) /\ B \in Seq(Msgs) /\ E \in Seq(Msgs) /\ C \in Seq(Msgs) /\ Q \in Seq(Msgs)
  BY <1>1, <1>2, <1>3
<1>5. /\ L \in Seq(Msgs)
      /\ EventsIn(L) = EventsIn(A) + EventsIn(B) + EventsIn(E) + EventsIn(Q)
      /\ EventsIn(A) \in Nat /\ EventsIn(B) \in Nat /\ EventsIn(E) \in Nat /\ EventsIn(Q) \in Nat
      /\ Ordered(L) <=> /\ Ordered(A) /\ Ordered(B) /\ Ordered(E) /\ Ordered(Q)
                        /\ Before(A, B) /\ Before(A, E) /\ Before(A, Q)
                        /\ Before(B, E) /\ Before(B, Q) /\ Before(E, Q)
      /\ \A x, r : Below(L, x, r) <=> Below(A, x, r) /\ Below(B, x, r) /\ Below(E, x, r) /\ Below(Q, x, r)
      /\ NoFinal(L) <=> NoFinal(A) /\ NoFinal(B) /\ NoFinal(E) /\ NoFinal(Q)
      /\ \A n : Newest(L, n) <=> Newest(A, n) /\ Newest(B, n) /\ Newest(E, n) /\ Newest(Q, n)
      /\ Reports(L) = Reports(A) \cup Reports(B) \cup Reports(E) \cup Reports(Q)
  <2>1. L = ((A \o B) \o E) \o Q
    BY <1>3, <1>4
  <2>2. PartsOf(((A \o B) \o E) \o Q, A, B, E, Q)
    BY <1>a, Parts
  <2> QED BY <2>1, <2>2 DEF PartsOf
<1>6. FinalLast(L) => FinalLast(Q) /\ NoFinal(C)
  <2>0. PICK D : D = C \o E
    OBVIOUS
  <2>1. /\ D \in Seq(Msgs) /\ (NoFinal(D) <=> NoFinal(C) /\ NoFinal(E))
        /\ (FinalLast(D) <=> FinalLast(E) /\ (NoFinal(C) \/ (E = <<>> /\ FinalLast(C))))
    BY <1>a, <2>0, Cat
  <2>2. FinalLast(L) <=> FinalLast(Q) /\ (NoFinal(D) \/ (Q = <<>> /\ FinalLast(D)))
    BY <1>4, <2>0, <2>1, Cat
  <2> QED BY <1>2, <2>1, <2>2
<1>7. CASE a = 1
  <2>1. C2 = (A \o E) \o B
    BY <1>2, <1>7
  <2>2. PICK L2 : L2 = C2 \o Q
    OBVIOUS
  <2>3. /\ L2 \in Seq(Msgs)
        /\ EventsIn(L2) = EventsIn(A) + EventsIn(E) + EventsIn(B) + EventsIn(Q)
        /\ Ordered(L2) <=> /\ Ordered(A) /\ Ordered(E) /\ Ordered(B) /\ Ordered(Q)
                           /\ Before(A, E) /\ Before(A, B) /\ Before(A, Q)
                           /\ Before(E, B) /\ Before(E, Q) /\ Before(B, Q)
        /\ \A x, r : Below(L2, x, r) <=> Below(A, x, r) /\ Below(E, x, r) /\ Below(B, x, r) /\ Below(Q, x, r)
        /\ NoFinal(L2) <=> NoFinal(A) /\ NoFinal(E) /\ NoFinal(B) /\ NoFinal(Q)
        /\ \A n : Newest(L2, n) <=> Newest(A, n) /\ Newest(E, n) /\ Newest(B, n) /\ Newest(Q, n)
        /\ Reports(L2) = Reports(A) \cup Reports(E) \cup Reports(B) \cup Reports(Q)
    <3>1. L2 = ((A \o E) \o B) \o Q
      BY <2>1, <2>2
    <3>2. PartsOf(((A \o E) \o B) \o Q, A, E, B, Q)
      BY <1>a, Parts
    <3> QED BY <3>1, <3>2 DEF PartsOf
  <2>4. Before(E, B)
    <3>1. \A i \in DOMAIN B : B[i] \in FullReports
      BY ElementOfSeq, LenProperties
    <3>2. \A i \in DOMAIN B : B[i].kind # e.kind
      BY <1>1, <3>1, FullFacts
    <3> QED BY <1>1, <1>2, <3>2, OneBefore
  <2>5. C2 \in Seq(Msgs) /\ (NoFinal(C2) <=> NoFinal(A) /\ NoFinal(E) /\ NoFinal(B))
    <3>0. PICK D : D = A \o E
      OBVIOUS
    <3>1. D \in Seq(Msgs) /\ (NoFinal(D) <=> NoFinal(A) /\ NoFinal(E))
      BY <1>a, <3>0, Cat
    <3>2. C2 = D \o B
      BY <2>1, <3>0
    <3>3. D \o B \in Seq(Msgs) /\ (NoFinal(D \o B) <=> NoFinal(D) /\ NoFinal(B))
      BY <1>a, <3>1, Cat
    <3> QED BY <3>1, <3>2, <3>3
  <2>6. FinalLast(L) => FinalLast(L2) /\ NoFinal(C2)
    <3>1. FinalLast(L2) <=> FinalLast(Q) /\ (NoFinal(C2) \/ (Q = <<>> /\ FinalLast(C2)))
      BY <2>2, <2>5, Cat
    <3> QED BY <1>2, <1>3, <1>6, <2>5, <3>1
  <2>7. ASSUME NEW f \in {"gap", "drops", "rejected"} PROVE Told(C2, f) = Told(C, f)
    <3>1. Has(A, f) /\ Has(B, f) /\ Has(E, f) /\ Told(E, f) = 0
      BY <1>1, <1>2, StoredSeq, ToldOne
    <3>0. PICK D : D = A \o E
      OBVIOUS
    <3>2. D \in Seq(Msgs) /\ Has(D, f) /\ Told(D, f) = Told(A, f) + Told(E, f)
      <4>1. D \in Seq(Msgs)
        BY <1>a, <3>0, Cat
      <4>2. Has(D, f) /\ Told(D, f) = Told(A, f) + Told(E, f)
        BY <1>a, <3>0, <3>1, ToldCat
      <4> QED BY <4>1, <4>2
    <3>3. Told(D \o B, f) = Told(D, f) + Told(B, f)
      BY <1>1, <3>1, <3>2, ToldCat
    <3>4. Told(A \o B, f) = Told(A, f) + Told(B, f)
      BY <1>1, <3>1, ToldCat
    <3>5. Told(A, f) \in Nat /\ Told(B, f) \in Nat
      BY <1>1, <3>1, UnitsFinite
    <3>6. Told(D, f) = Told(A, f)
      BY <3>1, <3>2, <3>5
    <3>7. C2 = D \o B
      BY <2>1, <3>0
    <3> QED BY <1>3, <3>3, <3>4, <3>6, <3>7
  <2>8. Reports(L2) = Reports(L)
    BY <1>5, <2>3
  <2>9. EventsIn(L) = EventsIn(L2) + 1 - a /\ EventsIn(L2) \in Nat
    <3>1. /\ EventsIn(L) = EventsIn(A) + EventsIn(B) + 1 + EventsIn(Q)
          /\ EventsIn(L2) = EventsIn(A) + 1 + EventsIn(B) + EventsIn(Q)
          /\ EventsIn(A) \in Nat /\ EventsIn(B) \in Nat /\ EventsIn(Q) \in Nat
      BY <1>2, <1>5, <2>3
    <3>2. a = 1
      BY <1>7
    <3> QED BY <3>1, <3>2
  <2>10. (Ordered(L) => Ordered(L2)) /\ (\A x, r : Below(L, x, r) => Below(L2, x, r)) /\ (NoFinal(L) => NoFinal(L2))
         /\ (\A n : Newest(L, n) => Newest(L2, n))
    BY <1>5, <2>3, <2>4
  <2>11. EventMoved(C, L, C2, L2, a)
    BY <2>3, <2>6, <2>7, <2>8, <2>9, <2>10 DEF EventMoved
  <2>12. C = A \o B /\ L = ((A \o B) \o <<e>>) \o Q /\ L2 = C2 \o Q
    BY <1>2, <1>3, <1>4, <2>2
  <2> QED BY <2>11, <2>12
<1>8. CASE a = 0
  <2>1. C2 = C
    BY <1>3, <1>8
  <2>2. PICK L2 : L2 = C2 \o Q
    OBVIOUS
  <2>3. PICK O \in Seq(Msgs) : /\ O = <<>> /\ Ordered(O) /\ EventsIn(O) = 0 /\ Reports(O) = {} /\ NoFinal(O)
                               /\ (\A e2, r : Below(O, e2, r)) /\ (\A n : Newest(O, n))
                               /\ \A s : Before(O, s) /\ Before(s, O)
    BY None
  <2>4. L2 = ((A \o B) \o O) \o Q
    <3>1. C \o O = C
      BY <2>3, ConcatEmptySeq
    <3> QED BY <1>3, <2>1, <2>2, <3>1
  <2>5. /\ L2 \in Seq(Msgs)
        /\ EventsIn(L2) = EventsIn(A) + EventsIn(B) + EventsIn(O) + EventsIn(Q)
        /\ Ordered(L2) <=> /\ Ordered(A) /\ Ordered(B) /\ Ordered(O) /\ Ordered(Q)
                           /\ Before(A, B) /\ Before(A, O) /\ Before(A, Q)
                           /\ Before(B, O) /\ Before(B, Q) /\ Before(O, Q)
        /\ \A x, r : Below(L2, x, r) <=> Below(A, x, r) /\ Below(B, x, r) /\ Below(O, x, r) /\ Below(Q, x, r)
        /\ NoFinal(L2) <=> NoFinal(A) /\ NoFinal(B) /\ NoFinal(O) /\ NoFinal(Q)
        /\ \A n : Newest(L2, n) <=> Newest(A, n) /\ Newest(B, n) /\ Newest(O, n) /\ Newest(Q, n)
        /\ Reports(L2) = Reports(A) \cup Reports(B) \cup Reports(O) \cup Reports(Q)
    <3>1. O \in Seq(Msgs)
      BY <2>3
    <3>2. PartsOf(((A \o B) \o O) \o Q, A, B, O, Q)
      BY <1>a, <3>1, Parts
    <3> QED BY <2>4, <3>2 DEF PartsOf
  <2>6. FinalLast(L) => FinalLast(L2) /\ NoFinal(C2)
    <3>1. FinalLast(L2) <=> FinalLast(Q) /\ (NoFinal(C2) \/ (Q = <<>> /\ FinalLast(C2)))
      BY <2>1, <2>2, Cat
    <3> QED BY <1>6, <2>1, <3>1
  <2>7. Reports(L2) = Reports(L)
    BY <1>2, <1>5, <2>3, <2>5
  <2>8. EventsIn(L) = EventsIn(L2) + 1 - a /\ EventsIn(L2) \in Nat
    BY <1>2, <1>5, <1>8, <2>3, <2>5
  <2>9. (Ordered(L) => Ordered(L2)) /\ (\A x, r : Below(L, x, r) => Below(L2, x, r)) /\ (NoFinal(L) => NoFinal(L2))
         /\ (\A n : Newest(L, n) => Newest(L2, n))
    BY <1>5, <2>3, <2>5
  <2>10. \A f \in {"gap", "drops", "rejected"} : Told(C2, f) = Told(C, f)
    BY <2>1
  <2>11. EventMoved(C, L, C2, L2, a)
    BY <2>6, <2>7, <2>8, <2>9, <2>10 DEF EventMoved
  <2>12. C = A \o B /\ L = ((A \o B) \o <<e>>) \o Q /\ L2 = C2 \o Q
    BY <1>2, <1>3, <1>4, <2>2
  <2> QED BY <2>11, <2>12
<1> QED BY <1>7, <1>8

\* Two messages of a kind with the same number have the same place in the order.
LEMMA SamePlace ==
    ASSUME NEW s \in Seq(Msgs), NEW m \in Msgs, NEW r \in Msgs, m.kind = r.kind, m.n = r.n
    PROVE  (Before(s, <<m>>) => Before(s, <<r>>)) /\ (Before(<<m>>, s) => Before(<<r>>, s))
<1>1. ASSUME Before(s, <<m>>) PROVE Before(s, <<r>>)
  <2>1. \A i \in DOMAIN s : s[i].kind = r.kind => s[i].n < r.n
    BY <1>1, OneBefore
  <2> QED BY <2>1, OneBefore
<1>2. ASSUME Before(<<m>>, s) PROVE Before(<<r>>, s)
  <2>1. \A i \in DOMAIN s : r.kind = s[i].kind => r.n < s[i].n
    BY <1>2, OneBefore
  <2> QED BY <2>1, OneBefore
<1> QED BY <1>1, <1>2

\* What the line keeps when a report is handled.
ReportMoved(C, L, C2, L2, r, whole) ==
    /\ Ordered(L) => Ordered(L2)
    /\ \A x, y : Below(L, x, y) => Below(L2, x, y)
    /\ EventsIn(L) = EventsIn(L2) /\ EventsIn(L2) \in Nat
    /\ NoFinal(L) => NoFinal(L2)
    /\ FinalLast(L) => FinalLast(L2)
    /\ \A n : Newest(L, n) => Newest(L2, n)
    /\ whole => /\ Numbers(Reports(L2)) = Numbers(Reports(L))
                /\ \A f \in {"gap", "drops", "rejected"} : Told(C2, f) = Told(C, f) + r[f]
    /\ ~whole /\ Ordered(L) => \E n \in Numbers(Reports(L)) : n \notin Numbers(Reports(L2))

\* Handling a report completes it behind the others, of which the oldest may
\* go; its number is then nowhere.
LEMMA MoveReport ==
    ASSUME NEW A \in Seq(Stored), NEW H \in Seq(FullReports), NEW t \in Seq(FullReports), NEW m \in RawReports,
           NEW r \in FullReports, NEW Q \in Seq(Msgs), r.n = m.n, r.final = m.final,
           H = t \/ \E o \in FullReports : H = <<o>> \o t
    PROVE  ReportMoved(A \o H, ((A \o H) \o <<m>>) \o Q, (A \o t) \o <<r>>, ((A \o t) \o <<r>>) \o Q, r, H = t)
<1>1. /\ A \in Seq(Msgs) /\ H \in Seq(Msgs) /\ t \in Seq(Msgs) /\ t \in Seq(Stored) /\ m \in Msgs /\ r \in Msgs
      /\ ~IsEvent(m) /\ ~IsEvent(r) /\ m.kind = r.kind /\ (Final(m) <=> Final(r)) /\ m.n = r.n
      /\ \A f \in {"gap", "drops", "rejected"} : r[f] \in Nat
  <2>1. A \in Seq(Msgs) /\ H \in Seq(Msgs) /\ t \in Seq(Msgs) /\ t \in Seq(Stored) /\ m \in Msgs /\ r \in Msgs
    BY SeqTypes DEF Msgs, Sent
  <2>2. m.kind = "report"
    BY DEF RawReports
  <2> QED BY <2>1, <2>2, FullFacts DEF IsEvent, Final
<1>2. PICK M \in Seq(Msgs) : /\ M = <<m>> /\ EventsIn(M) = 0 /\ (NoFinal(M) <=> ~Final(m)) /\ Reports(M) = {m} /\ Ordered(M) /\ M # <<>>
                             /\ \A n : Newest(M, n) <=> (~IsEvent(m) /\ m.n = n => Final(m))
                             /\ \A x, y : Below(M, x, y) <=> m.n <= (IF IsEvent(m) THEN x ELSE y)
  BY <1>1, One
<1>3. PICK R \in Seq(Msgs) : /\ R = <<r>> /\ EventsIn(R) = 0 /\ (NoFinal(R) <=> ~Final(r)) /\ Reports(R) = {r} /\ Ordered(R) /\ FinalLast(R)
                             /\ \A n : Newest(R, n) <=> (~IsEvent(r) /\ r.n = n => Final(r))
                             /\ \A x, y : Below(R, x, y) <=> r.n <= (IF IsEvent(r) THEN x ELSE y)
  BY <1>1, One
<1>4. PICK C : C = A \o H
  OBVIOUS
<1>5. PICK D : D = A \o t
  OBVIOUS
<1>6. PICK C2 : C2 = D \o R
  OBVIOUS
<1>7. PICK L : L = (C \o M) \o Q
  OBVIOUS
<1>8. PICK L2 : L2 = C2 \o Q
  OBVIOUS
<1>a. A \in Seq(Msgs) /\ H \in Seq(Msgs) /\ t \in Seq(Msgs) /\ M \in Seq(Msgs) /\ R \in Seq(Msgs) /\ Q \in Seq(Msgs)
  BY <1>1, <1>2, <1>3
<1>9. C \in Seq(Msgs) /\ (NoFinal(C) <=> NoFinal(A) /\ NoFinal(H))
  BY <1>a, <1>4, Cat
<1>10. D \in Seq(Msgs) /\ (NoFinal(D) <=> NoFinal(A) /\ NoFinal(t))
  BY <1>a, <1>5, Cat
<1>11. /\ C2 \in Seq(Msgs) /\ (NoFinal(C2) <=> NoFinal(D) /\ NoFinal(R))
       /\ FinalLast(C2) <=> FinalLast(R) /\ (NoFinal(D) \/ (R = <<>> /\ FinalLast(D)))
  BY <1>a, <1>6, <1>10, Cat
<1>12. PartsOf(L, A, H, M, Q)
  <2>1. PartsOf(((A \o H) \o M) \o Q, A, H, M, Q)
    BY <1>a, Parts
  <2> QED BY <1>4, <1>7, <2>1
<1>13. PartsOf(L2, A, t, R, Q)
  <2>1. PartsOf(((A \o t) \o R) \o Q, A, t, R, Q)
    BY <1>a, Parts
  <2> QED BY <1>5, <1>6, <1>8, <2>1
<1>14. FinalLast(L) => FinalLast(Q) /\ NoFinal(C) /\ (NoFinal(M) \/ Q = <<>>)
  <2>0. PICK E : E = C \o M
    OBVIOUS
  <2>1. /\ E \in Seq(Msgs) /\ (NoFinal(E) <=> NoFinal(C) /\ NoFinal(M))
        /\ (FinalLast(E) <=> FinalLast(M) /\ (NoFinal(C) \/ (M = <<>> /\ FinalLast(C))))
    BY <1>a, <1>9, <2>0, Cat
  <2>2. FinalLast(L) <=> FinalLast(Q) /\ (NoFinal(E) \/ (Q = <<>> /\ FinalLast(E)))
    BY <1>7, <2>0, <2>1, Cat
  <2> QED BY <1>2, <2>1, <2>2
<1>15. FinalLast(L2) <=> FinalLast(Q) /\ (NoFinal(C2) \/ (Q = <<>> /\ FinalLast(C2)))
  BY <1>8, <1>11, Cat
<1>16. /\ Before(A, M) => Before(A, R) 
       /\ Before(t, M) => Before(t, R)
       /\ Before(M, Q) => Before(R, Q)
  BY <1>1, <1>2, <1>3, SamePlace
<1>17. (\A x, y : Below(M, x, y) => Below(R, x, y)) /\ (NoFinal(M) => NoFinal(R)) /\ (\A n : Newest(M, n) => Newest(R, n))
  BY <1>1, <1>2, <1>3
<1>b. /\ C = A \o H /\ L = (C \o <<m>>) \o Q /\ C2 = (A \o t) \o <<r>> /\ L2 = C2 \o Q
      /\ C \in Seq(Msgs) /\ L \in Seq(Msgs) /\ C2 \in Seq(Msgs) /\ L2 \in Seq(Msgs)
  BY <1>2, <1>3, <1>4, <1>5, <1>6, <1>7, <1>8, <1>9, <1>11, <1>12, <1>13 DEF PartsOf
<1>18. ASSUME NEW f \in {"gap", "drops", "rejected"}, H = t
       PROVE  Told(C2, f) = Told(C, f) + r[f]
  <2>1. Has(A, f) /\ Has(t, f) /\ Has(R, f) /\ Told(R, f) = r[f]
    BY <1>1, <1>3, StoredSeq, ToldOne
  <2>2. Has(D, f)
    BY <1>a, <1>5, <2>1, ToldCat
  <2>3. Told(D \o R, f) = Told(D, f) + Told(R, f)
    BY <1>a, <1>10, <2>1, <2>2, ToldCat
  <2> QED BY <1>4, <1>5, <1>6, <1>18, <2>1, <2>3
<1>19. CASE H = t
  <2>1. /\ Ordered(L) => Ordered(L2)
        /\ \A x, y : Below(L, x, y) => Below(L2, x, y)
        /\ NoFinal(L) => NoFinal(L2)
        /\ \A n : Newest(L, n) => Newest(L2, n)
    BY <1>3, <1>12, <1>13, <1>16, <1>17, <1>19 DEF PartsOf
  <2>2. EventsIn(L) = EventsIn(L2) /\ EventsIn(L2) \in Nat
    <3>1. /\ EventsIn(L) = EventsIn(A) + EventsIn(t) + 0 + EventsIn(Q)
          /\ EventsIn(L2) = EventsIn(A) + EventsIn(t) + 0 + EventsIn(Q)
          /\ EventsIn(A) \in Nat /\ EventsIn(t) \in Nat /\ EventsIn(Q) \in Nat
      BY <1>2, <1>3, <1>12, <1>13, <1>19 DEF PartsOf
    <3> QED BY <3>1
  <2>3. FinalLast(L) => FinalLast(L2)
    BY <1>3, <1>9, <1>10, <1>11, <1>14, <1>15, <1>17, <1>19
  <2>4. Numbers(Reports(L2)) = Numbers(Reports(L))
    <3>1. Reports(L) = Reports(A) \cup Reports(t) \cup {m} \cup Reports(Q) /\ Reports(L2) = Reports(A) \cup Reports(t) \cup {r} \cup Reports(Q)
      BY <1>2, <1>3, <1>12, <1>13, <1>19 DEF PartsOf
    <3>2. Numbers({m}) = Numbers({r})
      BY <1>1 DEF Numbers
    <3>3. PICK S, T, U : S = Reports(A) /\ T = Reports(t) /\ U = Reports(Q)
      OBVIOUS
    <3>4. PICK X, Y : X = {m} /\ Y = {r} /\ Numbers(X) = Numbers(Y)
      BY <3>2
    <3>5. Numbers(S \cup T \cup X \cup U) = Numbers(S \cup T \cup Y \cup U)
      <4>1. /\ Numbers(S \cup T \cup X \cup U) = Numbers(S) \cup Numbers(T) \cup Numbers(X) \cup Numbers(U)
            /\ Numbers(S \cup T \cup Y \cup U) = Numbers(S) \cup Numbers(T) \cup Numbers(Y) \cup Numbers(U)
        BY DEF Numbers
      <4> QED BY <3>4, <4>1
    <3> QED BY <3>1, <3>3, <3>4, <3>5
  <2>5. \A f \in {"gap", "drops", "rejected"} : Told(C2, f) = Told(C, f) + r[f]
    BY <1>18, <1>19
  <2>6. ReportMoved(C, L, C2, L2, r, H = t)
    BY <1>19, <2>1, <2>2, <2>3, <2>4, <2>5 DEF ReportMoved
  <2> QED BY <1>b, <2>6
<1>20. CASE H # t
  <2>1. PICK o \in FullReports : H = <<o>> \o t
    BY <1>20
  <2>2. PICK O \in Seq(Msgs) : O = <<o>> /\ Reports(O) = {o} /\ EventsIn(O) = 0
    BY One, FullFacts DEF Msgs
  <2>3. PICK G : G = O \o t
    OBVIOUS
  <2>4. /\ EventsIn(G) = EventsIn(O) + EventsIn(t) /\ EventsIn(t) \in Nat
        /\ Ordered(G) <=> Ordered(O) /\ Ordered(t) /\ Before(O, t)
        /\ \A x, y : Below(G, x, y) <=> Below(O, x, y) /\ Below(t, x, y)
        /\ NoFinal(G) <=> NoFinal(O) /\ NoFinal(t)
        /\ \A n : Newest(G, n) <=> Newest(O, n) /\ Newest(t, n)
        /\ Reports(G) = Reports(O) \cup Reports(t)
    BY <1>a, <2>2, <2>3, Cat
  <2>5. /\ Before(A, G) => Before(A, O) /\ Before(A, t)
        /\ Before(G, M) => Before(O, M) /\ Before(t, M)
        /\ Before(G, Q) => Before(O, Q) /\ Before(t, Q)
    BY <1>a, <2>2, <2>3, BeforeCat
  <2>6. H = G
    BY <2>1, <2>2, <2>3
  <2>7. /\ Ordered(L) => /\ Ordered(L2) /\ Before(A, O) /\ Before(O, t) /\ Before(O, M) /\ Before(O, Q)
        /\ \A x, y : Below(L, x, y) => Below(L2, x, y)
        /\ NoFinal(L) => NoFinal(L2)
        /\ \A n : Newest(L, n) => Newest(L2, n)
    BY <1>3, <1>12, <1>13, <1>16, <1>17, <2>4, <2>5, <2>6 DEF PartsOf
  <2>8. EventsIn(L) = EventsIn(L2) /\ EventsIn(L2) \in Nat
    <3>1. /\ EventsIn(L) = EventsIn(A) + (0 + EventsIn(t)) + 0 + EventsIn(Q)
          /\ EventsIn(L2) = EventsIn(A) + EventsIn(t) + 0 + EventsIn(Q)
          /\ EventsIn(A) \in Nat /\ EventsIn(t) \in Nat /\ EventsIn(Q) \in Nat
      BY <1>2, <1>3, <1>12, <1>13, <2>2, <2>4, <2>6 DEF PartsOf
    <3> QED BY <3>1
  <2>9. FinalLast(L) => FinalLast(L2)
    BY <1>3, <1>9, <1>10, <1>11, <1>14, <1>15, <1>17, <2>4, <2>6
  <2>10. Ordered(L) => \E n \in Numbers(Reports(L)) : n \notin Numbers(Reports(L2))
    <3>1. o.n \in Numbers(Reports(L))
      <4>1. o \in Reports(L)
        BY <1>12, <2>2, <2>4, <2>6 DEF PartsOf
      <4> QED BY <4>1 DEF Numbers
    <3>2. ASSUME Ordered(L) PROVE o.n \notin Numbers(Reports(L2))
      <4>0. o \in Msgs /\ ~IsEvent(o)
        BY FullFacts DEF Msgs
      <4>1. o.n \notin Numbers(Reports(A)) /\ o.n \notin Numbers(Reports(t)) /\ o.n \notin Numbers(Reports(Q))
        BY <1>a, <2>2, <2>7, <3>2, <4>0, NotIn
      <4>2. o.n \notin Numbers(Reports(M))
        BY <1>a, <2>2, <2>7, <3>2, <4>0, NotIn
      <4>3. o.n \notin Numbers(Reports(R))
        BY <1>1, <1>2, <1>3, <4>2 DEF Numbers
      <4>4. Numbers(Reports(L2)) = Numbers(Reports(A)) \cup Numbers(Reports(t)) \cup Numbers(Reports(R)) \cup Numbers(Reports(Q))
        <5>1. Reports(L2) = Reports(A) \cup Reports(t) \cup Reports(R) \cup Reports(Q)
          BY <1>13 DEF PartsOf
        <5>2. PICK S, T, U, V : S = Reports(A) /\ T = Reports(t) /\ U = Reports(R) /\ V = Reports(Q)
          OBVIOUS
        <5>3. Numbers(S \cup T \cup U \cup V) = Numbers(S) \cup Numbers(T) \cup Numbers(U) \cup Numbers(V)
          BY DEF Numbers
        <5> QED BY <5>1, <5>2, <5>3
      <4> QED BY <4>1, <4>3, <4>4
    <3> QED BY <3>1, <3>2
  <2>11. ReportMoved(C, L, C2, L2, r, H = t)
    BY <1>20, <2>7, <2>8, <2>9, <2>10 DEF ReportMoved
  <2> QED BY <1>b, <2>11
<1> QED BY <1>19, <1>20

-----------------------------------------------------------------------------
(* The records on their way, step by step                                    *)

\* What is on its way is sequences of messages.
LEMMA RecordTypes ==
    ASSUME Types
    PROVE  /\ log \in Seq(Msgs) /\ backlog \in Seq(Msgs) /\ held \in Seq(Msgs) /\ cur \in Seq(Msgs) /\ chan \in Seq(Msgs)
           /\ Written \in Seq(Stored) /\ Written \in Seq(Msgs) /\ Completed \in Seq(Stored) /\ Completed \in Seq(Msgs)
           /\ Completed \o cur \in Seq(Msgs) /\ Line \in Seq(Msgs) /\ held \in Seq(FullReports)
<1>1. /\ log \in Seq(Stored) /\ backlog \in Seq(Stored) /\ held \in Seq(FullReports) /\ cur \in Seq(Sent) /\ chan \in Seq(Sent)
  BY DEF Types, QTypes, RTypes
<1>2. /\ log \in Seq(Msgs) /\ backlog \in Seq(Msgs) /\ held \in Seq(Msgs) /\ cur \in Seq(Msgs) /\ chan \in Seq(Msgs)
      /\ held \in Seq(Stored)
  BY <1>1, SeqTypes
<1>3. Written \in Seq(Stored)
  <2>1. log \o backlog \in Seq(Stored)
    BY <1>1, ConcatProperties
  <2> QED BY <2>1 DEF Written
<1>4. Completed \in Seq(Stored)
  <2>1. Written \o held \in Seq(Stored)
    BY <1>2, <1>3, ConcatProperties
  <2> QED BY <2>1 DEF Completed
<1>5. Written \in Seq(Msgs) /\ Completed \in Seq(Msgs)
  BY <1>3, <1>4, SeqTypes
<1>6. Completed \o cur \in Seq(Msgs)
  BY <1>2, <1>5, Cat
<1>7. Line \in Seq(Msgs)
  <2>1. (Completed \o cur) \o chan \in Seq(Msgs)
    BY <1>2, <1>6, Cat
  <2> QED BY <2>1 DEF Line
<1> QED BY <1>1, <1>2, <1>3, <1>4, <1>5, <1>6, <1>7

\* The parts of the line after a step that leaves the records alone.
LEMMA SameRecords ==
    ASSUME UNCHANGED <<held, backlog, log>>
    PROVE  Completed' = Completed /\ (cur' = cur /\ chan' = chan => Line' = Line)
<1>1. Completed' = Completed
  BY DEF Completed, Written
<1> QED BY <1>1 DEF Line

\* The writer's receive moves the oldest message from the channel to its hand.
LEMMA ReceiveLine ==
    ASSUME StoreInv, Receive
    PROVE  Line' = Line /\ Completed' = Completed
<1>1. Types /\ WriterControl /\ chan \in Seq(Sent)
  BY DEF StoreInv, Types, QTypes
<1>2. /\ wpc \in {"recv", "drain"} /\ chan # <<>> /\ chan' = Tail(chan) /\ cur' = <<Head(chan)>>
      /\ UNCHANGED <<held, backlog, log>>
  BY DEF Receive, Take, logVars
<1>3. cur = <<>>
  BY <1>1, <1>2 DEF WriterControl
<1>4. PICK m \in Sent, q \in Seq(Sent) : chan' = q /\ cur' = <<m>> /\ chan = <<m>> \o q
  <2>1. Head(chan) \in Sent /\ Tail(chan) \in Seq(Sent) /\ chan = <<Head(chan)>> \o Tail(chan)
    BY <1>1, <1>2
  <2> QED BY <1>2, <2>1
<1>5. Completed' = Completed
  BY <1>2, SameRecords
<1>6. PICK C \in Seq(Msgs) : C = Completed
  BY <1>1, RecordTypes
<1>7. m \in Msgs /\ q \in Seq(Msgs) /\ <<m>> \in Seq(Msgs)
  <2>1. m \in Msgs
    BY <1>4 DEF Msgs
  <2> QED BY <1>4, <2>1, SeqTypes, One
<1>8. (C \o <<m>>) \o q = C \o (<<m>> \o q)
  BY <1>6, <1>7, Assoc
<1>9. C \o <<>> = C
  BY <1>6, ConcatEmptySeq
<1>10. Line = (C \o <<>>) \o (<<m>> \o q) /\ Line' = (C \o <<m>>) \o q
  BY <1>3, <1>4, <1>5, <1>6 DEF Line
<1> QED BY <1>5, <1>8, <1>9, <1>10

\* Ticks and closes move records towards the disk and no further.
LEMMA TickLine ==
    ASSUME StoreInv, Tick \/ Close \/ CloseFails
    PROVE  Line' = Line /\ Completed' = Completed
<1>1. Types /\ RoomInv /\ WriterControl
  BY DEF StoreInv
<1>2. PICK k \in 0..Len(BacklogRetried) : Writes(k)
  BY <1>1, WriteStep
<1>3. Completed' = Completed
  BY <1>1, <1>2, WritesKeep
<1>4. cur' = cur
  BY DEF Tick, TickIdle, TickWrites, TickFails, Close, CloseFails
<1>5. chan' = chan
  <2>1. CASE Tick
    BY <2>1 DEF Tick, TickIdle, TickWrites, TickFails, queueVars
  <2>2. CASE Close \/ CloseFails
    <3>1. wpc = "close" /\ chan' = <<>>
      BY <2>2 DEF Close, CloseFails, DropReceiver
    <3>2. chan = <<>>
      BY <1>1, <3>1 DEF WriterControl
    <3> QED BY <3>1, <3>2
  <2> QED BY <2>1, <2>2
<1>6. Line' = Line
  BY <1>3, <1>4, <1>5 DEF Line
<1> QED BY <1>3, <1>6

\* Only a send that succeeds, the two handlers and a writer that panics change
\* what is on its way.
LEMMA QuietLine ==
    ASSUME StoreInv, Next, ~(EmitPut \/ HealthPut \/ FinalPut), ~HandleEvent, ~HandleReport, ~WriterPanics
    PROVE  Line' = Line /\ Completed' = Completed
<1>1. CASE Receive
  BY <1>1, ReceiveLine
<1>2. CASE Tick \/ Close \/ CloseFails
  BY <1>2, TickLine
<1>3. CASE Received \/ ReceiveEnds \/ Disconnected
  <2>1. UNCHANGED <<held, backlog, log, cur, chan>>
    BY <1>3 DEF Received, ReceiveEnds, Disconnected, Uncount, logVars, queueVars
  <2> QED BY <2>1, SameRecords
<1>4. CASE Pipeline \/ SessionLoses \/ Health \/ Main
  <2>1. UNCHANGED <<held, backlog, log, cur>>
    BY <1>4, NotCore
  <2>2. chan' = chan
    <3>1. CASE Emit
      BY <3>1, EmitIs
    <3>2. CASE EmitRefused
      BY <3>2, RefusedIs
    <3>3. CASE HealthSnapshot
      BY <3>3, SnapshotSends
    <3>4. CASE FinalReport
      BY <3>4, FinalSends
    <3>5. CASE UNCHANGED <<chan, len, taken, rxOpen>>
      BY <3>5
    <3>6. CASE Receive \/ Received \/ Close \/ CloseFails \/ WriterPanics
      <4>1. wpc' # wpc \/ taken' # taken
        BY <3>6 DEF Receive, Received, Close, CloseFails, WriterPanics
      <4> QED BY <1>4, <4>1, NotCore
    <3> QED BY <3>1, <3>2, <3>3, <3>4, <3>5, <3>6, HandsOrNot
  <2> QED BY <2>1, <2>2, SameRecords
<1> QED BY <1>1, <1>2, <1>3, <1>4 DEF Next, Core

\* A send adds the message to what is on its way, unless the writer is gone.
LEMMA PutLine ==
    ASSUME StoreInv, EmitPut \/ HealthPut \/ FinalPut, NEW s \in Senders,
           \/ rxOpen /\ chan' = chan \o adding[s]
           \/ ~rxOpen /\ chan' = chan
    PROVE  Completed' = Completed /\ Line' = IF rxOpen THEN Line \o adding[s] ELSE Line
<1>1. Types
  BY DEF StoreInv
<1>2. UNCHANGED <<held, backlog, log, cur>>
  BY NotCore DEF Pipeline, Health, Main
<1>3. Completed' = Completed
  BY <1>2, SameRecords
<1>4. CASE ~rxOpen
  BY <1>2, <1>3, <1>4 DEF Line
<1>5. CASE rxOpen
  <2>1. PICK D \in Seq(Msgs), a \in Seq(Msgs), q \in Seq(Msgs) : D = Completed \o cur /\ a = adding[s] /\ q = chan
    <3>1. adding[s] \in Seq(Msgs)
      BY <1>1, SeqTypes DEF Types, QTypes
    <3> QED BY <1>1, <3>1, RecordTypes
  <2>2. (D \o q) \o a = D \o (q \o a)
    BY <2>1, Assoc
  <2>3. Line = D \o q /\ Line' = D \o (q \o a)
    BY <1>2, <1>3, <1>5, <2>1 DEF Line
  <2> QED BY <1>3, <1>5, <2>1, <2>2, <2>3
<1> QED BY <1>4, <1>5

\* A writer that panics takes the channel's messages with it.
LEMMA PanicLine ==
    ASSUME StoreInv, WriterPanics
    PROVE  /\ Completed' = Completed /\ Line' \in Seq(Msgs) /\ Line = Line' \o chan
           /\ wpc' = "dead" /\ UNCHANGED <<others, drops, logVars, adding, backing>>
<1>1. Types
  BY DEF StoreInv
<1>2. /\ chan' = <<>> /\ UNCHANGED <<held, backlog, log, cur>>
      /\ wpc' = "dead" /\ UNCHANGED <<others, drops, logVars, adding, backing>>
  BY DEF WriterPanics, DropReceiver, logVars
<1>3. Completed' = Completed
  BY <1>2, SameRecords
<1>4. PICK D \in Seq(Msgs) : D = Completed \o cur
  BY <1>1, RecordTypes
<1>5. D \o <<>> = D
  BY <1>4, ConcatEmptySeq
<1>6. Line = D \o chan /\ Line' = D \o <<>>
  BY <1>2, <1>3, <1>4 DEF Line
<1> QED BY <1>2, <1>3, <1>4, <1>5, <1>6

\* The writer handles an event: it is written, behind no held report, or counted.
LEMMA EventLine ==
    ASSUME StoreInv, HandleEvent
    PROVE  \E a \in {0, 1}, j \in {0, 1}, d \in {0, 1} :
           /\ a + j + d = 1
           /\ stats'.gaps = stats.gaps /\ stats'.rejected = stats.rejected + j /\ drops' = drops + d
           /\ EventMoved(Completed, Line, Completed', Line', a)
<1>1. Types /\ WriterControl /\ RoomInv
  BY DEF StoreInv
<1>2. PICK x, h \in Seq(FullReports), e \in EventMsgs, a \in {0, 1}, j \in {0, 1}, d \in {0, 1} :
             /\ cur = <<e>> /\ cur' = <<>>
             /\ held = x \o h /\ held' = h /\ Len(h) <= Len(held)
             /\ log' \o backlog' = IF a = 1 THEN (Written \o x) \o <<e>> ELSE Written \o x
             /\ backlog' \in Seq(Stored) /\ log' = log /\ Bytes(backlog') <= BacklogCap
             /\ stats' \in [rejected : Nat, gaps : Nat]
             /\ stats'.gaps = stats.gaps /\ stats'.rejected = stats.rejected + j
             /\ drops' = drops + d
             /\ a + j + d = 1
  BY <1>1, EventIs
<1>3. chan' = chan
  BY DEF HandleEvent, queueVars
<1>4. Written \in Seq(Stored) /\ Written \in Seq(Msgs) /\ chan \in Seq(Msgs) /\ x \in Seq(Msgs) /\ h \in Seq(Msgs) /\ x \in Seq(Stored)
  BY <1>1, <1>2, RecordTypes, SeqTypes
<1>5. PICK A \in Seq(Stored) : A = Written \o x
  <2>1. Written \o x \in Seq(Stored)
    BY <1>4, ConcatProperties
  <2> QED BY <2>1
<1>6. PICK C2 : C2 = IF a = 1 THEN (A \o <<e>>) \o h ELSE A \o h
  OBVIOUS
<1>7. PICK C, L, L2 : C = A \o h /\ L = (C \o <<e>>) \o chan /\ L2 = C2 \o chan
  OBVIOUS
<1>8. C = Completed
  <2>1. (Written \o x) \o h = Written \o (x \o h)
    <3>1. Written \in Seq(Msgs) /\ x \in Seq(Msgs) /\ h \in Seq(Msgs)
      BY <1>4
    <3> QED BY <3>1, Assoc
  <2> QED BY <1>2, <1>5, <1>7, <2>1 DEF Completed
<1>9. C2 = Completed'
  <2>1. Completed' = (log' \o backlog') \o held'
    BY DEF Completed, Written
  <2> QED BY <1>2, <1>5, <1>6, <2>1
<1>10. L = Line
  BY <1>2, <1>7, <1>8 DEF Line
<1>11. L2 = Line'
  <2>1. C2 \in Seq(Msgs)
    <3>1. e \in Msgs /\ <<e>> \in Seq(Msgs) /\ A \in Seq(Msgs)
      <4>1. e \in Msgs
        BY <1>2 DEF Msgs, Sent
      <4> QED BY <4>1, <1>5, One, SeqTypes
    <3>2. A \o <<e>> \in Seq(Msgs) /\ A \o h \in Seq(Msgs)
      BY <1>4, <3>1, Cat
    <3>3. (A \o <<e>>) \o h \in Seq(Msgs)
      BY <1>4, <3>2, Cat
    <3> QED BY <1>6, <3>2, <3>3
  <2>2. C2 \o <<>> = C2
    BY <2>1, ConcatEmptySeq
  <2>3. Line' = (C2 \o <<>>) \o chan
    BY <1>2, <1>3, <1>9 DEF Line
  <2> QED BY <1>7, <2>2, <2>3
<1>12. EventMoved(Completed, Line, Completed', Line', a)
  <2>1. EventMoved(A \o h, ((A \o h) \o <<e>>) \o chan, C2, C2 \o chan, a)
    <3>1. A \in Seq(Stored) /\ h \in Seq(FullReports) /\ e \in EventMsgs /\ chan \in Seq(Msgs) /\ a \in {0, 1}
      BY <1>2, <1>4, <1>5
    <3> QED BY <3>1, <1>6, MoveEvent
  <2>2. EventMoved(C, L, C2, L2, a)
    BY <1>7, <2>1
  <2> QED BY <1>8, <1>9, <1>10, <1>11, <2>2
<1>13. a + j + d = 1 /\ stats'.gaps = stats.gaps /\ stats'.rejected = stats.rejected + j /\ drops' = drops + d
  BY <1>2
<1> QED BY <1>12, <1>13

\* The writer handles a report: it is completed and queued or held, and the
\* oldest held one is given up when there are too many.
LEMMA ReportLine ==
    ASSUME StoreInv, HandleReport
    PROVE  \E r \in FullReports, whole \in BOOLEAN :
           /\ r.gap = stats.gaps /\ r.drops = drops - reported.drops /\ r.rejected = stats.rejected - reported.rejected
           /\ ReportMoved(Completed, Line, Completed', Line', r, whole)
<1>1. Types /\ WriterControl /\ RoomInv /\ FigureInv /\ OrderInv
  BY DEF StoreInv
<1>2. PICK x, h, t \in Seq(FullReports), m \in RawReports, r \in FullReports :
             /\ cur = <<m>> /\ cur' = <<>> /\ log' = log
             /\ held = x \o h /\ backlog' \in Seq(Stored) /\ Bytes(backlog') <= BacklogCap
             /\ r.n = m.n /\ r.final = m.final /\ r.gap = stats.gaps
             /\ r.drops = drops - reported.drops /\ r.rejected = stats.rejected - reported.rejected
             /\ held' \in Seq(FullReports) /\ Len(held') <= HeldCap
             /\ \/ h = <<>> /\ t = <<>> /\ held' = <<>> /\ log' \o backlog' = (Written \o x) \o <<r>>
                \/ t = h /\ held' = t \o <<r>> /\ log' \o backlog' = Written \o x
                \/ /\ \E o \in FullReports : h = <<o>> \o t
                   /\ held' = t \o <<r>> /\ log' \o backlog' = Written \o x
  BY <1>1, ReportIs
<1>3. chan' = chan
  BY DEF HandleReport, queueVars
<1>4. /\ Written \in Seq(Stored) /\ Written \in Seq(Msgs) /\ chan \in Seq(Msgs) /\ x \in Seq(Msgs) /\ h \in Seq(Msgs)
      /\ x \in Seq(Stored) /\ t \in Seq(Msgs) /\ r \in Msgs /\ <<r>> \in Seq(Msgs)
  <2>1. r \in Msgs
    BY <1>2 DEF Msgs
  <2> QED BY <1>1, <1>2, <2>1, RecordTypes, SeqTypes, One
<1>5. PICK A \in Seq(Stored) : A = Written \o x
  <2>1. Written \o x \in Seq(Stored)
    BY <1>4, ConcatProperties
  <2> QED BY <2>1
<1>6. A \in Seq(Msgs)
  BY <1>5, SeqTypes
<1>7. h = t \/ \E o \in FullReports : h = <<o>> \o t
  BY <1>2
<1>8. PICK C, L, C2, L2 : C = A \o h /\ L = (C \o <<m>>) \o chan /\ C2 = (A \o t) \o <<r>> /\ L2 = C2 \o chan
  OBVIOUS
<1>b. C2 \in Seq(Msgs)
  <2>1. A \in Seq(Msgs) /\ t \in Seq(Msgs) /\ <<r>> \in Seq(Msgs)
    BY <1>4, <1>6
  <2>2. A \o t \in Seq(Msgs)
    BY <2>1, Cat
  <2>3. (A \o t) \o <<r>> \in Seq(Msgs)
    BY <2>1, <2>2, Cat
  <2> QED BY <1>8, <2>3
<1>9. C = Completed
  <2>1. (Written \o x) \o h = Written \o (x \o h)
    <3>1. Written \in Seq(Msgs) /\ x \in Seq(Msgs) /\ h \in Seq(Msgs)
      BY <1>4
    <3> QED BY <3>1, Assoc
  <2> QED BY <1>2, <1>5, <1>8, <2>1 DEF Completed
<1>10. C2 = Completed'
  <2>1. Completed' = (log' \o backlog') \o held'
    BY DEF Completed, Written
  <2>2. CASE h = <<>> /\ t = <<>> /\ held' = <<>> /\ log' \o backlog' = (Written \o x) \o <<r>>
    <3>1. A \o <<>> = A /\ C2 = (A \o <<>>) \o <<r>>
      BY <1>6, <1>8, <2>2, ConcatEmptySeq
    <3>2. C2 = A \o <<r>> /\ Completed' = (A \o <<r>>) \o <<>>
      BY <1>5, <2>1, <2>2, <3>1
    <3>3. C2 \o <<>> = C2
      BY <1>b, ConcatEmptySeq
    <3> QED BY <3>2, <3>3
  <2>3. CASE held' = t \o <<r>> /\ log' \o backlog' = Written \o x
    <3>0. A \in Seq(Msgs) /\ t \in Seq(Msgs) /\ <<r>> \in Seq(Msgs)
      BY <1>4, <1>6
    <3>1. (A \o t) \o <<r>> = A \o (t \o <<r>>)
      BY <3>0, Assoc
    <3> QED BY <1>5, <1>8, <2>1, <2>3, <3>1
  <2> QED BY <1>2, <2>2, <2>3
<1>11. L = Line
  BY <1>2, <1>8, <1>9 DEF Line
<1>12. L2 = Line'
  <2>1. C2 \o <<>> = C2
    BY <1>b, ConcatEmptySeq
  <2>2. Line' = (C2 \o <<>>) \o chan
    BY <1>2, <1>3, <1>10 DEF Line
  <2> QED BY <1>8, <2>1, <2>2
<1>13. ReportMoved(Completed, Line, Completed', Line', r, h = t)
  <2>1. ReportMoved(A \o h, ((A \o h) \o <<m>>) \o chan, (A \o t) \o <<r>>, ((A \o t) \o <<r>>) \o chan, r, h = t)
    <3>1. /\ A \in Seq(Stored) /\ h \in Seq(FullReports) /\ t \in Seq(FullReports) /\ m \in RawReports /\ r \in FullReports
          /\ chan \in Seq(Msgs) /\ r.n = m.n /\ r.final = m.final
      BY <1>2, <1>4, <1>5
    <3> QED BY <3>1, <1>7, MoveReport
  <2>2. ReportMoved(C, L, C2, L2, r, h = t)
    BY <1>8, <2>1
  <2> QED BY <1>9, <1>10, <1>11, <1>12, <2>2
<1>14. (h = t) \in BOOLEAN /\ r.gap = stats.gaps /\ r.drops = drops - reported.drops /\ r.rejected = stats.rejected - reported.rejected
  BY <1>2
<1> QED BY <1>13, <1>14

\* The newest event and the newest report that are on their way.
EventsTo == emitted - Len(adding["pipeline"])
ReportsTo == nreports - Len(adding["health"]) - Len(adding["main"])

\* No step sends a number that was sent before.
LEMMA BoundsStep ==
    ASSUME StoreInv, Next
    PROVE  EventsTo \in Int /\ ReportsTo \in Int /\ EventsTo' \in Int /\ ReportsTo' \in Int
           /\ EventsTo <= EventsTo' /\ ReportsTo <= ReportsTo'
<1>1. QTypes /\ SenderControl /\ emitted \in Nat /\ nreports \in Nat
  BY DEF StoreInv, Types, NTypes
<1>2. PICK p \in {0, 1}, h \in {0, 1}, m \in {0, 1}, x \in Nat, n \in Nat :
        p = Len(adding["pipeline"]) /\ h = Len(adding["health"]) /\ m = Len(adding["main"]) /\ x = emitted /\ n = nreports
  BY <1>1, HandsIs, Senders3
<1>3. ASSUME NEW p2 \in {0, 1}, NEW h2 \in {0, 1}, NEW m2 \in {0, 1}, NEW x2 \in Nat, NEW n2 \in Nat,
             p2 = Len(adding'["pipeline"]), h2 = Len(adding'["health"]), m2 = Len(adding'["main"]),
             x2 = emitted', n2 = nreports', x - p <= x2 - p2, n - h - m <= n2 - h2 - m2
      PROVE  EventsTo \in Int /\ ReportsTo \in Int /\ EventsTo' \in Int /\ ReportsTo' \in Int
             /\ EventsTo <= EventsTo' /\ ReportsTo <= ReportsTo'
  <2>1. EventsTo = x - p /\ ReportsTo = n - h - m /\ EventsTo' = x2 - p2 /\ ReportsTo' = n2 - h2 - m2
    BY <1>2, <1>3 DEF EventsTo, ReportsTo
  <2>2. x - p \in Int /\ n - h - m \in Int /\ x2 - p2 \in Int /\ n2 - h2 - m2 \in Int
    OBVIOUS
  <2> QED BY <1>3, <2>1, <2>2
<1>4. CASE Emit
  <2>1. p = 0 /\ h = Len(adding'["health"]) /\ m = Len(adding'["main"]) /\ x + 1 = emitted' /\ n = nreports'
        /\ (Len(adding'["pipeline"]) = 1 \/ Len(adding'["pipeline"]) = 0)
    <3>1. nreports' = nreports /\ Len(<<>>) = 0
      BY <1>4 DEF Emit, healthVars
    <3> QED BY <1>2, <1>4, <3>1, EmitIs, Senders3
  <2>2. \A k \in {0, 1} : k \in {0, 1} /\ x - 0 <= (x + 1) - k
    OBVIOUS
  <2>3. PICK k \in {0, 1} : k = Len(adding'["pipeline"])
    BY <2>1
  <2>4. x + 1 \in Nat /\ n - h - m <= n - h - m
    OBVIOUS
  <2> QED BY <1>3, <2>1, <2>2, <2>3, <2>4
<1>5. CASE EmitPut \/ HealthPut \/ FinalPut
  <2>1. PICK s \in Senders : /\ Len(adding'[s]) = 0 /\ Len(adding[s]) = 1
                             /\ \A o \in Senders \ {s} : adding'[o] = adding[o]
                             /\ emitted' = emitted /\ nreports' = nreports
    BY <1>5, EachPut
  <2>2. CASE s = "pipeline"
    <3>1. 0 = Len(adding'["pipeline"]) /\ h = Len(adding'["health"]) /\ m = Len(adding'["main"]) /\ p = 1 /\ x = emitted' /\ n = nreports'
      BY <1>2, <2>1, <2>2, Senders3
    <3>2. x - 1 <= x - 0 /\ n - h - m <= n - h - m
      OBVIOUS
    <3> QED BY <1>3, <3>1, <3>2
  <2>3. CASE s = "health"
    <3>1. p = Len(adding'["pipeline"]) /\ 0 = Len(adding'["health"]) /\ m = Len(adding'["main"]) /\ h = 1 /\ x = emitted' /\ n = nreports'
      BY <1>2, <2>1, <2>3, Senders3
    <3>2. x - p <= x - p /\ n - 1 - m <= n - 0 - m
      OBVIOUS
    <3> QED BY <1>3, <3>1, <3>2
  <2>4. CASE s = "main"
    <3>1. p = Len(adding'["pipeline"]) /\ h = Len(adding'["health"]) /\ 0 = Len(adding'["main"]) /\ m = 1 /\ x = emitted' /\ n = nreports'
      BY <1>2, <2>1, <2>4, Senders3
    <3>2. x - p <= x - p /\ n - h - 1 <= n - h - 0
      OBVIOUS
    <3> QED BY <1>3, <3>1, <3>2
  <2> QED BY <2>2, <2>3, <2>4, Senders3
<1>6. CASE EmitRefused
  <2>1. 0 = Len(adding'["pipeline"]) /\ h = Len(adding'["health"]) /\ m = Len(adding'["main"]) /\ x = emitted' /\ n = nreports'
    <3>1. emitted' = emitted /\ nreports' = nreports
      BY <1>6 DEF EmitRefused, healthVars
    <3> QED BY <1>2, <1>6, <3>1, RefusedIs, Senders3
  <2>2. x - p <= x - 0 /\ n - h - m <= n - h - m
    OBVIOUS
  <2> QED BY <1>3, <2>1, <2>2
<1>7. CASE HealthSnapshot /\ nreports' = nreports + 1
  <2>1. p = Len(adding'["pipeline"]) /\ 1 = Len(adding'["health"]) /\ m = Len(adding'["main"]) /\ h = 0 /\ x = emitted' /\ n + 1 = nreports'
    <3>1. Len(<<>>) = 0 /\ nreports' # nreports
      BY <1>1, <1>7
    <3> QED BY <1>2, <1>7, <3>1, SnapshotSends
  <2>2. x - p <= x - p /\ n - 0 - m <= (n + 1) - 1 - m /\ n + 1 \in Nat
    OBVIOUS
  <2> QED BY <1>3, <2>1, <2>2
<1>8. CASE FinalReport
  <2>1. p = Len(adding'["pipeline"]) /\ h = Len(adding'["health"]) /\ 1 = Len(adding'["main"]) /\ m = 0 /\ x = emitted' /\ n + 1 = nreports'
    <3>1. Len(<<>>) = 0
      OBVIOUS
    <3> QED BY <1>2, <1>8, <3>1, FinalSends
  <2>2. x - p <= x - p /\ n - h - 0 <= (n + 1) - h - 1 /\ n + 1 \in Nat
    OBVIOUS
  <2> QED BY <1>3, <2>1, <2>2
<1>9. CASE UNCHANGED <<adding, emitted, nreports>>
  <2>1. p = Len(adding'["pipeline"]) /\ h = Len(adding'["health"]) /\ m = Len(adding'["main"]) /\ x = emitted' /\ n = nreports'
    BY <1>2, <1>9
  <2>2. x - p <= x - p /\ n - h - m <= n - h - m
    OBVIOUS
  <2> QED BY <1>3, <2>1, <2>2
<1>10. CASE HealthSnapshot /\ UNCHANGED <<adding, emitted, nreports>>
  BY <1>9, <1>10
<1>11. HealthSnapshot => nreports' = nreports + 1 \/ UNCHANGED <<adding, emitted, nreports>>
  BY SnapshotSends
<1> QED BY <1>4, <1>5, <1>6, <1>7, <1>8, <1>9, <1>10, <1>11, HandsOrNot

\* A message that is sent is newer than all of its kind that are on their way.
LEMMA PutInOrder ==
    ASSUME StoreInv, NEW s \in Senders, adding[s] # <<>>
    PROVE  /\ adding[s] \in Seq(Msgs) /\ Ordered(Line \o adding[s])
           /\ \A e \in Int, r \in Int : e >= emitted /\ r >= nreports => Below(adding[s], e, r)
           /\ s = "pipeline" => \A e \in Int, r \in Int : e >= emitted => Below(adding[s], e, r)
           /\ s # "pipeline" => \A e \in Int, r \in Int : r >= nreports => Below(adding[s], e, r)
<1>1. QTypes /\ SenderControl /\ Types /\ emitted \in Nat /\ nreports \in Nat /\ OrderInv
  BY DEF StoreInv, Types, NTypes
<1>2. PICK m \in Sent : /\ adding[s] = <<m>> /\ (IsEvent(m) <=> s = "pipeline")
                        /\ m.n = (IF s = "pipeline" THEN emitted ELSE nreports)
                        /\ s # "pipeline" => (m.final <=> s = "main")
  BY InHands
<1>3. m \in Msgs /\ <<m>> \in Seq(Msgs) /\ Len(adding[s]) = 1 /\ Line \in Seq(Msgs)
  <2>1. m \in Msgs
    BY DEF Msgs
  <2> QED BY <1>1, <2>1, One, InHands, RecordTypes
<1>4. PICK p \in {0, 1}, h \in {0, 1}, k \in {0, 1} :
        p = Len(adding["pipeline"]) /\ h = Len(adding["health"]) /\ k = Len(adding["main"])
  BY <1>1, HandsIs, Senders3
<1>5. m.n > (IF IsEvent(m) THEN emitted - p ELSE nreports - h - k)
  <2>1. CASE s = "pipeline"
    <3>1. p = 1 /\ m.n = emitted /\ IsEvent(m)
      BY <1>2, <1>3, <1>4, <2>1
    <3>2. emitted > emitted - 1
      BY <1>1
    <3> QED BY <3>1, <3>2
  <2>2. CASE s = "health"
    <3>1. h = 1 /\ m.n = nreports /\ ~IsEvent(m)
      BY <1>2, <1>3, <1>4, <2>2
    <3>2. nreports > nreports - 1 - k
      BY <1>1
    <3> QED BY <3>1, <3>2
  <2>3. CASE s = "main"
    <3>1. k = 1 /\ m.n = nreports /\ ~IsEvent(m)
      BY <1>2, <1>3, <1>4, <2>3
    <3>2. nreports > nreports - h - 1
      BY <1>1
    <3> QED BY <3>1, <3>2
  <2> QED BY <2>1, <2>2, <2>3, Senders3
<1>6. PICK e \in Int, r \in Int : e = emitted - p /\ r = nreports - h - k
  BY <1>1
<1>7. PICK L \in Seq(Msgs) : L = Line
  BY <1>3
<1>8. Below(L, e, r) /\ Ordered(L)
  <2>1. OrderInv
    BY <1>1
  <2> QED BY <1>4, <1>6, <1>7, <2>1 DEF OrderInv
<1>9. Ordered(L \o <<m>>)
  <2>1. m.n > (IF IsEvent(m) THEN e ELSE r)
    BY <1>5, <1>6
  <2> QED BY <1>3, <1>8, <2>1, AddBehind
<1>10. \A y, z : Below(<<m>>, y, z) <=> m.n <= (IF IsEvent(m) THEN y ELSE z)
  BY <1>3, One
<1> HIDE DEF Line
<1> QED BY <1>1, <1>2, <1>3, <1>7, <1>9, <1>10


\* The health thread and the main thread never both hold a report.
LEMMA TwoHands ==
    ASSUME StoreInv
    PROVE  adding["health"] = <<>> \/ adding["main"] = <<>>
<1>1. SenderControl
  BY DEF StoreInv
<1> QED BY <1>1 DEF SenderControl

\* OrderInv in terms of the bounds.
LEMMA OrderIs ==
    OrderInv <=> Ordered(Line) /\ Below(Line, EventsTo, ReportsTo)
BY DEF OrderInv, EventsTo, ReportsTo

\* A name for the typing of the line, so that the lemma can be primed.
LineTyped == Line \in Seq(Msgs) /\ Completed \in Seq(Stored)
\* The line and the completed reports are sequences of messages.
LEMMA LineSeq == Types => LineTyped
BY RecordTypes DEF LineTyped

\* LineSeq, after a step.
LEMMA LineNext == Types' => LineTyped'
BY LineSeq, PTL

\* Everything stays in the order it was sent.
LEMMA OrderStep ==
    ASSUME StoreInv, Next
    PROVE  OrderInv'
<1>1. Types /\ QTypes /\ WriterControl /\ Ordered(Line) /\ Below(Line, EventsTo, ReportsTo)
  BY OrderIs DEF StoreInv, Types
<1>2. /\ EventsTo \in Int /\ ReportsTo \in Int /\ EventsTo' \in Int /\ ReportsTo' \in Int
      /\ EventsTo <= EventsTo' /\ ReportsTo <= ReportsTo'
  BY BoundsStep
<1>3. Line \in Seq(Msgs) /\ Line' \in Seq(Msgs)
  <2>1. Types'
    BY TypesStep
  <2>2. Types' => Line' \in Seq(Msgs)
    BY LineNext DEF LineTyped
  <2> QED BY <1>1, <2>1, <2>2, RecordTypes
<1>4. Below(Line, EventsTo', ReportsTo')
  <2>1. PICK e \in Int, r \in Int, e2 \in Int, r2 \in Int :
          e = EventsTo /\ r = ReportsTo /\ e2 = EventsTo' /\ r2 = ReportsTo' /\ e <= e2 /\ r <= r2
    BY <1>2
  <2>2. PICK L \in Seq(Msgs) : L = Line
    BY <1>3
  <2>3. Below(L, e, r)
    BY <1>1, <2>1, <2>2
  <2>4. Below(L, e2, r2)
    BY <2>1, <2>3, BelowMore
  <2> QED BY <2>1, <2>2, <2>4
<1>5. SUFFICES Ordered(Line') /\ Below(Line', EventsTo', ReportsTo')
  <2>1. (Ordered(Line))' <=> Ordered(Line')
    OBVIOUS
  <2>2. (Below(Line, EventsTo, ReportsTo))' <=> Below(Line', EventsTo', ReportsTo')
    OBVIOUS
  <2>3. OrderInv' <=> (Ordered(Line))' /\ (Below(Line, EventsTo, ReportsTo))'
    BY DEF OrderInv, EventsTo, ReportsTo
  <2> QED BY <2>1, <2>2, <2>3
<1>6. CASE Line' = Line
  BY <1>1, <1>4, <1>6
<1>7. CASE HandleEvent
  <2>1. PICK a \in {0, 1} : EventMoved(Completed, Line, Completed', Line', a)
    BY <1>7, EventLine
  <2> QED BY <1>1, <1>4, <2>1 DEF EventMoved
<1>8. CASE HandleReport
  <2>1. PICK r \in FullReports, whole \in BOOLEAN : ReportMoved(Completed, Line, Completed', Line', r, whole)
    BY <1>8, ReportLine
  <2> QED BY <1>1, <1>4, <2>1 DEF ReportMoved
<1>9. CASE WriterPanics
  <2>1. PICK L \in Seq(Msgs), q \in Seq(Msgs) : L = Line' /\ q = chan /\ Line = L \o q
    BY <1>1, <1>3, <1>9, PanicLine, RecordTypes
  <2>2. Ordered(L \o q) /\ Below(L \o q, EventsTo', ReportsTo')
    BY <1>1, <1>4, <2>1
  <2>3. Ordered(L) /\ Below(L, EventsTo', ReportsTo')
    BY <2>2, Cat
  <2> QED BY <2>1, <2>3
<1>10. CASE EmitPut \/ HealthPut \/ FinalPut
  <2>1. PICK s \in Senders :
             /\ adding'[s] = <<>> /\ Len(adding'[s]) = 0 /\ Len(adding[s]) = 1 /\ adding[s] # <<>>
             /\ \A o \in Senders \ {s} : adding'[o] = adding[o]
             /\ \/ rxOpen /\ chan' = chan \o adding[s]
                \/ ~rxOpen /\ chan' = chan
             /\ emitted' = emitted /\ nreports' = nreports
    BY <1>10, EachPut
  <2>2. CASE ~rxOpen
    <3>1. Line' = Line
      BY <1>10, <2>1, <2>2, PutLine
    <3> QED BY <1>6, <3>1
  <2>3. CASE rxOpen
    <3>1. Line' = Line \o adding[s]
      BY <1>10, <2>1, <2>3, PutLine
    <3>2. /\ adding[s] \in Seq(Msgs) /\ Ordered(Line \o adding[s])
          /\ s = "pipeline" => \A e \in Int, r \in Int : e >= emitted => Below(adding[s], e, r)
          /\ s # "pipeline" => \A e \in Int, r \in Int : r >= nreports => Below(adding[s], e, r)
      BY <2>1, PutInOrder
    <3>3. /\ s = "pipeline" => EventsTo' >= emitted
          /\ s # "pipeline" => ReportsTo' >= nreports
      <4>1. emitted \in Nat /\ nreports \in Nat
        BY <1>1 DEF Types, NTypes
      <4>2. CASE s = "pipeline"
        <5>1. EventsTo' = emitted - 0
          BY <2>1, <4>2 DEF EventsTo
        <5> QED BY <4>1, <4>2, <5>1
      <4>3. CASE s = "health"
        <5>1. ReportsTo' = nreports - 0 - Len(adding["main"]) /\ Len(adding["main"]) = 0
          <6>1. adding["main"] = <<>>
            BY <2>1, <4>3, TwoHands
          <6> QED BY <2>1, <4>3, <6>1, Senders3, None DEF ReportsTo
        <5> QED BY <4>1, <4>3, <5>1
      <4>4. CASE s = "main"
        <5>1. ReportsTo' = nreports - Len(adding["health"]) - 0 /\ Len(adding["health"]) = 0
          <6>1. adding["health"] = <<>>
            BY <2>1, <4>4, TwoHands
          <6> QED BY <2>1, <4>4, <6>1, Senders3, None DEF ReportsTo
        <5> QED BY <4>1, <4>4, <5>1
      <4> QED BY <4>2, <4>3, <4>4, Senders3
    <3>4. Below(adding[s], EventsTo', ReportsTo')
      BY <1>2, <3>2, <3>3
    <3>5. PICK L \in Seq(Msgs), a \in Seq(Msgs) : L = Line /\ a = adding[s]
      BY <1>3, <3>2
    <3>6. Below(L, EventsTo', ReportsTo') /\ Below(a, EventsTo', ReportsTo') /\ Ordered(L \o a)
      BY <1>4, <3>2, <3>4, <3>5
    <3>7. Below(L \o a, EventsTo', ReportsTo')
      BY <3>6, Cat
    <3> QED BY <3>1, <3>5, <3>6, <3>7
  <2> QED BY <2>2, <2>3
<1> QED BY <1>6, <1>7, <1>8, <1>9, <1>10, QuietLine

\* A writer that panicked stays so.
LEMMA Dead ==
    ASSUME Next, wpc' # "dead"
    PROVE  wpc # "dead"
<1>1. CASE Pipeline \/ SessionLoses \/ Health \/ Main
  BY <1>1, NotCore
<1>2. CASE Core
  BY <1>2 DEF Core, Tick, Receive, Received, ReceiveEnds, Disconnected, WriterPanics, TickIdle, TickWrites,
      TickFails, Close, CloseFails, HandleEvent, HandleReport
<1> QED BY <1>1, <1>2 DEF Next

\* Steps that hand over, handle and refuse no event leave the counts alone.
LEMMA RestCounts ==
    ASSUME StoreInv, Next, ~Emit, ~EmitPut, ~EmitRefused, ~EmitDrop, ~HandleEvent
    PROVE  /\ stats'.rejected = stats.rejected /\ drops' = drops /\ backing' = backing /\ emitted' = emitted
           /\ adding'["pipeline"] = adding["pipeline"]
           /\ ppc' = ppc \/ (ppc = "run" /\ ppc' \in {"ended", "panicked"})
<1>1. Types /\ stats \in [rejected : Nat, gaps : Nat] /\ evicted \in Nat
  BY DEF StoreInv, Types, RTypes, NTypes
<1>2. stats'.rejected = stats.rejected
  <2>1. CASE HandleReport
    BY <1>1, <2>1, ReportCounts
  <2>2. CASE Pipeline \/ SessionLoses \/ Health \/ Main
    BY <2>2, NotCore
  <2>3. CASE Receive \/ Received \/ ReceiveEnds \/ Disconnected \/ WriterPanics \/ TickIdle
    BY <2>3 DEF Receive, Received, ReceiveEnds, Disconnected, WriterPanics, TickIdle, logVars
  <2>4. CASE TickWrites \/ TickFails \/ Close \/ CloseFails
    <3>1. MayEvict
      BY <2>4 DEF TickWrites, TickFails, Close, CloseFails
    <3> QED BY <1>1, <3>1, EvictIs
  <2> QED BY <2>1, <2>2, <2>3, <2>4 DEF Next, Core, Tick
<1>3. drops' = drops
  <2>1. CASE Pipeline \/ SessionLoses \/ Health \/ Main
    BY <2>1 DEF Pipeline, Health, Main, SessionLoses, PipelineCounts, PipelineAnswers, PipelineEnds, PipelinePanics,
        HealthAsks, HealthTimesOut, HealthSnapshot, HealthPut, HealthEnds, StopAsked, DeathSeen, JoinHealth,
        FinalReport, FinalPut, JoinWriter
  <2>2. CASE Core
    BY <2>2 DEF Core, Tick, Receive, Received, ReceiveEnds, Disconnected, WriterPanics, TickIdle, TickWrites,
        TickFails, Close, CloseFails, HandleReport
  <2> QED BY <2>1, <2>2 DEF Next
<1>4. backing' = backing /\ emitted' = emitted /\ adding'["pipeline"] = adding["pipeline"]
  <2>1. CASE HealthPut
    <3>1. emitted' = emitted
      BY <2>1 DEF HealthPut, pipelineVars
    <3> QED BY <2>1, <3>1, Senders3, PutIs DEF HealthPut
  <2>2. CASE FinalPut
    <3>1. emitted' = emitted
      BY <2>2 DEF FinalPut, pipelineVars
    <3> QED BY <2>2, <3>1, Senders3, PutIs DEF FinalPut
  <2>3. CASE HealthSnapshot
    BY <2>3, SnapshotSends
  <2>4. CASE FinalReport
    BY <2>4, FinalSends
  <2> QED BY <2>1, <2>2, <2>3, <2>4, HandsOrNot
<1>5. ppc' = ppc \/ (ppc = "run" /\ ppc' \in {"ended", "panicked"})
  <2>1. CASE Pipeline
    BY <2>1 DEF Pipeline, PipelineCounts, PipelineAnswers, PipelineEnds, PipelinePanics, pipelineVars
  <2>2. CASE SessionLoses \/ Health \/ Main
    BY <2>2 DEF Health, Main, SessionLoses, pipelineVars,
        HealthAsks, HealthTimesOut, HealthSnapshot, HealthPut, HealthEnds, StopAsked, DeathSeen, JoinHealth,
        FinalReport, FinalPut, JoinWriter
  <2>3. CASE Core
    BY <2>3 DEF Core, Tick, Receive, Received, ReceiveEnds, Disconnected, WriterPanics, TickIdle, TickWrites,
        TickFails, Close, CloseFails, HandleReport, others, pipelineVars
  <2> QED BY <2>1, <2>2, <2>3 DEF Next
<1> QED BY <1>2, <1>3, <1>4, <1>5

\* An event is counted in one place at a time.
LEMMA AccountStep ==
    ASSUME StoreInv, Next
    PROVE  AccountInv'
<1>1. /\ Types /\ SenderControl /\ AccountInv /\ emitted \in Nat /\ drops \in Nat /\ stats.rejected \in Nat
      /\ QTypes /\ WriterControl /\ Types' /\ MaxEvents \in Nat
  <2>1. stats \in [rejected : Nat, gaps : Nat]
    BY DEF StoreInv, Types, RTypes
  <2> QED BY <2>1, TypesStep, StoreAssumption DEF StoreInv, Types, NTypes
<1>2. Line \in Seq(Msgs) /\ Line' \in Seq(Msgs) /\ EventsIn(Line) \in Nat
  <2>1. Line \in Seq(Msgs) /\ Line' \in Seq(Msgs)
    BY <1>1, LineNext, LineSeq DEF LineTyped
  <2> QED BY <2>1, EventsNat
<1>3. PICK l \in Nat, p \in {0, 1}, j \in Nat, d \in Nat, b \in {0, 1}, x \in Nat :
        /\ l = EventsIn(Line) /\ p = Len(adding["pipeline"]) /\ j = stats.rejected /\ d = drops
        /\ b = Refused /\ x = emitted
  <2>1. Refused \in {0, 1} /\ Len(adding["pipeline"]) \in {0, 1}
    BY <1>1, HandsIs, Senders3 DEF Refused
  <2> QED BY <1>1, <1>2, <2>1
<1>4. /\ l + p + j + d + b <= x /\ x <= MaxEvents /\ (wpc # "dead" => l + p + j + d + b = x)
      /\ l \in Nat /\ p \in Nat /\ j \in Nat /\ d \in Nat /\ b \in Nat /\ x \in Nat
  <2>1. Seen = l + p + j + d + b
    BY <1>3 DEF Seen
  <2>2. p \in Nat /\ b \in Nat
    OBVIOUS
  <2> QED BY <1>1, <1>3, <2>1, <2>2 DEF AccountInv
<1>5. ASSUME NEW l2 \in Nat, NEW p2 \in Nat, NEW j2 \in Nat, NEW d2 \in Nat, NEW b2 \in Nat, NEW x2 \in Nat,
             l2 = EventsIn(Line'), p2 = Len(adding'["pipeline"]), j2 = stats'.rejected, d2 = drops',
             b2 = (IF backing' # {} \/ ppc' = "drop" THEN 1 ELSE 0), x2 = emitted',
             l2 + p2 + j2 + d2 + b2 <= x2, x2 <= MaxEvents,
             wpc' # "dead" => l2 + p2 + j2 + d2 + b2 = x2
      PROVE  AccountInv'
  <2>1. (EventsIn(Line))' = EventsIn(Line')
    OBVIOUS
  <2>2. Seen' = l2 + p2 + j2 + d2 + b2
    BY <1>5, <2>1 DEF Seen, Refused
  <2> QED BY <1>5, <2>2 DEF AccountInv
<1>a. (EventsIn(Line))' = EventsIn(Line')
  OBVIOUS
<1>6. wpc' # "dead" => wpc # "dead"
  BY Dead
<1>7. CASE Emit
  <2>1. /\ ppc = "run" /\ ppc' = "send" /\ emitted' = emitted + 1 /\ emitted < MaxEvents /\ adding["pipeline"] = <<>> /\ backing = {}
        /\ \/ Len(adding'["pipeline"]) = 1 /\ backing' = {}
           \/ backing' = {"pipeline"} /\ Len(adding'["pipeline"]) = 0
    BY <1>7, EmitIs
  <2>2. Line' = Line /\ drops' = drops /\ stats' = stats /\ wpc' = wpc
    <3>1. ~(EmitPut \/ HealthPut \/ FinalPut) /\ ~HandleEvent /\ ~HandleReport /\ ~WriterPanics
      <4>1. emitted' # emitted
        BY <1>1, <2>1
      <4> QED BY <4>1 DEF EmitPut, HealthPut, FinalPut, HandleEvent, HandleReport, WriterPanics, others, pipelineVars
    <3> QED BY <1>7, <3>1, QuietLine DEF Emit, coreVars, logVars
  <2>3. p = 0 /\ b = 0
    BY <1>3, <2>1, None DEF Refused
  <2>4. x + 1 \in Nat /\ 0 \in Nat /\ 1 \in Nat /\ x + 1 <= MaxEvents
        /\ l + 1 + j + d + 0 <= x + 1 /\ l + 0 + j + d + 1 <= x + 1
        /\ (wpc # "dead" => l + 1 + j + d + 0 = x + 1 /\ l + 0 + j + d + 1 = x + 1)
    <3>1. x < MaxEvents
      BY <1>3, <2>1
    <3> QED BY <1>1, <1>4, <2>3, <3>1
  <2>5. CASE Len(adding'["pipeline"]) = 1 /\ backing' = {}
    <3>1. /\ l = EventsIn(Line') /\ 1 = Len(adding'["pipeline"]) /\ j = stats'.rejected /\ d = drops'
          /\ 0 = (IF backing' # {} \/ ppc' = "drop" THEN 1 ELSE 0) /\ x + 1 = emitted'
      BY <1>3, <2>1, <2>2, <2>5
    <3>2. Seen' = l + 1 + j + d + 0 /\ emitted' = x + 1
      BY <1>a, <3>1 DEF Seen, Refused
    <3> QED BY <2>2, <2>4, <3>2 DEF AccountInv
  <2>6. CASE backing' = {"pipeline"} /\ Len(adding'["pipeline"]) = 0
    <3>1. /\ l = EventsIn(Line') /\ 0 = Len(adding'["pipeline"]) /\ j = stats'.rejected /\ d = drops'
          /\ 1 = (IF backing' # {} \/ ppc' = "drop" THEN 1 ELSE 0) /\ x + 1 = emitted'
      BY <1>3, <2>1, <2>2, <2>6
    <3>2. Seen' = l + 0 + j + d + 1 /\ emitted' = x + 1
      BY <1>a, <3>1 DEF Seen, Refused
    <3> QED BY <2>2, <2>4, <3>2 DEF AccountInv
  <2> QED BY <2>1, <2>5, <2>6
<1>8. CASE EmitPut
  <2>1. /\ Put("pipeline") /\ ppc' = "run" /\ emitted' = emitted /\ drops' = drops /\ stats' = stats /\ wpc' = wpc
    BY <1>8 DEF EmitPut, coreVars, logVars
  <2>2. /\ Len(adding'["pipeline"]) = 0 /\ Len(adding["pipeline"]) = 1 /\ adding["pipeline"] # <<>> /\ backing' = backing
        /\ rxOpen /\ chan' = chan \o adding["pipeline"]
    <3>1. rxOpen /\ chan' = chan \o adding["pipeline"]
      BY <2>1 DEF Put
    <3> QED BY <2>1, <3>1, PutIs, Senders3
  <2>3. backing = {} /\ ppc = "send"
    BY <1>1, <2>2 DEF SenderControl
  <2>4. p = 1 /\ b = 0
    BY <1>3, <2>2, <2>3 DEF Refused
  <2>5. EventsIn(Line') = l + 1
    <3>1. Line' = Line \o adding["pipeline"]
      BY <1>8, <2>2, PutLine, Senders3
    <3>2. adding["pipeline"] \in Seq(Msgs) /\ EventsIn(adding["pipeline"]) = 1
      BY <2>2, InHands, Senders3
    <3>3. PICK L \in Seq(Msgs), a \in Seq(Msgs) : L = Line /\ a = adding["pipeline"]
      BY <1>2, <3>2
    <3>4. EventsIn(L \o a) = EventsIn(L) + EventsIn(a)
      BY Cat
    <3> QED BY <1>3, <3>1, <3>2, <3>3, <3>4
  <2>6. /\ (l + 1) = EventsIn(Line') /\ 0 = Len(adding'["pipeline"]) /\ j = stats'.rejected /\ d = drops'
        /\ 0 = (IF backing' # {} \/ ppc' = "drop" THEN 1 ELSE 0) /\ x = emitted'
    BY <1>3, <2>1, <2>2, <2>3, <2>5
  <2>7. l + 1 \in Nat /\ 0 \in Nat /\ (l + 1) + 0 + j + d + 0 <= x /\ (wpc # "dead" => (l + 1) + 0 + j + d + 0 = x)
    BY <1>4, <2>4
  <2> QED BY <1>4, <1>5, <2>1, <2>6, <2>7
<1>9. CASE EmitRefused
  <2>1. /\ ppc = "send" /\ ppc' = "drop" /\ Len(adding'["pipeline"]) = 0
        /\ \/ Len(adding["pipeline"]) = 0 /\ backing # {}
           \/ Len(adding["pipeline"]) = 1 /\ backing = {}
    BY <1>9, RefusedIs
  <2>2. Line' = Line /\ drops' = drops /\ stats' = stats /\ wpc' = wpc /\ emitted' = emitted
    <3>1. ~(EmitPut \/ HealthPut \/ FinalPut) /\ ~HandleEvent /\ ~HandleReport /\ ~WriterPanics
      BY <2>1 DEF EmitPut, HealthPut, FinalPut, HandleEvent, HandleReport, WriterPanics, others, pipelineVars
    <3> QED BY <1>9, <3>1, QuietLine DEF EmitRefused, coreVars, logVars
  <2>3. p + b = 1
    <3>1. CASE Len(adding["pipeline"]) = 0 /\ backing # {}
      BY <1>3, <3>1 DEF Refused
    <3>2. CASE Len(adding["pipeline"]) = 1 /\ backing = {}
      BY <1>3, <2>1, <3>2 DEF Refused
    <3> QED BY <2>1, <3>1, <3>2
  <2>4. /\ l = EventsIn(Line') /\ 0 = Len(adding'["pipeline"]) /\ j = stats'.rejected /\ d = drops'
        /\ 1 = (IF backing' # {} \/ ppc' = "drop" THEN 1 ELSE 0) /\ x = emitted'
    BY <1>3, <2>1, <2>2
  <2>5. 0 \in Nat /\ 1 \in Nat /\ l + 0 + j + d + 1 <= x /\ (wpc # "dead" => l + 0 + j + d + 1 = x)
    BY <1>4, <2>3
  <2>6. Seen' = l + 0 + j + d + 1 /\ emitted' = x
    BY <1>a, <2>4 DEF Seen, Refused
  <2> QED BY <1>4, <2>2, <2>5, <2>6 DEF AccountInv
<1>10. CASE EmitDrop
  <2>1. ppc = "drop" /\ ppc' = "run" /\ drops' = drops + 1 /\ adding' = adding /\ backing' = backing
        /\ stats' = stats /\ wpc' = wpc /\ emitted' = emitted
    BY <1>10 DEF EmitDrop, coreVars, logVars, queueVars
  <2>2. Line' = Line
    <3>1. ~(EmitPut \/ HealthPut \/ FinalPut) /\ ~HandleEvent /\ ~HandleReport /\ ~WriterPanics
      <4>1. ppc' # ppc /\ ppc # "send"
        BY <2>1
      <4> QED BY <1>1, <4>1 DEF EmitPut, Put, SenderControl, HealthPut, FinalPut, HandleEvent, HandleReport, WriterPanics, others, pipelineVars
    <3> QED BY <3>1, QuietLine
  <2>3. backing = {} /\ b = 1
    BY <1>1, <1>3, <2>1 DEF SenderControl, Refused
  <2>4. /\ l = EventsIn(Line') /\ p = Len(adding'["pipeline"]) /\ j = stats'.rejected /\ (d + 1) = drops'
        /\ 0 = (IF backing' # {} \/ ppc' = "drop" THEN 1 ELSE 0) /\ x = emitted'
    BY <1>3, <2>1, <2>2, <2>3
  <2>5. 0 \in Nat /\ d + 1 \in Nat /\ l + p + j + (d + 1) + 0 <= x /\ (wpc # "dead" => l + p + j + (d + 1) + 0 = x)
    BY <1>4, <2>3
  <2> QED BY <1>4, <1>5, <2>1, <2>4, <2>5
<1>11. CASE HandleEvent
  <2>1. PICK a \in {0, 1}, k \in {0, 1}, c \in {0, 1} :
           /\ a + k + c = 1
           /\ stats'.rejected = stats.rejected + k /\ drops' = drops + c
           /\ EventMoved(Completed, Line, Completed', Line', a)
    BY <1>11, EventLine
  <2>2. PICK l2 \in Nat : l2 = EventsIn(Line') /\ l = l2 + 1 - a
    BY <1>3, <2>1 DEF EventMoved
  <2>3. adding' = adding /\ backing' = backing /\ ppc' = ppc /\ emitted' = emitted
    BY <1>11 DEF HandleEvent, others, pipelineVars, queueVars
  <2>4. /\ l2 = EventsIn(Line') /\ p = Len(adding'["pipeline"]) /\ (j + k) = stats'.rejected /\ (d + c) = drops'
        /\ b = (IF backing' # {} \/ ppc' = "drop" THEN 1 ELSE 0) /\ x = emitted'
    BY <1>3, <2>1, <2>2, <2>3 DEF Refused
  <2>5. /\ j + k \in Nat /\ d + c \in Nat /\ l2 + p + (j + k) + (d + c) + b <= x
        /\ (wpc # "dead" => l2 + p + (j + k) + (d + c) + b = x)
    BY <1>4, <2>1, <2>2
  <2>6. Seen' = l2 + p + (j + k) + (d + c) + b /\ emitted' = x
    BY <1>a, <2>4 DEF Seen, Refused
  <2> QED BY <1>4, <1>6, <2>5, <2>6 DEF AccountInv
<1>12. CASE ~Emit /\ ~EmitPut /\ ~EmitRefused /\ ~EmitDrop /\ ~HandleEvent
  <2>1. /\ stats'.rejected = stats.rejected /\ drops' = drops /\ backing' = backing /\ emitted' = emitted
        /\ adding'["pipeline"] = adding["pipeline"]
        /\ ppc' = ppc \/ (ppc = "run" /\ ppc' \in {"ended", "panicked"})
    BY <1>12, RestCounts
  <2>2. /\ p = Len(adding'["pipeline"]) /\ j = stats'.rejected /\ d = drops'
        /\ b = (IF backing' # {} \/ ppc' = "drop" THEN 1 ELSE 0) /\ x = emitted'
    BY <1>3, <2>1 DEF Refused
  <2>3. PICK l2 \in Nat : l2 = EventsIn(Line') /\ l2 <= l /\ (wpc' # "dead" => l2 = l)
    <3>1. CASE Line' = Line
      BY <1>3, <3>1
    <3>2. CASE HandleReport
      <4>1. EventsIn(Line') = EventsIn(Line)
        BY <3>2, ReportLine DEF ReportMoved
      <4> QED BY <1>3, <4>1
    <3>3. CASE WriterPanics
      <4>1. PICK L \in Seq(Msgs), q \in Seq(Msgs) : L = Line' /\ q = chan /\ Line = L \o q
        BY <1>1, <1>2, <3>3, PanicLine, RecordTypes
      <4>2. EventsIn(L \o q) = EventsIn(L) + EventsIn(q) /\ EventsIn(L) \in Nat /\ EventsIn(q) \in Nat
        BY Cat
      <4>3. wpc' = "dead"
        BY <3>3, PanicLine
      <4>4. l = EventsIn(L) + EventsIn(q)
        BY <1>3, <4>1, <4>2
      <4>5. EventsIn(L) <= l
        BY <4>2, <4>4
      <4> QED BY <4>1, <4>2, <4>3, <4>5
    <3>4. CASE HealthPut \/ FinalPut
      <4>1. PICK s \in Senders :
             /\ adding'[s] = <<>> /\ adding[s] # <<>>
             /\ \/ rxOpen /\ chan' = chan \o adding[s] /\ len' = len
                \/ ~rxOpen /\ chan' = chan /\ len' = len - 1
        BY <3>4, EachPut
      <4>2. s # "pipeline"
        BY <2>1, <4>1
      <4>3. adding[s] \in Seq(Msgs) /\ EventsIn(adding[s]) = 0
        BY <4>1, <4>2, InHands
      <4>4. PICK L \in Seq(Msgs), a \in Seq(Msgs) : L = Line /\ a = adding[s]
        BY <1>2, <4>3
      <4>5. EventsIn(L \o a) = EventsIn(L) + EventsIn(a)
        BY Cat
      <4>6. Line' = IF rxOpen THEN Line \o adding[s] ELSE Line
        BY <3>4, <4>1, PutLine
      <4>7. EventsIn(Line') = EventsIn(Line)
        <5>1. CASE rxOpen
          BY <1>3, <4>3, <4>4, <4>5, <4>6, <5>1
        <5>2. CASE ~rxOpen
          BY <4>6, <5>2
        <5> QED BY <5>1, <5>2
      <4> QED BY <1>3, <4>7
    <3> QED BY <1>12, <3>1, <3>2, <3>3, <3>4, QuietLine
  <2>4. l2 + p + j + d + b <= x /\ (wpc' # "dead" => l2 + p + j + d + b = x)
    <3>1. l2 + p + j + d + b <= x
      <4>1. l2 \in Nat /\ l2 <= l
        BY <2>3
      <4> QED BY <1>4, <4>1
    <3>2. ASSUME wpc' # "dead" PROVE l2 + p + j + d + b = x
      <4>1. l2 = l /\ wpc # "dead"
        BY <1>6, <2>3, <3>2
      <4> QED BY <1>4, <4>1
    <3> QED BY <3>1, <3>2
  <2>5. Seen' = l2 + p + j + d + b /\ emitted' = x
    BY <1>a, <2>2, <2>3 DEF Seen, Refused
  <2> QED BY <1>4, <2>4, <2>5 DEF AccountInv
<1> QED BY <1>7, <1>8, <1>9, <1>10, <1>11, <1>12

\* FinalInv, with the newest report's condition by its name.
LEMMA FinalIs ==
    FinalInv <=> /\ FinalLast(Line)
                 /\ mpc \notin {"join", "done"} => NoFinal(Line)
                 /\ mpc \in {"send", "join", "done"} => nreports > 0 /\ Newest(Line, nreports)
                 /\ NoFinal(Completed) \/ (reported.drops = drops /\ reported.rejected = stats.rejected)
BY DEF FinalInv, Newest

\* The main thread never goes back, and no report follows the final one.
LEMMA MainStep ==
    ASSUME StoreInv, Next
    PROVE  /\ mpc \in {"join", "done"} => mpc' \in {"join", "done"}
           /\ mpc' \in {"send", "join", "done"} => FinalReport \/ (mpc \in {"send", "join", "done"} /\ nreports' = nreports)
           /\ reported' = reported \/ HandleReport
<1>1. SenderControl
  BY DEF StoreInv
<1>2. CASE Main
  <2>1. reported' = reported
    BY <1>2, NotCore
  <2>2. CASE FinalReport
    BY <2>1, <2>2 DEF FinalReport
  <2>3. CASE FinalPut
    BY <2>1, <2>3 DEF FinalPut, Put, PutFails, healthVars, SenderControl, StoreInv
  <2>4. CASE StopAsked \/ DeathSeen \/ JoinHealth \/ JoinWriter
    BY <2>1, <2>4 DEF StopAsked, DeathSeen, JoinHealth, JoinWriter, healthVars
  <2> QED BY <1>2, <2>2, <2>3, <2>4 DEF Main
<1>3. CASE HealthSnapshot
  <2>1. mpc' = mpc /\ hpc = "answered" /\ reported' = reported
    BY <1>3 DEF HealthSnapshot, coreVars, logVars
  <2> QED BY <1>1, <2>1 DEF SenderControl
<1>4. CASE HealthAsks \/ HealthTimesOut \/ HealthPut \/ HealthEnds
  BY <1>4 DEF HealthAsks, HealthTimesOut, HealthPut, HealthEnds, coreVars, logVars
<1>5. CASE Pipeline \/ SessionLoses
  BY <1>5 DEF Pipeline, SessionLoses, Emit, EmitPut, EmitRefused, EmitDrop, PipelineCounts, PipelineAnswers, PipelineEnds,
      PipelinePanics, coreVars, logVars, healthVars
<1>6. CASE Core
  BY <1>6 DEF Core, Tick, Receive, Received, ReceiveEnds, Disconnected, WriterPanics, TickIdle, TickWrites,
      TickFails, Close, CloseFails, HandleEvent, HandleReport, others, logVars, healthVars
<1> QED BY <1>2, <1>3, <1>4, <1>5, <1>6 DEF Next, Health

\* No final report on the way, so none completed.
LEMMA NoFinalParts ==
    ASSUME Types, NoFinal(Line)
    PROVE  NoFinal(Completed) /\ FinalLast(Line)
<1>1. PICK C \in Seq(Msgs), x \in Seq(Msgs), q \in Seq(Msgs) : C = Completed /\ x = cur /\ q = chan
  BY RecordTypes
<1>2. PICK D : D = C \o x
  OBVIOUS
<1>3. D \in Seq(Msgs) /\ (NoFinal(D) <=> NoFinal(C) /\ NoFinal(x))
  BY <1>2, Cat
<1>4. NoFinal(D \o q) <=> NoFinal(D) /\ NoFinal(q)
  BY <1>3, Cat
<1>5. Line = D \o q
  BY <1>1, <1>2 DEF Line
<1>6. NoFinal(Completed)
  BY <1>1, <1>3, <1>4, <1>5
<1>7. FinalLast(Line)
  BY DEF NoFinal, FinalLast
<1> QED BY <1>6, <1>7

\* While a sender other than main holds a message, no final report was sent.
LEMMA NotYetFinal ==
    ASSUME StoreInv, adding["pipeline"] # <<>> \/ adding["health"] # <<>> \/ ppc = "drop"
    PROVE  mpc \notin {"send", "join", "done"}
<1>1. SenderControl
  BY DEF StoreInv
<1> QED BY <1>1 DEF SenderControl, PipelineGone

\* The final report stays behind everything.
LEMMA FinalStep ==
    ASSUME StoreInv, Next
    PROVE  FinalInv'
<1>1. /\ Types /\ SenderControl /\ FinalLast(Line) /\ (mpc \notin {"join", "done"} => NoFinal(Line))
      /\ mpc \in {"send", "join", "done"} => nreports > 0 /\ Newest(Line, nreports)
      /\ NoFinal(Completed) \/ (reported.drops = drops /\ reported.rejected = stats.rejected)
  BY FinalIs DEF StoreInv
<1>2. Line \in Seq(Msgs) /\ Line' \in Seq(Msgs) /\ nreports \in Nat /\ Types'
  BY <1>1, TypesStep, LineNext, LineSeq DEF LineTyped, Types, NTypes
<1>3. SUFFICES /\ FinalLast(Line')
               /\ mpc' \notin {"join", "done"} => NoFinal(Line')
               /\ mpc' \in {"send", "join", "done"} => nreports' > 0 /\ Newest(Line', nreports')
               /\ NoFinal(Completed') \/ (reported'.drops = drops' /\ reported'.rejected = stats'.rejected)
  <2>1. /\ (FinalLast(Line))' <=> FinalLast(Line')
        /\ (NoFinal(Line))' <=> NoFinal(Line')
        /\ (NoFinal(Completed))' <=> NoFinal(Completed')
        /\ (Newest(Line, nreports))' <=> Newest(Line', nreports')
    OBVIOUS
  <2> QED BY <2>1 DEF FinalInv, Newest
<1>4. /\ mpc \in {"join", "done"} => mpc' \in {"join", "done"}
      /\ mpc' \in {"send", "join", "done"} => FinalReport \/ (mpc \in {"send", "join", "done"} /\ nreports' = nreports)
      /\ reported' = reported \/ HandleReport
  BY MainStep
<1>5. NoFinal(Line) => NoFinal(Completed)
  BY <1>1, NoFinalParts
<1>6. CASE Line' = Line /\ Completed' = Completed /\ ~HandleReport /\ ~HandleEvent
  <2>1. mpc' \in {"send", "join", "done"} => nreports' > 0 /\ Newest(Line', nreports')
    <3>1. CASE FinalReport
      <4>1. nreports' = nreports + 1
        BY <3>1, FinalSends
      <4>2. PICK L \in Seq(Msgs), r \in Int, e \in Int : L = Line /\ r = ReportsTo /\ e = EventsTo /\ r <= nreports
        <5>1. ReportsTo \in Int /\ EventsTo \in Int
          BY BoundsStep
        <5>2. ReportsTo <= nreports
          <6>1. PICK h \in {0, 1}, k \in {0, 1} : h = Len(adding["health"]) /\ k = Len(adding["main"])
            BY <1>1, HandsIs, Senders3 DEF Types
          <6>2. nreports - h - k <= nreports
            BY <1>2
          <6> QED BY <6>1, <6>2 DEF ReportsTo
        <5> QED BY <1>2, <5>1, <5>2
      <4>3. Below(L, e, r)
        BY <4>2, OrderIs DEF StoreInv
      <4>4. \A i \in DOMAIN L : ~IsEvent(L[i]) => L[i].n <= r
        BY <4>3 DEF Below
      <4>5. \A i \in DOMAIN L : L[i].n \in Nat
        <5>1. \A i \in DOMAIN L : L[i] \in Msgs
          BY ElementOfSeq, LenProperties
        <5> QED BY <5>1, MsgFacts
      <4>6. \A i \in DOMAIN L : ~IsEvent(L[i]) => L[i].n # nreports + 1
        BY <1>2, <4>2, <4>4, <4>5
      <4>7. nreports + 1 > 0
        BY <1>2
      <4> QED BY <1>6, <4>1, <4>2, <4>6, <4>7 DEF Newest
    <3> QED BY <1>1, <1>4, <1>6, <3>1
  <2>2. NoFinal(Completed') \/ (reported'.drops = drops' /\ reported'.rejected = stats'.rejected)
    <3>1. CASE EmitDrop
      <4>1. ppc = "drop"
        BY <3>1 DEF EmitDrop
      <4> QED BY <1>1, <1>5, <1>6, <4>1, NotYetFinal
    <3>2. CASE Emit \/ EmitPut \/ EmitRefused
      <4>1. drops' = drops /\ stats' = stats /\ reported' = reported
        BY <3>2 DEF Emit, EmitPut, EmitRefused, coreVars, logVars
      <4> QED BY <1>1, <1>6, <4>1
    <3>3. CASE ~Emit /\ ~EmitPut /\ ~EmitRefused /\ ~EmitDrop /\ ~HandleEvent
      <4>1. stats'.rejected = stats.rejected /\ drops' = drops /\ reported' = reported
        BY <1>4, <1>6, <3>3, RestCounts
      <4> QED BY <1>1, <1>6, <4>1
    <3> QED BY <1>6, <3>1, <3>2, <3>3
  <2> QED BY <1>1, <1>4, <1>6, <2>1, <2>2
<1>7. CASE HandleEvent
  <2>1. PICK a \in {0, 1} : EventMoved(Completed, Line, Completed', Line', a)
    BY <1>7, EventLine
  <2>2. mpc' = mpc /\ nreports' = nreports
    BY <1>7 DEF HandleEvent, others, healthVars
  <2> QED BY <1>1, <2>1, <2>2 DEF EventMoved
<1>8. CASE HandleReport
  <2>1. PICK r \in FullReports, whole \in BOOLEAN : ReportMoved(Completed, Line, Completed', Line', r, whole)
    BY <1>8, ReportLine
  <2>2. mpc' = mpc /\ nreports' = nreports
    BY <1>8 DEF HandleReport, others, healthVars
  <2>3. reported'.drops = drops' /\ reported'.rejected = stats'.rejected
    BY <1>1, <1>8, ReportCounts
  <2> QED BY <1>1, <2>1, <2>2, <2>3 DEF ReportMoved
<1>9. CASE WriterPanics
  <2>1. PICK L \in Seq(Msgs), q \in Seq(Msgs) : L = Line' /\ q = chan /\ Line = L \o q
    BY <1>1, <1>2, <1>9, PanicLine, RecordTypes
  <2>2. Completed' = Completed /\ mpc' = mpc /\ nreports' = nreports /\ reported' = reported /\ drops' = drops /\ stats' = stats
    BY <1>9, PanicLine DEF others, healthVars, logVars
  <2>3. FinalLast(L \o q) => FinalLast(L)
    <3>1. FinalLast(L \o q) => NoFinal(L) \/ FinalLast(L)
      BY Cat
    <3>2. NoFinal(L) => FinalLast(L)
      BY DEF NoFinal, FinalLast
    <3> QED BY <3>1, <3>2
  <2>4. (NoFinal(L \o q) => NoFinal(L)) /\ (\A n : Newest(L \o q, n) => Newest(L, n))
    BY Cat
  <2> QED BY <1>1, <2>1, <2>2, <2>3, <2>4
<1>10. CASE EmitPut \/ HealthPut \/ FinalPut
  <2>1. PICK s \in Senders :
             /\ Put(s) \/ PutFails(s)
             /\ adding'[s] = <<>> /\ adding[s] # <<>>
             /\ \A o \in Senders \ {s} : adding'[o] = adding[o]
             /\ \/ rxOpen /\ chan' = chan \o adding[s]
                \/ ~rxOpen /\ chan' = chan
             /\ nreports' = nreports
    BY <1>10, EachPut
  <2>2. Completed' = Completed /\ Line' = IF rxOpen THEN Line \o adding[s] ELSE Line
    BY <1>10, <2>1, PutLine
  <2>3. CASE ~rxOpen
    <3>1. wpc' = wpc
      BY <1>10, NotCore DEF Pipeline, Health, Main
    <3>2. ~HandleEvent /\ ~HandleReport
      BY <3>1 DEF HandleEvent, HandleReport
    <3> QED BY <1>6, <2>2, <2>3, <3>2
  <2>4. CASE rxOpen
    <3>1. PICK m \in Sent : /\ adding[s] = <<m>> /\ (IsEvent(m) <=> s = "pipeline")
                            /\ m.n = (IF s = "pipeline" THEN emitted ELSE nreports)
                            /\ s # "pipeline" => (m.final <=> s = "main")
      BY <2>1, InHands
    <3>2. m \in Msgs /\ <<m>> \in Seq(Msgs)
      <4>1. m \in Msgs
        BY DEF Msgs
      <4> QED BY <4>1, One
    <3>3. Final(m) <=> s = "main"
      BY <3>1, Senders3 DEF Final
    <3>4. /\ NoFinal(<<m>>) <=> s # "main"
          /\ FinalLast(<<m>>)
          /\ s = "main" => \A n : Newest(<<m>>, n)
      BY <3>2, <3>3, One
    <3>5. PICK L \in Seq(Msgs), a \in Seq(Msgs) : L = Line /\ a = <<m>>
      BY <1>2, <3>2
    <3>6. /\ NoFinal(L \o a) <=> NoFinal(L) /\ NoFinal(a)
          /\ FinalLast(L \o a) <=> FinalLast(a) /\ (NoFinal(L) \/ (a = <<>> /\ FinalLast(L)))
          /\ \A n : Newest(L \o a, n) <=> Newest(L, n) /\ Newest(a, n)
      BY Cat
    <3>7. Line' = L \o a
      BY <2>2, <2>4, <3>1, <3>5
    <3>8. CASE s # "main"
      <4>1. mpc \notin {"send", "join", "done"}
        BY <2>1, <3>8, NotYetFinal, Senders3
      <4>2. mpc' \notin {"send", "join", "done"}
        BY <1>4, <1>10, <4>1 DEF EmitPut, HealthPut, FinalPut, FinalReport
      <4>3. NoFinal(Line')
        BY <1>1, <3>4, <3>5, <3>6, <3>7, <3>8, <4>1
      <4>4. FinalLast(Line')
        BY <4>3 DEF NoFinal, FinalLast
      <4> QED BY <1>1, <1>5, <2>2, <4>1, <4>2, <4>3, <4>4
    <3>9. CASE s = "main"
      <4>1. mpc = "send"
        BY <1>1, <2>1, <3>9 DEF SenderControl
      <4>2. mpc' = "join"
        <5>1. CASE EmitPut
          <6>1. adding["pipeline"] # <<>> /\ adding'["pipeline"] = <<>>
            BY <5>1, PutIs, Senders3 DEF EmitPut
          <6> QED BY <2>1, <3>9, <6>1, Senders3
        <5>2. CASE HealthPut
          <6>1. adding["health"] # <<>> /\ adding'["health"] = <<>>
            BY <5>2, PutIs, Senders3 DEF HealthPut
          <6> QED BY <2>1, <3>9, <6>1, Senders3
        <5>3. CASE FinalPut
          BY <5>3 DEF FinalPut
        <5> QED BY <1>10, <5>1, <5>2, <5>3
      <4>3. NoFinal(Line) /\ nreports > 0 /\ Newest(Line, nreports)
        BY <1>1, <4>1
      <4>4. FinalLast(Line') /\ Newest(Line', nreports')
        BY <2>1, <3>4, <3>5, <3>6, <3>7, <3>9, <4>3
      <4> QED BY <1>5, <2>1, <2>2, <4>2, <4>3, <4>4
    <3> QED BY <3>8, <3>9
  <2> QED BY <2>3, <2>4
<1>11. CASE ~(EmitPut \/ HealthPut \/ FinalPut) /\ ~HandleEvent /\ ~HandleReport /\ ~WriterPanics
  BY <1>6, <1>11, QuietLine
<1> QED BY <1>7, <1>8, <1>9, <1>10, <1>11

\* The number of the report a sender holds, and what NoneMissing says of it.
ToCome == IF adding["health"] = <<>> /\ adding["main"] = <<>> THEN {} ELSE {nreports}
Coming == NoneMissing <=> Numbers(Reports(Line)) \cup ToCome = 1..nreports
\* What is missing is what is still to come.
LEMMA ComingIs == Types /\ AddingInv /\ SenderControl => Coming
<1> SUFFICES ASSUME Types, AddingInv, SenderControl
             PROVE  Coming
  OBVIOUS
<1>1. PICK L \in Seq(Msgs), h \in Seq(Msgs), m \in Seq(Msgs) : L = Line /\ h = adding["health"] /\ m = adding["main"]
  <2>1. adding["health"] \in Seq(Msgs) /\ adding["main"] \in Seq(Msgs)
    BY SeqTypes, Senders3 DEF Types, QTypes
  <2> QED BY <2>1, RecordTypes
<1>2. PICK D : D = L \o h
  OBVIOUS
<1>3. D \in Seq(Msgs) /\ Reports(D) = Reports(L) \cup Reports(h)
  BY <1>2, Cat
<1>4. Reports(D \o m) = Reports(D) \cup Reports(m)
  BY <1>3, Cat
<1>5. Reports(Line \o adding["health"] \o adding["main"]) = Reports(L) \cup Reports(h) \cup Reports(m)
  BY <1>1, <1>2, <1>3, <1>4
<1>6. ASSUME NEW s \in {"health", "main"}, adding[s] # <<>>
      PROVE  Numbers(Reports(adding[s])) = {nreports}
  <2>1. PICK r : adding[s] = <<r>> /\ r.kind = "report" /\ r.n = nreports
    <3>1. PICK f : adding[s] = <<[kind |-> "report", n |-> nreports, final |-> f]>>
      BY <1>6 DEF AddingInv
    <3> QED BY <3>1
  <2>2. Reports(adding[s]) = {r}
    BY <2>1 DEF Reports, IsEvent
  <2> QED BY <2>1, <2>2 DEF Numbers
<1>7. Numbers(Reports(<<>>)) = {}
  BY None DEF Numbers
<1>8. Numbers(Reports(h)) \cup Numbers(Reports(m)) = ToCome
  BY <1>1, <1>6, <1>7 DEF ToCome
<1>9. PICK R, S, T : R = Reports(L) /\ S = Reports(h) /\ T = Reports(m)
  OBVIOUS
<1>10. Numbers(R \cup S \cup T) = Numbers(R) \cup (Numbers(S) \cup Numbers(T))
  BY DEF Numbers
<1>11. Numbers(Reports(Line \o adding["health"] \o adding["main"])) = Numbers(Reports(Line)) \cup ToCome
  BY <1>1, <1>5, <1>8, <1>9, <1>10
<1> QED BY <1>11 DEF Coming, NoneMissing

\* ComingIs, after a step.
LEMMA ComingNext == Types' /\ AddingInv' /\ SenderControl' => Coming'
BY ComingIs, PTL

\* The reports on their way are older than the one a sender holds.
LEMMA ComingBelow ==
    ASSUME StoreInv
    PROVE  /\ Coming
           /\ \A n \in Numbers(Reports(Line)) : n \in Nat /\ n > 0 /\ n <= nreports
           /\ adding["health"] # <<>> \/ adding["main"] # <<>> => nreports > 0 /\ nreports \notin Numbers(Reports(Line))
<1>1. Types /\ AddingInv /\ SenderControl /\ QTypes /\ nreports \in Nat /\ OrderInv /\ emitted \in Nat
  BY DEF StoreInv, Types, NTypes
<1>2. Coming
  BY <1>1, ComingIs
<1>3. PICK h \in {0, 1}, m \in {0, 1}, p \in {0, 1} :
        h = Len(adding["health"]) /\ m = Len(adding["main"]) /\ p = Len(adding["pipeline"])
  BY <1>1, HandsIs, Senders3
<1>4. PICK e \in Int, r \in Int : e = emitted - p /\ r = nreports - h - m
  BY <1>1
<1>5. PICK L \in Seq(Msgs) : L = Line
  BY <1>1, RecordTypes
<1>6. Below(L, e, r)
  BY <1>1, <1>3, <1>4, <1>5 DEF OrderInv
<1>7. \A n \in Numbers(Reports(L)) : n \in Nat /\ n > 0 /\ n <= r
  BY <1>6, NumbersBelow
<1>8. r <= nreports
  BY <1>1, <1>4
<1>9. \A n \in Numbers(Reports(L)) : n \in Nat /\ n > 0 /\ n <= nreports
  BY <1>1, <1>7, <1>8
<1>10. ASSUME NEW s \in {"health", "main"}, adding[s] # <<>>
       PROVE  nreports > 0 /\ nreports \notin Numbers(Reports(L))
  <2>1. PICK k \in Sent : adding[s] = <<k>> /\ k.n = (IF s = "pipeline" THEN emitted ELSE nreports)
    BY <1>10, InHands, Senders3
  <2>2. k \in Msgs
    BY DEF Msgs
  <2>3. nreports > 0
    BY <2>1, <2>2, MsgFacts
  <2>4. r < nreports
    <3>1. Len(adding[s]) = 1
      BY <1>10, InHands, Senders3
    <3>2. h = 1 \/ m = 1
      BY <1>3, <3>1
    <3> QED BY <1>1, <1>4, <3>2
  <2>5. \A n \in Nat : n <= r => n # nreports
    BY <1>1, <2>4
  <2> QED BY <1>1, <1>7, <2>3, <2>5
<1> HIDE DEF Line
<1> QED BY <1>2, <1>5, <1>9, <1>10

\* Only the writer, when it handles a report, takes the figures.
LEMMA FiguresKeep ==
    ASSUME StoreInv, Next, ~HandleReport
    PROVE  \E e \in {0, 1}, d \in {0, 1}, j \in {0, 1} :
             /\ evicted' = evicted + e /\ stats'.gaps = stats.gaps + e
             /\ drops' = drops + d /\ stats'.rejected = stats.rejected + j
             /\ reported' = reported
             /\ \A f \in {"gap", "drops", "rejected"} : Told(Completed', f) = Told(Completed, f)
<1>1. /\ stats \in [rejected : Nat, gaps : Nat] /\ evicted \in Nat /\ drops \in Nat
      /\ stats.gaps \in Nat /\ stats.rejected \in Nat
  <2>1. stats \in [rejected : Nat, gaps : Nat]
    BY DEF StoreInv, Types, RTypes
  <2> QED BY <2>1 DEF StoreInv, Types, NTypes
<1>2. evicted = evicted + 0 /\ stats.gaps = stats.gaps + 0 /\ drops = drops + 0 /\ stats.rejected = stats.rejected + 0
  BY <1>1
<1>3. reported' = reported
  BY MainStep
<1>4. ~HandleEvent => Completed' = Completed
  <2>1. CASE EmitPut \/ HealthPut \/ FinalPut
    <3>1. UNCHANGED <<held, backlog, log>>
      BY <2>1, NotCore DEF Pipeline, Health, Main
    <3> QED BY <3>1, SameRecords
  <2>2. CASE WriterPanics
    BY <2>2, PanicLine
  <2> QED BY <2>1, <2>2, QuietLine
<1>5. CASE HandleEvent
  <2>1. PICK a \in {0, 1}, j \in {0, 1}, d \in {0, 1} :
           /\ stats'.gaps = stats.gaps /\ stats'.rejected = stats.rejected + j /\ drops' = drops + d
           /\ EventMoved(Completed, Line, Completed', Line', a)
    BY <1>5, EventLine
  <2>2. evicted' = evicted
    BY <1>5 DEF HandleEvent
  <2>3. \A f \in {"gap", "drops", "rejected"} : Told(Completed', f) = Told(Completed, f)
    BY <2>1 DEF EventMoved
  <2>4. evicted' = evicted + 0 /\ stats'.gaps = stats.gaps + 0 /\ 0 \in {0, 1}
    BY <1>2, <2>1, <2>2
  <2> QED BY <1>3, <2>1, <2>3, <2>4
<1>6. CASE Emit \/ EmitPut \/ EmitRefused
  <2>1. drops' = drops /\ stats' = stats /\ evicted' = evicted
    BY <1>6 DEF Emit, EmitPut, EmitRefused, coreVars, logVars
  <2>2. ~HandleEvent
    <3>1. wpc' = wpc
      BY <1>6, NotCore DEF Pipeline
    <3> QED BY <3>1 DEF HandleEvent
  <2>3. evicted' = evicted + 0 /\ stats'.gaps = stats.gaps + 0 /\ drops' = drops + 0 /\ stats'.rejected = stats.rejected + 0 /\ 0 \in {0, 1}
    BY <1>2, <2>1
  <2> QED BY <1>3, <1>4, <2>2, <2>3
<1>7. CASE EmitDrop
  <2>1. drops' = drops + 1 /\ stats' = stats /\ evicted' = evicted /\ wpc' = wpc
    BY <1>7 DEF EmitDrop, coreVars, logVars
  <2>2. ~HandleEvent
    BY <2>1 DEF HandleEvent
  <2>3. evicted' = evicted + 0 /\ stats'.gaps = stats.gaps + 0 /\ stats'.rejected = stats.rejected + 0 /\ 0 \in {0, 1} /\ 1 \in {0, 1}
    BY <1>2, <2>1
  <2> QED BY <1>3, <1>4, <2>1, <2>2, <2>3
<1>8. CASE ~Emit /\ ~EmitPut /\ ~EmitRefused /\ ~EmitDrop /\ ~HandleEvent
  <2>1. stats'.rejected = stats.rejected /\ drops' = drops
    BY <1>8, RestCounts
  <2>2. PICK e \in {0, 1} : evicted' = evicted + e /\ stats'.gaps = stats.gaps + e
    <3>1. CASE Pipeline \/ SessionLoses \/ Health \/ Main
      <4>1. stats' = stats /\ evicted' = evicted
        BY <3>1, NotCore
      <4> QED BY <1>2, <4>1
    <3>2. CASE Receive \/ Received \/ ReceiveEnds \/ Disconnected \/ WriterPanics \/ TickIdle
      <4>1. stats' = stats /\ evicted' = evicted
        BY <3>2 DEF Receive, Received, ReceiveEnds, Disconnected, WriterPanics, TickIdle, logVars
      <4> QED BY <1>2, <4>1
    <3>3. CASE TickWrites \/ TickFails \/ Close \/ CloseFails
      <4>1. MayEvict
        BY <3>3 DEF TickWrites, TickFails, Close, CloseFails
      <4> QED BY <1>1, <4>1, EvictIs
    <3> QED BY <1>8, <3>1, <3>2, <3>3 DEF Next, Core, Tick
  <2>3. drops' = drops + 0 /\ stats'.rejected = stats.rejected + 0 /\ 0 \in {0, 1}
    BY <1>2, <2>1
  <2> QED BY <1>3, <1>4, <1>8, <2>2, <2>3
<1> QED BY <1>5, <1>6, <1>7, <1>8

\* A report that is missing stays missing.
LEMMA MissingStays ==
    ASSUME StoreInv, Next, NoneMissing', ~WriterPanics
    PROVE  /\ NoneMissing
           /\ HandleReport => Numbers(Reports(Line')) = Numbers(Reports(Line))
<1>1. /\ Coming /\ Coming' /\ nreports \in Nat /\ Types
      /\ \A n \in Numbers(Reports(Line)) : n \in Nat /\ n > 0 /\ n <= nreports
      /\ adding["health"] # <<>> \/ adding["main"] # <<>> => nreports > 0 /\ nreports \notin Numbers(Reports(Line))
  BY ComingBelow, ComingNext, TypesStep, AddingStep, SenderStep DEF StoreInv, Types, NTypes
<1>2. PICK N, T, N2, T2 : N = Numbers(Reports(Line)) /\ T = ToCome /\ N2 = Numbers(Reports(Line')) /\ T2 = ToCome'
  OBVIOUS
<1>3. (NoneMissing <=> N \cup T = 1..nreports) /\ N2 \cup T2 = 1..nreports'
  BY <1>1, <1>2 DEF Coming
<1>4. CASE Reports(Line') = Reports(Line) /\ adding'["health"] = adding["health"] /\ adding'["main"] = adding["main"]
           /\ nreports' = nreports /\ ~HandleReport
  <2>1. N2 = N /\ T2 = T
    BY <1>2, <1>4 DEF ToCome
  <2> QED BY <1>3, <1>4, <2>1
<1>5. CASE EmitPut \/ HealthPut \/ FinalPut
  <2>1. PICK s \in Senders :
             /\ adding'[s] = <<>> /\ adding[s] # <<>>
             /\ \A o \in Senders \ {s} : adding'[o] = adding[o]
             /\ \/ rxOpen /\ chan' = chan \o adding[s]
                \/ ~rxOpen /\ chan' = chan
             /\ nreports' = nreports
             /\ s = "pipeline" => rxOpen
    BY <1>5, EachPut
  <2>2. Line' = IF rxOpen THEN Line \o adding[s] ELSE Line
    BY <1>5, <2>1, PutLine
  <2>3. ~HandleReport
    <3>1. wpc' = wpc
      BY <1>5, NotCore DEF Pipeline, Health, Main
    <3> QED BY <3>1 DEF HandleReport
  <2>4. PICK m \in Sent : /\ adding[s] = <<m>> /\ (IsEvent(m) <=> s = "pipeline")
                          /\ m.n = (IF s = "pipeline" THEN emitted ELSE nreports)
    BY <2>1, InHands
  <2>5. m \in Msgs /\ <<m>> \in Seq(Msgs) /\ Line \in Seq(Msgs)
    <3>1. m \in Msgs
      BY DEF Msgs
    <3> QED BY <1>1, <3>1, One, RecordTypes
  <2>6. rxOpen => Reports(Line') = Reports(Line) \cup Reports(<<m>>)
    <3>1. PICK L \in Seq(Msgs), a \in Seq(Msgs) : L = Line /\ a = <<m>>
      BY <2>5
    <3>2. Reports(L \o a) = Reports(L) \cup Reports(a)
      BY Cat
    <3> QED BY <2>2, <2>4, <3>1, <3>2
  <2>7. Reports(<<m>>) = IF IsEvent(m) THEN {} ELSE {m}
    BY <2>5, One
  <2>8. CASE s = "pipeline"
    <3>1. Reports(Line') = Reports(Line)
      BY <2>1, <2>4, <2>6, <2>7, <2>8
    <3> QED BY <1>4, <2>1, <2>3, <2>8, <3>1, Senders3
  <2>9. CASE s # "pipeline"
    <3>1. T = {nreports} /\ T2 = {}
      <4>1. T = {nreports}
        BY <1>2, <2>1, <2>9, Senders3 DEF ToCome
      <4>2. adding'["health"] = <<>> /\ adding'["main"] = <<>>
        BY <2>1, <2>9, Senders3, TwoHands
      <4> QED BY <1>2, <4>1, <4>2 DEF ToCome
    <3>2. CASE rxOpen
      <4>1. PICK R : R = Reports(Line)
        OBVIOUS
      <4>2. Reports(Line') = R \cup {m} /\ m.n = nreports
        BY <2>4, <2>6, <2>7, <2>9, <3>2, <4>1
      <4>3. Numbers(R \cup {m}) = Numbers(R) \cup {m.n}
        BY DEF Numbers
      <4>4. N2 = N \cup {nreports}
        BY <1>2, <4>1, <4>2, <4>3
      <4> QED BY <1>3, <2>1, <2>3, <3>1, <4>4
    <3>3. CASE ~rxOpen
      <4>1. N2 = N
        BY <1>2, <2>2, <3>3
      <4>2. nreports > 0 /\ nreports \notin N
        BY <1>1, <1>2, <2>1, <2>9, Senders3
      <4>3. nreports \in 1..nreports
        BY <1>1, <4>2
      <4> QED BY <1>3, <2>1, <3>1, <4>1, <4>2, <4>3
    <3> QED BY <3>2, <3>3
  <2> QED BY <2>8, <2>9
<1>6. CASE HandleReport
  <2>1. PICK r \in FullReports, whole \in BOOLEAN : ReportMoved(Completed, Line, Completed', Line', r, whole)
    BY <1>6, ReportLine
  <2>2. adding' = adding /\ nreports' = nreports
    BY <1>6 DEF HandleReport, others, healthVars, queueVars
  <2>3. T2 = T
    BY <1>2, <2>2 DEF ToCome
  <2>4. CASE whole
    <3>1. N2 = N
      BY <1>2, <2>1, <2>4 DEF ReportMoved
    <3> QED BY <1>2, <1>3, <2>2, <2>3, <3>1
  <2>5. CASE ~whole
    <3>1. PICK n : n \in N /\ n \notin N2
      <4>1. Ordered(Line)
        BY OrderIs DEF StoreInv
      <4> QED BY <1>2, <2>1, <2>5, <4>1 DEF ReportMoved
    <3>2. n \in Nat /\ n > 0 /\ n <= nreports /\ n \notin T
      <4>1. n \in Nat /\ n > 0 /\ n <= nreports
        BY <1>1, <1>2, <3>1
      <4>2. n \notin T
        BY <1>1, <1>2, <3>1 DEF ToCome
      <4> QED BY <4>1, <4>2
    <3>3. n \in 1..nreports
      BY <1>1, <3>2
    <3> QED BY <1>3, <2>2, <2>3, <3>1, <3>2, <3>3
  <2> QED BY <2>4, <2>5
<1>7. CASE (HealthSnapshot \/ FinalReport) /\ nreports' = nreports + 1
  <2>1. adding["health"] = <<>> /\ adding["main"] = <<>> /\ (adding'["health"] # <<>> \/ adding'["main"] # <<>>)
    <3>1. nreports' # nreports
      BY <1>1, <1>7
    <3> QED BY <1>7, <3>1, SnapshotSends, FinalSends
  <2>2. Line' = Line /\ ~HandleReport
    <3>1. wpc' = wpc
      BY <1>7, NotCore DEF Health, Main
    <3>2. ~(EmitPut \/ HealthPut \/ FinalPut) /\ ~HandleEvent /\ ~HandleReport /\ ~WriterPanics
      <4>1. nreports' # nreports
        BY <1>1, <1>7
      <4> QED BY <3>1, <4>1 DEF EmitPut, HealthPut, FinalPut, HandleEvent, HandleReport, WriterPanics, healthVars
    <3> QED BY <3>2, QuietLine
  <2>3. T = {} /\ T2 = {nreports + 1} /\ N2 = N
    BY <1>2, <1>7, <2>1, <2>2 DEF ToCome
  <2>4. \A n \in N : n \in 1..nreports
    BY <1>1, <1>2
  <2>5. \A n \in 1..nreports : n \in 1..(nreports + 1) /\ n # nreports + 1
    BY <1>1
  <2>6. N = 1..nreports
    BY <1>3, <1>7, <2>3, <2>4, <2>5
  <2> QED BY <1>3, <2>2, <2>3, <2>6
<1>8. CASE HandleEvent
  <2>1. PICK a \in {0, 1} : EventMoved(Completed, Line, Completed', Line', a)
    BY <1>8, EventLine
  <2>2. Reports(Line') = Reports(Line)
    BY <2>1 DEF EventMoved
  <2>3. adding' = adding /\ nreports' = nreports /\ ~HandleReport
    BY <1>8 DEF HandleReport, HandleEvent, others, healthVars, queueVars
  <2> QED BY <1>4, <2>2, <2>3
<1>9. CASE ~(EmitPut \/ HealthPut \/ FinalPut) /\ ~HandleEvent /\ ~HandleReport /\ ~(FinalReport \/ (HealthSnapshot /\ nreports' = nreports + 1))
  <2>1. Line' = Line
    BY <1>9, QuietLine
  <2>2. adding'["health"] = adding["health"] /\ adding'["main"] = adding["main"] /\ nreports' = nreports
    <3>1. CASE Emit
      BY <3>1, EmitIs, Senders3 DEF Emit, healthVars
    <3>2. CASE EmitRefused
      BY <3>2, RefusedIs, Senders3 DEF EmitRefused, healthVars
    <3>3. CASE HealthSnapshot
      BY <1>9, <3>3, SnapshotSends
    <3> QED BY <1>9, <3>1, <3>2, <3>3, HandsOrNot
  <2>3. Reports(Line') = Reports(Line)
    BY <2>1
  <2> QED BY <1>4, <1>9, <2>2, <2>3
<1>10. FinalReport => nreports' = nreports + 1
  BY FinalSends
<1> QED BY <1>5, <1>6, <1>7, <1>8, <1>9, <1>10

\* What was reported stays what the completed reports say.
LEMMA FigureStep ==
    ASSUME StoreInv, Next
    PROVE  FigureInv'
<1>1. /\ Types /\ FigureInv /\ Completed \in Seq(Stored) /\ Completed \in Seq(Msgs)
      /\ stats.gaps \in Nat /\ stats.rejected \in Nat /\ drops \in Nat /\ evicted \in Nat
      /\ reported.drops \in Nat /\ reported.rejected \in Nat
  <2>1. /\ stats \in [rejected : Nat, gaps : Nat] /\ reported \in [rejected : Nat, drops : Nat, recovery : BOOLEAN]
        /\ drops \in Nat /\ evicted \in Nat /\ Types
    BY DEF StoreInv, Types, RTypes, NTypes
  <2> QED BY <2>1, RecordTypes DEF StoreInv
<1>2. SUFFICES /\ reported'.drops <= drops' /\ reported'.rejected <= stats'.rejected
               /\ wpc' # "dead" /\ NoneMissing' =>
                    /\ evicted' = Told(Completed', "gap") + stats'.gaps
                    /\ reported'.drops = Told(Completed', "drops")
                    /\ reported'.rejected = Told(Completed', "rejected")
  <2>1. \A f \in {"gap", "drops", "rejected"} : (Told(Completed, f))' = Told(Completed', f)
    OBVIOUS
  <2>2. /\ (Told(Completed, "gap"))' = Told(Completed', "gap")
        /\ (Told(Completed, "drops"))' = Told(Completed', "drops")
        /\ (Told(Completed, "rejected"))' = Told(Completed', "rejected")
    OBVIOUS
  <2> QED BY <2>2 DEF FigureInv
<1>3. /\ reported.drops <= drops /\ reported.rejected <= stats.rejected
      /\ wpc # "dead" /\ NoneMissing =>
            /\ evicted = Told(Completed, "gap") + stats.gaps
            /\ reported.drops = Told(Completed, "drops")
            /\ reported.rejected = Told(Completed, "rejected")
  BY <1>1 DEF FigureInv
<1>4. ASSUME wpc' # "dead", NoneMissing'
      PROVE  /\ wpc # "dead" /\ NoneMissing
             /\ HandleReport => Numbers(Reports(Line')) = Numbers(Reports(Line))
  <2>1. ~WriterPanics
    BY <1>4, PanicLine
  <2> QED BY <1>4, <2>1, Dead, MissingStays
<1>5. Told(Completed, "gap") \in Nat /\ Told(Completed, "drops") \in Nat /\ Told(Completed, "rejected") \in Nat
  <2>1. Has(Completed, "gap") /\ Has(Completed, "drops") /\ Has(Completed, "rejected")
    BY <1>1, StoredSeq
  <2> QED BY <1>1, <2>1, UnitsFinite
<1>6. CASE ~HandleReport
  <2>1. PICK e \in {0, 1}, d \in {0, 1}, j \in {0, 1} :
             /\ evicted' = evicted + e /\ stats'.gaps = stats.gaps + e
             /\ drops' = drops + d /\ stats'.rejected = stats.rejected + j
             /\ reported' = reported
             /\ \A f \in {"gap", "drops", "rejected"} : Told(Completed', f) = Told(Completed, f)
    BY <1>6, FiguresKeep
  <2>2. reported'.drops <= drops' /\ reported'.rejected <= stats'.rejected
    <3>1. \A x, y \in Nat, z \in {0, 1} : x <= y => x <= y + z
      OBVIOUS
    <3> QED BY <1>1, <1>3, <2>1, <3>1
  <2>3. ASSUME wpc' # "dead", NoneMissing'
        PROVE  /\ evicted' = Told(Completed', "gap") + stats'.gaps
               /\ reported'.drops = Told(Completed', "drops")
               /\ reported'.rejected = Told(Completed', "rejected")
    <3>1. /\ evicted = Told(Completed, "gap") + stats.gaps
          /\ reported.drops = Told(Completed, "drops")
          /\ reported.rejected = Told(Completed, "rejected")
      BY <1>3, <1>4, <2>3
    <3>2. /\ Told(Completed', "gap") = Told(Completed, "gap") /\ Told(Completed', "drops") = Told(Completed, "drops")
          /\ Told(Completed', "rejected") = Told(Completed, "rejected")
      BY <2>1
    <3>3. \A g, h \in Nat, z \in {0, 1} : (g + h) + z = g + (h + z)
      OBVIOUS
    <3> QED BY <1>1, <1>5, <2>1, <3>1, <3>2, <3>3
  <2> QED BY <2>2, <2>3
<1>7. CASE HandleReport
  <2>1. PICK r \in FullReports, whole \in BOOLEAN :
           /\ r.gap = stats.gaps /\ r.drops = drops - reported.drops /\ r.rejected = stats.rejected - reported.rejected
           /\ ReportMoved(Completed, Line, Completed', Line', r, whole)
    BY <1>7, ReportLine
  <2>2. /\ stats'.gaps = 0 /\ stats'.rejected = stats.rejected /\ reported'.drops = drops /\ reported'.rejected = stats.rejected
        /\ drops' = drops /\ evicted' = evicted
    BY <1>1, <1>7, ReportCounts
  <2>3. reported'.drops <= drops' /\ reported'.rejected <= stats'.rejected
    BY <1>1, <2>2
  <2>4. ASSUME wpc' # "dead", NoneMissing'
        PROVE  /\ evicted' = Told(Completed', "gap") + stats'.gaps
               /\ reported'.drops = Told(Completed', "drops")
               /\ reported'.rejected = Told(Completed', "rejected")
    <3>1. /\ evicted = Told(Completed, "gap") + stats.gaps
          /\ reported.drops = Told(Completed, "drops")
          /\ reported.rejected = Told(Completed, "rejected")
      BY <1>3, <1>4, <2>4
    <3>2. whole
      <4>1. Numbers(Reports(Line')) = Numbers(Reports(Line))
        BY <1>4, <1>7, <2>4
      <4>2. Ordered(Line)
        BY OrderIs DEF StoreInv
      <4> QED BY <2>1, <4>1, <4>2 DEF ReportMoved
    <3>3. /\ Told(Completed', "gap") = Told(Completed, "gap") + r.gap
          /\ Told(Completed', "drops") = Told(Completed, "drops") + r.drops
          /\ Told(Completed', "rejected") = Told(Completed, "rejected") + r.rejected
      <4>1. \A f \in {"gap", "drops", "rejected"} : Told(Completed', f) = Told(Completed, f) + r[f]
        BY <2>1, <3>2 DEF ReportMoved
      <4> QED BY <4>1
    <3>4. PICK g \in Nat, d \in Nat, j \in Nat, g2 \in Nat, d2 \in Nat, j2 \in Nat :
             /\ g = Told(Completed, "gap") /\ d = Told(Completed, "drops") /\ j = Told(Completed, "rejected")
             /\ g2 = stats.gaps /\ d2 = drops /\ j2 = stats.rejected
      BY <1>1, <1>5
    <3>5. g + g2 = (g + g2) + 0 /\ d2 = d + (d2 - d) /\ j2 = j + (j2 - j)
      OBVIOUS
    <3> QED BY <2>1, <2>2, <3>1, <3>3, <3>4, <3>5
  <2> QED BY <2>3, <2>4
<1> QED BY <1>6, <1>7

-----------------------------------------------------------------------------
(* The invariant                                                             *)

\* The agent starts with nothing on its way.
LEMMA StoreStart ==
    ASSUME Init
    PROVE  StoreInv
<1>1. /\ chan = <<>> /\ len = 0 /\ adding = [s \in Senders |-> <<>>] /\ backing = {} /\ taken = FALSE /\ rxOpen = TRUE
      /\ ppc = "run" /\ emitted = 0 /\ count = 0 /\ lost = 0 /\ hpc = "wait" /\ answer = NotRead
      /\ base = [count |-> 0, lost |-> 0, drops |-> 0] /\ nreports = 0 /\ told = [count |-> 0, lost |-> 0]
      /\ mpc = "running" /\ drops = 0 /\ wpc = "recv" /\ cur = <<>> /\ held = <<>> /\ backlog = <<>> /\ log = <<>>
      /\ stats = [rejected |-> 0, gaps |-> 0] /\ reported = [rejected |-> 0, drops |-> 0, recovery |-> FALSE] /\ evicted = 0
  BY DEF Init, QueueInit
<1>2. adding["pipeline"] = <<>> /\ adding["health"] = <<>> /\ adding["main"] = <<>> /\ \A s \in Senders : adding[s] = <<>>
  BY <1>1, Senders3
<1>3. Len(<<>>) = 0 /\ 0 \in Nat /\ 0 - 0 = 0 /\ 0 + 0 = 0
  OBVIOUS
<1>4. Types
  <2>1. \A S : <<>> \in Seq(S)
    OBVIOUS
  <2>2. QTypes
    <3>1. adding \in [Senders -> Seq(Sent)]
      <4>1. <<>> \in Seq(Sent)
        OBVIOUS
      <4> QED BY <1>1, <4>1
    <3>2. chan \in Seq(Sent) /\ len \in Int /\ backing \in SUBSET {"pipeline"} /\ taken \in BOOLEAN /\ rxOpen \in BOOLEAN
      <4>1. chan \in Seq(Sent)
        BY <1>1
      <4>2. len \in Int
        BY <1>1
      <4>3. backing \in SUBSET {"pipeline"} /\ taken \in BOOLEAN /\ rxOpen \in BOOLEAN
        BY <1>1
      <4> QED BY <4>1, <4>2, <4>3
    <3> QED BY <3>1, <3>2 DEF QTypes
  <2>3. RTypes
    BY <1>1, <2>1 DEF RTypes
  <2>4. NTypes /\ PTypes
    BY <1>1 DEF NTypes, PTypes
  <2> QED BY <2>2, <2>3, <2>4 DEF Types
<1>5. SenderControl
  BY <1>1, <1>2, <1>3 DEF SenderControl
<1>6. WriterControl
  BY <1>1 DEF WriterControl
<1>7. QueueInv
  <2>1. Stuck = 0 /\ Hands = 0
    BY <1>1, <1>2, <1>3 DEF Stuck, Hands
  <2>2. EventsIn(chan) = 0 /\ Cap \in Nat
    BY <1>1, None, QueueAssumption
  <2> QED BY <1>1, <1>2, <1>3, <2>1, <2>2 DEF QueueInv
<1>8. AddingInv
  BY <1>2 DEF AddingInv
<1>9. Line = <<>> /\ Completed = <<>> /\ Written = <<>>
  <2>1. <<>> \o <<>> = <<>>
    BY None, ConcatEmptySeq
  <2> QED BY <1>1, <2>1 DEF Line, Completed, Written
<1>10. OrderInv
  BY <1>9, None DEF OrderInv
<1>11. AccountInv
  <2>1. MaxEvents \in Nat
    BY StoreAssumption
  <2>2. Seen = 0
    BY <1>1, <1>2, <1>3, <1>9, None DEF Seen, Refused
  <2> QED BY <1>1, <2>1, <2>2 DEF AccountInv
<1>12. CounterInv
  <2>1. Wrap \in Nat /\ Wrap > 0 /\ MaxCount \in Nat
    BY StoreAssumption
  <2>2. 0 % Wrap = 0
    <3>1. 0 = Wrap * 0 + 0 /\ 0 \in 0..(Wrap - 1)
      BY <2>1
    <3> QED BY <2>1, <3>1, ModUnique
  <2> QED BY <1>1, <2>1, <2>2 DEF CounterInv
<1>13. FigureInv
  <2>1. Told(<<>>, "gap") = 0 /\ Told(<<>>, "drops") = 0 /\ Told(<<>>, "rejected") = 0
    BY None
  <2> QED BY <1>1, <1>9, <2>1 DEF FigureInv
<1>14. FinalInv
  BY <1>1, <1>9, None DEF FinalInv
<1>15. RoomInv
  <2>1. Bytes(<<>>) = 0
    <3>1. EventsIn(<<>>) = 0 /\ Len(<<>>) = 0 /\ ReportSize \in Nat
      BY None, StoreAssumption
    <3> QED BY <3>1 DEF Bytes
  <2> QED BY <1>1, <1>3, <2>1, StoreAssumption DEF RoomInv
<1> QED BY <1>4, <1>5, <1>6, <1>7, <1>8, <1>10, <1>11, <1>12, <1>13, <1>14, <1>15 DEF StoreInv

\* Every step keeps the invariant.
LEMMA StoreStep ==
    ASSUME StoreInv, [Next]_vars
    PROVE  StoreInv'
<1>1. CASE Next
  <2>1. RoomInv'
    BY <1>1, RTypesStep
  <2> QED BY <1>1, <2>1, TypesStep, SenderStep, WriterStep, QueueStep, AddingStep, OrderStep, AccountStep, CounterStep,
             FigureStep, FinalStep DEF StoreInv
<1>2. CASE UNCHANGED vars
  <2>1. /\ UNCHANGED queueVars /\ UNCHANGED pipelineVars /\ UNCHANGED healthVars /\ UNCHANGED logVars
        /\ UNCHANGED <<lost, mpc, drops, wpc, cur>>
    BY <1>2 DEF vars, coreVars
  <2>2. /\ UNCHANGED <<chan, len, adding, backing, taken, rxOpen>> /\ UNCHANGED <<ppc, emitted, count>>
        /\ UNCHANGED <<hpc, answer, base, nreports, told, periodic>> /\ UNCHANGED <<held, backlog, log, stats, reported, failing, fails, evicted>>
        /\ UNCHANGED <<lost, mpc, drops, wpc, cur>>
    BY <2>1 DEF queueVars, pipelineVars, healthVars, logVars
  <2>3. Types' = Types
    BY <2>2 DEF Types, QTypes, RTypes, NTypes, PTypes
  <2>4. SenderControl' = SenderControl /\ WriterControl' = WriterControl
    BY <2>2 DEF SenderControl, WriterControl, PipelineGone, SendersGone
  <2>5. QueueInv' = QueueInv /\ AddingInv' = AddingInv
    BY <2>2 DEF QueueInv, Stuck, Hands, AddingInv
  <2>6. Line' = Line /\ Completed' = Completed
    BY <2>2 DEF Line, Completed, Written
  <2>7. OrderInv' = OrderInv /\ AccountInv' = AccountInv
    BY <2>2, <2>6 DEF OrderInv, AccountInv, Seen, Refused
  <2>8. CounterInv' = CounterInv /\ RoomInv' = RoomInv
    BY <2>2 DEF CounterInv, RoomInv
  <2>9. FigureInv' = FigureInv
    BY <2>2, <2>6 DEF FigureInv, NoneMissing
  <2>10. FinalInv' = FinalInv
    BY <2>2, <2>6 DEF FinalInv
  <2> QED BY <2>3, <2>4, <2>5, <2>7, <2>8, <2>9, <2>10 DEF StoreInv
<1> QED BY <1>1, <1>2

\* The invariant holds of every behaviour.
LEMMA StoreAlways == Spec => []StoreInv
<1>1. Init => StoreInv
  BY StoreStart
<1>2. StoreInv /\ [Next]_vars => StoreInv'
  BY StoreStep
<1> QED BY <1>1, <1>2, PTL DEF Spec

-----------------------------------------------------------------------------
(* What it says of the queue and of the events                               *)

\* A set of senders is as large as the number of them in it.
LEMMA SendersIn ==
    ASSUME NEW p \in {0, 1}, NEW h \in {0, 1}, NEW m \in {0, 1}, NEW S \in SUBSET Senders,
           "pipeline" \in S <=> p = 1, "health" \in S <=> h = 1, "main" \in S <=> m = 1
    PROVE  Cardinality(S) = p + h + m
<1>1. IsFiniteSet({}) /\ Cardinality({}) = 0
  BY FS_EmptySet
<1>2. PICK A : A = IF p = 1 THEN {} \cup {"pipeline"} ELSE {}
  OBVIOUS
<1>3. IsFiniteSet(A) /\ Cardinality(A) = p /\ "health" \notin A /\ "main" \notin A
  <2>1. IsFiniteSet({} \cup {"pipeline"}) /\ Cardinality({} \cup {"pipeline"}) = 0 + 1
    BY <1>1, FS_AddElement
  <2> QED BY <1>1, <1>2, <2>1
<1>4. PICK B : B = IF h = 1 THEN A \cup {"health"} ELSE A
  OBVIOUS
<1>5. IsFiniteSet(B) /\ Cardinality(B) = p + h /\ "main" \notin B
  <2>1. IsFiniteSet(A \cup {"health"}) /\ Cardinality(A \cup {"health"}) = p + 1
    BY <1>3, FS_AddElement
  <2>2. p + 0 = p
    OBVIOUS
  <2>3. CASE h = 1
    BY <1>3, <1>4, <2>1, <2>3
  <2>4. CASE h = 0
    BY <1>3, <1>4, <2>2, <2>4
  <2> QED BY <2>3, <2>4
<1>6. PICK C : C = IF m = 1 THEN B \cup {"main"} ELSE B
  OBVIOUS
<1>7. Cardinality(C) = p + h + m
  <2>1. Cardinality(B \cup {"main"}) = (p + h) + 1
    BY <1>5, FS_AddElement
  <2>2. (p + h) + 0 = p + h
    OBVIOUS
  <2>3. CASE m = 1
    BY <1>6, <2>1, <2>3
  <2>4. CASE m = 0
    BY <1>5, <1>6, <2>2, <2>4
  <2> QED BY <2>3, <2>4
<1>8. S = C
  BY <1>2, <1>4, <1>6, Senders3
<1> QED BY <1>7, <1>8

\* The counter is what is in the channel and in the hands of its users.
LEMMA CountIs ==
    ASSUME StoreInv
    PROVE  CountExact /\ len \in 0..Cap + 2 * Cardinality(Senders) + nreports
<1>1. Types /\ QTypes /\ SenderControl /\ QueueInv /\ nreports \in Nat /\ Cap \in Nat
  BY QueueAssumption DEF StoreInv, Types, NTypes
<1>2. PICK p \in {0, 1}, h \in {0, 1}, m \in {0, 1} :
        p = Len(adding["pipeline"]) /\ h = Len(adding["health"]) /\ m = Len(adding["main"])
  BY <1>1, HandsIs, Senders3
<1>3. Cardinality({s \in Senders : adding[s] # <<>>}) = p + h + m
  <2>1. PICK S : S = {s \in Senders : adding[s] # <<>>}
    OBVIOUS
  <2>2. S \in SUBSET Senders
    BY <2>1
  <2>3. ("pipeline" \in S <=> p = 1) /\ ("health" \in S <=> h = 1) /\ ("main" \in S <=> m = 1)
    <3>1. \A s \in Senders : adding[s] = <<>> <=> Len(adding[s]) = 0
      BY <1>1, HandsIs
    <3> QED BY <1>2, <2>1, <3>1, Senders3
  <2> QED BY <2>1, <2>2, <2>3, SendersIn
<1>4. Cardinality(backing) = IF backing = {} THEN 0 ELSE 1
  <2>1. backing = {} \/ backing = {"pipeline"}
    BY <1>1 DEF QTypes
  <2> QED BY <2>1, FS_EmptySet, FS_Singleton
<1>5. Cardinality(Senders) = 3
  <2>1. Senders \in SUBSET Senders /\ 1 \in {0, 1}
    OBVIOUS
  <2>2. Cardinality(Senders) = 1 + 1 + 1
    BY <2>1, Senders3, SendersIn
  <2> QED BY <2>2
<1>6. PICK b \in {0, 1}, t \in {0, 1}, l \in Int, k \in Nat :
        /\ b = (IF backing = {} THEN 0 ELSE 1) /\ t = (IF taken THEN 1 ELSE 0) /\ l = len /\ k = Stuck
        /\ k <= Cap + nreports /\ k = l - (p + h + m) - b - t
  <2>1. Stuck \in 0..(Cap + nreports)
    BY <1>1 DEF QueueInv
  <2>2. Stuck \in Nat /\ Stuck <= Cap + nreports
    BY <1>1, <2>1
  <2>3. len \in Int
    BY <1>1 DEF QTypes
  <2> QED BY <1>2, <2>2, <2>3 DEF Stuck, Hands
<1>7. CountExact
  <2>1. rxOpen => Stuck = Len(chan)
    BY <1>1 DEF QueueInv
  <2>2. l = k + (p + h + m) + b + t
    BY <1>6
  <2> QED BY <1>3, <1>4, <1>6, <2>1, <2>2 DEF CountExact
<1>8. len \in 0..Cap + 2 * Cardinality(Senders) + nreports
  <2>1. l \in 0..(Cap + 2 * 3 + nreports)
    <3>1. \A x \in {0, 1} : x \in Nat /\ x <= 1
      OBVIOUS
    <3>2. p \in Nat /\ h \in Nat /\ m \in Nat /\ b \in Nat /\ t \in Nat /\ p <= 1 /\ h <= 1 /\ m <= 1 /\ b <= 1 /\ t <= 1
      BY <3>1
    <3> QED BY <1>1, <1>6, <3>2
  <2> QED BY <1>5, <1>6, <2>1
<1> QED BY <1>7, <1>8

\* The bounds of the queue, the backlog, the held reports and the figures.
LEMMA SinkIs ==
    ASSUME StoreInv
    PROVE  SinkOK
<1>1. /\ Types /\ QTypes /\ PTypes /\ NTypes /\ SenderControl /\ WriterControl /\ QueueInv /\ CounterInv /\ AccountInv /\ RoomInv
      /\ chan \in Seq(Msgs) /\ adding["pipeline"] \in Seq(Msgs)
  <2>1. Types
    BY DEF StoreInv
  <2>2. adding["pipeline"] \in Seq(Msgs)
    BY <2>1, SeqTypes, Senders3 DEF Types, QTypes
  <2> QED BY <2>1, <2>2, RecordTypes DEF StoreInv, Types
<1>2. CountExact /\ len \in 0..Cap + 2 * Cardinality(Senders) + nreports
  BY CountIs
<1>3. SinkBounded
  <2>1. EventsIn(chan) + Len(adding["pipeline"]) <= Cap
    BY <1>1 DEF QueueInv
  <2>2. EventsIn(adding["pipeline"]) = Len(adding["pipeline"])
    <3>1. CASE adding["pipeline"] = <<>>
      BY <3>1, None
    <3>2. CASE adding["pipeline"] # <<>>
      BY <3>2, InHands, Senders3
    <3> QED BY <3>1, <3>2
  <2>3. EventsIn(chan \o adding["pipeline"]) = EventsIn(chan) + EventsIn(adding["pipeline"])
    BY <1>1, Cat
  <2> QED BY <2>1, <2>2, <2>3 DEF SinkBounded
<1>4. base.count \in 0..MaxCount /\ base.lost \in 0..Wrap - 1 /\ base.drops \in 0..MaxEvents
  <2>1. base \in [count : Nat, lost : Nat, drops : Nat] /\ told \in [count : Nat, lost : Nat] /\ count \in Nat /\ drops \in Nat /\ emitted \in Nat
    BY <1>1 DEF NTypes
  <2>2. base.count \in Nat /\ base.lost \in Nat /\ base.drops \in Nat /\ told.lost \in Nat
    BY <2>1
  <2>3. MaxCount \in Nat /\ MaxEvents \in Nat /\ Wrap \in Nat /\ Wrap > 0
    BY StoreAssumption
  <2>4. base.count <= count /\ count <= MaxCount /\ told.lost % Wrap = base.lost /\ base.drops <= drops
    BY <1>1 DEF CounterInv
  <2>5. told.lost % Wrap \in 0..(Wrap - 1)
    BY <2>2, <2>3, ModIs
  <2>6. drops <= MaxEvents
    <3>1. Seen <= emitted /\ emitted <= MaxEvents
      BY <1>1 DEF AccountInv
    <3>2. PICK l \in Nat, p \in Nat, j \in Nat, d \in Nat, b \in {0, 1} : d = drops /\ Seen = l + p + j + d + b
      <4>1. Line \in Seq(Msgs)
        BY <1>1, RecordTypes
      <4>2. EventsIn(Line) \in Nat
        BY <4>1, EventsNat
      <4>3. Len(adding["pipeline"]) \in Nat
        BY <1>1, EventsNat
      <4>4. stats.rejected \in Nat
        BY <1>1 DEF Types, RTypes
      <4>5. Refused \in {0, 1}
        BY DEF Refused
      <4> QED BY <2>1, <4>2, <4>3, <4>4, <4>5 DEF Seen
    <3>3. b \in Nat
      OBVIOUS
    <3>4. d <= l + p + j + d + b
      BY <3>3
    <3> QED BY <2>1, <2>3, <3>1, <3>2, <3>4
  <2>7. base.count <= MaxCount /\ base.drops <= MaxEvents
    BY <2>1, <2>2, <2>3, <2>4, <2>6
  <2> QED BY <2>2, <2>3, <2>4, <2>5, <2>7
<1>5. wpc \in {"taken", "handle"} <=> cur # <<>> /\ wpc # "dead"
  <2>1. Len(<<>>) = 0
    OBVIOUS
  <2> QED BY <1>1, <2>1 DEF WriterControl
<1>6. backing \subseteq Senders /\ taken \in BOOLEAN /\ rxOpen \in BOOLEAN /\ \A s \in Senders : Len(adding[s]) <= 1
  BY <1>1, Senders3 DEF QTypes, SenderControl
<1>7. StoreTypeOK
  BY <1>1, <1>2, <1>4, <1>5, <1>6 DEF StoreTypeOK, PTypes, RoomInv
<1> QED BY <1>2, <1>3, <1>7 DEF SinkOK

\* Every event is on its way or counted.
LEMMA AccountedIs ==
    ASSUME StoreInv
    PROVE  EveryEventAccounted
<1> SUFFICES ASSUME wpc \notin {"dead", "failed"}
             PROVE  emitted = EventsIn(log \o backlog \o cur \o chan \o adding["pipeline"])
                              + stats.rejected + drops + (IF "pipeline" \in backing \/ ppc = "drop" THEN 1 ELSE 0)
  BY DEF EveryEventAccounted
<1>1. Types /\ QTypes /\ Seen = emitted
  BY DEF StoreInv, Types, AccountInv
<1>2. PICK w \in Seq(Msgs), h \in Seq(FullReports), c \in Seq(Msgs), q \in Seq(Msgs), a \in Seq(Msgs) :
        w = Written /\ h = held /\ c = cur /\ q = chan /\ a = adding["pipeline"]
  <2>1. adding["pipeline"] \in Seq(Msgs)
    BY <1>1, SeqTypes, Senders3 DEF QTypes
  <2> QED BY <1>1, <2>1, RecordTypes
<1>3. h \in Seq(Msgs) /\ EventsIn(h) = 0
  BY SeqTypes, FullSeq
<1>4. EventsIn(Line) = EventsIn(w) + EventsIn(h) + EventsIn(c) + EventsIn(q)
  <2>1. PartsOf(((w \o h) \o c) \o q, w, h, c, q)
    BY <1>3, Parts
  <2>2. Line = ((w \o h) \o c) \o q
    BY <1>2 DEF Line, Completed
  <2> QED BY <2>1, <2>2 DEF PartsOf
<1>5. EventsIn(((w \o c) \o q) \o a) = EventsIn(w) + EventsIn(c) + EventsIn(q) + EventsIn(a)
  <2>1. PartsOf(((w \o c) \o q) \o a, w, c, q, a)
    BY Parts
  <2> QED BY <2>1 DEF PartsOf
<1>6. log \o backlog \o cur \o chan \o adding["pipeline"] = ((w \o c) \o q) \o a
  BY <1>2 DEF Written
<1>7. EventsIn(a) = Len(a)
  <2>1. CASE a = <<>>
    BY <2>1, None
  <2>2. CASE a # <<>>
    BY <1>2, <2>2, InHands, Senders3
  <2> QED BY <2>1, <2>2
<1>8. (backing # {} \/ ppc = "drop") <=> ("pipeline" \in backing \/ ppc = "drop")
  BY <1>1 DEF QTypes
<1>9. Refused = IF "pipeline" \in backing \/ ppc = "drop" THEN 1 ELSE 0
  BY <1>8 DEF Refused
<1>10. PICK x \in Nat, y \in Nat, z \in Nat, u \in Nat : x = EventsIn(w) /\ y = EventsIn(c) /\ z = EventsIn(q) /\ u = EventsIn(a)
  BY EventsNat
<1>11. PICK j \in Nat, d \in Nat, r \in Nat : j = stats.rejected /\ d = drops /\ r = Refused
  <2>1. stats.rejected \in Nat /\ drops \in Nat
    BY <1>1 DEF Types, RTypes, NTypes
  <2>2. Refused \in Nat
    BY DEF Refused
  <2> QED BY <2>1, <2>2
<1>12. emitted = (x + 0 + y + z) + u + j + d + r
  BY <1>1, <1>2, <1>3, <1>4, <1>7, <1>10, <1>11 DEF Seen
<1>13. (x + 0 + y + z) + u + j + d + r = (x + y + z + u) + j + d + r
  OBVIOUS
<1> QED BY <1>5, <1>6, <1>9, <1>10, <1>11, <1>12, <1>13

\* SinkOK (queue.rs, store.rs): the shared counter is the messages in the channel
\* and those in between, the sink's queue never holds more events than its cap,
\* and the backlog and the held reports stay within their bounds.
THEOREM SinkAlwaysOK == Spec => []SinkOK
<1>1. StoreInv => SinkOK
  BY SinkIs
<1> QED BY <1>1, StoreAlways, PTL

\* EveryEventAccounted (Sink::event, Core::handle): while the writer lives, each
\* emitted event is on its way, written, rejected or counted as dropped, once.
THEOREM EventsAlwaysAccounted == Spec => []EveryEventAccounted
<1>1. StoreInv => EveryEventAccounted
  BY AccountedIs
<1> QED BY <1>1, StoreAlways, PTL

-----------------------------------------------------------------------------
(* What it says of the log                                                   *)

\* In order by kind, by each kind.
LEMMA OrderedIn ==
    ASSUME NEW s, NEW kind, Ordered(s)
    PROVE  InOrder(s, kind)
BY DEF Ordered, InOrder

\* What is on its way with the message a sender holds is in order.
LEMMA LineOrdered ==
    ASSUME StoreInv, NEW s \in Senders
    PROVE  adding[s] \in Seq(Msgs) /\ Line \in Seq(Msgs) /\ Ordered(Line \o adding[s])
<1>1. Types /\ Ordered(Line)
  BY OrderIs DEF StoreInv
<1>2. adding[s] \in Seq(Msgs) /\ Line \in Seq(Msgs)
  BY <1>1, RecordTypes, SeqTypes DEF Types, QTypes
<1>3. CASE adding[s] # <<>>
  BY <1>2, <1>3, PutInOrder
<1>4. CASE adding[s] = <<>>
  <2>1. PICK L \in Seq(Msgs) : L = Line
    BY <1>2
  <2>2. L \o <<>> = L
    BY ConcatEmptySeq
  <2> QED BY <1>1, <1>2, <1>4, <2>1, <2>2
<1> QED BY <1>3, <1>4

\* Events and reports are written in the order they were handed over.
LEMMA WrittenInOrderIs ==
    ASSUME StoreInv
    PROVE  WrittenInOrder
<1>1. Types /\ QTypes
  BY DEF StoreInv, Types
<1>2. InOrder(log \o backlog \o held \o cur \o chan \o adding["health"] \o adding["main"], "report")
  <2>1. PICK L \in Seq(Msgs), h \in Seq(Msgs), m \in Seq(Msgs) :
          L = Line /\ h = adding["health"] /\ m = adding["main"] /\ Ordered(L \o h) /\ Ordered(L \o m)
    BY LineOrdered, Senders3
  <2>2. h = <<>> \/ m = <<>>
    BY <2>1, TwoHands
  <2>3. L \o <<>> = L
    BY ConcatEmptySeq
  <2>4. Ordered((L \o h) \o m)
    <3>1. CASE h = <<>>
      BY <2>1, <2>3, <3>1
    <3>2. CASE m = <<>>
      <4>1. L \o h \in Seq(Msgs)
        BY Cat
      <4>2. (L \o h) \o <<>> = L \o h
        BY <4>1, ConcatEmptySeq
      <4> QED BY <2>1, <3>2, <4>2
    <3> QED BY <2>2, <3>1, <3>2
  <2>5. InOrder((L \o h) \o m, "report")
    BY <2>4, OrderedIn
  <2> QED BY <2>1, <2>5 DEF Line, Completed, Written
<1>3. InOrder(log \o backlog \o cur \o chan \o adding["pipeline"], "event")
  <2>1. PICK w \in Seq(Msgs), h \in Seq(Msgs), c \in Seq(Msgs), q \in Seq(Msgs) :
          w = Written /\ h = held /\ c = cur /\ q = chan
    BY <1>1, RecordTypes
  <2>2. PICK L \in Seq(Msgs), a \in Seq(Msgs) : L = Line /\ a = adding["pipeline"] /\ Ordered(L \o a)
    BY LineOrdered, Senders3
  <2>3. PartsOf(L, w, h, c, q)
    <3>1. L = ((w \o h) \o c) \o q
      BY <2>1, <2>2 DEF Line, Completed
    <3> QED BY <3>1, Parts
  <2>4. Ordered(L) /\ Ordered(a) /\ Before(L, a)
    BY <2>2, OrderCat
  <2>5. Before(w, a) /\ Before(c, a) /\ Before(q, a)
    <3>1. PICK D : D = w \o h
      OBVIOUS
    <3>2. D \in Seq(Msgs) /\ (Before(D, a) => Before(w, a))
      BY <3>1, Cat, BeforeCat
    <3>3. PICK E : E = D \o c
      OBVIOUS
    <3>4. E \in Seq(Msgs) /\ (Before(E, a) => Before(D, a) /\ Before(c, a))
      BY <3>2, <3>3, Cat, BeforeCat
    <3>5. Before(E \o q, a) => Before(E, a) /\ Before(q, a)
      BY <3>4, BeforeCat
    <3>6. L = E \o q
      BY <2>1, <2>2, <3>1, <3>3 DEF Line, Completed
    <3> QED BY <2>4, <3>2, <3>4, <3>5, <3>6
  <2>6. /\ Ordered(w) /\ Ordered(c) /\ Ordered(q) /\ Before(w, c) /\ Before(w, q) /\ Before(c, q)
    BY <2>3, <2>4 DEF PartsOf
  <2>7. Ordered(((w \o c) \o q) \o a)
    <3>1. PartsOf(((w \o c) \o q) \o a, w, c, q, a)
      BY Parts
    <3> QED BY <2>4, <2>5, <2>6, <3>1 DEF PartsOf
  <2>8. InOrder(((w \o c) \o q) \o a, "event")
    BY <2>7, OrderedIn
  <2> QED BY <2>1, <2>2, <2>8 DEF Written
<1> QED BY <1>2, <1>3 DEF WrittenInOrder

\* Once everyone has ended, the line is the log, the queue and what is held.
LEMMA EndIs ==
    ASSUME StoreInv, wpc = "closed"
    PROVE  /\ cur = <<>> /\ chan = <<>> /\ mpc \in {"join", "done"} /\ Line = Completed
           /\ adding["pipeline"] = <<>> /\ adding["health"] = <<>> /\ adding["main"] = <<>>
           /\ backing = {} /\ ppc # "drop"
<1>1. Types /\ SenderControl /\ WriterControl
  BY DEF StoreInv
<1>2. cur = <<>> /\ chan = <<>> /\ SendersGone
  BY <1>1 DEF WriterControl
<1>3. mpc \in {"join", "done"} /\ hpc = "ended" /\ ppc \in {"ended", "panicked"}
  BY <1>2 DEF SendersGone, PipelineGone
<1>4. Line = Completed
  <2>1. PICK C \in Seq(Msgs) : C = Completed
    BY <1>1, RecordTypes
  <2>2. C \o <<>> = C
    BY ConcatEmptySeq
  <2> QED BY <1>2, <2>1, <2>2 DEF Line
<1> QED BY <1>1, <1>2, <1>3, <1>4 DEF SenderControl

\* A log that has every report explains what became of each event.
LEMMA LogAccountsIs ==
    ASSUME StoreInv
    PROVE  LogAccounts
<1> SUFFICES ASSUME wpc = "closed", Numbers(Reports(log)) = 1..nreports
             PROVE  emitted = EventsIn(log) + Told(log, "drops") + Told(log, "rejected")
  BY DEF LogAccounts
<1>1. /\ Types /\ FinalLast(Line) /\ nreports \in Nat /\ FigureInv /\ Seen = emitted
      /\ mpc \in {"send", "join", "done"} => nreports > 0 /\ Newest(Line, nreports)
      /\ NoFinal(Completed) \/ (reported.drops = drops /\ reported.rejected = stats.rejected)
  BY FinalIs DEF StoreInv, Types, NTypes, AccountInv
<1>2. /\ mpc \in {"join", "done"} /\ Line = Completed
      /\ adding["pipeline"] = <<>> /\ adding["health"] = <<>> /\ adding["main"] = <<>>
      /\ backing = {} /\ ppc # "drop"
  BY EndIs
<1>3. PICK g \in Seq(Msgs), t \in Seq(Msgs) : g = log /\ Line = g \o t
  <2>1. PICK g \in Seq(Msgs), b \in Seq(Msgs), h \in Seq(Msgs) : g = log /\ b = backlog /\ h = held
    BY <1>1, RecordTypes
  <2>2. (g \o b) \o h = g \o (b \o h) /\ b \o h \in Seq(Msgs)
    BY Assoc, Cat
  <2>3. Line = (g \o b) \o h
    BY <1>2, <2>1 DEF Completed, Written
  <2> QED BY <2>1, <2>2, <2>3
<1>4. PICK i \in DOMAIN g : Final(g[i])
  <2>1. nreports \in Numbers(Reports(g))
    BY <1>1, <1>2, <1>3
  <2>2. PICK i \in DOMAIN g : ~IsEvent(g[i]) /\ g[i].n = nreports
    BY <2>1 DEF Numbers, Reports
  <2>3. i \in DOMAIN (g \o t) /\ (g \o t)[i] = g[i]
    BY CatSeq
  <2>4. Newest(g \o t, nreports)
    BY <1>1, <1>2, <1>3
  <2> QED BY <2>2, <2>3, <2>4 DEF Newest
<1>5. t = <<>>
  <2>1. ~NoFinal(g)
    BY <1>4 DEF NoFinal
  <2>2. FinalLast(g \o t)
    BY <1>1, <1>3
  <2> QED BY <2>1, <2>2, FinalCat
<1>6. Line = log /\ Completed = log
  <2>1. g \o <<>> = g
    BY ConcatEmptySeq
  <2> QED BY <1>2, <1>3, <1>5, <2>1
<1>7. reported.drops = drops /\ reported.rejected = stats.rejected
  <2>1. ~NoFinal(Completed)
    BY <1>3, <1>4, <1>6 DEF NoFinal
  <2> QED BY <1>1, <2>1
<1>8. NoneMissing
  <2>1. Coming /\ ToCome = {}
    BY <1>2, ComingBelow DEF ToCome
  <2> QED BY <1>6, <2>1 DEF Coming
<1>9. drops = Told(log, "drops") /\ stats.rejected = Told(log, "rejected")
  <2>1. reported.drops = Told(Completed, "drops") /\ reported.rejected = Told(Completed, "rejected")
    BY <1>1, <1>8 DEF FigureInv
  <2> QED BY <1>6, <1>7, <2>1
<1>10. Seen = EventsIn(log) + 0 + stats.rejected + drops + 0
  BY <1>2, <1>6, None DEF Seen, Refused
<1>11. PICK x \in Nat, d \in Nat, j \in Nat : x = EventsIn(log) /\ d = drops /\ j = stats.rejected
  <2>1. EventsIn(log) \in Nat
    BY <1>3, EventsNat
  <2>2. drops \in Nat /\ stats.rejected \in Nat
    BY <1>1 DEF Types, RTypes, NTypes
  <2> QED BY <2>1, <2>2
<1>12. x + 0 + j + d + 0 = x + d + j
  OBVIOUS
<1> QED BY <1>1, <1>9, <1>10, <1>11, <1>12

\* Gaps and counters are reported once.
LEMMA ReportedOnceIs ==
    ASSUME StoreInv
    PROVE  ReportedOnce
<1>1. FigureInv /\ CounterInv
  BY DEF StoreInv
<1>2. GapsReportedOnce
  <2>1. log \o backlog \o held = Completed
    BY DEF Completed, Written
  <2>2. Completed \o cur \o chan \o adding["health"] \o adding["main"] = Line \o adding["health"] \o adding["main"]
    BY DEF Line
  <2>3. wpc # "dead" /\ NoneMissing => evicted = Told(Completed, "gap") + stats.gaps
    BY <1>1 DEF FigureInv
  <2>4. NoneMissing <=> Numbers(Reports(Completed \o cur \o chan \o adding["health"] \o adding["main"])) = 1..nreports
    BY <2>2 DEF NoneMissing
  <2> QED BY <2>1, <2>3, <2>4 DEF GapsReportedOnce
<1>3. CountersReportedOnce
  BY <1>1 DEF CountersReportedOnce, CounterInv
<1> QED BY <1>2, <1>3 DEF ReportedOnce

\* Where the final report is last, it is last in every beginning.
LEMMA FinalLastHead ==
    ASSUME NEW a \in Seq(Msgs), NEW z \in Seq(Msgs), FinalLast(a \o z)
    PROVE  FinalLast(a)
<1>1. NoFinal(a) \/ FinalLast(a)
  BY FinalCat
<1>2. NoFinal(a) => FinalLast(a)
  BY DEF NoFinal, FinalLast
<1> QED BY <1>1, <1>2

\* The final report is the last record of the log.
LEMMA FinalReportLastIs ==
    ASSUME StoreInv
    PROVE  FinalReportLast
<1>1. Types /\ FinalLast(Line)
  BY FinalIs DEF StoreInv
<1>2. PICK g \in Seq(Msgs), b \in Seq(Msgs), h \in Seq(Msgs), c \in Seq(Msgs), q \in Seq(Msgs) :
        g = log /\ b = backlog /\ h = held /\ c = cur /\ q = chan
  BY <1>1, RecordTypes
<1>3. FinalLast((((g \o b) \o h) \o c) \o q)
  BY <1>1, <1>2 DEF Line, Completed, Written
<1>4. FinalLast(g)
  <2>1. PICK W \in Seq(Msgs) : W = g \o b
    BY Cat
  <2>2. PICK X \in Seq(Msgs) : X = W \o h
    BY Cat
  <2>3. PICK Y \in Seq(Msgs) : Y = X \o c
    BY Cat
  <2>4. FinalLast(Y \o q)
    BY <1>3, <2>1, <2>2, <2>3
  <2>5. FinalLast(Y)
    BY <2>4, FinalLastHead
  <2>6. FinalLast(X)
    BY <2>3, <2>5, FinalLastHead
  <2>7. FinalLast(W)
    BY <2>2, <2>6, FinalLastHead
  <2> QED BY <2>1, <2>7, FinalLastHead
<1>5. DOMAIN g = 1..Len(g)
  OBVIOUS
<1> QED BY <1>2, <1>4, <1>5 DEF FinalReportLast, FinalLast, Final

\* LogRight (store.rs): events are written in the order they were emitted and
\* reports in the order they were sent, also when reports were held; and after a
\* clean stop whose reports all reached the log, the log's events and the losses
\* its reports count add up to what the pipeline emitted.
THEOREM LogAlwaysRight == Spec => []LogRight
<1>1. StoreInv => LogRight
  BY WrittenInOrderIs, LogAccountsIs DEF LogRight
<1> QED BY <1>1, StoreAlways, PTL

\* ReportsRight (health.rs, store.rs, run.rs): what retention deleted and what the
\* counters counted is reported once, over requests that time out, queries that
\* fail and a counter that wraps, and the final report is the log's last record.
THEOREM ReportsAlwaysRight == Spec => []ReportsRight
<1>1. StoreInv => ReportsRight
  BY ReportedOnceIs, FinalReportLastIs DEF ReportsRight
<1> QED BY <1>1, StoreAlways, PTL
=============================================================================
