------------------------------ MODULE KeysProofs ------------------------------
(* DataRight of Keys, for any addresses, names, caps and snapshots: what was *)
(* read for a value's event comes from the key the event names, whichever    *)
(* order the callback saw the events in and however late the seeder named    *)
(* the key.                                                                  *)
EXTENDS Keys, TLAPS

-----------------------------------------------------------------------------
(* The invariant                                                             *)

\* An event of the machine; the agent's own closes make none.
IsOp(m) == m.what # "own close"
UnderWay == flight \cup held
\* A time whose event was handled, if there was one.
Past(ts) == ts \in Nat /\ ts <= Now /\ \A m \in UnderWay : IsOp(m) => m.ts # ts

MachineOK ==
    /\ clock \in Nat
    /\ flight \cap held = {} /\ \A m \in flight : IsOp(m)
    /\ \A m \in UnderWay : m.ts \in Nat /\ m.ts <= Now
    /\ \A m, n \in UnderWay : IsOp(m) /\ IsOp(n) /\ m.ts = n.ts => m = n

EventShape(e) ==
    /\ e = [of |-> e.of, root |-> e.root, ts |-> e.ts, is |-> e.is, path |-> e.path, full |-> e.full,
            waits |-> e.waits, readAfter |-> e.readAfter, data |-> e.data]
    /\ e.full \in BOOLEAN /\ e.waits \subseteq {"seeder", "read"}

\* The reads under way of the event at ts: an early read is for none yet.
ReadsOf(rs, ts) == {r \in rs : ~r.fast /\ r.for = ts}

\* What was read is of the key's path; while the seeder is asked for the path
\* nothing was read, and while a read is under way it is for the path.
EventOK(e, rs) ==
    /\ EventShape(e)
    /\ e.data # Nothing => e.full /\ e.data = e.path
    /\ "read" \in e.waits => e.full /\ \A r \in ReadsOf(rs, e.ts) : r.path = e.path
    /\ "seeder" \in e.waits => e.data = Nothing /\ "read" \notin e.waits /\ ReadsOf(rs, e.ts) = {}

EventsOK == \A ts \in DOMAIN events : Past(ts) /\ events[ts].ts = ts /\ EventOK(events[ts], readers)
ReadersOK == \A r \in readers : r.fast \in BOOLEAN /\ (~r.fast => Past(r.for))
\* The books are of events that wait, one entry for each.
WaitersOK ==
    /\ reg = [early |-> reg.early, waiting |-> reg.waiting, reads |-> reg.reads]
    /\ \A w \in reg.waiting : Waits(w.ts, "seeder")
    /\ \A v, w \in reg.waiting : v.ts = w.ts => v = w
    /\ \A ts \in reg.reads : Waits(ts, "read")

KInv == MachineOK /\ EventsOK /\ ReadersOK /\ WaitersOK

-----------------------------------------------------------------------------
(* Events and reads                                                          *)

\* ReadInto changes the data only, to the path that was read.
LEMMA ReadIntoFacts ==
  ASSUME NEW e, EventShape(e), NEW path, NEW matches \in BOOLEAN
  PROVE  LET d == ReadInto(e, path, matches)
         IN /\ EventShape(d) /\ d.ts = e.ts /\ d.path = e.path /\ d.full = e.full /\ d.waits = e.waits
            /\ d.data \in {e.data, path}
BY DEF ReadInto, EventShape

\* start_read fills the event from the early result of its key, or asks.
LEMMA ReadsFacts ==
  ASSUME NEW e, EventShape(e), e.waits = {}, e.full = TRUE, e.data = Nothing, NEW matches \in BOOLEAN
  PROVE  LET r == Reads(e, matches)
         IN /\ EventShape(r.event) /\ r.event.ts = e.ts /\ r.event.path = e.path /\ r.event.full = TRUE
            /\ \/ r.new = {} /\ r.event.waits = {} /\ r.event.data \in {Nothing, e.path}
               \/ /\ r.new = {[for |-> e.ts, path |-> e.path, fast |-> FALSE]}
                  /\ r.event.waits = {"read"} /\ r.event.data = Nothing
<1>1. CASE e.ts \in DOMAIN reg.early /\ SamePath(reg.early[e.ts], e.path)
  <2>1. Reads(e, matches) = [event |-> ReadInto(e, reg.early[e.ts], matches), new |-> {}]
    BY <1>1 DEF Reads
  <2>2. reg.early[e.ts] = e.path
    BY <1>1 DEF SamePath
  <2>3. PICK d : d = ReadInto(e, e.path, matches)
    OBVIOUS
  <2>4. /\ EventShape(d) /\ d.ts = e.ts /\ d.path = e.path /\ d.full = e.full /\ d.waits = e.waits
        /\ d.data \in {e.data, e.path}
    BY <2>3, ReadIntoFacts
  <2>5. Reads(e, matches).event = d /\ Reads(e, matches).new = {}
    BY <2>1, <2>2, <2>3
  <2> QED BY <2>4, <2>5
<1>2. CASE ~(e.ts \in DOMAIN reg.early /\ SamePath(reg.early[e.ts], e.path))
  <2>1. Reads(e, matches) = [event |-> [e EXCEPT !.waits = @ \cup {"read"}],
                             new |-> {[for |-> e.ts, path |-> e.path, fast |-> FALSE]}]
    BY <1>2 DEF Reads
  <2>2. PICK d : d = [e EXCEPT !.waits = @ \cup {"read"}]
    OBVIOUS
  <2>3. /\ EventShape(d) /\ d.ts = e.ts /\ d.path = e.path /\ d.full = TRUE
        /\ d.waits = {"read"} /\ d.data = Nothing
    BY <2>2 DEF EventShape
  <2>4. /\ Reads(e, matches).event = d
        /\ Reads(e, matches).new = {[for |-> e.ts, path |-> e.path, fast |-> FALSE]}
    BY <2>1, <2>2
  <2> QED BY <2>3, <2>4
<1> QED BY <1>1, <1>2

-----------------------------------------------------------------------------
(* Steps that make no event                                                  *)

\* The books stay right while the machine goes on.
LEMMA BooksFrame ==
  ASSUME KInv, MachineOK', \A ts : Past(ts) => Past(ts)', events' = events,
         reg'.waiting = reg.waiting, reg'.reads = reg.reads,
         reg' = [early |-> reg'.early, waiting |-> reg'.waiting, reads |-> reg'.reads],
         \A r \in readers' : r.fast \in BOOLEAN /\ (~r.fast => r \in readers)
  PROVE  KInv'
<1>1. \A e : EventOK(e, readers) => EventOK(e, readers')
  BY DEF EventOK, ReadsOf
<1>2. EventsOK'
  BY <1>1 DEF KInv, EventsOK
<1>3. ReadersOK'
  BY DEF KInv, ReadersOK
<1>4. WaitersOK'
  BY DEF KInv, WaitersOK, Waits
<1> QED BY <1>2, <1>3, <1>4 DEF KInv

\* An operation of the machine is logged with a time of its own.
LEMMA LogsInv ==
  ASSUME KInv, NEW what \in {"open", "create", "close", "set"}, NEW a, NEW base, NEW rel, NEW path,
         Logs(what, a, base, rel, path)
  PROVE  KInv'
<1>1. PICK m : m = [what |-> what, a |-> a, base |-> base, rel |-> rel, ts |-> Now + 1, is |-> path]
  OBVIOUS
<1>2. /\ clock' = clock + 1 /\ flight' = flight \cup {m} /\ held' = held
      /\ UNCHANGED <<events, reg, readers>>
  BY <1>1 DEF Logs, pipeline
<1>3. IsOp(m) /\ m.ts = Now + 1
  BY <1>1 DEF IsOp
<1>4. clock \in Nat /\ Now \in Nat /\ Now' = Now + 2
  BY <1>2 DEF KInv, MachineOK, Now
<1>5. \A n \in UnderWay : n.ts \in Nat /\ n.ts <= Now
  BY DEF KInv, MachineOK
<1>6. UnderWay' = UnderWay \cup {m} /\ m \notin UnderWay
  BY <1>2, <1>3, <1>4, <1>5 DEF UnderWay
<1>7. MachineOK'
  <2>1. clock' \in Nat
    BY <1>2, <1>4
  <2>2. flight' \cap held' = {} /\ \A n \in flight' : IsOp(n)
    BY <1>2, <1>3, <1>6 DEF KInv, MachineOK, UnderWay
  <2>3. \A n \in UnderWay' : n.ts \in Nat /\ n.ts <= Now'
    BY <1>3, <1>4, <1>5, <1>6
  <2>4. \A k, n \in UnderWay' : IsOp(k) /\ IsOp(n) /\ k.ts = n.ts => k = n
    <3>1. \A n \in UnderWay : n.ts # m.ts
      BY <1>3, <1>4, <1>5
    <3> QED BY <3>1, <1>6 DEF KInv, MachineOK
  <2> QED BY <2>1, <2>2, <2>3, <2>4 DEF MachineOK
<1>8. ASSUME NEW ts, Past(ts) PROVE Past(ts)'
  <2>1. ts \in Nat /\ ts <= Now /\ \A n \in UnderWay : IsOp(n) => n.ts # ts
    BY <1>8 DEF Past
  <2>2. ts <= Now' /\ m.ts # ts
    BY <2>1, <1>3, <1>4
  <2> QED BY <2>1, <2>2, <1>6 DEF Past
<1> QED BY <1>2, <1>7, <1>8, BooksFrame DEF KInv, ReadersOK, WaitersOK

\* The callback passes an event on, and may start an early read.
LEMMA DeliverInv == ASSUME KInv, NEW m, Deliver(m) PROVE KInv'
<1>1. /\ m \in flight /\ flight' = flight \ {m} /\ held' = held \cup {m}
      /\ clock' = clock /\ events' = events /\ reg' = reg
      /\ \A r \in readers' : r \in readers \/ r.fast = TRUE
  BY DEF Deliver, pipeline
<1>2. UnderWay' = UnderWay /\ Now' = Now
  BY <1>1 DEF UnderWay, Now
<1>3. MachineOK'
  BY <1>1, <1>2 DEF KInv, MachineOK
<1>4. \A ts : Past(ts) => Past(ts)'
  BY <1>2 DEF Past
<1> QED BY <1>1, <1>3, <1>4, BooksFrame DEF KInv, ReadersOK, WaitersOK

\* The agent's own closes are under way, and name no event.
LEMMA SeedEndsInv == ASSUME KInv, SeedEnds PROVE KInv'
<1>1. PICK own : own = {[what |-> "own close", a |-> a, base |-> {}, rel |-> <<>>, ts |-> Now, is |-> <<>>] :
                          a \in DOMAIN seeder.job.held}
  OBVIOUS
<1>11. held' = held \cup own
  BY <1>1, Zenon DEF SeedEnds
<1>12. flight' = flight /\ clock' = clock /\ events' = events /\ reg' = reg /\ readers' = readers
  BY DEF SeedEnds
<1>2. /\ flight' = flight /\ held' = held \cup own /\ clock' = clock /\ events' = events /\ reg' = reg
      /\ readers' = readers
  BY <1>11, <1>12
<1>3. ASSUME NEW m \in own PROVE ~IsOp(m) /\ m.ts = Now
  <2>1. PICK a \in DOMAIN seeder.job.held :
          m = [what |-> "own close", a |-> a, base |-> {}, rel |-> <<>>, ts |-> Now, is |-> <<>>]
    BY <1>1
  <2> QED BY <2>1 DEF IsOp
<1>4. UnderWay' = UnderWay \cup own /\ Now' = Now /\ Now \in Nat
  BY <1>2 DEF UnderWay, Now, KInv, MachineOK
<1>5. MachineOK'
  <2>1. flight' \cap held' = {} /\ \A m \in flight' : IsOp(m)
    BY <1>2, <1>3 DEF KInv, MachineOK
  <2>2. \A m \in UnderWay' : m.ts \in Nat /\ m.ts <= Now'
    BY <1>3, <1>4 DEF KInv, MachineOK
  <2>3. \A m, n \in UnderWay' : IsOp(m) /\ IsOp(n) /\ m.ts = n.ts => m = n
    BY <1>3, <1>4 DEF KInv, MachineOK
  <2> QED BY <2>1, <2>2, <2>3, <1>2 DEF KInv, MachineOK
<1>6. \A ts : Past(ts) => Past(ts)'
  BY <1>3, <1>4 DEF Past
<1> QED BY <1>2, <1>5, <1>6, BooksFrame DEF KInv, ReadersOK, WaitersOK

\* The steps of the seeder and the ticks that leave the machine alone.
LEMMA IdleInv ==
  ASSUME KInv, UNCHANGED <<clock, flight, held, events, readers>>,
         reg'.waiting = reg.waiting, reg'.reads = reg.reads,
         reg' = [early |-> reg'.early, waiting |-> reg'.waiting, reads |-> reg'.reads]
  PROVE  KInv'
<1>1. UnderWay' = UnderWay /\ Now' = Now
  BY DEF UnderWay, Now
<1>2. MachineOK' /\ \A ts : Past(ts) => Past(ts)'
  BY <1>1 DEF KInv, MachineOK, Past
<1> QED BY <1>2, BooksFrame DEF KInv, ReadersOK

\* A fast result is kept for its event, a slow one goes into the event that
\* still waits for it.
LEMMA ReadDoneInv ==
  ASSUME KInv, NEW r, NEW matches \in BOOLEAN, ReadDone(r, matches)
  PROVE  KInv'
<1>1. UNCHANGED <<clock, flight, held>> /\ r \in readers /\ readers' = readers \ {r}
  BY DEF ReadDone, machine
<1>2. UnderWay' = UnderWay /\ Now' = Now
  BY <1>1 DEF UnderWay, Now
<1>3. MachineOK' /\ \A ts : Past(ts)' <=> Past(ts)
  BY <1>1, <1>2 DEF KInv, MachineOK, Past
<1>4. ReadersOK'
  BY <1>1, <1>3 DEF KInv, ReadersOK
<1>5. CASE r.fast
  <2>1. /\ events' = events /\ reg'.waiting = reg.waiting /\ reg'.reads = reg.reads
        /\ reg' = [early |-> reg'.early, waiting |-> reg'.waiting, reads |-> reg'.reads]
    BY <1>5 DEF ReadDone, KInv, WaitersOK
  <2> QED BY <1>1, <1>3, <2>1, BooksFrame DEF KInv, ReadersOK
<1>6. CASE ~r.fast /\ ~(r.for \in reg.reads /\ Waits(r.for, "read"))
  <2>1. events' = events /\ reg' = [reg EXCEPT !.reads = @ \ {r.for}]
    BY <1>6 DEF ReadDone
  <2>2. \A e : EventOK(e, readers) => EventOK(e, readers')
    BY <1>1 DEF EventOK, ReadsOf
  <2>3. EventsOK'
    BY <2>1, <2>2, <1>3 DEF KInv, EventsOK
  <2>4. WaitersOK'
    BY <2>1 DEF KInv, WaitersOK, Waits
  <2> QED BY <1>3, <1>4, <2>3, <2>4 DEF KInv
<1>7. CASE ~r.fast /\ r.for \in reg.reads /\ Waits(r.for, "read")
  <2>1. /\ reg' = [reg EXCEPT !.reads = @ \ {r.for}]
        /\ events' = [events EXCEPT ![r.for] = ReadInto(Settled(@, "read"), r.path, matches)]
    BY <1>7 DEF ReadDone
  <2>2. PICK e : e = events[r.for]
    OBVIOUS
  <2>3. PICK f : f = Settled(e, "read")
    OBVIOUS
  <2>4. PICK g : g = ReadInto(f, r.path, matches)
    OBVIOUS
  <2>5. r.for \in DOMAIN events /\ "read" \in e.waits /\ e.ts = r.for /\ EventOK(e, readers)
    BY <1>7, <2>2 DEF Waits, KInv, EventsOK
  <2>6. /\ EventShape(f) /\ f.ts = e.ts /\ f.path = e.path /\ f.full = e.full /\ f.waits = e.waits \ {"read"}
        /\ f.data = e.data
    BY <2>3, <2>5 DEF EventOK, EventShape, Settled
  <2>7. /\ EventShape(g) /\ g.ts = e.ts /\ g.path = e.path /\ g.full = e.full /\ g.waits = e.waits \ {"read"}
        /\ g.data \in {e.data, r.path}
    BY <2>4, <2>6, ReadIntoFacts
  <2>8. r.path = e.path /\ e.full /\ "seeder" \notin e.waits
    BY <1>1, <1>7, <2>5 DEF EventOK, ReadsOf
  <2>9. EventOK(g, readers')
    BY <2>5, <2>7, <2>8 DEF EventOK, EventShape
  <2>10. /\ DOMAIN events' = DOMAIN events /\ events'[r.for] = g
         /\ \A ts \in DOMAIN events : ts # r.for => events'[ts] = events[ts]
    BY <2>1, <2>2, <2>3, <2>4, <2>5
  <2>11. \A d : EventOK(d, readers) => EventOK(d, readers')
    BY <1>1 DEF EventOK, ReadsOf
  <2>12. EventsOK'
    BY <2>5, <2>7, <2>9, <2>10, <2>11, <1>3 DEF KInv, EventsOK
  <2>13. WaitersOK'
    <3>1. /\ reg' = [early |-> reg'.early, waiting |-> reg'.waiting, reads |-> reg'.reads]
          /\ reg'.waiting = reg.waiting /\ reg'.reads = reg.reads \ {r.for}
      BY <2>1 DEF KInv, WaitersOK
    <3>2. \A w \in reg.waiting : w.ts # r.for /\ Waits(w.ts, "seeder")
      BY <2>2, <2>8 DEF KInv, WaitersOK, Waits
    <3>3. \A ts : \A reason : ts # r.for /\ Waits(ts, reason) => Waits(ts, reason)'
      BY <2>10 DEF Waits
    <3> QED BY <3>1, <3>2, <3>3 DEF KInv, WaitersOK
  <2> QED BY <1>3, <1>4, <2>12, <2>13 DEF KInv
<1> QED BY <1>5, <1>6, <1>7 DEF KInv, ReadersOK

\* An event that leaves takes its waits out of the books.
LEMMA LeavesInv == ASSUME KInv, NEW ts, Leaves(ts) PROVE KInv'
<1>1. /\ UNCHANGED <<clock, flight, held, readers>>
      /\ events' = Restrict(events, DOMAIN events \ {ts})
      /\ reg' = [reg EXCEPT !.waiting = {w \in @ : w.ts # ts}, !.reads = @ \ {ts}]
  BY DEF Leaves, machine
<1>2. UnderWay' = UnderWay /\ Now' = Now
  BY <1>1 DEF UnderWay, Now
<1>3. MachineOK' /\ \A x : Past(x)' <=> Past(x)
  BY <1>1, <1>2 DEF KInv, MachineOK, Past
<1>4. DOMAIN events' = DOMAIN events \ {ts} /\ \A x \in DOMAIN events' : events'[x] = events[x]
  BY <1>1 DEF Restrict
<1>5. EventsOK' /\ ReadersOK'
  BY <1>1, <1>3, <1>4 DEF KInv, EventsOK, ReadersOK
<1>6. \A x : \A reason : x # ts /\ Waits(x, reason) => Waits(x, reason)'
  BY <1>4 DEF Waits
<1>7. WaitersOK'
  BY <1>1, <1>6 DEF KInv, WaitersOK
<1> QED BY <1>3, <1>5, <1>7 DEF KInv

-----------------------------------------------------------------------------
(* The handlers                                                              *)

\* A handler takes one event; nothing was made for its time before.
LEMMA HandlingFacts ==
  ASSUME KInv, NEW m \in held, held' = held \ {m}, UNCHANGED <<clock, flight>>
  PROVE  /\ MachineOK' /\ \A ts : Past(ts) => Past(ts)'
         /\ IsOp(m) => /\ Past(m.ts)' /\ m.ts \notin DOMAIN events /\ m.ts \notin reg.reads
                       /\ ReadsOf(readers, m.ts) = {} /\ \A w \in reg.waiting : w.ts # m.ts
<1>1. UnderWay' = UnderWay \ {m} /\ Now' = Now /\ m \in UnderWay
  BY DEF UnderWay, Now, KInv, MachineOK
<1>2. MachineOK' /\ \A ts : Past(ts) => Past(ts)'
  BY <1>1 DEF KInv, MachineOK, Past
<1>3. ASSUME IsOp(m)
      PROVE  /\ Past(m.ts)' /\ m.ts \notin DOMAIN events /\ m.ts \notin reg.reads
             /\ ReadsOf(readers, m.ts) = {} /\ \A w \in reg.waiting : w.ts # m.ts
  <2>1. ~Past(m.ts)
    BY <1>1, <1>3 DEF Past
  <2>2. Past(m.ts)'
    BY <1>1, <1>3 DEF Past, KInv, MachineOK
  <2>3. m.ts \notin DOMAIN events
    BY <2>1 DEF KInv, EventsOK
  <2> QED BY <2>1, <2>2, <2>3 DEF KInv, ReadersOK, ReadsOf, WaitersOK, Waits
<1> QED BY <1>2, <1>3

\* A new event comes into the books with what it waits for.
LEMMA PutInv ==
  ASSUME KInv, NEW m \in held, IsOp(m), held' = held \ {m}, UNCHANGED <<clock, flight>>,
         NEW e, e.ts = m.ts, EventOK(e, readers'), events' = Put(e),
         \A r \in readers' : r.fast \in BOOLEAN /\ (~r.fast => r \in readers \/ r.for = m.ts),
         reg' = [early |-> reg'.early, waiting |-> reg'.waiting, reads |-> reg'.reads],
         \A w \in reg'.waiting : w \in reg.waiting \/ (w.ts = m.ts /\ "seeder" \in e.waits),
         \A v, w \in reg'.waiting : v.ts = m.ts /\ w.ts = m.ts => v = w,
         \A ts \in reg'.reads : ts \in reg.reads \/ (ts = m.ts /\ "read" \in e.waits)
  PROVE  KInv'
<1>1. /\ MachineOK' /\ \A ts : Past(ts) => Past(ts)'
      /\ Past(m.ts)' /\ m.ts \notin DOMAIN events /\ m.ts \notin reg.reads
      /\ ReadsOf(readers, m.ts) = {} /\ \A w \in reg.waiting : w.ts # m.ts
  BY HandlingFacts
<1>2. /\ DOMAIN events' = {ts \in DOMAIN events : events[ts].waits # {}} \cup {m.ts}
      /\ events'[m.ts] = e
      /\ \A ts \in DOMAIN events' : ts # m.ts => ts \in DOMAIN events /\ events'[ts] = events[ts]
  BY DEF Put
<1>3. ReadersOK'
  BY <1>1 DEF KInv, ReadersOK
<1>4. EventsOK'
  <2> SUFFICES ASSUME NEW ts \in DOMAIN events'
               PROVE  Past(ts)' /\ events'[ts].ts = ts /\ EventOK(events'[ts], readers')
    BY DEF EventsOK
  <2>1. CASE ts = m.ts
    BY <2>1, <1>1, <1>2
  <2>2. CASE ts # m.ts
    <3>1. /\ Past(ts)' /\ events'[ts] = events[ts] /\ events[ts].ts = ts /\ EventOK(events[ts], readers)
      BY <2>2, <1>1, <1>2 DEF KInv, EventsOK
    <3>2. \A r \in ReadsOf(readers', ts) : r \in ReadsOf(readers, ts)
      BY <2>2 DEF ReadsOf
    <3> QED BY <3>1, <3>2 DEF EventOK, ReadsOf
  <2> QED BY <2>1, <2>2
<1>5. WaitersOK'
  <2>1. \A ts : \A reason : ts # m.ts /\ Waits(ts, reason) => Waits(ts, reason)'
    BY <1>2 DEF Waits
  <2>2. \A w \in reg'.waiting : Waits(w.ts, "seeder")'
    BY <2>1, <1>1, <1>2 DEF KInv, WaitersOK, Waits
  <2>3. \A v, w \in reg'.waiting : v.ts = w.ts => v = w
    BY <1>1 DEF KInv, WaitersOK
  <2>4. \A ts \in reg'.reads : Waits(ts, "read")'
    BY <2>1, <1>1, <1>2 DEF KInv, WaitersOK, Waits
  <2> QED BY <2>2, <2>3, <2>4 DEF WaitersOK
<1> QED BY <1>1, <1>3, <1>4, <1>5 DEF KInv

\* An event of a named key is complete, or starts its read; one of an unnamed
\* key waits for the seeder, if that can help.
LEMMA PushInv ==
  ASSUME KInv, NEW m \in held, IsOp(m), held' = held \ {m}, UNCHANGED <<clock, flight>>,
         NEW k, NEW s, NEW matches \in BOOLEAN, Push(k, s, m, matches)
  PROVE  KInv'
<1>1. PICK r : r = Resolve(k, m.a)
  OBVIOUS
<1>2. /\ Past(m.ts)' /\ m.ts \notin DOMAIN events /\ m.ts \notin reg.reads
      /\ ReadsOf(readers, m.ts) = {} /\ \A w \in reg.waiting : w.ts # m.ts
  BY HandlingFacts
<1>3. /\ reg = [early |-> reg.early, waiting |-> reg.waiting, reads |-> reg.reads]
      /\ \A x \in readers : x.fast \in BOOLEAN
  BY DEF KInv, WaitersOK, ReadersOK
<1>4. ASSUME StartRead(Event(m, r.root, r.path, TRUE, {}, TRUE), matches) PROVE KInv'
  <2>1. PICK e : e = Event(m, r.root, r.path, TRUE, {}, TRUE)
    OBVIOUS
  <2>2. EventShape(e) /\ e.ts = m.ts /\ e.full = TRUE /\ e.waits = {} /\ e.data = Nothing
    BY <2>1 DEF Event, EventShape
  <2>3. PICK d : d = Reads(e, matches)
    OBVIOUS
  <2>4. /\ EventShape(d.event) /\ d.event.ts = m.ts /\ d.event.path = e.path /\ d.event.full = TRUE
        /\ \/ d.new = {} /\ d.event.waits = {} /\ d.event.data \in {Nothing, e.path}
           \/ /\ d.new = {[for |-> m.ts, path |-> e.path, fast |-> FALSE]}
              /\ d.event.waits = {"read"} /\ d.event.data = Nothing
    BY <2>2, <2>3, ReadsFacts
  <2>5. /\ events' = Put(d.event) /\ readers' = readers \cup d.new
        /\ reg' = [reg EXCEPT !.early = Restrict(@, DOMAIN @ \ {e.ts}), !.reads = @ \cup {x.for : x \in d.new},
                              !.waiting = {w \in @ : w.ts # e.ts}]
    BY <1>4, <2>1, <2>3 DEF StartRead
  <2>6. /\ reg' = [early |-> reg'.early, waiting |-> reg'.waiting, reads |-> reg'.reads]
        /\ reg'.waiting \subseteq reg.waiting /\ reg'.reads = reg.reads \cup {x.for : x \in d.new}
    BY <2>5, <1>3
  <2>7. \A x \in d.new : x.fast = FALSE /\ x.for = m.ts /\ x.path = d.event.path /\ "read" \in d.event.waits
    BY <2>4
  <2>8. EventOK(d.event, readers')
    BY <2>4, <2>5, <2>7, <1>2 DEF EventOK, ReadsOf
  <2>9. \A ts \in reg'.reads : ts \in reg.reads \/ (ts = m.ts /\ "read" \in d.event.waits)
    BY <2>6, <2>7
  <2>10. \A x \in readers' : x.fast \in BOOLEAN /\ (~x.fast => x \in readers \/ x.for = m.ts)
    BY <2>5, <2>7, <1>3
  <2>11. \A w \in reg'.waiting : w \in reg.waiting /\ w.ts # m.ts
    BY <2>6, <1>2
  <2> QED BY <2>4, <2>5, <2>6, <2>8, <2>9, <2>10, <2>11, PutInv
<1>5. ASSUME NEW full \in BOOLEAN, events' = Put(Event(m, r.root, r.path, full, {}, FALSE)),
             UNCHANGED <<reg, readers>>
      PROVE  KInv'
  <2>1. PICK e : e = Event(m, r.root, r.path, full, {}, FALSE)
    OBVIOUS
  <2>2. EventShape(e) /\ e.ts = m.ts /\ e.waits = {} /\ e.data = Nothing
    BY <2>1 DEF Event, EventShape
  <2>3. EventOK(e, readers')
    BY <2>2 DEF EventOK
  <2>4. events' = Put(e)
    BY <1>5, <2>1
  <2> QED BY <1>2, <1>3, <1>5, <2>2, <2>3, <2>4, PutInv
<1>6. ASSUME NEW after, events' = Put(Event(m, r.root, r.path, FALSE, {"seeder"}, after)),
             reg' = [reg EXCEPT !.waiting = @ \cup {[ts |-> m.ts, root |-> r.root, key |-> m.a]}],
             readers' = readers
      PROVE  KInv'
  <2>1. PICK e : e = Event(m, r.root, r.path, FALSE, {"seeder"}, after)
    OBVIOUS
  <2>2. EventShape(e) /\ e.ts = m.ts /\ e.waits = {"seeder"} /\ e.data = Nothing
    BY <2>1 DEF Event, EventShape
  <2>3. EventOK(e, readers')
    BY <2>2, <1>2, <1>6 DEF EventOK
  <2>4. /\ reg' = [early |-> reg'.early, waiting |-> reg'.waiting, reads |-> reg'.reads]
        /\ reg'.waiting = reg.waiting \cup {[ts |-> m.ts, root |-> r.root, key |-> m.a]}
        /\ reg'.reads = reg.reads
    BY <1>3, <1>6
  <2>5. /\ \A w \in reg'.waiting : w \in reg.waiting \/ (w.ts = m.ts /\ "seeder" \in e.waits)
        /\ \A v, w \in reg'.waiting : v.ts = m.ts /\ w.ts = m.ts => v = w
    BY <2>2, <2>4, <1>2
  <2>6. events' = Put(e)
    BY <1>6, <2>1
  <2> QED BY <1>3, <1>6, <2>2, <2>3, <2>4, <2>5, <2>6, PutInv
<1> QED
  BY <1>1, <1>4, <1>5, <1>6 DEF Push

\* An open that makes an event pushes it.
LEMMA RegOpenInv ==
  ASSUME KInv, NEW m \in held, NEW matches \in BOOLEAN, RegOpen(m, matches)
  PROVE  KInv'
<1>1. PICK k, s : k = OpenKey(keys, m.a, m.base, m.rel, m.ts) /\ s = Changed(seeding, m.a, m.ts)
  OBVIOUS
<1>2. /\ m.what \in {"open", "create"} /\ held' = held \ {m} /\ UNCHANGED <<clock, flight>>
      /\ \/ UNCHANGED <<reg, events, readers>>
         \/ Push(k, s, m, matches)
  BY <1>1 DEF RegOpen, Handling
<1>3. CASE UNCHANGED <<reg, events, readers>>
  BY <1>2, <1>3, HandlingFacts, BooksFrame DEF KInv, ReadersOK, WaitersOK
<1>4. CASE Push(k, s, m, matches)
  BY <1>2, <1>4, PushInv DEF IsOp
<1> QED BY <1>2, <1>3, <1>4

\* A value's event is pushed.
LEMMA RegUseInv ==
  ASSUME KInv, NEW m \in held, NEW matches \in BOOLEAN, RegUse(m, matches)
  PROVE  KInv'
BY PushInv DEF RegUse, Handling, IsOp

\* A close is handled and makes no event.
LEMMA RegCloseInv == ASSUME KInv, NEW m \in held, RegClose(m) PROVE KInv'
<1>1. held' = held \ {m} /\ UNCHANGED <<clock, flight, reg, events, readers>>
  BY DEF RegClose, Handling, pipeline
<1> QED BY <1>1, HandlingFacts, BooksFrame DEF KInv, ReadersOK, WaitersOK

-----------------------------------------------------------------------------
(* Snapshots                                                                 *)

\* What the answered waiters got goes into their events, and into the books.
LEMMA AnsweredInv ==
  ASSUME KInv, UNCHANGED <<clock, flight, held>>,
         NEW alive \in SUBSET reg.waiting, NEW got, NEW new,
         new = UNION {got[w].new : w \in alive},
         \A w \in alive :
            /\ EventShape(got[w].event) /\ got[w].event.ts = w.ts
            /\ got[w].event.data # Nothing => got[w].event.full /\ got[w].event.data = got[w].event.path
            /\ \/ got[w].new = {} /\ got[w].event.waits = {}
               \/ /\ got[w].new = {[for |-> w.ts, path |-> got[w].event.path, fast |-> FALSE]}
                  /\ got[w].event.waits = {"read"} /\ got[w].event.full = TRUE,
         DOMAIN events' = DOMAIN events,
         \A w \in alive : events'[w.ts] = got[w].event,
         \A ts \in DOMAIN events : (\A w \in alive : w.ts # ts) => events'[ts] = events[ts],
         readers' = readers \cup new,
         reg' = [early |-> reg'.early, waiting |-> reg'.waiting, reads |-> reg'.reads],
         reg'.waiting = reg.waiting \ alive, reg'.reads = reg.reads \cup {x.for : x \in new}
  PROVE  KInv'
<1>1. UnderWay' = UnderWay /\ Now' = Now
  BY DEF UnderWay, Now
<1>2. MachineOK' /\ \A x : Past(x)' <=> Past(x)
  BY <1>1 DEF KInv, MachineOK, Past
<1>3. \A w \in alive : /\ w.ts \in DOMAIN events /\ events[w.ts].ts = w.ts /\ Past(w.ts)
                       /\ "read" \notin events[w.ts].waits /\ ReadsOf(readers, w.ts) = {}
  <2> SUFFICES ASSUME NEW w \in alive
               PROVE  /\ w.ts \in DOMAIN events /\ events[w.ts].ts = w.ts /\ Past(w.ts)
                      /\ "read" \notin events[w.ts].waits /\ ReadsOf(readers, w.ts) = {}
    OBVIOUS
  <2>1. w.ts \in DOMAIN events /\ "seeder" \in events[w.ts].waits
    BY DEF KInv, WaitersOK, Waits
  <2>2. Past(w.ts) /\ events[w.ts].ts = w.ts /\ EventOK(events[w.ts], readers)
    BY <2>1 DEF KInv, EventsOK
  <2>3. PICK e : e = events[w.ts]
    OBVIOUS
  <2>4. "read" \notin e.waits /\ ReadsOf(readers, e.ts) = {}
    BY <2>1, <2>2, <2>3 DEF EventOK
  <2> QED BY <2>1, <2>2, <2>3, <2>4
<1>4. \A x \in new : \E w \in alive : x \in got[w].new
  OBVIOUS
<1>5. \A x \in new : \E w \in alive : /\ x.fast = FALSE /\ x.for = w.ts /\ x.path = got[w].event.path
                                      /\ "read" \in got[w].event.waits
  BY <1>4
<1>6. \A v, w \in alive : v.ts = w.ts => v = w
  BY DEF KInv, WaitersOK
<1>7. ReadersOK'
  <2> SUFFICES ASSUME NEW r \in readers' PROVE r.fast \in BOOLEAN /\ (~r.fast => Past(r.for)')
    BY DEF ReadersOK
  <2>1. CASE r \in readers
    BY <2>1, <1>2 DEF KInv, ReadersOK
  <2>2. CASE r \in new
    <3>1. PICK w \in alive : r.fast = FALSE /\ r.for = w.ts
      BY <2>2, <1>5
    <3>2. Past(w.ts)'
      BY <1>2, <1>3
    <3> QED BY <3>1, <3>2
  <2> QED BY <2>1, <2>2
<1>8. EventsOK'
  <2> SUFFICES ASSUME NEW ts \in DOMAIN events
               PROVE  Past(ts)' /\ events'[ts].ts = ts /\ EventOK(events'[ts], readers')
    BY DEF EventsOK
  <2>1. Past(ts)' /\ events[ts].ts = ts /\ EventOK(events[ts], readers)
    BY <1>2 DEF KInv, EventsOK
  <2>2. CASE \A w \in alive : w.ts # ts
    <3>1. events'[ts] = events[ts]
      BY <2>2
    <3>2. \A r \in ReadsOf(readers', ts) : r \in ReadsOf(readers, ts)
      BY <1>5, <2>2 DEF ReadsOf
    <3>3. PICK e : e = events[ts]
      OBVIOUS
    <3>4. PICK before, after : before = ReadsOf(readers, e.ts) /\ after = ReadsOf(readers', e.ts)
      OBVIOUS
    <3>5. after \subseteq before
      BY <2>1, <3>2, <3>3, <3>4
    <3>6. EventOK(e, readers')
      BY <2>1, <3>3, <3>4, <3>5 DEF EventOK
    <3> QED BY <2>1, <3>1, <3>3, <3>6
  <2>3. CASE \E w \in alive : w.ts = ts
    <3>1. PICK w \in alive : w.ts = ts
      BY <2>3
    <3>2. PICK e : e = got[w].event
      OBVIOUS
    <3>3. events'[ts] = e /\ e.ts = ts /\ EventShape(e)
      BY <3>1, <3>2
    <3>4. \A r \in ReadsOf(readers', ts) : r.path = e.path
      BY <3>1, <3>2, <1>3, <1>5, <1>6 DEF ReadsOf
    <3>5. /\ e.data # Nothing => e.full /\ e.data = e.path
          /\ "read" \in e.waits => e.full
          /\ "seeder" \notin e.waits
      BY <3>2
    <3>6. EventOK(e, readers')
      BY <3>3, <3>4, <3>5 DEF EventOK
    <3> QED BY <2>1, <3>3, <3>6
  <2> QED BY <2>2, <2>3
<1>9. WaitersOK'
  <2>1. \A w \in reg'.waiting : Waits(w.ts, "seeder")'
    BY DEF KInv, WaitersOK, Waits
  <2>2. \A ts \in reg.reads : Waits(ts, "read")'
    BY <1>3 DEF KInv, WaitersOK, Waits
  <2>3. \A x \in new : Waits(x.for, "read")'
    BY <1>3, <1>5 DEF Waits
  <2>4. \A v, w \in reg'.waiting : v.ts = w.ts => v = w
    BY DEF KInv, WaitersOK
  <2> QED BY <2>1, <2>2, <2>3, <2>4 DEF WaitersOK
<1> QED BY <1>2, <1>7, <1>8, <1>9 DEF KInv

\* apply_snapshot and answer_key_waiters: a waiter's event gets its name and
\* then its data, or stays without both.
LEMMA ApplySnapshotInv ==
  ASSUME KInv, NEW s, NEW matches \in BOOLEAN, ApplySnapshot(s, matches)
  PROVE  KInv'
<1> DEFINE inTable == DOMAIN s.named \cup s.unnamable
           absent == (IF s.all THEN {w.root : w \in reg.waiting} ELSE s.asked) \ inTable
           Same(a) == a \in DOMAIN seeding.changes => seeding.changes[a] <= s.taken
           unnamable == seeding.unnamable \cup {a \in s.unnamable \cup absent : Same(a)}
           seeded == FoldLeft(LAMBDA k, a : SeedKey(k, a, s.named[a], s.taken), keys, SetToSeq(DOMAIN s.named))
           answered == {w \in reg.waiting : w.root \in inTable \cup absent}
           alive == {w \in answered : Waits(w.ts, "seeder")}
           Waiter(ts) == CHOOSE w \in alive : w.ts = ts
           Answer(w) == LET r == Resolve(seeded, w.key)
                            e == Settled(events[w.ts], "seeder")
                        IN IF /\ w.root \in inTable \ unnamable
                              /\ ~Reused(seeding, w, s.taken) /\ r.full
                           THEN [e EXCEPT !.path = r.path, !.full = TRUE]
                           ELSE [e EXCEPT !.readAfter = FALSE]
           Read(w) == IF Answer(w).full /\ Answer(w).readAfter THEN Reads(Answer(w), matches)
                      ELSE [event |-> Answer(w), new |-> {}]
           new == UNION {Read(w).new : w \in alive}
<1>1. /\ events' = [ts \in DOMAIN events |-> IF ts \in {w.ts : w \in alive} THEN Read(Waiter(ts)).event ELSE events[ts]]
      /\ readers' = readers \cup new
      /\ reg' = [early |-> Restrict(reg.early, DOMAIN reg.early \ {w.ts : w \in {v \in alive : Answer(v).full}}),
                 waiting |-> reg.waiting \ answered,
                 reads |-> reg.reads \cup {x.for : x \in new}]
      /\ UNCHANGED <<clock, flight, held>>
  BY DEF ApplySnapshot, machine
<1>2. alive = answered /\ alive \in SUBSET reg.waiting
  BY DEF KInv, WaitersOK
<1>3. \A w \in alive : Waiter(w.ts) = w
  BY <1>2 DEF KInv, WaitersOK
<1>4. PICK got : got = [w \in alive |-> Read(w)]
  OBVIOUS
<1>5. ASSUME NEW w \in alive
      PROVE  /\ EventShape(got[w].event) /\ got[w].event.ts = w.ts
             /\ got[w].event.data # Nothing => got[w].event.full /\ got[w].event.data = got[w].event.path
             /\ \/ got[w].new = {} /\ got[w].event.waits = {}
                \/ /\ got[w].new = {[for |-> w.ts, path |-> got[w].event.path, fast |-> FALSE]}
                   /\ got[w].event.waits = {"read"} /\ got[w].event.full = TRUE
  <2>1. PICK e : e = events[w.ts]
    OBVIOUS
  <2>2. e.ts = w.ts /\ EventShape(e) /\ e.waits = {"seeder"} /\ e.data = Nothing
    <3>1. w.ts \in DOMAIN events /\ "seeder" \in events[w.ts].waits
      BY <1>2 DEF KInv, WaitersOK, Waits
    <3>2. events[w.ts].ts = w.ts /\ EventOK(events[w.ts], readers)
      BY <3>1 DEF KInv, EventsOK
    <3>3. EventOK(e, readers) /\ "seeder" \in e.waits /\ e.ts = w.ts
      BY <2>1, <3>1, <3>2
    <3> QED BY <3>3 DEF EventOK, EventShape
  <2>3. PICK f : f = Settled(e, "seeder")
    OBVIOUS
  <2>4. f.ts = w.ts /\ EventShape(f) /\ f.waits = {} /\ f.data = Nothing
    BY <2>2, <2>3 DEF Settled, EventShape
  <2>5. PICK a : a = Answer(w)
    OBVIOUS
  <2>6. PICK path : path = Resolve(seeded, w.key).path
    OBVIOUS
  <2>7. a = [f EXCEPT !.path = path, !.full = TRUE] \/ a = [f EXCEPT !.readAfter = FALSE]
    BY <2>1, <2>3, <2>5, <2>6
  <2>8. a.ts = w.ts /\ EventShape(a) /\ a.waits = {} /\ a.data = Nothing
    <3>1. CASE a = [f EXCEPT !.path = path, !.full = TRUE]
      BY <2>4, <3>1 DEF EventShape
    <3>2. CASE a = [f EXCEPT !.readAfter = FALSE]
      BY <2>4, <3>2 DEF EventShape
    <3> QED BY <2>7, <3>1, <3>2
  <2>9. CASE a.full /\ a.readAfter
    <3>1. PICK d : d = Reads(a, matches)
      OBVIOUS
    <3>2. a.full = TRUE
      BY <2>8, <2>9 DEF EventShape
    <3>3. /\ EventShape(d.event) /\ d.event.ts = w.ts /\ d.event.path = a.path /\ d.event.full = TRUE
          /\ \/ d.new = {} /\ d.event.waits = {} /\ d.event.data \in {Nothing, a.path}
             \/ /\ d.new = {[for |-> w.ts, path |-> a.path, fast |-> FALSE]}
                /\ d.event.waits = {"read"} /\ d.event.data = Nothing
      BY ZenonT(30), <2>8, <3>1, <3>2, ReadsFacts
    <3>4. got[w] = d
      BY <1>4, <2>5, <2>9, <3>1
    <3> QED BY <3>3, <3>4
  <2>10. CASE ~(a.full /\ a.readAfter)
    <3>1. got[w].event = a /\ got[w].new = {}
      BY <1>4, <2>5, <2>10
    <3> QED BY <2>8, <3>1
  <2> QED BY <2>9, <2>10
<1> HIDE DEF Read, Answer
<1>6. \A w \in alive : got[w] = Read(w)
  BY <1>4
<1>7. \A w \in alive : w.ts \in DOMAIN events /\ events'[w.ts] = got[w].event
  BY SMTT(30), <1>1, <1>2, <1>3, <1>6 DEF KInv, WaitersOK, Waits
<1>8. \A ts \in DOMAIN events : (\A w \in alive : w.ts # ts) => events'[ts] = events[ts]
  BY <1>1
<1>9. new = UNION {got[w].new : w \in alive}
  BY <1>6
<1>10. DOMAIN events' = DOMAIN events
  BY <1>1
<1>11. /\ reg' = [early |-> reg'.early, waiting |-> reg'.waiting, reads |-> reg'.reads]
       /\ reg'.waiting = reg.waiting \ alive /\ reg'.reads = reg.reads \cup {x.for : x \in new}
  BY <1>1, <1>2
<1>12. readers' = readers \cup new /\ UNCHANGED <<clock, flight, held>>
  BY <1>1
<1>13. alive \in SUBSET reg.waiting
  BY <1>2
<1>14. \A w \in alive :
          /\ EventShape(got[w].event) /\ got[w].event.ts = w.ts
          /\ got[w].event.data # Nothing => got[w].event.full /\ got[w].event.data = got[w].event.path
          /\ \/ got[w].new = {} /\ got[w].event.waits = {}
             \/ /\ got[w].new = {[for |-> w.ts, path |-> got[w].event.path, fast |-> FALSE]}
                /\ got[w].event.waits = {"read"} /\ got[w].event.full = TRUE
  BY <1>5
<1>15. \A w \in alive : events'[w.ts] = got[w].event
  BY <1>7
<1> HIDE DEF alive, new
<1>16. PICK al, nw : al = alive /\ nw = new
  OBVIOUS
<1>17. /\ al \in SUBSET reg.waiting /\ nw = UNION {got[w].new : w \in al}
       /\ \A w \in al : events'[w.ts] = got[w].event
       /\ \A ts \in DOMAIN events : (\A w \in al : w.ts # ts) => events'[ts] = events[ts]
       /\ readers' = readers \cup nw
       /\ reg'.waiting = reg.waiting \ al /\ reg'.reads = reg.reads \cup {x.for : x \in nw}
  BY <1>8, <1>9, <1>11, <1>12, <1>13, <1>15, <1>16
<1>18. \A w \in al :
          /\ EventShape(got[w].event) /\ got[w].event.ts = w.ts
          /\ got[w].event.data # Nothing => got[w].event.full /\ got[w].event.data = got[w].event.path
          /\ \/ got[w].new = {} /\ got[w].event.waits = {}
             \/ /\ got[w].new = {[for |-> w.ts, path |-> got[w].event.path, fast |-> FALSE]}
                /\ got[w].event.waits = {"read"} /\ got[w].event.full = TRUE
  BY <1>14, <1>16
<1>19. reg' = [early |-> reg'.early, waiting |-> reg'.waiting, reads |-> reg'.reads] /\ UNCHANGED <<clock, flight, held>>
  BY <1>11, <1>12
<1> QED
  BY ZenonT(30), <1>10, <1>17, <1>18, <1>19, AnsweredInv

-----------------------------------------------------------------------------
(* The theorem                                                               *)

\* At first nothing has happened.
LEMMA InitInv == Init => KInv
BY DEF Init, KInv, MachineOK, EventsOK, ReadersOK, WaitersOK, UnderWay

\* No step breaks the invariant.
LEMMA NextInv == KInv /\ [Next]_vars => KInv'
<1> SUFFICES ASSUME KInv, [Next]_vars PROVE KInv'
  OBVIOUS
<1>1. ASSUME NEW what \in {"open", "create"}, NEW a, NEW base, NEW rel, Opens(what, a, base, rel) PROVE KInv'
  BY <1>1, LogsInv DEF Opens
<1>2. ASSUME NEW a, Closes(a) PROVE KInv'
  BY <1>2, LogsInv DEF Closes
<1>3. ASSUME NEW a, Uses("set", a) PROVE KInv'
  BY <1>3, LogsInv DEF Uses
<1>4. ASSUME NEW before, Tick(before) PROVE KInv'
  BY <1>4, IdleInv DEF Tick, machine, KInv, WaitersOK
<1>5. ASSUME NEW named, SeedBegins(named) PROVE KInv'
  BY <1>5, IdleInv DEF SeedBegins, machine, pipeline, KInv, WaitersOK
<1>6. ASSUME SeedFails PROVE KInv'
  BY <1>6, IdleInv DEF SeedFails, machine, pipeline, KInv, WaitersOK
<1>7. ASSUME NEW a, OwnerExits(a) PROVE KInv'
  BY <1>7, IdleInv DEF OwnerExits, machine, KInv, WaitersOK
<1>8. CASE UNCHANGED vars
  BY <1>8, IdleInv DEF vars, machine, pipeline, KInv, WaitersOK
<1>9. CASE Next
  BY <1>9, <1>1, <1>2, <1>3, <1>4, <1>5, <1>6, <1>7, DeliverInv, SeedEndsInv, RegOpenInv, RegUseInv, RegCloseInv,
     ApplySnapshotInv, ReadDoneInv, LeavesInv DEF Next
<1> QED BY <1>8, <1>9

\* Type and shape of what the books hold, and that they agree with the line.
THEOREM KeysInvariant == Spec => []KInv
BY InitInv, NextInv, PTL DEF Spec

\* A value's event has only data that was read by the name the event itself
\* carries (start_read, on_value_read), for every order of the events.
THEOREM DataRightAlways == Spec => []DataRight
<1>1. KInv => DataRight
  BY DEF KInv, EventsOK, EventOK, DataRight
<1> QED BY <1>1, KeysInvariant, PTL
=============================================================================
