------------------------------- MODULE Actors --------------------------------
(* Who did it (pipeline/proc.rs, pipeline/net.rs, and the actor rules of     *)
(* pipeline/mod.rs): processes start and exit on the machine, PIDs come      *)
(* back, the events of two sessions reach the pipeline with a delay, late or *)
(* never; the pipeline joins the two halves of a Launch, keeps the cache and *)
(* names the process behind each PID. The ordering stage is Ordering's; here *)
(* an event is handled in stream order or, when it came too late, after.     *)
EXTENDS ProcessCache, Network

CONSTANTS
    IdleProc,       \* the built-in process, PID 0
    MayRun,         \* may run before the sessions start: the rundown names them
    Parent,         \* who starts a process
    Ends,           \* pairs of endpoints
    Hold,           \* stream time follows the clock by this much
    JoinWindow,
    SweepEvery,     \* the performance counter's frequency: one second
    Doing,          \* the activities of this instance
    MayBeLost, MayBeLate,   \* the kinds of events that may be
    PidRest,        \* how long Windows leaves a PID unused
    MaxClock, MaxActivities \* bounds

At(what) == [what |-> what, of |-> IdleProc, ts |-> 0]
Resting == At("rest")
ASSUME ActorsAssumption ==
    /\ IdleProc \in Procs /\ MayRun \subseteq Procs \ {IdleProc}
    /\ Parent \in [Procs -> Procs]
    /\ {Hold, JoinWindow, SweepEvery, PidRest, MaxClock, MaxActivities} \subseteq Nat
    /\ \A p, q \in MayRun \cup {IdleProc} : PidOf[p] = PidOf[q] => p = q
    /\ Doing \subseteq {"call", "bare", "connect", "accept", "disconnect", "send", "receive"}

VARIABLES
    clock, born, died,  \* the machine: when each process started and exited
    coming,     \* events on their way: what, the process, when
    acted,      \* the activities so far (bounded)
    stream, nextSweep,  \* Pipeline.stream, next_sweep
    cur,        \* the event being handled, or the end of a tick (sweep), a stop, rest
    procs,      \* Pipeline.procs
    kernel, classic,    \* Launches: halves that wait, by PID
    launches,   \* the Launches made, in order: what each says, whether it waits
    net,        \* Pipeline.net
    balance,    \* history: Opens less Closes of each flow
    blamed,     \* history: <<who acted, who was named instead, whether the cache knew>>
    mistaken    \* history: PIDs Windows was asked about after they changed hands

machine == <<clock, born, died, acted>>
state == <<procs, kernel, classic, launches, net>>
books == <<balance, blamed, mistaken>>
vars == <<machine, coming, stream, nextSweep, cur, state, books>>

Unborn == -1
Alive(p) == born[p] # Unborn /\ died[p] = Unborn
NoHalf == [i \in Pids |-> <<>>]

\* seed_builtins: Idle is in the cache from the start.
Init ==
    /\ clock = 0 /\ acted = 0
    /\ \E running \in SUBSET MayRun :
          /\ born = [p \in Procs |-> IF p \in running \cup {IdleProc} THEN 0 ELSE Unborn]
          /\ coming = {[what |-> "dcstart", of |-> p, ts |-> 0] : p \in running}
    /\ died = [p \in Procs |-> Unborn]
    /\ stream = -1 /\ nextSweep = 0 /\ cur = Resting
    /\ procs = Insert(EmptyCache, IdleProc, {}, Always)
    /\ kernel = NoHalf /\ classic = NoHalf /\ launches = <<>> /\ net = NoNetwork
    /\ balance = [k \in Procs \X Ends |-> 0] /\ blamed = {} /\ mistaken = {}

-----------------------------------------------------------------------------
(* The machine                                                               *)

\* The pipeline sees the machine only through the events and live_process,
\* which may fail: what the machine does within one unit of time is taken
\* after the pipeline's work in it.
Machine == cur = Resting /\ stream >= clock - Hold
\* Bound: the last events are handled before the instance ends.
Acting == Machine /\ clock <= MaxClock - Hold

\* Some of its events may be lost: a full queue, a lost buffer.
Log(p, whats) ==
    \E lost \in SUBSET (whats \cap MayBeLost) :
        coming' = coming \cup {[what |-> w, of |-> p, ts |-> clock] : w \in whats \ lost}

Starts(p) ==
    /\ Acting /\ born[p] = Unborn /\ Alive(Parent[p])
    /\ \A q \in Procs : PidOf[q] = PidOf[p] /\ born[q] # Unborn => ~Alive(q) /\ clock > died[q] + PidRest
    /\ born' = [born EXCEPT ![p] = clock]
    /\ Log(p, {"start", "classic"})
    /\ UNCHANGED <<clock, died, acted, stream, nextSweep, cur, state, books>>

Exits(p) ==
    /\ Acting /\ Alive(p) /\ p # IdleProc
    /\ died' = [died EXCEPT ![p] = clock]
    /\ Log(p, {"stop"})
    /\ UNCHANGED <<clock, born, acted, stream, nextSweep, cur, state, books>>

\* call: logged with the caller's start key (DNS, an image load); bare: with
\* no start key; the others name their process by a payload PID only.
Acts(p, a) ==
    /\ Acting /\ Alive(p) /\ p # IdleProc /\ acted < MaxActivities
    /\ acted' = acted + 1
    /\ Log(p, {a})
    /\ UNCHANGED <<clock, born, died, stream, nextSweep, cur, state, books>>

\* What must not be late is handled before stream time passes it.
InTime(to) == \A m \in coming : m.ts < to => m.what \in MayBeLate
Passes ==
    /\ Machine /\ clock < MaxClock
    /\ clock' = clock + 1
    /\ UNCHANGED <<born, died, acted, coming, stream, nextSweep, cur, state, books>>

-----------------------------------------------------------------------------
(* Stream time                                                               *)

Within(a, b) == a - b <= JoinWindow /\ b - a <= JoinWindow
Waiting(half) == half # <<>>
Expired(pid) == Waiting(classic[pid]) /\ classic[pid][1].ts + JoinWindow < stream
HalvesDone == \A pid \in Pids : ~Expired(pid)

\* step: the kernel halves whose window passed take no partner any more.
Step(to) ==
    /\ stream' = Max({stream, to})
    /\ kernel' = [i \in Pids |-> IF Waiting(kernel[i]) /\ to > stream /\ kernel[i][1].ts + JoinWindow < to
                                 THEN <<>> ELSE kernel[i]]

\* The next event in order, after the windows before it; a late one at once.
Take(m) ==
    /\ cur = Resting /\ m \in coming
    /\ m.ts < stream \/ (m.ts <= clock - Hold /\ InTime(m.ts))
    /\ coming' = coming \ {m} /\ cur' = m
    /\ Step(m.ts)
    /\ UNCHANGED <<machine, nextSweep, procs, classic, launches, net, books>>

\* The end of a tick: the watermark, then the sweeps.
Advance ==
    /\ cur = Resting /\ stream < clock - Hold /\ InTime(clock - Hold + 1)
    /\ Step(clock - Hold) /\ cur' = At("sweep")
    /\ UNCHANGED <<machine, coming, nextSweep, procs, classic, launches, net, books>>

Closed(keys) == [k \in Procs \X Ends |-> balance[k] - IF k \in keys THEN 1 ELSE 0]
Sweep ==
    /\ cur = At("sweep") /\ HalvesDone
    /\ cur' = Resting
    /\ \/ stream < nextSweep /\ UNCHANGED <<nextSweep, net, procs, balance>>
       \/ /\ stream >= nextSweep
          /\ nextSweep' = stream + SweepEvery
          /\ net' = Without(net, Idle(net, stream)) /\ balance' = Closed(Idle(net, stream))
          /\ procs' = Expire(procs, stream)
    /\ UNCHANGED <<machine, coming, stream, kernel, classic, launches, blamed, mistaken>>

-----------------------------------------------------------------------------
(* Actors                                                                    *)

\* live_process: Windows names who has the PID now, or fails.
Live(pid) == {p \in Procs : Alive(p) /\ PidOf[p] = pid}
Answers == {{}} \cup {{p} : p \in Procs}
LiveAnswers(pid) == {{}} \cup {{p} : p \in Live(pid)}

\* actor_sync: the cache if it agrees with the start key, Windows if it does,
\* the bare key; without a key the cache, Idle, or nobody.
\* The result: who is named and the cache after.
ActorSync(c, p, key, ts, live) ==
    LET pid == PidOf[p]
        known == LookupAt(c, pid, ts)
        after == LookedUp(c, pid, ts)
    IN IF known # {} /\ (key = {} \/ key = known) THEN [named |-> known, cache |-> after]
       ELSE IF key = {} THEN [named |-> {IdleProc} \cap {p}, cache |-> after]
       ELSE IF live = key THEN [named |-> key, cache |-> Insert(after, p, live, ts)]
       ELSE [named |-> key, cache |-> after]

\* actor_payload: the cache at the event's time, Idle, or nobody.
ActorPayload(c, p, ts) ==
    LET known == LookupAt(c, PidOf[p], ts)
    IN IF known # {} THEN known ELSE {IdleProc} \cap {p}

\* Did the cache know the process as of ts?
Knew(c, p, ts) == p \in Cached(c) /\ c.entries[p].start <= ts
Blames(p, named, ts) == blamed' = blamed \cup {<<p, q, Knew(procs, p, ts)>> : q \in named \ {p}}

-----------------------------------------------------------------------------
(* Launches                                                                  *)

\* Pipeline::process, once the halves that were due have gone.
Handling(kinds) ==
    /\ cur.what \in kinds /\ HalvesDone
    /\ cur' = Resting
    /\ UNCHANGED <<machine, coming, stream, nextSweep>>

Launch(p, cmd, joined) ==
    [of |-> p, cmd |-> cmd, waits |-> ~joined]

\* on_process_start. The Launch is not made when its actor is nobody.
ProcessStart(key, live) ==
    LET m == cur
        p == m.of
        pid == PidOf[p]
        joined == Waiting(classic[pid]) /\ Within(classic[pid][1].ts, m.ts)
        cmd == IF joined THEN {classic[pid][1].of} ELSE {}
        actor == ActorSync(Insert(procs, p, cmd, m.ts), Parent[p], key, m.ts, live)
    IN /\ Handling({"start"})
       /\ key \in {{}, {Parent[p]}} /\ live \in LiveAnswers(PidOf[Parent[p]])
       /\ classic' = IF joined THEN [classic EXCEPT ![pid] = <<>>] ELSE classic
       /\ procs' = actor.cache
       /\ \/ /\ actor.named = {} /\ UNCHANGED <<launches, kernel>>
          \/ /\ actor.named # {}
             /\ launches' = Append(launches, Launch(p, cmd, joined))
             /\ kernel' = IF joined THEN kernel
                          ELSE [kernel EXCEPT ![pid] = <<[ts |-> m.ts, id |-> Len(launches) + 1, of |-> p]>>]
       /\ UNCHANGED <<net, balance, blamed, mistaken>>

\* on_classic Start: the details go to the Launch that waits, and the cache.
ClassicStart ==
    LET m == cur
        pid == PidOf[m.of]
    IN /\ Handling({"classic"})
       /\ \/ /\ Waiting(kernel[pid]) /\ Within(kernel[pid][1].ts, m.ts)
             /\ LET h == kernel[pid][1]
                IN /\ procs' = Insert(procs, h.of, {m.of}, h.ts)
                   /\ launches' = IF ~launches[h.id].waits THEN launches
                                  ELSE [launches EXCEPT ![h.id].cmd = {m.of}, ![h.id].waits = FALSE]
             /\ kernel' = [kernel EXCEPT ![pid] = <<>>]
             /\ UNCHANGED classic
          \/ /\ ~(Waiting(kernel[pid]) /\ Within(kernel[pid][1].ts, m.ts))
             /\ classic' = [classic EXCEPT ![pid] = <<[ts |-> m.ts, of |-> m.of]>>]
             /\ UNCHANGED <<procs, launches, kernel>>
       /\ UNCHANGED <<net, books>>

\* on_classic DcStart, seed_rundown: cached, never a Launch.
Rundown(live) ==
    /\ Handling({"dcstart"}) /\ live \in LiveAnswers(PidOf[cur.of])
    /\ procs' = IF live = {} THEN procs ELSE Insert(procs, CHOOSE q \in live : TRUE, {cur.of}, Always)
    /\ mistaken' = mistaken \cup {PidOf[q] : q \in live \ {cur.of}}
    /\ UNCHANGED <<kernel, classic, launches, net, balance, blamed>>

\* The Kernel-Process half of the live process came; a mutant that does not ask.
NeverCame(c, p) == FALSE
HalfCame(c, p) == p \in Cached(c)

\* launch_expiry: a classic half alone. Windows must still know the process;
\* one the cache has keeps its Launch and gains the details.
ExpireClassic(pid, live, key) ==
    /\ cur # Resting /\ Expired(pid) /\ key \in {{}, {Parent[classic[pid][1].of]}}
    /\ classic' = [classic EXCEPT ![pid] = <<>>]
    /\ LET h == classic[pid][1]
           p == CHOOSE q \in live : TRUE
       IN \/ /\ live = {}
             /\ UNCHANGED <<procs, launches>>
          \/ /\ live # {} /\ HalfCame(procs, p)
             /\ procs' = IF procs.entries[p].cmd = {} THEN SetCommand(procs, p, {h.of}) ELSE procs
             /\ UNCHANGED <<launches>>
          \/ /\ live # {} /\ ~HalfCame(procs, p)
             /\ LET actor == ActorSync(Insert(procs, p, {h.of}, h.ts), Parent[h.of], key, h.ts, Live(PidOf[Parent[h.of]]))
                IN /\ procs' = actor.cache
                   /\ launches' = IF actor.named = {} THEN launches
                                  ELSE Append(launches, Launch(p, {h.of}, TRUE))
       /\ mistaken' = mistaken \cup {PidOf[q] : q \in live \ {h.of}}
    /\ UNCHANGED <<machine, coming, stream, nextSweep, cur, kernel, net, balance, blamed>>

\* on_process_stop.
ProcessStop ==
    /\ Handling({"stop"})
    /\ procs' = End(procs, cur.of, cur.ts)
    /\ UNCHANGED <<kernel, classic, launches, net, books>>

\* A Launch whose other half did not come leaves, at its deadline or when the
\* stage is full, with what the live process says, if it is the same
\* (finish_incomplete, join_fallback). A joined one has nothing to wait for.
Leave(l, live) == [l EXCEPT !.waits = FALSE, !.cmd = IF live = {l.of} THEN live ELSE @]
Leaves(i, live) ==
    /\ Machine /\ launches[i].waits
    /\ launches' = [launches EXCEPT ![i] = Leave(@, live)]
    /\ procs' = IF live = {launches[i].of} THEN SetCommand(procs, launches[i].of, live) ELSE procs
    /\ UNCHANGED <<machine, coming, stream, nextSweep, cur, kernel, classic, net, books>>

-----------------------------------------------------------------------------
(* The network                                                               *)

\* on_dns, on_image_load of the caller itself: the start key decides.
Call(live) ==
    LET m == cur
        key == IF m.what = "call" THEN {m.of} ELSE {}
        actor == ActorSync(procs, m.of, key, m.ts, live)
    IN /\ Handling({"call", "bare"}) /\ live \in LiveAnswers(PidOf[m.of])
       /\ procs' = actor.cache
       /\ Blames(m.of, actor.named, m.ts)
       /\ UNCHANGED <<kernel, classic, launches, net, balance, mistaken>>

\* on_tcp: keyed by PID.
Tcp(end) ==
    LET m == cur
        named == ActorPayload(procs, m.of, m.ts)
        key == <<PidOf[m.of], end>>
    IN /\ Handling({"connect", "accept", "disconnect"})
       /\ procs' = LookedUp(procs, PidOf[m.of], m.ts)
       /\ Blames(m.of, named, m.ts)
       /\ net' = CASE named = {} -> net
                   [] named # {} /\ m.what = "connect" -> TcpOpen(net, key, Outbound)
                   [] named # {} /\ m.what = "accept" -> TcpOpen(net, key, Inbound)
                   [] OTHER -> TcpClose(net, key)
       /\ UNCHANGED <<kernel, classic, launches, balance, mistaken>>

\* on_udp: the first datagram opens a flow, and a full table closes others.
Udp(end) ==
    LET m == cur
        named == ActorPayload(procs, m.of, m.ts)
        key == <<CHOOSE p \in named : TRUE, end>>
        direction == IF m.what = "send" THEN Outbound ELSE Inbound
    IN /\ Handling({"send", "receive"})
       /\ procs' = LookedUp(procs, PidOf[m.of], m.ts)
       /\ Blames(m.of, named, m.ts)
       /\ \/ named = {} /\ UNCHANGED <<net, balance>>
          \/ named # {} /\ key \in DOMAIN net.flows /\ net' = Seen(net, key, m.ts) /\ UNCHANGED balance
          \/ /\ named # {} /\ key \notin DOMAIN net.flows
             /\ net' = FlowOpen(net, key, direction, m.ts)
             /\ balance' = [Closed(Displaced(net)) EXCEPT ![key] = @ + 1]
       /\ UNCHANGED <<kernel, classic, launches, mistaken>>

-----------------------------------------------------------------------------

\* stop: everything held was handled; every window closes, every flow, every Launch.
Stop ==
    /\ cur = Resting /\ clock = MaxClock /\ coming = {} /\ stream >= clock - Hold
    /\ stream' = MaxClock + JoinWindow + 1
    /\ kernel' = NoHalf
    /\ cur' = At("stopping")
    /\ UNCHANGED <<machine, coming, nextSweep, procs, classic, launches, net, books>>
StopEnds ==
    /\ cur = At("stopping") /\ HalvesDone
    /\ balance' = Closed(DOMAIN net.flows) /\ net' = Without(net, DOMAIN net.flows)
    /\ launches' = [i \in DOMAIN launches |->
                       IF launches[i].waits THEN Leave(launches[i], Live(PidOf[launches[i].of])) ELSE launches[i]]
    /\ cur' = At("stopped")
    /\ UNCHANGED <<machine, coming, stream, nextSweep, procs, kernel, classic, blamed, mistaken>>
Stopped == cur = At("stopped") /\ UNCHANGED vars

Next ==
    \/ \E p \in Procs : Starts(p) \/ Exits(p)
    \/ \E p \in Procs, a \in Doing : Acts(p, a)
    \/ \E m \in coming : Take(m)
    \/ Passes \/ Advance \/ Sweep
    \/ \E key, live \in Answers : ProcessStart(key, live)
    \/ \E live \in Answers : Rundown(live) \/ Call(live)
    \/ ClassicStart \/ ProcessStop
    \/ \E end \in Ends : Tcp(end) \/ Udp(end)
    \/ \E pid \in Pids : \E live \in LiveAnswers(pid) : \E key \in Answers : ExpireClassic(pid, live, key)
    \/ \E i \in DOMAIN launches : \E live \in LiveAnswers(PidOf[launches[i].of]) : Leaves(i, live)
    \/ Stop \/ StopEnds \/ Stopped

Spec == Init /\ [][Next]_vars

-----------------------------------------------------------------------------
(* Properties                                                                *)

\* The index and the lookups are over the entries, and the cap holds.
Ordered(order, ps) == \A p, q \in ps : p # q => (<<p, q>> \in order <=> <<q, p>> \notin order)
ActorsTypeOK ==
    /\ \A pid \in Pids : /\ procs.byPid[pid] = {p \in Cached(procs) : PidOf[p] = pid}
                          /\ Ordered(procs.added, procs.byPid[pid])
    /\ Ordered(procs.touched, Cached(procs))
    /\ Cardinality(Cached(procs)) <= ProcessCap
    /\ Cardinality(DOMAIN net.flows) <= FlowCap /\ Cardinality(DOMAIN net.tcp) <= FlowCap

\* The pipeline blames an activity on another process with the same PID only
\* if the cache did not know the one that acted as of that time, or Windows
\* was asked about a PID that had already changed hands.
BlamedRight ==
    \A b \in blamed : b[3] => PidOf[b[1]] \in mistaken

\* A process whose Kernel-Process half is not late gets one Launch at most,
\* unless it was evicted while it ran: launch_expiry asks the cache whether
\* that half came. And no Launch has another process's command line.
OneLaunch ==
    /\ \A i, j \in DOMAIN launches :
          /\ i < j /\ launches[i].of = launches[j].of
          => "start" \in MayBeLate \/ PidOf[launches[i].of] \in mistaken \/ launches[i].of \in procs.evicted
    /\ \A i \in DOMAIN launches :
          launches[i].cmd \subseteq {launches[i].of} \/ PidOf[launches[i].of] \in mistaken

\* Every UDP Open has one Close: its flow is in the table until then, and
\* none is left after a clean stop.
OpensClosed ==
    /\ \A k \in Procs \X Ends : balance[k] = IF k \in DOMAIN net.flows THEN 1 ELSE 0
    /\ cur = At("stopped") => \A k \in Procs \X Ends : balance[k] = 0

\* The tables' bookkeeping, their caps included, and the Closes that rest on it.
TablesOK == ActorsTypeOK /\ OpensClosed
=============================================================================
