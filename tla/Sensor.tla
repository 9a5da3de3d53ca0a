------------------------------- MODULE Sensor --------------------------------
(* The life of an agent process: the single-instance lock (win/instance.rs), *)
(* run and its console handler (win/run.rs), the start and the stop of the   *)
(* sensor (win/agent.rs) and the ETW sessions and consumers it owns          *)
(* (atlas-etw: session). Sessions outlive the process that started them. An  *)
(* outsider may stop a session and start others, which take freed LoggerIds. *)
EXTENDS Integers, FiniteSets, FiniteSetsExt, Functions, TLC

CONSTANTS
    Procs,                              \* runs of the agent, each once
    Tries,                              \* of namespace
    MaxEvents, MaxCrashes, MaxOutside   \* bounds

ASSUME SensorAssumption ==
    /\ Tries \in Nat \ {0} /\ {MaxEvents, MaxCrashes, MaxOutside} \subseteq Nat
    /\ {"none", "outsider"} \cap Procs = {}     \* owners of a session that are no run

VARIABLES
    lock,       \* the private namespace: its generation, who has it open; who holds a mutex, of which
    proc,       \* each process: where it is in run, what it owns
    sessions,   \* what ETW has under a name: whose, and its LoggerId
    trace,      \* each consumer: its thread, CloseTrace called, events its session holds for it
    pipe,       \* each pipeline: its thread, the queue, what it got
    early,      \* events logged to a session of the process before its stop
    world       \* counts of what the bounds limit, and what went wrong

sensorVars == <<lock, proc, sessions, trace, pipe, early, world>>

Names == {"A", "B"}
Other == "X"
Outsider == "outsider"
Free == [owner |-> "none", id |-> 0]

Fresh(pc) == [pc |-> pc, tries |-> 0, gen |-> 0, ids |-> [n \in Names |-> 0], handler |-> FALSE,
          stop |-> FALSE, late |-> FALSE, failed |-> FALSE]
NoTrace == [n \in Names |-> [thread |-> "none", closed |-> FALSE, of |-> "none", held |-> {}]]
NoPipe == [thread |-> "none", queue |-> {}, got |-> {}]
SensorInit ==
    /\ lock = [gen |-> 0, open |-> {}, mutex |-> {}]
    /\ proc = [p \in Procs |-> Fresh("create")]
    /\ sessions = [n \in Names \cup {Other} |-> Free]
    /\ trace = [p \in Procs |-> NoTrace]
    /\ pipe = [p \in Procs |-> NoPipe]
    /\ early = [p \in Procs |-> {}]
    /\ world = [events |-> 0, crashes |-> 0, outside |-> 0, raced |-> FALSE, torn |-> {}, foreign |-> FALSE]

At(p, pc) == proc[p].pc = pc
Goes(p, pc) == proc' = [proc EXCEPT ![p].pc = pc]
Over == {"ended", "killed", "crashed"}
Lives(p) == proc[p].pc \notin Over

-----------------------------------------------------------------------------
(* The lock                                                                  *)

Released(p) == [lock EXCEPT !.open = @ \ {p}, !.mutex = {m \in @ : m[1] # p}]

\* namespace: create it, or open the one that is there; again if it vanished.
CreateNamespace(p) ==
    /\ At(p, "create")
    /\ IF lock.open = {}
       THEN /\ lock' = [lock EXCEPT !.gen = @ + 1, !.open = {p}]
            /\ proc' = [proc EXCEPT ![p].pc = "mutex", ![p].gen = lock.gen + 1]
       ELSE Goes(p, "open") /\ UNCHANGED lock
    /\ UNCHANGED <<sessions, trace, pipe, early, world>>
OpenNamespace(p) ==
    /\ At(p, "open")
    /\ IF lock.open # {}
       THEN /\ lock' = [lock EXCEPT !.open = @ \cup {p}]
            /\ proc' = [proc EXCEPT ![p].pc = "mutex", ![p].gen = lock.gen]
       ELSE /\ proc' = [proc EXCEPT ![p].pc = IF proc[p].tries + 1 = Tries THEN "ended" ELSE "create", ![p].tries = @ + 1]
            /\ UNCHANGED lock
    /\ UNCHANGED <<sessions, trace, pipe, early, world>>

\* acquire_as: a mutex that exists is another instance's. A mutant takes it.
Unheld(p) == TRUE
Unowned(p) == \A m \in lock.mutex : m[2] # proc[p].gen
TakeMutex(p) ==
    /\ At(p, "mutex")
    /\ IF Unowned(p)
       THEN Goes(p, "prepare") /\ lock' = [lock EXCEPT !.mutex = @ \cup {<<p, proc[p].gen>>}]
       ELSE proc' = [proc EXCEPT ![p] = Fresh("ended")] /\ lock' = Released(p)
    /\ UNCHANGED <<sessions, trace, pipe, early, world>>

-----------------------------------------------------------------------------
(* Start                                                                     *)

\* run: the directory, the settings and the buffer, each of which may refuse.
Prepare(p, ok) ==
    /\ At(p, "prepare")
    /\ IF ok THEN Goes(p, "handler") /\ UNCHANGED lock
       ELSE proc' = [proc EXCEPT ![p] = Fresh("ended")] /\ lock' = Released(p)
    /\ UNCHANGED <<sessions, trace, pipe, early, world>>
\* install_ctrl_handler, before the sessions start. A mutant installs none.
NoHandler(p) == Goes(p, "leftA")
InstallHandler(p) == proc' = [proc EXCEPT ![p].pc = "leftA", ![p].handler = TRUE]
Handler(p) ==
    /\ At(p, "handler") /\ InstallHandler(p)
    /\ UNCHANGED <<lock, sessions, trace, pipe, early, world>>

LeftPc(n) == IF n = "A" THEN "leftA" ELSE "leftB"
StartPc(n) == IF n = "A" THEN "startA" ELSE "startB"
\* agent::start failed: its locals go.
Fails(p) == proc' = [proc EXCEPT ![p].pc = "close", ![p].failed = TRUE]

\* ControlTraceW(stop): the session's consumers get what it holds, then end.
Stopped(n) == sessions' = [sessions EXCEPT ![n] = Free]
InUse == {sessions[n].id : n \in DOMAIN sessions}
\* A new session gets the least LoggerId that is free.
NewId == Min((1..5) \ InUse)

\* Session::start: a leftover of the name is stopped, then the session started
\* (and its providers enabled).
StopLeftover(p, n) ==
    /\ At(p, LeftPc(n))
    /\ Stopped(n) /\ Goes(p, StartPc(n))
    /\ world' = [world EXCEPT !.torn = @ \cup {q \in Procs \ {p} : sessions[n].owner = q /\ Lives(q)}]
    /\ UNCHANGED <<lock, trace, pipe, early>>
StartTrace(p, n, ok) ==
    /\ At(p, StartPc(n))
    /\ IF ok /\ sessions[n] = Free
       THEN /\ sessions' = [sessions EXCEPT ![n] = [owner |-> p, id |-> NewId]]
            /\ proc' = [proc EXCEPT ![p].pc = IF n = "A" THEN "leftB" ELSE "consumeA", ![p].ids[n] = NewId]
       ELSE Fails(p) /\ UNCHANGED sessions
    /\ UNCHANGED <<lock, trace, pipe, early, world>>

\* consume_with: OpenTraceW on what has the name, and the ProcessTrace thread.
Consume(p, n, ok) ==
    /\ At(p, IF n = "A" THEN "consumeA" ELSE "consumeB")
    /\ IF ok /\ sessions[n] # Free
       THEN /\ trace' = [trace EXCEPT ![p][n] = [thread |-> "running", closed |-> trace[p][n].closed,
                                                 of |-> sessions[n].owner, held |-> trace[p][n].held]]
            /\ Goes(p, IF n = "A" THEN "consumeB" ELSE "spawn")
       ELSE Fails(p) /\ UNCHANGED trace
    /\ UNCHANGED <<lock, sessions, pipe, early, world>>
SpawnPipeline(p) ==
    /\ At(p, "spawn")
    /\ pipe' = [pipe EXCEPT ![p].thread = "running"] /\ Goes(p, "run")
    /\ UNCHANGED <<lock, sessions, trace, early, world>>

-----------------------------------------------------------------------------
(* Events, the consumers and the pipeline                                    *)

\* An event is logged to a session a process started.
Log(n) ==
    LET p == sessions[n].owner
        e == world.events + 1
    IN /\ p \in Procs /\ world.events < MaxEvents /\ Lives(p)
       /\ trace' = [trace EXCEPT ![p][n].held = @ \cup {e}]
       /\ early' = IF At(p, "run") THEN [early EXCEPT ![p] = @ \cup {e}] ELSE early
       /\ world' = [world EXCEPT !.events = e]
       /\ UNCHANGED <<lock, proc, sessions, pipe>>

\* trampoline and the callback: into the queue while the pipeline takes.
Deliver(p, n) ==
    /\ trace[p][n].thread = "running" /\ trace[p][n].of = p /\ trace[p][n].held # {}
    /\ LET e == Min(trace[p][n].held)
       IN /\ trace' = [trace EXCEPT ![p][n].held = @ \ {e}]
          /\ pipe' = [pipe EXCEPT ![p].queue = @ \cup {e}]
    /\ UNCHANGED <<lock, proc, sessions, early, world>>

\* ProcessTrace returns once the session has gone and its events are
\* delivered, or the trace is closed; the context goes with the thread.
ProcessTraceReturns(p, n) ==
    /\ trace[p][n].thread = "running"
    /\ trace[p][n].closed \/ (sessions[n].owner # trace[p][n].of /\ (trace[p][n].of = p => trace[p][n].held = {}))
    /\ trace' = [trace EXCEPT ![p][n].thread = "ended"]
    /\ UNCHANGED <<lock, proc, sessions, pipe, early, world>>

PipelineTakes(p) ==
    /\ pipe[p].thread = "running" /\ pipe[p].queue # {}
    /\ pipe' = [pipe EXCEPT ![p].got = @ \cup {Min(pipe[p].queue)}, ![p].queue = @ \ {Min(pipe[p].queue)}]
    /\ UNCHANGED <<lock, proc, sessions, trace, early, world>>
\* The senders are the consumers' contexts and `spare`.
SendersGone(p) == At(p, "join") /\ \A n \in Names : trace[p][n].thread # "running"
PipelineEnds(p) ==
    /\ pipe[p].thread = "running" /\ pipe[p].queue = {} /\ SendersGone(p)
    /\ pipe' = [pipe EXCEPT ![p].thread = "ended"]
    /\ UNCHANGED <<lock, proc, sessions, trace, early, world>>

-----------------------------------------------------------------------------
(* Stop                                                                      *)

\* The main loop ends; the sessions are flushed and the hold waited out.
StopAsked(p) ==
    /\ At(p, "run") /\ proc[p].stop
    /\ Goes(p, "stopA")
    /\ UNCHANGED <<lock, sessions, trace, pipe, early, world>>

\* Session::stop, and its drop: check_current by the name, then ControlTraceW
\* by the handle, the LoggerId. A mutant does not check.
Unchecked(p, n) == proc[p].ids[n] # 0
IsCurrent(p, n) == proc[p].ids[n] # 0 /\ sessions[n].id = proc[p].ids[n]
CheckPc(n) == IF n = "A" THEN "stopA" ELSE "stopB"
ControlPc(n) == IF n = "A" THEN "controlA" ELSE "controlB"
\* A stop takes A then B and waits for the consumers; a failed start drops B
\* then A and is over.
AfterStop(p, n) ==
    IF proc[p].failed THEN IF n = "B" THEN "stopA" ELSE "exit"
    ELSE IF n = "A" THEN "stopB" ELSE "wait"
CheckCurrent(p, n) ==
    /\ At(p, CheckPc(n))
    /\ Goes(p, IF IsCurrent(p, n) THEN ControlPc(n) ELSE AfterStop(p, n))
    /\ UNCHANGED <<lock, sessions, trace, pipe, early, world>>
Control(p, n) ==
    /\ At(p, ControlPc(n))
    /\ LET hit == {m \in DOMAIN sessions : sessions[m].id = proc[p].ids[n]}
       IN /\ sessions' = [m \in DOMAIN sessions |-> IF m \in hit THEN Free ELSE sessions[m]]
          /\ world' = [world EXCEPT !.foreign = @ \/ hit \ {n} # {}]
    /\ Goes(p, AfterStop(p, n))
    /\ UNCHANGED <<lock, trace, pipe, early>>

\* finish: until the consumers have finished, or ten seconds. A mutant does
\* not wait.
NoneWaitedFor(p) == TRUE
Finished(p) == \A n \in Names : trace[p][n].thread # "running"
WaitFinished(p, late) ==
    /\ At(p, "wait")
    /\ late \/ Finished(p)
    /\ proc' = [proc EXCEPT ![p].pc = "close", ![p].late = late]
    /\ UNCHANGED <<lock, sessions, trace, pipe, early, world>>
\* Consumer::close: CloseTrace, then the join of its thread.
CloseTrace(p) ==
    /\ At(p, "close")
    /\ trace' = [trace EXCEPT ![p] = [n \in Names |-> [trace[p][n] EXCEPT !.closed = TRUE]]]
    /\ Goes(p, "closing")
    /\ UNCHANGED <<lock, sessions, pipe, early, world>>
JoinConsumers(p) ==
    /\ At(p, "closing") /\ \A n \in Names : trace[p][n].thread # "running"
    /\ Goes(p, IF proc[p].failed THEN "stopB" ELSE "join")
    /\ UNCHANGED <<lock, sessions, trace, pipe, early, world>>
JoinPipeline(p) ==
    /\ At(p, "join") /\ pipe[p].thread = "ended"
    /\ Goes(p, "exit")
    /\ UNCHANGED <<lock, sessions, trace, pipe, early, world>>
\* The final report and the buffer are closed; STOPPED; the lock is dropped.
Exit(p) ==
    /\ At(p, "exit")
    /\ proc' = [proc EXCEPT ![p] = Fresh("ended")]
    /\ lock' = Released(p) /\ early' = [early EXCEPT ![p] = {}]
    /\ pipe' = [pipe EXCEPT ![p].got = {}]
    /\ UNCHANGED <<sessions, trace, world>>

-----------------------------------------------------------------------------
(* The console, crashes and outsiders                                        *)

\* The process is gone: its handles close, its threads end, its sessions stay.
Dies(p, pc) ==
    /\ proc' = [proc EXCEPT ![p] = Fresh(pc)]
    /\ lock' = Released(p) /\ early' = [early EXCEPT ![p] = {}]
    /\ trace' = [trace EXCEPT ![p] = NoTrace]
    /\ pipe' = [pipe EXCEPT ![p] = NoPipe]

\* on_ctrl: asks for the stop, and a close waits for STOPPED; without the handler Windows ends the process.
Ctrl(p) ==
    /\ Lives(p) /\ ~proc[p].stop
    /\ IF proc[p].handler
       THEN proc' = [proc EXCEPT ![p].stop = TRUE] /\ UNCHANGED <<lock, trace, pipe, early>>
       ELSE Dies(p, "killed")
    /\ UNCHANGED <<sessions, world>>
\* A crash, or a console close that outlasts CLOSE_WAIT.
Crash(p) ==
    /\ Lives(p) /\ world.crashes < MaxCrashes
    /\ Dies(p, "crashed")
    /\ world' = [world EXCEPT !.crashes = @ + 1]
    /\ UNCHANGED sessions

\* Races: a session changed between check_current and ControlTraceW.
Races == \E p \in Procs, n \in Names : At(p, ControlPc(n))
OutsiderStops(n) ==
    /\ world.outside < MaxOutside /\ sessions[n] # Free
    /\ Stopped(n)
    /\ world' = [world EXCEPT !.outside = @ + 1, !.raced = @ \/ Races]
    /\ UNCHANGED <<lock, proc, trace, pipe, early>>
OutsiderStarts(n) ==
    /\ world.outside < MaxOutside /\ sessions[n] = Free
    /\ sessions' = [sessions EXCEPT ![n] = [owner |-> Outsider, id |-> NewId]]
    /\ world' = [world EXCEPT !.outside = @ + 1, !.raced = @ \/ Races]
    /\ UNCHANGED <<lock, proc, trace, pipe, early>>

Step(p) ==
    \/ CreateNamespace(p) \/ OpenNamespace(p) \/ TakeMutex(p) \/ Handler(p) \/ SpawnPipeline(p)
    \/ \E ok \in BOOLEAN : Prepare(p, ok)
    \/ \E n \in Names : StopLeftover(p, n) \/ CheckCurrent(p, n) \/ Control(p, n)
    \/ \E n \in Names, ok \in BOOLEAN : StartTrace(p, n, ok) \/ Consume(p, n, ok)
    \/ StopAsked(p) \/ CloseTrace(p) \/ JoinConsumers(p) \/ JoinPipeline(p) \/ Exit(p)
    \/ \E late \in BOOLEAN : WaitFinished(p, late)
Threads(p) ==
    \/ \E n \in Names : Deliver(p, n) \/ ProcessTraceReturns(p, n)
    \/ PipelineTakes(p) \/ PipelineEnds(p)

SensorNext ==
    \/ \E p \in Procs : Step(p) \/ Threads(p) \/ Crash(p) \/ Ctrl(p)
    \/ \E n \in Names : Log(n)
    \/ \E n \in DOMAIN sessions : OutsiderStops(n) \/ OutsiderStarts(n)

SensorSpec == SensorInit /\ [][SensorNext]_sensorVars

-----------------------------------------------------------------------------
(* Properties                                                                *)

\* Two runs never hold the lock at once, and the start of one never stops the
\* sessions of another that lives (instance.rs, Session::start).
OneInstance ==
    /\ \A p, q \in Procs : p # q => ~(lock.mutex \cap {<<p, g>> : g \in 1..lock.gen} # {}
                                      /\ lock.mutex \cap {<<q, g>> : g \in 1..lock.gen} # {})
    /\ world.torn = {}

\* A session of another name is not stopped because it has our old LoggerId,
\* but when it got that between the check and the call (Session::control). One
\* of our name and our number cannot be told from ours.
ForeignUntouched == world.foreign => world.raced

\* A run touches no session but its own and a dead run's (instance.rs,
\* Session).
SessionsOwned == OneInstance /\ ForeignUntouched

\* A process that ended by itself or at the console, its start failed or not,
\* leaves no session and no thread behind (run, agent::start, finish, drop).
NothingLeft ==
    \A p \in Procs : proc[p].pc \in {"ended", "killed"} =>
        /\ \A n \in Names : sessions[n].owner # p
        /\ \A n \in Names : trace[p][n].thread # "running"
        /\ pipe[p].thread # "running"

\* No event logged before the stop is lost, unless a consumer did not finish
\* in ten seconds (stop, finish).
NoEventLost ==
    \A p \in Procs : At(p, "exit") /\ ~proc[p].failed /\ ~proc[p].late =>
        early[p] \subseteq pipe[p].got
=============================================================================
