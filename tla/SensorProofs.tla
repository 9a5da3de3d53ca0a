---------------------------- MODULE SensorProofs -----------------------------
(* Proofs about Sensor, for any number of runs, events, crashes and           *)
(* outsiders: the lock and the sessions (SessionsOwned, NothingLeft), the     *)
(* threads, and the events on their way to the pipeline (NoEventLost). Then   *)
(* RateKept of Admission, for any processes, rates and caps, and DeviceKept   *)
(* of DeviceFile, for any callers, failed calls and power cuts.               *)
EXTENDS Sensor, Admission, DeviceFile, SequenceTheorems, FiniteSetTheorems, WellFoundedInduction, TLAPS

-----------------------------------------------------------------------------
(* Types                                                                     *)

Locking == {"create", "open", "mutex"}
Pcs == Locking \cup Over \cup
       {"prepare", "handler", "leftA", "startA", "leftB", "startB", "consumeA", "consumeB", "spawn",
        "run", "stopA", "controlA", "stopB", "controlB", "wait", "close", "closing", "join", "exit"}
Owners == Procs \cup {"none", Outsider}
AllNames == Names \cup {Other}

ProcRecs == [pc : Pcs, tries : Int, gen : Int, ids : [Names -> Int], handler : BOOLEAN,
             stop : BOOLEAN, late : BOOLEAN, failed : BOOLEAN]
TraceRecs == [thread : {"none", "running", "ended"}, closed : BOOLEAN, of : Owners, held : SUBSET Nat]
PipeRecs == [thread : {"none", "running", "ended"}, queue : SUBSET Nat, got : SUBSET Nat]

SensorTypeOK ==
    /\ lock \in [gen : Int, open : SUBSET Procs, mutex : SUBSET (Procs \X Int)]
    /\ proc \in [Procs -> ProcRecs]
    /\ sessions \in [AllNames -> [owner : Owners, id : Int]]
    /\ trace \in [Procs -> [Names -> TraceRecs]]
    /\ pipe \in [Procs -> PipeRecs]
    /\ early \in [Procs -> SUBSET Nat]
    /\ world \in [events : Nat, crashes : Int, outside : Int, raced : BOOLEAN, torn : SUBSET Procs,
                  foreign : BOOLEAN]

-----------------------------------------------------------------------------
(* The lock                                                                  *)

\* The run has the mutex: past acquire_as, and not over.
Holds(p) == proc[p].pc \notin Locking \cup Over

\* One namespace at a time: whoever has it open has its generation, and the
\* one mutex in it is the holder's.
LockInv ==
    /\ \A m \in lock.mutex : m[1] \in lock.open /\ m[2] = lock.gen
    /\ \A m, o \in lock.mutex : m[1] = o[1]
    /\ \A p \in lock.open : proc[p].gen = lock.gen
    /\ \A p \in Procs : proc[p].pc = "mutex" => p \in lock.open
    /\ \A p \in Procs : Holds(p) => <<p, lock.gen>> \in lock.mutex

-----------------------------------------------------------------------------
(* The sessions                                                              *)

\* Where a run may have a session of the name.
MayOwn(pc, failed, n) ==
    IF failed
    THEN pc \in {"close", "closing", "stopB", "controlB"} \cup (IF n = "A" THEN {"stopA", "controlA"} ELSE {})
    ELSE pc \in {"consumeA", "consumeB", "spawn", "run", "stopA", "controlA"}
                \cup (IF n = "A" THEN {"leftB", "startB"} ELSE {"stopB", "controlB"})

\* LoggerIds tell sessions apart.
IdsApart == \A m, n \in AllNames : m # n /\ sessions[m].id = sessions[n].id => sessions[n].id = 0

\* A run knows the LoggerIds of its sessions, what check_current found stays so
\* until the call, unless an outsider came, and the handler is installed first.
SessOK(p) ==
    /\ \A n \in AllNames : sessions[n].owner = p =>
         /\ n \in Names
         /\ \/ proc[p].pc = "crashed"
            \/ /\ MayOwn(proc[p].pc, proc[p].failed, n)
               /\ proc[p].ids[n] = sessions[n].id /\ sessions[n].id # 0
    /\ \A n \in Names : proc[p].pc = ControlPc(n) => world.raced \/ IsCurrent(p, n)
    /\ ~proc[p].handler => proc[p].pc \in Locking \cup Over \cup {"prepare", "handler"}

Untouched == world.torn = {} /\ (world.foreign => world.raced)

-----------------------------------------------------------------------------
(* The threads                                                               *)

\* Where a consumer's thread does not run: not yet, or joined.
Quiet(pc, failed, n) ==
    \/ pc \in Locking \cup Over \cup {"prepare", "handler", "leftA", "startA", "leftB", "startB", "consumeA", "join", "exit"}
    \/ n = "B" /\ pc = "consumeB"
    \/ failed /\ pc \in {"stopA", "controlA", "stopB", "controlB"}
\* From the start of the pipeline to the end of the wait for the consumers.
Working == {"run", "stopA", "controlA", "stopB", "controlB", "wait"}

ThreadOK(p) ==
    LET pc == proc[p].pc
        failed == proc[p].failed
    IN /\ failed => pc \in {"close", "closing", "stopA", "controlA", "stopB", "controlB", "exit"}
       /\ \A n \in Names : Quiet(pc, failed, n) => trace[p][n].thread # "running"
       /\ pipe[p].thread = "running" => ~failed /\ pc \in Working \cup {"close", "closing", "join"}
       /\ pipe[p].thread = "ended" => pipe[p].queue = {} /\ pc \in {"join", "exit", "ended"}
       /\ pc = "exit" /\ ~failed => pipe[p].thread = "ended"
       /\ \A n \in Names : trace[p][n].closed => pc \in Over \cup {"closing", "join", "exit"} \/ (failed /\ pc # "close")

-----------------------------------------------------------------------------
(* The events                                                                *)

OnTheWay(p) == trace[p]["A"].held \cup trace[p]["B"].held \cup pipe[p].queue \cup pipe[p].got
\* The run has a consumer of the name, which nobody has closed.
Opened(pc, n) == pc \in Working \cup {"spawn"} \/ (n = "A" /\ pc = "consumeB")

\* An early event is on its way; only a consumer of the run's own session has
\* it, and that one ends with nothing left; so nothing is left after the wait.
EventOK(p) ==
    LET pc == proc[p].pc
        failed == proc[p].failed
    IN /\ \A e \in early[p] : e <= world.events
       /\ \A n \in Names : \A e \in trace[p][n].held : e <= world.events
       /\ early[p] # {} => ~failed /\ pc \in Working \cup {"close", "closing", "join", "exit"}
       /\ early[p] \subseteq OnTheWay(p)
       /\ ~failed => \A n \in Names : Opened(pc, n) =>
            /\ sessions[n].owner = p => trace[p][n].of = p
            /\ trace[p][n].thread # "none"
            /\ trace[p][n].held \cap early[p] # {} => trace[p][n].of = p
            /\ trace[p][n].thread = "ended" /\ trace[p][n].of = p => sessions[n].owner # p /\ trace[p][n].held = {}
       /\ ~failed /\ ~proc[p].late /\ pc \in {"close", "closing", "join", "exit"} =>
            \A n \in Names : trace[p][n].held \cap early[p] = {}

RunOK(p) == SessOK(p) /\ ThreadOK(p) /\ EventOK(p)
SInv == SensorTypeOK /\ LockInv /\ IdsApart /\ Untouched /\ \A p \in Procs : RunOK(p)

-----------------------------------------------------------------------------
(* Types                                                                     *)

\* A set of at most three numbers leaves one of 1..5 free, and Min finds it.
LEMMA NewIdFacts ==
    ASSUME SensorTypeOK
    PROVE  NewId \in 1..5 /\ \A n \in AllNames : sessions[n].id # NewId
<1>1. PICK a \in Int, b \in Int, x \in Int :
        a = sessions["A"].id /\ b = sessions["B"].id /\ x = sessions["X"].id
  BY DEF SensorTypeOK, AllNames, Names, Other
<1>2. DOMAIN sessions = {"A", "B", "X"} /\ AllNames = {"A", "B", "X"}
  BY DEF SensorTypeOK, AllNames, Names, Other
<1>3. InUse = {a, b, x}
  BY <1>1, <1>2 DEF InUse
<1> DEFINE S == (1..5) \ {a, b, x}
<1>4. \E m \in S : \A y \in S : m <= y
  <2>1. S # {}
    <3>1. 1 \in S \/ 2 \in S \/ 3 \in S \/ 4 \in S
      OBVIOUS
    <3> QED BY <3>1
  <2>2. CASE 1 \in S
    BY <2>2
  <2>3. CASE 1 \notin S /\ 2 \in S
    <3>1. \A y \in S : 2 <= y
      BY <2>3
    <3> QED BY <2>3, <3>1
  <2>4. CASE 1 \notin S /\ 2 \notin S /\ 3 \in S
    <3>1. \A y \in S : 3 <= y
      BY <2>4
    <3> QED BY <2>4, <3>1
  <2>5. CASE 1 \notin S /\ 2 \notin S /\ 3 \notin S /\ 4 \in S
    <3>1. \A y \in S : 4 <= y
      BY <2>5
    <3> QED BY <2>5, <3>1
  <2>6. 1 \in S \/ 2 \in S \/ 3 \in S \/ 4 \in S
    OBVIOUS
  <2> QED BY <2>2, <2>3, <2>4, <2>5, <2>6
<1>5. Min(S) \in S
  BY <1>4 DEF Min
<1>6. NewId \in S
  BY <1>3, <1>5 DEF NewId
<1> QED BY <1>1, <1>2, <1>6

\* The run's record after each kind of update.
LEMMA ProcFacts ==
    ASSUME SensorTypeOK, NEW p \in Procs, NEW r \in ProcRecs, proc' = [proc EXCEPT ![p] = r]
    PROVE  /\ proc' \in [Procs -> ProcRecs] /\ proc'[p] = r
           /\ \A q \in Procs \ {p} : proc'[q] = proc[q]
  BY DEF SensorTypeOK

\* A record with another place, and with another flag.
LEMMA RecPlace ==
    ASSUME NEW r \in ProcRecs, NEW pc \in Pcs
    PROVE  \E m \in ProcRecs :
             /\ m = [r EXCEPT !.pc = pc] /\ m.pc = pc /\ m.gen = r.gen /\ m.ids = r.ids
             /\ m.handler = r.handler /\ m.late = r.late /\ m.failed = r.failed
<1>1. ASSUME NEW m, m = [r EXCEPT !.pc = pc]
      PROVE  /\ m \in ProcRecs /\ m.pc = pc /\ m.gen = r.gen /\ m.ids = r.ids
             /\ m.handler = r.handler /\ m.late = r.late /\ m.failed = r.failed
  BY <1>1 DEF ProcRecs
<1> QED BY <1>1

\* The flag `failed` of a record set.
LEMMA RecFailed ==
    ASSUME NEW m \in ProcRecs, NEW b \in BOOLEAN
    PROVE  \E r \in ProcRecs :
             /\ r = [m EXCEPT !.failed = b] /\ r.failed = b /\ r.pc = m.pc /\ r.gen = m.gen /\ r.ids = m.ids
             /\ r.handler = m.handler /\ r.late = m.late
<1>1. ASSUME NEW r, r = [m EXCEPT !.failed = b]
      PROVE  /\ r \in ProcRecs /\ r.failed = b /\ r.pc = m.pc /\ r.gen = m.gen /\ r.ids = m.ids
             /\ r.handler = m.handler /\ r.late = m.late
  BY <1>1 DEF ProcRecs
<1> QED BY <1>1

\* The flag `handler` of a record set.
LEMMA RecHandler ==
    ASSUME NEW m \in ProcRecs, NEW b \in BOOLEAN
    PROVE  \E r \in ProcRecs :
             /\ r = [m EXCEPT !.handler = b] /\ r.handler = b /\ r.pc = m.pc /\ r.gen = m.gen /\ r.ids = m.ids
             /\ r.failed = m.failed /\ r.late = m.late
<1>1. ASSUME NEW r, r = [m EXCEPT !.handler = b]
      PROVE  /\ r \in ProcRecs /\ r.handler = b /\ r.pc = m.pc /\ r.gen = m.gen /\ r.ids = m.ids
             /\ r.failed = m.failed /\ r.late = m.late
  BY <1>1 DEF ProcRecs
<1> QED BY <1>1

\* The flag `late` of a record set.
LEMMA RecLate ==
    ASSUME NEW m \in ProcRecs, NEW b \in BOOLEAN
    PROVE  \E r \in ProcRecs :
             /\ r = [m EXCEPT !.late = b] /\ r.late = b /\ r.pc = m.pc /\ r.gen = m.gen /\ r.ids = m.ids
             /\ r.handler = m.handler /\ r.failed = m.failed
<1>1. ASSUME NEW r, r = [m EXCEPT !.late = b]
      PROVE  /\ r \in ProcRecs /\ r.late = b /\ r.pc = m.pc /\ r.gen = m.gen /\ r.ids = m.ids
             /\ r.handler = m.handler /\ r.failed = m.failed
  BY <1>1 DEF ProcRecs
<1> QED BY <1>1

\* A run that only moves on.
LEMMA GoesFacts ==
    ASSUME SensorTypeOK, NEW p \in Procs, NEW pc \in Pcs, Goes(p, pc)
    PROVE  /\ proc' \in [Procs -> ProcRecs] /\ proc'[p].pc = pc
           /\ proc'[p].gen = proc[p].gen /\ proc'[p].ids = proc[p].ids /\ proc'[p].handler = proc[p].handler
           /\ proc'[p].late = proc[p].late /\ proc'[p].failed = proc[p].failed
           /\ \A q \in Procs \ {p} : proc'[q] = proc[q]
  BY DEF SensorTypeOK, Goes, ProcRecs

\* A run that is over.
LEMMA FreshFacts ==
    ASSUME SensorTypeOK, NEW p \in Procs, NEW pc \in Pcs, proc' = [proc EXCEPT ![p] = Fresh(pc)]
    PROVE  /\ proc' \in [Procs -> ProcRecs] /\ proc'[p].pc = pc
           /\ ~proc'[p].failed /\ ~proc'[p].late /\ ~proc'[p].handler
           /\ \A q \in Procs \ {p} : proc'[q] = proc[q]
<1>1. [n \in Names |-> 0] \in [Names -> Int]
  OBVIOUS
<1>2. Fresh(pc) \in ProcRecs
  BY <1>1 DEF Fresh, ProcRecs
<1>3. Fresh(pc).pc = pc /\ ~Fresh(pc).failed /\ ~Fresh(pc).late /\ ~Fresh(pc).handler
  BY DEF Fresh
<1> QED BY <1>2, <1>3, ProcFacts

-----------------------------------------------------------------------------
(* What a step leaves alone                                                  *)

KeptRun(q) == proc'[q] = proc[q] /\ trace'[q] = trace[q] /\ pipe'[q] = pipe[q] /\ early'[q] = early[q]

\* A run that does not move, whose sessions nobody takes over, and which is not
\* between its check and its call.
LEMMA OthersOK ==
    ASSUME SInv, NEW q \in Procs, KeptRun(q),
           \A n \in AllNames : sessions'[n].owner = q => sessions'[n] = sessions[n],
           world'.events >= world.events, world'.events \in Nat, world.raced => world'.raced,
           \/ \A n \in AllNames : sessions'[n] = sessions[n]
           \/ world'.raced
           \/ proc[q].pc \notin {"controlA", "controlB"}
    PROVE  RunOK(q)'
<1>1. /\ SessOK(q) /\ ThreadOK(q) /\ EventOK(q) /\ Names \subseteq AllNames /\ world.events \in Nat
      /\ early[q] \subseteq Nat
  BY DEF SInv, RunOK, AllNames, SensorTypeOK
<1>2. SessOK(q)'
  BY <1>1 DEF SessOK, KeptRun, ControlPc, IsCurrent
<1>3. ThreadOK(q)'
  BY <1>1 DEF ThreadOK, KeptRun
<1>4. EventOK(q)'
  <2>1. /\ \A e \in early'[q] : e <= world'.events
        /\ \A n \in Names : \A e \in trace'[q][n].held : e <= world'.events
    <3>1. /\ \A e \in early[q] : e <= world.events
          /\ \A n \in Names : \A e \in trace[q][n].held : e <= world.events
      BY <1>1 DEF EventOK
    <3>2. \A n \in Names : trace[q][n].held \subseteq Nat
      BY DEF SInv, SensorTypeOK, TraceRecs
    <3>3. \A n \in Names : \A e \in trace[q][n].held : e <= world'.events
      BY <1>1, <3>1, <3>2
    <3> QED BY <1>1, <3>1, <3>3 DEF KeptRun
  <2>2. OnTheWay(q)' = OnTheWay(q)
    BY DEF OnTheWay, KeptRun
  <2>3. \A n \in Names : sessions'[n].owner = q => sessions[n].owner = q
    BY <1>1
  <2> QED BY <1>1, <2>1, <2>2, <2>3 DEF EventOK, KeptRun
<1> QED BY <1>2, <1>3, <1>4 DEF RunOK

\* Two runs never both have the mutex.
LEMMA OneHolder ==
    ASSUME LockInv, NEW p \in Procs, NEW q \in Procs, Holds(p), Holds(q)
    PROVE  p = q
<1>1. <<p, lock.gen>> \in lock.mutex /\ <<q, lock.gen>> \in lock.mutex
  BY DEF LockInv
<1>2. <<p, lock.gen>>[1] = <<q, lock.gen>>[1]
  BY <1>1 DEF LockInv
<1> QED BY <1>2

\* Freeing sessions keeps LoggerIds apart.
LEMMA FreedApart ==
    ASSUME SInv, \A n \in AllNames : sessions'[n] = sessions[n] \/ sessions'[n] = Free
    PROVE  IdsApart'
<1>1. \A n \in AllNames : sessions'[n].id = sessions[n].id \/ sessions'[n].id = 0
  BY DEF Free
<1> QED BY <1>1 DEF SInv, IdsApart

\* So does a new session.
LEMMA NewApart ==
    ASSUME SInv, NEW m \in AllNames, NEW o, sessions' = [sessions EXCEPT ![m] = [owner |-> o, id |-> NewId]]
    PROVE  IdsApart'
<1>1. \A n \in AllNames : sessions[n].id # NewId
  BY NewIdFacts DEF SInv
<1>2. sessions'[m].id = NewId /\ \A n \in AllNames \ {m} : sessions'[n] = sessions[n]
  BY DEF SInv, SensorTypeOK
<1> QED BY <1>1, <1>2 DEF SInv, IdsApart

-----------------------------------------------------------------------------
(* The lock                                                                  *)

\* A step with the mutex that keeps it.
LEMMA LockKept ==
    ASSUME LockInv, lock' = lock, NEW p \in Procs, \A q \in Procs \ {p} : proc'[q] = proc[q],
           proc'[p].gen = proc[p].gen, Holds(p) \/ proc'[p].pc = proc[p].pc,
           proc'[p].pc # "mutex" \/ proc'[p].pc = proc[p].pc, lock.open \subseteq Procs
    PROVE  LockInv'
<1>1. \A q \in Procs : proc'[q].gen = proc[q].gen /\ (Holds(q)' => Holds(q))
                       /\ (proc'[q].pc = "mutex" => proc[q].pc = "mutex")
  BY DEF Holds
<1> QED BY <1>1 DEF LockInv

\* The end of a run gives the lock back.
LEMMA LockReleased ==
    ASSUME SInv, NEW p \in Procs, lock' = Released(p), proc'[p].pc \in Over,
           \A q \in Procs \ {p} : proc'[q] = proc[q]
    PROVE  LockInv' /\ lock' \in [gen : Int, open : SUBSET Procs, mutex : SUBSET (Procs \X Int)]
<1>1. lock \in [gen : Int, open : SUBSET Procs, mutex : SUBSET (Procs \X Int)] /\ LockInv
  BY DEF SInv, SensorTypeOK
<1>2. /\ lock'.gen = lock.gen /\ lock'.open = lock.open \ {p} /\ lock'.mutex = {m \in lock.mutex : m[1] # p}
      /\ lock' \in [gen : Int, open : SUBSET Procs, mutex : SUBSET (Procs \X Int)]
  BY <1>1 DEF Released
<1>3. ~Holds(p)' /\ proc'[p].pc # "mutex"
  BY DEF Holds, Over
<1>4. \A q \in Procs \ {p} : Holds(q)' = Holds(q)
  BY DEF Holds
<1>5. \A m \in lock'.mutex : m \in lock.mutex /\ m[1] # p
  BY <1>2
<1>6. \A q \in Procs : Holds(q)' => <<q, lock'.gen>> \in lock'.mutex
  BY <1>1, <1>2, <1>3, <1>4 DEF LockInv
<1>7. /\ \A m \in lock'.mutex : m[1] \in lock'.open /\ m[2] = lock'.gen
      /\ \A m, o \in lock'.mutex : m[1] = o[1]
  BY <1>1, <1>2, <1>5 DEF LockInv
<1>8. /\ \A q \in lock'.open : proc'[q].gen = lock'.gen
      /\ \A q \in Procs : proc'[q].pc = "mutex" => q \in lock'.open
  BY <1>1, <1>2, <1>3 DEF LockInv
<1> QED BY <1>2, <1>6, <1>7, <1>8 DEF LockInv

-----------------------------------------------------------------------------
(* Steps of a run                                                            *)

\* What a step of one run leaves to the others.
OthersLeft(p) ==
    /\ \A q \in Procs \ {p} : KeptRun(q)
    /\ \A n \in AllNames, q \in Procs \ {p} : sessions'[n].owner = q => sessions'[n] = sessions[n]
    /\ world'.events >= world.events /\ (world.raced => world'.raced)
    /\ Holds(p) \/ \A n \in AllNames : sessions'[n] = sessions[n]

\* A step of one run, from what it does to that run.
LEMMA Assemble ==
    ASSUME SInv, NEW p \in Procs, SensorTypeOK', LockInv', IdsApart', Untouched', RunOK(p)', OthersLeft(p)
    PROVE  SInv'
<1>1. ASSUME NEW q \in Procs \ {p} PROVE RunOK(q)'
  <2>1. Holds(p) => proc[q].pc \notin {"controlA", "controlB"}
    <3>1. Holds(p) => ~Holds(q)
      BY OneHolder DEF SInv
    <3> QED BY <3>1 DEF Holds, Locking, Over
  <2>2. world'.events \in Nat
    BY DEF SensorTypeOK
  <2> QED BY <2>1, <2>2, OthersOK DEF OthersLeft
<1> QED BY <1>1 DEF SInv

\* A step that changes nothing but the run's record.
LEMMA MoveInv ==
    ASSUME SInv, NEW p \in Procs, proc' \in [Procs -> ProcRecs], \A q \in Procs \ {p} : proc'[q] = proc[q],
           UNCHANGED <<lock, sessions, trace, pipe, early, world>>,
           proc'[p].gen = proc[p].gen,
           proc'[p].pc = proc[p].pc \/ (Holds(p) /\ proc'[p].pc # "mutex"), RunOK(p)'
    PROVE  SInv'
<1>1. SensorTypeOK'
  BY DEF SInv, SensorTypeOK
<1>2. LockInv'
  BY LockKept DEF SInv, SensorTypeOK
<1>3. IdsApart' /\ Untouched'
  BY DEF SInv, IdsApart, Untouched
<1>4. OthersLeft(p)
  BY DEF OthersLeft, KeptRun, SInv, SensorTypeOK
<1> QED BY <1>1, <1>2, <1>3, <1>4, Assemble

\* What the sets of places hold.
LEMMA Places ==
    /\ Names = {"A", "B"} /\ AllNames = {"A", "B", "X"} /\ Names \subseteq AllNames
    /\ \A pc \in Pcs : pc \notin Locking \cup Over <=>
         pc \in {"prepare", "handler", "leftA", "startA", "leftB", "startB", "consumeA", "consumeB", "spawn", "run",
                 "stopA", "controlA", "stopB", "controlB", "wait", "close", "closing", "join", "exit"}
  BY DEF Names, AllNames, Other, Pcs, Locking, Over

\* The run's own invariant after a move that changes no other variable.
LEMMA OwnMove ==
    ASSUME SInv, NEW p \in Procs, UNCHANGED <<sessions, trace, pipe, early, world>>,
           proc'[p].ids = proc[p].ids, proc'[p].failed = proc[p].failed, proc'[p].late = proc[p].late,
           proc[p].handler => proc'[p].handler,
           NEW from, NEW to, proc[p].pc = from, proc'[p].pc = to,
           \/ from = "prepare" /\ to = "handler"
           \/ from = "handler" /\ to = "leftA" /\ proc'[p].handler
           \/ from = "run" /\ to = "stopA"
           \/ from = "closing" /\ to = "stopB" /\ proc[p].failed /\ \A n \in Names : trace[p][n].thread # "running"
           \/ from = "closing" /\ to = "join" /\ ~proc[p].failed /\ \A n \in Names : trace[p][n].thread # "running"
           \/ from = "join" /\ to = "exit" /\ pipe[p].thread = "ended"
           \/ \E n \in Names : from = CheckPc(n) /\ to = ControlPc(n) /\ IsCurrent(p, n)
           \/ \E n \in Names : from = CheckPc(n) /\ to = AfterStop(p, n) /\ ~IsCurrent(p, n)
    PROVE  RunOK(p)'
<1>1. SessOK(p) /\ ThreadOK(p) /\ EventOK(p) /\ proc[p].failed \in BOOLEAN
  BY DEF SInv, RunOK, SensorTypeOK, ProcRecs
<1>2. SessOK(p)'
  BY <1>1, Places DEF SessOK, MayOwn, ControlPc, CheckPc, AfterStop, IsCurrent, Locking, Over, ThreadOK
<1>3. ThreadOK(p)'
  BY <1>1, Places DEF ThreadOK, Quiet, CheckPc, ControlPc, AfterStop, Working, Over, Locking
<1>4. EventOK(p)'
  BY <1>1, Places DEF EventOK, ThreadOK, Opened, OnTheWay, CheckPc, ControlPc, AfterStop, Working
<1> QED BY <1>2, <1>3, <1>4 DEF RunOK

\* Where a step with the mutex begins.
LEMMA HoldsAt ==
    ASSUME NEW p \in Procs,
           proc[p].pc \in {"prepare", "handler", "leftA", "startA", "leftB", "startB", "consumeA", "consumeB", "spawn",
                           "run", "stopA", "controlA", "stopB", "controlB", "wait", "close", "closing", "join", "exit"}
    PROVE  Holds(p)
  BY DEF Holds, Locking, Over

\* The steps that only move on.
LEMMA PlainSteps ==
    ASSUME SInv, NEW p \in Procs,
           \/ Prepare(p, TRUE) \/ Handler(p) \/ StopAsked(p) \/ JoinConsumers(p) \/ JoinPipeline(p)
           \/ \E n \in Names : CheckCurrent(p, n)
    PROVE  SInv'
<1>1. SensorTypeOK /\ proc[p] \in ProcRecs /\ proc[p].failed \in BOOLEAN
  BY DEF SInv, SensorTypeOK, ProcRecs
<1>2. UNCHANGED <<lock, sessions, trace, pipe, early, world>>
  BY DEF Prepare, Handler, StopAsked, JoinConsumers, JoinPipeline, CheckCurrent
<1>3. CASE Handler(p)
  <2>0. PICK m \in ProcRecs : /\ m = [proc[p] EXCEPT !.pc = "leftA"]
                              /\ m.pc = "leftA" /\ m.gen = proc[p].gen /\ m.ids = proc[p].ids
                              /\ m.failed = proc[p].failed /\ m.late = proc[p].late
    <3>1. "leftA" \in Pcs
      BY DEF Pcs
    <3> QED BY <1>1, <3>1, RecPlace
  <2>1. PICK r \in ProcRecs : /\ r = [m EXCEPT !.handler = TRUE]
                              /\ r.handler = TRUE /\ r.pc = m.pc /\ r.gen = m.gen /\ r.ids = m.ids
                              /\ r.failed = m.failed /\ r.late = m.late
    BY RecHandler
  <2>2. proc' = [proc EXCEPT ![p] = r] /\ proc[p].pc = "handler"
    BY <1>3, <2>0, <2>1 DEF Handler, InstallHandler, At
  <2>3. proc'[p] = r /\ proc' \in [Procs -> ProcRecs] /\ \A q \in Procs \ {p} : proc'[q] = proc[q]
    BY <1>1, <2>2, ProcFacts
  <2>4. RunOK(p)'
    BY <1>2, <2>0, <2>1, <2>2, <2>3, OwnMove
  <2> QED BY <1>2, <2>0, <2>1, <2>2, <2>3, <2>4, HoldsAt, MoveInv
<1>4. ASSUME NEW from \in {"prepare", "run", "closing", "join", "stopA", "stopB"},
             NEW to \in Pcs \ {"mutex"}, proc[p].pc = from, Goes(p, to),
             \/ from = "prepare" /\ to = "handler"
             \/ from = "run" /\ to = "stopA"
             \/ from = "closing" /\ to = "stopB" /\ proc[p].failed /\ \A n \in Names : trace[p][n].thread # "running"
             \/ from = "closing" /\ to = "join" /\ ~proc[p].failed /\ \A n \in Names : trace[p][n].thread # "running"
             \/ from = "join" /\ to = "exit" /\ pipe[p].thread = "ended"
             \/ \E n \in Names : from = CheckPc(n) /\ to = ControlPc(n) /\ IsCurrent(p, n)
             \/ \E n \in Names : from = CheckPc(n) /\ to = AfterStop(p, n) /\ ~IsCurrent(p, n)
      PROVE  SInv'
  <2>1. /\ proc' \in [Procs -> ProcRecs] /\ proc'[p].pc = to
        /\ proc'[p].gen = proc[p].gen /\ proc'[p].ids = proc[p].ids /\ proc'[p].handler = proc[p].handler
        /\ proc'[p].late = proc[p].late /\ proc'[p].failed = proc[p].failed
        /\ \A q \in Procs \ {p} : proc'[q] = proc[q]
    BY <1>1, <1>4, GoesFacts
  <2>2. RunOK(p)'
    BY <1>2, <1>4, <2>1, OwnMove
  <2> QED BY <1>2, <1>4, <2>1, <2>2, HoldsAt, MoveInv
<1>5. {"handler", "stopA", "stopB", "join", "exit", "controlA", "controlB", "wait"} \subseteq Pcs \ {"mutex"}
  BY DEF Pcs
<1>6. CASE Prepare(p, TRUE) \/ StopAsked(p) \/ JoinPipeline(p)
  BY <1>4, <1>5, <1>6 DEF Prepare, StopAsked, JoinPipeline, At
<1>7. CASE JoinConsumers(p)
  BY <1>1, <1>4, <1>5, <1>7 DEF JoinConsumers, At
<1>8. ASSUME NEW n \in Names, CheckCurrent(p, n) PROVE SInv'
  <2>1. CheckPc(n) \in {"stopA", "stopB"} /\ proc[p].pc = CheckPc(n)
    BY <1>8 DEF CheckPc, CheckCurrent, At
  <2>2. ControlPc(n) \in Pcs \ {"mutex"} /\ AfterStop(p, n) \in Pcs \ {"mutex"}
    BY <1>5 DEF ControlPc, AfterStop
  <2>3. CASE IsCurrent(p, n)
    <3>1. Goes(p, ControlPc(n))
      BY <1>8, <2>3 DEF CheckCurrent
    <3> QED BY <1>4, <2>1, <2>2, <2>3, <3>1
  <2>4. CASE ~IsCurrent(p, n)
    <3>1. Goes(p, AfterStop(p, n))
      BY <1>8, <2>4 DEF CheckCurrent
    <3> QED BY <1>4, <2>1, <2>2, <2>4, <3>1
  <2> QED BY <2>3, <2>4
<1> QED BY <1>3, <1>6, <1>7, <1>8

\* A start that failed goes to its clean-up with whatever it has.
LEMMA FailsInv ==
    ASSUME SInv, NEW p \in Procs, Fails(p), UNCHANGED <<lock, sessions, trace, pipe, early, world>>,
           proc[p].pc \in {"startA", "startB", "consumeA", "consumeB"}
    PROVE  SInv'
<1>1. SensorTypeOK /\ proc[p] \in ProcRecs /\ proc[p].failed \in BOOLEAN
  BY DEF SInv, SensorTypeOK, ProcRecs
<1>0. PICK m \in ProcRecs : /\ m = [proc[p] EXCEPT !.pc = "close"]
                            /\ m.pc = "close" /\ m.gen = proc[p].gen /\ m.ids = proc[p].ids
                            /\ m.failed = proc[p].failed /\ m.handler = proc[p].handler
  <2>1. "close" \in Pcs
    BY DEF Pcs
  <2> QED BY <1>1, <2>1, RecPlace
<1>2. PICK r \in ProcRecs : /\ r = [m EXCEPT !.failed = TRUE]
                            /\ r.failed = TRUE /\ r.pc = m.pc /\ r.gen = m.gen /\ r.ids = m.ids
                            /\ r.handler = m.handler /\ r.late = m.late
  BY RecFailed
<1>3. proc' = [proc EXCEPT ![p] = r]
  BY <1>0, <1>2 DEF Fails
<1>4. proc'[p] = r /\ proc' \in [Procs -> ProcRecs] /\ \A q \in Procs \ {p} : proc'[q] = proc[q]
  BY <1>1, <1>3, ProcFacts
<1>5. SessOK(p) /\ ThreadOK(p) /\ EventOK(p)
  BY DEF SInv, RunOK
<1>6. SessOK(p)'
  BY <1>0, <1>1, <1>2, <1>4, <1>5, Places DEF SessOK, MayOwn, ControlPc, Locking, Over, ThreadOK
<1>7. ThreadOK(p)'
  BY <1>0, <1>1, <1>2, <1>4, <1>5, Places DEF ThreadOK, Quiet, Working, Over, Locking
<1>8. EventOK(p)'
  BY <1>0, <1>1, <1>2, <1>4, <1>5, Places DEF EventOK, Opened, OnTheWay, Working
<1>9. RunOK(p)'
  BY <1>6, <1>7, <1>8 DEF RunOK
<1> QED BY <1>0, <1>2, <1>4, <1>9, HoldsAt, MoveInv

\* The wait for the consumers ends.
LEMMA WaitInv ==
    ASSUME SInv, NEW p \in Procs, NEW late \in BOOLEAN, WaitFinished(p, late)
    PROVE  SInv'
<1>1. SensorTypeOK /\ proc[p] \in ProcRecs /\ proc[p].failed \in BOOLEAN
  BY DEF SInv, SensorTypeOK, ProcRecs
<1>0. PICK m \in ProcRecs : /\ m = [proc[p] EXCEPT !.pc = "close"]
                            /\ m.pc = "close" /\ m.gen = proc[p].gen /\ m.ids = proc[p].ids
                            /\ m.failed = proc[p].failed /\ m.handler = proc[p].handler
  <2>1. "close" \in Pcs
    BY DEF Pcs
  <2> QED BY <1>1, <2>1, RecPlace
<1>2. PICK r \in ProcRecs : /\ r = [m EXCEPT !.late = late]
                            /\ r.late = late /\ r.pc = m.pc /\ r.gen = m.gen /\ r.ids = m.ids
                            /\ r.handler = m.handler /\ r.failed = m.failed
  BY RecLate
<1>3. /\ proc' = [proc EXCEPT ![p] = r] /\ proc[p].pc = "wait" /\ (late \/ Finished(p))
      /\ UNCHANGED <<lock, sessions, trace, pipe, early, world>>
  BY <1>0, <1>2 DEF WaitFinished, At
<1>4. proc'[p] = r /\ proc' \in [Procs -> ProcRecs] /\ \A q \in Procs \ {p} : proc'[q] = proc[q]
  BY <1>1, <1>3, ProcFacts
<1>5. SessOK(p) /\ ThreadOK(p) /\ EventOK(p)
  BY DEF SInv, RunOK
<1>6. SessOK(p)'
  BY <1>0, <1>1, <1>2, <1>3, <1>4, <1>5, Places DEF SessOK, MayOwn, ControlPc, Locking, Over, ThreadOK
<1>7. ThreadOK(p)'
  BY <1>0, <1>1, <1>2, <1>3, <1>4, <1>5, Places DEF ThreadOK, Quiet, Working, Over, Locking
<1>8. EventOK(p)'
  <2>1. ~late => \A n \in Names : trace[p][n].held \cap early[p] = {}
    <3> SUFFICES ASSUME ~late, NEW n \in Names PROVE trace[p][n].held \cap early[p] = {}
      OBVIOUS
    <3>1. Opened(proc[p].pc, n) /\ ~proc[p].failed
      BY <1>3, <1>5 DEF Opened, Working, ThreadOK
    <3>2. trace[p][n].thread \in {"none", "running", "ended"} /\ trace[p][n].thread # "running"
      BY <1>1, <1>3 DEF SensorTypeOK, TraceRecs, Finished
    <3>3. trace[p][n].thread = "ended"
      BY <1>5, <3>1, <3>2 DEF EventOK
    <3> QED BY <1>5, <3>1, <3>3 DEF EventOK
  <2>2. /\ \A e \in early[p] : e <= world.events
        /\ \A n \in Names : \A e \in trace[p][n].held : e <= world.events
        /\ early[p] # {} => ~proc[p].failed
        /\ early[p] \subseteq OnTheWay(p) /\ OnTheWay(p)' = OnTheWay(p)
    BY <1>3, <1>5 DEF EventOK, OnTheWay
  <2>3. \A n \in Names : ~Opened("close", n)
    BY DEF Opened, Working
  <2> QED BY <1>0, <1>2, <1>3, <1>4, <2>1, <2>2, <2>3 DEF EventOK
<1>9. RunOK(p)'
  BY <1>6, <1>7, <1>8 DEF RunOK
<1> QED BY <1>0, <1>2, <1>3, <1>4, <1>9, HoldsAt, MoveInv

TraceSet(p, n, t) == trace' = [trace EXCEPT ![p][n] = t]

\* One consumer's record replaced.
LEMMA TraceFacts ==
    ASSUME SensorTypeOK, NEW p \in Procs, NEW n \in Names, NEW t \in TraceRecs, TraceSet(p, n, t)
    PROVE  /\ trace' \in [Procs -> [Names -> TraceRecs]] /\ trace'[p][n] = t
           /\ \A m \in Names \ {n} : trace'[p][m] = trace[p][m]
           /\ \A q \in Procs \ {p} : trace'[q] = trace[q]
  BY DEF SensorTypeOK, TraceSet

\* A step of a run with the mutex that keeps it, the lock and the sessions.
LEMMA WorkInv ==
    ASSUME SInv, NEW p \in Procs, SensorTypeOK', Holds(p), lock' = lock, sessions' = sessions, world' = world,
           \A q \in Procs \ {p} : KeptRun(q),
           proc'[p].gen = proc[p].gen, proc'[p].pc # "mutex", RunOK(p)'
    PROVE  SInv'
<1>1. LockInv'
  BY LockKept DEF SInv, SensorTypeOK, KeptRun
<1>2. IdsApart' /\ Untouched'
  BY DEF SInv, IdsApart, Untouched
<1>3. OthersLeft(p)
  BY DEF OthersLeft, SInv, SensorTypeOK
<1> QED BY <1>1, <1>2, <1>3, Assemble

\* OpenTraceW and the thread.
LEMMA ConsumeInv ==
    ASSUME SInv, NEW p \in Procs, NEW n \in Names, NEW ok \in BOOLEAN, Consume(p, n, ok)
    PROVE  SInv'
<1>1. /\ SensorTypeOK /\ proc[p] \in ProcRecs /\ proc[p].failed \in BOOLEAN
      /\ trace[p][n] \in TraceRecs /\ sessions[n].owner \in Owners
  BY Places DEF SInv, SensorTypeOK, ProcRecs
<1>2. SessOK(p) /\ ThreadOK(p) /\ EventOK(p)
  BY DEF SInv, RunOK
<1>3. CASE ~(ok /\ sessions[n] # Free)
  <2>1. Fails(p) /\ UNCHANGED <<lock, sessions, trace, pipe, early, world>>
        /\ proc[p].pc \in {"startA", "startB", "consumeA", "consumeB"}
    BY <1>3 DEF Consume, At
  <2> QED BY <2>1, FailsInv
<1>4. CASE ok /\ sessions[n] # Free
  <2>1. PICK t : t = [thread |-> "running", closed |-> trace[p][n].closed, of |-> sessions[n].owner,
                      held |-> trace[p][n].held]
    OBVIOUS
  <2>2. /\ t \in TraceRecs /\ t.thread = "running" /\ t.held = trace[p][n].held /\ t.closed = trace[p][n].closed
        /\ t.of = sessions[n].owner
    BY <1>1, <2>1 DEF TraceRecs
  <2>3. TraceSet(p, n, t)
    BY <1>4, <2>1 DEF Consume, TraceSet
  <2>4. /\ trace' \in [Procs -> [Names -> TraceRecs]] /\ \A q \in Procs \ {p} : trace'[q] = trace[q]
        /\ \A m \in Names \ {n} : trace'[p][m] = trace[p][m]
        /\ trace'[p][n].thread = "running" /\ trace'[p][n].held = trace[p][n].held
        /\ trace'[p][n].closed = trace[p][n].closed /\ trace'[p][n].of = sessions[n].owner
    BY <1>1, <2>2, <2>3, TraceFacts
  <2>5. /\ n = "A" => proc[p].pc = "consumeA" /\ Goes(p, "consumeB")
        /\ n = "B" => proc[p].pc = "consumeB" /\ Goes(p, "spawn")
        /\ UNCHANGED <<lock, sessions, pipe, early, world>>
    BY <1>4 DEF Consume, At
  <2>6. {"consumeB", "spawn"} \subseteq Pcs
    BY DEF Pcs
  <2>7. /\ proc' \in [Procs -> ProcRecs]
        /\ n = "A" => proc[p].pc = "consumeA" /\ proc'[p].pc = "consumeB"
        /\ n = "B" => proc[p].pc = "consumeB" /\ proc'[p].pc = "spawn"
        /\ proc'[p].gen = proc[p].gen /\ proc'[p].ids = proc[p].ids /\ proc'[p].handler = proc[p].handler
        /\ proc'[p].late = proc[p].late /\ proc'[p].failed = proc[p].failed
        /\ \A q \in Procs \ {p} : proc'[q] = proc[q]
    BY <1>1, <2>5, <2>6, GoesFacts, Places
  <2>8. SensorTypeOK'
    BY <1>1, <2>4, <2>5, <2>7 DEF SensorTypeOK
  <2>9. SessOK(p)'
    BY <1>1, <1>2, <2>5, <2>7, Places DEF SessOK, MayOwn, ControlPc, Locking, Over, ThreadOK
  <2>10. ThreadOK(p)'
    <3>1. CASE n = "A"
      BY <1>1, <1>2, <2>4, <2>5, <2>7, <3>1, Places DEF ThreadOK, Quiet, Working, Over, Locking
    <3>2. CASE n = "B"
      BY <1>1, <1>2, <2>4, <2>5, <2>7, <3>2, Places DEF ThreadOK, Quiet, Working, Over, Locking
    <3> QED BY <3>1, <3>2, Places
  <2>11. EventOK(p)'
    <3>1. early[p] = {}
      BY <1>2, <2>7, Places DEF EventOK, Working
    <3>2. OnTheWay(p)' = OnTheWay(p)
      <4>1. \A m \in {"A", "B"} : trace'[p][m].held = trace[p][m].held
        BY <2>4, Places
      <4> QED BY <2>5, <4>1 DEF OnTheWay
    <3>3. CASE n = "A"
      BY <1>1, <1>2, <2>4, <2>5, <2>7, <3>1, <3>2, <3>3, Places DEF EventOK, Opened, Working
    <3>4. CASE n = "B"
      BY <1>1, <1>2, <2>4, <2>5, <2>7, <3>1, <3>2, <3>4, Places DEF EventOK, Opened, Working
    <3> QED BY <3>3, <3>4, Places
  <2>12. RunOK(p)'
    BY <2>9, <2>10, <2>11 DEF RunOK
  <2>13. Holds(p) /\ proc'[p].pc # "mutex" /\ \A q \in Procs \ {p} : KeptRun(q)
    BY <2>4, <2>5, <2>7, Places, HoldsAt DEF KeptRun
  <2> QED BY <2>5, <2>7, <2>8, <2>12, <2>13, WorkInv
<1> QED BY <1>3, <1>4

\* The pipeline's thread.
LEMMA SpawnInv ==
    ASSUME SInv, NEW p \in Procs, SpawnPipeline(p)
    PROVE  SInv'
<1>1. /\ SensorTypeOK /\ proc[p] \in ProcRecs /\ proc[p].failed \in BOOLEAN
      /\ pipe \in [Procs -> PipeRecs]
  BY DEF SInv, SensorTypeOK, ProcRecs
<1>2. SessOK(p) /\ ThreadOK(p) /\ EventOK(p)
  BY DEF SInv, RunOK
<1>3. /\ proc[p].pc = "spawn" /\ Goes(p, "run") /\ UNCHANGED <<lock, sessions, trace, early, world>>
      /\ pipe' = [pipe EXCEPT ![p].thread = "running"]
  BY DEF SpawnPipeline, At
<1>4. /\ pipe' \in [Procs -> PipeRecs] /\ pipe'[p].thread = "running" /\ pipe'[p].queue = pipe[p].queue
      /\ pipe'[p].got = pipe[p].got /\ \A q \in Procs \ {p} : pipe'[q] = pipe[q]
  BY <1>1, <1>3 DEF PipeRecs
<1>5. /\ proc' \in [Procs -> ProcRecs] /\ proc'[p].pc = "run"
      /\ proc'[p].gen = proc[p].gen /\ proc'[p].ids = proc[p].ids /\ proc'[p].handler = proc[p].handler
      /\ proc'[p].late = proc[p].late /\ proc'[p].failed = proc[p].failed
      /\ \A q \in Procs \ {p} : proc'[q] = proc[q]
  <2>1. "run" \in Pcs
    BY DEF Pcs
  <2> QED BY <1>1, <1>3, <2>1, GoesFacts
<1>6. SensorTypeOK'
  BY <1>1, <1>3, <1>4, <1>5 DEF SensorTypeOK
<1>7. SessOK(p)'
  BY <1>1, <1>2, <1>3, <1>5, Places DEF SessOK, MayOwn, ControlPc, Locking, Over, ThreadOK
<1>8. ThreadOK(p)'
  BY <1>1, <1>2, <1>3, <1>4, <1>5, Places DEF ThreadOK, Quiet, Working, Over, Locking
<1>9. EventOK(p)'
  BY <1>1, <1>2, <1>3, <1>4, <1>5, Places DEF EventOK, Opened, OnTheWay, Working
<1>10. RunOK(p)'
  BY <1>7, <1>8, <1>9 DEF RunOK
<1>11. Holds(p) /\ \A q \in Procs \ {p} : KeptRun(q)
  BY <1>3, <1>4, <1>5, HoldsAt DEF KeptRun
<1> QED BY <1>3, <1>5, <1>6, <1>10, <1>11, WorkInv

\* CloseTrace on both consumers.
LEMMA CloseInv ==
    ASSUME SInv, NEW p \in Procs, CloseTrace(p)
    PROVE  SInv'
<1>1. /\ SensorTypeOK /\ proc[p] \in ProcRecs /\ proc[p].failed \in BOOLEAN
      /\ trace \in [Procs -> [Names -> TraceRecs]]
  BY DEF SInv, SensorTypeOK, ProcRecs
<1>2. SessOK(p) /\ ThreadOK(p) /\ EventOK(p)
  BY DEF SInv, RunOK
<1>3. /\ proc[p].pc = "close" /\ Goes(p, "closing") /\ UNCHANGED <<lock, sessions, pipe, early, world>>
      /\ trace' = [trace EXCEPT ![p] = [n \in Names |-> [trace[p][n] EXCEPT !.closed = TRUE]]]
  BY DEF CloseTrace, At
<1>4. /\ trace' \in [Procs -> [Names -> TraceRecs]] /\ \A q \in Procs \ {p} : trace'[q] = trace[q]
      /\ \A n \in Names : trace'[p][n].held = trace[p][n].held /\ trace'[p][n].thread = trace[p][n].thread
  <2>1. ASSUME NEW n \in Names
        PROVE  /\ [trace[p][n] EXCEPT !.closed = TRUE] \in TraceRecs
               /\ [trace[p][n] EXCEPT !.closed = TRUE].held = trace[p][n].held
               /\ [trace[p][n] EXCEPT !.closed = TRUE].thread = trace[p][n].thread
    <3>1. PICK t \in TraceRecs : t = trace[p][n]
      BY <1>1
    <3>2. [t EXCEPT !.closed = TRUE] \in TraceRecs
      BY DEF TraceRecs
    <3>3. [t EXCEPT !.closed = TRUE].held = t.held /\ [t EXCEPT !.closed = TRUE].thread = t.thread
      BY DEF TraceRecs
    <3> QED BY <3>1, <3>2, <3>3
  <2>2. PICK f : f = [n \in Names |-> [trace[p][n] EXCEPT !.closed = TRUE]]
    OBVIOUS
  <2>3. /\ f \in [Names -> TraceRecs]
        /\ \A n \in Names : f[n].held = trace[p][n].held /\ f[n].thread = trace[p][n].thread
    BY <2>1, <2>2
  <2>4. trace' = [trace EXCEPT ![p] = f]
    BY <1>3, <2>2
  <2> QED BY <1>1, <2>3, <2>4
<1>5. /\ proc' \in [Procs -> ProcRecs] /\ proc'[p].pc = "closing"
      /\ proc'[p].gen = proc[p].gen /\ proc'[p].ids = proc[p].ids /\ proc'[p].handler = proc[p].handler
      /\ proc'[p].late = proc[p].late /\ proc'[p].failed = proc[p].failed
      /\ \A q \in Procs \ {p} : proc'[q] = proc[q]
  <2>1. "closing" \in Pcs
    BY DEF Pcs
  <2> QED BY <1>1, <1>3, <2>1, GoesFacts
<1>6. SensorTypeOK'
  BY <1>1, <1>3, <1>4, <1>5 DEF SensorTypeOK
<1>7. SessOK(p)'
  BY <1>1, <1>2, <1>3, <1>5, Places DEF SessOK, MayOwn, ControlPc, Locking, Over, ThreadOK
<1>8. ThreadOK(p)'
  BY <1>1, <1>2, <1>3, <1>4, <1>5, Places DEF ThreadOK, Quiet, Working, Over, Locking
<1>9. EventOK(p)'
  BY <1>1, <1>2, <1>3, <1>4, <1>5, Places DEF EventOK, Opened, OnTheWay, Working
<1>10. RunOK(p)'
  BY <1>7, <1>8, <1>9 DEF RunOK
<1>11. Holds(p) /\ \A q \in Procs \ {p} : KeptRun(q)
  BY <1>3, <1>4, <1>5, HoldsAt DEF KeptRun
<1> QED BY <1>3, <1>5, <1>6, <1>10, <1>11, WorkInv

\* A record with the LoggerId of a new session.
LEMMA RecId ==
    ASSUME NEW m \in ProcRecs, NEW n \in Names, NEW k \in Int
    PROVE  \E r \in ProcRecs :
             /\ r = [m EXCEPT !.ids[n] = k] /\ r.pc = m.pc /\ r.gen = m.gen
             /\ r.handler = m.handler /\ r.failed = m.failed /\ r.late = m.late
             /\ r.ids[n] = k /\ \A o \in Names \ {n} : r.ids[o] = m.ids[o]
<1>1. PICK f : f = [m.ids EXCEPT ![n] = k]
  OBVIOUS
<1>2. f \in [Names -> Int] /\ f[n] = k /\ \A o \in Names \ {n} : f[o] = m.ids[o]
  BY <1>1 DEF ProcRecs
<1>3. ASSUME NEW r, r = [m EXCEPT !.ids = f]
      PROVE  /\ r \in ProcRecs /\ r.ids = f /\ r.pc = m.pc /\ r.gen = m.gen
             /\ r.handler = m.handler /\ r.failed = m.failed /\ r.late = m.late
  BY <1>2, <1>3 DEF ProcRecs
<1>4. PICK r : r = [m EXCEPT !.ids[n] = k]
  OBVIOUS
<1>5. r = [m EXCEPT !.ids = f]
  BY <1>1, <1>4
<1> QED BY <1>2, <1>3, <1>4, <1>5

\* A step of a run with the mutex that changes sessions, its own or a dead run's.
LEMMA SessionStep ==
    ASSUME SInv, NEW p \in Procs, SensorTypeOK', Holds(p), lock' = lock,
           world'.events = world.events, world'.raced = world.raced,
           \A q \in Procs \ {p} : KeptRun(q),
           \A n \in AllNames : sessions'[n] = sessions[n] \/ sessions'[n] = Free \/ sessions'[n].owner = p,
           proc'[p].gen = proc[p].gen, proc'[p].pc # "mutex", RunOK(p)', IdsApart', Untouched'
    PROVE  SInv'
<1>1. LockInv'
  BY LockKept DEF SInv, SensorTypeOK, KeptRun
<1>2. \A n \in AllNames, q \in Procs \ {p} : sessions'[n].owner = q => sessions'[n] = sessions[n]
  BY SensorAssumption DEF Free
<1>3. OthersLeft(p)
  BY <1>2 DEF OthersLeft, SInv, SensorTypeOK
<1> QED BY <1>1, <1>3, Assemble

\* A leftover is stopped: never a living run's, which would have the mutex.
LEMMA LeftoverInv ==
    ASSUME SInv, NEW p \in Procs, NEW n \in Names, StopLeftover(p, n)
    PROVE  SInv'
<1>1. /\ SensorTypeOK /\ proc[p] \in ProcRecs /\ proc[p].failed \in BOOLEAN
      /\ sessions \in [AllNames -> [owner : Owners, id : Int]] /\ n \in AllNames
      /\ world \in [events : Nat, crashes : Int, outside : Int, raced : BOOLEAN, torn : SUBSET Procs, foreign : BOOLEAN]
  BY Places DEF SInv, SensorTypeOK, ProcRecs
<1>2. SessOK(p) /\ ThreadOK(p) /\ EventOK(p) /\ Untouched
  BY DEF SInv, RunOK
<1>3. /\ n = "A" => proc[p].pc = "leftA" /\ Goes(p, "startA")
      /\ n = "B" => proc[p].pc = "leftB" /\ Goes(p, "startB")
      /\ UNCHANGED <<lock, trace, pipe, early>> /\ sessions' = [sessions EXCEPT ![n] = Free]
      /\ world' = [world EXCEPT !.torn = @ \cup {q \in Procs \ {p} : sessions[n].owner = q /\ Lives(q)}]
  BY DEF StopLeftover, At, LeftPc, StartPc, Stopped
<1>4. Holds(p)
  BY <1>3, HoldsAt, Places
<1>5. {q \in Procs \ {p} : sessions[n].owner = q /\ Lives(q)} = {}
  <2> SUFFICES ASSUME NEW q \in Procs \ {p}, sessions[n].owner = q, Lives(q) PROVE FALSE
    OBVIOUS
  <2>1. SessOK(q) /\ LockInv
    BY DEF SInv, RunOK
  <2>2. MayOwn(proc[q].pc, proc[q].failed, n)
    BY <1>1, <2>1 DEF SessOK, Lives, Over
  <2>3. Holds(q)
    BY <2>2 DEF MayOwn, Holds, Locking, Over
  <2> QED BY <1>4, <2>1, <2>3, OneHolder
<1>6. world'.torn = {} /\ world'.raced = world.raced /\ world'.events = world.events /\ world'.foreign = world.foreign
      /\ world' \in [events : Nat, crashes : Int, outside : Int, raced : BOOLEAN, torn : SUBSET Procs, foreign : BOOLEAN]
  <2>1. world' = [world EXCEPT !.torn = world.torn \cup {}]
    BY <1>3, <1>5
  <2> QED BY <1>1, <1>2, <2>1 DEF Untouched
<1>7. /\ proc' \in [Procs -> ProcRecs]
      /\ n = "A" => proc'[p].pc = "startA"
      /\ n = "B" => proc'[p].pc = "startB"
      /\ proc'[p].gen = proc[p].gen /\ proc'[p].ids = proc[p].ids /\ proc'[p].handler = proc[p].handler
      /\ proc'[p].late = proc[p].late /\ proc'[p].failed = proc[p].failed
      /\ \A q \in Procs \ {p} : proc'[q] = proc[q]
  <2>1. {"startA", "startB"} \subseteq Pcs
    BY DEF Pcs
  <2> QED BY <1>1, <1>3, <2>1, GoesFacts, Places
<1>8. /\ sessions' \in [AllNames -> [owner : Owners, id : Int]] /\ sessions'[n] = Free
      /\ \A m \in AllNames \ {n} : sessions'[m] = sessions[m]
  BY <1>1, <1>3 DEF Free, Owners
<1>9. SensorTypeOK'
  BY <1>1, <1>3, <1>6, <1>7, <1>8 DEF SensorTypeOK
<1>10. SessOK(p)'
  <2>1. sessions'[n].owner # p
    BY <1>8, SensorAssumption DEF Free
  <2> QED BY <1>1, <1>2, <1>3, <1>7, <1>8, <2>1, Places DEF SessOK, MayOwn, ControlPc, Locking, Over, ThreadOK
<1>11. ThreadOK(p)'
  BY <1>1, <1>2, <1>3, <1>7, Places DEF ThreadOK, Quiet, Working, Over, Locking
<1>12. EventOK(p)'
  BY <1>1, <1>2, <1>3, <1>6, <1>7, Places DEF EventOK, Opened, OnTheWay, Working
<1>13. RunOK(p)' /\ Untouched'
  BY <1>2, <1>6, <1>10, <1>11, <1>12 DEF RunOK, Untouched
<1>14. IdsApart'
  BY <1>8, FreedApart
<1>15. \A q \in Procs \ {p} : KeptRun(q)
  BY <1>3, <1>7 DEF KeptRun
<1>16. proc'[p].pc # "mutex"
  BY <1>7, Places
<1> QED BY <1>3, <1>4, <1>6, <1>7, <1>8, <1>9, <1>13, <1>14, <1>15, <1>16, SessionStep

\* The run's own session.
LEMMA StartInv ==
    ASSUME SInv, NEW p \in Procs, NEW n \in Names, NEW ok \in BOOLEAN, StartTrace(p, n, ok)
    PROVE  SInv'
<1>1. /\ SensorTypeOK /\ proc[p] \in ProcRecs /\ proc[p].failed \in BOOLEAN
      /\ sessions \in [AllNames -> [owner : Owners, id : Int]] /\ n \in AllNames
      /\ p \in Owners
  BY Places DEF SInv, SensorTypeOK, ProcRecs, Owners
<1>2. SessOK(p) /\ ThreadOK(p) /\ EventOK(p) /\ Untouched
  BY DEF SInv, RunOK
<1>3. CASE ~(ok /\ sessions[n] = Free)
  <2>1. Fails(p) /\ UNCHANGED <<lock, sessions, trace, pipe, early, world>>
        /\ proc[p].pc \in {"startA", "startB", "consumeA", "consumeB"}
    BY <1>3 DEF StartTrace, At, StartPc
  <2> QED BY <2>1, FailsInv
<1>4. CASE ok /\ sessions[n] = Free
  <2>1. NewId \in Int /\ NewId # 0
    BY <1>1, NewIdFacts
  <2>2. PICK to \in Pcs : /\ to = IF n = "A" THEN "leftB" ELSE "consumeA"
                          /\ to \in {"leftB", "consumeA"}
    BY DEF Pcs
  <2>3. PICK m \in ProcRecs : /\ m = [proc[p] EXCEPT !.pc = to] /\ m.pc = to /\ m.gen = proc[p].gen
                              /\ m.ids = proc[p].ids /\ m.handler = proc[p].handler /\ m.late = proc[p].late
                              /\ m.failed = proc[p].failed
    BY <1>1, RecPlace
  <2>4. PICK r \in ProcRecs : /\ r = [m EXCEPT !.ids[n] = NewId] /\ r.pc = m.pc /\ r.gen = m.gen
                              /\ r.handler = m.handler /\ r.failed = m.failed /\ r.late = m.late
                              /\ r.ids[n] = NewId /\ \A o \in Names \ {n} : r.ids[o] = m.ids[o]
    BY <2>1, RecId
  <2>5. proc' = [proc EXCEPT ![p] = r]
    <3>1. proc' = [proc EXCEPT ![p].pc = to, ![p].ids[n] = NewId]
      BY <1>4, <2>2 DEF StartTrace
    <3>2. PICK f : f = [proc EXCEPT ![p].pc = to]
      OBVIOUS
    <3>3. f = [proc EXCEPT ![p] = m]
      BY <2>3, <3>2
    <3>4. f[p] = m
      BY <1>1, <3>3 DEF SensorTypeOK
    <3>5. proc' = [f EXCEPT ![p].ids[n] = NewId]
      BY <3>1, <3>2
    <3>6. proc' = [f EXCEPT ![p] = r]
      BY <2>4, <3>4, <3>5
    <3> QED BY <3>3, <3>6
  <2>6. proc'[p] = r /\ proc' \in [Procs -> ProcRecs] /\ \A q \in Procs \ {p} : proc'[q] = proc[q]
    BY <1>1, <2>5, ProcFacts
  <2>7. /\ sessions' = [sessions EXCEPT ![n] = [owner |-> p, id |-> NewId]]
        /\ UNCHANGED <<lock, trace, pipe, early, world>>
        /\ proc[p].pc = StartPc(n)
    BY <1>4 DEF StartTrace, At
  <2>8. /\ sessions'[n].owner = p /\ sessions'[n].id = NewId /\ \A m2 \in AllNames \ {n} : sessions'[m2] = sessions[m2]
        /\ sessions' \in [AllNames -> [owner : Owners, id : Int]]
    BY <1>1, <2>1, <2>7
  <2>9. SensorTypeOK'
    BY <1>1, <2>6, <2>7, <2>8 DEF SensorTypeOK
  <2>10. SessOK(p)'
    <3>1. CASE n = "A"
      BY <1>1, <1>2, <2>1, <2>2, <2>3, <2>4, <2>6, <2>7, <2>8, <3>1, Places
         DEF SessOK, MayOwn, ControlPc, StartPc, Locking, Over, ThreadOK
    <3>2. CASE n = "B"
      BY <1>1, <1>2, <2>1, <2>2, <2>3, <2>4, <2>6, <2>7, <2>8, <3>2, Places
         DEF SessOK, MayOwn, ControlPc, StartPc, Locking, Over, ThreadOK
    <3> QED BY <3>1, <3>2, Places
  <2>11. ThreadOK(p)'
    BY <1>1, <1>2, <2>2, <2>3, <2>4, <2>6, <2>7, Places DEF ThreadOK, Quiet, StartPc, Working, Over, Locking
  <2>12. EventOK(p)'
    BY <1>1, <1>2, <2>2, <2>3, <2>4, <2>6, <2>7, Places DEF EventOK, Opened, OnTheWay, StartPc, Working
  <2>13. RunOK(p)' /\ Untouched'
    BY <1>2, <2>7, <2>10, <2>11, <2>12 DEF RunOK, Untouched
  <2>14. IdsApart'
    BY <1>1, <2>7, NewApart
  <2>15. Holds(p) /\ proc'[p].pc # "mutex" /\ \A q \in Procs \ {p} : KeptRun(q)
    BY <2>2, <2>3, <2>4, <2>6, <2>7, HoldsAt DEF KeptRun, StartPc
  <2>16. world'.events = world.events /\ world'.raced = world.raced /\ lock' = lock /\ proc'[p].gen = proc[p].gen
    BY <2>3, <2>4, <2>6, <2>7
  <2> QED BY <2>8, <2>9, <2>13, <2>14, <2>15, <2>16, SessionStep
<1> QED BY <1>3, <1>4

\* The stop by LoggerId: it hits the run's own session, and no other unless an
\* outsider came after the check.
LEMMA ControlInv ==
    ASSUME SInv, NEW p \in Procs, NEW n \in Names, Control(p, n)
    PROVE  SInv'
<1> DEFINE hit == {m \in DOMAIN sessions : sessions[m].id = proc[p].ids[n]}
           to == AfterStop(p, n)
<1>1. /\ SensorTypeOK /\ proc[p] \in ProcRecs /\ proc[p].failed \in BOOLEAN
      /\ sessions \in [AllNames -> [owner : Owners, id : Int]] /\ n \in AllNames /\ DOMAIN sessions = AllNames
      /\ world \in [events : Nat, crashes : Int, outside : Int, raced : BOOLEAN, torn : SUBSET Procs, foreign : BOOLEAN]
  BY Places DEF SInv, SensorTypeOK, ProcRecs
<1>2. SessOK(p) /\ ThreadOK(p) /\ EventOK(p) /\ Untouched /\ IdsApart
  BY DEF SInv, RunOK
<1>3. /\ proc[p].pc = ControlPc(n) /\ Goes(p, to) /\ UNCHANGED <<lock, trace, pipe, early>>
      /\ sessions' = [m \in DOMAIN sessions |-> IF m \in hit THEN Free ELSE sessions[m]]
      /\ world' = [world EXCEPT !.foreign = world.foreign \/ hit \ {n} # {}]
  BY DEF Control, At
<1>4. Free \in [owner : Owners, id : Int]
  BY DEF Free, Owners
<1>5. /\ sessions' \in [AllNames -> [owner : Owners, id : Int]]
      /\ \A m \in AllNames : sessions'[m] = sessions[m] \/ sessions'[m] = Free
      /\ \A m \in AllNames : sessions'[m].owner = p => sessions'[m] = sessions[m] /\ sessions[m].id # proc[p].ids[n]
  <2>1. sessions' \in [AllNames -> [owner : Owners, id : Int]]
    BY <1>1, <1>3, <1>4
  <2>2. \A m \in AllNames : IF m \in hit THEN sessions'[m] = Free ELSE sessions'[m] = sessions[m]
    BY <1>1, <1>3
  <2>3. Free.owner # p
    BY SensorAssumption DEF Free
  <2>4. \A m \in AllNames : m \notin hit => sessions[m].id # proc[p].ids[n]
    BY <1>1
  <2> QED BY <2>1, <2>2, <2>3, <2>4
<1>6. ~world.raced => hit \ {n} = {}
  <2> SUFFICES ASSUME ~world.raced, NEW m \in AllNames, m # n, sessions[m].id = proc[p].ids[n] PROVE FALSE
    BY <1>1
  <2>1. IsCurrent(p, n)
    BY <1>2, <1>3 DEF SessOK
  <2> QED BY <1>1, <1>2, <2>1 DEF IsCurrent, IdsApart
<1>7. /\ world' \in [events : Nat, crashes : Int, outside : Int, raced : BOOLEAN, torn : SUBSET Procs, foreign : BOOLEAN]
      /\ world'.events = world.events /\ world'.raced = world.raced /\ world'.torn = world.torn
      /\ world'.foreign => world.foreign \/ hit \ {n} # {}
  <2>1. PICK b \in BOOLEAN : b = (world.foreign \/ hit \ {n} # {})
    OBVIOUS
  <2>2. world' = [world EXCEPT !.foreign = b]
    BY <1>3, <2>1
  <2>3. /\ world' \in [events : Nat, crashes : Int, outside : Int, raced : BOOLEAN, torn : SUBSET Procs, foreign : BOOLEAN]
        /\ world'.events = world.events /\ world'.raced = world.raced /\ world'.torn = world.torn
        /\ world'.foreign = b
    BY <1>1, <2>2
  <2> QED BY <2>1, <2>3
<1>8. Untouched'
  BY <1>2, <1>6, <1>7 DEF Untouched
<1>9. /\ proc' \in [Procs -> ProcRecs] /\ proc'[p].pc = to
      /\ proc'[p].gen = proc[p].gen /\ proc'[p].ids = proc[p].ids /\ proc'[p].handler = proc[p].handler
      /\ proc'[p].late = proc[p].late /\ proc'[p].failed = proc[p].failed
      /\ \A q \in Procs \ {p} : proc'[q] = proc[q]
  <2>1. to \in Pcs
    BY DEF AfterStop, Pcs
  <2> QED BY <1>1, <1>3, <2>1, GoesFacts
<1>10. SensorTypeOK'
  BY <1>1, <1>3, <1>5, <1>7, <1>9 DEF SensorTypeOK
<1>11. SessOK(p)'
  <2>1. ASSUME NEW m \in AllNames, sessions'[m].owner = p
        PROVE  /\ m \in Names /\ MayOwn(proc'[p].pc, proc'[p].failed, m)
               /\ proc'[p].ids[m] = sessions'[m].id /\ sessions'[m].id # 0
    <3>1. sessions'[m] = sessions[m] /\ sessions[m].id # proc[p].ids[n]
      BY <1>5, <2>1
    <3>2. proc[p].pc # "crashed"
      BY <1>3 DEF ControlPc
    <3>3. /\ m \in Names /\ MayOwn(proc[p].pc, proc[p].failed, m) /\ proc[p].ids[m] = sessions[m].id
          /\ sessions[m].id # 0
      BY <1>2, <2>1, <3>1, <3>2 DEF SessOK
    <3>4. m # n
      BY <3>1, <3>3
    <3>5. MayOwn(to, proc[p].failed, m)
      BY <1>1, <1>3, <3>3, <3>4, Places DEF MayOwn, AfterStop, ControlPc
    <3> QED BY <1>9, <3>1, <3>3, <3>5
  <2>2. to \notin {"controlA", "controlB"}
    BY DEF AfterStop
  <2>3. proc'[p].handler
    BY <1>2, <1>3, <1>9 DEF SessOK, ControlPc, Locking, Over
  <2> QED BY <1>9, <2>1, <2>2, <2>3 DEF SessOK, ControlPc
<1>12. ThreadOK(p)'
  BY <1>1, <1>2, <1>3, <1>9, Places DEF ThreadOK, Quiet, AfterStop, ControlPc, Working, Over, Locking
<1>13. EventOK(p)'
  <2>1. \A m \in Names : sessions'[m].owner = p => sessions[m].owner = p
    BY <1>5, Places
  <2>2. OnTheWay(p)' = OnTheWay(p)
    BY <1>3 DEF OnTheWay
  <2> QED BY <1>1, <1>2, <1>3, <1>7, <1>9, <2>1, <2>2, Places DEF EventOK, Opened, AfterStop, ControlPc, Working
<1>14. RunOK(p)'
  BY <1>11, <1>12, <1>13 DEF RunOK
<1>15. IdsApart'
  BY <1>5, FreedApart
<1>16. Holds(p) /\ proc'[p].pc # "mutex" /\ \A q \in Procs \ {p} : KeptRun(q)
  BY <1>3, <1>9, HoldsAt DEF KeptRun, ControlPc, AfterStop
<1> QED BY <1>3, <1>5, <1>7, <1>8, <1>9, <1>10, <1>14, <1>15, <1>16, SessionStep

-----------------------------------------------------------------------------
(* The threads                                                               *)

\* A step of a consumer or the pipeline of one run.
LEMMA ThreadStep ==
    ASSUME SInv, NEW p \in Procs, UNCHANGED <<lock, proc, sessions>>, SensorTypeOK',
           world'.events >= world.events, world'.raced = world.raced, world'.torn = world.torn,
           world'.foreign = world.foreign,
           \A q \in Procs \ {p} : KeptRun(q), RunOK(p)'
    PROVE  SInv'
<1>1. LockInv' /\ IdsApart' /\ Untouched'
  BY DEF SInv, LockInv, Holds, IdsApart, Untouched
<1>2. OthersLeft(p)
  BY DEF OthersLeft
<1> QED BY <1>1, <1>2, Assemble

\* A consumer's events replaced.
LEMMA TraceHeld ==
    ASSUME NEW t \in TraceRecs, NEW h \in SUBSET Nat
    PROVE  \E u \in TraceRecs :
             /\ u = [t EXCEPT !.held = h] /\ u.held = h /\ u.thread = t.thread /\ u.closed = t.closed /\ u.of = t.of
<1>1. ASSUME NEW u, u = [t EXCEPT !.held = h]
      PROVE  u \in TraceRecs /\ u.held = h /\ u.thread = t.thread /\ u.closed = t.closed /\ u.of = t.of
  BY <1>1 DEF TraceRecs
<1> QED BY <1>1

\* A consumer's thread ended.
LEMMA TraceEnded ==
    ASSUME NEW t \in TraceRecs
    PROVE  \E u \in TraceRecs :
             /\ u = [t EXCEPT !.thread = "ended"] /\ u.thread = "ended" /\ u.held = t.held /\ u.closed = t.closed
             /\ u.of = t.of
<1>1. ASSUME NEW u, u = [t EXCEPT !.thread = "ended"]
      PROVE  u \in TraceRecs /\ u.thread = "ended" /\ u.held = t.held /\ u.closed = t.closed /\ u.of = t.of
  BY <1>1 DEF TraceRecs
<1> QED BY <1>1


\* Min of events is one of them.
LEMMA MinIn ==
    ASSUME NEW S \in SUBSET Nat, S # {}
    PROVE  Min(S) \in S
<1> DEFINE R == {ss \in Nat \X Nat : ss[1] < ss[2]}
<1>1. IsWellFoundedOn(R, Nat)
  BY NatLessThanWellFounded DEF OpToRel
<1> HIDE DEF R
<1>2. \E x \in S : \A y \in S : ~(<<y, x>> \in R)
  BY <1>1, WFMin
<1>3. \A x, y \in Nat : y < x => <<y, x>> \in R
  BY DEF R
<1>4. PICK x \in S : \A y \in S : ~(<<y, x>> \in R)
  BY <1>2
<1>5. \A y \in S : ~(y < x)
  BY <1>3, <1>4
<1>6. \A y \in S : x <= y
  BY <1>5
<1> QED BY <1>6 DEF Min


\* One event goes from a consumer to the queue.
LEMMA DeliverInv ==
    ASSUME SInv, NEW p \in Procs, NEW n \in Names, Deliver(p, n)
    PROVE  SInv'
<1> DEFINE e == Min(trace[p][n].held)
<1>1. /\ SensorTypeOK /\ trace[p][n] \in TraceRecs /\ pipe \in [Procs -> PipeRecs] /\ pipe[p] \in PipeRecs
      /\ trace[p][n].held \in SUBSET Nat
  BY DEF SInv, SensorTypeOK, TraceRecs
<1>2. ThreadOK(p) /\ EventOK(p) /\ SessOK(p)
  BY DEF SInv, RunOK
<1>3. /\ trace[p][n].thread = "running" /\ trace[p][n].held # {} /\ trace[p][n].of = p
      /\ trace' = [trace EXCEPT ![p][n].held = trace[p][n].held \ {e}]
      /\ pipe' = [pipe EXCEPT ![p].queue = pipe[p].queue \cup {e}]
      /\ UNCHANGED <<lock, proc, sessions, early, world>>
  BY DEF Deliver
<1>4. e \in trace[p][n].held /\ e \in Nat
  BY <1>1, <1>3, MinIn
<1> HIDE DEF e
<1>5. PICK u \in TraceRecs :
        /\ u = [trace[p][n] EXCEPT !.held = trace[p][n].held \ {e}]
        /\ u.held = trace[p][n].held \ {e} /\ u.thread = trace[p][n].thread
        /\ u.closed = trace[p][n].closed /\ u.of = trace[p][n].of
  <2>1. PICK h \in SUBSET Nat : h = trace[p][n].held \ {e}
    BY <1>1
  <2>2. \E u \in TraceRecs :
          /\ u = [trace[p][n] EXCEPT !.held = h] /\ u.held = h /\ u.thread = trace[p][n].thread
          /\ u.closed = trace[p][n].closed /\ u.of = trace[p][n].of
    BY <1>1, TraceHeld
  <2> QED BY <2>1, <2>2
<1>6. TraceSet(p, n, u)
  BY <1>3, <1>5 DEF TraceSet
<1>7. /\ trace' \in [Procs -> [Names -> TraceRecs]] /\ trace'[p][n] = u
      /\ \A m \in Names \ {n} : trace'[p][m] = trace[p][m]
      /\ \A q \in Procs \ {p} : trace'[q] = trace[q]
  BY <1>1, <1>6, TraceFacts
<1>8. /\ pipe' \in [Procs -> PipeRecs] /\ pipe'[p].thread = pipe[p].thread /\ pipe'[p].got = pipe[p].got
      /\ pipe'[p].queue = pipe[p].queue \cup {e} /\ \A q \in Procs \ {p} : pipe'[q] = pipe[q]
  BY <1>1, <1>3, <1>4 DEF PipeRecs
<1>9. SensorTypeOK'
  BY <1>1, <1>3, <1>7, <1>8 DEF SensorTypeOK
<1>10. SessOK(p)'
  BY <1>2, <1>3 DEF SessOK, ControlPc, IsCurrent
<1>11. ThreadOK(p)'
  <2>1. /\ \A m \in Names : trace'[p][m].thread = trace[p][m].thread /\ trace'[p][m].closed = trace[p][m].closed
    BY <1>5, <1>7
  <2>2. pipe[p].thread # "ended"
    BY <1>2, <1>3 DEF ThreadOK, Quiet, Over, Locking
  <2> QED BY <1>2, <1>3, <1>8, <2>1, <2>2 DEF ThreadOK
<1>12. EventOK(p)'
  <2>1. \A m \in Names : /\ trace'[p][m].thread = trace[p][m].thread /\ trace'[p][m].of = trace[p][m].of
                         /\ trace'[p][m].held \subseteq trace[p][m].held
    BY <1>5, <1>7
  <2>2. OnTheWay(p) \subseteq OnTheWay(p)'
    <3>1. \A m \in {"A", "B"} : trace[p][m].held \subseteq trace'[p][m].held \cup {e}
      BY <1>5, <1>7, Places
    <3> QED BY <1>8, <3>1 DEF OnTheWay
  <2> QED BY <1>2, <1>3, <2>1, <2>2 DEF EventOK
<1>13. RunOK(p)'
  BY <1>10, <1>11, <1>12 DEF RunOK
<1>14. \A q \in Procs \ {p} : KeptRun(q)
  BY <1>3, <1>7, <1>8 DEF KeptRun
<1>15. world'.events >= world.events
  BY <1>1, <1>3 DEF SensorTypeOK
<1> QED BY <1>3, <1>9, <1>13, <1>14, <1>15, ThreadStep

\* A consumer's thread ends: with nothing left, unless the trace is closed.
LEMMA ReturnsInv ==
    ASSUME SInv, NEW p \in Procs, NEW n \in Names, ProcessTraceReturns(p, n)
    PROVE  SInv'
<1>1. SensorTypeOK /\ trace[p][n] \in TraceRecs
  BY DEF SInv, SensorTypeOK
<1>2. ThreadOK(p) /\ EventOK(p) /\ SessOK(p)
  BY DEF SInv, RunOK
<1>3. /\ trace[p][n].thread = "running"
      /\ trace[p][n].closed \/ (sessions[n].owner # trace[p][n].of /\ (trace[p][n].of = p => trace[p][n].held = {}))
      /\ trace' = [trace EXCEPT ![p][n].thread = "ended"]
      /\ UNCHANGED <<lock, proc, sessions, pipe, early, world>>
  BY DEF ProcessTraceReturns
<1>4. PICK u \in TraceRecs :
        /\ u = [trace[p][n] EXCEPT !.thread = "ended"] /\ u.thread = "ended"
        /\ u.held = trace[p][n].held /\ u.closed = trace[p][n].closed /\ u.of = trace[p][n].of
  BY <1>1, TraceEnded
<1>5. TraceSet(p, n, u)
  BY <1>3, <1>4 DEF TraceSet
<1>6. /\ trace' \in [Procs -> [Names -> TraceRecs]] /\ trace'[p][n] = u
      /\ \A m \in Names \ {n} : trace'[p][m] = trace[p][m]
      /\ \A q \in Procs \ {p} : trace'[q] = trace[q]
  BY <1>1, <1>5, TraceFacts
<1>7. SensorTypeOK'
  BY <1>1, <1>3, <1>6 DEF SensorTypeOK
<1>8. \A m \in Names : /\ trace'[p][m].thread = "running" => trace[p][m].thread = "running"
                       /\ trace'[p][m].closed = trace[p][m].closed /\ trace'[p][m].of = trace[p][m].of
                       /\ trace'[p][m].held = trace[p][m].held
  BY <1>3, <1>4, <1>6
<1>9. SessOK(p)'
  BY <1>2, <1>3 DEF SessOK, ControlPc, IsCurrent
<1>10. ThreadOK(p)'
  BY <1>2, <1>3, <1>8 DEF ThreadOK
<1>11. EventOK(p)'
  <2>1. OnTheWay(p)' = OnTheWay(p)
    BY <1>3, <1>8, Places DEF OnTheWay
  <2>2. ~proc[p].failed /\ Opened(proc[p].pc, n) => ~trace[p][n].closed
    BY <1>2 DEF ThreadOK, Opened, Working, Over
  <2>3. ASSUME ~proc[p].failed, NEW m \in Names, Opened(proc[p].pc, m),
               trace'[p][m].thread = "ended", trace'[p][m].of = p
        PROVE  sessions[m].owner # p /\ trace[p][m].held = {}
    <3>1. CASE m = n
      BY <1>3, <1>8, <2>2, <2>3, <3>1
    <3>2. CASE m # n
      BY <1>2, <1>6, <2>3, <3>2 DEF EventOK
    <3> QED BY <3>1, <3>2
  <2>4. \A m \in Names : trace[p][m].thread # "none" => trace'[p][m].thread # "none"
    BY <1>4, <1>6
  <2> QED BY <1>2, <1>3, <1>8, <2>1, <2>3, <2>4 DEF EventOK
<1>12. RunOK(p)'
  BY <1>9, <1>10, <1>11 DEF RunOK
<1>13. \A q \in Procs \ {p} : KeptRun(q)
  BY <1>3, <1>6 DEF KeptRun
<1>14. world'.events >= world.events
  BY <1>1, <1>3 DEF SensorTypeOK
<1> QED BY <1>3, <1>7, <1>12, <1>13, <1>14, ThreadStep

\* A step of the pipeline that keeps what it has, and ends only with nothing left.
LEMMA PipeStep ==
    ASSUME SInv, NEW p \in Procs, UNCHANGED <<lock, proc, sessions, trace, early, world>>,
           pipe' \in [Procs -> PipeRecs], \A q \in Procs \ {p} : pipe'[q] = pipe[q],
           pipe[p].thread = "running",
           pipe[p].queue \cup pipe[p].got \subseteq pipe'[p].queue \cup pipe'[p].got,
           \/ pipe'[p].thread = "running"
           \/ pipe'[p].thread = "ended" /\ pipe'[p].queue = {} /\ proc[p].pc = "join"
    PROVE  SInv'
<1>1. SensorTypeOK /\ ThreadOK(p) /\ EventOK(p) /\ SessOK(p)
  BY DEF SInv, RunOK
<1>2. SensorTypeOK'
  BY <1>1 DEF SensorTypeOK
<1>3. SessOK(p)'
  BY <1>1 DEF SessOK, ControlPc, IsCurrent
<1>4. ThreadOK(p)'
  BY <1>1 DEF ThreadOK
<1>5. EventOK(p)'
  <2>1. OnTheWay(p) \subseteq OnTheWay(p)'
    BY DEF OnTheWay
  <2> QED BY <1>1, <2>1 DEF EventOK
<1>6. RunOK(p)'
  BY <1>3, <1>4, <1>5 DEF RunOK
<1>7. \A q \in Procs \ {p} : KeptRun(q)
  BY DEF KeptRun
<1> QED BY <1>1, <1>2, <1>6, <1>7, ThreadStep DEF SensorTypeOK

\* The pipeline takes an event, or ends.
LEMMA PipelineInv ==
    ASSUME SInv, NEW p \in Procs, PipelineTakes(p) \/ PipelineEnds(p)
    PROVE  SInv'
<1>1. pipe \in [Procs -> PipeRecs] /\ pipe[p] \in PipeRecs /\ pipe[p].queue \in SUBSET Nat
  BY DEF SInv, SensorTypeOK, PipeRecs
<1>2. CASE PipelineEnds(p)
  <2>1. pipe' \in [Procs -> PipeRecs] /\ pipe'[p].thread = "ended" /\ pipe'[p].queue = pipe[p].queue
        /\ pipe'[p].got = pipe[p].got /\ \A q \in Procs \ {p} : pipe'[q] = pipe[q]
    BY <1>1, <1>2 DEF PipelineEnds, PipeRecs
  <2> QED BY <1>2, <2>1, PipeStep DEF PipelineEnds, SendersGone, At
<1>3. CASE PipelineTakes(p)
  <2> DEFINE e == Min(pipe[p].queue)
  <2>1. /\ pipe[p].thread = "running" /\ pipe[p].queue # {} /\ UNCHANGED <<lock, proc, sessions, trace, early, world>>
        /\ pipe' = [pipe EXCEPT ![p].got = pipe[p].got \cup {e}, ![p].queue = pipe[p].queue \ {e}]
    BY <1>1, <1>3 DEF PipelineTakes
  <2>2. e \in Nat
    BY <1>1, <2>1, MinIn
  <2> HIDE DEF e
  <2>3. PICK r : r = [thread |-> pipe[p].thread, queue |-> pipe[p].queue \ {e}, got |-> pipe[p].got \cup {e}]
    OBVIOUS
  <2>4. pipe' = [pipe EXCEPT ![p] = r]
    <3>1. PICK m : m = [pipe[p] EXCEPT !.got = pipe[p].got \cup {e}]
      OBVIOUS
    <3>2. PICK f : f = [pipe EXCEPT ![p].got = pipe[p].got \cup {e}]
      OBVIOUS
    <3>3. f = [pipe EXCEPT ![p] = m]
      BY <3>1, <3>2
    <3>4. f[p] = m
      BY <1>1, <3>3
    <3>5. pipe' = [f EXCEPT ![p].queue = pipe[p].queue \ {e}]
      BY <2>1, <3>2
    <3>6. pipe' = [f EXCEPT ![p] = [m EXCEPT !.queue = pipe[p].queue \ {e}]]
      BY <3>4, <3>5
    <3>7. [m EXCEPT !.queue = pipe[p].queue \ {e}] = r
      <4>1. PICK o \in PipeRecs : o = pipe[p]
        BY <1>1
      <4>2. m = [thread |-> o.thread, queue |-> o.queue, got |-> o.got \cup {e}]
        BY <3>1, <4>1 DEF PipeRecs
      <4>3. [m EXCEPT !.queue = o.queue \ {e}] = [thread |-> o.thread, queue |-> o.queue \ {e}, got |-> o.got \cup {e}]
        BY <4>2
      <4> QED BY <2>3, <4>1, <4>3
    <3> QED BY <3>3, <3>6, <3>7
  <2>5. r \in PipeRecs /\ r.thread = "running" /\ r.queue = pipe[p].queue \ {e} /\ r.got = pipe[p].got \cup {e}
    BY <1>1, <2>1, <2>2, <2>3 DEF PipeRecs
  <2>6. pipe' \in [Procs -> PipeRecs] /\ pipe'[p] = r /\ \A q \in Procs \ {p} : pipe'[q] = pipe[q]
    BY <1>1, <2>4, <2>5
  <2> QED BY <2>1, <2>5, <2>6, PipeStep
<1> QED BY <1>2, <1>3


\* An event is logged to a run's session, which its consumer is on.
LEMMA LogInv ==
    ASSUME SInv, NEW n \in Names, Log(n)
    PROVE  SInv'
<1>1. PICK p \in Procs, e \in Nat :
        /\ p = sessions[n].owner /\ e = world.events + 1 /\ Lives(p)
        /\ trace' = [trace EXCEPT ![p][n].held = trace[p][n].held \cup {e}]
        /\ early' = IF At(p, "run") THEN [early EXCEPT ![p] = early[p] \cup {e}] ELSE early
        /\ world' = [world EXCEPT !.events = e]
        /\ UNCHANGED <<lock, proc, sessions, pipe>>
  <2>1. sessions[n].owner \in Procs
    BY DEF Log
  <2>2. world.events + 1 \in Nat
    BY DEF SInv, SensorTypeOK
  <2> QED BY <2>1, <2>2 DEF Log
<1>2. /\ SensorTypeOK /\ trace[p][n] \in TraceRecs /\ trace[p][n].held \in SUBSET Nat
      /\ world \in [events : Nat, crashes : Int, outside : Int, raced : BOOLEAN, torn : SUBSET Procs, foreign : BOOLEAN]
      /\ early \in [Procs -> SUBSET Nat] /\ n \in AllNames
  BY Places DEF SInv, SensorTypeOK, TraceRecs
<1>3. ThreadOK(p) /\ EventOK(p) /\ SessOK(p)
  BY DEF SInv, RunOK
<1>4. PICK u \in TraceRecs :
        /\ u = [trace[p][n] EXCEPT !.held = trace[p][n].held \cup {e}]
        /\ u.held = trace[p][n].held \cup {e} /\ u.thread = trace[p][n].thread
        /\ u.closed = trace[p][n].closed /\ u.of = trace[p][n].of
  <2>1. PICK h \in SUBSET Nat : h = trace[p][n].held \cup {e}
    BY <1>2
  <2>2. \E u \in TraceRecs :
          /\ u = [trace[p][n] EXCEPT !.held = h] /\ u.held = h /\ u.thread = trace[p][n].thread
          /\ u.closed = trace[p][n].closed /\ u.of = trace[p][n].of
    BY <1>2, TraceHeld
  <2> QED BY <2>1, <2>2
<1>5. TraceSet(p, n, u)
  BY <1>1, <1>4 DEF TraceSet
<1>6. /\ trace' \in [Procs -> [Names -> TraceRecs]] /\ trace'[p][n] = u
      /\ \A m \in Names \ {n} : trace'[p][m] = trace[p][m]
      /\ \A q \in Procs \ {p} : trace'[q] = trace[q]
  BY <1>2, <1>5, TraceFacts
<1>7. /\ world' \in [events : Nat, crashes : Int, outside : Int, raced : BOOLEAN, torn : SUBSET Procs, foreign : BOOLEAN]
      /\ world'.events = e /\ world'.raced = world.raced /\ world'.torn = world.torn /\ world'.foreign = world.foreign
  BY <1>1, <1>2
<1>8. /\ early' \in [Procs -> SUBSET Nat] /\ \A q \in Procs \ {p} : early'[q] = early[q]
      /\ early'[p] = IF At(p, "run") THEN early[p] \cup {e} ELSE early[p]
  BY <1>1, <1>2
<1>9. SensorTypeOK'
  BY <1>1, <1>2, <1>6, <1>7, <1>8 DEF SensorTypeOK
<1>10. SessOK(p)'
  BY <1>1, <1>3, <1>7 DEF SessOK, ControlPc, IsCurrent
<1>11. \A m \in Names : /\ trace'[p][m].thread = trace[p][m].thread /\ trace'[p][m].closed = trace[p][m].closed
                        /\ trace'[p][m].of = trace[p][m].of
  BY <1>4, <1>6
<1>12. ThreadOK(p)'
  BY <1>1, <1>3, <1>11 DEF ThreadOK
<1>13. MayOwn(proc[p].pc, proc[p].failed, n)
  BY <1>1, <1>2, <1>3 DEF SessOK, Lives, Over
<1>14. EventOK(p)'
  <2>1. world'.events = world.events + 1 /\ world.events \in Nat /\ early[p] \subseteq Nat
        /\ \A m \in Names : trace[p][m].held \subseteq Nat
    BY <1>1, <1>2, <1>7 DEF SensorTypeOK, TraceRecs
  <2>2. /\ \A x \in early[p] : x <= world.events
        /\ \A m \in Names : \A x \in trace[p][m].held : x <= world.events
    BY <1>3 DEF EventOK
  <2>3. \A x \in early'[p] : x <= world'.events
    BY <1>7, <1>8, <2>1, <2>2
  <2>4. \A m \in Names : \A x \in trace'[p][m].held : x <= world'.events
    <3>1. \A m \in Names : trace'[p][m].held \subseteq trace[p][m].held \cup {e}
      BY <1>4, <1>6
    <3>2. \A m \in Names : \A x \in trace[p][m].held : x <= world'.events
      BY <2>1, <2>2
    <3>3. e <= world'.events
      BY <1>7
    <3> QED BY <3>1, <3>2, <3>3
  <2>5. early[p] \subseteq OnTheWay(p) /\ OnTheWay(p)' = OnTheWay(p) \cup {e}
    <3>1. trace'[p]["A"].held \cup trace'[p]["B"].held = trace[p]["A"].held \cup trace[p]["B"].held \cup {e}
      <4>1. CASE n = "A"
        BY <1>4, <1>6, <4>1, Places
      <4>2. CASE n = "B"
        BY <1>4, <1>6, <4>2, Places
      <4> QED BY <4>1, <4>2, Places
    <3>2. pipe' = pipe
      BY <1>1
    <3> QED BY <1>3, <3>1, <3>2 DEF OnTheWay, EventOK
  <2>6. early'[p] \subseteq OnTheWay(p)'
    BY <1>8, <2>5
  <2>7. early'[p] # {} => ~proc[p].failed /\ proc[p].pc \in Working \cup {"close", "closing", "join", "exit"}
    BY <1>3, <1>8 DEF EventOK, ThreadOK, At, Working
  <2>8. ASSUME ~proc[p].failed, NEW m \in Names, Opened(proc[p].pc, m)
        PROVE  /\ sessions[m].owner = p => trace'[p][m].of = p
               /\ trace'[p][m].thread # "none"
               /\ trace'[p][m].held \cap early'[p] # {} => trace'[p][m].of = p
               /\ trace'[p][m].thread = "ended" /\ trace'[p][m].of = p => sessions[m].owner # p /\ trace'[p][m].held = {}
    <3>1. /\ sessions[m].owner = p => trace[p][m].of = p
          /\ trace[p][m].thread # "none"
          /\ trace[p][m].held \cap early[p] # {} => trace[p][m].of = p
          /\ trace[p][m].thread = "ended" /\ trace[p][m].of = p => sessions[m].owner # p /\ trace[p][m].held = {}
      BY <1>3, <2>8 DEF EventOK
    <3>2. CASE m = n
      BY <1>1, <1>11, <3>1, <3>2
    <3>3. CASE m # n
      <4>1. e \notin trace[p][m].held
        <5>1. \A x \in trace[p][m].held : x <= world.events
          BY <2>2
        <5>2. ~(e <= world.events)
          BY <1>1, <2>1
        <5> QED BY <5>1, <5>2
      <4>2. trace'[p][m] = trace[p][m]
        BY <1>6, <3>3
      <4>3. trace[p][m].held \cap early'[p] = trace[p][m].held \cap early[p]
        BY <1>8, <4>1
      <4> QED BY <3>1, <4>2, <4>3
    <3> QED BY <3>2, <3>3
  <2>9. ~proc[p].failed => proc[p].pc \notin {"close", "closing", "join", "exit"}
    BY <1>13 DEF MayOwn
  <2>10. proc' = proc /\ sessions' = sessions
    BY <1>1
  <2> QED BY <2>3, <2>4, <2>6, <2>7, <2>8, <2>9, <2>10 DEF EventOK
<1>15. RunOK(p)'
  BY <1>10, <1>12, <1>14 DEF RunOK
<1>16. \A q \in Procs \ {p} : KeptRun(q)
  BY <1>1, <1>6, <1>8 DEF KeptRun
<1>17. world'.events >= world.events
  BY <1>1, <1>2, <1>7
<1> QED BY <1>1, <1>7, <1>9, <1>15, <1>16, <1>17, ThreadStep

\* The console asks for the stop.
LEMMA AskedInv ==
    ASSUME SInv, NEW p \in Procs, Ctrl(p), proc[p].handler
    PROVE  SInv'
<1>1. SensorTypeOK /\ proc \in [Procs -> ProcRecs] /\ proc[p] \in ProcRecs
  BY DEF SInv, SensorTypeOK
<1>2. UNCHANGED <<lock, sessions, trace, pipe, early, world>> /\ proc' = [proc EXCEPT ![p].stop = TRUE]
  BY DEF Ctrl
<1>3. /\ proc' \in [Procs -> ProcRecs] /\ \A q \in Procs \ {p} : proc'[q] = proc[q]
      /\ proc'[p].pc = proc[p].pc /\ proc'[p].gen = proc[p].gen /\ proc'[p].ids = proc[p].ids
      /\ proc'[p].handler = proc[p].handler /\ proc'[p].late = proc[p].late /\ proc'[p].failed = proc[p].failed
  BY <1>1, <1>2 DEF ProcRecs
<1>4. ThreadOK(p) /\ EventOK(p) /\ SessOK(p)
  BY DEF SInv, RunOK
<1>5. SessOK(p)'
  BY <1>2, <1>3, <1>4 DEF SessOK, ControlPc, IsCurrent
<1>6. ThreadOK(p)'
  BY <1>2, <1>3, <1>4 DEF ThreadOK
<1>7. EventOK(p)'
  BY <1>2, <1>3, <1>4 DEF EventOK, OnTheWay
<1>8. RunOK(p)'
  BY <1>5, <1>6, <1>7 DEF RunOK
<1> QED BY <1>2, <1>3, <1>8, MoveInv

\* An outsider stops a session or starts one: a run between its check and its
\* call has then been raced.
LEMMA OutsiderInv ==
    ASSUME SInv, NEW n \in AllNames, OutsiderStops(n) \/ OutsiderStarts(n)
    PROVE  SInv'
<1>1. /\ SensorTypeOK /\ sessions \in [AllNames -> [owner : Owners, id : Int]]
      /\ world \in [events : Nat, crashes : Int, outside : Int, raced : BOOLEAN, torn : SUBSET Procs, foreign : BOOLEAN]
  BY DEF SInv, SensorTypeOK
<1>2. /\ UNCHANGED <<lock, proc, trace, pipe, early>>
      /\ world' = [world EXCEPT !.outside = @ + 1, !.raced = @ \/ Races]
  BY DEF OutsiderStops, OutsiderStarts
<1>3. /\ world' \in [events : Nat, crashes : Int, outside : Int, raced : BOOLEAN, torn : SUBSET Procs, foreign : BOOLEAN]
      /\ world'.events = world.events /\ world'.torn = world.torn /\ world'.foreign = world.foreign
      /\ world.raced \/ Races => world'.raced
  <2>1. PICK b \in BOOLEAN : b = (world.raced \/ Races)
    OBVIOUS
  <2>2. world' = [world EXCEPT !.outside = world.outside + 1, !.raced = b]
    BY <1>1, <1>2, <2>1
  <2>3. PICK w : w = [world EXCEPT !.outside = world.outside + 1]
    OBVIOUS
  <2>4. /\ w \in [events : Nat, crashes : Int, outside : Int, raced : BOOLEAN, torn : SUBSET Procs, foreign : BOOLEAN]
        /\ w.events = world.events /\ w.torn = world.torn /\ w.foreign = world.foreign
    BY <1>1, <2>3
  <2>5. world' = [w EXCEPT !.raced = b]
    BY <2>2, <2>3
  <2>6. /\ world' \in [events : Nat, crashes : Int, outside : Int, raced : BOOLEAN, torn : SUBSET Procs, foreign : BOOLEAN]
        /\ world'.events = w.events /\ world'.torn = w.torn /\ world'.foreign = w.foreign /\ world'.raced = b
    BY <2>4, <2>5
  <2> QED BY <2>1, <2>4, <2>6
<1>4. /\ sessions' \in [AllNames -> [owner : Owners, id : Int]] /\ IdsApart'
      /\ \A q \in Procs, m \in AllNames : sessions'[m].owner = q => sessions'[m] = sessions[m]
  <2>1. CASE OutsiderStops(n)
    <3>1. sessions' = [sessions EXCEPT ![n] = Free]
      BY <2>1 DEF OutsiderStops, Stopped
    <3>2. Free \in [owner : Owners, id : Int] /\ Free.owner \notin Procs
      BY SensorAssumption DEF Free, Owners
    <3>3. /\ sessions' \in [AllNames -> [owner : Owners, id : Int]] /\ sessions'[n] = Free
          /\ \A m \in AllNames \ {n} : sessions'[m] = sessions[m]
      BY <1>1, <3>1, <3>2
    <3>4. IdsApart'
      BY <3>3, FreedApart
    <3> QED BY <3>2, <3>3, <3>4
  <2>2. CASE OutsiderStarts(n)
    <3>1. sessions' = [sessions EXCEPT ![n] = [owner |-> Outsider, id |-> NewId]]
      BY <2>2 DEF OutsiderStarts
    <3>2. NewId \in Int /\ Outsider \in Owners /\ Outsider \notin Procs
      BY <1>1, NewIdFacts, SensorAssumption DEF Owners, Outsider
    <3>3. /\ sessions' \in [AllNames -> [owner : Owners, id : Int]] /\ sessions'[n].owner = Outsider
          /\ \A m \in AllNames \ {n} : sessions'[m] = sessions[m]
      BY <1>1, <3>1, <3>2
    <3>4. IdsApart'
      BY <3>1, NewApart
    <3> QED BY <3>2, <3>3, <3>4
  <2> QED BY <2>1, <2>2
<1>5. SensorTypeOK'
  BY <1>1, <1>2, <1>3, <1>4 DEF SensorTypeOK
<1>6. LockInv' /\ Untouched'
  BY <1>2, <1>3 DEF SInv, LockInv, Holds, Untouched
<1>7. ASSUME NEW q \in Procs PROVE RunOK(q)'
  <2>1. world'.raced \/ proc[q].pc \notin {"controlA", "controlB"}
    BY <1>3, Places DEF Races, At, ControlPc
  <2>2. KeptRun(q)
    BY <1>2 DEF KeptRun
  <2>3. world'.events >= world.events /\ world'.events \in Nat
    BY <1>1, <1>3
  <2> QED BY <1>3, <1>4, <2>1, <2>2, <2>3, OthersOK
<1> QED BY <1>4, <1>5, <1>6, <1>7 DEF SInv


-----------------------------------------------------------------------------
(* Taking the lock, and the end of a run                                     *)

\* A record with another generation, and with another count.
LEMMA RecGen ==
    ASSUME NEW m \in ProcRecs, NEW k \in Int
    PROVE  \E r \in ProcRecs :
             r = [m EXCEPT !.gen = k] /\ r.gen = k /\ r.pc = m.pc /\ r.handler = m.handler /\ r.failed = m.failed
<1>1. ASSUME NEW r, r = [m EXCEPT !.gen = k]
      PROVE  r \in ProcRecs /\ r.gen = k /\ r.pc = m.pc /\ r.handler = m.handler /\ r.failed = m.failed
  BY <1>1 DEF ProcRecs
<1> QED BY <1>1

\* A record with another count of tries.
LEMMA RecTries ==
    ASSUME NEW m \in ProcRecs
    PROVE  \E r \in ProcRecs :
             r = [m EXCEPT !.tries = m.tries + 1] /\ r.gen = m.gen /\ r.pc = m.pc /\ r.handler = m.handler
             /\ r.failed = m.failed
<1>1. ASSUME NEW r, r = [m EXCEPT !.tries = m.tries + 1]
      PROVE  r \in ProcRecs /\ r.gen = m.gen /\ r.pc = m.pc /\ r.handler = m.handler /\ r.failed = m.failed
  BY <1>1 DEF ProcRecs
<1> QED BY <1>1

\* A step of a run that has not yet started anything.
LEMMA LockStep ==
    ASSUME SInv, NEW p \in Procs, SensorTypeOK', LockInv', UNCHANGED <<sessions, trace, pipe, early, world>>,
           \A q \in Procs \ {p} : proc'[q] = proc[q],
           proc[p].pc \in Locking \cup {"prepare"}, proc'[p].pc \in Locking \cup {"prepare", "ended"},
           ~proc'[p].failed
    PROVE  SInv'
<1>1. SensorTypeOK /\ SessOK(p) /\ ThreadOK(p) /\ EventOK(p) /\ proc[p].failed \in BOOLEAN
  BY DEF SInv, RunOK, SensorTypeOK, ProcRecs
<1>2. \A n \in AllNames : sessions[n].owner # p
  BY <1>1 DEF SessOK, MayOwn, Locking
<1>3. SessOK(p)'
  BY <1>2 DEF SessOK, ControlPc, Locking, Over
<1>4. ThreadOK(p)'
  BY <1>1 DEF ThreadOK, Quiet, Locking, Over, Working
<1>5. EventOK(p)'
  BY <1>1 DEF EventOK, Opened, OnTheWay, Locking, Working
<1>6. RunOK(p)'
  BY <1>3, <1>4, <1>5 DEF RunOK
<1>7. IdsApart' /\ Untouched'
  BY DEF SInv, IdsApart, Untouched
<1>8. OthersLeft(p)
  BY <1>1 DEF OthersLeft, KeptRun, SensorTypeOK
<1> QED BY <1>6, <1>7, <1>8, Assemble

\* The namespace is created: nobody had it, so nobody has a mutex.
LEMMA CreateInv ==
    ASSUME SInv, NEW p \in Procs, CreateNamespace(p)
    PROVE  SInv'
<1>1. /\ SensorTypeOK /\ proc[p] \in ProcRecs /\ proc \in [Procs -> ProcRecs] /\ LockInv
      /\ lock \in [gen : Int, open : SUBSET Procs, mutex : SUBSET (Procs \X Int)]
      /\ {"mutex", "open"} \subseteq Pcs
  BY DEF SInv, SensorTypeOK, Pcs, Locking
<1>2. proc[p].pc = "create" /\ UNCHANGED <<sessions, trace, pipe, early, world>> /\ ~proc[p].failed
  BY DEF CreateNamespace, At, SInv, RunOK, ThreadOK
<1>3. CASE lock.open = {}
  <2>1. PICK m \in ProcRecs : /\ m = [proc[p] EXCEPT !.pc = "mutex"] /\ m.pc = "mutex" /\ m.gen = proc[p].gen
                              /\ m.ids = proc[p].ids /\ m.handler = proc[p].handler /\ m.late = proc[p].late
                              /\ m.failed = proc[p].failed
    BY <1>1, RecPlace
  <2>2. PICK k \in Int : k = lock.gen + 1
    BY <1>1
  <2>3. PICK r \in ProcRecs :
          r = [m EXCEPT !.gen = k] /\ r.gen = k /\ r.pc = m.pc /\ r.handler = m.handler /\ r.failed = m.failed
    BY RecGen
  <2>4. proc' = [proc EXCEPT ![p] = r]
    BY <1>3, <2>1, <2>2, <2>3 DEF CreateNamespace
  <2>5. proc'[p] = r /\ proc' \in [Procs -> ProcRecs] /\ \A q \in Procs \ {p} : proc'[q] = proc[q]
    BY <1>1, <2>4, ProcFacts
  <2>6. PICK l : l = [lock EXCEPT !.gen = k]
    OBVIOUS
  <2>7. lock' = [l EXCEPT !.open = {p}]
    BY <1>3, <2>2, <2>6 DEF CreateNamespace
  <2>8. /\ l.gen = k /\ l.mutex = lock.mutex /\ l \in [gen : Int, open : SUBSET Procs, mutex : SUBSET (Procs \X Int)]
    BY <1>1, <2>6
  <2>9. /\ lock' \in [gen : Int, open : SUBSET Procs, mutex : SUBSET (Procs \X Int)]
        /\ lock'.gen = k /\ lock'.open = {p} /\ lock'.mutex = lock.mutex
    BY <2>7, <2>8
  <2>10. lock.mutex = {} /\ \A q \in Procs : ~Holds(q) /\ proc[q].pc # "mutex"
    BY <1>1, <1>3 DEF LockInv
  <2>11. \A q \in Procs : ~Holds(q)' /\ (q # p => proc'[q].pc # "mutex")
    BY <2>1, <2>3, <2>5, <2>10 DEF Holds, Locking
  <2>12. LockInv'
    BY <2>3, <2>5, <2>9, <2>10, <2>11 DEF LockInv
  <2>13. SensorTypeOK'
    BY <1>1, <1>2, <2>5, <2>9 DEF SensorTypeOK
  <2>14. proc'[p].pc \in Locking /\ proc[p].pc \in Locking /\ ~proc'[p].failed
    BY <1>2, <2>1, <2>3, <2>5 DEF Locking
  <2> QED BY <1>2, <2>5, <2>12, <2>13, <2>14, LockStep
<1>4. CASE lock.open # {}
  <2>1. Goes(p, "open") /\ lock' = lock
    BY <1>4 DEF CreateNamespace
  <2>2. /\ proc' \in [Procs -> ProcRecs] /\ proc'[p].pc = "open" /\ proc'[p].gen = proc[p].gen
        /\ proc'[p].failed = proc[p].failed /\ \A q \in Procs \ {p} : proc'[q] = proc[q]
    BY <1>1, <2>1, GoesFacts
  <2>3. LockInv'
    <3>1. \A q \in Procs : proc'[q].gen = proc[q].gen /\ (Holds(q)' => Holds(q))
                           /\ (proc'[q].pc = "mutex" => proc[q].pc = "mutex")
      BY <2>2 DEF Holds, Locking
    <3> QED BY <1>1, <2>1, <3>1 DEF LockInv
  <2>4. SensorTypeOK'
    BY <1>1, <1>2, <2>1, <2>2 DEF SensorTypeOK
  <2>5. proc'[p].pc \in Locking /\ proc[p].pc \in Locking
    BY <1>2, <2>2 DEF Locking
  <2> QED BY <1>2, <2>2, <2>3, <2>4, <2>5, LockStep
<1> QED BY <1>3, <1>4

\* The namespace is opened, or has vanished meanwhile.
LEMMA OpenInv ==
    ASSUME SInv, NEW p \in Procs, OpenNamespace(p)
    PROVE  SInv'
<1>1. /\ SensorTypeOK /\ proc[p] \in ProcRecs /\ proc \in [Procs -> ProcRecs] /\ LockInv
      /\ lock \in [gen : Int, open : SUBSET Procs, mutex : SUBSET (Procs \X Int)]
      /\ {"mutex", "create", "ended"} \subseteq Pcs
  BY DEF SInv, SensorTypeOK, Pcs, Locking, Over
<1>2. proc[p].pc = "open" /\ UNCHANGED <<sessions, trace, pipe, early, world>> /\ ~proc[p].failed
  BY DEF OpenNamespace, At, SInv, RunOK, ThreadOK
<1>3. CASE lock.open # {}
  <2>1. PICK m \in ProcRecs : /\ m = [proc[p] EXCEPT !.pc = "mutex"] /\ m.pc = "mutex" /\ m.gen = proc[p].gen
                              /\ m.ids = proc[p].ids /\ m.handler = proc[p].handler /\ m.late = proc[p].late
                              /\ m.failed = proc[p].failed
    BY <1>1, RecPlace
  <2>2. PICK k \in Int : k = lock.gen
    BY <1>1
  <2>3. PICK r \in ProcRecs :
          r = [m EXCEPT !.gen = k] /\ r.gen = k /\ r.pc = m.pc /\ r.handler = m.handler /\ r.failed = m.failed
    BY RecGen
  <2>4. proc' = [proc EXCEPT ![p] = r]
    BY <1>3, <2>1, <2>2, <2>3 DEF OpenNamespace
  <2>5. proc'[p] = r /\ proc' \in [Procs -> ProcRecs] /\ \A q \in Procs \ {p} : proc'[q] = proc[q]
    BY <1>1, <2>4, ProcFacts
  <2>6. /\ lock' \in [gen : Int, open : SUBSET Procs, mutex : SUBSET (Procs \X Int)]
        /\ lock'.gen = lock.gen /\ lock'.open = lock.open \cup {p} /\ lock'.mutex = lock.mutex
    BY <1>1, <1>3 DEF OpenNamespace
  <2>7. \A q \in Procs : Holds(q)' => Holds(q)
    BY <2>1, <2>3, <2>5 DEF Holds, Locking
  <2>8. LockInv'
    <3>1. \A q \in lock'.open : proc'[q].gen = lock'.gen
      BY <1>1, <2>2, <2>3, <2>5, <2>6 DEF LockInv
    <3>2. \A q \in Procs : proc'[q].pc = "mutex" => q \in lock'.open
      BY <1>1, <2>5, <2>6 DEF LockInv
    <3> QED BY <1>1, <2>6, <2>7, <3>1, <3>2 DEF LockInv
  <2>9. SensorTypeOK'
    BY <1>1, <1>2, <2>5, <2>6 DEF SensorTypeOK
  <2>10. proc'[p].pc \in Locking /\ proc[p].pc \in Locking /\ ~proc'[p].failed
    BY <1>2, <2>1, <2>3, <2>5 DEF Locking
  <2> QED BY <1>2, <2>5, <2>8, <2>9, <2>10, LockStep
<1>4. CASE lock.open = {}
  <2>1. PICK to \in Pcs : to = (IF proc[p].tries + 1 = Tries THEN "ended" ELSE "create") /\ to \in {"ended", "create"}
    BY <1>1
  <2>2. PICK m \in ProcRecs : /\ m = [proc[p] EXCEPT !.pc = to] /\ m.pc = to /\ m.gen = proc[p].gen
                              /\ m.ids = proc[p].ids /\ m.handler = proc[p].handler /\ m.late = proc[p].late
                              /\ m.failed = proc[p].failed
    BY <1>1, RecPlace
  <2>3. PICK r \in ProcRecs : /\ r = [m EXCEPT !.tries = m.tries + 1] /\ r.gen = m.gen /\ r.pc = m.pc
                              /\ r.handler = m.handler /\ r.failed = m.failed
    BY RecTries
  <2>4. proc' = [proc EXCEPT ![p] = r] /\ lock' = lock
    <3>1. proc' = [proc EXCEPT ![p].pc = to, ![p].tries = @ + 1] /\ lock' = lock
      BY <1>4, <2>1 DEF OpenNamespace
    <3>2. PICK f : f = [proc EXCEPT ![p].pc = to]
      OBVIOUS
    <3>3. f = [proc EXCEPT ![p] = m]
      BY <2>2, <3>2
    <3>4. f[p] = m
      BY <1>1, <3>3
    <3>5. proc' = [f EXCEPT ![p].tries = @ + 1]
      BY <3>1, <3>2
    <3>6. proc' = [f EXCEPT ![p] = r]
      BY <2>3, <3>4, <3>5
    <3> QED BY <3>1, <3>3, <3>6
  <2>5. proc'[p] = r /\ proc' \in [Procs -> ProcRecs] /\ \A q \in Procs \ {p} : proc'[q] = proc[q]
    BY <1>1, <2>4, ProcFacts
  <2>6. LockInv'
    <3>1. \A q \in Procs : proc'[q].gen = proc[q].gen /\ (Holds(q)' => Holds(q))
                           /\ (proc'[q].pc = "mutex" => proc[q].pc = "mutex")
      BY <2>1, <2>2, <2>3, <2>5 DEF Holds, Locking, Over
    <3> QED BY <1>1, <2>4, <3>1 DEF LockInv
  <2>7. SensorTypeOK'
    BY <1>1, <1>2, <2>4, <2>5 DEF SensorTypeOK
  <2>8. proc'[p].pc \in Locking \cup {"ended"} /\ proc[p].pc \in Locking /\ ~proc'[p].failed
    BY <1>2, <2>1, <2>2, <2>3, <2>5 DEF Locking
  <2> QED BY <1>2, <2>5, <2>6, <2>7, <2>8, LockStep
<1> QED BY <1>3, <1>4

\* acquire_as, or the preparation, refuses: the run is over.
LEMMA RefusedInv ==
    ASSUME SInv, NEW p \in Procs, proc[p].pc \in {"mutex", "prepare"}, proc' = [proc EXCEPT ![p] = Fresh("ended")],
           lock' = Released(p), UNCHANGED <<sessions, trace, pipe, early, world>>
    PROVE  SInv'
<1>1. SensorTypeOK /\ "ended" \in Pcs /\ "ended" \in Over
  BY DEF SInv, Pcs, Over
<1>2. /\ proc' \in [Procs -> ProcRecs] /\ proc'[p].pc = "ended" /\ ~proc'[p].failed
      /\ \A q \in Procs \ {p} : proc'[q] = proc[q]
  BY <1>1, FreshFacts
<1>3. LockInv' /\ lock' \in [gen : Int, open : SUBSET Procs, mutex : SUBSET (Procs \X Int)]
  BY <1>1, <1>2, LockReleased
<1>4. SensorTypeOK'
  BY <1>1, <1>2, <1>3 DEF SensorTypeOK
<1>5. proc[p].pc \in Locking \cup {"prepare"}
  BY DEF Locking
<1> QED BY <1>2, <1>3, <1>4, <1>5, LockStep

\* The mutex is taken: whoever has the namespace open has its generation, so a
\* mutex of the generation is the only one there could be.
LEMMA TakeInv ==
    ASSUME SInv, NEW p \in Procs, TakeMutex(p)
    PROVE  SInv'
<1>1. /\ SensorTypeOK /\ proc[p] \in ProcRecs /\ proc \in [Procs -> ProcRecs] /\ LockInv
      /\ lock \in [gen : Int, open : SUBSET Procs, mutex : SUBSET (Procs \X Int)]
      /\ "prepare" \in Pcs /\ proc[p].gen \in Int
  BY DEF SInv, SensorTypeOK, Pcs, ProcRecs
<1>2. proc[p].pc = "mutex" /\ UNCHANGED <<sessions, trace, pipe, early, world>> /\ ~proc[p].failed
  BY DEF TakeMutex, At, SInv, RunOK, ThreadOK
<1>3. CASE ~Unowned(p)
  BY <1>2, <1>3, RefusedInv DEF TakeMutex
<1>4. CASE Unowned(p)
  <2>1. Goes(p, "prepare") /\ lock' = [lock EXCEPT !.mutex = lock.mutex \cup {<<p, proc[p].gen>>}]
    BY <1>4 DEF TakeMutex
  <2>2. /\ proc' \in [Procs -> ProcRecs] /\ proc'[p].pc = "prepare" /\ proc'[p].gen = proc[p].gen
        /\ proc'[p].failed = proc[p].failed /\ \A q \in Procs \ {p} : proc'[q] = proc[q]
    BY <1>1, <2>1, GoesFacts
  <2>3. p \in lock.open /\ proc[p].gen = lock.gen
    BY <1>1, <1>2 DEF LockInv
  <2>4. lock.mutex = {}
    BY <1>1, <1>4, <2>3 DEF Unowned, LockInv
  <2>5. /\ lock' \in [gen : Int, open : SUBSET Procs, mutex : SUBSET (Procs \X Int)]
        /\ lock'.gen = lock.gen /\ lock'.open = lock.open /\ lock'.mutex = lock.mutex \cup {<<p, proc[p].gen>>}
    BY <1>1, <2>1
  <2>6. lock'.mutex = {<<p, lock'.gen>>}
    BY <2>3, <2>4, <2>5
  <2>7. \A q \in Procs : q # p => ~Holds(q)'
    BY <1>1, <2>2, <2>4 DEF LockInv, Holds
  <2>8. LockInv'
    <3>1. \A m \in lock'.mutex : m = <<p, lock'.gen>>
      BY <2>6
    <3>2. \A m \in lock'.mutex : m[1] = p /\ m[2] = lock'.gen
      BY <3>1
    <3>3. \A q \in lock'.open : proc'[q].gen = lock'.gen
      BY <1>1, <2>2, <2>5 DEF LockInv
    <3>4. \A q \in Procs : proc'[q].pc = "mutex" => q \in lock'.open
      BY <1>1, <2>2, <2>5 DEF LockInv
    <3> QED BY <2>3, <2>5, <2>6, <2>7, <3>2, <3>3, <3>4 DEF LockInv
  <2>9. SensorTypeOK'
    BY <1>1, <1>2, <2>2, <2>5 DEF SensorTypeOK
  <2>10. proc[p].pc \in Locking
    BY <1>2 DEF Locking
  <2> QED BY <1>2, <2>2, <2>8, <2>9, <2>10, LockStep
<1> QED BY <1>3, <1>4


\* A run is over: what it has left behind is at most its sessions, and those
\* only by a crash.
LEMMA OverInv ==
    ASSUME SInv, NEW p \in Procs, NEW pc \in Over, proc' = [proc EXCEPT ![p] = Fresh(pc)], lock' = Released(p),
           sessions' = sessions, early' = [early EXCEPT ![p] = {}],
           trace' \in [Procs -> [Names -> TraceRecs]], pipe' \in [Procs -> PipeRecs],
           world' \in [events : Nat, crashes : Int, outside : Int, raced : BOOLEAN, torn : SUBSET Procs, foreign : BOOLEAN],
           world'.events = world.events, world'.raced = world.raced, world'.torn = world.torn,
           world'.foreign = world.foreign,
           \A q \in Procs \ {p} : trace'[q] = trace[q] /\ pipe'[q] = pipe[q],
           \A n \in Names : trace'[p][n].thread # "running" /\ trace'[p][n].held \subseteq trace[p][n].held,
           pipe'[p].thread # "running", pipe'[p].thread = "ended" => pipe'[p].queue = {} /\ pc = "ended",
           pc = "crashed" \/ \A n \in AllNames : sessions[n].owner # p
    PROVE  SInv'
<1>1. SensorTypeOK /\ pc \in Pcs /\ SessOK(p) /\ EventOK(p) /\ early \in [Procs -> SUBSET Nat]
  BY DEF SInv, SensorTypeOK, RunOK, Pcs
<1>2. /\ proc' \in [Procs -> ProcRecs] /\ proc'[p].pc = pc /\ ~proc'[p].failed /\ ~proc'[p].handler
      /\ \A q \in Procs \ {p} : proc'[q] = proc[q]
  BY <1>1, FreshFacts
<1>3. LockInv' /\ lock' \in [gen : Int, open : SUBSET Procs, mutex : SUBSET (Procs \X Int)]
  BY <1>2, LockReleased
<1>4. early' \in [Procs -> SUBSET Nat] /\ early'[p] = {} /\ \A q \in Procs \ {p} : early'[q] = early[q]
  BY <1>1
<1>5. SensorTypeOK'
  BY <1>1, <1>2, <1>3, <1>4 DEF SensorTypeOK
<1>6. SessOK(p)'
  BY <1>1, <1>2 DEF SessOK, ControlPc, Over
<1>7. ThreadOK(p)'
  BY <1>2 DEF ThreadOK, Over
<1>8. EventOK(p)'
  <2>1. \A n \in Names : \A e \in trace'[p][n].held : e <= world'.events
    BY <1>1 DEF EventOK
  <2>2. \A n \in Names : ~Opened(pc, n)
    BY DEF Opened, Over, Working
  <2>3. pc \notin {"close", "closing", "join", "exit"}
    BY DEF Over
  <2> QED BY <1>2, <1>4, <2>1, <2>2, <2>3 DEF EventOK
<1>9. RunOK(p)'
  BY <1>6, <1>7, <1>8 DEF RunOK
<1>10. IdsApart' /\ Untouched'
  BY DEF SInv, IdsApart, Untouched
<1>11. OthersLeft(p)
  <2>1. \A q \in Procs \ {p} : KeptRun(q)
    BY <1>2, <1>4 DEF KeptRun
  <2>2. world'.events >= world.events
    OBVIOUS
  <2> QED BY <2>1, <2>2 DEF OthersLeft
<1> QED BY <1>3, <1>5, <1>9, <1>10, <1>11, Assemble

\* The run exits: it has stopped its sessions and joined its threads.
LEMMA ExitInv ==
    ASSUME SInv, NEW p \in Procs, Exit(p)
    PROVE  SInv'
<1>1. /\ SensorTypeOK /\ ThreadOK(p) /\ SessOK(p) /\ proc[p].failed \in BOOLEAN
      /\ pipe \in [Procs -> PipeRecs] /\ pipe[p] \in PipeRecs
  BY DEF SInv, SensorTypeOK, RunOK, ProcRecs
<1>2. /\ proc[p].pc = "exit" /\ proc' = [proc EXCEPT ![p] = Fresh("ended")] /\ lock' = Released(p)
      /\ early' = [early EXCEPT ![p] = {}] /\ pipe' = [pipe EXCEPT ![p].got = {}]
      /\ UNCHANGED <<sessions, trace, world>>
  BY DEF Exit, At
<1>3. /\ pipe' \in [Procs -> PipeRecs] /\ pipe'[p].thread = pipe[p].thread /\ pipe'[p].queue = pipe[p].queue
      /\ \A q \in Procs \ {p} : pipe'[q] = pipe[q]
  BY <1>1, <1>2 DEF PipeRecs
<1>4. \A n \in AllNames : sessions[n].owner # p
  BY <1>1, <1>2 DEF SessOK, MayOwn
<1>5. \A n \in Names : trace[p][n].thread # "running"
  BY <1>1, <1>2 DEF ThreadOK, Quiet
<1>6. pipe[p].thread # "running" /\ (pipe[p].thread = "ended" => pipe[p].queue = {})
  BY <1>1, <1>2 DEF ThreadOK, Working
<1>7. "ended" \in Over
  BY DEF Over
<1>8. /\ trace' \in [Procs -> [Names -> TraceRecs]]
      /\ world' \in [events : Nat, crashes : Int, outside : Int, raced : BOOLEAN, torn : SUBSET Procs, foreign : BOOLEAN]
  BY <1>1, <1>2 DEF SensorTypeOK
<1> QED BY <1>2, <1>3, <1>4, <1>5, <1>6, <1>7, <1>8, OverInv

\* The process dies. At the console it has no handler, and so no session yet.
LEMMA DiesInv ==
    ASSUME SInv, NEW p \in Procs, Crash(p) \/ (Ctrl(p) /\ ~proc[p].handler)
    PROVE  SInv'
<1>1. /\ SensorTypeOK /\ SessOK(p) /\ proc[p].failed \in BOOLEAN
      /\ trace \in [Procs -> [Names -> TraceRecs]] /\ pipe \in [Procs -> PipeRecs]
      /\ world \in [events : Nat, crashes : Int, outside : Int, raced : BOOLEAN, torn : SUBSET Procs, foreign : BOOLEAN]
  BY DEF SInv, SensorTypeOK, RunOK, ProcRecs
<1>2. PICK pc \in Over : /\ pc # "ended" /\ Dies(p, pc) /\ sessions' = sessions
                         /\ pc = "crashed" \/ (~proc[p].handler /\ Lives(p) /\ world' = world)
                         /\ world' = world \/ world' = [world EXCEPT !.crashes = @ + 1]
  <2>1. CASE Crash(p)
    <3>1. "crashed" \in Over
      BY DEF Over
    <3> QED BY <2>1, <3>1 DEF Crash
  <2>2. CASE Ctrl(p) /\ ~proc[p].handler
    <3>1. "killed" \in Over
      BY DEF Over
    <3> QED BY <2>2, <3>1 DEF Ctrl
  <2> QED BY <2>1, <2>2
<1>3. /\ proc' = [proc EXCEPT ![p] = Fresh(pc)] /\ lock' = Released(p) /\ early' = [early EXCEPT ![p] = {}]
      /\ trace' = [trace EXCEPT ![p] = NoTrace] /\ pipe' = [pipe EXCEPT ![p] = NoPipe]
  BY <1>2 DEF Dies
<1>4. /\ NoTrace \in [Names -> TraceRecs]
      /\ \A n \in Names : NoTrace[n].thread = "none" /\ NoTrace[n].held = {}
  <2>1. PICK t : t = [thread |-> "none", closed |-> FALSE, of |-> "none", held |-> {}]
    OBVIOUS
  <2>2. t \in TraceRecs /\ t.thread = "none" /\ t.held = {}
    BY <2>1 DEF TraceRecs, Owners
  <2>3. NoTrace = [n \in Names |-> t]
    BY <2>1 DEF NoTrace
  <2> QED BY <2>2, <2>3
<1>5. NoPipe \in PipeRecs /\ NoPipe.thread = "none"
  BY DEF NoPipe, PipeRecs
<1>6. /\ trace' \in [Procs -> [Names -> TraceRecs]] /\ trace'[p] = NoTrace
      /\ pipe' \in [Procs -> PipeRecs] /\ pipe'[p] = NoPipe
      /\ \A q \in Procs \ {p} : trace'[q] = trace[q] /\ pipe'[q] = pipe[q]
  BY <1>1, <1>3, <1>4, <1>5
<1>7. \A n \in Names : trace'[p][n].thread # "running" /\ trace'[p][n].held \subseteq trace[p][n].held
  BY <1>4, <1>6
<1>8. /\ world' \in [events : Nat, crashes : Int, outside : Int, raced : BOOLEAN, torn : SUBSET Procs, foreign : BOOLEAN]
      /\ world'.events = world.events /\ world'.raced = world.raced /\ world'.torn = world.torn
      /\ world'.foreign = world.foreign
  BY <1>1, <1>2
<1>9. pc = "crashed" \/ \A n \in AllNames : sessions[n].owner # p
  BY <1>1, <1>2 DEF SessOK, MayOwn, Lives, Locking, Over
<1>10. pipe'[p].thread # "running" /\ pipe'[p].thread # "ended"
  BY <1>5, <1>6
<1> QED BY <1>2, <1>3, <1>6, <1>7, <1>8, <1>9, <1>10, OverInv

-----------------------------------------------------------------------------
(* The invariant                                                             *)

\* At first nobody has anything.
LEMMA InitSInv == SensorInit => SInv
<1> SUFFICES ASSUME SensorInit PROVE SInv
  OBVIOUS
<1>1. Fresh("create") \in ProcRecs /\ Fresh("create").pc = "create" /\ ~Fresh("create").failed
  <2>1. [n \in Names |-> 0] \in [Names -> Int]
    OBVIOUS
  <2>2. "create" \in Pcs
    BY DEF Pcs, Locking
  <2> QED BY <2>1, <2>2 DEF Fresh, ProcRecs
<1>2. proc \in [Procs -> ProcRecs] /\ \A p \in Procs : proc[p].pc = "create" /\ ~proc[p].failed
  BY <1>1 DEF SensorInit
<1>3. /\ trace \in [Procs -> [Names -> TraceRecs]]
      /\ \A p \in Procs, n \in Names : trace[p][n].thread = "none" /\ trace[p][n].held = {} /\ ~trace[p][n].closed
  <2>1. PICK t : t = [thread |-> "none", closed |-> FALSE, of |-> "none", held |-> {}]
    OBVIOUS
  <2>2. t \in TraceRecs /\ t.thread = "none" /\ t.held = {} /\ ~t.closed
    BY <2>1 DEF TraceRecs, Owners
  <2>3. NoTrace = [n \in Names |-> t]
    BY <2>1 DEF NoTrace
  <2>4. NoTrace \in [Names -> TraceRecs] /\ \A n \in Names : NoTrace[n] = t
    BY <2>2, <2>3
  <2>5. trace = [p \in Procs |-> NoTrace]
    BY DEF SensorInit
  <2> QED BY <2>2, <2>4, <2>5
<1>4. pipe \in [Procs -> PipeRecs] /\ \A p \in Procs : pipe[p].thread = "none" /\ pipe[p].queue = {}
  <2>1. NoPipe \in PipeRecs /\ NoPipe.thread = "none" /\ NoPipe.queue = {}
    BY DEF NoPipe, PipeRecs
  <2> QED BY <2>1 DEF SensorInit
<1>5. /\ sessions \in [AllNames -> [owner : Owners, id : Int]]
      /\ \A n \in AllNames : sessions[n].owner \notin Procs /\ sessions[n].id = 0
  BY SensorAssumption DEF SensorInit, Free, Owners, AllNames
<1>6. early \in [Procs -> SUBSET Nat] /\ \A p \in Procs : early[p] = {}
  BY DEF SensorInit
<1>7. /\ world \in [events : Nat, crashes : Int, outside : Int, raced : BOOLEAN, torn : SUBSET Procs, foreign : BOOLEAN]
      /\ world.torn = {} /\ ~world.foreign
  BY DEF SensorInit
<1>8. /\ lock \in [gen : Int, open : SUBSET Procs, mutex : SUBSET (Procs \X Int)]
      /\ lock.mutex = {} /\ lock.open = {}
  BY DEF SensorInit
<1>9. SensorTypeOK
  BY <1>2, <1>3, <1>4, <1>5, <1>6, <1>7, <1>8 DEF SensorTypeOK
<1>10. LockInv
  BY <1>2, <1>8 DEF LockInv, Holds, Locking
<1>11. IdsApart /\ Untouched
  BY <1>5, <1>7 DEF IdsApart, Untouched
<1>12. ASSUME NEW p \in Procs PROVE RunOK(p)
  <2>1. SessOK(p)
    BY <1>2, <1>5 DEF SessOK, ControlPc, Locking
  <2>2. ThreadOK(p)
    BY <1>2, <1>3, <1>4 DEF ThreadOK
  <2>3. EventOK(p)
    BY <1>2, <1>3, <1>6 DEF EventOK, Opened, Working
  <2> QED BY <2>1, <2>2, <2>3 DEF RunOK
<1> QED BY <1>9, <1>10, <1>11, <1>12 DEF SInv

\* Every step keeps the invariant.
LEMMA NextSInv == SInv /\ [SensorNext]_sensorVars => SInv'
<1> SUFFICES ASSUME SInv, [SensorNext]_sensorVars PROVE SInv'
  OBVIOUS
<1>1. CASE UNCHANGED sensorVars
  BY <1>1 DEF sensorVars, SInv, SensorTypeOK, LockInv, Holds, IdsApart, Untouched, RunOK, SessOK, ControlPc, IsCurrent,
              ThreadOK, EventOK, OnTheWay
<1>2. ASSUME NEW p \in Procs, Step(p) PROVE SInv'
  <2>1. CASE CreateNamespace(p) \/ OpenNamespace(p) \/ TakeMutex(p)
    BY <2>1, CreateInv, OpenInv, TakeInv
  <2>2. CASE Handler(p) \/ StopAsked(p) \/ JoinConsumers(p) \/ JoinPipeline(p)
    BY <2>2, PlainSteps
  <2>3. CASE SpawnPipeline(p) \/ CloseTrace(p) \/ Exit(p)
    BY <2>3, SpawnInv, CloseInv, ExitInv
  <2>4. ASSUME NEW ok \in BOOLEAN, Prepare(p, ok) PROVE SInv'
    <3>1. CASE ok
      <4>1. Prepare(p, TRUE)
        BY <2>4, <3>1 DEF Prepare
      <4> QED BY <4>1, PlainSteps
    <3>2. CASE ~ok
      BY <2>4, <3>2, RefusedInv DEF Prepare, At
    <3> QED BY <3>1, <3>2
  <2>5. ASSUME NEW n \in Names, StopLeftover(p, n) \/ CheckCurrent(p, n) \/ Control(p, n) PROVE SInv'
    BY <2>5, LeftoverInv, PlainSteps, ControlInv
  <2>6. ASSUME NEW n \in Names, NEW ok \in BOOLEAN, StartTrace(p, n, ok) \/ Consume(p, n, ok) PROVE SInv'
    BY <2>6, StartInv, ConsumeInv
  <2>7. ASSUME NEW late \in BOOLEAN, WaitFinished(p, late) PROVE SInv'
    BY <2>7, WaitInv
  <2> QED BY <1>2, <2>1, <2>2, <2>3, <2>4, <2>5, <2>6, <2>7 DEF Step
<1>3. ASSUME NEW p \in Procs, Threads(p) PROVE SInv'
  <2>1. ASSUME NEW n \in Names, Deliver(p, n) \/ ProcessTraceReturns(p, n) PROVE SInv'
    BY <2>1, DeliverInv, ReturnsInv
  <2>2. CASE PipelineTakes(p) \/ PipelineEnds(p)
    BY <2>2, PipelineInv
  <2> QED BY <1>3, <2>1, <2>2 DEF Threads
<1>4. ASSUME NEW p \in Procs, Crash(p) \/ Ctrl(p) PROVE SInv'
  BY <1>4, DiesInv, AskedInv
<1>5. ASSUME NEW n \in Names, Log(n) PROVE SInv'
  BY <1>5, LogInv
<1>6. ASSUME NEW n \in DOMAIN sessions, OutsiderStops(n) \/ OutsiderStarts(n) PROVE SInv'
  <2>1. n \in AllNames
    BY DEF SInv, SensorTypeOK
  <2> QED BY <1>6, <2>1, OutsiderInv
<1> QED BY <1>1, <1>2, <1>3, <1>4, <1>5, <1>6 DEF SensorNext

-----------------------------------------------------------------------------
(* Theorems                                                                  *)

\* Two runs never hold the lock at once, the start of one never stops the
\* sessions of another that lives, and a stop by an old LoggerId hits no other
\* session unless it was raced (instance.rs, Session::start, Session::control).
THEOREM SessionsAlwaysOwned == SensorSpec => []SessionsOwned
<1>1. SInv => SessionsOwned
  <2> SUFFICES ASSUME SInv PROVE SessionsOwned
    OBVIOUS
  <2>1. ForeignUntouched /\ world.torn = {}
    BY DEF SInv, Untouched, ForeignUntouched
  <2>2. ASSUME NEW p \in Procs, NEW q \in Procs, p # q, NEW g, NEW h,
               <<p, g>> \in lock.mutex, <<q, h>> \in lock.mutex
        PROVE  FALSE
    <3>1. <<p, g>>[1] = <<q, h>>[1]
      BY <2>2 DEF SInv, LockInv
    <3> QED BY <2>2, <3>1
  <2> QED BY <2>1, <2>2 DEF SessionsOwned, OneInstance
<1> QED BY <1>1, InitSInv, NextSInv, PTL DEF SensorSpec

\* A run that ended by itself or at the console leaves no session and no thread
\* behind, whatever failed on its way (run, agent::start, finish, drop).
THEOREM NothingEverLeft == SensorSpec => []NothingLeft
<1>1. SInv => NothingLeft
  <2> SUFFICES ASSUME SInv, NEW p \in Procs, proc[p].pc \in {"ended", "killed"}
               PROVE  /\ \A n \in Names : sessions[n].owner # p
                      /\ \A n \in Names : trace[p][n].thread # "running"
                      /\ pipe[p].thread # "running"
    BY DEF NothingLeft
  <2>1. SessOK(p) /\ ThreadOK(p) /\ proc[p].failed \in BOOLEAN
    BY DEF SInv, RunOK, SensorTypeOK, ProcRecs
  <2>2. \A n \in Names : sessions[n].owner # p
    BY <2>1, Places DEF SessOK, MayOwn
  <2>3. /\ \A n \in Names : trace[p][n].thread # "running"
        /\ pipe[p].thread # "running"
    BY <2>1 DEF ThreadOK, Quiet, Over, Working
  <2> QED BY <2>2, <2>3
<1> QED BY <1>1, InitSInv, NextSInv, PTL DEF SensorSpec

\* Every event logged before the stop has reached the pipeline when the run
\* exits, unless a consumer did not finish in ten seconds (stop, finish).
THEOREM NoEventEverLost == SensorSpec => []NoEventLost
<1>1. SInv => NoEventLost
  <2> SUFFICES ASSUME SInv, NEW p \in Procs, proc[p].pc = "exit", ~proc[p].failed, ~proc[p].late
               PROVE  early[p] \subseteq pipe[p].got
    BY DEF NoEventLost, At
  <2>1. ThreadOK(p) /\ EventOK(p)
    BY DEF SInv, RunOK
  <2>2. pipe[p].queue = {}
    BY <2>1 DEF ThreadOK
  <2>3. \A n \in {"A", "B"} : trace[p][n].held \cap early[p] = {}
    BY <2>1, Places DEF EventOK
  <2>4. early[p] \subseteq OnTheWay(p)
    BY <2>1 DEF EventOK
  <2> QED BY <2>2, <2>3, <2>4 DEF OnTheWay
<1> QED BY <1>1, InitSInv, NextSInv, PTL DEF SensorSpec

-----------------------------------------------------------------------------
(* The token buckets: the inductive invariant                                *)

Full == 1000 * Rate
Buckets == [tokens : 0..Full, last : Nat]
Moments == Seq(Nat)     \* the times of events
AdmissionTypeOK ==
    /\ DOMAIN buckets \subseteq Pids /\ buckets \in [DOMAIN buckets -> Buckets]
    /\ clock \in Nat
    /\ passed \in [Pids -> Moments]

\* The cost of n events and of some millitokens, in Frequency-ths, and what a
\* full bucket and d ticks give, or those from x to y.
Worth(tokens) == Frequency * tokens
Filled(d) == Full * d
Count(i, j) == j - i + 1
Cost(n, tokens) == 1000 * Frequency * n + Worth(tokens)
Grown(x, y) == Filled(y - x)
Gain(x, y) == Worth(Full) + Grown(x, y)

\* RateKept of one process, by the time of an event k among those from i to j.
KeptTo(s, i, j) == \E k \in i..j : Cost(Count(i, j), 0) <= Gain(s[i], s[k])
Kept(s) == \A i, j \in 1..Len(s) : i <= j => KeptTo(s, i, j)

\* A bucket's tokens after the events s: what they and the tokens cost was in
\* the bucket at each of them or came since. Where there is a token, what came
\* since had come at one of these events: a refused one leaves none.
Ahead(s, b) == \A k \in 1..Len(s) : s[k] <= b.last
Paid(s, b) == \A i \in 1..Len(s) : Cost(Count(i, Len(s)), b.tokens) <= Gain(s[i], b.last)
PaidBy(s, b, i) == \E k \in i..Len(s) : Cost(Count(i, Len(s)), b.tokens) <= Gain(s[i], s[k])
PaidAtEvents(s, b) == b.tokens >= 1000 => \A i \in 1..Len(s) : PaidBy(s, b, i)
BucketOK(s, b) == Ahead(s, b) /\ Paid(s, b) /\ PaidAtEvents(s, b)

\* The events are d ticks old at ts. A process without a bucket passed none for
\* so long that it would be full.
Since(s, d, ts) == \A k \in 1..Len(s) : s[k] + d <= ts
Long(s) == Since(s, Idle + 1, clock)

ProcessOK(p) ==
    /\ Kept(passed[p])
    /\ IF p \in DOMAIN buckets THEN BucketOK(passed[p], buckets[p]) ELSE Long(passed[p])
AInv == AdmissionTypeOK /\ \A p \in Pids : ProcessOK(p)

-----------------------------------------------------------------------------
(* Arithmetic                                                                *)

\* The constants are numbers.
LEMMA Numbers ==
    /\ Rate \in Nat /\ Frequency \in Nat /\ Frequency > 0 /\ Idle \in Nat /\ Jitter \in Nat
    /\ Idle >= Frequency + Jitter /\ Full \in Nat /\ BucketCap \in Nat
<1>1. Rate \in Nat /\ Frequency \in Nat /\ Idle \in Nat /\ Jitter \in Nat /\ BucketCap \in Nat
  BY AdmissionAssumption
<1>2. Full \in Nat
  BY <1>1 DEF Full
<1> QED BY <1>1, <1>2, AdmissionAssumption

\* A product of numbers is one.
LEMMA ProductNat == ASSUME NEW x \in Nat, NEW y \in Nat PROVE x * y \in Nat
OBVIOUS

\* Products keep an order.
LEMMA ProductMono ==
    ASSUME NEW c \in Nat, NEW x \in Int, NEW y \in Int, x <= y
    PROVE  c * x <= c * y /\ c * x \in Int /\ c * y \in Int
OBVIOUS

\* Products of sums.
LEMMA ProductSum ==
    ASSUME NEW c \in Int, NEW x \in Int, NEW y \in Int
    PROVE  c * (x + y) = c * x + c * y /\ c * (x - y) = c * x - c * y
OBVIOUS

\* A quotient times its divisor is not more than what was divided.
LEMMA QuotientLow ==
    ASSUME NEW x \in Nat, NEW d \in Nat, d > 0
    PROVE  x \div d \in Nat /\ d * (x \div d) <= x
OBVIOUS

\* What tokens and ticks are worth.
LEMMA WorthInt ==
    ASSUME NEW x \in Int
    PROVE  Worth(x) \in Int /\ Filled(x) \in Int
BY Numbers DEF Worth, Filled

\* What sums are worth.
LEMMA WorthSum ==
    ASSUME NEW x \in Int, NEW y \in Int
    PROVE  Worth(x + y) = Worth(x) + Worth(y) /\ Filled(x + y) = Filled(x) + Filled(y)
BY Numbers, ProductSum DEF Worth, Filled

\* More is worth more.
LEMMA WorthMono ==
    ASSUME NEW x \in Int, NEW y \in Int, x <= y
    PROVE  Worth(x) <= Worth(y) /\ Filled(x) <= Filled(y)
BY Numbers, ProductMono DEF Worth, Filled

\* What nothing is worth, and a token.
LEMMA WorthUnits == Worth(0) = 0 /\ Filled(0) = 0 /\ Worth(1000) = 1000 * Frequency
BY Numbers DEF Worth, Filled

\* The times of events are numbers.
LEMMA MomentFacts ==
    ASSUME NEW s \in Moments
    PROVE  Len(s) \in Nat /\ \A k \in 1..Len(s) : s[k] \in Nat
BY DEF Moments

\* One event more.
LEMMA AppendFacts ==
    ASSUME NEW s \in Moments, NEW ts \in Nat, NEW t, t = Append(s, ts)
    PROVE  /\ t \in Moments /\ Len(t) = Len(s) + 1 /\ t[Len(s) + 1] = ts
           /\ \A k \in 1..Len(s) : t[k] = s[k]
BY DEF Moments

\* A cost is a number.
LEMMA CostInt ==
    ASSUME NEW n \in Int, NEW t \in Int
    PROVE  Cost(n, t) \in Int
<1>1. Worth(t) \in Int /\ Frequency \in Int
  BY Numbers, WorthInt
<1>2. 1000 * Frequency * n \in Int
  BY <1>1
<1> QED BY <1>1, <1>2 DEF Cost

\* An event takes a token.
LEMMA CostStep ==
    ASSUME NEW n \in Int, NEW t \in Int, NEW u \in Int, t = u + 1000
    PROVE  Cost(n + 1, u) = Cost(n, t) /\ Cost(1, u) = Worth(t)
<1>1. PICK a \in Int : a = 1000 * Frequency
  BY Numbers
<1>2. PICK x \in Int, y \in Int : x = Worth(t) /\ y = Worth(u)
  BY WorthInt
<1>3. x = y + a
  <2>1. Worth(u + 1000) = Worth(u) + Worth(1000) /\ Worth(1000) = 1000 * Frequency
    BY WorthSum, WorthUnits
  <2> QED BY <1>1, <1>2, <2>1
<1>4. PICK p \in Int : p = a * n
  BY <1>1
<1>5. a * (n + 1) = p + a
  <2>1. a * (n + 1) = a * n + a * 1
    BY <1>1, ProductSum
  <2> QED BY <1>1, <1>4, <2>1
<1>6. Cost(n, t) = p + x
  BY <1>1, <1>2, <1>4 DEF Cost
<1>7. Cost(n + 1, u) = (p + a) + y
  BY <1>1, <1>2, <1>5 DEF Cost
<1>8. Cost(1, u) = a + y
  BY <1>1, <1>2 DEF Cost
<1>9. (p + a) + y = p + x /\ a + y = x
  BY <1>3
<1> QED BY <1>2, <1>6, <1>7, <1>8, <1>9

\* What tokens add to a cost.
LEMMA CostTokens ==
    ASSUME NEW n \in Int, NEW t \in Int
    PROVE  /\ Cost(n, 0) \in Int /\ Worth(t) \in Int /\ Cost(n, t) \in Int
           /\ Cost(n, t) = Cost(n, 0) + Worth(t)
<1>1. PICK x \in Int, z \in Int : x = Worth(t) /\ z = Worth(0) /\ z = 0
  BY WorthInt, WorthUnits
<1>2. PICK p \in Int : p = 1000 * Frequency * n
  BY Numbers
<1>3. Cost(n, t) = p + x /\ Cost(n, 0) = p + z
  BY <1>1, <1>2 DEF Cost
<1>4. p + z = p
  BY <1>1
<1> QED BY <1>1, <1>2, <1>3, <1>4

\* The events from i to j, and one more.
LEMMA CountFacts ==
    ASSUME NEW i \in Int, NEW j \in Int
    PROVE  Count(i, j) \in Int /\ Count(i, j + 1) = Count(i, j) + 1 /\ Count(i, i) = 1
BY DEF Count

\* A gain is a number, and at once a full bucket is all.
LEMMA GainInt ==
    ASSUME NEW x \in Int, NEW y \in Int
    PROVE  Gain(x, y) \in Int /\ Gain(x, x) = Worth(Full) /\ Worth(Full) \in Int
<1>1. PICK f \in Int : f = Worth(Full)
  BY Numbers, WorthInt
<1>2. PICK d \in Int, e \in Int : d = y - x /\ e = Filled(d)
  <2>1. y - x \in Int
    OBVIOUS
  <2> QED BY <2>1, WorthInt
<1>3. Gain(x, y) = f + e
  BY <1>1, <1>2 DEF Gain, Grown
<1>4. Gain(x, x) = f
  <2>1. x - x = 0
    OBVIOUS
  <2>2. Gain(x, x) = f + 0
    BY <1>1, <2>1, WorthUnits DEF Gain, Grown
  <2> QED BY <2>2
<1> QED BY <1>1, <1>2, <1>3, <1>4

\* Gains add up.
LEMMA GainSum ==
    ASSUME NEW x \in Int, NEW y \in Int, NEW z \in Int
    PROVE  Gain(x, z) = Gain(x, y) + Grown(y, z) /\ Grown(y, z) \in Int
<1>1. PICK f \in Int : f = Worth(Full)
  BY Numbers, WorthInt
<1>2. PICK d \in Int, e \in Int : d = y - x /\ e = z - y /\ d + e = z - x
  <2>1. y - x \in Int /\ z - y \in Int /\ (y - x) + (z - y) = z - x
    OBVIOUS
  <2> QED BY <2>1
<1>3. PICK g \in Int, h \in Int : g = Filled(d) /\ h = Filled(e)
  BY WorthInt
<1>4. Filled(d + e) = g + h
  BY <1>3, WorthSum
<1>5. Grown(x, y) = g /\ Grown(y, z) = h /\ Grown(x, z) = g + h
  BY <1>2, <1>3, <1>4 DEF Grown
<1>7. Gain(x, y) = f + g /\ Gain(x, z) = f + (g + h)
  BY <1>1, <1>5 DEF Gain
<1>6. f + (g + h) = (f + g) + h
  OBVIOUS
<1> QED BY <1>3, <1>5, <1>6, <1>7

\* More ticks give more.
LEMMA GainMono ==
    ASSUME NEW x \in Int, NEW y \in Int, NEW z \in Int, y <= z
    PROVE  Gain(x, y) <= Gain(x, z)
<1>1. PICK f \in Int : f = Worth(Full)
  BY Numbers, WorthInt
<1>2. PICK d \in Int, e \in Int : d = y - x /\ e = z - x /\ d <= e
  <2>1. y - x \in Int /\ z - x \in Int /\ y - x <= z - x
    OBVIOUS
  <2> QED BY <2>1
<1>3. PICK g \in Int, h \in Int : g = Filled(d) /\ h = Filled(e) /\ g <= h
  <2>1. Filled(d) <= Filled(e) /\ Filled(d) \in Int /\ Filled(e) \in Int
    BY <1>2, WorthInt, WorthMono
  <2> QED BY <2>1
<1>4. f + g <= f + h
  BY <1>3
<1> QED BY <1>1, <1>2, <1>3, <1>4 DEF Gain, Grown

\* A full bucket is the least gain.
LEMMA GainLeast ==
    ASSUME NEW x \in Int, NEW y \in Int, x <= y
    PROVE  Worth(Full) <= Gain(x, y)
<1>1. Gain(x, x) <= Gain(x, y)
  BY GainMono
<1> QED BY <1>1, GainInt

\* Three numbers in order.
LEMMA LeqChain ==
    ASSUME NEW x \in Int, NEW y \in Int, NEW z \in Int, x <= y, y <= z
    PROVE  x <= z
OBVIOUS

-----------------------------------------------------------------------------
(* One bucket                                                                *)

\* The lesser of two numbers, as in Refilled.
LEMMA MinPair ==
    ASSUME NEW x \in Int, NEW y \in Int
    PROVE  Min({x, y}) = IF x <= y THEN x ELSE y
<1>1. CASE x <= y
  <2>1. x \in {x, y} /\ \A z \in {x, y} : x <= z
    BY <1>1
  <2>2. \A w \in {x, y} : (\A z \in {x, y} : w <= z) => w = x
    BY <1>1
  <2> QED BY <1>1, <2>1, <2>2 DEF Min
<1>2. CASE y < x
  <2>1. y \in {x, y} /\ \A z \in {x, y} : y <= z
    BY <1>2
  <2>2. \A w \in {x, y} : (\A z \in {x, y} : w <= z) => w = y
    BY <1>2
  <2> QED BY <1>2, <2>1, <2>2 DEF Min
<1> QED BY <1>1, <1>2

\* The greater of two numbers.
LEMMA MaxPair ==
    ASSUME NEW x \in Int, NEW y \in Int
    PROVE  Max({x, y}) = IF x >= y THEN x ELSE y
<1>1. CASE x >= y
  <2>1. x \in {x, y} /\ \A z \in {x, y} : x >= z
    BY <1>1
  <2>2. \A w \in {x, y} : (\A z \in {x, y} : w >= z) => w = x
    BY <1>1
  <2> QED BY <1>1, <2>1, <2>2 DEF Max
<1>2. CASE y > x
  <2>1. y \in {x, y} /\ \A z \in {x, y} : y >= z
    BY <1>2
  <2>2. \A w \in {x, y} : (\A z \in {x, y} : w >= z) => w = y
    BY <1>2
  <2> QED BY <1>2, <2>1, <2>2 DEF Max
<1> QED BY <1>1, <1>2

\* r millitokens and the time last, of a bucket at the time ts of an event.
Refill(b, ts, r, last) ==
    /\ r \in 0..Full /\ last \in Nat /\ last >= ts /\ last >= b.last
    /\ Worth(r) <= Worth(b.tokens) + Grown(b.last, last)
    /\ Worth(r) <= Worth(Full)
    /\ ts <= b.last => r = b.tokens /\ last = b.last
    /\ ts >= b.last => last = ts

\* Refilled, by the name of a full bucket.
LEMMA RefilledIs ==
    ASSUME NEW b, NEW ts
    PROVE  Refilled(b, ts) = Min({b.tokens + (Max({ts - b.last, 0}) * 1000 * Rate) \div Frequency, Full})
BY Zenon DEF Refilled, Full

\* A refill fills up to what a bucket holds, by no more than the ticks give.
LEMMA RefillFacts ==
    ASSUME NEW b \in Buckets, NEW ts \in Nat
    PROVE  Refill(b, ts, Refilled(b, ts), Max({b.last, ts}))
<1>1. Full \in Nat /\ Frequency \in Nat /\ Frequency > 0 /\ Rate \in Nat
  BY Numbers
<1>2. PICK a \in 0..Full, l \in Nat : a = b.tokens /\ l = b.last
  BY DEF Buckets
<1>3. PICK last \in Nat : last = Max({b.last, ts}) /\ last = IF l >= ts THEN l ELSE ts
  BY <1>2, MaxPair
<1>6. PICK d \in Nat : d = Max({ts - l, 0}) /\ d = last - l
  <2>1. PICK z \in Int : z = ts - l
    OBVIOUS
  <2>2. Max({z, 0}) = IF z >= 0 THEN z ELSE 0
    BY MaxPair
  <2>3. (IF z >= 0 THEN z ELSE 0) = last - l /\ last - l \in Nat
    BY <1>3, <2>1
  <2> QED BY <2>1, <2>2, <2>3
<1>7. PICK g \in Nat : g = Filled(d) /\ d * 1000 * Rate = g
  <2>1. PICK g \in Nat : g = Full * d
    BY <1>1, <1>6, ProductNat
  <2>2. d * 1000 * Rate = g
    BY <1>1, <1>6, <2>1 DEF Full
  <2> QED BY <2>1, <2>2 DEF Filled
<1>9. PICK q \in Nat : q = g \div Frequency /\ Worth(q) <= g
  <2>1. g \div Frequency \in Nat /\ Frequency * (g \div Frequency) <= g
    BY <1>1, <1>7, QuotientLow
  <2>2. Worth(g \div Frequency) <= g
    BY <2>1, Zenon DEF Worth
  <2> QED BY <2>1, <2>2, Zenon
<1>10. PICK r : r = Refilled(b, ts) /\ r = Min({a + q, Full})
  <2>1. Refilled(b, ts) = Min({a + (d * 1000 * Rate) \div Frequency, Full})
    BY <1>2, <1>6, RefilledIs
  <2>2. (d * 1000 * Rate) \div Frequency = q
    BY <1>7, <1>9
  <2>3. Refilled(b, ts) = Min({a + q, Full})
    BY <2>1, <2>2, Zenon
  <2> QED BY <2>3, Zenon
<1>11. r \in {a + q, Full} /\ r <= a + q /\ r <= Full
  <2>1. PICK z \in Int, f \in Int : z = a + q /\ f = Full
    BY <1>1, <1>2, <1>9
  <2>2. Min({z, f}) = IF z <= f THEN z ELSE f
    BY MinPair
  <2>3. r = IF z <= f THEN z ELSE f
    BY <1>10, <2>1, <2>2
  <2> QED BY <2>1, <2>3
<1>12. r \in 0..Full
  BY <1>1, <1>2, <1>9, <1>11
<1>13. Worth(r) <= Worth(a) + g
  <2>1. PICK z \in Nat : z = a + q /\ r <= z
    BY <1>1, <1>2, <1>9, <1>11
  <2>2. Worth(r) <= Worth(z) /\ Worth(r) \in Int
    BY <1>12, <2>1, WorthInt, WorthMono
  <2>3. Worth(z) = Worth(a) + Worth(q) /\ Worth(a) \in Int /\ Worth(q) \in Int
    <3>1. a \in Int /\ q \in Int
      BY <1>1, <1>2, <1>9
    <3>2. Worth(a + q) = Worth(a) + Worth(q)
      BY <3>1, WorthSum
    <3>3. Worth(a) \in Int /\ Worth(q) \in Int
      BY <3>1, WorthInt
    <3> QED BY <2>1, <3>2, <3>3
  <2> QED BY <1>7, <1>9, <2>2, <2>3
<1>14. Worth(r) <= Worth(Full)
  BY <1>1, <1>11, <1>12, WorthMono
<1>15. ts <= l => r = a
  <2> SUFFICES ASSUME ts <= l PROVE r = a
    OBVIOUS
  <2>1. d = 0
    <3>1. last = l
      BY <1>3
    <3> QED BY <1>6, <3>1
  <2>2. g = 0
    BY <1>7, <2>1, WorthUnits
  <2>3. q = 0
    BY <1>1, <1>9, <2>2
  <2> QED BY <1>1, <1>2, <1>11, <2>3
<1>16. Worth(r) <= Worth(a) + Grown(l, last)
  BY <1>6, <1>7, <1>13 DEF Grown
<1>17. last >= ts /\ last >= l /\ (ts <= l => last = l) /\ (ts >= l => last = ts)
  BY <1>3
<1>18. Refill(b, ts, r, last)
  BY <1>2, <1>12, <1>14, <1>15, <1>16, <1>17 DEF Refill
<1> QED BY <1>3, <1>10, <1>18

\* What is added up in RefillPaid.
LEMMA AddUp ==
    ASSUME NEW z \in Int, NEW u \in Int, NEW v \in Int, NEW g \in Int, NEW e \in Int,
           u <= v + e, z + v <= g
    PROVE  z + u <= g + e
OBVIOUS

\* What the events and tokens cost after a refill is covered by its ticks.
LEMMA RefillPaid ==
    ASSUME NEW s \in Moments, NEW b \in Buckets, NEW ts \in Nat, Paid(s, b),
           NEW last \in Nat, NEW r \in Nat, Refill(b, ts, r, last), NEW i \in 1..Len(s)
    PROVE  Cost(Count(i, Len(s)), r) <= Gain(s[i], last)
<1>1. PICK a \in Int, l \in Int, c \in Int, n \in Int :
        a = b.tokens /\ l = b.last /\ c = s[i] /\ n = Count(i, Len(s))
  <2>1. b.tokens \in Int /\ b.last \in Int
    BY Numbers DEF Buckets
  <2>2. s[i] \in Int /\ Len(s) \in Int /\ i \in Int
    BY MomentFacts
  <2>3. Count(i, Len(s)) \in Int
    BY <2>2, CountFacts
  <2> QED BY <2>1, <2>2, <2>3
<1>2. Worth(r) <= Worth(a) + Grown(l, last)
  BY <1>1 DEF Refill
<1>3. Cost(n, a) <= Gain(c, l)
  BY <1>1 DEF Paid
<1>4. r \in Int /\ last \in Int
  OBVIOUS
<1>5. PICK z \in Int, u \in Int, v \in Int :
        u = Worth(r) /\ v = Worth(a) /\ Cost(n, r) = z + u /\ Cost(n, a) = z + v
  <2>1. PICK z : z = Cost(n, 0)
    OBVIOUS
  <2>2. z \in Int /\ Worth(r) \in Int /\ Cost(n, r) = z + Worth(r)
    BY <1>1, <1>4, <2>1, CostTokens
  <2>3. Worth(a) \in Int /\ Cost(n, a) = z + Worth(a)
    BY <1>1, <2>1, CostTokens
  <2> QED BY <2>2, <2>3
<1>6. PICK g \in Int, e \in Int : g = Gain(c, l) /\ e = Grown(l, last) /\ Gain(c, last) = g + e
  <2>1. Gain(c, last) = Gain(c, l) + Grown(l, last) /\ Grown(l, last) \in Int
    <3>1. PICK m \in Int : m = last
      BY <1>4
    <3>2. Gain(c, m) = Gain(c, l) + Grown(l, m)
      BY GainSum
    <3>3. Grown(l, m) \in Int
      BY GainSum
    <3> QED BY <3>1, <3>2, <3>3
  <2>2. Gain(c, l) \in Int
    BY <1>1, GainInt
  <2> QED BY <2>1, <2>2
<1>7. u <= v + e /\ z + v <= g
  BY <1>2, <1>3, <1>5, <1>6
<1>8. z + u <= g + e
  BY <1>7, AddUp
<1>9. Cost(n, r) <= Gain(c, last)
  BY <1>5, <1>6, <1>8
<1> QED BY <1>1, <1>9

\* Events and the buckets after them stay in order.
LEMMA AheadLater ==
    ASSUME NEW s \in Moments, NEW b \in Buckets, Ahead(s, b), NEW c \in Buckets, b.last <= c.last
    PROVE  Ahead(s, c)
<1>1. PICK l \in Nat, m \in Nat : l = b.last /\ m = c.last /\ l <= m
  BY DEF Buckets
<1>2. ASSUME NEW k \in 1..Len(s) PROVE s[k] <= m
  <2>1. PICK x \in Nat : x = s[k]
    BY MomentFacts
  <2>2. x <= l
    BY <1>1, <2>1 DEF Ahead
  <2> QED BY <1>1, <2>1, <2>2
<1> QED BY <1>1, <1>2 DEF Ahead

\* An event without a token is dropped, and the bucket has no token left.
LEMMA RefusedOK ==
    ASSUME NEW s \in Moments, NEW b \in Buckets, NEW ts \in Nat, Ahead(s, b), Paid(s, b),
           NEW last \in Nat, NEW r \in Nat, Refill(b, ts, r, last), r < 1000,
           NEW c, c = [tokens |-> r, last |-> last]
    PROVE  c \in Buckets /\ BucketOK(s, c)
<1>1. r \in 0..Full /\ last >= b.last
  BY DEF Refill
<1>2. c \in Buckets /\ c.tokens = r /\ c.last = last
  BY <1>1 DEF Buckets
<1>3. Ahead(s, c)
  <2>1. b.last <= c.last
    BY <1>1, <1>2 DEF Buckets
  <2> QED BY <1>2, <2>1, AheadLater
<1>4. Paid(s, c)
  BY <1>2, RefillPaid DEF Paid
<1>5. PaidAtEvents(s, c)
  <2>1. ~(c.tokens >= 1000)
    BY <1>2
  <2> QED BY <2>1 DEF PaidAtEvents
<1> QED BY <1>2, <1>3, <1>4, <1>5 DEF BucketOK

\* What a late event finds in the bucket; the bucket without a token, the events
\* with one more, and by their lengths.
Answered(s, b, ts) == ts < b.last => PaidAtEvents(s, b)
Taken(c, u, last) == c = [tokens |-> u, last |-> last]
Added(t, s, ts) == t = Append(s, ts)
Spent(r, u) == r = u + 1000
Grew(s, t, n, ts) ==
    /\ n = Len(s) /\ Len(t) = n + 1
    /\ t[n + 1] = ts /\ \A k \in 1..n : t[k] = s[k]

\* The events after one more cost what they and its token did.
LEMMA PaidStep ==
    ASSUME NEW n \in Nat, NEW u \in Nat, NEW r \in Nat, Spent(r, u),
           NEW i \in 1..n
    PROVE  Cost(Count(i, n + 1), u) = Cost(Count(i, n), r)
<1>1. PICK m \in Int : m = Count(i, n)
  BY CountFacts
<1>2. Count(i, n + 1) = m + 1
  BY <1>1, CountFacts
<1>3. Cost(m + 1, u) = Cost(m, r)
  BY CostStep DEF Spent
<1> QED BY <1>1, <1>2, <1>3

\* An event with a token passes: the bucket covers it and those before.
LEMMA PassedPaid ==
    ASSUME NEW s \in Moments, NEW b \in Buckets, NEW ts \in Nat, Paid(s, b),
           NEW last \in Nat, NEW r \in Nat, Refill(b, ts, r, last), NEW u \in Nat, Spent(r, u),
           NEW t \in Moments, NEW n \in Nat, Grew(s, t, n, ts),
           NEW i \in 1..(n + 1)
    PROVE  Cost(Count(i, n + 1), u) <= Gain(t[i], last)
<1>1. CASE i \in 1..n
  <2>1. Cost(Count(i, n), r) <= Gain(s[i], last)
    BY <1>1, RefillPaid DEF Grew
  <2>2. Cost(Count(i, n + 1), u) = Cost(Count(i, n), r)
    BY <1>1, PaidStep
  <2> QED BY <1>1, <2>1, <2>2 DEF Grew
<1>2. CASE i = n + 1
  <2>1. Count(i, n + 1) = 1
    BY <1>2, CountFacts
  <2>2. Cost(1, u) = Worth(r) /\ Cost(1, u) \in Int
    <3>1. PICK m \in Int : m = 1
      OBVIOUS
    <3>2. Cost(m, u) \in Int
      BY CostTokens
    <3>3. Cost(1, u) = Worth(r)
      BY CostStep DEF Spent
    <3> QED BY <3>1, <3>2, <3>3
  <2>3. Worth(r) <= Worth(Full) /\ ts <= last
    BY DEF Refill
  <2>4. Worth(Full) <= Gain(ts, last)
    BY <2>3, GainLeast
  <2>5. Worth(Full) \in Int /\ Gain(ts, last) \in Int
    BY GainInt
  <2>6. Worth(r) <= Gain(ts, last)
    BY <2>2, <2>3, <2>4, <2>5, LeqChain
  <2> QED BY <1>2, <2>1, <2>2, <2>6 DEF Grew
<1> QED BY <1>1, <1>2

\* And what it had taken in had come by one of these events.
LEMMA PassedAtEvents ==
    ASSUME NEW s \in Moments, NEW b \in Buckets, NEW ts \in Nat, Paid(s, b),
           Answered(s, b, ts),
           NEW last \in Nat, NEW r \in Nat, Refill(b, ts, r, last), NEW u \in Nat, Spent(r, u),
           NEW t \in Moments, NEW n \in Nat, Grew(s, t, n, ts),
           NEW i \in 1..(n + 1)
    PROVE  \E k \in i..(n + 1) : Cost(Count(i, n + 1), u) <= Gain(t[i], t[k])
<1>0. PICK l \in Nat : l = b.last
  BY DEF Buckets
<1> USE DEF Answered
<1>1. CASE ts >= l
  <2>1. t[n + 1] = last /\ n + 1 \in i..(n + 1)
    BY <1>0, <1>1 DEF Refill, Grew
  <2>2. Cost(Count(i, n + 1), u) <= Gain(t[i], last)
    BY PassedPaid
  <2> QED BY <2>1, <2>2
<1>2. CASE ts < l /\ i \in 1..n
  <2>1. r = b.tokens /\ r >= 1000
    BY <1>0, <1>2 DEF Refill, Spent
  <2>2. PaidBy(s, b, i)
    <3>1. i \in 1..Len(s) /\ ts < b.last
      BY <1>0, <1>2 DEF Grew
    <3> QED BY <2>1, <3>1 DEF PaidAtEvents
  <2>3. PICK k \in i..n : Cost(Count(i, n), r) <= Gain(s[i], s[k])
    BY <2>1, <2>2 DEF PaidBy, Grew
  <2>4. k \in 1..n /\ k \in i..(n + 1)
    BY <1>2, <2>3
  <2>5. Cost(Count(i, n + 1), u) = Cost(Count(i, n), r)
    BY <1>2, PaidStep
  <2>6. t[k] = s[k] /\ t[i] = s[i]
    BY <1>2, <2>4 DEF Grew
  <2>7. Cost(Count(i, n + 1), u) <= Gain(t[i], t[k])
    BY <2>3, <2>5, <2>6
  <2> QED BY <2>4, <2>7
<1>3. CASE ts < l /\ i = n + 1
  <2>1. last = l /\ r = b.tokens /\ Worth(r) <= Worth(Full)
    BY <1>0, <1>3 DEF Refill
  <2>2. Count(i, n + 1) = 1 /\ i \in i..(n + 1)
    BY <1>3, CountFacts
  <2>3. Cost(1, u) = Worth(r)
    BY CostStep DEF Spent
  <2>4. Gain(ts, ts) = Worth(Full)
    BY GainInt
  <2>5. Cost(Count(i, n + 1), u) <= Gain(t[i], t[i])
    BY <1>3, <2>1, <2>2, <2>3, <2>4 DEF Grew
  <2> QED BY <2>2, <2>5
<1> QED BY <1>0, <1>1, <1>2, <1>3

\* The rate of the events so far and of those up to the new one.
LEMMA PassedKept ==
    ASSUME NEW s \in Moments, Kept(s), NEW u \in Nat,
           NEW ts, NEW t \in Moments, NEW n \in Nat, Grew(s, t, n, ts),
           \A i \in 1..(n + 1) : \E k \in i..(n + 1) : Cost(Count(i, n + 1), u) <= Gain(t[i], t[k])
    PROVE  Kept(t)
<1> SUFFICES ASSUME NEW i \in 1..(n + 1), NEW j \in 1..(n + 1), i <= j PROVE KeptTo(t, i, j)
  BY DEF Kept, Grew
<1>1. CASE j \in 1..n
  <2>1. i \in 1..n
    BY <1>1
  <2>2. KeptTo(s, i, j)
    BY <1>1, <2>1 DEF Kept, Grew
  <2>3. PICK k \in i..j : Cost(Count(i, j), 0) <= Gain(s[i], s[k])
    BY <2>2 DEF KeptTo
  <2>4. k \in 1..n
    BY <1>1, <2>1
  <2>5. t[k] = s[k] /\ t[i] = s[i]
    BY <2>1, <2>4 DEF Grew
  <2> QED BY <2>3, <2>5 DEF KeptTo
<1>2. CASE j = n + 1
  <2>1. PICK k \in i..(n + 1) : Cost(Count(i, n + 1), u) <= Gain(t[i], t[k])
    OBVIOUS
  <2>2. PICK m \in Int : m = Count(i, n + 1)
    <3>1. n + 1 \in Int /\ i \in Int
      OBVIOUS
    <3> QED BY <3>1, CountFacts
  <2>3. PICK x \in Int, y \in Int, w \in Int : x = Cost(m, 0) /\ y = Cost(m, u) /\ w = Worth(u) /\ y = x + w
    <3>1. PICK v \in Int : v = u
      OBVIOUS
    <3>2. Cost(m, 0) \in Int /\ Worth(v) \in Int /\ Cost(m, v) \in Int /\ Cost(m, v) = Cost(m, 0) + Worth(v)
      BY CostTokens
    <3> QED BY <3>1, <3>2
  <2>4. w >= 0
    <3>1. PICK z \in Int : z = 0 /\ z <= u
      OBVIOUS
    <3>2. Worth(z) <= Worth(u)
      BY <3>1, WorthMono
    <3> QED BY <2>3, <3>1, <3>2, WorthUnits
  <2>5. x <= y
    BY <2>3, <2>4
  <2>6. PICK g \in Int : g = Gain(t[i], t[k])
    <3>1. k \in 1..Len(t) /\ i \in 1..Len(t)
      BY <2>1 DEF Grew
    <3>2. t[i] \in Nat
      BY <3>1, MomentFacts
    <3>3. t[k] \in Nat
      BY <3>1, MomentFacts
    <3>4. t[i] \in Int /\ t[k] \in Int
      BY <3>2, <3>3
    <3> QED BY <3>4, GainInt
  <2>7. y <= g
    BY <2>1, <2>2, <2>3, <2>6
  <2>8. x <= g
    BY <2>5, <2>7, LeqChain
  <2>9. Cost(Count(i, j), 0) <= Gain(t[i], t[k])
    BY <1>2, <2>2, <2>3, <2>6, <2>8
  <2> QED BY <1>2, <2>1, <2>9 DEF KeptTo
<1> QED BY <1>1, <1>2

\* An event with a token passes: the bucket covers it, and so do the events.
LEMMA PassedOK ==
    ASSUME NEW s \in Moments, NEW b \in Buckets, NEW ts \in Nat, Kept(s), Ahead(s, b), Paid(s, b),
           Answered(s, b, ts),
           NEW last \in Nat, NEW r \in Nat, Refill(b, ts, r, last), NEW u \in Nat, Spent(r, u),
           NEW t, Added(t, s, ts), NEW c, Taken(c, u, last)
    PROVE  c \in Buckets /\ BucketOK(t, c) /\ Kept(t) /\ t \in Moments
<1>1. PICK n \in Nat : n = Len(s)
  BY MomentFacts
<1>2. t \in Moments /\ Grew(s, t, n, ts)
  <2>1. t \in Moments
    BY AppendFacts DEF Added
  <2>2. Len(t) = n + 1 /\ t[n + 1] = ts /\ \A k \in 1..n : t[k] = s[k]
    BY <1>1, AppendFacts DEF Added
  <2> QED BY <1>1, <2>1, <2>2 DEF Grew
<1>3. r \in 0..Full /\ last >= b.last /\ last >= ts
  BY DEF Refill
<1>4. c \in Buckets /\ c.tokens = u /\ c.last = last
  <2>1. u \in 0..Full
    BY <1>3, Numbers DEF Spent
  <2> QED BY <2>1 DEF Buckets, Taken
<1>5. Ahead(t, c)
  <2>1. b.last <= c.last
    BY <1>3, <1>4 DEF Buckets
  <2>2. Ahead(s, c)
    BY <1>4, <2>1, AheadLater
  <2>3. \A k \in 1..n : t[k] <= last
    BY <1>2, <1>4, <2>2 DEF Ahead, Grew
  <2>4. \A k \in 1..(n + 1) : k \in 1..n \/ k = n + 1
    OBVIOUS
  <2>5. \A k \in 1..(n + 1) : t[k] <= last
    BY <1>2, <1>3, <2>3, <2>4 DEF Grew
  <2> QED BY <1>2, <1>4, <2>5 DEF Ahead, Grew
<1>6. Paid(t, c)
  <2>1. \A i \in 1..(n + 1) : Cost(Count(i, n + 1), u) <= Gain(t[i], last)
    BY <1>2, PassedPaid
  <2> QED BY <1>2, <1>4, <2>1 DEF Paid, Grew
<1>7. ASSUME NEW i \in 1..(n + 1)
      PROVE  \E k \in i..(n + 1) : Cost(Count(i, n + 1), u) <= Gain(t[i], t[k])
  BY <1>2, PassedAtEvents
<1>8. PaidAtEvents(t, c)
  <2>1. \A i \in 1..(n + 1) : PaidBy(t, c, i)
    BY <1>2, <1>4, <1>7 DEF PaidBy, Grew
  <2> QED BY <1>2, <2>1 DEF PaidAtEvents, Grew
<1>9. Kept(t)
  BY <1>2, <1>7, PassedKept
<1> QED BY <1>2, <1>4, <1>5, <1>6, <1>8, <1>9 DEF BucketOK

\* A full bucket is the same as no bucket, for a process whose last events are
\* a second old.
LEMMA FreshOK ==
    ASSUME NEW s \in Moments, NEW ts \in Nat, Kept(s), Since(s, Frequency, ts),
           NEW b, b = [tokens |-> Full, last |-> ts]
    PROVE  b \in Buckets /\ Ahead(s, b) /\ Paid(s, b)
<1>1. Full \in Nat /\ Frequency \in Nat
  BY Numbers
<1>2. b \in Buckets /\ b.tokens = Full /\ b.last = ts
  BY <1>1 DEF Buckets
<1>3. Ahead(s, b)
  <2> SUFFICES ASSUME NEW k \in 1..Len(s) PROVE s[k] <= ts
    BY <1>2 DEF Ahead
  <2>1. PICK x \in Nat : x = s[k]
    BY MomentFacts
  <2>2. x + Frequency <= ts
    BY <2>1 DEF Since
  <2> QED BY <1>1, <2>1, <2>2
<1>4. ASSUME NEW i \in 1..Len(s) PROVE Cost(Count(i, Len(s)), Full) <= Gain(s[i], ts)
  <2>1. PICK n \in Nat : n = Len(s)
    BY MomentFacts
  <2>2. KeptTo(s, i, n)
    BY <2>1 DEF Kept
  <2>3. PICK k \in i..n : Cost(Count(i, n), 0) <= Gain(s[i], s[k])
    BY <2>2 DEF KeptTo
  <2>4. PICK x \in Int, y \in Int : x = s[i] /\ y = s[k] /\ y + Frequency <= ts
    <3>1. k \in 1..Len(s)
      BY <2>1, <2>3
    <3>2. s[k] \in Nat /\ s[i] \in Nat
      BY <3>1, MomentFacts
    <3>3. s[k] + Frequency <= ts
      BY <3>1 DEF Since
    <3> QED BY <3>2, <3>3
  <2>5. PICK m \in Int : m = Count(i, n)
    <3>1. i \in Int /\ n \in Int
      OBVIOUS
    <3> QED BY <3>1, CountFacts
  <2>6. PICK v \in Int, f \in Int : v = Cost(m, 0) /\ f = Worth(Full) /\ Cost(m, Full) = v + f
    <3>1. Full \in Int
      BY <1>1
    <3> QED BY <3>1, CostTokens
  <2>7. PICK w \in Int : w = y + Frequency /\ w <= ts
    BY <1>1, <2>4
  <2>8. Grown(y, w) = f
    <3>1. w - y = Frequency
      BY <1>1, <2>7
    <3>2. Filled(Frequency) = Worth(Full)
      BY <1>1 DEF Filled, Worth
    <3> QED BY <2>6, <3>1, <3>2 DEF Grown
  <2>9. PICK g \in Int, h \in Int : g = Gain(x, y) /\ h = Gain(x, w) /\ h = g + f
    <3>1. Gain(x, w) = Gain(x, y) + Grown(y, w)
      BY GainSum
    <3>2. Gain(x, y) \in Int
      BY GainInt
    <3>3. Gain(x, w) \in Int
      BY GainInt
    <3> QED BY <2>8, <3>1, <3>2, <3>3
  <2>10. PICK e \in Int : e = Gain(x, ts) /\ h <= e
    <3>1. PICK z \in Int : z = ts /\ w <= z
      BY <2>7
    <3>2. Gain(x, w) <= Gain(x, z)
      BY <3>1, GainMono
    <3>3. Gain(x, z) \in Int
      BY GainInt
    <3> QED BY <2>9, <3>1, <3>2, <3>3
  <2>11. v <= g
    BY <2>3, <2>4, <2>5, <2>6, <2>9
  <2>12. v + f <= h
    BY <2>9, <2>11
  <2>13. v + f <= e
    BY <2>10, <2>12
  <2> QED BY <2>1, <2>4, <2>5, <2>6, <2>10, <2>13
<1>5. Paid(s, b)
  BY <1>2, <1>4 DEF Paid
<1> QED BY <1>2, <1>3, <1>5

-----------------------------------------------------------------------------
(* The steps                                                                 *)

\* The initial state satisfies the invariant.
LEMMA AdmissionInitInv == AdmissionInit => AInv
<1> SUFFICES ASSUME AdmissionInit PROVE AInv
  OBVIOUS
<1>1. DOMAIN buckets = {} /\ buckets \in [{} -> Buckets] /\ clock = 0
  BY DEF AdmissionInit
<1>2. passed = [p \in Pids |-> <<>>] /\ <<>> \in Moments /\ Len(<<>>) = 0
  BY DEF AdmissionInit, Moments
<1>3. AdmissionTypeOK
  BY <1>1, <1>2 DEF AdmissionTypeOK
<1>4. ASSUME NEW p \in Pids PROVE ProcessOK(p)
  <2>1. passed[p] = <<>> /\ Len(passed[p]) = 0
    BY <1>2
  <2>2. \A k \in 1..Len(passed[p]) : FALSE
    BY <2>1
  <2>3. Kept(passed[p]) /\ Long(passed[p])
    BY <2>2 DEF Kept, Long, Since
  <2> QED BY <1>1, <2>3 DEF ProcessOK
<1> QED BY <1>3, <1>4 DEF AInv

\* What is kept is unchanged, and what is not has been idle.
LEMMA RetainedFacts ==
    ASSUME AdmissionTypeOK, NEW ts \in Nat
    PROVE  /\ DOMAIN Retained(ts) \subseteq DOMAIN buckets
           /\ \A q \in DOMAIN Retained(ts) : Retained(ts)[q] = buckets[q]
           /\ \A q \in DOMAIN buckets \ DOMAIN Retained(ts) : buckets[q].last < ts - Idle
<1>1. CASE Cardinality(DOMAIN buckets) > BucketCap
  <2> DEFINE D == {p \in DOMAIN buckets : buckets[p].last >= ts - Idle}
  <2>1. Retained(ts) = [x \in D |-> buckets[x]]
    BY <1>1 DEF Retained, Restrict
  <2>2. DOMAIN Retained(ts) = D /\ \A q \in D : Retained(ts)[q] = buckets[q]
    BY <2>1
  <2>3. ASSUME NEW q \in DOMAIN buckets \ D PROVE buckets[q].last < ts - Idle
    <3>1. buckets[q].last \in Nat /\ ~(buckets[q].last >= ts - Idle)
      BY DEF AdmissionTypeOK, Buckets
    <3> QED BY <3>1, Numbers
  <2> QED BY <2>2, <2>3
<1>2. CASE ~(Cardinality(DOMAIN buckets) > BucketCap)
  BY <1>2 DEF Retained
<1> QED BY <1>1, <1>2

\* A new bucket is full.
LEMMA BucketIs ==
    ASSUME NEW p, NEW ts, p \notin DOMAIN Retained(ts)
    PROVE  Bucket(p, ts) = [tokens |-> Full, last |-> ts]
BY Zenon DEF Bucket, Full

\* The bucket an event finds covers its process's events; a new one begins now.
LEMMA BucketFacts ==
    ASSUME AInv, NEW p \in Pids, NEW ts \in Nat, ts <= clock, clock <= ts + Jitter
    PROVE  LET b == Bucket(p, ts)
           IN /\ b \in Buckets /\ Ahead(passed[p], b) /\ Paid(passed[p], b)
              /\ Answered(passed[p], b, ts)
<1>1. AdmissionTypeOK /\ ProcessOK(p)
  BY DEF AInv
<1>2. PICK s \in Moments : s = passed[p] /\ Kept(s)
  BY <1>1 DEF AdmissionTypeOK, ProcessOK
<1>3. CASE p \in DOMAIN Retained(ts)
  <2>1. Bucket(p, ts) = buckets[p] /\ p \in DOMAIN buckets
    BY <1>1, <1>3, RetainedFacts DEF Bucket
  <2>2. BucketOK(passed[p], buckets[p]) /\ buckets[p] \in Buckets
    BY <1>1, <2>1 DEF ProcessOK, AdmissionTypeOK
  <2> QED BY <2>1, <2>2 DEF BucketOK, Answered
<1>4. CASE p \notin DOMAIN Retained(ts)
  <2>1. PICK b : b = Bucket(p, ts) /\ b = [tokens |-> Full, last |-> ts]
    BY <1>4, BucketIs
  <2>2. Since(s, Frequency, ts)
    <3> SUFFICES ASSUME NEW k \in 1..Len(s) PROVE s[k] + Frequency <= ts
      BY DEF Since
    <3>1. CASE p \in DOMAIN buckets
      <4>1. s[k] <= buckets[p].last
        BY <1>1, <1>2, <3>1 DEF ProcessOK, BucketOK, Ahead
      <4>2. buckets[p].last < ts - Idle /\ buckets[p].last \in Nat
        BY <1>1, <1>4, <3>1, RetainedFacts DEF AdmissionTypeOK, Buckets
      <4>3. s[k] \in Nat
        BY MomentFacts
      <4> QED BY <4>1, <4>2, <4>3, Numbers
    <3>2. CASE p \notin DOMAIN buckets
      <4>1. s[k] + (Idle + 1) <= clock /\ s[k] \in Nat /\ clock \in Nat
        BY <1>1, <1>2, <3>2, MomentFacts DEF ProcessOK, Long, Since, AdmissionTypeOK
      <4> QED BY <4>1, Numbers
    <3> QED BY <3>1, <3>2
  <2>3. b \in Buckets /\ Ahead(s, b) /\ Paid(s, b)
    BY <1>2, <2>1, <2>2, FreshOK
  <2>4. ~(ts < b.last)
    BY <2>1
  <2> QED BY <1>2, <2>1, <2>3, <2>4 DEF Answered
<1> QED BY <1>3, <1>4

\* An event passes or not, and the buckets of idle processes may go.
LEMMA TakeTokenInv ==
    ASSUME AInv, NEW p \in Pids, NEW ts \in Nat, ts <= clock, clock <= ts + Jitter, TakeToken(p, ts)
    PROVE  AInv'
<1>1. AdmissionTypeOK
  BY DEF AInv
<1>2. PICK b \in Buckets : b = Bucket(p, ts)
  BY BucketFacts
<1>3. PICK s \in Moments : s = passed[p] /\ Kept(s)
  BY <1>1 DEF AdmissionTypeOK, AInv, ProcessOK
<1>4. Ahead(s, b) /\ Paid(s, b) /\ Answered(s, b, ts)
  BY <1>2, <1>3, BucketFacts
<1>5. Refill(b, ts, Refilled(b, ts), Max({b.last, ts}))
  BY RefillFacts
<1>6. PICK r \in Nat, last \in Nat : r = Refilled(b, ts) /\ last = Max({b.last, ts})
  BY <1>5, Numbers DEF Refill
<1>7. Refill(b, ts, r, last)
  BY <1>5, <1>6
<1>8. PICK K : K = Retained(ts)
  OBVIOUS
<1>9. /\ DOMAIN K \subseteq DOMAIN buckets /\ \A q \in DOMAIN K : K[q] = buckets[q]
      /\ \A q \in DOMAIN buckets \ DOMAIN K : buckets[q].last < ts - Idle
  BY <1>1, <1>8, RetainedFacts
<1>10. PICK u \in Nat : u = IF r >= 1000 THEN r - 1000 ELSE r
  OBVIOUS
<1>11. PICK c : c = [tokens |-> u, last |-> last]
  OBVIOUS
<1>12. /\ buckets' = [q \in DOMAIN K \cup {p} |-> IF q = p THEN c ELSE K[q]]
       /\ passed' = IF r >= 1000 THEN [passed EXCEPT ![p] = Append(s, ts)] ELSE passed
       /\ clock' = clock
  <2>1. /\ buckets' = [q \in DOMAIN K \cup {p} |->
                         IF q = p THEN [tokens |-> IF r >= 1000 THEN r - 1000 ELSE r, last |-> last] ELSE K[q]]
        /\ passed' = IF r >= 1000 THEN [passed EXCEPT ![p] = Append(@, ts)] ELSE passed
        /\ clock' = clock
    <3>1. PICK x \in Int : x = Refilled(Bucket(p, ts), ts) /\ x = r
      BY <1>2, <1>6
    <3>2. /\ buckets' = [q \in DOMAIN Retained(ts) \cup {p} |->
                            IF q = p
                            THEN [tokens |-> IF Refilled(Bucket(p, ts), ts) >= 1000
                                             THEN Refilled(Bucket(p, ts), ts) - 1000
                                             ELSE Refilled(Bucket(p, ts), ts),
                                  last |-> Max({Bucket(p, ts).last, ts})]
                            ELSE Retained(ts)[q]]
          /\ passed' = IF Refilled(Bucket(p, ts), ts) >= 1000 THEN [passed EXCEPT ![p] = Append(@, ts)] ELSE passed
          /\ clock' = clock
      BY Zenon DEF TakeToken
    <3> QED BY <1>2, <1>6, <1>8, <3>1, <3>2
  <2> QED BY <1>3, <1>10, <1>11, <2>1
<1>13. /\ DOMAIN buckets' = DOMAIN K \cup {p} /\ buckets'[p] = c
       /\ \A q \in DOMAIN K \ {p} : buckets'[q] = buckets[q]
  BY <1>9, <1>12
<1>14. c \in Buckets /\ BucketOK(passed'[p], c) /\ Kept(passed'[p]) /\ passed'[p] \in Moments
  <2>1. passed \in [Pids -> Moments]
    BY <1>1 DEF AdmissionTypeOK
  <2>2. CASE r >= 1000
    <3>1. PICK t : t = Append(s, ts)
      OBVIOUS
    <3>2. passed'[p] = t
      BY <1>12, <2>1, <2>2, <3>1
    <3>3. Spent(r, u)
      BY <1>10, <2>2 DEF Spent
    <3>4. Taken(c, u, last) /\ Added(t, s, ts)
      BY <1>11, <3>1 DEF Taken, Added
    <3>5. c \in Buckets /\ BucketOK(t, c) /\ Kept(t) /\ t \in Moments
      BY <1>3, <1>4, <1>7, <3>3, <3>4, PassedOK
    <3> QED BY <3>2, <3>5
  <2>3. CASE ~(r >= 1000)
    <3>1. passed'[p] = s /\ u = r /\ r < 1000
      BY <1>3, <1>10, <1>12, <2>3
    <3>2. c \in Buckets /\ BucketOK(s, c)
      BY <1>3, <1>4, <1>7, <1>11, <3>1, RefusedOK
    <3> QED BY <1>3, <3>1, <3>2
  <2> QED BY <2>2, <2>3
<1>15. passed' \in [Pids -> Moments] /\ \A q \in Pids \ {p} : passed'[q] = passed[q]
  <2>1. passed \in [Pids -> Moments]
    BY <1>1 DEF AdmissionTypeOK
  <2>2. CASE r >= 1000
    <3>1. Append(s, ts) \in Moments
      BY AppendFacts
    <3> QED BY <1>12, <2>1, <2>2, <3>1
  <2> QED BY <1>12, <2>1, <2>2
<1>16. AdmissionTypeOK'
  <2>1. buckets' \in [DOMAIN buckets' -> Buckets]
    <3>1. \A q \in DOMAIN K : K[q] \in Buckets
      BY <1>1, <1>9 DEF AdmissionTypeOK
    <3>2. \A q \in DOMAIN K \cup {p} : (IF q = p THEN c ELSE K[q]) \in Buckets
      BY <1>14, <3>1
    <3> QED BY <1>12, <3>2
  <2>2. DOMAIN buckets' \subseteq Pids
    BY <1>1, <1>9, <1>13 DEF AdmissionTypeOK
  <2> QED BY <1>1, <1>15, <1>12, <2>1, <2>2 DEF AdmissionTypeOK
<1>17. ASSUME NEW q \in Pids PROVE ProcessOK(q)'
  <2>1. CASE q = p
    BY <1>13, <1>14, <2>1 DEF ProcessOK
  <2>2. CASE q # p /\ q \in DOMAIN K
    <3>1. q \in DOMAIN buckets' /\ buckets'[q] = buckets[q] /\ passed'[q] = passed[q] /\ q \in DOMAIN buckets
      BY <1>9, <1>13, <1>15, <2>2
    <3>2. Kept(passed[q]) /\ BucketOK(passed[q], buckets[q])
      BY <3>1 DEF AInv, ProcessOK
    <3> QED BY <3>1, <3>2 DEF ProcessOK
  <2>3. CASE q # p /\ q \notin DOMAIN K
    <3>1. q \notin DOMAIN buckets' /\ passed'[q] = passed[q] /\ passed[q] \in Moments /\ clock \in Nat
      BY <1>1, <1>13, <1>15, <2>3 DEF AdmissionTypeOK
    <3>2. Kept(passed[q])
      BY DEF AInv, ProcessOK
    <3>3. ASSUME NEW k \in 1..Len(passed[q]) PROVE passed[q][k] + (Idle + 1) <= clock
      <4>1. CASE q \in DOMAIN buckets
        <5>1. passed[q][k] <= buckets[q].last
          BY <4>1 DEF AInv, ProcessOK, BucketOK, Ahead
        <5>2. buckets[q].last < ts - Idle /\ buckets[q].last \in Nat
          BY <1>1, <1>9, <2>3, <4>1 DEF AdmissionTypeOK, Buckets
        <5>3. passed[q][k] \in Nat
          BY <3>1, MomentFacts
        <5> QED BY <3>1, <5>1, <5>2, <5>3, Numbers
      <4>2. CASE q \notin DOMAIN buckets
        BY <4>2 DEF AInv, ProcessOK, Long, Since
      <4> QED BY <4>1, <4>2
    <3>4. Long(passed[q])'
      BY <1>12, <3>1, <3>3 DEF Long, Since
    <3> QED BY <3>1, <3>2, <3>4 DEF ProcessOK
  <2> QED BY <2>1, <2>2, <2>3
<1> QED BY <1>16, <1>17 DEF AInv

\* Time passes: what was long ago is longer ago.
LEMMA TickInv == ASSUME AInv, Tick PROVE AInv'
<1>1. AdmissionTypeOK /\ clock' = clock + 1 /\ buckets' = buckets /\ passed' = passed
  BY DEF AInv, Tick
<1>2. AdmissionTypeOK'
  BY <1>1 DEF AdmissionTypeOK
<1>3. ASSUME NEW p \in Pids PROVE ProcessOK(p)'
  <2>1. ProcessOK(p) /\ passed[p] \in Moments /\ clock \in Nat
    BY <1>1 DEF AInv, AdmissionTypeOK
  <2>2. Long(passed[p]) => Long(passed[p])'
    BY <1>1, <2>1, Numbers, MomentFacts DEF Long, Since
  <2> QED BY <1>1, <2>1, <2>2 DEF ProcessOK
<1> QED BY <1>2, <1>3 DEF AInv

\* Every step keeps the invariant.
LEMMA AdmissionNextInv == AInv /\ [AdmissionNext]_admissionVars => AInv'
<1> SUFFICES ASSUME AInv, [AdmissionNext]_admissionVars PROVE AInv'
  OBVIOUS
<1>1. CASE Tick
  BY <1>1, TickInv
<1>2. ASSUME NEW p \in Pids, NEW late \in 0..Jitter, clock >= late, TakeToken(p, clock - late)
      PROVE  AInv'
  <2>1. clock \in Nat /\ Jitter \in Nat
    BY Numbers DEF AInv, AdmissionTypeOK
  <2>2. PICK ts \in Nat : ts = clock - late /\ ts <= clock /\ clock <= ts + Jitter
    BY <1>2, <2>1
  <2> QED BY <1>2, <2>2, TakeTokenInv
<1>3. CASE UNCHANGED admissionVars
  <2>1. buckets' = buckets /\ clock' = clock /\ passed' = passed
    BY <1>3 DEF admissionVars
  <2> QED BY <2>1 DEF AInv, AdmissionTypeOK, ProcessOK, Long
<1> QED BY <1>1, <1>2, <1>3 DEF AdmissionNext

-----------------------------------------------------------------------------
(* The theorem                                                               *)

\* A set of numbers has a least one, and Min is it.
LEMMA LeastOf ==
    ASSUME NEW S \in SUBSET Nat, NEW x \in S
    PROVE  Min(S) \in Nat /\ Min(S) <= x /\ Min(S) \in S
<1> DEFINE R == {ss \in Nat \X Nat : ss[1] < ss[2]}
<1>1. IsWellFoundedOn(R, Nat)
  BY NatLessThanWellFounded DEF OpToRel
<1> HIDE DEF R
<1>2. \E m \in S : \A y \in S : ~(<<y, m>> \in R)
  BY <1>1, WFMin
<1>3. \A m, y \in Nat : y < m => <<y, m>> \in R
  BY DEF R
<1>4. PICK m \in S : \A y \in S : ~(<<y, m>> \in R)
  BY <1>2
<1>5. ASSUME NEW y \in S PROVE m <= y
  <2>1. y \in Nat /\ m \in Nat
    OBVIOUS
  <2>2. ~(y < m)
    BY <1>3, <1>4, <2>1
  <2> QED BY <2>1, <2>2
<1>6. Min(S) \in S /\ \A y \in S : Min(S) <= y
  BY <1>5 DEF Min
<1> QED BY <1>6

\* A bounded set of numbers has a greatest one, and Max is it.
LEMMA GreatestOf ==
    ASSUME NEW n \in Nat, NEW S \in SUBSET (0..n), NEW x \in S
    PROVE  Max(S) \in Nat /\ Max(S) >= x
<1> DEFINE T == {m \in Nat : n - m \in S}
<1>1. n - x \in T
  OBVIOUS
<1>2. T \in SUBSET Nat
  OBVIOUS
<1>3. PICK m \in Nat : m = Min(T) /\ m \in T
  BY <1>1, <1>2, LeastOf
<1>4. \A y \in S : y <= n - m
  <2> SUFFICES ASSUME NEW y \in S PROVE y <= n - m
    OBVIOUS
  <2>1. n - y \in T
    OBVIOUS
  <2>2. m <= n - y
    BY <1>2, <1>3, <2>1, LeastOf
  <2> QED BY <1>3, <2>2
<1>5. n - m \in S /\ \A y \in S : n - m >= y
  BY <1>3, <1>4
<1>6. Max(S) \in S /\ \A y \in S : Max(S) >= y
  BY <1>5 DEF Max
<1>7. PICK v \in 0..n : v = Max(S)
  BY <1>6
<1> QED BY <1>6, <1>7

\* What is added up in AInvIsKept.
LEMMA Thousandth ==
    ASSUME NEW c \in Int, NEW g \in Int, NEW z \in Int, NEW w \in Int, z <= w, 1000 * c <= 1000 * g + 1000 * z
    PROVE  c <= g + w
OBVIOUS

\* RateKept is Kept, divided by a thousand.
LEMMA AInvIsKept ==
    ASSUME AInv
    PROVE  RateKept
<1> SUFFICES ASSUME NEW p \in Pids, NEW i \in 1..Len(passed[p]), NEW j \in 1..Len(passed[p]), i <= j
             PROVE  (j - i + 1) * Frequency
                      <= Rate * Frequency + Rate * (Max({passed[p][k] : k \in i..j}) - Min({passed[p][k] : k \in i..j}))
  BY DEF RateKept
<1>1. PICK s \in Moments : s = passed[p]
  BY DEF AInv, AdmissionTypeOK
<1>2. Kept(s)
  BY <1>1 DEF AInv, ProcessOK
<1>3. KeptTo(s, i, j)
  BY <1>1, <1>2 DEF Kept
<1>4. PICK k \in i..j : Cost(Count(i, j), 0) <= Gain(s[i], s[k])
  BY <1>3 DEF KeptTo
<1>5. PICK n \in Nat : \A m \in 1..Len(s) : s[m] <= n
  <2>1. CASE p \in DOMAIN buckets
    <3>1. Ahead(s, buckets[p]) /\ buckets[p].last \in Nat
      BY <1>1, <2>1 DEF AInv, ProcessOK, BucketOK, AdmissionTypeOK, Buckets
    <3> QED BY <3>1 DEF Ahead
  <2>2. CASE p \notin DOMAIN buckets
    <3>1. Long(s) /\ clock \in Nat
      BY <1>1, <2>2 DEF AInv, ProcessOK, AdmissionTypeOK
    <3>2. ASSUME NEW m \in 1..Len(s) PROVE s[m] <= clock
      <4>1. PICK x \in Nat : x = s[m]
        BY MomentFacts
      <4>2. x + (Idle + 1) <= clock
        BY <3>1, <4>1 DEF Long, Since
      <4> QED BY <3>1, <4>1, <4>2, Numbers
    <3> QED BY <3>1, <3>2
  <2> QED BY <2>1, <2>2
<1>6. PICK S : S = {s[m] : m \in i..j}
  OBVIOUS
<1>7. S \in SUBSET (0..n) /\ s[k] \in S /\ s[i] \in S
  <2>1. \A m \in i..j : m \in 1..Len(s)
    BY <1>1
  <2>2. \A m \in i..j : s[m] \in Nat /\ s[m] <= n
    BY <1>5, <2>1, MomentFacts
  <2>3. \A m \in i..j : s[m] \in 0..n
    BY <2>2
  <2>4. i \in i..j
    OBVIOUS
  <2> QED BY <1>6, <2>3, <2>4
<1>8. PICK x \in Nat, y \in Nat : x = s[i] /\ y = s[k]
  <2>1. i \in 1..Len(s) /\ k \in 1..Len(s)
    BY <1>1
  <2> QED BY <2>1, MomentFacts
<1>9. PICK h \in Nat, l \in Nat : h = Max(S) /\ l = Min(S) /\ h >= y /\ l <= x
  <2>1. Max(S) \in Nat /\ Max(S) >= s[k]
    BY <1>7, GreatestOf
  <2>2. S \in SUBSET Nat
    <3>1. \A v \in S : v \in 0..n
      BY <1>7
    <3>2. \A v \in 0..n : v \in Nat
      OBVIOUS
    <3> QED BY <3>1, <3>2
  <2>3. Min(S) \in Nat /\ Min(S) <= s[i]
    BY <1>7, <2>2, LeastOf
  <2> QED BY <1>8, <2>1, <2>3
<1>10. PICK d \in Int, e \in Int, m \in Int : d = y - x /\ e = h - l /\ m = j - i + 1 /\ d <= e
  BY <1>9
<1>11. Rate \in Nat /\ Frequency \in Nat
  BY Numbers
<1>12. PICK c \in Int, g \in Int, z \in Int, w \in Int :
         c = Frequency * m /\ g = Rate * Frequency /\ z = Rate * d /\ w = Rate * e /\ z <= w
  <2>1. Rate * d <= Rate * e /\ Rate * d \in Int /\ Rate * e \in Int
    BY <1>10, <1>11, ProductMono
  <2>2. Frequency * m \in Int /\ Rate * Frequency \in Int
    BY <1>11
  <2> QED BY <2>1, <2>2
<1>13. Cost(m, 0) = 1000 * c
  <2>1. Cost(m, 0) = 1000 * Frequency * m + 0
    BY WorthUnits DEF Cost
  <2>2. 1000 * Frequency * m = 1000 * c
    BY <1>11, <1>12
  <2> QED BY <2>1, <2>2
<1>14. Gain(x, y) = 1000 * g + 1000 * z
  <2>1. Gain(x, y) = Frequency * (1000 * Rate) + (1000 * Rate) * d
    BY <1>10 DEF Gain, Grown, Full, Worth, Filled
  <2>2. Frequency * (1000 * Rate) = 1000 * g
    BY <1>11, <1>12
  <2>3. (1000 * Rate) * d = 1000 * z
    BY <1>11, <1>12
  <2> QED BY <2>1, <2>2, <2>3
<1>15. Cost(m, 0) <= Gain(x, y)
  BY <1>4, <1>8, <1>10 DEF Count
<1>16. c <= g + w
  <2>1. 1000 * c <= 1000 * g + 1000 * z
    BY <1>13, <1>14, <1>15
  <2>2. z <= w
    BY <1>12
  <2> QED BY <2>1, <2>2, Thousandth
<1>17. (j - i + 1) * Frequency = c
  <2>1. m * Frequency = c
    BY <1>11, <1>12
  <2> QED BY <1>10, <2>1
<1>18. Rate * (Max(S) - Min(S)) = w
  BY <1>9, <1>10, <1>12
<1> QED BY <1>1, <1>6, <1>12, <1>16, <1>17, <1>18

\* RateKept (intake.rs, Buckets::take): in no stretch of event time does a
\* process pass more than a full bucket and the tokens of that time, for events
\* in any order within Jitter and buckets forgotten past the cap.
THEOREM RateAlwaysKept == AdmissionInit /\ [][AdmissionNext]_admissionVars => []RateKept
<1>1. AInv => RateKept
  BY AInvIsKept
<1> QED BY <1>1, AdmissionInitInv, AdmissionNextInv, PTL
-----------------------------------------------------------------------------
(* The device keeps one uid: the inductive invariant                         *)

DevicePcs == {"start", "create", "flush", "link", "linked", "exists", "fail", "read", "done", "refused", "ended"}
DeviceTypeOK ==
    /\ caller \in [Callers -> DevicePcs]
    /\ tmp \in [Callers -> {"none", "written", "flushed"}]
    /\ file = NoFile \/ file \in [of : Callers, whole : BOOLEAN, flushed : BOOLEAN]
    /\ calls \in [failed : Nat, cuts : Nat, lost : Nat]
    /\ IsFiniteSet(given)

\* What is linked was flushed first, and stays whole.
WholeOrAbsent ==
    /\ \A c \in Callers : caller[c] = "link" => tmp[c] = "flushed"
    /\ file # NoFile => file.whole /\ file.flushed

\* The caller that linked the file finds its own uid in it.
OwnLink == \A c \in Callers : caller[c] = "linked" => file # NoFile /\ file.of = c

\* Uids given out and not in the file cost a lost link each.
OthersLost ==
    /\ file = NoFile => Cardinality(given) <= calls.lost
    /\ file # NoFile => Cardinality(given \ {file.of}) <= calls.lost

DInv == DeviceTypeOK /\ WholeOrAbsent /\ OwnLink /\ OthersLost

-----------------------------------------------------------------------------
\* One uid at most is not among the others.
LEMMA OneMore ==
    ASSUME NEW S, IsFiniteSet(S), NEW x
    PROVE  /\ Cardinality(S) <= Cardinality(S \ {x}) + 1
           /\ Cardinality(S) \in Nat /\ Cardinality(S \ {x}) \in Nat
           /\ Cardinality(S \ {x}) <= Cardinality(S)
           /\ IsFiniteSet(S \ {x})
<1>1. Cardinality(S) \in Nat
  BY FS_CardinalityType
<1>2. /\ IsFiniteSet(S \ {x})
      /\ Cardinality(S \ {x}) = IF x \in S THEN Cardinality(S) - 1 ELSE Cardinality(S)
  BY FS_RemoveElement
<1>3. Cardinality(S \ {x}) \in Nat
  BY <1>2, FS_CardinalityType
<1> QED BY <1>1, <1>2, <1>3

\* The initial state satisfies the invariant.
LEMMA DeviceInitInv == DeviceInit => DInv
<1> SUFFICES ASSUME DeviceInit PROVE DInv
  OBVIOUS
<1>1. DeviceTypeOK
  BY FS_EmptySet DEF DeviceInit, DeviceTypeOK, DevicePcs
<1>2. Cardinality(given) <= calls.lost
  BY FS_EmptySet DEF DeviceInit
<1> QED BY <1>1, <1>2 DEF DInv, DeviceInit, WholeOrAbsent, OwnLink, OthersLost, NoFile

\* A step that leaves the file and the uids given alone, and links nothing.
LEMMA CallerStep ==
    ASSUME DInv, NEW c \in Callers, NEW pc \in DevicePcs \ {"linked"}, caller' = [caller EXCEPT ![c] = pc],
           file' = file, given' = given,
           calls' \in [failed : Nat, cuts : Nat, lost : Nat], calls'.lost = calls.lost,
           tmp' \in [Callers -> {"none", "written", "flushed"}],
           \A d \in Callers \ {c} : tmp'[d] = tmp[d], pc = "link" => tmp'[c] = "flushed"
    PROVE  DInv'
<1>1. caller \in [Callers -> DevicePcs]
  BY DEF DInv, DeviceTypeOK
<1>2. DeviceTypeOK'
  BY <1>1 DEF DInv, DeviceTypeOK
<1>3. WholeOrAbsent'
  BY <1>1 DEF DInv, WholeOrAbsent
<1>4. OwnLink'
  BY <1>1 DEF DInv, OwnLink
<1>5. OthersLost'
  BY DEF DInv, OthersLost
<1> QED BY <1>2, <1>3, <1>4, <1>5 DEF DInv

\* A failed call changes only its count.
LEMMA FailureType ==
    ASSUME DInv
    PROVE  /\ CallFails => calls' \in [failed : Nat, cuts : Nat, lost : Nat] /\ calls'.lost = calls.lost
           /\ UNCHANGED calls => calls' \in [failed : Nat, cuts : Nat, lost : Nat] /\ calls'.lost = calls.lost
<1>1. calls \in [failed : Nat, cuts : Nat, lost : Nat]
  BY DEF DInv, DeviceTypeOK
<1> QED BY <1>1 DEF CallFails

\* Handing out the uid in the file takes no further link.
LEMMA GiveStep ==
    ASSUME DInv, file # NoFile, file' = file, given' = given \cup {file.of}, calls'.lost = calls.lost
    PROVE  OthersLost' /\ IsFiniteSet(given')
<1>1. given' \ {file.of} = given \ {file.of}
  OBVIOUS
<1>2. IsFiniteSet(given')
  BY FS_AddElement DEF DInv, DeviceTypeOK
<1> QED BY <1>1, <1>2 DEF DInv, OthersLost

\* Every step of a caller keeps the invariant.
LEMMA CallerInv ==
    ASSUME DInv, NEW c \in Callers, NEW ok \in BOOLEAN,
           \/ WriteTmp(c, ok) \/ SyncTmp(c, ok) \/ LinkTmp(c, ok) \/ RemoveTmp(c, ok)
           \/ Exists(c) \/ ReadFile(c) \/ Ends(c)
    PROVE  DInv'
<1>1. /\ caller \in [Callers -> DevicePcs] /\ tmp \in [Callers -> {"none", "written", "flushed"}]
      /\ calls \in [failed : Nat, cuts : Nat, lost : Nat]
  BY DEF DInv, DeviceTypeOK
<1>2. CASE WriteTmp(c, ok) \/ Exists(c) \/ Ends(c)
  <2>1. /\ calls' \in [failed : Nat, cuts : Nat, lost : Nat] /\ calls'.lost = calls.lost
    BY <1>2, FailureType DEF WriteTmp, Exists, Ends
  <2>2. \E pc \in {"create", "read", "flush", "fail", "ended"} : caller' = [caller EXCEPT ![c] = pc]
    BY <1>2 DEF WriteTmp, Exists, Ends, Moves
  <2>3. /\ file' = file /\ given' = given /\ tmp' \in [Callers -> {"none", "written", "flushed"}]
        /\ \A d \in Callers \ {c} : tmp'[d] = tmp[d]
    BY <1>1, <1>2 DEF WriteTmp, Exists, Ends
  <2> QED BY <2>1, <2>2, <2>3, CallerStep DEF DevicePcs
<1>3. CASE SyncTmp(c, ok)
  <2>1. /\ calls' \in [failed : Nat, cuts : Nat, lost : Nat] /\ calls'.lost = calls.lost
    BY <1>3, FailureType DEF SyncTmp
  <2>2. \/ caller' = [caller EXCEPT ![c] = "link"] /\ tmp' = [tmp EXCEPT ![c] = "flushed"]
        \/ caller' = [caller EXCEPT ![c] = "fail"] /\ tmp' = tmp
    BY <1>3 DEF SyncTmp, Flushed, Moves
  <2>3. /\ file' = file /\ given' = given /\ tmp' \in [Callers -> {"none", "written", "flushed"}]
        /\ \A d \in Callers \ {c} : tmp'[d] = tmp[d]
    BY <1>1, <1>3, <2>2 DEF SyncTmp
  <2>4. caller' = [caller EXCEPT ![c] = "link"] => tmp'[c] = "flushed"
    BY <1>1, <2>2
  <2> QED BY <2>1, <2>2, <2>3, <2>4, CallerStep DEF DevicePcs
<1>4. CASE LinkTmp(c, ok)
  <2>1. CASE ok /\ MayLink(c)
    <3>1. /\ Is(c, "link") /\ file = NoFile /\ caller' = [caller EXCEPT ![c] = "linked"] /\ tmp' = tmp
          /\ file' = [of |-> c, whole |-> TRUE, flushed |-> tmp[c] = "flushed"]
          /\ calls' = calls /\ given' = given
      BY <1>4, <2>1 DEF LinkTmp, MayLink, Moves
    <3>2. tmp[c] = "flushed"
      BY <3>1 DEF DInv, WholeOrAbsent, Is
    <3>3. file' = [of |-> c, whole |-> TRUE, flushed |-> TRUE] /\ file' # NoFile
      BY <3>1, <3>2 DEF NoFile
    <3>4. DeviceTypeOK'
      BY <1>1, <3>1, <3>3 DEF DInv, DeviceTypeOK, DevicePcs
    <3>5. WholeOrAbsent'
      BY <1>1, <3>1, <3>3 DEF DInv, WholeOrAbsent
    <3>6. OwnLink'
      BY <1>1, <3>1, <3>3 DEF DInv, OwnLink
    <3>7. OthersLost'
      <4>1. Cardinality(given) <= calls.lost /\ calls.lost \in Nat
        BY <1>1, <3>1 DEF DInv, OthersLost
      <4>2. IsFiniteSet(given)
        BY DEF DInv, DeviceTypeOK
      <4>3. /\ Cardinality(given) \in Nat /\ Cardinality(given \ {c}) \in Nat
            /\ Cardinality(given \ {c}) <= Cardinality(given)
        BY <4>2, OneMore
      <4>4. Cardinality(given \ {c}) <= calls.lost
        BY <4>1, <4>3
      <4> QED BY <3>1, <3>3, <4>4 DEF OthersLost
    <3> QED BY <3>4, <3>5, <3>6, <3>7 DEF DInv
  <2>2. CASE ~(ok /\ MayLink(c))
    <3>1. /\ calls' \in [failed : Nat, cuts : Nat, lost : Nat] /\ calls'.lost = calls.lost
      BY <1>4, <2>2, FailureType DEF LinkTmp
    <3>2. \E pc \in {"exists", "fail"} : caller' = [caller EXCEPT ![c] = pc]
      BY <1>4, <2>2 DEF LinkTmp, Moves
    <3>3. file' = file /\ given' = given /\ tmp' = tmp
      BY <1>4, <2>2 DEF LinkTmp
    <3> QED BY <1>1, <3>1, <3>2, <3>3, CallerStep DEF DevicePcs
  <2> QED BY <2>1, <2>2
<1>5. CASE RemoveTmp(c, ok)
  <2>1. /\ calls' \in [failed : Nat, cuts : Nat, lost : Nat] /\ calls'.lost = calls.lost
    BY <1>5, FailureType DEF RemoveTmp
  <2>2. /\ file' = file /\ tmp' \in [Callers -> {"none", "written", "flushed"}]
        /\ \A d \in Callers \ {c} : tmp'[d] = tmp[d]
    BY <1>1, <1>5 DEF RemoveTmp
  <2>3. \E pc \in {"done", "read", "refused"} : caller' = [caller EXCEPT ![c] = pc]
    BY <1>5 DEF RemoveTmp, Moves, Is
  <2>4. CASE caller[c] # "linked"
    <3>1. given' = given
      BY <1>5, <2>4 DEF RemoveTmp, Is
    <3> QED BY <2>1, <2>2, <2>3, <3>1, CallerStep DEF DevicePcs
  <2>5. CASE caller[c] = "linked"
    <3>1. given' = given \cup {c} /\ file # NoFile /\ file.of = c
      BY <1>5, <2>5 DEF RemoveTmp, Is, DInv, OwnLink
    <3>2. OthersLost' /\ IsFiniteSet(given')
      BY <2>1, <2>2, <3>1, GiveStep
    <3>3. DeviceTypeOK'
      BY <1>1, <2>1, <2>2, <2>3, <3>2 DEF DInv, DeviceTypeOK, DevicePcs
    <3>4. WholeOrAbsent' /\ OwnLink'
      BY <1>1, <2>2, <2>3 DEF DInv, WholeOrAbsent, OwnLink
    <3> QED BY <3>2, <3>3, <3>4 DEF DInv
  <2> QED BY <2>4, <2>5
<1>6. CASE ReadFile(c)
  <2>1. /\ tmp' = tmp /\ file' = file /\ calls' = calls
        /\ \E pc \in {"done", "refused"} : caller' = [caller EXCEPT ![c] = pc]
    BY <1>6 DEF ReadFile, Moves
  <2>2. CASE ~file.whole
    <3>1. given' = given
      BY <1>6, <2>2 DEF ReadFile
    <3> QED BY <1>1, <2>1, <3>1, CallerStep DEF DevicePcs
  <2>3. CASE file.whole
    <3>1. given' = given \cup {file.of} /\ file # NoFile
      BY <1>6, <2>3 DEF ReadFile, NoFile
    <3>2. OthersLost' /\ IsFiniteSet(given')
      BY <2>1, <3>1, GiveStep
    <3>3. DeviceTypeOK'
      BY <1>1, <2>1, <3>2 DEF DInv, DeviceTypeOK, DevicePcs
    <3>4. WholeOrAbsent' /\ OwnLink'
      BY <1>1, <2>1 DEF DInv, WholeOrAbsent, OwnLink
    <3> QED BY <3>2, <3>3, <3>4 DEF DInv
  <2> QED BY <2>2, <2>3
<1> QED BY <1>2, <1>3, <1>4, <1>5, <1>6

\* A power cut loses the link, and counts it, or leaves the flushed file whole.
LEMMA PowerCutInv ==
    ASSUME DInv, NEW keeps \in BOOLEAN, PowerCut(keeps)
    PROVE  DInv'
<1>1. /\ caller \in [Callers -> DevicePcs] /\ calls \in [failed : Nat, cuts : Nat, lost : Nat]
      /\ IsFiniteSet(given) /\ tmp' = tmp /\ given' = given
  BY DEF DInv, DeviceTypeOK, PowerCut
<1>2. /\ calls' \in [failed : Nat, cuts : Nat, lost : Nat]
      /\ calls'.lost = IF ~keeps /\ given # {} THEN calls.lost + 1 ELSE calls.lost
  <2>1. PICK n \in Nat : n = IF ~keeps /\ given # {} THEN calls.lost + 1 ELSE calls.lost
    BY <1>1
  <2>2. PICK k \in Nat : k = calls.cuts + 1
    BY <1>1
  <2>3. calls' = [[calls EXCEPT !.cuts = k] EXCEPT !.lost = n]
    BY <2>1, <2>2 DEF PowerCut
  <2>4. calls' \in [failed : Nat, cuts : Nat, lost : Nat] /\ calls'.lost = n
    BY <1>1, <2>3
  <2> QED BY <2>1, <2>4
<1>3. caller' \in [Callers -> {"start", "ended"}]
  BY DEF PowerCut
<1>4. file' = file \/ (file' = NoFile /\ ~keeps)
  <2>1. CASE keeps /\ file # NoFile
    <3>1. file \in [of : Callers, whole : BOOLEAN, flushed : BOOLEAN] /\ file.whole /\ file.flushed
      BY <2>1 DEF DInv, DeviceTypeOK, WholeOrAbsent
    <3>2. file' = [file EXCEPT !.whole = @ /\ file.flushed]
      BY <2>1 DEF PowerCut
    <3>3. file.whole = TRUE /\ file.flushed = TRUE
      BY <3>1
    <3> QED BY <3>1, <3>2, <3>3
  <2>2. CASE ~(keeps /\ file # NoFile)
    BY <2>2 DEF PowerCut
  <2> QED BY <2>1, <2>2
<1>5. DeviceTypeOK'
  BY <1>1, <1>2, <1>3, <1>4 DEF DInv, DeviceTypeOK, DevicePcs
<1>6. WholeOrAbsent' /\ OwnLink'
  BY <1>1, <1>3, <1>4 DEF DInv, WholeOrAbsent, OwnLink
<1>7. OthersLost'
  <2>1. calls.lost \in Nat /\ calls'.lost \in Nat /\ calls'.lost >= calls.lost
    BY <1>1, <1>2
  <2>2. CASE file' = file
    <3>1. /\ Cardinality(given) \in Nat /\ Cardinality(given \ {file.of}) \in Nat
      BY <1>1, OneMore
    <3> QED BY <1>1, <2>1, <2>2, <3>1 DEF DInv, OthersLost
  <2>3. CASE file' = NoFile /\ ~keeps /\ given = {}
    <3>1. Cardinality(given) = 0
      BY <2>3, FS_EmptySet
    <3> QED BY <1>1, <2>1, <2>3, <3>1 DEF OthersLost
  <2>4. CASE file' = NoFile /\ ~keeps /\ given # {}
    <3>1. calls'.lost = calls.lost + 1
      BY <1>2, <2>4
    <3>2. /\ Cardinality(given) <= Cardinality(given \ {file.of}) + 1
          /\ Cardinality(given) \in Nat /\ Cardinality(given \ {file.of}) \in Nat
      BY <1>1, OneMore
    <3>3. Cardinality(given) <= calls.lost + 1
      BY <2>1, <3>2 DEF DInv, OthersLost
    <3> QED BY <1>1, <2>4, <3>1, <3>3 DEF OthersLost
  <2> QED BY <1>4, <2>2, <2>3, <2>4
<1> QED BY <1>5, <1>6, <1>7 DEF DInv

\* However many callers race, whatever fails and wherever a process ends: no
\* second uid without a power cut that took the link, and never part of a file.
THEOREM DeviceAlwaysKept == DeviceSpec => []DeviceKept
<1>1. DInv /\ [DeviceNext]_deviceVars => DInv'
  <2> SUFFICES ASSUME DInv, [DeviceNext]_deviceVars PROVE DInv'
    OBVIOUS
  <2>1. CASE DeviceNext
    BY <2>1, CallerInv, PowerCutInv DEF DeviceNext
  <2>2. CASE UNCHANGED deviceVars
    BY <2>2 DEF deviceVars, DInv, DeviceTypeOK, WholeOrAbsent, OwnLink, OthersLost
  <2> QED BY <2>1, <2>2
<1>2. DInv => DeviceKept
  <2> SUFFICES ASSUME DInv PROVE DeviceKept
    OBVIOUS
  <2>1. /\ Cardinality(given) <= Cardinality(given \ {file.of}) + 1
        /\ Cardinality(given) \in Nat /\ Cardinality(given \ {file.of}) \in Nat
        /\ calls.lost \in Nat
    BY OneMore DEF DInv, DeviceTypeOK
  <2>2. Cardinality(given) <= 1 + calls.lost
    BY <2>1 DEF DInv, OthersLost
  <2> QED BY <2>2 DEF DInv, WholeOrAbsent, DeviceKept
<1> QED BY <1>1, <1>2, DeviceInitInv, PTL DEF DeviceSpec
=============================================================================
