------------------------------- MODULE Seeder --------------------------------
(* The seeder thread (win/seeder.rs: run, Waiting, Budget) and the helpers   *)
(* it names files with (win/handles.rs: FileNamer, Helper). What a snapshot  *)
(* says of a key or a file is in Keys and Files; here it is a row of queries *)
(* that may hang, and the time and CPU they take.                            *)
EXTENDS Integers, FiniteSets, SequencesExt, FiniteSetsExt, Functions, TLC

CONSTANTS
    CpuLimit, CpuWindow,    \* seeder_cpu, seeder_cpu_window
    MaxCpu,                 \* the most one snapshot takes
    MaxStuck,               \* max_stuck_helpers
    SeedQueue,              \* lane_cap of the requests
    MaxClock, MaxSeeds, MaxHandles      \* bounds: time, requests, handles of a snapshot

ASSUME SeederAssumption ==
    /\ {CpuLimit, CpuWindow, MaxCpu, MaxStuck, SeedQueue} \subseteq Nat \ {0}
    /\ {MaxClock, MaxSeeds, MaxHandles} \subseteq Nat

VARIABLES
    clock,
    requests,       \* the lane: what waits, how many were sent, were dropped
    rereads,        \* Waiting: kinds in the order they came, and since when
    spent,          \* Budget.spent: charges with their time; the CPU charged before each
    seeder,         \* the thread: where it is, the snapshot it takes, when it wakes
    helper,         \* the namer's helper: its two channels, of handles and of answers
    stuck           \* helpers set aside: whose query hangs, and has returned

seederVars == <<clock, requests, rereads, spent, seeder, helper, stuck>>

HandleKinds == {"Key", "File"}
NoHandle == 0
FreshHelper == [jobs |-> <<>>, answers |-> <<>>]
Receiving == [pc |-> "recv", kind |-> "none", left |-> 0, asked |-> NoHandle, got |-> {}, charged |-> FALSE, wake |-> 0]

SeederInit ==
    /\ clock = 0 /\ requests = [jobs |-> <<>>, sent |-> 0, drops |-> 0]
    /\ rereads = <<>> /\ spent = <<>> /\ seeder = Receiving
    /\ helper = FreshHelper /\ stuck = [hung |-> 0, back |-> 0]

-----------------------------------------------------------------------------
(* Time and requests                                                         *)

\* Time passes while the thread waits for a request, to its wake-up at most.
SeederTick ==
    /\ clock < MaxClock /\ seeder.pc = "recv" /\ requests.jobs = <<>>
    /\ rereads # <<>> => clock < seeder.wake
    /\ clock' = clock + 1
    /\ UNCHANGED <<requests, rereads, spent, seeder, helper, stuck>>

\* submit of a Seed: an empty list of addresses is the start-up pass.
SubmitSeed(kind, startup) ==
    /\ requests.sent < MaxSeeds
    /\ requests' = IF Len(requests.jobs) >= SeedQueue THEN [requests EXCEPT !.sent = @ + 1, !.drops = @ + 1]
                   ELSE [requests EXCEPT !.sent = @ + 1, !.jobs = Append(@, [kind |-> kind, startup |-> startup])]
    /\ UNCHANGED <<clock, rereads, spent, seeder, helper, stuck>>

-----------------------------------------------------------------------------
(* Budget                                                                    *)

\* prune: what is older than the window leaves, from the front.
Pruned ==
    LET young == {i \in DOMAIN spent : clock - spent[i].at < CpuWindow}
    IN IF young = {} THEN <<>> ELSE SubSeq(spent, Min(young), Len(spent))
\* The sum of the charges, as a difference of totals.
Upto(c) == c.before + c.cpu
SpentNow(charges) == IF charges = <<>> THEN 0 ELSE Upto(charges[Len(charges)]) - charges[1].before
\* allows. A mutant spends the limit and starts another.
AllowsFull == SpentNow(Pruned) <= CpuLimit
Allows == SpentNow(Pruned) < CpuLimit
RetryAt == IF Pruned = <<>> THEN clock ELSE Head(Pruned).at + CpuWindow

-----------------------------------------------------------------------------
(* The thread                                                                *)

\* Waiting::add: one entry for a kind.
Added(kind) ==
    IF \E i \in DOMAIN rereads : rereads[i].kind = kind THEN rereads
    ELSE Append(rereads, [kind |-> kind, since |-> clock, passed |-> 0])
\* Waiting::next: the oldest. A mutant takes the newest.
NextNewest == Len(rereads)
NextOldest == 1

Snapshots(kind, n, charged) == [Receiving EXCEPT !.pc = "snapshot", !.kind = kind, !.left = n, !.charged = charged]

\* run: a start-up pass is taken at once and not charged, a re-read waits for
\* the budget.
TakeSeed(n) ==
    /\ seeder.pc = "recv" /\ requests.jobs # <<>>
    /\ requests' = [requests EXCEPT !.jobs = Tail(@)]
    /\ LET job == Head(requests.jobs)
       IN IF job.startup
          THEN seeder' = Snapshots(job.kind, n, FALSE) /\ UNCHANGED rereads
          ELSE seeder' = [seeder EXCEPT !.pc = "serve"] /\ rereads' = Added(job.kind)
    /\ UNCHANGED <<clock, spent, helper, stuck>>
Wakes ==
    /\ seeder.pc = "recv" /\ requests.jobs = <<>> /\ rereads # <<>> /\ clock >= seeder.wake
    /\ seeder' = [seeder EXCEPT !.pc = "serve"]
    /\ UNCHANGED <<clock, requests, rereads, spent, helper, stuck>>

\* The loop over what waits, while the budget allows; else to the next wake-up.
Serve(n) ==
    /\ seeder.pc = "serve"
    /\ spent' = Pruned
    /\ IF rereads # <<>> /\ Allows
       THEN LET taken == rereads[NextOldest]
            IN /\ seeder' = Snapshots(taken.kind, n, TRUE)
               /\ rereads' = [i \in 1..(Len(rereads) - 1) |-> [RemoveAt(rereads, NextOldest)[i] EXCEPT !.passed = @ + 1]]
       ELSE seeder' = [Receiving EXCEPT !.wake = IF rereads = <<>> THEN 0 ELSE RetryAt] /\ UNCHANGED rereads
    /\ UNCHANGED <<clock, requests, helper, stuck>>

\* snapshot: the next file handle goes to the helper unless seeding is paused
\* (stuck, paused: helpers that came back are dropped). Keys are named at once.
\* A mutant pauses one too late.
PausedLate(hung) == hung > MaxStuck
Paused(hung) == hung >= MaxStuck
AskName ==
    /\ seeder.pc = "snapshot" /\ seeder.left > 0
    /\ \/ /\ seeder.kind = "File"
          /\ stuck' = [stuck EXCEPT !.back = 0]
          /\ IF Paused(stuck.hung)
             THEN seeder' = [seeder EXCEPT !.left = 0] /\ UNCHANGED helper
             ELSE /\ helper' = [helper EXCEPT !.jobs = Append(@, seeder.left)]
                  /\ seeder' = [seeder EXCEPT !.pc = "first", !.asked = seeder.left]
       \/ /\ seeder.kind = "Key"
          /\ seeder' = [seeder EXCEPT !.left = @ - 1]
          /\ UNCHANGED <<helper, stuck>>
    /\ UNCHANGED <<clock, requests, rereads, spent>>

\* A helper's query returns, at any time or never; CancelSynchronousIo only
\* makes it return sooner.
QueryReturns ==
    /\ helper.jobs # <<>>
    /\ helper' = [jobs |-> Tail(helper.jobs), answers |-> Append(helper.answers, Head(helper.jobs))]
    /\ UNCHANGED <<clock, requests, rereads, spent, seeder, stuck>>
StuckReturns ==
    /\ stuck.hung > 0
    /\ stuck' = [hung |-> stuck.hung - 1, back |-> stuck.back + 1]
    /\ UNCHANGED <<clock, requests, rereads, spent, seeder, helper>>

\* name: the answer within the timeout; or the timeout, a cancel and a second
\* wait, whose answer is not used; or the helper is set aside and another
\* started.
NextHandle(got) == [seeder EXCEPT !.pc = "snapshot", !.left = @ - 1, !.got = got, !.asked = NoHandle]
FirstWait ==
    /\ seeder.pc = "first"
    /\ \/ /\ helper.answers # <<>>
          /\ helper' = [helper EXCEPT !.answers = Tail(@)]
          /\ seeder' = NextHandle({<<seeder.asked, Head(helper.answers)>>})
       \/ /\ helper.answers = <<>>
          /\ seeder' = [seeder EXCEPT !.pc = "second"] /\ UNCHANGED helper
    /\ UNCHANGED <<clock, requests, rereads, spent, stuck>>
\* A mutant keeps the helper that did not return.
KeepHelper == UNCHANGED <<helper, stuck>>
SetAside ==
    /\ helper' = FreshHelper
    /\ stuck' = [stuck EXCEPT !.hung = @ + 1]
SecondWait ==
    /\ seeder.pc = "second"
    /\ \/ /\ helper.answers # <<>>
          /\ helper' = [helper EXCEPT !.answers = Tail(@)] /\ UNCHANGED stuck
       \/ /\ helper.answers = <<>>
          /\ SetAside
    /\ seeder' = NextHandle({})
    /\ UNCHANGED <<clock, requests, rereads, spent>>

\* The reply, and the charge for a re-read; then back to the loop.
Charged == IF spent = <<>> THEN 0 ELSE Upto(spent[Len(spent)])
SnapshotEnds(cpu) ==
    /\ seeder.pc = "snapshot" /\ seeder.left = 0
    /\ spent' = IF seeder.charged THEN Append(spent, [at |-> clock, cpu |-> cpu, before |-> Charged]) ELSE spent
    /\ seeder' = [Receiving EXCEPT !.pc = "serve"]
    /\ UNCHANGED <<clock, requests, rereads, helper, stuck>>

SeederNext ==
    \/ SeederTick \/ Wakes \/ AskName \/ QueryReturns \/ StuckReturns \/ FirstWait \/ SecondWait
    \/ \E kind \in HandleKinds, startup \in BOOLEAN : SubmitSeed(kind, startup)
    \/ \E n \in 1..MaxHandles : TakeSeed(n) \/ Serve(n)
    \/ \E cpu \in 1..MaxCpu : SnapshotEnds(cpu)

SeederSpec == SeederInit /\ [][SeederNext]_seederVars

-----------------------------------------------------------------------------
(* Properties                                                                *)

\* A late answer is never taken for the next handle (FileNamer::name), and at
\* most max_stuck helpers hang at a time.
NamesMatch ==
    /\ \A pair \in seeder.got : pair[1] = pair[2]
    /\ stuck.hung + stuck.back <= MaxStuck

\* In no window do the re-reads take more than the limit and one snapshot.
BudgetKept ==
    \A i, j \in DOMAIN spent :
        i <= j /\ spent[j].at - spent[i].at < CpuWindow => Upto(spent[j]) - spent[i].before < CpuLimit + MaxCpu

\* While a kind waits the other is served once at most, and what waits is
\* served within two windows (Waiting: served oldest first so neither starves).
NeitherStarves ==
    \A i \in DOMAIN rereads : rereads[i].passed <= 1 /\ clock - rereads[i].since <= 2 * CpuWindow

\* The seeder's helpers, its budget and its turns (FileNamer, Budget, Waiting).
SeederOK == NamesMatch /\ BudgetKept /\ NeitherStarves
=============================================================================
