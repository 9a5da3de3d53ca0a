------------------------------ MODULE Admission -------------------------------
(* intake.rs: the token buckets that limit each process's DNS-Client events  *)
(* by event time. Past the cap the buckets of idle processes are forgotten.  *)
EXTENDS Integers, FiniteSets, FiniteSetsExt, Functions, Sequences

CONSTANTS
    Pids, Rate,         \* events a process may log in a second
    Frequency,          \* ticks in a second
    BucketCap, Idle,    \* the buckets kept, the ticks after which one is idle
    Jitter,             \* an event is at most this late
    MaxTicks, MaxQueries

ASSUME AdmissionAssumption ==
    /\ {Rate, Frequency, BucketCap, Idle, Jitter, MaxTicks, MaxQueries} \subseteq Nat
    /\ Frequency > 0 /\ Idle >= Frequency + Jitter     \* an idle bucket is full (10 s)

VARIABLES
    buckets,    \* by_pid: millitokens and the time of the last event
    clock,      \* the time now
    passed      \* the times of the events let through, per process

admissionVars == <<buckets, clock, passed>>

AdmissionInit == buckets = <<>> /\ clock = 0 /\ passed = [p \in Pids |-> <<>>]

Forgetful(ts) == IF Cardinality(DOMAIN buckets) > BucketCap THEN <<>> ELSE buckets
\* Past the cap, the buckets idle for ten seconds go. A mutant drops all.
Retained(ts) ==
    IF Cardinality(DOMAIN buckets) > BucketCap
    THEN Restrict(buckets, {p \in DOMAIN buckets : buckets[p].last >= ts - Idle})
    ELSE buckets
Bucket(p, ts) == IF p \in DOMAIN Retained(ts) THEN Retained(ts)[p] ELSE [tokens |-> 1000 * Rate, last |-> ts]
Refilled(b, ts) == Min({b.tokens + (Max({ts - b.last, 0}) * 1000 * Rate) \div Frequency, 1000 * Rate})

\* take, and the drop of an event without a token.
TakeToken(p, ts) ==
    /\ Rate > 0 /\ FoldFunction(LAMBDA s, n : Len(s) + n, 0, passed) < MaxQueries
    /\ LET b == Bucket(p, ts)
           tokens == Refilled(b, ts)
           pass == tokens >= 1000
       IN /\ buckets' = [q \in DOMAIN Retained(ts) \cup {p} |->
                            IF q = p THEN [tokens |-> IF pass THEN tokens - 1000 ELSE tokens, last |-> Max({b.last, ts})]
                            ELSE Retained(ts)[q]]
          /\ passed' = IF pass THEN [passed EXCEPT ![p] = Append(@, ts)] ELSE passed
    /\ UNCHANGED clock
Tick == clock < MaxTicks /\ clock' = clock + 1 /\ UNCHANGED <<buckets, passed>>

AdmissionNext == Tick \/ \E p \in Pids, late \in 0..Jitter : clock >= late /\ TakeToken(p, clock - late)

\* In no stretch of event time does a process pass more than a full bucket and
\* the tokens of that time, the forgotten buckets and late events
\* notwithstanding: "a full bucket is the same as no bucket" (Buckets::take).
RateKept ==
    \A p \in Pids : \A i, j \in 1..Len(passed[p]) :
        i <= j => (j - i + 1) * Frequency
                    <= Rate * Frequency + Rate * (Max({passed[p][k] : k \in i..j}) - Min({passed[p][k] : k \in i..j}))
=============================================================================
