------------------------------ MODULE EventLog ------------------------------
(***************************************************************************)
(* What the event buffer promises its users, without segments, files,      *)
(* cursors or flushes.  Records are numbered as they are appended.  While  *)
(* the agent runs a record leaves the log in three ways only: it was       *)
(* delivered and acked, it was evicted or dropped, and then counted (an    *)
(* eviction only if the policy counts), or the disk was damaged.  When the *)
(* agent ends, or the power, only what no flush covered may go too.        *)
(***************************************************************************)
EXTENDS Naturals, FiniteSets

CONSTANT Counted  \* evictions are counted (every policy but Retention)

VARIABLES
  up,      \* a writer is open
  n,       \* records offered so far
  held,    \* records the log holds, queued ones included
  safe,    \* those of them a flush has covered
  given,   \* records a reader was given
  owed,    \* records evicted or dropped since the last report
  errors,  \* I/O errors so far
  damage   \* damages of the disk so far

vars == <<up, n, held, safe, given, owed, errors, damage>>

Init ==
  /\ up = FALSE /\ n = 0 /\ held = {} /\ safe = {} /\ given = {}
  /\ owed = 0 /\ errors = 0 /\ damage = 0

\* The process starts and opens the log.
Start ==
  /\ ~up /\ up' = TRUE
  /\ UNCHANGED <<n, held, safe, given, owed, errors, damage>>

\* A record is taken, or refused.
Put ==
  /\ up /\ n' = n + 1
  /\ held' \in {held, held \cup {n'}}
  /\ UNCHANGED <<up, safe, given, owed, errors, damage>>

\* A flush covers some of the records.
Cover ==
  /\ up /\ safe \subseteq safe' /\ safe' \subseteq held
  /\ UNCHANGED <<up, n, held, given, owed, errors, damage>>

Remove(S) == held' = held \ S /\ safe' = safe \ S

\* Records go to keep the cap; a segment that cannot be read counts none.
Evict ==
  /\ up
  /\ \E S \in SUBSET held :
       /\ Remove(S)
       /\ \/ Counted /\ owed' = owed + Cardinality(S) /\ UNCHANGED errors
          \/ ~Counted /\ UNCHANGED <<owed, errors>>
          \/ Counted /\ errors' = errors + 1 /\ UNCHANGED owed
  /\ UNCHANGED <<up, n, given, damage>>

\* Where nothing may be evicted, records that no flush has covered are dropped
\* and counted, under every policy.
Drop ==
  /\ up
  /\ \E S \in SUBSET (held \ safe) : Remove(S) /\ owed' = owed + Cardinality(S)
  /\ UNCHANGED <<up, n, given, errors, damage>>

\* Delivered records go: their ack, or the next start, deletes them.
Release ==
  /\ \E S \in SUBSET (held \cap given) : Remove(S)
  /\ UNCHANGED <<up, n, given, owed, errors, damage>>

\* A record is given to a reader, also one that has just been removed.
Give ==
  /\ \E r \in 1..n : given' = given \cup {r}
  /\ UNCHANGED <<up, n, held, safe, owed, errors, damage>>

\* The evictions and drops so far are reported.
Report ==
  /\ up /\ owed' = 0
  /\ UNCHANGED <<up, n, held, safe, given, errors, damage>>

\* An I/O error changes nothing.
Error ==
  /\ errors' = errors + 1
  /\ UNCHANGED <<up, n, held, safe, given, owed, damage>>

\* The end of the process or of the power takes what was not flushed, and the
\* count of what was evicted or dropped.
End ==
  /\ up' = FALSE /\ owed' = 0
  /\ safe \subseteq safe' /\ safe' \subseteq held' /\ held' \subseteq held
  /\ errors' \in {errors, errors + 1}
  /\ UNCHANGED <<n, given, damage>>

Damaged ==
  /\ damage' = damage + 1
  /\ \E S \in SUBSET held : Remove(S)
  /\ UNCHANGED <<up, n, given, owed, errors>>

Next ==
  \/ Start \/ Put \/ Cover \/ Evict \/ Drop \/ Release \/ Give \/ Report \/ Error \/ End
  \/ Damaged
Spec == Init /\ [][Next]_vars
=============================================================================
