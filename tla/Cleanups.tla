------------------------------ MODULE Cleanups -------------------------------
(* What the callback keeps to pass on Cleanup outcomes (intake.rs), and what *)
(* an outcome says (cleanup.rs). An Irp is its thread's and serves one       *)
(* operation after another. None of the caps is reached.                     *)
EXTENDS Integers, Functions, FiniteSets, TLC

CONSTANT OutcomeWindow    \* OUTCOME_WINDOW
ASSUME OutcomeAssumption == OutcomeWindow \in Nat

\* UNKNOWN (a file system that does not say), FILE_REMAINS, FILE_DELETED, and
\* the latter with POSIX_STYLE_DELETE.
Outcomes == {"unknown", "remains", "deleted", "posix"}
Removed(info) == info \in Outcomes \ {"unknown", "remains"}

Forget(f, k) == Restrict(f, DOMAIN f \ {k})
With(f, k, v) == (k :> v) @@ f

\* The operations of a Kernel-File event with an Irp, but Cleanup and OperationEnd.
OpIrp(m) == m.what \notin {"cleanup", "end"}

NoCleanups == [irps |-> <<>>, early |-> <<>>, requested |-> {}, requestIrps |-> <<>>, onClose |-> {},
               unpaired |-> 0]

NextOp(c, irp) ==
    [c EXCEPT !.early = Forget(@, irp), !.requestIrps = Forget(@, irp), !.irps = Forget(@, irp),
              !.unpaired = IF irp \in DOMAIN c.irps THEN @ + 1 ELSE @]

InWindow(end, ts) == end >= ts /\ end - ts <= OutcomeWindow

\* decide: passed on if it removed the name, or says nothing for a file whose
\* delete was requested. A delete passed on is no longer outstanding.
Passes(c, fo, key, info) == Removed(info) \/ (info = "unknown" /\ (key \in c.requested \/ fo \in c.onClose))
Decided(c, fo, key, info) == IF Passes(c, fo, key, info) THEN [c EXCEPT !.requested = @ \ {key}] ELSE c

\* cleanup: a delete-on-close handle's FileKey is first known here; the outcome
\* that came first is passed on now. A mutant forgets that it came.
CameLost(c, m) == FALSE
Came(c, m) == m.irp \in DOMAIN c.early /\ InWindow(c.early[m.irp].ts, m.ts)
OnCleanup(c, m) ==
    LET next == NextOp(c, m.irp)
        asked == IF m.fo \in c.onClose THEN [next EXCEPT !.requested = @ \cup {m.key}] ELSE next
    IN IF Came(c, m)
       THEN [cleanups |-> Decided(asked, m.fo, m.key, c.early[m.irp].info),
             also |-> IF Passes(asked, m.fo, m.key, c.early[m.irp].info) THEN {c.early[m.irp]} ELSE {}]
       ELSE [cleanups |-> [asked EXCEPT !.irps = With(@, m.irp, m)], also |-> {}]

\* end: of a Cleanup, of a delete request, or early; unpaired counts the
\* Cleanups whose outcome is late or given up (cleanup_outcome_late, _unpaired).
OnEnd(c, m) ==
    LET done == [c EXCEPT !.requestIrps = Forget(@, m.irp), !.irps = Forget(@, m.irp)]
        request == m.irp \in DOMAIN c.requestIrps
        paired == m.irp \in DOMAIN c.irps
        of == c.irps[m.irp]
    IN IF paired /\ InWindow(m.ts, of.ts)
       THEN [cleanups |-> Decided(done, of.fo, of.key, m.info),
             pass |-> request \/ Passes(done, of.fo, of.key, m.info)]
       ELSE [cleanups |-> IF paired THEN [done EXCEPT !.unpaired = @ + 1]
                          ELSE IF Removed(m.info) THEN [done EXCEPT !.early = With(@, m.irp, m)] ELSE done,
             pass |-> request]

\* failed: a failed request is taken back.
OnFailed(c, m) ==
    [c EXCEPT !.irps = Forget(@, m.irp), !.early = Forget(@, m.irp), !.requestIrps = Forget(@, m.irp),
              !.requested = IF m.irp \in DOMAIN c.requestIrps THEN @ \ {c.requestIrps[m.irp]} ELSE @]

OnRequest(c, m) ==
    [c EXCEPT !.requestIrps = With(@, m.irp, m.key), !.requested = @ \cup {m.key}]

\* clear: on a delete-on-close handle that handle's flag, else the file's.
OnClear(c, m) ==
    IF m.fo \in c.onClose THEN [c EXCEPT !.onClose = @ \ {m.fo}] ELSE [c EXCEPT !.requested = @ \ {m.key}]

\* on_event, the part about files: what is kept, and what goes to the queue.
OnFileEvent(c, m) ==
    LET next == IF OpIrp(m) THEN NextOp(c, m.irp) ELSE c
        Keeps(d) == [cleanups |-> d, sends |-> {m}]
    IN CASE m.what = "end" /\ m.ok -> [cleanups |-> OnEnd(next, m).cleanups,
                                       sends |-> IF OnEnd(next, m).pass THEN {m} ELSE {}]
         [] m.what = "end" /\ ~m.ok -> Keeps(OnFailed(next, m))
         [] m.what = "cleanup" -> [cleanups |-> OnCleanup(next, m).cleanups,
                                   sends |-> {m} \cup OnCleanup(next, m).also]
         [] m.what = "close" -> Keeps([next EXCEPT !.onClose = @ \ {m.fo}])
         [] m.what = "create" /\ m.onClose -> Keeps([next EXCEPT !.onClose = @ \cup {m.fo}])
         [] m.what \in {"deletePath", "setDelete"} -> Keeps(OnRequest(next, m))
         [] m.what = "clearDelete" -> Keeps(OnClear(next, m))
         [] OTHER -> Keeps(next)
=============================================================================
