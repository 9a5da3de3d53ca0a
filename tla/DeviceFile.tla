----------------------------- MODULE DeviceFile -----------------------------
(* win/identity.rs: device_uid reads the device's uid from its file or makes *)
(* the file once: written under a temporary name, flushed, then linked into  *)
(* place. Callers race, any call may fail, a process may end anywhere, and a *)
(* power cut keeps what was flushed and perhaps the link.                    *)
EXTENDS Integers, FiniteSets

CONSTANTS
    Callers,            \* each calls device_uid once; a caller's name is the uid it makes
    MaxFailures, MaxCuts
ASSUME DeviceAssumption == {MaxFailures, MaxCuts} \subseteq Nat

VARIABLES
    caller,     \* where each caller is
    tmp,        \* each caller's temporary file: none, written (in part or whole) or flushed
    file,       \* device.json: whose uid it holds, whether all of it, whether flushed
    given,      \* the uids returned so far
    calls       \* what failed: failed calls, power cuts, links a power cut lost

deviceVars == <<caller, tmp, file, given, calls>>

NoFile == [of |-> "none", whole |-> FALSE, flushed |-> FALSE]
DeviceInit ==
    /\ caller = [c \in Callers |-> "start"]
    /\ tmp = [c \in Callers |-> "none"]
    /\ file = NoFile
    /\ given = {}
    /\ calls = [failed |-> 0, cuts |-> 0, lost |-> 0]

Is(c, pc) == caller[c] = pc
Moves(c, pc) == caller' = [caller EXCEPT ![c] = pc]
\* One of the calls fails; each is counted.
CallFails == calls.failed < MaxFailures /\ calls' = [calls EXCEPT !.failed = @ + 1]

Exists(c) ==
    /\ Is(c, "start") /\ Moves(c, IF file = NoFile THEN "create" ELSE "read")
    /\ UNCHANGED <<tmp, file, given, calls>>

\* create_new of a fresh name, and write_all of it or of a part.
WriteTmp(c, ok) ==
    /\ Is(c, "create") /\ Moves(c, IF ok THEN "flush" ELSE "fail")
    /\ tmp' = [tmp EXCEPT ![c] = "written"]
    /\ IF ok THEN UNCHANGED calls ELSE CallFails
    /\ UNCHANGED <<file, given>>

\* sync_all; a mutant links what is not flushed.
Unflushed(c) == Moves(c, "link") /\ UNCHANGED tmp
Flushed(c) == Moves(c, "link") /\ tmp' = [tmp EXCEPT ![c] = "flushed"]
SyncTmp(c, ok) ==
    /\ Is(c, "flush")
    /\ \/ ok /\ Flushed(c) /\ UNCHANGED calls
       \/ ~ok /\ Moves(c, "fail") /\ CallFails /\ UNCHANGED tmp
    /\ UNCHANGED <<file, given>>

\* The link fails if the file is there by now: then that one is read. A
\* mutant replaces it.
Replaced(c) == TRUE
MayLink(c) == file = NoFile
LinkTmp(c, ok) ==
    /\ Is(c, "link")
    /\ \/ ok /\ MayLink(c) /\ Moves(c, "linked") /\ file' = [of |-> c, whole |-> TRUE, flushed |-> tmp[c] = "flushed"]
          /\ UNCHANGED calls
       \/ ok /\ ~MayLink(c) /\ Moves(c, "exists") /\ UNCHANGED <<file, calls>>
       \/ ~ok /\ Moves(c, "fail") /\ CallFails /\ UNCHANGED file
    /\ UNCHANGED <<tmp, given>>

\* The temporary is removed whatever came of it, as far as that succeeds.
RemoveTmp(c, ok) ==
    /\ caller[c] \in {"linked", "exists", "fail"}
    /\ IF ok THEN tmp' = [tmp EXCEPT ![c] = "none"] /\ UNCHANGED calls ELSE CallFails /\ UNCHANGED tmp
    /\ Moves(c, CASE Is(c, "linked") -> "done" [] Is(c, "exists") -> "read" [] Is(c, "fail") -> "refused")
    /\ given' = given \cup (IF Is(c, "linked") THEN {c} ELSE {})
    /\ UNCHANGED file

\* A file that is not valid is an error, and is never replaced.
ReadFile(c) ==
    /\ Is(c, "read")
    /\ Moves(c, IF file.whole THEN "done" ELSE "refused")
    /\ given' = given \cup (IF file.whole THEN {file.of} ELSE {})
    /\ UNCHANGED <<tmp, file, calls>>

\* The process ends.
Ends(c) ==
    /\ caller[c] \notin {"done", "refused", "ended"} /\ Moves(c, "ended")
    /\ UNCHANGED <<tmp, file, given, calls>>

\* A power cut ends every caller and cuts what was not flushed; the directory,
\* which nobody flushes, may lose the link.
PowerCut(keepsLink) ==
    /\ calls.cuts < MaxCuts
    /\ caller' = [c \in Callers |-> IF caller[c] = "start" THEN "start" ELSE "ended"]
    /\ file' = IF keepsLink /\ file # NoFile THEN [file EXCEPT !.whole = @ /\ file.flushed] ELSE NoFile
    /\ calls' = [calls EXCEPT !.cuts = @ + 1, !.lost = IF ~keepsLink /\ given # {} THEN @ + 1 ELSE @]
    /\ UNCHANGED <<tmp, given>>

DeviceNext ==
    \/ \E c \in Callers, ok \in BOOLEAN : WriteTmp(c, ok) \/ SyncTmp(c, ok) \/ LinkTmp(c, ok) \/ RemoveTmp(c, ok)
    \/ \E c \in Callers : Exists(c) \/ ReadFile(c) \/ Ends(c)
    \/ \E keeps \in BOOLEAN : PowerCut(keeps)

DeviceSpec == DeviceInit /\ [][DeviceNext]_deviceVars

-----------------------------------------------------------------------------
\* The device has one uid: callers that race, calls that fail and processes
\* that end never make a second, only a power cut that loses the link does;
\* and the file never holds part of one, which every later start would refuse
\* (device_uid: "a new uid would split the device's history").
DeviceKept ==
    /\ Cardinality(given) <= 1 + calls.lost
    /\ file # NoFile => file.whole
=============================================================================
