------------------------------- MODULE MCLanes -------------------------------
(* The service lanes, the lookups and the event buffer's writer share no     *)
(* state, so each behaviour runs one.                                        *)
EXTENDS Hashing, Expanding, Seeder, Lookups, BufferWriter

VARIABLE running    \* which one
lookupVars == <<accountVars, deviceVars>>
lanes == <<hashVars, expandVars, seederVars, lookupVars>>
laneVars == <<lanes, vars, running>>

MCInit ==
    /\ HashInit /\ ExpandInit /\ SeederInit /\ AccountInit /\ DeviceInit /\ Init
    /\ running \in {"hash", "expand", "seeder", "accounts", "devices", "writer"}
    /\ running # "hash" => file.usn # NoKey     \* one copy of the others

MCNext ==
    /\ UNCHANGED running
    /\ \/ running = "hash" /\ HashNext /\ UNCHANGED <<expandVars, seederVars, lookupVars, vars>>
       \/ running = "expand" /\ ExpandNext /\ UNCHANGED <<hashVars, seederVars, lookupVars, vars>>
       \/ running = "seeder" /\ SeederNext /\ UNCHANGED <<hashVars, expandVars, lookupVars, vars>>
       \/ running = "accounts" /\ AccountNext /\ UNCHANGED <<hashVars, expandVars, seederVars, vars>>
       \/ running = "devices" /\ DeviceNext /\ UNCHANGED <<hashVars, expandVars, seederVars, vars>>
       \/ running = "writer" /\ Next /\ UNCHANGED lanes

LanesSpec == MCInit /\ [][MCNext]_laneVars
WorkerSymmetry == Permutations(Workers)

\* One record is larger than a segment and fills most of the cap.
Lens == [r \in Recs |-> <<1, 1, 10, 1>>[r]]
=============================================================================
