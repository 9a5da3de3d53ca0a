------------------------------- MODULE MCSensor ------------------------------
(* The life of the sensor's processes, the device file, the parsing of a     *)
(* record, the DNS buckets, the watch list and the levels of registry keys   *)
(* share no state, so each behaviour runs one.                               *)
EXTENDS Sensor, Parsing, Admission, DeviceFile, Watchlist, KeyLevels

VARIABLE running    \* which one
mcSensorVars == <<sensorVars, parsingVars, admissionVars, deviceVars, watchVars, levelVars, running>>

MCInit ==
    /\ SensorInit /\ ParsingInit /\ AdmissionInit /\ DeviceInit /\ WatchInit /\ LevelsInit
    /\ running \in {"sensor", "parsing", "buckets", "device", "watch", "levels"}
    \* one copy of the others
    /\ running # "parsing" => source.event \notin Enabled
    /\ running # "levels" => \A cap \in KeyCaps : keys.cap <= cap

MCNext ==
    /\ UNCHANGED running
    /\ \/ running = "sensor" /\ SensorNext /\ UNCHANGED <<parsingVars, admissionVars, deviceVars, watchVars, levelVars>>
       \/ running = "parsing" /\ ParsingNext /\ UNCHANGED <<sensorVars, admissionVars, deviceVars, watchVars, levelVars>>
       \/ running = "buckets" /\ AdmissionNext /\ UNCHANGED <<sensorVars, parsingVars, deviceVars, watchVars, levelVars>>
       \/ running = "device" /\ DeviceNext /\ UNCHANGED <<sensorVars, parsingVars, admissionVars, watchVars, levelVars>>
       \/ running = "watch" /\ WatchNext /\ UNCHANGED <<sensorVars, parsingVars, admissionVars, deviceVars, levelVars>>
       \/ running = "levels" /\ LevelsNext /\ UNCHANGED <<sensorVars, parsingVars, admissionVars, deviceVars, watchVars>>

MCSensorSpec == MCInit /\ [][MCNext]_mcSensorVars
\* The handles opened after the start are alike.
RunSymmetry == Permutations(Procs) \cup Permutations(Addresses \ Before)
=============================================================================
