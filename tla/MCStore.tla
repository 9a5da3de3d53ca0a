------------------------------ MODULE MCStore ------------------------------
(* Store for TLC: the agent's threads as strings, as Store names them.      *)
EXTENDS Store

Threads == {"pipeline", "health", "main"}
Both == {"pipeline", "writer"}
Second == {2}
=============================================================================
