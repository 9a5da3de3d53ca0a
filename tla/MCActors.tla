------------------------------- MODULE MCActors -------------------------------
(* Two processes that have the same PID one after the other; the first may   *)
(* have been running before.                                                 *)
EXTENDS Actors
CONSTANTS idle, first, second
MCPidOf == idle :> 0 @@ first :> 2 @@ second :> 2
MCParent == [p \in Procs |-> idle]
=============================================================================
