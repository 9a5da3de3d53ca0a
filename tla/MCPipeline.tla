----------------------------- MODULE MCPipeline -----------------------------
(* Instances of Pipeline for TLC. *)
EXTENDS Pipeline

Event(kind, ts, irp, n, own) == [kind |-> kind, ts |-> ts, irp |-> irp, slots |-> n, own |-> own]

\* One Irp twice, the second time failing; an image load of the agent; a DNS answer.
Busy ==
    [rename |-> Event("rename", 0, 1, 0, FALSE),
     open   |-> Event("open", 1, 1, 1, FALSE),
     fail   |-> Event("fail", 2, 1, 0, FALSE),
     load   |-> Event("load", 0, 1, 0, TRUE),
     dns    |-> Event("dns", 1, 1, 0, FALSE)]
BusyEvents == DOMAIN Busy

Earliest == -1000
Caps == [kernel |-> 2, user |-> 1]
=============================================================================
