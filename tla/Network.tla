------------------------------- MODULE Network -------------------------------
(* The network tables (pipeline/net.rs): TCP connections with the direction  *)
(* their Close will need, UDP flows that stand for many datagrams. A TCP key *)
(* is the PID with its two ends, a UDP key the process with its two ends.    *)
EXTENDS Integers, FiniteSets, FiniteSetsExt, Functions

CONSTANTS
    FlowCap,    \* flow_cap: of each table
    UdpIdle     \* udp_idle

ASSUME NetworkAssumption == FlowCap \in Nat \ {0} /\ UdpIdle \in Nat

Outbound == "outbound"
Inbound == "inbound"
NoNetwork == [tcp |-> <<>>, flows |-> <<>>]      \* functions with no domain

\* A full TCP table is cleared whole.
TcpOpen(net, key, direction) ==
    LET old == IF Cardinality(DOMAIN net.tcp) >= FlowCap THEN <<>> ELSE net.tcp
    IN [net EXCEPT !.tcp = [k \in DOMAIN old \cup {key} |-> IF k = key THEN direction ELSE old[k]]]

\* A Close takes its entry, and the direction with it.
TcpClose(net, key) == [net EXCEPT !.tcp = Restrict(@, DOMAIN @ \ {key})]

\* Flows idle at stream time now; the least recently active eighth of a full table.
Idle(net, now) == {k \in DOMAIN net.flows : net.flows[k].last + UdpIdle < now}
Full(net) == Cardinality(DOMAIN net.flows) >= FlowCap
Victims(net) ==
    CHOOSE old \in SUBSET DOMAIN net.flows :
        /\ Cardinality(old) = Max({Cardinality(DOMAIN net.flows) \div 8, 1})
        /\ \A k \in old, l \in DOMAIN net.flows \ old : net.flows[k].last <= net.flows[l].last
\* A mutant of Without: the flows are closed and stay.
Kept(net, gone) == net
Without(net, gone) == [net EXCEPT !.flows = Restrict(@, DOMAIN @ \ gone)]

\* A datagram of a flow that is there; of a new one, with the flows it closes.
Seen(net, key, ts) == [net EXCEPT !.flows[key].last = Max({@, ts})]
Displaced(net) == IF Full(net) THEN Victims(net) ELSE {}
FlowOpen(net, key, direction, ts) ==
    LET left == Without(net, Displaced(net))
    IN [left EXCEPT !.flows = [k \in DOMAIN @ \cup {key} |->
            IF k = key THEN [direction |-> direction, last |-> ts] ELSE @[k]]]
=============================================================================
