------------------------------- MODULE Queue -------------------------------
(* The bounded queues between the agent's threads (queue.rs): an unbounded  *)
(* channel whose cap is kept by a shared counter. The counter and the       *)
(* channel change in separate atomic steps, so a sender counts its message  *)
(* before it is in the channel, a refused sender counts one too many for a  *)
(* moment, and the receiver's message leaves the channel before the count.  *)
EXTENDS Integers, Sequences, FiniteSets

CONSTANTS
    Senders,    \* the threads that hold a QueueSender
    Cap         \* messages try_send lets in

ASSUME QueueAssumption == Cap \in Nat \ {0}

VARIABLES
    chan,       \* the channel's messages, oldest first
    len,        \* the shared counter
    adding,     \* adding[s]: the message s has counted and not yet sent, or <<>>
    backing,    \* the senders that were refused and have not yet uncounted it
    taken,      \* the receiver took a message and has not yet uncounted it
    rxOpen      \* the receiver exists

queueVars == <<chan, len, adding, backing, taken, rxOpen>>

QueueInit ==
    /\ chan = <<>>
    /\ len = 0
    /\ adding = [s \in Senders |-> <<>>]
    /\ backing = {}
    /\ taken = FALSE
    /\ rxOpen = TRUE

\* Mutant of Full: the comparison is off by one.
FullLate == len > Cap

\* What try_send's fetch_add returned says that the queue is full.
Full == len >= Cap

\* send counts the message whatever the cap.
Reserve(s, msg) ==
    /\ len' = len + 1
    /\ adding' = [adding EXCEPT ![s] = <<msg>>]
    /\ UNCHANGED <<chan, backing, taken, rxOpen>>

\* try_send: the fetch_add that decides.
TryReserve(s, msg) ==
    \/ /\ ~Full
       /\ Reserve(s, msg)
    \/ /\ Full
       /\ len' = len + 1
       /\ backing' = backing \cup {s}
       /\ UNCHANGED <<chan, adding, taken, rxOpen>>

\* Mutant of Withdraw: a refused message stays counted.
WithdrawKeepsCount(s) ==
    /\ s \in backing
    /\ backing' = backing \ {s}
    /\ UNCHANGED <<chan, len, adding, taken, rxOpen>>

\* try_send's refusal: the count goes back, the caller gets Full.
Withdraw(s) ==
    /\ s \in backing
    /\ len' = len - 1
    /\ backing' = backing \ {s}
    /\ UNCHANGED <<chan, adding, taken, rxOpen>>

\* The channel takes the counted message.
Put(s) ==
    /\ adding[s] # <<>>
    /\ rxOpen
    /\ chan' = chan \o adding[s]
    /\ adding' = [adding EXCEPT ![s] = <<>>]
    /\ UNCHANGED <<len, backing, taken, rxOpen>>

\* The receiver is gone: the count goes back, the caller gets Disconnected.
PutFails(s) ==
    /\ adding[s] # <<>>
    /\ ~rxOpen
    /\ len' = len - 1
    /\ adding' = [adding EXCEPT ![s] = <<>>]
    /\ UNCHANGED <<chan, backing, taken, rxOpen>>

\* try_recv and recv_timeout take the oldest message ...
Take ==
    /\ rxOpen
    /\ chan # <<>>
    /\ chan' = Tail(chan)
    /\ taken' = TRUE
    /\ UNCHANGED <<len, adding, backing, rxOpen>>

\* ... and then uncount it.
Uncount ==
    /\ taken
    /\ taken' = FALSE
    /\ len' = len - 1
    /\ UNCHANGED <<chan, adding, backing, rxOpen>>

\* The receiver is dropped, with what is still in the channel.
DropReceiver ==
    /\ rxOpen' = FALSE
    /\ chan' = <<>>
    /\ UNCHANGED <<len, adding, backing, taken>>
=============================================================================
