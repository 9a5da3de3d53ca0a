------------------------------- MODULE Lookups -------------------------------
(* The lookups of the pipeline thread (win/lookups.rs): account names, which *)
(* a helper thread resolves, and the map from devices to drives, which is    *)
(* read again on a timer and on a miss.                                      *)
EXTENDS Integers, FiniteSets, Sequences, Functions

CONSTANTS
    Sids,
    AccountCap,                     \* ACCOUNT_CAP
    Refresh, MissRefresh,           \* DEVICE_REFRESH, DEVICE_MISS_REFRESH
    MaxNow, MaxMounts, MaxNames     \* bounds: time, changes of the drives, calls of name

NoSid == "none"
ASSUME LookupsAssumption ==
    /\ NoSid \notin Sids
    /\ {AccountCap, Refresh, MissRefresh} \subseteq Nat \ {0}
    /\ {MaxNow, MaxMounts, MaxNames} \subseteq Nat

VARIABLES
    accounts,   \* Accounts: the cache, asked, stalled
    channels,   \* SIDs sent to the helper thread, the one it resolves, its answers
    caller,     \* Accounts::name: where it is, for which SID; the calls and timeouts so far
    devices,    \* DeviceMap: the entries, when they were read, the last miss
    drives,     \* the drive of the one volume, and when that changed
    now

accountVars == <<accounts, channels, caller>>
deviceVars == <<devices, drives, now>>

AccountInit ==
    /\ accounts = [cache |-> <<>>, asked |-> {}, stalled |-> FALSE]
    /\ channels = [jobs |-> <<>>, running |-> NoSid, done |-> <<>>]
    /\ caller = [pc |-> "idle", sid |-> NoSid, calls |-> 0, timeouts |-> 0]

-----------------------------------------------------------------------------
(* Accounts                                                                  *)

\* store: a full cache is cleared; an answer ends a stall.
StoreName(a, answer) ==
    LET kept == IF Cardinality(DOMAIN a.cache) >= AccountCap THEN <<>> ELSE a.cache
    IN [cache |-> [s \in DOMAIN kept \cup {answer.sid} |-> IF s = answer.sid THEN answer.known ELSE kept[s]],
        asked |-> a.asked \ {answer.sid}, stalled |-> FALSE]

\* name: first what the helper has answered since.
CallName(sid) ==
    /\ caller.pc = "idle" /\ caller.calls < MaxNames
    /\ caller' = [caller EXCEPT !.pc = "drain", !.sid = sid, !.calls = @ + 1]
    /\ UNCHANGED <<accounts, channels, deviceVars>>

\* An answer is taken, for this SID or another.
Stores ==
    /\ channels.done # <<>>
    /\ accounts' = StoreName(accounts, Head(channels.done))
    /\ channels' = [channels EXCEPT !.done = Tail(@)]
Returned == [caller EXCEPT !.pc = "idle", !.sid = NoSid]
Drain ==
    /\ caller.pc = "drain" /\ Stores
    /\ caller' = [caller EXCEPT !.timeouts = 0]
    /\ UNCHANGED deviceVars

\* A failure may be past its time: it is removed and asked again.
Expired(a, sid, old) == IF old THEN [a EXCEPT !.cache = Restrict(@, DOMAIN @ \ {sid})] ELSE a
\* A mutant waits though the helper is stuck.
WaitsAlways(a) == TRUE
Waits(a) == ~a.stalled
Ask(old) ==
    LET sid == caller.sid
        a == Expired(accounts, sid, old)
        asks == sid \notin DOMAIN a.cache /\ sid \notin a.asked
    IN /\ caller.pc = "drain" /\ channels.done = <<>>
       /\ old => sid \in DOMAIN accounts.cache /\ ~accounts.cache[sid]
       /\ accounts' = IF asks THEN [a EXCEPT !.asked = @ \cup {sid}] ELSE a
       /\ channels' = IF asks THEN [channels EXCEPT !.jobs = Append(@, sid)] ELSE channels
       /\ caller' = IF asks /\ Waits(a) THEN [caller EXCEPT !.pc = "wait"] ELSE Returned
       /\ UNCHANGED deviceVars

\* The wait: an answer, or the timeout.
WaitAnswered ==
    /\ caller.pc = "wait" /\ Stores
    /\ caller' = [(IF Head(channels.done).sid = caller.sid THEN Returned ELSE caller) EXCEPT !.timeouts = 0]
    /\ UNCHANGED deviceVars
WaitTimesOut ==
    /\ caller.pc = "wait" /\ channels.done = <<>>
    /\ accounts' = [accounts EXCEPT !.stalled = TRUE]
    /\ caller' = [Returned EXCEPT !.timeouts = @ + 1]
    /\ UNCHANGED <<channels, deviceVars>>

\* The helper thread: one SID at a time, a name or a failure.
ResolveSid ==
    /\ channels.running = NoSid /\ channels.jobs # <<>>
    /\ channels' = [channels EXCEPT !.running = Head(channels.jobs), !.jobs = Tail(@)]
    /\ UNCHANGED <<accounts, caller, deviceVars>>
SidResolved(known) ==
    /\ channels.running # NoSid
    /\ channels' = [channels EXCEPT !.running = NoSid, !.done = Append(@, [sid |-> channels.running, known |-> known])]
    /\ UNCHANGED <<accounts, caller, deviceVars>>

AccountNext ==
    \/ \E sid \in Sids : CallName(sid)
    \/ \E old \in BOOLEAN : Ask(old)
    \/ Drain \/ WaitAnswered \/ WaitTimesOut \/ ResolveSid
    \/ \E known \in BOOLEAN : SidResolved(known)

-----------------------------------------------------------------------------
(* Devices. Drives are numbers, 0 for a volume without one.                  *)

NoDrive == 0
Never == -1
DeviceInit ==
    /\ now = 0 /\ drives = [at |-> <<0>>, was |-> <<NoDrive>>]
    /\ devices = [drive |-> NoDrive, loaded |-> 0, missed |-> Never]

TimePasses ==
    /\ now < MaxNow
    /\ now' = now + 1
    /\ UNCHANGED <<devices, drives, accountVars>>
Current(was) == was[Len(was)]
\* The volume is mounted at another drive, or at none.
Mount(drive) ==
    /\ Len(drives.at) <= MaxMounts /\ drive # Current(drives.was)
    /\ drives' = [at |-> Append(drives.at, now), was |-> Append(drives.was, drive)]
    /\ UNCHANGED <<devices, now, accountVars>>

Reloaded(d) == [d EXCEPT !.drive = Current(drives.was), !.loaded = now]
\* dos_path: a rebuild on the timer, and on a miss unless one missed just now.
\* A mutant counts every miss as the last.
MissedAgain(d) == [d EXCEPT !.missed = now]
MissedJustNow(d) == d
Looked ==
    LET d == IF now - devices.loaded >= Refresh THEN Reloaded(devices) ELSE devices
        missed == d.drive = NoDrive
        again == missed /\ (d.missed = Never \/ now - d.missed >= MissRefresh)
    IN IF again THEN Reloaded([d EXCEPT !.missed = now]) ELSE IF missed THEN MissedJustNow(d) ELSE d
DosPath ==
    /\ devices' = Looked
    /\ UNCHANGED <<drives, now, accountVars>>

DeviceNext == TimePasses \/ DosPath \/ \E drive \in 0..2 : Mount(drive)

LookupsSpec == AccountInit /\ DeviceInit /\ [][AccountNext \/ DeviceNext]_<<accountVars, deviceVars>>

-----------------------------------------------------------------------------
(* Properties                                                                *)

InFlight == (IF channels.running = NoSid THEN <<>> ELSE <<channels.running>>) \o channels.jobs
            \o [i \in DOMAIN channels.done |-> channels.done[i].sid]
\* A SID is asked once at a time, and every one that was is on its way; the
\* pipeline thread waits out one timeout until the helper answers again.
AccountsOK ==
    /\ Range(InFlight) = accounts.asked /\ IsInjective(InFlight)
    /\ caller.timeouts <= 1
    /\ Cardinality(DOMAIN accounts.cache) <= AccountCap

\* The drive of the volume at some time in the last period.
HadWithin(period, drive) ==
    \E i \in DOMAIN drives.at : drives.was[i] = drive /\ (i < Len(drives.at) => drives.at[i + 1] > now - period)
\* What a lookup answers now is not older than the timer allows, and a volume
\* that got its drive is found after the interval of a miss (dos_path).
DevicesOK ==
    /\ HadWithin(Refresh, Looked.drive)
    /\ Looked.drive = NoDrive => HadWithin(MissRefresh, NoDrive)

\* Account names and drive letters: both (Accounts, DeviceMap).
LookupsOK == AccountsOK /\ DevicesOK
=============================================================================
