------------------------------- MODULE Parsing -------------------------------
(* atlas-etw: the layouts of the events (layout.rs), the parsers and their   *)
(* reader (parse/mod.rs, parse/reader.rs), and the gate that decides once    *)
(* per newer version whether our newest layout may read it (gate.rs). A      *)
(* payload is the bytes a logger writes for the layout its version has; a    *)
(* parsed field is the span of bytes the parser took for it.                 *)
EXTENDS Integers, Sequences, FiniteSets, FiniteSetsExt, SequencesExt, TLC

CONSTANT Cuts       \* bytes a payload may be short of

ASSUME ParsingAssumption == Cuts \subseteq Nat /\ 0 \in Cuts

VARIABLES
    source,     \* the event of this run, and what is installed for its newer versions
    verdicts,   \* the gate's: version to verdict
    pending,    \* the record in the callback
    outcome     \* what the gate made of the last one

parsingVars == <<source, verdicts, pending, outcome>>

-----------------------------------------------------------------------------
(* layout.rs                                                                 *)

\* Consecutive fields of one type.
Fields(type, names) == [i \in 1..Len(names) |-> <<names[i], type>>]
U16(names) == Fields("UInt16", names)
U32(names) == Fields("UInt32", names)
U64(names) == Fields("UInt64", names)
Ptr(names) == Fields("Pointer", names)
Time(names) == Fields("FileTime", names)
Str(names) == Fields("UnicodeString", names)
One(name, type) == Fields(type, <<name>>)

PROCESS_START_V3 ==
    U32(<<"ProcessID">>) \o U64(<<"ProcessSequenceNumber">>) \o Time(<<"CreateTime">>) \o U32(<<"ParentProcessID">>)
        \o U64(<<"ParentProcessSequenceNumber">>)
        \o U32(<<"SessionID", "Flags", "ProcessTokenElevationType", "ProcessTokenIsElevated">>)
        \o One("MandatoryLabel", "Sid") \o Str(<<"ImageName">>) \o U32(<<"ImageChecksum", "TimeDateStamp">>)
        \o Str(<<"PackageFullName", "PackageRelativeAppId">>)
PROCESS_START_V4 == PROCESS_START_V3 \o U32(<<"SecurityMitigations">>)
PROCESS_STOP_V2 ==
    U32(<<"ProcessID">>) \o U64(<<"ProcessSequenceNumber">>) \o Time(<<"CreateTime", "ExitTime">>)
        \o U32(<<"ExitCode", "TokenElevationType", "HandleCount">>)
        \o U64(<<"CommitCharge", "CommitPeak", "CPUCycleCount">>)
        \o U32(<<"ReadOperationCount", "WriteOperationCount", "ReadTransferKiloBytes", "WriteTransferKiloBytes", "HardFaultCount">>)
        \o One("ImageName", "AnsiString")
IMAGE_LOAD_V0 ==
    Ptr(<<"ImageBase", "ImageSize">>) \o U32(<<"ProcessID", "ImageCheckSum", "TimeDateStamp">>)
        \o Ptr(<<"DefaultBase">>) \o Str(<<"ImageName">>)
FILE_CREATE_V1 ==
    Ptr(<<"Irp", "FileObject">>) \o U32(<<"IssuingThreadId", "CreateOptions", "CreateAttributes", "ShareAccess">>)
        \o Str(<<"FileName">>)
FILE_HANDLE_V1 == Ptr(<<"Irp", "FileObject", "FileKey">>) \o U32(<<"IssuingThreadId">>)
FILE_WRITE_V1 ==
    U64(<<"ByteOffset">>) \o Ptr(<<"Irp", "FileObject", "FileKey">>)
        \o U32(<<"IssuingThreadId", "IOSize", "IOFlags", "ExtraFlags">>)
FILE_SET_INFO_V1 ==
    Ptr(<<"Irp", "FileObject", "FileKey", "ExtraInformation">>) \o U32(<<"IssuingThreadId", "InfoClass">>)
FILE_OP_END_V0 == Ptr(<<"Irp", "ExtraInformation">>) \o U32(<<"Status">>)
FILE_PATH_V1 == FILE_SET_INFO_V1 \o Str(<<"FilePath">>)
REG_OPEN_V0 ==
    Ptr(<<"BaseObject", "KeyObject">>) \o U32(<<"Status", "Disposition">>) \o Str(<<"BaseName", "RelativeName">>)
REG_KEY_V0 == Ptr(<<"KeyObject">>) \o U32(<<"Status">>) \o Str(<<"KeyName">>)
REG_SET_VALUE_V0 ==
    Ptr(<<"KeyObject">>) \o U32(<<"Status", "Type", "DataSize">>) \o Str(<<"KeyName", "ValueName">>)
        \o U16(<<"CapturedDataSize">>) \o One("CapturedData", "Binary")
        \o U32(<<"PreviousDataType", "PreviousDataSize">>)
        \o U16(<<"PreviousDataCapturedSize">>) \o One("PreviousData", "Binary")
REG_DELETE_VALUE_V0 == Ptr(<<"KeyObject">>) \o U32(<<"Status">>) \o Str(<<"KeyName", "ValueName">>)
Tcp(addresses) ==
    U32(<<"PID", "size">>) \o addresses
        \o U16(<<"dport", "sport", "mss", "sackopt", "tsopt", "wsopt">>) \o U32(<<"rcvwin">>)
        \o U16(<<"rcvwinscale", "sndwinscale">>) \o U32(<<"seqnum", "connid">>)
Net(addresses) == U32(<<"PID", "size">>) \o addresses \o U16(<<"dport", "sport">>) \o U32(<<"seqnum", "connid">>)
TCP4_OPEN == Tcp(U32(<<"daddr", "saddr">>))
TCP6_OPEN == Tcp(Fields("Binary", <<"daddr", "saddr">>))
NET4_SIMPLE == Net(U32(<<"daddr", "saddr">>))
NET6_SIMPLE == Net(Fields("Binary", <<"daddr", "saddr">>))
DNS_QUERY_V0 ==
    Str(<<"QueryName">>) \o U32(<<"QueryType">>) \o U64(<<"QueryOptions">>) \o U32(<<"QueryStatus">>)
        \o Str(<<"QueryResults">>)
CLASSIC_PROCESS_V4 ==
    Ptr(<<"UniqueProcessKey">>) \o U32(<<"ProcessId", "ParentId", "SessionId">>) \o One("ExitStatus", "Int32")
        \o Ptr(<<"DirectoryTableBase">>) \o U32(<<"Flags">>) \o One("UserSID", "WbemSid")
        \o One("ImageFileName", "AnsiString") \o Str(<<"CommandLine", "PackageFullName", "ApplicationId">>)

L(provider, ids, version, fields) == {[event |-> <<provider, i>>, version |-> version, fields |-> fields] : i \in ids}
LAYOUTS == UNION {
    L("KernelProcess", {1}, 3, PROCESS_START_V3), L("KernelProcess", {1}, 4, PROCESS_START_V4),
    L("KernelProcess", {2}, 2, PROCESS_STOP_V2), L("KernelProcess", {5}, 0, IMAGE_LOAD_V0),
    L("KernelFile", {12, 30}, 1, FILE_CREATE_V1), L("KernelFile", {13, 14}, 1, FILE_HANDLE_V1),
    L("KernelFile", {16}, 1, FILE_WRITE_V1), L("KernelFile", {17, 18}, 1, FILE_SET_INFO_V1),
    L("KernelFile", {24}, 0, FILE_OP_END_V0), L("KernelFile", {26, 27}, 1, FILE_PATH_V1),
    L("KernelRegistry", {1, 2}, 0, REG_OPEN_V0), L("KernelRegistry", {3, 13}, 0, REG_KEY_V0),
    L("KernelRegistry", {5}, 0, REG_SET_VALUE_V0), L("KernelRegistry", {6}, 0, REG_DELETE_VALUE_V0),
    L("KernelNetwork", {12, 15}, 0, TCP4_OPEN), L("KernelNetwork", {28, 31}, 0, TCP6_OPEN),
    L("KernelNetwork", {13, 42, 43}, 0, NET4_SIMPLE), L("KernelNetwork", {29, 58, 59}, 0, NET6_SIMPLE),
    L("DnsClient", {3008}, 0, DNS_QUERY_V0), L("ClassicProcess", 1..4, 4, CLASSIC_PROCESS_V4)}

Find(event, version) == {l \in LAYOUTS : l.event = event /\ l.version = version}
Newest(event) == Max({l.version : l \in {k \in LAYOUTS : k.event = event}})
FieldsOf(event, version) == (CHOOSE l \in Find(event, version) : TRUE).fields

\* providers::session_a with everything on, and Session B's opcodes.
Enabled ==
    {"KernelProcess"} \X {1, 2, 5} \cup {"KernelFile"} \X {12, 13, 14, 16, 17, 18, 24, 26, 27, 30}
        \cup {"KernelRegistry"} \X {1, 2, 3, 5, 6, 13}
        \cup {"KernelNetwork"} \X {12, 13, 15, 28, 29, 31, 42, 43, 58, 59}
        \cup {"DnsClient"} \X {3008} \cup {"ClassicProcess"} \X (1..4)

-----------------------------------------------------------------------------
(* A record: what a logger writes                                            *)

\* What the values are: the bytes of a number, the units of a name that may
\* hold NULs (the last one of a registry event), the size of captured data.
Shapes == {
    [fill |-> 1, name |-> <<1>>, size |-> 0], [fill |-> 0, name |-> <<>>, size |-> 0],
    [fill |-> 1, name |-> <<1, 0, 1>>, size |-> 0], [fill |-> 0, name |-> <<1>>, size |-> 4]}
Hidden(shape) == \E i \in 1..Len(shape.name) : shape.name[i] = 0

Units(name) == FlattenSeq([i \in 1..Len(name) |-> <<name[i], 0>>])
SidBytes == <<1, 1, 0, 0, 0, 0, 0, 5>> \o <<9, 0, 0, 0>>
Filled(n, shape) == [i \in 1..n |-> shape.fill]
Sizes == {"CapturedDataSize", "PreviousDataCapturedSize"}
\* The bytes of a field: what comes before its value, the value, what ends it.
Written(field, ptr, shape) ==
    LET Number(n) == <<<<>>, Filled(n, shape), <<>>>>
    IN CASE field[2] = "UInt16" -> IF field[1] \in Sizes THEN <<<<>>, <<shape.size, 0>>, <<>>>> ELSE Number(2)
         [] field[2] \in {"UInt32", "Int32"} -> Number(4)
         [] field[2] \in {"UInt64", "FileTime"} -> Number(8)
         [] field[2] = "Pointer" -> Number(ptr)
         [] field[2] = "Binary" -> Number(IF field[1] \in {"daddr", "saddr"} THEN 16 ELSE shape.size)
         [] field[2] = "UnicodeString" ->
                <<<<>>, IF field[1] \in {"RelativeName", "ValueName"} \/ ~Hidden(shape) THEN Units(shape.name) ELSE <<1, 0>>, <<0, 0>>>>
         [] field[2] = "AnsiString" -> <<<<>>, Filled(shape.fill, shape), <<0>>>>
         [] field[2] = "Sid" -> <<<<>>, SidBytes, <<>>>>
         [] field[2] = "WbemSid" ->      \* a null SID, or a TOKEN_USER and the SID
                IF shape.fill = 0 THEN <<<<0, 0, 0, 0>>, <<>>, <<>>>>
                ELSE <<[i \in 1..(2 * ptr) |-> 1], SidBytes, <<>>>>

\* The payload, and each field's span of it.
Logged(fields, ptr, shape) ==
    LET Add(p, field) ==
            LET w == Written(field, ptr, shape)
                from == Len(p.data) + Len(w[1])
            IN [data |-> p.data \o w[1] \o w[2] \o w[3],
                spans |-> p.spans @@ (field[1] :> <<from, from + Len(w[2])>>)]
    IN FoldLeft(Add, [data |-> <<>>, spans |-> <<>>], fields)

\* A newer version is installed as ours under a new number, with a field
\* after it, with one before it, or not at all.
Changed(kind, ours) ==
    CASE kind = "same" -> ours
      [] kind = "longer" -> ours \o U32(<<"Extra">>)
      [] OTHER -> U32(<<"Extra">>) \o ours
KindOf(version) == IF version > Newest(source.event) THEN source.installed[version - Newest(source.event)] ELSE "old"
Installed(version) == IF KindOf(version) = "none" THEN {} ELSE {Changed(KindOf(version), FieldsOf(source.event, Newest(source.event)))}
Known == {l.version : l \in {k \in LAYOUTS : k.event = source.event}}
Versions == IF Known = {} THEN {0} ELSE Known \cup {v \in {Min(Known) - 1} : v >= 0} \cup {Newest(source.event) + 1, Newest(source.event) + 2}
TrueFields(version) ==
    IF Known = {} THEN U32(<<"Extra">>)
    ELSE IF version \in Known THEN FieldsOf(source.event, version)
    ELSE Changed(KindOf(version), FieldsOf(source.event, Newest(source.event)))

-----------------------------------------------------------------------------
(* parse/reader.rs                                                           *)

Byte(r, at) == r.data[at + 1]
Left(r) == Len(r.data) - r.pos
Error(r) == [r EXCEPT !.error = TRUE]
\* A field was read from here to there, and the reader is past it.
Read(r, name, from, to, pos) == [r EXCEPT !.pos = pos, !.got = @ @@ (name :> <<from, to>>)]
Take(r, name, n) == IF n <= Left(r) THEN Read(r, name, r.pos, r.pos + n, r.pos + n) ELSE Error(r)

Nuls(r) == {i \in 0..(Left(r) \div 2 - 1) : Byte(r, r.pos + 2 * i) = 0 /\ Byte(r, r.pos + 2 * i + 1) = 0}
Until(r, name, i) == Read(r, name, r.pos, r.pos + 2 * i, r.pos + 2 * i + 2)
WStr(r, name) == IF Nuls(r) = {} THEN Error(r) ELSE Until(r, name, Min(Nuls(r)))
AStr(r, name) ==
    LET zeros == {i \in 0..(Left(r) - 1) : Byte(r, r.pos + i) = 0}
    IN IF zeros = {} THEN Error(r) ELSE Read(r, name, r.pos, r.pos + Min(zeros), r.pos + Min(zeros) + 1)
SidOf(r, name) ==
    IF Left(r) < 8 \/ Byte(r, r.pos) # 1 \/ Byte(r, r.pos + 1) > 15 THEN Error(r)
    ELSE Take(r, name, 8 + 4 * Byte(r, r.pos + 1))

U16At(r, at) == Byte(r, at) + 256 * Byte(r, at + 1)
\* set_value_trailer_len is the rest of the payload.
TrailerFits(r, at) ==
    LET n == Len(r.data) - at
    IN n >= 2 /\ LET previous == 2 + U16At(r, at) + 8
                 IN n >= previous + 2 /\ previous + 2 + U16At(r, at + previous) = n
Trailers(r) == {at \in r.pos..Len(r.data) : TrailerFits(r, at)}
DataEnd(r) == {Len(r.data)}
\* counted_wstr: the last NUL after which the rest fits. A mutant takes the
\* first NUL.
FirstNul(r, name, ends) == WStr(r, name)
CountedWStr(r, name, ends) ==
    LET fits == {i \in Nuls(r) : r.pos + 2 * i + 2 \in ends}
    IN IF fits = {} THEN WStr(r, name)
       ELSE [Until(r, name, Max(fits)) EXCEPT !.ambiguous = Cardinality(fits) > 1]

-----------------------------------------------------------------------------
(* parse/mod.rs                                                              *)

\* UserSID: a null SID is four zero bytes.
WbemSid(r, name, ptr) ==
    CASE Left(r) < 4 -> Error(r)
      [] Left(r) >= 4 /\ \A i \in 0..3 : Byte(r, r.pos + i) = 0 -> Read(r, name, r.pos + 4, r.pos + 4, r.pos + 4)
      [] OTHER -> IF Left(r) < 2 * ptr THEN Error(r) ELSE SidOf([r EXCEPT !.pos = @ + 2 * ptr], name)
Captured(r, sizeName, name) ==
    LET sized == Take(r, sizeName, 2)
    IN IF sized.error THEN sized ELSE Take(sized, name, U16At(r, r.pos))

file_set_info == Fields("ptr", <<"Irp", "FileObject", "FileKey", "ExtraInformation">>)
                    \o Fields("u32", <<"IssuingThreadId", "InfoClass">>)
file_create == Fields("ptr", <<"Irp", "FileObject">>)
    \o Fields("u32", <<"IssuingThreadId", "CreateOptions", "CreateAttributes", "ShareAccess">>) \o One("FileName", "wstr")
file_handle == Fields("ptr", <<"Irp", "FileObject", "FileKey">>) \o One("IssuingThreadId", "u32")
reg_key == One("KeyObject", "ptr") \o One("Status", "u32") \o One("KeyName", "wstr")
net(ip, options) ==
    Fields("u32", <<"PID", "size">>) \o Fields(ip, <<"daddr", "saddr">>) \o Fields("u16", <<"dport", "sport">>)
        \o options \o Fields("u32", <<"seqnum", "connid">>)
TcpOptions == One("mss..sndwinscale", "skip16")
process_start(version) ==
    One("ProcessID", "u32") \o Fields("u64", <<"ProcessSequenceNumber", "CreateTime">>) \o One("ParentProcessID", "u32")
        \o One("ParentProcessSequenceNumber", "u64")
        \o Fields("u32", <<"SessionID", "Flags", "ProcessTokenElevationType", "ProcessTokenIsElevated">>)
        \o One("MandatoryLabel", "sid") \o One("ImageName", "wstr")
        \o Fields("u32", <<"ImageChecksum", "TimeDateStamp">>)
        \o Fields("wstr", <<"PackageFullName", "PackageRelativeAppId">>)
        \o IF version >= 4 THEN One("SecurityMitigations", "u32") ELSE <<>>
process_stop ==
    One("ProcessID", "u32") \o Fields("u64", <<"ProcessSequenceNumber", "CreateTime", "ExitTime">>)
        \o One("ExitCode", "u32") \o One("TokenElevationType..HardFaultCount", "skip52") \o One("ImageName", "astr")
image_load ==
    Fields("ptr", <<"ImageBase", "ImageSize">>) \o Fields("u32", <<"ProcessID", "ImageCheckSum", "TimeDateStamp">>)
        \o One("DefaultBase", "ptr") \o One("ImageName", "wstr")
file_write ==
    One("ByteOffset", "u64") \o Fields("ptr", <<"Irp", "FileObject", "FileKey">>)
        \o Fields("u32", <<"IssuingThreadId", "IOSize", "IOFlags", "ExtraFlags">>)
reg_open ==
    Fields("ptr", <<"BaseObject", "KeyObject">>) \o Fields("u32", <<"Status", "Disposition">>)
        \o One("BaseName", "wstr") \o One("RelativeName", "last")
reg_set_value ==
    One("KeyObject", "ptr") \o Fields("u32", <<"Status", "Type", "DataSize">>) \o One("KeyName", "wstr")
        \o One("ValueName", "counted") \o One("CapturedDataSize", "captured")
        \o Fields("u32", <<"PreviousDataType", "PreviousDataSize">>) \o One("PreviousDataCapturedSize", "captured")
dns_query == One("QueryName", "wstr") \o One("QueryType", "u32") \o One("QueryOptions", "u64")
    \o One("QueryStatus", "u32") \o One("QueryResults", "wstr")
classic_process ==
    One("UniqueProcessKey", "ptr") \o Fields("u32", <<"ProcessId", "ParentId", "SessionId", "ExitStatus">>)
        \o One("DirectoryTableBase", "ptr") \o One("Flags", "u32") \o One("UserSID", "wbem")
        \o One("ImageFileName", "astr") \o Fields("wstr", <<"CommandLine", "PackageFullName", "ApplicationId">>)

\* parse_known's table: the parser of each event.
Parser(event, version) ==
    LET id == event[2]
    IN CASE event[1] = "KernelProcess" ->
                (CASE id = 1 -> process_start(version) [] id = 2 -> process_stop [] id = 5 -> image_load)
         [] event[1] = "KernelFile" ->
                (CASE id \in {12, 30} -> file_create [] id \in {13, 14} -> file_handle [] id = 16 -> file_write
                   [] id \in {17, 18} -> file_set_info [] id \in {26, 27} -> file_set_info \o One("FilePath", "wstr")
                   [] id = 24 -> Fields("ptr", <<"Irp", "ExtraInformation">>) \o One("Status", "u32"))
         [] event[1] = "KernelRegistry" ->
                (CASE id \in {1, 2} -> reg_open [] id \in {3, 13} -> reg_key [] id = 5 -> reg_set_value
                   [] id = 6 -> reg_key \o One("ValueName", "last"))
         [] event[1] = "KernelNetwork" ->
                net(IF id \in {28, 31, 29, 58, 59} THEN "ip6" ELSE "ip4", IF id \in {12, 28, 15, 31} THEN TcpOptions ELSE <<>>)
         [] event[1] = "DnsClient" -> dns_query
         [] event[1] = "ClassicProcess" -> classic_process

Widths == [u16 |-> 2, u32 |-> 4, ip4 |-> 4, u64 |-> 8, ip6 |-> 16, skip16 |-> 16, skip52 |-> 52]
\* One read of a parser; names end at the first NUL unless the layout is exact.
ReadField(r, read, ptr, exact) ==
    LET name == read[1]
        kind == read[2]
    IN CASE r.error -> r
         [] ~r.error /\ kind \in DOMAIN Widths -> Take(r, name, Widths[kind])
         [] ~r.error /\ kind = "ptr" -> Take(r, name, ptr)
         [] ~r.error /\ (kind = "wstr" \/ (kind \in {"last", "counted"} /\ ~exact)) -> WStr(r, name)
         [] ~r.error /\ kind = "last" /\ exact -> [CountedWStr(r, name, DataEnd(r)) EXCEPT !.ambiguous = FALSE]
         [] ~r.error /\ kind = "counted" /\ exact -> CountedWStr(r, name, Trailers(r))
         [] ~r.error /\ kind = "captured" ->
                Captured(r, name, IF name = "CapturedDataSize" THEN "CapturedData" ELSE "PreviousData")
         [] ~r.error /\ kind = "astr" -> AStr(r, name)
         [] ~r.error /\ kind = "sid" -> SidOf(r, name)
         [] ~r.error /\ kind = "wbem" -> WbemSid(r, name, ptr)
ParseKnown(event, version, ptr, data, exact) ==
    LET Next1(r, read) == ReadField(r, read, ptr, exact)
    IN FoldLeft(Next1, [data |-> data, pos |-> 0, error |-> FALSE, got |-> <<>>, ambiguous |-> FALSE], Parser(event, version))

-----------------------------------------------------------------------------
(* gate.rs                                                                   *)

IsPrefixOf(known, newer) == Len(known) <= Len(newer) /\ \A i \in 1..Len(known) : known[i] = newer[i]
VerdictOf(ours, installed) ==
    IF installed = {} \/ \A theirs \in installed : ~IsPrefixOf(ours, theirs) THEN "Rejected"
    ELSE IF \E theirs \in installed : Len(theirs) = Len(ours) THEN "Same" ELSE "Prefix"
\* The verdicts are kept by version. A mutant keeps one for all.
OneForAll(version) == 0
VerdictKey(version) == version

NoRecord == [version |-> -1]
NoOutcome == [kind |-> "none"]
ParsingInit ==
    /\ source \in [event : Enabled \cup {<<"Other", 1>>},
                  installed : {<<"same", "longer">>, <<"longer", "moved">>, <<"moved", "same">>, <<"none", "longer">>}]
    /\ source.event \notin Enabled => source.installed[1] = "none"
    /\ verdicts = <<>> /\ pending = NoRecord /\ outcome = NoOutcome

\* ETW calls the consumer's callback with a record.
LogRecord(version, ptr, shape, cut) ==
    /\ pending = NoRecord /\ outcome = NoOutcome
    /\ pending' = [version |-> version, ptr |-> ptr, shape |-> shape, cut |-> cut]
    /\ UNCHANGED <<source, verdicts, outcome>>

\* VersionGate::parse: an event, or what on_event counts.
Outcome(rec, version, exact) ==
    LET whole == Logged(TrueFields(rec.version), rec.ptr, rec.shape)
        data == SubSeq(whole.data, 1, Len(whole.data) - rec.cut)
        r == ParseKnown(source.event, version, rec.ptr, data, exact)
    IN [kind |-> IF r.error THEN "parse_errors" ELSE "parsed", rec |-> rec, exact |-> exact,
        got |-> r.got, ambiguous |-> r.ambiguous, spans |-> whole.spans]
Refused(rec, kind) == [kind |-> kind, rec |-> rec, exact |-> TRUE]
GateParse ==
    /\ pending # NoRecord
    /\ LET newest == Newest(source.event)
           key == VerdictKey(pending.version)
           v == IF key \in DOMAIN verdicts THEN verdicts[key]
                ELSE VerdictOf(FieldsOf(source.event, newest), Installed(pending.version))
       IN IF Known = {} THEN outcome' = Refused(pending, "unknown_event") /\ UNCHANGED verdicts
          ELSE IF pending.version \in Known
          THEN outcome' = Outcome(pending, pending.version, TRUE) /\ UNCHANGED verdicts
          ELSE IF pending.version < newest
          THEN outcome' = Refused(pending, "unknown_version") /\ UNCHANGED verdicts
          ELSE /\ verdicts' = verdicts @@ (key :> v)
               /\ outcome' = IF v = "Rejected" THEN Refused(pending, "unknown_version")
                             ELSE Outcome(pending, newest, v = "Same")
    /\ pending' = NoRecord
    /\ UNCHANGED source

\* on_event gets what was parsed, or counts the error.
OnEvent ==
    /\ outcome # NoOutcome /\ outcome' = NoOutcome
    /\ UNCHANGED <<source, verdicts, pending>>

ParsingNext ==
    \/ \E version \in Versions, ptr \in {4, 8}, shape \in Shapes, cut \in Cuts : LogRecord(version, ptr, shape, cut)
    \/ GateParse \/ OnEvent

-----------------------------------------------------------------------------
(* Properties                                                                *)

\* A name with a NUL in it is cut at the NUL when the payload was short, or a
\* newer layout goes on after ours (parse_as); and a short SetValueKey with
\* captured data, which Windows never fills, may read as another whole one.
Unsure(o) ==
    \/ Hidden(o.rec.shape) /\ (o.rec.cut > 0 \/ ~o.exact)
    \/ o.rec.cut > 0 /\ o.rec.shape.size > 0

\* Every field the parser returns is the bytes the logger wrote for it, unless
\* it says that a value's name is ambiguous: whatever the version, the pointer
\* size and the values, and however short the payload (parse, parse_as, gate).
FieldsRight ==
    outcome.kind = "parsed" /\ ~Unsure(outcome) /\ ~outcome.ambiguous =>
        \A f \in DOMAIN outcome.got \cap DOMAIN outcome.spans : outcome.got[f] = outcome.spans[f]

\* Every enabled event of a version we know, or whose installed layout starts
\* with ours, is parsed when its payload is whole, and no other is (Enabled,
\* LAYOUTS, the parsers' table and the gate agree).
AllParsed ==
    outcome.kind # "none" =>
        LET v == outcome.rec.version
            ours == Known # {} /\ (v \in Known \/ KindOf(v) \in {"same", "longer"})
        IN /\ ours /\ outcome.rec.cut = 0 => outcome.kind = "parsed" \/ Unsure(outcome)
           /\ outcome.kind = "parsed" => ours
           /\ outcome.kind = "unknown_event" <=> source.event \notin Enabled

\* The two: what the gate lets through is read as it was written.
ParsedRight == FieldsRight /\ AllParsed
=============================================================================
