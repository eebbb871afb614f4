--------------------------- MODULE ProtobufDecoder --------------------------
(***************************************************************************)
(* Messages of devices and how internal/protobuf reads them.  Bytes are    *)
(* abstracted to what they say: a payload, or the pdata of a header, is a  *)
(* record with a `kind`, and pdata carries the byte it is masked with.     *)
(*                                                                         *)
(* Field and parameter names are sequences of runes, see MetricNames; they *)
(* are abbreviated, and a message type has one field of each kind that the *)
(* generated struct has.  A set of parameters is a function on its names.  *)
(***************************************************************************)
EXTENDS MetricNames, FiniteSetsExt

-----------------------------------------------------------------------------
(* The schema: ecoflow.pb.go                                               *)

Field(kind) == [kind |-> kind, list |-> FALSE, of |-> "none"]
List(kind)  == [kind |-> kind, list |-> TRUE, of |-> "none"]
Nested(type) == [kind |-> "message", list |-> FALSE, of |-> type]

\* Schema functions give the set fields of a message by their JSON names.
NamedFields(pairs) ==
    [n \in {p[1] : p \in pairs} |-> (CHOOSE p \in pairs : p[1] = n)[2]]

PropertyUpload == NamedFields({
    << <<"p", "S">>, Field("float") >>, << <<"p", "B">>, Field("uint32") >>,
    << <<"n">>, Field("int32") >>, << <<"s", "A">>, Field("string") >>,
    << <<"p", "x">>, Field("bytes") >>,
    << <<"o", "S">>, Nested("EnergyStrategyOperateMode") >> })

EnergyStrategyOperateMode == NamedFields({ << <<"o", "A">>, Field("int32") >> })

CMSHeartBeatReport == NamedFields({
    << <<"m", "0">>, Nested("CMSStatus1") >>, << <<"m", "1">>, Nested("CMSStatus2") >> })

CMSStatus1 == NamedFields({
    << <<"s">>, Field("float") >>, << <<"n">>, Field("int32") >>,
    << <<"p", "B">>, Field("uint32") >>, << <<"x">>, List("int32") >> })

CMSStatus2 == NamedFields({ << <<"m", "A">>, Field("int32") >> })

BMSHeartBeatReport == NamedFields({
    << <<"n">>, Field("uint32") >>, << <<"s">>, Field("uint32") >>,
    << <<"a", "S">>, Field("float") >>, << <<"a">>, Field("int32") >>,
    << <<"p", "S">>, Field("string") >>, << <<"x">>, List("uint32") >>,
    << <<"m">>, List("int32") >> })

Schema == [PropertyUpload |-> PropertyUpload, CMSHeartBeatReport |-> CMSHeartBeatReport,
           BMSHeartBeatReport |-> BMSHeartBeatReport, CMSStatus1 |-> CMSStatus1,
           CMSStatus2 |-> CMSStatus2,
           EnergyStrategyOperateMode |-> EnergyStrategyOperateMode]

\* A message value holds the fields that are set: a scalar as [v |-> n], a nested
\* message as [m |-> value].  n.b. an optional field may be set to zero.
BmsNum == <<"n">>

\* GetNum: 0 when the field is not set.
GetNum(m) == IF BmsNum \in DOMAIN m THEN m[BmsNum].v ELSE 0

-----------------------------------------------------------------------------
(* Commands and nested messages: messages.go                               *)

bmsHeartbeatCommands ==
    {<<3, i>> : i \in {1, 2, 30, 50}} \cup {<<32, i>> : i \in {1, 3, 50, 51, 52}}
    \cup {<<254, i>> : i \in 24 .. 30}

NewMessageFor(cmdFunc, cmdId) ==
    CASE cmdFunc = 254 /\ cmdId \in {21, 22}        -> "PropertyUpload"
      [] cmdFunc = 32 /\ cmdId = 2                  -> "CMSHeartBeatReport"
      [] <<cmdFunc, cmdId>> \in bmsHeartbeatCommands -> "BMSHeartBeatReport"
      [] OTHER                                      -> "none"

\* The set scalars of a message with the values that flattenMessage writes.
\* Repeated fields and bytes are skipped; a string stays a string.
Scalars(type, m, prefix) ==
    LET fields == {f \in DOMAIN m : /\ ~Schema[type][f].list
                                    /\ Schema[type][f].kind \notin {"message", "bytes"}}
    IN {<<prefix \o f, IF Schema[type][f].kind = "string" THEN Other ELSE Number(m[f].v)>> :
           f \in fields}

\* flattenMessage: nested messages under "parent.", or under the prefix alone.
\* No message is nested deeper, so the recursion is written out once.
FlattenMessage(type, m, prefix, inlineNested) ==
    LET nested == {f \in DOMAIN m : Schema[type][f].kind = "message"}
    IN Scalars(type, m, prefix) \cup
       UNION {Scalars(Schema[type][f].of, m[f].m,
                      IF inlineNested THEN prefix ELSE prefix \o f \o <<".">>) : f \in nested}

\* Decimal digits of a pack number, a uint32: ten at most.
Power == <<1, 10, 100, 1000, 10000, 100000, 1000000, 10000000, 100000000, 1000000000>>
Width(n) == Max({1} \cup {k \in 1 .. 10 : n >= Power[k]})
Decimal(n) ==
    [i \in 1 .. Width(n) |-> Digit[((n \div Power[Width(n) - i + 1]) % 10) + 1]]
BmsPrefix(num) == <<"b", "m", "s", ".">> \o Decimal(num) \o <<".">>

\* Mutant: one prefix for all packs.
FlatParamsOnePack(type, m) ==
    CASE type = "BMSHeartBeatReport" -> FlattenMessage(type, m, BmsPrefix(0), FALSE)
      [] type = "CMSHeartBeatReport" -> FlattenMessage(type, m, <<>>, TRUE)
      [] OTHER                       -> FlattenMessage(type, m, <<>>, FALSE)

\* decodeProtobufPdata of a supported command, after proto.Unmarshal.
FlatParams(type, m) ==
    CASE type = "BMSHeartBeatReport" -> FlattenMessage(type, m, BmsPrefix(GetNum(m)), FALSE)
      [] type = "CMSHeartBeatReport" -> FlattenMessage(type, m, <<>>, TRUE)
      [] OTHER                       -> FlattenMessage(type, m, <<>>, FALSE)

-----------------------------------------------------------------------------
(* Headers: decoder.go                                                     *)

\* Bitwise exclusive or of two bytes, bit by bit.
Xor(a, b) ==
    LET bit(weight) == weight * ((a \div weight + b \div weight) % 2)
    IN  bit(1) + bit(2) + bit(4) + bit(8) + bit(16) + bit(32) + bit(64) + bit(128)

\* xorDecrypt: every byte with the lowest byte of the sequence number.
XorDecrypt(pdata, seq) == [pdata EXCEPT !.mask = Xor(@, seq % 256)]

Decrypted(h) ==
    IF h.encType = 1 /\ h.seq # 0 /\ h.src # 32 THEN XorDecrypt(h.pdata, h.seq) ELSE h.pdata

TypeOf(h) == NewMessageFor(h.cmd[1], h.cmd[2])

\* proto.Unmarshal yields fields of the schema only; TLC has no number as large as
\* a uint32 may be.
HasFields(type, m) ==
    \A f \in DOMAIN m :
        /\ f \in DOMAIN Schema[type]
        /\ Schema[type][f] = Field("uint32") => m[f].v \in Nat /\ m[f].v \div 65536 < 65536
        /\ Schema[type][f].kind = "message" =>
               DOMAIN m[f].m \subseteq DOMAIN Schema[Schema[type][f].of]

\* The fields of a Header that are read, cmd being <<cmdFunc, cmdId>>.  Devices
\* mask pdata with the lowest byte of the sequence number, or not at all.
IsHeader(h) ==
    /\ DOMAIN h = {"cmd", "encType", "seq", "src", "pdata"}
    /\ h.seq \in Int
    /\ {"kind", "mask"} \subseteq DOMAIN h.pdata
    /\ h.pdata.mask = IF h.encType = 1 /\ h.src # 32 THEN h.seq % 256 ELSE 0
    /\ h.pdata.kind = "json" => "params" \in DOMAIN h.pdata /\ IsParams(h.pdata.params)
    /\ h.pdata.kind = "message" => "m" \in DOMAIN h.pdata
    /\ h.pdata.kind = "message" /\ TypeOf(h) # "none" => HasFields(TypeOf(h), h.pdata.m)

\* A payload: an object with parameters or without, headers, or something else.
IsMessage(m) ==
    /\ m.kind = "json" => IsParams(m.params)
    /\ m.kind = "headers" => /\ m.headers \in Seq(Range(m.headers))
                              /\ \A k \in DOMAIN m.headers : IsHeader(m.headers[k])

AsParams(pairs) == NamedFields(pairs)
NoParams == AsParams({})

\* One iteration of DecodeProtobufMessage: JSON whatever the command is, or the
\* nested message that the command selects.  Masked bytes are neither.
ReadHeader(h) ==
    LET pdata == Decrypted(h)
        type  == TypeOf(h)
        ok(params) == [parsed |-> TRUE, params |-> params]
        failed == [parsed |-> FALSE, params |-> NoParams]
    IN IF pdata.mask = 0 /\ pdata.kind = "json" THEN ok(pdata.params)
       ELSE IF pdata.mask = 0 /\ pdata.kind = "message" /\ type # "none"
            THEN ok(AsParams(FlatParams(type, pdata.m)))
       ELSE failed

\* Mutant: the first header wins.
MergeParamsKeep(old, new) ==
    [p \in DOMAIN old \cup DOMAIN new |-> IF p \in DOMAIN old THEN old[p] ELSE new[p]]

\* Parameters of a later header replace those of an earlier one.
MergeParams(old, new) ==
    [p \in DOMAIN old \cup DOMAIN new |-> IF p \in DOMAIN new THEN new[p] ELSE old[p]]

\* DetectFormat: an object is JSON, anything with a header is protobuf.
DetectFormat(payload) ==
    CASE payload.kind \in {"json", "object"}                     -> "json"
      [] payload.kind = "headers" /\ payload.headers # <<>>      -> "protobuf"
      [] OTHER                                                   -> "unknown"

=============================================================================
