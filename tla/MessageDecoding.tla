---------------------------- MODULE MessageDecoding ---------------------------
(***************************************************************************)
(* From the bytes of a message to the exposed metrics of a device:         *)
(* MessageHandler detects the format, decodes the parameters, merges them  *)
(* into the state of the device and hands the full state to the metric     *)
(* store (src/mqtt_exporter.go:278-361), which converts names and values   *)
(* and writes one sample after another in the order of a map, which is     *)
(* arbitrary (metric.go:55-69, prometheus.go:104-113).                     *)
(*                                                                         *)
(* One device and one callback routine; MessagePipeline has several.       *)
(***************************************************************************)
EXTENDS ProtobufDecoder, TLC

CONSTANTS
    Inboxes,        \* BOUND: sequences of messages that the broker may deliver
    Device,         \* the serial number that is configured
    OnlineName      \* the metric name of "online"

\* What is received was encoded and masked as the devices do it.
ASSUME InboxAssumption ==
    \A box \in Inboxes :
        /\ box \in Seq(Range(box))
        /\ \A i \in DOMAIN box : IsMessage(box[i])

\* It is no name of a battery pack.
ASSUME OnlineNameAssumption == OnlineName[1] = "o"

VARIABLES
    inbox,          \* the messages of this behaviour
    at,             \* number of the message received last
    step,           \* where MessageHandler is
    params,         \* parameters decoded so far
    nextHeader,     \* index of the header to read
    parsedCount,    \* headers read
    deviceState,    \* the merged parameters of the device
    left,           \* samples still to be written
    metrics,        \* exposed name -> value
    unknownCommands,\* command -> headers of it that could not be read
    mqttMessages,   \* telemetry: messages by format
    decodeErrors,   \* telemetry: decoding errors
    lastMessage     \* telemetry: the message whose parameters were passed on last

inputVars == <<inbox, at>>
decoderVars == <<params, nextHeader, parsedCount>>
telemetryVars == <<mqttMessages, decodeErrors, lastMessage>>
vars == <<inputVars, step, decoderVars, deviceState, left, metrics, unknownCommands,
          telemetryVars>>

Formats == {"json", "protobuf", "unknown"}
payload == inbox[at]

\* The last part of a topic.
getSnFromTopic(topic) == IF topic = <<>> THEN "" ELSE Last(topic)

NewTelemetry ==
    /\ mqttMessages = [f \in Formats |-> 0]
    /\ decodeErrors = 0
    /\ lastMessage = 0

NewProtobufDecoder == unknownCommands = NoParams

Init ==
    /\ inbox \in Inboxes /\ at = 0
    /\ step = "idle"
    /\ params = NoParams /\ nextHeader = 1 /\ parsedCount = 0
    /\ deviceState = NoParams
    /\ left = {} /\ metrics = NoParams
    /\ NewTelemetry /\ NewProtobufDecoder

\* Telemetry counts messages by format, and errors; the serial number is left out.
MqttMessage(format) == mqttMessages' = [mqttMessages EXCEPT ![format] = @ + 1]
DecodeError == decodeErrors' = decodeErrors + 1
DeviceSeen == lastMessage' = at

\* The topic has no serial number, or one that is not configured.
Ignore ==
    /\ step = "idle" /\ at < Len(inbox)
    /\ getSnFromTopic(inbox[at + 1].topic) # Device
    /\ at' = at + 1
    /\ UNCHANGED <<inbox, step, decoderVars, deviceState, left, metrics, unknownCommands,
                   telemetryVars>>

\* An unknown format is an error.
Receive ==
    /\ step = "idle" /\ at < Len(inbox)
    /\ getSnFromTopic(inbox[at + 1].topic) = Device
    /\ at' = at + 1
    /\ LET format == DetectFormat(inbox[at + 1])
       IN /\ MqttMessage(format)
          /\ step' = IF format = "unknown" THEN "idle" ELSE format
          /\ IF format = "unknown" THEN DecodeError ELSE UNCHANGED decodeErrors
    /\ params' = NoParams
    /\ UNCHANGED <<inbox, nextHeader, parsedCount, deviceState, left, metrics,
                   unknownCommands, lastMessage>>

\* The JSON case: `params` may be something else than an object.
DecodeJson ==
    /\ step = "json"
    /\ \/ /\ payload.kind = "json"
          /\ params' = payload.params
          /\ step' = "decoded"
          /\ UNCHANGED decodeErrors
       \/ /\ payload.kind = "object"
          /\ DecodeError
          /\ step' = "idle"
          /\ UNCHANGED params
    /\ UNCHANGED <<inputVars, nextHeader, parsedCount, deviceState, left, metrics,
                   unknownCommands, mqttMessages, lastMessage>>

\* The protobuf case: the headers are there, DetectFormat has seen to it.
DecodeProtobufMessage ==
    /\ step = "protobuf" /\ payload.headers # <<>>
    /\ step' = "headers"
    /\ nextHeader' = 1 /\ parsedCount' = 0
    /\ UNCHANGED <<inputVars, params, deviceState, left, metrics, unknownCommands,
                   telemetryVars>>

\* An entry of a map is written, new or not.
Put(map, key, value) ==
    [k \in DOMAIN map \cup {key} |-> IF k = key THEN value ELSE map[k]]

\* logUnknownCommand also counts known commands that cannot be read.
logUnknownCommand(cmd) ==
    LET seen == IF cmd \in DOMAIN unknownCommands THEN unknownCommands[cmd] ELSE 0
    IN  unknownCommands' = Put(unknownCommands, cmd, seen + 1)

\* One header: what it has is merged, or it is passed over.
DecodeHeader ==
    /\ step = "headers" /\ nextHeader <= Len(payload.headers)
    /\ LET header == payload.headers[nextHeader]
           read == ReadHeader(header)
       IN /\ params' = MergeParams(params, read.params)
          /\ IF read.parsed
             THEN parsedCount' = parsedCount + 1 /\ UNCHANGED unknownCommands
             ELSE logUnknownCommand(header.cmd) /\ UNCHANGED parsedCount
    /\ nextHeader' = nextHeader + 1
    /\ UNCHANGED <<inputVars, step, deviceState, left, metrics, telemetryVars>>

\* Mutant: a message without parameters is an error.
EndHeadersNoParams ==
    /\ step = "headers" /\ nextHeader > Len(payload.headers)
    /\ step' = IF params = NoParams THEN "idle" ELSE "decoded"
    /\ IF params = NoParams THEN DecodeError ELSE UNCHANGED decodeErrors
    /\ UNCHANGED <<inputVars, decoderVars, deviceState, left, metrics, unknownCommands,
                   mqttMessages, lastMessage>>

\* After the last header: an error if none could be read.
EndHeaders ==
    /\ step = "headers" /\ nextHeader > Len(payload.headers)
    /\ step' = IF parsedCount = 0 THEN "idle" ELSE "decoded"
    /\ IF parsedCount = 0 THEN DecodeError ELSE UNCHANGED decodeErrors
    /\ UNCHANGED <<inputVars, decoderVars, deviceState, left, metrics, unknownCommands,
                   mqttMessages, lastMessage>>

\* 330-346: no parameters, nothing to do; else they are merged.
MergeState ==
    /\ step = "decoded"
    /\ step' = IF params = NoParams THEN "idle" ELSE "merged"
    /\ deviceState' = MergeParams(deviceState, params)
    /\ UNCHANGED <<inputVars, decoderVars, left, metrics, unknownCommands, telemetryVars>>

\* The parameters that become samples with a number.
Samples(state) == {p \in DOMAIN state : HasMetricName(p) /\ Numeric(state[p])}

\* 348-361: the handlers get the merged state.
Dispatch ==
    /\ step = "merged" /\ step' = "handling"
    /\ DeviceSeen
    /\ left' = Samples(deviceState)
    /\ UNCHANGED <<inputVars, decoderVars, deviceState, metrics, unknownCommands,
                   mqttMessages, decodeErrors>>

\* An iteration of Handle's loop over the samples.
SetSample(p) ==
    /\ step = "handling" /\ p \in left
    /\ metrics' = Put(metrics, MetricName(p), deviceState[p].v)
    /\ left' = left \ {p}
    /\ UNCHANGED <<inputVars, step, decoderVars, deviceState, unknownCommands, telemetryVars>>

\* `online` comes last.
SetOnline ==
    /\ step = "handling" /\ left = {}
    /\ metrics' = Put(metrics, OnlineName, 1)
    /\ step' = "idle"
    /\ UNCHANGED <<inputVars, decoderVars, deviceState, left, unknownCommands, telemetryVars>>

Next ==
    \/ Ignore \/ Receive \/ DecodeJson \/ DecodeProtobufMessage \/ DecodeHeader
    \/ EndHeaders \/ MergeState \/ Dispatch \/ SetOnline
    \/ \E p \in left : SetSample(p)

Spec == Init /\ [][Next]_vars

-----------------------------------------------------------------------------
(* What the device said, told without the decoder's steps.                 *)

\* The value of every parameter in the last of the parts that has it.
LastOf(parts) ==
    [p \in UNION {DOMAIN parts[i] : i \in DOMAIN parts} |->
        parts[Max({i \in DOMAIN parts : p \in DOMAIN parts[i]})][p]]

\* The messages of the device among the first n.
Heard(n) == {i \in 1 .. n : getSnFromTopic(inbox[i].topic) = Device}

\* Headers that say something this program knows, masked or not.
Known(h) == h.pdata.kind = "json" \/ (h.pdata.kind = "message" /\ TypeOf(h) # "none")

Said(h) ==
    IF h.pdata.kind = "json" THEN h.pdata.params ELSE AsParams(FlatParams(TypeOf(h), h.pdata.m))

HeadersOf(message) == IF message.kind = "headers" THEN message.headers ELSE <<>>
KnownHeaders(message) ==
    {k \in DOMAIN HeadersOf(message) : Known(HeadersOf(message)[k])}

SaidBy(message) ==
    IF message.kind = "json" THEN message.params
    ELSE LastOf([k \in KnownHeaders(message) |-> Said(message.headers[k])])

OnlyNumbers(ps) == [p \in {q \in DOMAIN ps : ps[q].kind # "other"} |-> ps[p]]

\* What the device said last of every parameter, in its first n messages.
Latest(n) == LastOf([i \in Heard(n) |-> SaidBy(inbox[i])])
LatestNumbers(n) == LastOf([i \in Heard(n) |-> OnlyNumbers(SaidBy(inbox[i]))])

Named(ps, n) == {p \in DOMAIN ps : HasMetricName(p) /\ MetricName(p) = n}

\* What a metric shows after n messages.
Sources(n, name) ==
    IF Named(OnlyNumbers(Latest(n)), name) # {} THEN OnlyNumbers(Latest(n)) ELSE LatestNumbers(n)

Explained(n) ==
    /\ \A p \in DOMAIN OnlyNumbers(Latest(n)) :
          HasMetricName(p) => MetricName(p) \in DOMAIN metrics
    /\ \A name \in DOMAIN metrics \ {OnlineName} :
          \E p \in Named(Sources(n, name), name) : metrics[name] = Sources(n, name)[p].v
    /\ OnlineName \in DOMAIN metrics => metrics[OnlineName] = 1

\* Every number the device sent last is exposed; a metric shows the latest value
\* of a parameter that has its name, of any of them when several do, and keeps
\* its last number when the parameter is no number any more (metric.go:126,
\* prometheus.go:104-110, decoder.go:209).  `online` is never overwritten by a
\* parameter that has its name.
ExposedExplained == step = "idle" => Explained(at)

\* The headers that report the charge of a pack, and what they report.
Reports(message) ==
    {k \in DOMAIN HeadersOf(message) :
        LET h == message.headers[k]
        IN /\ h.pdata.kind = "message" /\ TypeOf(h) = "BMSHeartBeatReport"
           /\ <<"s">> \in DOMAIN h.pdata.m}
ReportAt(i, k) == inbox[i].headers[k].pdata.m
PackName(num) == <<"b", "m", "s", "_">> \o Decimal(num) \o <<"_", "s">>

\* The parameters of a message that are JSON.
JsonParams(message) ==
    IF message.kind = "json" THEN DOMAIN message.params
    ELSE UNION {DOMAIN h.pdata.params :
                   h \in {g \in Range(HeadersOf(message)) : g.pdata.kind = "json"}}

\* Battery packs share their field names and come one report each, several in a
\* message: each pack has a series of its own, with the latest value it sent,
\* unless a JSON parameter has the very same name (messages.go:54-57).
PacksKeptApart ==
    step = "idle" =>
        \A i \in Heard(at) : \A k \in Reports(inbox[i]) :
            LET num == GetNum(ReportAt(i, k))
                again == \E j \in Heard(at) : \E l \in Reports(inbox[j]) :
                            GetNum(ReportAt(j, l)) = num /\ (j > i \/ (j = i /\ l > k))
                taken == \E j \in Heard(at) : \E p \in JsonParams(inbox[j]) :
                            HasMetricName(p) /\ MetricName(p) = PackName(num)
            IN ~again /\ ~taken =>
                  /\ PackName(num) \in DOMAIN metrics
                  /\ metrics[PackName(num)] = ReportAt(i, k)[<<"s">>].v

\* A word of a name has letters and digits, and begins at a capital or after any
\* other rune.
IsLetter(r) == IsMetricNameRune(ToLower(r)) /\ r # "_"
Letters(s) == {i \in DOMAIN s : IsLetter(s[i])}
Rank(s, i) == Cardinality({j \in Letters(s) : j <= i})
Begins(s, i) == IsUpper(s[i]) \/ i = 1 \/ ~IsLetter(s[i - 1])

\* The same letters in the same words.
SameWords(s, t) ==
    /\ Cardinality(Letters(s)) = Cardinality(Letters(t))
    /\ \A i \in Letters(s), j \in Letters(t) :
          Rank(s, i) = Rank(t, j) =>
              ToLower(s[i]) = ToLower(t[j]) /\ (Begins(s, i) <=> Begins(t, j))

\* A metric name is one that Prometheus accepts and has the words of the
\* parameter it came from, however dots, capitals, underscores and runes of
\* other scripts follow each other (metric.go:108-146).
NamesKeepWords ==
    step = "handling" =>
        \A p \in DOMAIN deviceState :
            HasMetricName(p) =>
                LET name == MetricName(p)
                IN /\ \A i \in DOMAIN name : IsMetricNameRune(name[i]) /\ ~IsUpper(name[i])
                   /\ SameWords(name, p)

\* Nothing in the message is known.
Nothing(message) == message.kind # "json" /\ KnownHeaders(message) = {}
Errors(n) == {i \in Heard(n) : Nothing(inbox[i])}

\* The headers of the first n messages that say nothing this program knows.
Unread(n) ==
    UNION {{<<i, k>> : k \in DOMAIN HeadersOf(inbox[i]) \ KnownHeaders(inbox[i])} :
              i \in Heard(n)}
CommandAt(pos) == inbox[pos[1]].headers[pos[2]].cmd

WithParams(n) == {i \in Heard(n) : SaidBy(inbox[i]) # NoParams}

\* Masked or not, sparse or not, a message counts as an error exactly when there
\* is nothing in it that this program knows; a known message without any field
\* is none.  A command that cannot be read is counted as often as it comes, and
\* the last message is one that had parameters (decoder.go:176, 213-215, 248-249,
\* mqtt_exporter.go:278-333, 360).
TelemetryTells ==
    step = "idle" =>
        /\ decodeErrors = Cardinality(Errors(at))
        /\ mqttMessages["json"] + mqttMessages["protobuf"] + mqttMessages["unknown"]
              = Cardinality(Heard(at))
        /\ DOMAIN unknownCommands = {CommandAt(pos) : pos \in Unread(at)}
        /\ \A cmd \in DOMAIN unknownCommands :
              unknownCommands[cmd] = Cardinality({pos \in Unread(at) : CommandAt(pos) = cmd})
        /\ lastMessage = Max(WithParams(at) \cup {0})

=============================================================================
