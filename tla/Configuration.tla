---------------------------- MODULE Configuration -----------------------------
(***************************************************************************)
(* LoadConfig (src/config.go): the settings of the environment, read with  *)
(* their defaults and checked; all errors are collected.                   *)
(*                                                                         *)
(* A setting is a record: `is` says what the text looks like, v is what it *)
(* says.  A file setting names a file and v is what the file contains; the *)
(* empty text is NoText.  An error is known by the variable it is about.   *)
(***************************************************************************)
EXTENDS Integers, Sequences, SequencesExt

CONSTANTS
    Second,                 \* time.Second
    HalfRange,              \* 2^63: a time.Duration is below it, and not below its negative
    DefaultRestInterval, DefaultOfflineThreshold,    \* config.go:19-22, in seconds
    DefaultPingInterval, DefaultStateRefreshInterval

ASSUME ConfigurationAssumption ==
    /\ Second \in Nat \ {0} /\ HalfRange \in Nat \ {0}
    /\ \A n \in {DefaultRestInterval, DefaultOfflineThreshold, DefaultPingInterval,
                 DefaultStateRefreshInterval} :
          n \in Nat \ {0} /\ n * Second < HalfRange

\* The variables that LoadConfig reads.
Settings ==
    {"EXPORTER_TYPE", "ECOFLOW_ACCESS_KEY", "ECOFLOW_SECRET_KEY",
     "ECOFLOW_SECRET_KEY_FILE", "ECOFLOW_EMAIL", "ECOFLOW_PASSWORD",
     "ECOFLOW_PASSWORD_FILE", "ECOFLOW_DEVICES", "ECOFLOW_DEVICES_PRETTY_NAMES",
     "PROMETHEUS_PORT", "PROTOBUF_DEBUG", "METRIC_PREFIX", "SCRAPING_INTERVAL",
     "MQTT_DEVICE_OFFLINE_THRESHOLD_SECONDS", "MQTT_PING_INTERVAL_SECONDS",
     "MQTT_STATE_REFRESH_INTERVAL_SECONDS"}

NoText == ""
Unset == [is |-> "unset"]
Blank == [is |-> "blank"]

\* raw: "Empty values are treated as unset".
Given(e, key) == e[key] \notin {Unset, Blank}

Str(e, key, def) == IF Given(e, key) THEN e[key].v ELSE def

BoolErrors(e, key) == IF Given(e, key) /\ e[key].is # "bool" THEN {key} ELSE {}
Bool(e, key) == IF Given(e, key) /\ e[key].is = "bool" THEN e[key].v ELSE FALSE

WholeNumber(e, key, def) == IF Given(e, key) /\ e[key].is = "number" THEN e[key].v ELSE def
WholeNumberErrors(e, key) == IF Given(e, key) /\ e[key].is # "number" THEN {key} ELSE {}

\* The product of two int64.
Wrapped(n) == ((n + HalfRange) % (2 * HalfRange)) - HalfRange

Seconds(e, key, def) == Wrapped(WholeNumber(e, key, def) * Second)
SecondsErrors(e, key, def) ==
    WholeNumberErrors(e, key) \cup (IF WholeNumber(e, key, def) <= 0 THEN {key} ELSE {})

FileKey == [ECOFLOW_SECRET_KEY |-> "ECOFLOW_SECRET_KEY_FILE",
            ECOFLOW_PASSWORD |-> "ECOFLOW_PASSWORD_FILE"]

\* Mutant: the file comes first.
SecretFileFirst(e, key) ==
    IF Given(e, FileKey[key]) /\ e[FileKey[key]].is = "file" THEN e[FileKey[key]].v
    ELSE IF Given(e, key) THEN e[key].v
    ELSE NoText

\* secret: the variable, else the contents of the file.
Secret(e, key) ==
    IF Given(e, key) THEN e[key].v
    ELSE IF Given(e, FileKey[key]) /\ e[FileKey[key]].is = "file" THEN e[FileKey[key]].v
    ELSE NoText

SecretErrors(e, key) ==
    IF ~Given(e, key) /\ Given(e, FileKey[key]) /\ e[FileKey[key]].is # "file"
    THEN {FileKey[key]} ELSE {}

Ports == 1 .. 65535
PortErrors(e) ==
    IF Given(e, "PROMETHEUS_PORT")
       /\ ~(e["PROMETHEUS_PORT"].is = "number" /\ e["PROMETHEUS_PORT"].v \in Ports)
    THEN {"PROMETHEUS_PORT"} ELSE {}

PrefixErrors(e) ==
    IF Given(e, "METRIC_PREFIX") /\ e["METRIC_PREFIX"].is # "name" THEN {"METRIC_PREFIX"}
    ELSE {}

\* parseDeviceMapping: a pretty name wins; blank serial numbers are left out.
NoDevices == [sn \in {} |-> NoText]
MappingErrors(e) ==
    IF Given(e, "ECOFLOW_DEVICES_PRETTY_NAMES") /\ e["ECOFLOW_DEVICES_PRETTY_NAMES"].is # "json"
    THEN {"ECOFLOW_DEVICES_PRETTY_NAMES"} ELSE {}
Mapping(e) ==
    IF MappingErrors(e) # {} THEN NoDevices
    ELSE LET pretty == Str(e, "ECOFLOW_DEVICES_PRETTY_NAMES", NoDevices)
             listed == ToSet(Str(e, "ECOFLOW_DEVICES", <<>>))
         IN [sn \in (DOMAIN pretty \cup listed) \ {NoText} |->
                IF sn \in DOMAIN pretty THEN pretty[sn] ELSE sn]

Credentials(e) ==
    [accessKey |-> Str(e, "ECOFLOW_ACCESS_KEY", NoText),
     secretKey |-> Secret(e, "ECOFLOW_SECRET_KEY"),
     email     |-> Str(e, "ECOFLOW_EMAIL", NoText),
     password  |-> Secret(e, "ECOFLOW_PASSWORD")]

detectExporterType(c) ==
    CASE c.accessKey # NoText \/ c.secretKey # NoText -> "rest"
      [] c.accessKey = NoText /\ c.secretKey = NoText
         /\ (c.email # NoText \/ c.password # NoText) -> "mqtt"
      [] OTHER -> NoText

\* strings.ToLower of the exporter types.
ToLowerType(t) == IF t = "REST" THEN "rest" ELSE IF t = "Mqtt" THEN "mqtt" ELSE t

ExporterType(e) ==
    IF Given(e, "EXPORTER_TYPE") THEN ToLowerType(e["EXPORTER_TYPE"].v)
    ELSE detectExporterType(Credentials(e))

\* The intervals that an exporter of a type has, with their defaults.
Intervals(type) ==
    CASE type = "rest" -> [SCRAPING_INTERVAL |-> DefaultRestInterval]
      [] type = "mqtt" -> [MQTT_DEVICE_OFFLINE_THRESHOLD_SECONDS |-> DefaultOfflineThreshold,
                           MQTT_PING_INTERVAL_SECONDS |-> DefaultPingInterval,
                           MQTT_STATE_REFRESH_INTERVAL_SECONDS |-> DefaultStateRefreshInterval]
      [] OTHER -> [k \in {} |-> 0]

TypeErrors(e) ==
    LET type == ExporterType(e)
        c == Credentials(e)
        intervals == Intervals(type)
    IN (UNION {SecondsErrors(e, k, intervals[k]) : k \in DOMAIN intervals}) \cup
       CASE type = "rest" -> IF NoText \in {c.accessKey, c.secretKey} THEN {"access key"} ELSE {}
         [] type = "mqtt" -> (IF NoText \in {c.email, c.password} THEN {"password"} ELSE {})
                             \cup (IF Mapping(e) = NoDevices THEN {"devices"} ELSE {})
         [] OTHER         -> {"EXPORTER_TYPE"}

\* Mutant: returns at once when the device names cannot be parsed.
ConfigErrorsEarly(e) ==
    LET first == PortErrors(e) \cup BoolErrors(e, "PROTOBUF_DEBUG") \cup PrefixErrors(e)
                 \cup MappingErrors(e)
    IN IF MappingErrors(e) # {} THEN first
       ELSE first \cup SecretErrors(e, "ECOFLOW_SECRET_KEY")
            \cup SecretErrors(e, "ECOFLOW_PASSWORD") \cup TypeErrors(e)

\* All the errors of LoadConfig, and the configuration if there are none.
ConfigErrors(e) ==
    PortErrors(e) \cup BoolErrors(e, "PROTOBUF_DEBUG") \cup PrefixErrors(e) \cup
    MappingErrors(e) \cup SecretErrors(e, "ECOFLOW_SECRET_KEY") \cup
    SecretErrors(e, "ECOFLOW_PASSWORD") \cup TypeErrors(e)

LoadConfig(e) ==
    LET type == ExporterType(e)
        intervals == Intervals(type)
    IN [type |-> type, devices |-> Mapping(e), credentials |-> Credentials(e),
        debug |-> Bool(e, "PROTOBUF_DEBUG"),
        intervals |-> [k \in DOMAIN intervals |-> Seconds(e, k, intervals[k])]]

=============================================================================
