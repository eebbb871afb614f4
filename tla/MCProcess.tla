------------------------------ MODULE MCProcess -------------------------------
EXTENDS Process, TLC

Text(s)   == [is |-> "text", v |-> s]
Number(n) == [is |-> "number", v |-> n]
Wrong     == [is |-> "wrong"]
File(s)   == [is |-> "file", v |-> s]
NoFile    == [is |-> "nofile"]

Nothing == [k \in Settings |-> Unset]

Listed == [is |-> "list", v |-> <<"", "sn1">>]
Pretty == [is |-> "json", v |-> ("" :> "lost") @@ ("sn1" :> "Delta") @@ ("sn2" :> "River")]

\* Credentials, type and devices, in any combination.
Who ==
    [EXPORTER_TYPE : {Unset, Blank, Text("REST"), Text("mqtt"), Text("kafka")},
     ECOFLOW_ACCESS_KEY : {Unset, Text("access")},
     ECOFLOW_SECRET_KEY : {Unset, Blank, Text("secret")},
     ECOFLOW_SECRET_KEY_FILE : {Unset, File("other"), NoFile},
     ECOFLOW_EMAIL : {Unset, Text("email")},
     ECOFLOW_PASSWORD : {Unset, Text("password")},
     ECOFLOW_PASSWORD_FILE : {Unset, File("other"), File("")},
     ECOFLOW_DEVICES : {Unset, Listed},
     ECOFLOW_DEVICES_PRETTY_NAMES : {Unset, Pretty, Wrong}]

\* The other variables, two of them at a time.
Interval32 == {Blank, Wrong} \cup {Number(n) : n \in {-1, 0, 1, 3, 5, 8, 9}}
HowMuch ==
    [PROMETHEUS_PORT |-> {Blank, Wrong, Number(0), Number(65535), Number(65536)},
     PROTOBUF_DEBUG |-> {Wrong, [is |-> "bool", v |-> TRUE]},
     METRIC_PREFIX |-> {Wrong, [is |-> "name", v |-> "eco"]},
     SCRAPING_INTERVAL |-> Interval32,
     MQTT_DEVICE_OFFLINE_THRESHOLD_SECONDS |-> Interval32,
     MQTT_PING_INTERVAL_SECONDS |-> Interval32,
     MQTT_STATE_REFRESH_INTERVAL_SECONDS |-> Interval32]

RestEnv == ("ECOFLOW_ACCESS_KEY" :> Text("access")) @@ ("ECOFLOW_SECRET_KEY" :> Text("secret"))
           @@ Nothing
MqttEnv == ("ECOFLOW_EMAIL" :> Text("email")) @@ ("ECOFLOW_PASSWORD" :> Text("password"))
           @@ ("ECOFLOW_DEVICES" :> Listed) @@ Nothing
HalfEnv == ("ECOFLOW_EMAIL" :> Text("email")) @@ Nothing

MCEnvironments ==
    {who @@ Nothing : who \in Who} \cup
    UNION {{(k :> x) @@ (l :> y) @@ base : x \in HowMuch[k], y \in HowMuch[l]} :
              k, l \in DOMAIN HowMuch, base \in {RestEnv, MqttEnv, HalfEnv}}

=============================================================================
